-------------------------- MODULE WebClientProofs --------------------------
(***************************************************************************)
(* What a logout leaves behind, in the web client and in the mobile one,   *)
(* for any number of calls, logins and logouts.                            *)
(*                                                                         *)
(* The session of the web client.  Tokens: the gate is shut exactly while  *)
(* a logout is in progress.  The epoch a token is presented with is        *)
(* compared with the generation; it is the token's own, except for what    *)
(* the extension sends unasked, which is of a handoff no wipe has ended.   *)
(* Calls: an unfinished call was last sent in the generation it was made   *)
(* in, and only a read is ever sent twice.                                 *)
(* Refreshes and re-logins: the refresh of the present generation is the   *)
(* one that is joined; an attempt takes nobody's place, so that the one    *)
(* the overlay waits for is there until it takes the overlay down.         *)
(*                                                                         *)
(* Its cache: a fetch that may still write was sent with the token of the  *)
(* session, and after the last change its key was invalidated for.         *)
(*                                                                         *)
(* The mobile client: what is sent, asked for or stored in the current     *)
(* epoch is of the session on screen; what is held of the current          *)
(* generation was fetched in it; neither number ever comes back.           *)
(*                                                                         *)
(* The browser extension.  Logins: every token saved, decided on, brought  *)
(* by a POST or held by a poll is newer than the last logout answered; a   *)
(* logout waits until the runner has worked on it, and from then to its    *)
(* answer there is no flow, no POST and no request.  Renewals: only a      *)
(* capture, which listens for its end, has a tab open.                     *)
(***************************************************************************)
EXTENDS MCWebClient, MCExtension, FiniteSetTheorems, TLAPS

CallRecords ==
    [state : {"sent", "refreshing", "renewing"}, kind : Kinds,
     born : Nat, at : Nat, retried : BOOLEAN]

GateFollowsLogout == gate = IF logout = "no" THEN 0 ELSE 1

\* A call that is not over.
Faithful(q) ==
    /\ q \in CallRecords
    /\ q.at = q.born
    /\ q.retried => q.kind \in ReadKinds

CallsOK(calling) ==
    /\ DOMAIN calling = Requests
    /\ \A r \in Requests : calling[r] = Idle \/ Faithful(calling[r])

WebInv ==
    /\ generation \in Nat
    /\ GateFollowsLogout
    /\ CallsOK(requests)

-----------------------------------------------------------------------------
(* Calls                                                                     *)

LEMMA IdleIsOver ==
    /\ Idle.state = "idle"
    /\ Idle \notin CallRecords
BY DEF Idle, CallRecords

LEMMA CallIsFaithful ==
    ASSUME NEW kind \in Kinds, NEW at \in Nat, NEW retried \in BOOLEAN,
           retried => kind \in ReadKinds
    PROVE  Faithful(Call(kind, at, at, retried))
BY DEF Faithful, Call, CallRecords

LEMMA StateKeepsFaith ==
    ASSUME NEW q, Faithful(q), NEW s \in {"refreshing", "renewing"}
    PROVE  Faithful([q EXCEPT !.state = s])
BY DEF Faithful, CallRecords

\* One call that is given up, or goes on in its generation.
LEMMA OneCall ==
    ASSUME CallsOK(requests), NEW r \in Requests, NEW q, q = Idle \/ Faithful(q)
    PROVE  CallsOK([requests EXCEPT ![r] = q])
BY DEF CallsOK

LEMMA DiscardKeeps ==
    ASSUME CallsOK(requests), NEW waiting, Discard(waiting)
    PROVE  CallsOK(requests')
BY DEF CallsOK, Discard

\* What a token of a refresh makes of the calls that waited for it.
LEMMA ResumeIsFaithful ==
    ASSUME NEW q, Faithful(q), q.at = generation, generation \in Nat
    PROVE  Resume(q) = Idle \/ Faithful(Resume(q))
<1>1. q.kind \in Kinds /\ q.born = generation
  BY DEF Faithful, CallRecords
<1>2. CASE q.kind \in ServiceKinds
  <2>1. Resume(q) = [q EXCEPT !.state = "renewing"]
    BY <1>2 DEF Resume, ServiceKinds
  <2>2. Faithful([q EXCEPT !.state = "renewing"])
    BY StateKeepsFaith
  <2> QED BY <2>1, <2>2
<1>3. CASE q.kind \notin ServiceKinds /\ q.kind = "read"
  <2>1. Resume(q) = Call("read", generation, generation, TRUE)
    BY <1>1, <1>3 DEF Resume
  <2>2. Faithful(Call("read", generation, generation, TRUE))
    BY <1>1, <1>3, CallIsFaithful DEF ReadKinds
  <2> QED BY <2>1, <2>2
<1>4. CASE q.kind \notin ServiceKinds /\ q.kind # "read"
  BY <1>4 DEF Resume
<1> QED BY <1>2, <1>3, <1>4

-----------------------------------------------------------------------------
(* The invariant, action by action                                           *)

\* What a step of the login view or of an attempt leaves alone.
LEMMA LoginStepKeeps ==
    ASSUME WebInv, LoginStep
    PROVE  UNCHANGED <<lifetime, logout, requests>>
<1> USE DEF lifetime, tokens, calls, logins, Store, Failed, Succeeded
<1>1. CASE Mount \/ Unmount
  BY <1>1 DEF Mount, Unmount
<1>2. CASE BridgeToken \/ BridgeError
  BY <1>2 DEF BridgeToken, BridgeError
<1>3. ASSUME NEW kind \in {"handoff", "capture"}, Click(kind) \/ ClickInLogout(kind)
      PROVE  UNCHANGED <<lifetime, logout, requests>>
  BY <1>3 DEF Click, ClickInLogout
<1>4. ASSUME NEW kind \in {"handoff", "capture"}, NEW a \in Attempts,
             AnswerToken(a, kind) \/ AnswerNothing(a, kind)
      PROVE  UNCHANGED <<lifetime, logout, requests>>
  BY <1>4 DEF AnswerToken, AnswerNothing
<1>5. ASSUME NEW a \in Attempts, AnswerStarted(a)
      PROVE  UNCHANGED <<lifetime, logout, requests>>
  BY <1>5 DEF AnswerStarted
<1>6. ASSUME NEW a \in Attempts, PollReads(a) \/ PollToken(a) \/ PollError(a)
      PROVE  UNCHANGED <<lifetime, logout, requests>>
  BY <1>6 DEF PollReads, PollToken, PollError
<1>7. ASSUME NEW a \in Attempts, PollAgain(a) \/ PollDropped(a)
      PROVE  UNCHANGED <<lifetime, logout, requests>>
  BY <1>7 DEF PollAgain, PollDropped
<1> QED BY <1>1, <1>2, <1>3, <1>4, <1>5, <1>6, <1>7 DEF LoginStep

\* A step of the API client keeps its calls faithful.
LEMMA RequestStepKeeps ==
    ASSUME WebInv, RequestStep
    PROVE  /\ UNCHANGED <<lifetime, logout>>
           /\ CallsOK(requests')
<1> USE DEF lifetime, tokens, calls, logins
<1>0. CallsOK(requests) /\ generation \in Nat
  BY DEF WebInv
<1>1. ASSUME NEW r \in Requests, NEW kind \in Kinds, Send(r, kind)
      PROVE  UNCHANGED <<lifetime, logout>> /\ CallsOK(requests')
  <2>1. Faithful(Call(kind, generation, generation, FALSE))
    BY <1>0, CallIsFaithful
  <2> QED BY <1>0, <1>1, <2>1, OneCall DEF Send
<1>2. ASSUME NEW r \in Requests, Answered(r) \/ Rejected(r)
      PROVE  UNCHANGED <<lifetime, logout>> /\ CallsOK(requests')
  BY <1>0, <1>2, OneCall DEF Answered, Rejected
<1>3. ASSUME NEW r \in Requests, FirstUnauthorized(r)
      PROVE  UNCHANGED <<lifetime, logout>> /\ CallsOK(requests')
  <2>1. Faithful(requests[r])
    BY <1>0, <1>3, IdleIsOver DEF FirstUnauthorized, CallsOK
  <2>2. Faithful([requests[r] EXCEPT !.state = "refreshing"])
    BY <2>1, StateKeepsFaith
  <2>3. requests' = [requests EXCEPT
                       ![r] = [requests[r] EXCEPT !.state = "refreshing"]]
    BY <1>3 DEF FirstUnauthorized, RefreshOnce
  <2>4. CallsOK(requests')
    BY <1>0, <2>2, <2>3, OneCall
  <2> QED BY <1>3, <2>4 DEF FirstUnauthorized
<1>4. ASSUME NEW r \in Requests, SecondUnauthorized(r)
      PROVE  UNCHANGED <<lifetime, logout>> /\ CallsOK(requests')
  BY <1>0, <1>4, OneCall DEF SecondUnauthorized, WipeAndReauth
<1>5. ASSUME NEW f \in refreshes, Refreshed(f)
      PROVE  UNCHANGED <<lifetime, logout>> /\ CallsOK(requests')
  <2>1. f.epoch = generation
    BY <1>5 DEF Refreshed, IsCurrent
  <2>2. ASSUME NEW r \in Requests, r \in WaitFor(f)
        PROVE  Resume(requests[r]) = Idle \/ Faithful(Resume(requests[r]))
    <3>1. Faithful(requests[r]) /\ requests[r].at = generation
      BY <1>0, <2>1, <2>2, IdleIsOver DEF WaitFor, CallsOK
    <3> QED BY <1>0, <3>1, ResumeIsFaithful
  <2>3. requests' = [r \in Requests |-> IF r \in WaitFor(f)
                                          THEN Resume(requests[r])
                                          ELSE requests[r]]
    BY <1>5 DEF Refreshed
  <2>4. CallsOK(requests')
    BY <1>0, <2>2, <2>3 DEF CallsOK
  <2> QED BY <1>5, <2>4 DEF Refreshed
<1>6. ASSUME NEW f \in refreshes, SessionDead(f) \/ RefreshLost(f)
      PROVE  UNCHANGED <<lifetime, logout>> /\ CallsOK(requests')
  BY <1>0, <1>6, DiscardKeeps DEF SessionDead, RefreshLost, WipeAndReauth
<1>7. CASE Relogin
  BY <1>0, <1>7 DEF Relogin
<1>8. ASSUME NEW t \in renewals, NEW outcome, Renewed(t, outcome)
      PROVE  UNCHANGED <<lifetime, logout>> /\ CallsOK(requests')
  <2>1. ASSUME NEW r \in Requests, requests[r].state = "renewing",
               requests[r].at = t.at, Fenced(t), requests[r].kind \in ReadKinds
        PROVE  Faithful(Call(requests[r].kind, requests[r].born, generation,
                             TRUE))
    <3>1. Faithful(requests[r])
      BY <1>0, <2>1, IdleIsOver DEF CallsOK
    <3>2. requests[r].kind \in Kinds /\ requests[r].born = generation
      BY <2>1, <3>1 DEF Faithful, CallRecords, Fenced, IsCurrent
    <3> QED BY <1>0, <2>1, <3>2, CallIsFaithful
  <2>2. CallsOK(requests')
    BY <1>0, <1>8, <2>1 DEF Renewed, CallsOK
  <2> QED BY <1>8, <2>2 DEF Renewed
<1> QED BY <1>1, <1>2, <1>3, <1>4, <1>5, <1>6, <1>7, <1>8 DEF RequestStep

\* The invariant of the web client's session: the gate follows the logout, and
\* calls stay in their generation.
THEOREM SessionInvariant == WebSpec => []WebInv
<1>1. WebInit => WebInv
  BY DEF WebInit, WebInv, GateFollowsLogout, CallsOK
<1>2. WebInv /\ [WebNext]_webVars => WebInv'
  <2> SUFFICES ASSUME WebInv, [WebNext]_webVars PROVE WebInv'
    OBVIOUS
  <2>1. CASE LoginStep
    BY <2>1, LoginStepKeeps
       DEF WebInv, GateFollowsLogout, CallsOK, lifetime
  <2>2. CASE RequestStep
    BY <2>2, RequestStepKeeps
       DEF WebInv, GateFollowsLogout, lifetime
  <2>3. CASE LogoutBegins
    BY <2>3 DEF LogoutBegins, WebInv, GateFollowsLogout, CallsOK, calls
  <2>4. CASE Wiped
    BY <2>4 DEF Wiped, WebInv, GateFollowsLogout, CallsOK,
                lifetime
  <2>5. CASE WipeConfirmed \/ WipeUnconfirmed
    BY <2>5 DEF WipeConfirmed, WipeUnconfirmed, GateFalls, WebInv,
                GateFollowsLogout, CallsOK, calls
  <2>6. CASE UNCHANGED webVars
    BY <2>6 DEF webVars, lifetime, calls, WebInv, GateFollowsLogout, CallsOK
  <2> QED BY <2>1, <2>2, <2>3, <2>4, <2>5, <2>6 DEF WebNext
<1> QED BY <1>1, <1>2, PTL DEF WebSpec

-----------------------------------------------------------------------------
(* What follows                                                              *)

\* A call is repeated in the generation in which its caller made it, and only
\* if it is a read: no retry of the interceptor crosses a logout (api/client.ts).
THEOREM RepeatsAreOwn == WebSpec => []RepeatsStayInTheirSession
<1>1. WebInv => RepeatsStayInTheirSession
  BY IdleIsOver DEF WebInv, CallsOK, Faithful, RepeatsStayInTheirSession
<1> QED BY <1>1, SessionInvariant, PTL

\* A token that a step puts into localStorage or the store is of generation e.
Brings(e) == \A t \in {local', token'} \ {local, token, None} : t.at = e

LEMMA StoreBrings ==
    ASSUME NEW e, Store(e)
    PROVE  Brings(e)
BY DEF Store, Brings

\* Every way in which a token arrives, in a session that is open.
LEMMA TokensArriveInTime ==
    ASSUME WebInv, WebNext
    PROVE  \A t \in {local', token'} \ {local, token, None} :
              gate' = 0 /\ (t.at = generation' \/ Undropped(t))
<1> SUFFICES ASSUME NEW t \in {local', token'} \ {local, token, None}
             PROVE  gate' = 0 /\ (t.at = generation' \/ Undropped(t))
  OBVIOUS
<1> USE DEF lifetime, tokens, calls, logins
<1>1. CASE LoginStep
  <2>0. generation' = generation /\ gate' = gate
    BY <1>1, LoginStepKeeps
  <2>1. CASE Mount \/ Unmount \/ BridgeError
    BY <2>1 DEF Mount, Unmount, BridgeError
  <2>2. ASSUME NEW kind \in {"handoff", "capture"},
               Click(kind) \/ ClickInLogout(kind)
        PROVE  t.at = generation /\ gate = 0
    BY <2>2 DEF Click, ClickInLogout
  <2>3. ASSUME NEW kind \in {"handoff", "capture"}, NEW a \in Attempts,
               AnswerToken(a, kind)
        PROVE  t.at = generation /\ gate = 0
    BY <2>3, StoreBrings DEF AnswerToken, Owns, IsCurrent, Brings
  <2>4. ASSUME NEW kind \in {"handoff", "capture"}, NEW a \in Attempts,
               AnswerNothing(a, kind)
        PROVE  t.at = generation /\ gate = 0
    BY <2>4 DEF AnswerNothing
  <2>5. ASSUME NEW e \in extFlows, NEW x, FinishHandoff(e, x)
        PROVE  t.at \in extFlows /\ x = generation /\ gate = 0
    <3>1. IsCurrent(x)
      BY <2>5 DEF FinishHandoff
    <3> QED BY <2>5, <3>1, StoreBrings DEF FinishHandoff, Brings, IsCurrent
  <2>6. CASE BridgeToken
    <3>1. t.at \in extFlows /\ view.epoch = generation /\ gate = 0
      BY <2>5, <2>6 DEF BridgeToken
    <3>2. view.mounted /\ ~view'.mounted /\ UNCHANGED <<attempts, refreshes>>
      BY <2>6 DEF BridgeToken, Unmounted
    <3> QED BY <2>0, <3>1, <3>2 DEF Undropped
  <2>7. ASSUME NEW a \in Attempts, PollToken(a)
        PROVE  gate = 0 /\ Undropped(t)
    <3>1. t.at \in extFlows /\ attempts[a].epoch = generation /\ gate = 0
      BY <2>5, <2>7 DEF PollToken
    <3>2. Reading(a) /\ Ends(a)
      BY <2>7 DEF PollToken
    <3> QED BY <3>1, <3>2 DEF Undropped
  <2>8. ASSUME NEW a \in Attempts,
               \/ AnswerStarted(a) \/ PollReads(a) \/ PollError(a)
               \/ PollAgain(a) \/ PollDropped(a)
        PROVE  t.at = generation /\ gate = 0
    BY <2>8 DEF AnswerStarted, PollReads, PollError, PollAgain, PollDropped
  <2> QED BY <1>1, <2>0, <2>1, <2>2, <2>3, <2>4, <2>6, <2>7, <2>8
          DEF LoginStep
<1>2. CASE RequestStep
  <2>0. generation' = generation /\ gate' = gate
    BY <1>2, RequestStepKeeps
  <2>1. CASE \E r \in Requests :
                \/ \E kind \in Kinds : Send(r, kind)
                \/ Answered(r) \/ Rejected(r) \/ FirstUnauthorized(r)
    BY <2>1 DEF Send, Answered, Rejected, FirstUnauthorized
  <2>2. CASE \E r \in Requests : SecondUnauthorized(r)
    BY <2>2 DEF SecondUnauthorized, WipeAndReauth
  <2>3. ASSUME NEW f \in refreshes, Refreshed(f)
        PROVE  t.at = generation /\ gate = 0
    BY <2>3 DEF Refreshed, IsCurrent
  <2>4. CASE \E f \in refreshes : SessionDead(f) \/ RefreshLost(f)
    BY <2>4 DEF SessionDead, RefreshLost, WipeAndReauth
  <2>5. CASE Relogin
    BY <2>5 DEF Relogin
  <2>6. ASSUME NEW s \in renewals, NEW outcome, Renewed(s, outcome)
        PROVE  t.at = generation /\ gate = 0
    BY <2>6 DEF Renewed
  <2> QED BY <1>2, <2>0, <2>1, <2>2, <2>3, <2>4, <2>5, <2>6 DEF RequestStep
<1>3. CASE LogoutBegins \/ Wiped \/ WipeConfirmed \/ WipeUnconfirmed
  BY <1>3 DEF LogoutBegins, Wiped, WipeConfirmed, WipeUnconfirmed, GateFalls
<1> QED BY <1>1, <1>2, <1>3 DEF WebNext

\* No refresh, capture or answer to a handoff of before a logout brings a session
\* back, and what the extension sends later does so only for a handoff that no
\* wipe was confirmed to have ended (lib/session-lifetime.ts, stores/auth.ts).
THEOREM NoTokenIsLate == WebSpec => NoLateToken
<1>1. WebInv /\ [WebNext]_webVars =>
        [\A t \in {local', token'} \ {local, token, None} :
            gate' = 0 /\ (t.at = generation' \/ Undropped(t))]_webVars
  BY TokensArriveInTime
<1> QED BY <1>1, SessionInvariant, PTL DEF WebSpec, NoLateToken

-----------------------------------------------------------------------------
(* What a refresh and a re-login of the web client leave behind              *)

AttemptRecords ==
    {Idle, [state |-> "over"]} \cup
    [state : {"asked", "polling", "reading"}, owner : {"reauth", "view", "capture"}, epoch : Nat]

\* The attempts begun are the first n.
AttemptsOK(n) ==
    /\ DOMAIN attempts = Attempts
    /\ \A a \in Attempts : attempts[a] \in AttemptRecords /\ (attempts[a] # Idle <=> a <= n)

\* Attempt a is the re-login that the overlay of this generation waits for.
OwnerOfOverlay(a) ==
    /\ attempts[a] # Idle /\ attempts[a].state # "over"
    /\ attempts[a].owner = "reauth" /\ attempts[a].epoch = generation

\* The overlay goes up in a session that is open, and is down when a logout is
\* about to end.
OverlayOK ==
    /\ reauth \in [attempted : BOOLEAN, overlay : BOOLEAN]
    /\ reauth.overlay => gate > 0 \/ \E a \in Attempts : OwnerOfOverlay(a)
    /\ logout = "wiping" => ~ reauth.overlay

\* The refresh of the present generation is the one that 401s join.
RefreshesOK ==
    /\ IsFiniteSet(refreshes)
    /\ \A f \in refreshes :
          /\ f \in [no : Nat, epoch : Nat] /\ f.epoch <= generation
          /\ f.epoch = generation => f = shared
    /\ shared = None \/ shared \in refreshes
    /\ OneRefreshPerGeneration

FenceInv ==
    /\ \E n \in 0 .. MaxAttempts : AttemptsOK(n)
    /\ OverlayOK
    /\ RefreshesOK

\* A number that no refresh under way has.
LEMMA FreshNumberIsFree ==
    ASSUME IsFiniteSet(refreshes)
    PROVE  FreshNumber \in Nat
<1> DEFINE C == Cardinality(refreshes)
           numbers == 1 .. C + 1
<1>1. C \in Nat
  BY FS_CardinalityType
<1>2. \E n \in numbers : \A f \in refreshes : f.no # n
  <2> SUFFICES ASSUME \A n \in numbers : \E f \in refreshes : f.no = n
               PROVE  FALSE
    OBVIOUS
  <2> DEFINE named == [n \in numbers |-> CHOOSE f \in refreshes : f.no = n]
  <2>1. named \in [numbers -> refreshes] /\ \A n \in numbers : named[n].no = n
    OBVIOUS
  <2>2. IsFiniteSet(numbers) /\ Cardinality(numbers) = C + 1
    BY <1>1, FS_Interval
  <2> HIDE DEF named, numbers
  <2>3. Cardinality(refreshes) < Cardinality(numbers)
    BY <1>1, <2>2
  <2>4. \E m, n \in numbers : m # n /\ named[m] = named[n]
    BY <2>1, <2>2, <2>3, FS_PigeonHole
  <2> QED BY <2>1, <2>4
<1>3. FreshNumber \in numbers
  BY <1>2 DEF FreshNumber
<1> QED BY <1>1, <1>3

LEMMA RefreshOnceKeeps ==
    ASSUME RefreshesOK, generation \in Nat, NEW r \in Requests, RefreshOnce(r),
           generation' = generation
    PROVE  RefreshesOK'
<1> DEFINE new == [no |-> FreshNumber, epoch |-> generation]
<1>1. new \in [no : Nat, epoch : Nat] /\ new.epoch = generation
  BY FreshNumberIsFree DEF RefreshesOK
<1>2. CASE shared # None /\ shared.epoch = generation
  <2>1. refreshes' = refreshes /\ shared' = shared
    BY <1>2 DEF RefreshOnce, RefreshesOK
  <2> QED BY <2>1 DEF RefreshesOK, OneRefreshPerGeneration
<1>3. CASE ~ (shared # None /\ shared.epoch = generation)
  <2>1. refreshes' = refreshes \cup {new} /\ shared' = new
    BY <1>3 DEF RefreshOnce
  <2> HIDE DEF new
  <2>2. \A f \in refreshes : f.epoch # generation /\ f.epoch <= generation
    BY <1>3, NoneIsNothing DEF RefreshesOK
  <2>3. IsFiniteSet(refreshes')
    BY <2>1, FS_AddElement DEF RefreshesOK
  <2> QED BY <1>1, <2>1, <2>2, <2>3 DEF RefreshesOK, OneRefreshPerGeneration
<1> QED BY <1>2, <1>3

LEMMA ReleaseKeeps ==
    ASSUME RefreshesOK, NEW f \in refreshes, Release(f), generation' = generation
    PROVE  RefreshesOK'
<1>1. IsFiniteSet(refreshes')
  BY FS_RemoveElement DEF RefreshesOK, Release
<1> QED BY <1>1 DEF RefreshesOK, Release, OneRefreshPerGeneration

LEMMA BegunAre ==
    ASSUME NEW n \in 0 .. MaxAttempts, AttemptsOK(n)
    PROVE  Begun = n
<1>1. {a \in Attempts : attempts[a] # Idle} = 1 .. n
  BY WebBounds DEF AttemptsOK, Attempts
<1>2. n \in Nat
  BY WebBounds
<1>3. Cardinality(1 .. n) = n
  BY <1>2, FS_Interval
<1> QED BY <1>1, <1>3 DEF Begun

\* What an attempt has in its hands besides its state stays.
LEMMA AttemptRecordParts ==
    ASSUME NEW q \in AttemptRecords, q # Idle, q.state \in {"asked", "polling", "reading"}
    PROVE  /\ q.epoch \in Nat
           /\ \A s \in {"asked", "polling", "reading"} :
                /\ [q EXCEPT !.state = s] \in AttemptRecords
                /\ [q EXCEPT !.state = s].state = s
                /\ [q EXCEPT !.state = s].owner = q.owner
                /\ [q EXCEPT !.state = s].epoch = q.epoch
BY DEF AttemptRecords, Idle

\* A new attempt takes nobody's place.
LEMMA BeginKeeps ==
    ASSUME NEW n \in 0 .. MaxAttempts, AttemptsOK(n), Begun < MaxAttempts,
           NEW owner \in {"reauth", "view", "capture"}, generation \in Nat,
           attempts' = Begin(owner)
    PROVE  /\ n + 1 \in Attempts /\ AttemptsOK(n + 1)'
           /\ attempts'[n + 1] = [state |-> "asked", owner |-> owner, epoch |-> generation]
           /\ attempts[n + 1] = Idle
           /\ \A a \in Attempts \ {n + 1} : attempts'[a] = attempts[a]
<1> DEFINE new == [state |-> "asked", owner |-> owner, epoch |-> generation]
<1>1. Begun = n /\ n + 1 \in Attempts
  BY BegunAre, WebBounds DEF Attempts
<1>2. new \in AttemptRecords /\ new # Idle
  BY DEF AttemptRecords, Idle
<1>3. attempts' = [attempts EXCEPT ![n + 1] = new]
  BY <1>1 DEF Begin
<1> HIDE DEF new
<1>4. AttemptsOK(n + 1)'
  BY <1>1, <1>2, <1>3, WebBounds DEF AttemptsOK, Attempts
<1>5. attempts[n + 1] = Idle
  BY <1>1, WebBounds DEF AttemptsOK, Attempts
<1> QED BY <1>1, <1>3, <1>4, <1>5 DEF AttemptsOK, new

LEMMA EndsKeeps ==
    ASSUME NEW n \in 0 .. MaxAttempts, AttemptsOK(n), NEW a \in Attempts, attempts[a] # Idle,
           \/ Ends(a)
           \/ /\ attempts[a].state \in {"asked", "polling", "reading"}
              /\ \E s \in {"polling", "reading"} : Becomes(a, s)
    PROVE  AttemptsOK(n)'
<1>1. attempts[a] \in AttemptRecords
  BY DEF AttemptsOK
<1>2. CASE Ends(a)
  <2>1. [state |-> "over"] \in AttemptRecords /\ [state |-> "over"] # Idle
    BY DEF AttemptRecords, Idle
  <2> QED BY <1>2, <2>1 DEF Ends, AttemptsOK
<1>3. ASSUME attempts[a].state \in {"asked", "polling", "reading"},
             NEW s \in {"polling", "reading"}, Becomes(a, s)
      PROVE  AttemptsOK(n)'
  <2> DEFINE q == [attempts[a] EXCEPT !.state = s]
  <2>1. q \in AttemptRecords /\ q.state = s
    BY ZenonT(60), <1>1, <1>3, AttemptRecordParts
  <2>2. q # Idle
    BY <2>1 DEF Idle
  <2>3. attempts' = [attempts EXCEPT ![a] = q]
    BY <1>3 DEF Becomes
  <2> HIDE DEF q
  <2> QED BY <2>1, <2>2, <2>3 DEF AttemptsOK
<1> QED BY <1>2, <1>3
\* The overlay stays with its owner, unless that one ends in a session that is
\* open and takes the overlay down.
LEMMA OverlayStays ==
    ASSUME OverlayOK, UNCHANGED <<generation, gate, logout>>,
           reauth' \in [attempted : BOOLEAN, overlay : BOOLEAN],
           reauth'.overlay => reauth.overlay,
           \A a \in Attempts :
              (OwnerOfOverlay(a) /\ ~ OwnerOfOverlay(a)') => (gate > 0 \/ ~ reauth'.overlay)
    PROVE  OverlayOK'
BY DEF OverlayOK

\* An attempt that ends, or goes on polling.
LEMMA AttemptStepKeeps ==
    ASSUME FenceInv, GateFollowsLogout, UNCHANGED <<generation, gate, logout>>,
           NEW a \in Attempts, attempts[a] # Idle,
           \/ /\ Ends(a)
              /\ \/ reauth' = [reauth EXCEPT !.overlay = @ /\ ~ OwnsOverlay(a)]
                 \/ reauth' = reauth /\ ~ OwnerOfOverlay(a)
           \/ /\ attempts[a].state \in {"asked", "polling", "reading"}
              /\ \E s \in {"polling", "reading"} : Becomes(a, s)
              /\ reauth' = reauth
    PROVE  (\E n \in 0 .. MaxAttempts : AttemptsOK(n))' /\ OverlayOK'
<1>1. PICK n \in 0 .. MaxAttempts : AttemptsOK(n)
  BY DEF FenceInv
<1>2. AttemptsOK(n)'
  BY <1>1, EndsKeeps
<1>3. attempts[a] \in AttemptRecords /\ OverlayOK
  BY <1>1 DEF AttemptsOK, FenceInv
<1>4. ASSUME NEW b \in Attempts, b # a
      PROVE  OwnerOfOverlay(b)' = OwnerOfOverlay(b)
  <2>1. attempts'[b] = attempts[b]
    BY <1>1, <1>4 DEF AttemptsOK, Ends, Becomes
  <2> QED BY <2>1 DEF OwnerOfOverlay
<1>5. CASE /\ Ends(a)
           /\ \/ reauth' = [reauth EXCEPT !.overlay = @ /\ ~ OwnsOverlay(a)]
              \/ reauth' = reauth /\ ~ OwnerOfOverlay(a)
  <2>1. OwnerOfOverlay(a) => OwnsOverlay(a) \/ gate > 0
    BY DEF OwnerOfOverlay, OwnsOverlay, IsCurrent, GateFollowsLogout
  <2>2. reauth \in [attempted : BOOLEAN, overlay : BOOLEAN]
    BY <1>3 DEF OverlayOK
  <2>3. /\ reauth' \in [attempted : BOOLEAN, overlay : BOOLEAN]
        /\ reauth'.overlay => reauth.overlay
        /\ OwnerOfOverlay(a) => gate > 0 \/ ~ reauth'.overlay
    <3>1. CASE reauth' = reauth /\ ~ OwnerOfOverlay(a)
      BY <2>2, <3>1
    <3>2. CASE reauth' = [reauth EXCEPT !.overlay = @ /\ ~ OwnsOverlay(a)]
      <4> DEFINE up == reauth.overlay /\ ~ OwnsOverlay(a)
      <4>1. up \in BOOLEAN /\ (up => reauth.overlay) /\ (OwnsOverlay(a) => ~ up)
        OBVIOUS
      <4>2. reauth' = [reauth EXCEPT !.overlay = up]
        BY <3>2
      <4> HIDE DEF up
      <4>3. reauth'.overlay = up /\ reauth' \in [attempted : BOOLEAN, overlay : BOOLEAN]
        BY <2>2, <4>1, <4>2
      <4> QED BY <2>1, <4>1, <4>3
    <3> QED BY <1>5, <3>1, <3>2
  <2>5. OverlayOK'
    BY <1>3, <1>4, <2>3, OverlayStays
  <2> QED BY <1>2, <2>5
<1>6. ASSUME attempts[a].state \in {"asked", "polling", "reading"},
             NEW s \in {"polling", "reading"}, Becomes(a, s), reauth' = reauth
      PROVE  OverlayOK'
  <2>1. attempts'[a] = [attempts[a] EXCEPT !.state = s]
    BY <1>1, <1>6 DEF Becomes, AttemptsOK
  <2>2. attempts'[a].state = s /\ attempts'[a].owner = attempts[a].owner
        /\ attempts'[a].epoch = attempts[a].epoch
    BY <1>3, <1>6, <2>1, AttemptRecordParts
  <2>3. OwnerOfOverlay(a) => OwnerOfOverlay(a)'
    BY <1>6, <2>2 DEF OwnerOfOverlay, Idle
  <2>4. reauth \in [attempted : BOOLEAN, overlay : BOOLEAN]
    BY <1>3 DEF OverlayOK
  <2> QED BY <1>3, <1>4, <1>6, <2>3, <2>4, OverlayStays
<1> QED BY <1>2, <1>5, <1>6

\* A new attempt: of the view, or of a re-login with its overlay.
LEMMA BeginStepKeeps ==
    ASSUME FenceInv, generation \in Nat, UNCHANGED <<generation, gate, logout>>,
           Begun < MaxAttempts,
           NEW owner \in {"reauth", "view", "capture"}, attempts' = Begin(owner),
           \/ reauth' = reauth
           \/ /\ owner = "reauth" /\ logout # "wiping"
              /\ reauth' = [attempted |-> TRUE, overlay |-> TRUE]
    PROVE  (\E n \in 0 .. MaxAttempts : AttemptsOK(n))' /\ OverlayOK'
<1>1. PICK n \in 0 .. MaxAttempts : AttemptsOK(n)
  BY DEF FenceInv
<1>2. /\ n + 1 \in Attempts /\ AttemptsOK(n + 1)'
      /\ attempts'[n + 1] = [state |-> "asked", owner |-> owner, epoch |-> generation]
      /\ attempts[n + 1] = Idle
      /\ \A a \in Attempts \ {n + 1} : attempts'[a] = attempts[a]
  BY <1>1, BeginKeeps
<1>3. n + 1 \in 0 .. MaxAttempts
  BY <1>2, WebBounds DEF Attempts
<1>4. \A a \in Attempts : OwnerOfOverlay(a) => OwnerOfOverlay(a)'
  BY <1>2 DEF OwnerOfOverlay
<1>5. CASE reauth' = reauth
  BY <1>2, <1>3, <1>4, <1>5 DEF FenceInv, OverlayOK
<1>6. CASE owner = "reauth" /\ logout # "wiping" /\ reauth' = [attempted |-> TRUE, overlay |-> TRUE]
  <2>1. OwnerOfOverlay(n + 1)'
    BY <1>2, <1>6 DEF OwnerOfOverlay, Idle
  <2> QED BY <1>2, <1>3, <1>6, <2>1 DEF OverlayOK
<1> QED BY <1>5, <1>6

\* A click that sends nothing: its attempt is over.
LEMMA NothingBegunKeeps ==
    ASSUME FenceInv, UNCHANGED <<generation, gate, logout, reauth>>, Begun < MaxAttempts,
           attempts' = [attempts EXCEPT ![Begun + 1] = [state |-> "over"]]
    PROVE  (\E n \in 0 .. MaxAttempts : AttemptsOK(n))' /\ OverlayOK'
<1>1. PICK n \in 0 .. MaxAttempts : AttemptsOK(n)
  BY DEF FenceInv
<1>2. Begun = n /\ n + 1 \in Attempts /\ n + 1 \in 0 .. MaxAttempts
  BY <1>1, BegunAre, WebBounds DEF Attempts
<1> DEFINE over == [state |-> "over"]
<1>3. over \in AttemptRecords /\ over # Idle
  BY DEF AttemptRecords, Idle
<1>4. attempts' = [attempts EXCEPT ![n + 1] = over]
  BY <1>2
<1> HIDE DEF over
<1>5. AttemptsOK(n + 1)'
  BY <1>1, <1>2, <1>3, <1>4, WebBounds DEF AttemptsOK, Attempts
<1>6. attempts[n + 1] = Idle
  BY <1>1, <1>2, WebBounds DEF AttemptsOK, Attempts
<1>7. ASSUME NEW a \in Attempts, OwnerOfOverlay(a)
      PROVE  OwnerOfOverlay(a)'
  <2>1. attempts'[a] = attempts[a]
    BY <1>1, <1>4, <1>6, <1>7 DEF AttemptsOK, OwnerOfOverlay
  <2> QED BY <1>7, <2>1 DEF OwnerOfOverlay
<1>8. OverlayOK'
  BY <1>7 DEF FenceInv, OverlayOK
<1> QED BY <1>2, <1>5, <1>8

LEMMA FenceStays ==
    ASSUME FenceInv, UNCHANGED <<generation, gate, logout, attempts, reauth>>
    PROVE  (\E n \in 0 .. MaxAttempts : AttemptsOK(n))' /\ OverlayOK'
BY DEF FenceInv, AttemptsOK, OverlayOK, OwnerOfOverlay

\* A 401 of an open session.
LEMMA WipeAndReauthKeeps ==
    ASSUME FenceInv, WebInv, gate = 0, WipeAndReauth, UNCHANGED <<lifetime, logout>>
    PROVE  (\E n \in 0 .. MaxAttempts : AttemptsOK(n))' /\ OverlayOK'
<1>1. generation \in Nat /\ logout = "no" /\ UNCHANGED <<generation, gate, logout>>
  BY DEF WebInv, GateFollowsLogout, lifetime
<1>2. CASE reauth.attempted
  BY <1>1, <1>2, FenceStays DEF WipeAndReauth, logins
<1>3. CASE ~ reauth.attempted
  BY <1>1, <1>3, BeginStepKeeps DEF WipeAndReauth
<1> QED BY <1>2, <1>3

LEMMA LoginKeepsFence ==
    ASSUME FenceInv, WebInv, LoginStep
    PROVE  FenceInv'
<1>1. /\ UNCHANGED <<generation, gate, logout>> /\ UNCHANGED <<refreshes, shared>>
      /\ generation \in Nat /\ GateFollowsLogout
  <2>1. UNCHANGED <<lifetime, logout>>
    BY LoginStepKeeps
  <2>2. UNCHANGED <<refreshes, shared>>
    BY DEF LoginStep, Mount, Unmount, BridgeToken, BridgeError, Click, ClickInLogout, AnswerToken,
           AnswerNothing, AnswerStarted, PollReads, PollToken, PollError, PollAgain, PollDropped, calls
  <2> QED BY <2>1, <2>2 DEF lifetime, WebInv
<1>2. RefreshesOK'
  BY <1>1 DEF FenceInv, RefreshesOK, OneRefreshPerGeneration
<1> SUFFICES (\E n \in 0 .. MaxAttempts : AttemptsOK(n))' /\ OverlayOK'
  BY <1>2 DEF FenceInv
<1>3. CASE Mount \/ Unmount \/ BridgeToken \/ BridgeError
  BY <1>1, <1>3, FenceStays DEF Mount, Unmount, BridgeToken, BridgeError
<1>4. ASSUME NEW kind \in {"handoff", "capture"}, Click(kind)
      PROVE  (\E n \in 0 .. MaxAttempts : AttemptsOK(n))' /\ OverlayOK'
  BY <1>1, <1>4, BeginStepKeeps DEF Click, Clickable
<1>10. ASSUME NEW kind \in {"handoff", "capture"}, ClickInLogout(kind)
      PROVE  (\E n \in 0 .. MaxAttempts : AttemptsOK(n))' /\ OverlayOK'
  BY <1>1, <1>10, NothingBegunKeeps DEF ClickInLogout, Clickable
<1>5. ASSUME NEW kind \in {"handoff", "capture"}, NEW a \in Attempts,
             AnswerToken(a, kind) \/ AnswerNothing(a, kind)
      PROVE  (\E n \in 0 .. MaxAttempts : AttemptsOK(n))' /\ OverlayOK'
  BY <1>1, <1>5, AttemptStepKeeps DEF AnswerToken, AnswerNothing, Asked, Succeeded, Failed
<1>6. ASSUME NEW a \in Attempts, AnswerStarted(a)
      PROVE  (\E n \in 0 .. MaxAttempts : AttemptsOK(n))' /\ OverlayOK'
  <2>1. attempts[a] # Idle /\ attempts[a].state = "asked"
    BY <1>6 DEF AnswerStarted, Asked
  <2>2. \/ Becomes(a, "polling") /\ reauth' = reauth
        \/ Ends(a) /\ reauth' = [reauth EXCEPT !.overlay = @ /\ ~ OwnsOverlay(a)]
    BY <1>6 DEF AnswerStarted, Failed
  <2> QED BY <1>1, <2>1, <2>2, AttemptStepKeeps
<1>7. ASSUME NEW a \in Attempts, PollReads(a)
      PROVE  (\E n \in 0 .. MaxAttempts : AttemptsOK(n))' /\ OverlayOK'
  BY <1>1, <1>7, AttemptStepKeeps DEF PollReads
<1>8. ASSUME NEW a \in Attempts, PollToken(a) \/ PollError(a)
      PROVE  (\E n \in 0 .. MaxAttempts : AttemptsOK(n))' /\ OverlayOK'
  BY <1>1, <1>8, AttemptStepKeeps DEF PollToken, PollError, Reading, Succeeded, Failed
<1>9. ASSUME NEW a \in Attempts, PollAgain(a) \/ PollDropped(a)
      PROVE  (\E n \in 0 .. MaxAttempts : AttemptsOK(n))' /\ OverlayOK'
  <2>1. /\ attempts[a] # Idle /\ attempts[a].state \in {"polling", "reading"}
        /\ reauth' = reauth
    BY <1>9 DEF PollAgain, PollDropped, Reading
  <2>2. Becomes(a, "polling") \/ (Ends(a) /\ ~ OwnerOfOverlay(a))
    BY <1>9 DEF PollAgain, PollDropped, Polls, OwnerOfOverlay
  <2> QED BY <1>1, <2>1, <2>2, AttemptStepKeeps
<1> QED BY <1>3, <1>4, <1>5, <1>6, <1>7, <1>8, <1>9, <1>10 DEF LoginStep

LEMMA RequestKeepsFence ==
    ASSUME FenceInv, WebInv, RequestStep
    PROVE  FenceInv'
<1>1. /\ UNCHANGED <<lifetime, logout>> /\ UNCHANGED <<generation, gate>>
      /\ generation \in Nat /\ RefreshesOK
  BY RequestStepKeeps DEF lifetime, WebInv, FenceInv
<1>2. CASE \/ \E r \in Requests :
                 \/ \E kind \in Kinds : Send(r, kind)
                 \/ Answered(r) \/ Rejected(r)
           \/ Relogin
           \/ \E t \in renewals, outcome \in {"recovered", "interaction-required", "unavailable"} :
                 Renewed(t, outcome)
  <2>1. UNCHANGED <<refreshes, shared, attempts, reauth>>
    BY <1>2 DEF Send, Answered, Rejected, Relogin, Renewed, logins
  <2>2. RefreshesOK'
    BY <1>1, <2>1 DEF RefreshesOK, OneRefreshPerGeneration
  <2> QED BY <1>1, <2>1, <2>2, FenceStays DEF FenceInv
<1>3. ASSUME NEW r \in Requests, FirstUnauthorized(r)
      PROVE  FenceInv'
  <2>1. RefreshesOK'
    BY <1>1, <1>3, RefreshOnceKeeps DEF FirstUnauthorized
  <2> QED BY <1>1, <1>3, <2>1, FenceStays DEF FirstUnauthorized, logins, FenceInv
<1>4. ASSUME NEW r \in Requests, SecondUnauthorized(r)
      PROVE  FenceInv'
  <2>1. RefreshesOK'
    BY <1>1, <1>4 DEF SecondUnauthorized, RefreshesOK, OneRefreshPerGeneration
  <2> QED BY <1>1, <1>4, <2>1, WipeAndReauthKeeps DEF SecondUnauthorized, IsCurrent, FenceInv
<1>5. ASSUME NEW f \in refreshes, Refreshed(f) \/ SessionDead(f) \/ RefreshLost(f)
      PROVE  FenceInv'
  <2>1. RefreshesOK'
    BY <1>1, <1>5, ReleaseKeeps DEF Refreshed, SessionDead, RefreshLost
  <2>2. CASE Refreshed(f) \/ RefreshLost(f)
    BY <1>1, <2>1, <2>2, FenceStays DEF Refreshed, RefreshLost, logins, FenceInv
  <2>3. CASE SessionDead(f)
    BY <1>1, <2>1, <2>3, WipeAndReauthKeeps DEF SessionDead, IsCurrent, FenceInv
  <2> QED BY <1>5, <2>2, <2>3
<1> QED BY <1>2, <1>3, <1>4, <1>5 DEF RequestStep

LEMMA LogoutKeepsFence ==
    ASSUME FenceInv, WebInv, LogoutBegins \/ Wiped \/ WipeConfirmed \/ WipeUnconfirmed
    PROVE  FenceInv'
<1>1. UNCHANGED <<refreshes, shared, attempts>>
  BY DEF LogoutBegins, Wiped, WipeConfirmed, WipeUnconfirmed, GateFalls, calls, logins
<1>2. (\E n \in 0 .. MaxAttempts : AttemptsOK(n))'
  BY <1>1 DEF FenceInv, AttemptsOK
<1>3. generation \in Nat /\ generation' \in {generation, generation + 1}
  BY DEF WebInv, LogoutBegins, Wiped, WipeConfirmed, WipeUnconfirmed, GateFalls, lifetime
<1>4. RefreshesOK'
  BY <1>1, <1>3 DEF FenceInv, RefreshesOK, OneRefreshPerGeneration
<1>5. OverlayOK'
  <2>1. CASE LogoutBegins
    <3>1. reauth' = reauth /\ gate' = 1 /\ logout' = "revoking"
      BY <2>1 DEF LogoutBegins, WebInv, GateFollowsLogout, logins
    <3> QED BY <3>1 DEF FenceInv, OverlayOK
  <2>2. CASE Wiped
    BY <2>2 DEF Wiped, OverlayOK
  <2>3. CASE WipeConfirmed \/ WipeUnconfirmed
    BY <2>3 DEF WipeConfirmed, WipeUnconfirmed, GateFalls, FenceInv, OverlayOK, logins
  <2> QED BY <2>1, <2>2, <2>3
<1> QED BY <1>2, <1>4, <1>5 DEF FenceInv

LEMMA FenceInvariant == WebSpec => []FenceInv
<1>1. WebInit => FenceInv
  <2> SUFFICES ASSUME WebInit PROVE FenceInv
    OBVIOUS
  <2>1. AttemptsOK(0) /\ 0 \in 0 .. MaxAttempts
    BY WebBounds DEF WebInit, AttemptsOK, Attempts, AttemptRecords
  <2>2. RefreshesOK
    BY FS_EmptySet DEF WebInit, RefreshesOK, OneRefreshPerGeneration
  <2> QED BY <2>1, <2>2 DEF WebInit, FenceInv, OverlayOK
<1>2. WebInv /\ FenceInv /\ [WebNext]_webVars => FenceInv'
  <2> SUFFICES ASSUME WebInv, FenceInv, [WebNext]_webVars PROVE FenceInv'
    OBVIOUS
  <2>1. CASE UNCHANGED webVars
    <3>1. UNCHANGED <<generation, gate, logout, attempts, reauth, refreshes, shared>>
      BY <2>1 DEF webVars, lifetime, calls, logins
    <3>2. RefreshesOK'
      BY <3>1 DEF FenceInv, RefreshesOK, OneRefreshPerGeneration
    <3> QED BY <3>1, <3>2, FenceStays DEF FenceInv
  <2> QED BY <2>1, LoginKeepsFence, RequestKeepsFence, LogoutKeepsFence DEF WebNext
<1> QED BY <1>1, <1>2, SessionInvariant, PTL DEF WebSpec

\* The 401s of a session share one refresh, whatever is still unanswered of
\* earlier sessions, and the overlay of the silent re-login is never left over:
\* an attempt of this session works on it, or a logout that takes it down
\* (api/client.ts, stores/auth.ts).
THEOREM RefreshesAreFenced == WebSpec => []RefreshIsFenced
<1>1. FenceInv => RefreshIsFenced
  BY DEF FenceInv, RefreshesOK, OverlayOK, OwnerOfOverlay, RefreshIsFenced, OverlayHasOwner
<1> QED BY <1>1, FenceInvariant, PTL

-----------------------------------------------------------------------------
(* The data cache of the web client                                          *)

\* A fetch that may still write is of the login that is in, and was sent after
\* the last change its key was invalidated for.
FetchOK(f) ==
    /\ f.key \in Keys
    /\ f.gen \in Nat /\ f.gen <= cacheGeneration
    /\ f.keyGen \in Nat /\ f.keyGen <= keyGeneration[f.key]
    /\ f.sent \in Nat
    /\ Owned(f) => f.of = session /\ f.sent >= least[f.key]

\* What a key holds and what the page shows of it.
KeyOK(k) ==
    /\ keyGeneration[k] \in Nat /\ least[k] \in Nat /\ least[k] <= version
    /\ store[k] # Nothing =>
         /\ store[k].value.of = session
         /\ store[k].value.ver \in Nat /\ store[k].value.ver >= least[k]
    /\ shown[k] # Nothing => shown[k].value.of = session

WebCacheInv ==
    /\ session \in Nat /\ version \in Nat /\ cacheGeneration \in Nat
    /\ DOMAIN keyGeneration = Keys /\ DOMAIN least = Keys
    /\ DOMAIN store = Keys /\ DOMAIN shown = Keys
    /\ \A f \in flights : FetchOK(f)
    /\ \A k \in Keys : KeyOK(k)

LEMMA NewFlightIsOK ==
    ASSUME WebCacheInv, NEW k \in Keys
    PROVE  FetchOK(NewFlight(k))
BY DEF WebCacheInv, KeyOK, FetchOK, NewFlight, Owned

\* What is served is what the key holds; who reads a key may begin a fetch.
LEMMA ReadKeeps ==
    ASSUME WebCacheInv, NEW r \in Readers, NEW k \in Keys,
           \/ ReadFresh(r, k) \/ ReadStale(r, k) \/ ReadMiss(r, k) \/ ReadStaleNested(r, k)
    PROVE  WebCacheInv'
<1>1. UNCHANGED <<session, version, cacheGeneration, keyGeneration, least>>
  BY DEF ReadFresh, ReadStale, ReadMiss, ReadStaleNested, sessionVars, cacheVars
<1>2. flights' \in {flights, flights \cup {NewFlight(k)}}
  BY DEF ReadFresh, ReadStale, ReadMiss, ReadStaleNested, FetchOne, cacheVars
<1>3. \A f \in flights' : FetchOK(f)'
  BY <1>1, <1>2, NewFlightIsOK DEF WebCacheInv, FetchOK, Owned
<1>4. /\ \/ store' = store
         \/ store[k] # Nothing /\ store' = [store EXCEPT ![k] = Entry(store[k].value)]
      /\ \/ shown' = shown
         \/ store[k] # Nothing /\ Show(k, store[k].value)
  BY DEF ReadFresh, ReadStale, ReadMiss, ReadStaleNested, Fresh, Stale, Served, cacheVars
<1>5. ASSUME NEW i \in Keys PROVE KeyOK(i)'
  BY <1>1, <1>4 DEF WebCacheInv, KeyOK, Show, Entry
<1>6. DOMAIN store' = Keys /\ DOMAIN shown' = Keys
  BY <1>4 DEF WebCacheInv, Show
<1> QED BY <1>1, <1>3, <1>5, <1>6 DEF WebCacheInv

LEMMA FetchEndsKeeps ==
    ASSUME WebCacheInv, NEW f \in flights, Arrives(f) \/ Fails(f)
    PROVE  WebCacheInv'
<1>1. UNCHANGED <<session, version, cacheGeneration, keyGeneration, least>>
  BY DEF Arrives, Fails, sessionVars
<1>2. \A g \in flights' : g \in flights
  BY DEF Arrives, Fails, FetchEnds
<1>3. \A g \in flights' : FetchOK(g)'
  BY <1>1, <1>2 DEF WebCacheInv, FetchOK, Owned
<1>4. CASE Fails(f)
  BY <1>1, <1>3, <1>4 DEF Fails, WebCacheInv, KeyOK
<1>5. CASE Arrives(f)
  <2>1. FetchOK(f) /\ f.of = session /\ f.sent >= least[f.key] /\ f.key \in Keys
    BY <1>5 DEF WebCacheInv, FetchOK, Arrives
  <2>2. PICK ver \in f.sent .. version :
          /\ store' = [store EXCEPT ![f.key] = Entry(Value(f.of, ver))]
          /\ Show(f.key, Value(f.of, ver)) \/ shown' = shown
    BY <1>5 DEF Arrives
  <2>3. ver \in Nat /\ ver >= least[f.key]
    BY <2>1, <2>2 DEF WebCacheInv, FetchOK, KeyOK
  <2>4. ASSUME NEW k \in Keys PROVE KeyOK(k)'
    BY <1>1, <2>1, <2>2, <2>3 DEF WebCacheInv, KeyOK, Show, Entry, Value
  <2>5. DOMAIN store' = Keys /\ DOMAIN shown' = Keys
    BY <2>2 DEF WebCacheInv, Show
  <2> QED BY <1>1, <1>3, <2>4, <2>5 DEF WebCacheInv
<1> QED BY <1>4, <1>5

\* No fetch of before the change may write any more.
LEMMA MarkKeeps ==
    ASSUME WebCacheInv, NEW k \in Keys, Mark(k)
    PROVE  WebCacheInv'
<1>1. /\ UNCHANGED <<session, cacheGeneration, flights, shown>> /\ version' = version + 1
      /\ keyGeneration' = [keyGeneration EXCEPT ![k] = @ + 1]
      /\ least' = [least EXCEPT ![k] = version + 1]
      /\ store' = [store EXCEPT ![k] = Nothing]
  BY DEF Mark, Invalidate
<1>2. ASSUME NEW f \in flights PROVE FetchOK(f)'
  BY <1>1 DEF WebCacheInv, FetchOK, KeyOK, Owned
<1>3. ASSUME NEW i \in Keys PROVE KeyOK(i)'
  BY <1>1 DEF WebCacheInv, KeyOK
<1> QED BY <1>1, <1>2, <1>3 DEF WebCacheInv

\* No fetch of before the generation may write any more, whoever logs in next.
LEMMA ClearKeeps ==
    ASSUME WebCacheInv, ClearCache, UNCHANGED <<version, least>>, session' \in Nat,
           \/ session' = session /\ shown' = shown
           \/ ShowNothing
    PROVE  WebCacheInv'
<1>1. UNCHANGED <<keyGeneration, flights>> /\ cacheGeneration' = cacheGeneration + 1
      /\ store' = [k \in Keys |-> Nothing]
  BY DEF ClearCache
<1>2. ASSUME NEW f \in flights PROVE FetchOK(f)'
  BY <1>1 DEF WebCacheInv, FetchOK, Owned
<1>3. ASSUME NEW i \in Keys PROVE KeyOK(i)'
  BY <1>1 DEF WebCacheInv, KeyOK, ShowNothing
<1>4. DOMAIN shown' = Keys /\ DOMAIN store' = Keys
  BY <1>1 DEF WebCacheInv, ShowNothing
<1> QED BY <1>1, <1>2, <1>3, <1>4 DEF WebCacheInv

LEMMA WebCacheInvariant == WebCacheSpec => []WebCacheInv
<1>1. WebCacheInit => WebCacheInv
  BY DEF WebCacheInit, WebCacheInv, KeyOK
<1>2. WebCacheInv /\ [WebCacheNext]_webCacheVars => WebCacheInv'
  <2> SUFFICES ASSUME WebCacheInv, [WebCacheNext]_webCacheVars PROVE WebCacheInv'
    OBVIOUS
  <2>1. CASE \E r \in Readers, k \in Keys :
               ReadFresh(r, k) \/ ReadStale(r, k) \/ ReadMiss(r, k) \/ ReadStaleNested(r, k)
    BY <2>1, ReadKeeps
  <2>2. CASE \E f \in flights : Arrives(f) \/ Fails(f)
    BY <2>2, FetchEndsKeeps
  <2>3. CASE \E k \in Keys : Mark(k)
    BY <2>3, MarkKeeps
  <2>4. CASE LogoutClears \/ Login
    BY <2>4, ClearKeeps DEF LogoutClears, Login, BeginSession, WebCacheInv
  <2>5. CASE Changes \/ StoresWiped \/ Tick \/ UNCHANGED webCacheVars
    <3>1. /\ UNCHANGED <<session, cacheGeneration, keyGeneration, store, flights, least>>
          /\ version' \in {version, version + 1}
          /\ shown' = shown \/ ShowNothing
      BY <2>5 DEF Changes, StoresWiped, Tick, webCacheVars, sessionVars, cacheVars
    <3>2. ASSUME NEW f \in flights PROVE FetchOK(f)'
      BY <3>1 DEF WebCacheInv, FetchOK, Owned
    <3>3. ASSUME NEW k \in Keys PROVE KeyOK(k)'
      BY <3>1 DEF WebCacheInv, KeyOK, ShowNothing
    <3>4. DOMAIN shown' = Keys
      BY <3>1 DEF WebCacheInv, ShowNothing
    <3> QED BY <3>1, <3>2, <3>3, <3>4 DEF WebCacheInv
  <2> QED BY <2>1, <2>2, <2>3, <2>4, <2>5 DEF WebCacheNext
<1> QED BY <1>1, <1>2, PTL DEF WebCacheSpec

\* A session of the web client is shown, and keeps in its cache, only what was
\* fetched with its own token, and of a key that was invalidated nothing older
\* than the change (api/cache.ts: the two generations a fetch carries).
THEOREM CacheIsOfItsOwner == WebCacheSpec => []CacheServesItsOwner
<1>1. WebCacheInv => CacheServesItsOwner
  BY DEF WebCacheInv, KeyOK, CacheServesItsOwner, NobodyElsesData, InvalidatedIsGone
<1> QED BY <1>1, WebCacheInvariant, PTL

-----------------------------------------------------------------------------
(* The mobile client: what every call and refresh has in its hands           *)

Bearers == [of : Nat, ver : Nat]
MobileValues == [of : Nat \cup {Nil}, gen : Nat]

RepoPlaces ==
    {"idle", "looking", "loading", "restoring", "serving", "claimingBack", "launching",
     "fetching", "sending", "waiting", "fetched", "publishing", "failed", "unauthorized",
     "claiming", "joined"}

RepoKinds == {"read", "plain", "action", "ensure"}

RepoRecords ==
    [at : RepoPlaces, kind : RepoKinds, gen : Nat,
     epoch : Nat, of : Nat \cup {Nil}, was : BOOLEAN,
     retry : BOOLEAN, expected : Bearers \cup {Nil}, job : Nat \cup Jobs \cup {Nil},
     value : MobileValues \cup {Nil}, back : BOOLEAN, cancelled : BOOLEAN,
     told : {"nothing", "rejected", "dead", "network"}]

JobRecords ==
    [at : {"free", "checking", "posting", "waiting", "done"}, listed : BOOLEAN,
     epoch : Nat, expected : Bearers \cup {Nil}, of : Nat \cup {Nil}, was : BOOLEAN, ver : Nat]

\* Nobody calls and nothing refreshes.
Quiet ==
    /\ \A c \in RepoCalls : repo[c].at = "idle"
    /\ \A j \in Jobs : jobs[j].at = "free"

\* The token is of the last login.  It is in place, in memory and on disk,
\* whenever somebody is logged in, until the steps of a login or a logout take
\* it apart; from the fence of a logout to the next login no epoch is current,
\* except that a process may be launched without a token.
TokenOK ==
    /\ login \in Nat
    /\ refresher \in [epoch : Nat, active : BOOLEAN]
    /\ bearer \in Bearers \cup {Nil} /\ persisted \in Bearers \cup {Nil}
    /\ BearerIsOwn
    /\ screen \in {"in", "entering"} => bearer # Nil
    /\ screen # "in" => leaving = "no"
    /\ leaving = "flipping" => persisted = Nil
    /\ refresher.active =>
         \/ screen = "in" /\ leaving \in {"no", "fencing"}
         \/ screen # "in" /\ Quiet

\* What a call has in its hands.
CallOK(call) ==
    /\ call \in RepoRecords
    /\ call.gen <= wipes /\ call.epoch <= refresher.epoch
    /\ call.at = "idle" => call.value = Nil
    /\ call.at = "fetched" => call.value # Nil
    /\ call.value # Nil /\ call.gen = wipes => call.value.gen = wipes
    /\ call.at = "waiting" /\ CurrentEpoch(call.epoch) => call.of = login
    /\ call.at = "claiming" => call.job \in 0 .. refresher.epoch

Refreshing(job) == job.at \in {"checking", "posting", "waiting"}

\* What a refresh has in its hands: if it is under way, others can join it.
JobOK(job) ==
    /\ job \in JobRecords
    /\ job.epoch <= refresher.epoch
    /\ Refreshing(job) => job.listed
    /\ job.at = "waiting" /\ CurrentEpoch(job.epoch) => job.of = login

OneRefreshing ==
    \A j, k \in Jobs :
        Refreshing(jobs[j]) /\ Refreshing(jobs[k]) /\ jobs[j].epoch = jobs[k].epoch => j = k

MobileCacheOK ==
    /\ wipes \in Nat
    /\ {memory, disk, published} \subseteq MobileValues \cup {Nil}
    /\ saves \subseteq MobileValues
    /\ WipeIsFinal

RepoOK == DOMAIN repo = RepoCalls /\ \A c \in RepoCalls : CallOK(repo[c])
JobsOK == DOMAIN jobs = Jobs /\ (\A j \in Jobs : JobOK(jobs[j])) /\ OneRefreshing

MobileInv == TokenOK /\ DialogIsOwn /\ MobileCacheOK /\ RepoOK /\ JobsOK

-----------------------------------------------------------------------------
(* The mobile client: a call and the caches                                  *)

LEMMA NothingIsTyped ==
    /\ NoRepoCall \in RepoRecords /\ NoRepoCall.at = "idle" /\ NoRepoCall.value = Nil
    /\ NoRepoCall.gen = 0 /\ NoRepoCall.epoch = 0
    /\ NoJob \in JobRecords /\ NoJob.at = "free" /\ NoJob.epoch = 0
    /\ Nil \notin Nat /\ Nil \notin MobileValues /\ Nil \notin Bearers
BY NilIsNothing DEF NoRepoCall, RepoRecords, RepoPlaces, RepoKinds, NoJob, JobRecords,
   MobileValues, Bearers

\* A call that is over has nothing in its hands.
LEMMA OverIsOK ==
    ASSUME wipes \in Nat, refresher.epoch \in Nat
    PROVE  CallOK(NoRepoCall)
BY NothingIsTyped DEF CallOK

\* Somebody calls, so there is a session if the epoch is current.
LEMMA CallHasSession ==
    ASSUME MobileInv, refresher.active,
           \/ \E c \in RepoCalls : repo[c].at # "idle"
           \/ \E j \in Jobs : jobs[j].at # "free"
    PROVE  /\ screen = "in" /\ leaving \in {"no", "fencing"}
           /\ bearer \in Bearers /\ bearer.of = login /\ persisted = bearer
BY DEF MobileInv, TokenOK, Quiet, BearerIsOwn

\* A step of one call that leaves the session alone, but for the dialog.
LEMMA OneCallSteps ==
    ASSUME MobileInv, NEW c \in RepoCalls, NEW q, CallOK(q), Become(c, q),
           q.at = "idle" \/ repo[c].at # "idle" \/ screen = "in",
           UNCHANGED <<login, bearer, persisted, screen, leaving, refresher, wipes>>
    PROVE  /\ jobs' = jobs => TokenOK'
           /\ RepoOK'
           /\ jobs' = jobs => JobsOK'
<1>1. ASSUME jobs' = jobs PROVE TokenOK'
  BY <1>1 DEF MobileInv, TokenOK, BearerIsOwn, Quiet, RepoOK, Become
<1>3. RepoOK'
  BY DEF MobileInv, RepoOK, CallOK, Become, CurrentEpoch
<1>4. ASSUME jobs' = jobs PROVE JobsOK'
  BY <1>4 DEF MobileInv, JobsOK, JobOK, OneRefreshing, CurrentEpoch, Refreshing
<1> QED BY <1>1, <1>3, <1>4

LEMMA OneRepoCall ==
    ASSUME MobileInv, NEW c \in RepoCalls, NEW q, CallOK(q), Become(c, q),
           q.at = "idle" \/ repo[c].at # "idle" \/ screen = "in",
           UNCHANGED <<mobSession, refresher, jobs, wipes>>, MobileCacheOK'
    PROVE  MobileInv'
<1>1. UNCHANGED <<login, bearer, persisted, screen, leaving, dialog>>
  BY DEF mobSession
<1>2. TokenOK' /\ RepoOK' /\ JobsOK'
  BY <1>1, OneCallSteps
<1>3. DialogIsOwn'
  BY <1>1 DEF MobileInv, DialogIsOwn
<1> QED BY <1>2, <1>3 DEF MobileInv

LEMMA CacheUntouched ==
    ASSUME MobileInv, UNCHANGED <<mobCache, leaving>>
    PROVE  MobileCacheOK'
BY DEF MobileInv, MobileCacheOK, WipeIsFinal, mobCache

LEMMA OneCallAlone ==
    ASSUME MobileInv, NEW c \in RepoCalls, NEW q, CallOK(q), Become(c, q),
           q.at = "idle" \/ repo[c].at # "idle" \/ screen = "in",
           UNCHANGED <<mobSession, refresher, jobs, mobCache>>
    PROVE  MobileInv'
<1>1. wipes' = wipes /\ leaving' = leaving
  BY DEF mobCache, mobSession
<1> QED BY <1>1, CacheUntouched, OneRepoCall

LEMMA CallHasParts ==
    ASSUME MobileInv, NEW c \in RepoCalls
    PROVE  /\ CallOK(repo[c]) /\ repo[c] \in RepoRecords
           /\ wipes \in Nat /\ refresher.epoch \in Nat
BY DEF MobileInv, RepoOK, CallOK, TokenOK, MobileCacheOK

LEMMA StartReadKeeps ==
    ASSUME MobileInv, NEW c \in RepoCalls, NEW force \in BOOLEAN, StartRead(c, force)
    PROVE  MobileInv'
<1> DEFINE q == [repo[c] EXCEPT !.at = IF force THEN "fetching" ELSE "looking", !.gen = wipes]
<1>1. CallOK(repo[c]) /\ repo[c] \in RepoRecords /\ wipes \in Nat
  BY CallHasParts
<1>2. repo[c].at = "idle" /\ screen = "in" /\ Become(c, q)
  BY DEF StartRead, In
<1>3. q \in RepoRecords
  BY ZenonT(60), <1>1 DEF RepoRecords, RepoPlaces
<1>4. /\ q.at \in {"fetching", "looking"} /\ q.gen = wipes /\ q.epoch = repo[c].epoch
      /\ q.value = repo[c].value
  BY <1>1 DEF RepoRecords
<1>5. CallOK(q)
  BY <1>1, <1>2, <1>3, <1>4 DEF CallOK
<1> HIDE DEF q
<1> QED BY <1>2, <1>5, OneCallAlone DEF StartRead

\* A call that only moves on, and is not about to wait or to claim.
LEMMA MovedIsOK ==
    ASSUME MobileInv, NEW c \in RepoCalls, repo[c].at # "idle",
           NEW place \in RepoPlaces \ {"idle", "fetched", "waiting", "claiming"}
    PROVE  CallOK([repo[c] EXCEPT !.at = place])
<1>1. CallOK(repo[c]) /\ repo[c] \in RepoRecords
  BY CallHasParts
<1> QED BY <1>1 DEF CallOK, RepoRecords

LEMMA MoveKeeps ==
    ASSUME MobileInv, NEW c \in RepoCalls, repo[c].at # "idle",
           NEW place \in RepoPlaces \ {"idle", "fetched", "waiting", "claiming"}, Move(c, place),
           UNCHANGED <<mobSession, refresher, jobs, mobCache>>
    PROVE  MobileInv'
BY MovedIsOK, OneCallAlone DEF Move

LEMMA LeaveKeeps ==
    ASSUME MobileInv, NEW c \in RepoCalls, Leave(c),
           UNCHANGED <<mobSession, refresher, jobs, mobCache>>
    PROVE  MobileInv'
<1>1. CallOK(NoRepoCall)
  BY CallHasParts, OverIsOK
<1> QED BY <1>1, NothingIsTyped, OneCallAlone DEF Leave

LEMMA StartUncachedKeeps ==
    ASSUME MobileInv, NEW c \in RepoCalls, NEW kind \in {"plain", "action"},
           StartUncached(c, kind)
    PROVE  MobileInv'
<1> DEFINE q == [repo[c] EXCEPT !.at = "fetching", !.kind = kind]
<1>1. CallOK(repo[c]) /\ repo[c] \in RepoRecords
  BY CallHasParts
<1>2. CallOK(q)
  <2>1. q \in RepoRecords
    <3>1. "fetching" \in RepoPlaces /\ kind \in RepoKinds
      BY DEF RepoPlaces, RepoKinds
    <3> QED BY <1>1, <3>1 DEF RepoRecords
  <2> QED BY <1>1, <2>1 DEF CallOK, RepoRecords, RepoPlaces, StartUncached, In
<1> HIDE DEF q
<1> QED BY <1>2, OneCallAlone DEF StartUncached, q

LEMMA StartEnsureKeeps ==
    ASSUME MobileInv, NEW c \in RepoCalls, StartEnsure(c)
    PROVE  MobileInv'
<1> DEFINE q == [repo[c] EXCEPT !.at = "unauthorized", !.kind = "ensure"]
<1>1. CallOK(repo[c]) /\ repo[c] \in RepoRecords
  BY CallHasParts
<1>2. CallOK(q)
  <2>1. q \in RepoRecords
    <3>1. "unauthorized" \in RepoPlaces /\ "ensure" \in RepoKinds
      BY DEF RepoPlaces, RepoKinds
    <3> QED BY <1>1, <3>1 DEF RepoRecords
  <2> QED BY <1>1, <2>1 DEF CallOK, RepoRecords, RepoPlaces, StartEnsure, In
<1> HIDE DEF q
<1> QED BY <1>2, OneCallAlone DEF StartEnsure, q

LEMMA LookKeeps ==
    ASSUME MobileInv, NEW c \in RepoCalls, Look(c)
    PROVE  MobileInv'
<1>1. CallOK(repo[c]) /\ repo[c] \in RepoRecords /\ repo[c].at = "looking"
  BY CallHasParts DEF Look, In
<1>2. CASE memory = Nil
  BY <1>1, <1>2, MoveKeeps DEF Look, RepoPlaces
<1>3. ASSUME memory # Nil, NEW back \in BOOLEAN,
             Become(c, [repo[c] EXCEPT !.at = "serving", !.value = memory, !.back = back])
      PROVE  MobileInv'
  <2> DEFINE q == [repo[c] EXCEPT !.at = "serving", !.value = memory, !.back = back]
  <2>1. memory \in MobileValues /\ memory.gen = wipes
    BY <1>3 DEF MobileInv, MobileCacheOK, WipeIsFinal
  <2>2. CallOK(q)
    <3>1. q \in RepoRecords
      BY <1>1, <2>1 DEF RepoRecords, RepoPlaces
    <3> QED BY <1>1, <2>1, <3>1 DEF CallOK, RepoRecords, RepoPlaces
  <2> HIDE DEF q
  <2> QED BY <1>1, <1>3, <2>2, OneCallAlone DEF Look, q
<1> QED BY <1>2, <1>3 DEF Look

LEMMA LoadDiskKeeps ==
    ASSUME MobileInv, NEW c \in RepoCalls, LoadDisk(c)
    PROVE  MobileInv'
<1>1. CallOK(repo[c]) /\ repo[c] \in RepoRecords /\ repo[c].at = "loading"
  BY CallHasParts DEF LoadDisk, In
<1>2. CASE Move(c, "fetching")
  BY <1>1, <1>2, MoveKeeps DEF LoadDisk, RepoPlaces
<1>3. ASSUME disk # Nil, Become(c, [repo[c] EXCEPT !.at = "restoring", !.value = disk])
      PROVE  MobileInv'
  <2> DEFINE q == [repo[c] EXCEPT !.at = "restoring", !.value = disk]
  <2>1. disk \in MobileValues /\ disk.gen = wipes
    BY <1>3 DEF MobileInv, MobileCacheOK, WipeIsFinal
  <2>2. CallOK(q)
    <3>1. q \in RepoRecords
      BY <1>1, <2>1 DEF RepoRecords, RepoPlaces
    <3> QED BY <1>1, <2>1, <3>1 DEF CallOK, RepoRecords, RepoPlaces
  <2> HIDE DEF q
  <2> QED BY <1>1, <1>3, <2>2, OneCallAlone DEF LoadDisk, q
<1> QED BY <1>2, <1>3 DEF LoadDisk

LEMMA RestoreKeeps ==
    ASSUME MobileInv, NEW c \in RepoCalls, Restore(c)
    PROVE  MobileInv'
<1>1. CallOK(repo[c]) /\ repo[c] \in RepoRecords /\ repo[c].at = "restoring"
  BY CallHasParts DEF Restore, In
<1>2. ASSUME repo[c].gen = wipes, memory' = repo[c].value, NEW back \in BOOLEAN,
             Become(c, [repo[c] EXCEPT !.at = "serving", !.back = back])
      PROVE  MobileInv'
  <2> DEFINE q == [repo[c] EXCEPT !.at = "serving", !.back = back]
  <2>1. CallOK(q)
    <3>1. q \in RepoRecords
      BY <1>1 DEF RepoRecords, RepoPlaces
    <3> QED BY <1>1, <3>1 DEF CallOK, RepoRecords, RepoPlaces
  <2>2. MobileCacheOK'
    BY <1>1, <1>2 DEF Restore, MobileInv, MobileCacheOK, WipeIsFinal, CallOK, RepoRecords,
                      mobSession
  <2> HIDE DEF q
  <2> QED BY <1>1, <1>2, <2>1, <2>2, OneRepoCall DEF Restore, q
<1>3. CASE repo[c].gen # wipes
  <2> DEFINE q == [repo[c] EXCEPT !.at = "fetching", !.value = Nil]
  <2>1. CallOK(q)
    <3>1. q \in RepoRecords
      BY <1>1 DEF RepoRecords, RepoPlaces
    <3> QED BY <1>1, <3>1 DEF CallOK, RepoRecords, RepoPlaces
  <2>2. MobileCacheOK'
    BY <1>3 DEF Restore, MobileInv, MobileCacheOK, WipeIsFinal, mobSession
  <2> HIDE DEF q
  <2> QED BY <1>1, <1>3, <2>1, <2>2, OneRepoCall DEF Restore, q
<1> QED BY <1>2, <1>3 DEF Restore

\* What is shown is of the present generation, or waits for a wipe to end.
LEMMA PublishKeeps ==
    ASSUME MobileInv, NEW c \in RepoCalls, NEW value \in MobileValues \cup {Nil},
           repo[c].gen = wipes /\ value # Nil => value.gen = wipes, Publish(c, value),
           UNCHANGED <<leaving, wipes, memory, disk, saves>>
    PROVE  MobileCacheOK'
BY DEF Publish, MobileInv, MobileCacheOK, WipeIsFinal

LEMMA ServeKeeps ==
    ASSUME MobileInv, NEW c \in RepoCalls, Serve(c)
    PROVE  MobileInv'
<1>1. CallOK(repo[c]) /\ repo[c] \in RepoRecords /\ repo[c].at = "serving"
  BY CallHasParts DEF Serve, In
<1>2. MobileCacheOK'
  BY <1>1, PublishKeeps DEF Serve, CallOK, RepoRecords, mobSession
<1>3. CASE repo[c].back
  <2> DEFINE q == [repo[c] EXCEPT !.at = "claimingBack", !.value = Nil, !.back = FALSE]
  <2>1. CallOK(q)
    <3>1. q \in RepoRecords
      BY <1>1 DEF RepoRecords, RepoPlaces
    <3> QED BY <1>1, <3>1 DEF CallOK, RepoRecords, RepoPlaces
  <2> HIDE DEF q
  <2> QED BY <1>1, <1>2, <1>3, <2>1, OneRepoCall DEF Serve, q
<1>4. CASE ~ repo[c].back
  <2>1. CallOK(NoRepoCall)
    BY CallHasParts, OverIsOK
  <2> QED BY <1>2, <1>4, <2>1, NothingIsTyped, OneRepoCall DEF Serve, Leave
<1> QED BY <1>3, <1>4

LEMMA BackgroundKeeps ==
    ASSUME MobileInv, NEW c \in RepoCalls, ClaimBack(c) \/ LaunchBack(c)
    PROVE  MobileInv'
<1>1. CallOK(repo[c]) /\ repo[c] \in RepoRecords /\ repo[c].at \in {"claimingBack", "launching"}
  BY CallHasParts DEF ClaimBack, LaunchBack, In
<1>2. CASE Leave(c)
  BY <1>2, LeaveKeeps DEF ClaimBack, LaunchBack
<1>3. CASE Move(c, "fetching")
  BY <1>1, <1>3, MoveKeeps DEF ClaimBack, LaunchBack, RepoPlaces
<1>4. CASE Become(c, [repo[c] EXCEPT !.at = "launching", !.back = TRUE])
  <2> DEFINE q == [repo[c] EXCEPT !.at = "launching", !.back = TRUE]
  <2>1. CallOK(q)
    <3>1. q \in RepoRecords
      BY <1>1 DEF RepoRecords, RepoPlaces
    <3> QED BY <1>1, <3>1 DEF CallOK, RepoRecords, RepoPlaces
  <2> HIDE DEF q
  <2> QED BY <1>1, <1>4, <2>1, OneCallAlone DEF ClaimBack, LaunchBack, q
<1> QED BY <1>2, <1>3, <1>4 DEF ClaimBack, LaunchBack

LEMMA CommitKeeps ==
    ASSUME MobileInv, NEW c \in RepoCalls, Commit(c)
    PROVE  MobileInv'
<1>1. CallOK(repo[c]) /\ repo[c] \in RepoRecords /\ repo[c].at = "fetched"
  BY CallHasParts DEF Commit, In
<1>2. repo[c].value \in MobileValues
  BY <1>1 DEF CallOK, RepoRecords
<1>3. MobileCacheOK'
  BY <1>1, <1>2 DEF Commit, MobileInv, MobileCacheOK, WipeIsFinal, CallOK, mobSession
<1>4. CallOK([repo[c] EXCEPT !.at = "publishing"])
  BY <1>1, MovedIsOK DEF RepoPlaces
<1> QED BY <1>1, <1>3, <1>4, OneRepoCall DEF Commit, Move

LEMMA PublishFetchedKeeps ==
    ASSUME MobileInv, NEW c \in RepoCalls, PublishFetched(c)
    PROVE  MobileInv'
<1>1. CallOK(repo[c]) /\ repo[c] \in RepoRecords
  BY CallHasParts
<1>2. MobileCacheOK'
  BY <1>1, PublishKeeps DEF PublishFetched, CallOK, RepoRecords, mobSession
<1>3. CallOK(NoRepoCall)
  BY CallHasParts, OverIsOK
<1> QED BY <1>2, <1>3, NothingIsTyped, OneRepoCall DEF PublishFetched, Leave

LEMMA FailKeeps ==
    ASSUME MobileInv, NEW c \in RepoCalls, Fail(c)
    PROVE  MobileInv'
<1>0. UNCHANGED <<leaving, wipes, memory, disk, saves>>
  BY DEF Fail, mobSession
<1>1. ASSUME Publish(c, Nil) PROVE MobileCacheOK'
  BY <1>0, <1>1, PublishKeeps
<1>2. ASSUME published' = published PROVE MobileCacheOK'
  <2>1. UNCHANGED <<mobCache, leaving>>
    BY <1>0, <1>2 DEF mobCache
  <2> QED BY <2>1, CacheUntouched
<1>3. MobileCacheOK'
  BY <1>1, <1>2 DEF Fail
<1>4. CallOK(NoRepoCall)
  BY CallHasParts, OverIsOK
<1> QED BY <1>3, <1>4, NothingIsTyped, OneRepoCall DEF Fail, Leave

LEMMA CancelledKeeps ==
    ASSUME MobileInv, NEW c \in RepoCalls, CancelledEnds(c)
    PROVE  MobileInv'
BY LeaveKeeps DEF CancelledEnds

LEMMA EnterSafeKeeps ==
    ASSUME MobileInv, NEW c \in RepoCalls, EnterSafe(c)
    PROVE  MobileInv'
<1> DEFINE q == [repo[c] EXCEPT !.at = "sending", !.epoch = refresher.epoch]
<1>1. CallOK(repo[c]) /\ repo[c] \in RepoRecords /\ repo[c].at = "fetching"
      /\ refresher.epoch \in Nat
  BY CallHasParts DEF EnterSafe, In
<1>2. CallOK(q)
  <2>1. q \in RepoRecords
    BY <1>1 DEF RepoRecords, RepoPlaces
  <2> QED BY <1>1, <2>1 DEF CallOK, RepoRecords, RepoPlaces
<1> HIDE DEF q
<1> QED BY <1>1, <1>2, OneCallAlone DEF EnterSafe, q

\* A request of the current epoch carries the token of the session.
LEMMA BearerIsMine ==
    ASSUME MobileInv
    PROVE  /\ Owner(bearer) \in Nat \cup {Nil}
           /\ bearer # Nil => bearer.ver + 1 \in Nat
           /\ bearer \in Bearers => Owner(bearer) = bearer.of
<1>1. bearer \in Bearers \cup {Nil}
  BY DEF MobileInv, TokenOK
<1> QED BY <1>1, NothingIsTyped DEF Owner, Bearers

LEMMA SendRepoKeeps ==
    ASSUME MobileInv, NEW c \in RepoCalls, SendRepo(c)
    PROVE  MobileInv'
<1> DEFINE q == [repo[c] EXCEPT !.at = "waiting", !.of = Owner(bearer),
                                !.was = Owner(bearer) \in serverLive]
<1>1. CallOK(repo[c]) /\ repo[c] \in RepoRecords /\ repo[c].at = "sending"
  BY CallHasParts DEF SendRepo, In
<1>2. CurrentEpoch(repo[c].epoch) => Owner(bearer) = login
  BY <1>1, CallHasSession, BearerIsMine DEF CurrentEpoch
<1>3. CallOK(q)
  <2>1. q \in RepoRecords
    <3>1. "waiting" \in RepoPlaces /\ (Owner(bearer) \in serverLive) \in BOOLEAN
      BY DEF RepoPlaces
    <3> QED BY <1>1, <3>1, BearerIsMine DEF RepoRecords
  <2>2. q.at = "waiting" /\ q.of = Owner(bearer) /\ q.epoch = repo[c].epoch
        /\ q.gen = repo[c].gen /\ q.value = repo[c].value
    BY <1>1 DEF RepoRecords
  <2> QED BY <1>1, <1>2, <2>1, <2>2 DEF CallOK
<1> HIDE DEF q
<1> QED BY <1>1, <1>3, OneCallAlone DEF SendRepo, q

LEMMA ReceiveValueKeeps ==
    ASSUME MobileInv, NEW c \in RepoCalls, ReceiveValue(c)
    PROVE  MobileInv'
<1> DEFINE q == [NoRepoCall EXCEPT
                   !.at = "fetched", !.gen = repo[c].gen,
                   !.back = repo[c].back, !.cancelled = repo[c].cancelled,
                   !.value = [of |-> repo[c].of, gen |-> repo[c].gen]]
<1>1. CallOK(repo[c]) /\ repo[c] \in RepoRecords /\ repo[c].at = "waiting"
      /\ refresher.epoch \in Nat
  BY CallHasParts DEF ReceiveValue, In
<1>2. CASE Leave(c)
  BY <1>2, LeaveKeeps DEF ReceiveValue
<1>3. CASE Become(c, q)
  <2>1. /\ [of |-> repo[c].of, gen |-> repo[c].gen] \in MobileValues
        /\ [of |-> repo[c].of, gen |-> repo[c].gen] # Nil
    BY <1>1, NothingIsTyped DEF RepoRecords, MobileValues
  <2>2. q \in RepoRecords
    <3>1. /\ "fetched" \in RepoPlaces /\ NoRepoCall \in RepoRecords
          /\ repo[c].gen \in Nat /\ repo[c].back \in BOOLEAN /\ repo[c].cancelled \in BOOLEAN
      BY <1>1, NothingIsTyped DEF RepoRecords, RepoPlaces
    <3> QED BY <2>1, <3>1 DEF RepoRecords
  <2>3. /\ q.at = "fetched" /\ q.gen = repo[c].gen /\ q.epoch = 0
        /\ q.value = [of |-> repo[c].of, gen |-> repo[c].gen]
    BY <1>1, NothingIsTyped DEF RepoRecords
  <2> HIDE DEF q
  <2>4. CallOK(q)
    BY <1>1, <2>1, <2>2, <2>3 DEF CallOK
  <2> QED BY <1>1, <1>3, <2>4, OneCallAlone DEF ReceiveValue
<1> QED BY <1>2, <1>3 DEF ReceiveValue

LEMMA UnansweredIsOK ==
    ASSUME MobileInv, NEW c \in RepoCalls, repo[c].at = "waiting",
           NEW place \in {"failed", "unauthorized"}
    PROVE  CallOK(Unanswered(c, place))
<1> DEFINE q == Unanswered(c, place)
<1>1. CallOK(repo[c]) /\ repo[c] \in RepoRecords
  BY CallHasParts
<1>2. q \in RepoRecords
  BY <1>1 DEF RepoRecords, RepoPlaces, Unanswered
<1>3. q.at = place /\ q.gen = repo[c].gen /\ q.epoch = repo[c].epoch /\ q.value = repo[c].value
  BY <1>1 DEF RepoRecords, Unanswered
<1> HIDE DEF q
<1>4. CallOK(q)
  BY <1>1, <1>2, <1>3 DEF CallOK
<1> QED BY <1>4 DEF q

LEMMA ReceiveErrorKeeps ==
    ASSUME MobileInv, NEW c \in RepoCalls, ReceiveUnauthorized(c) \/ ReceiveFailure(c)
    PROVE  MobileInv'
<1>1. repo[c].at = "waiting" /\ UNCHANGED <<mobSession, refresher, jobs, mobCache>>
  BY DEF ReceiveUnauthorized, ReceiveFailure, In
<1>2. CASE Leave(c)
  BY <1>1, <1>2, LeaveKeeps
<1>3. CASE \E place \in {"failed", "unauthorized"} : Become(c, Unanswered(c, place))
  <2>1. PICK place \in {"failed", "unauthorized"} : Become(c, Unanswered(c, place))
    BY <1>3
  <2> QED BY <1>1, <2>1, UnansweredIsOK, OneCallAlone
<1> QED BY <1>2, <1>3 DEF ReceiveUnauthorized, ReceiveFailure

\* The dialog is about the session on screen: the call was made in its epoch.
LEMMA ReceiveDeadKeeps ==
    ASSUME MobileInv, NEW c \in RepoCalls, ReceiveDead(c)
    PROVE  MobileInv'
<1>1. repo[c].at = "waiting" /\ CallOK(repo[c])
  BY CallHasParts DEF ReceiveDead, In
<1>2. CallOK(Unanswered(c, "failed"))
  BY <1>1, UnansweredIsOK
<1>3. TokenOK' /\ RepoOK' /\ JobsOK'
  BY <1>1, <1>2, OneCallSteps DEF ReceiveDead, mobCache
<1>4. MobileCacheOK'
  BY CacheUntouched DEF ReceiveDead
<1>5. DialogIsOwn'
  <2>1. CASE CurrentEpoch(repo[c].epoch) /\ bearer # Nil
    BY <1>1, <2>1, CallHasSession DEF ReceiveDead, Expire, DialogIsOwn, CallOK, CurrentEpoch
  <2>2. CASE ~ (CurrentEpoch(repo[c].epoch) /\ bearer # Nil)
    BY <2>2 DEF ReceiveDead, Expire, MobileInv, DialogIsOwn
  <2> QED BY <2>1, <2>2
<1> QED BY <1>3, <1>4, <1>5 DEF MobileInv

LEMMA RefusedIsOK ==
    ASSUME MobileInv, NEW c \in RepoCalls, repo[c].at # "idle",
           NEW verdict \in {"rejected", "dead", "network"}
    PROVE  CallOK(Refused(c, verdict))
<1>1. CallOK(repo[c]) /\ repo[c] \in RepoRecords
  BY CallHasParts
<1>2. CASE repo[c].kind = "ensure"
  BY <1>2, CallHasParts, OverIsOK DEF Refused
<1>3. CASE repo[c].kind # "ensure"
  <2> DEFINE q == [repo[c] EXCEPT !.at = "failed", !.job = Nil, !.expected = Nil, !.told = verdict]
  <2>1. q \in RepoRecords
    BY <1>1 DEF RepoRecords, RepoPlaces
  <2>2. /\ q.at = "failed" /\ q.gen = repo[c].gen /\ q.epoch = repo[c].epoch
        /\ q.value = repo[c].value
    BY <1>1 DEF RepoRecords
  <2>3. CallOK(q)
    <3> HIDE DEF q
    <3> QED BY <1>1, <2>1, <2>2 DEF CallOK
  <2> QED BY <1>3, <2>3 DEF Refused
<1> QED BY <1>2, <1>3

LEMMA TryRefreshKeeps ==
    ASSUME MobileInv, NEW c \in RepoCalls, TryRefresh(c)
    PROVE  MobileInv'
<1> DEFINE q == [repo[c] EXCEPT !.at = "claiming", !.job = refresher.epoch,
                                !.expected = persisted]
<1>1. CallOK(repo[c]) /\ repo[c] \in RepoRecords /\ repo[c].at = "unauthorized"
      /\ refresher.epoch \in Nat
  BY CallHasParts DEF TryRefresh, In
<1>2. CASE Become(c, Refused(c, "rejected"))
  BY <1>1, <1>2, RefusedIsOK, OneCallAlone DEF TryRefresh
<1>3. CASE Become(c, q)
  <2>1. q \in RepoRecords
    <3>1. "claiming" \in RepoPlaces /\ persisted \in Bearers \cup {Nil}
      BY DEF RepoPlaces, MobileInv, TokenOK
    <3> QED BY <1>1, <3>1 DEF RepoRecords
  <2>2. /\ q.at = "claiming" /\ q.gen = repo[c].gen /\ q.epoch = repo[c].epoch
        /\ q.value = repo[c].value /\ q.job = refresher.epoch
    BY <1>1 DEF RepoRecords
  <2> HIDE DEF q
  <2>3. CallOK(q)
    BY <1>1, <2>1, <2>2 DEF CallOK
  <2> QED BY <1>1, <1>3, <2>3, OneCallAlone DEF TryRefresh
<1> QED BY <1>2, <1>3 DEF TryRefresh

-----------------------------------------------------------------------------
(* The mobile client: a refresh and those who wait for it                    *)

LEMMA JobHasParts ==
    ASSUME MobileInv, NEW j \in Jobs
    PROVE  JobOK(jobs[j]) /\ jobs[j] \in JobRecords
BY DEF MobileInv, JobsOK, JobOK

\* A call joins the refresh of its epoch, or begins one.
LEMMA JoinedIsOK ==
    ASSUME MobileInv, NEW c \in RepoCalls, repo[c].at # "idle", NEW j \in Jobs
    PROVE  CallOK([repo[c] EXCEPT !.at = "joined", !.job = j, !.expected = Nil])
<1> DEFINE q == [repo[c] EXCEPT !.at = "joined", !.job = j, !.expected = Nil]
<1>1. CallOK(repo[c]) /\ repo[c] \in RepoRecords
  BY CallHasParts
<1>2. q \in RepoRecords
  BY <1>1 DEF RepoRecords, RepoPlaces
<1>3. /\ q.at = "joined" /\ q.gen = repo[c].gen /\ q.epoch = repo[c].epoch
      /\ q.value = repo[c].value
  BY <1>1 DEF RepoRecords
<1> HIDE DEF q
<1>4. CallOK(q)
  BY <1>1, <1>2, <1>3 DEF CallOK
<1> QED BY <1>4 DEF q

LEMMA ClaimRefreshKeeps ==
    ASSUME MobileInv, NEW c \in RepoCalls, ClaimRefresh(c)
    PROVE  MobileInv'
<1> DEFINE itsEpoch == repo[c].job
<1>1. CallOK(repo[c]) /\ repo[c] \in RepoRecords /\ repo[c].at = "claiming"
      /\ itsEpoch \in 0 .. refresher.epoch /\ refresher.epoch \in Nat
  BY CallHasParts DEF ClaimRefresh, In, CallOK
<1>2. ASSUME NEW j \in InFlight(itsEpoch), jobs' = jobs,
             Become(c, [repo[c] EXCEPT !.at = "joined", !.job = j, !.expected = Nil])
      PROVE  MobileInv'
  BY <1>1, <1>2, JoinedIsOK, OneCallAlone DEF ClaimRefresh, InFlight
<1>3. ASSUME NEW mine \in FreeJobs, InFlight(itsEpoch) = {},
             Become(c, [repo[c] EXCEPT !.at = "joined", !.job = mine, !.expected = Nil]),
             jobs' = [j \in Jobs |->
                  IF j = mine
                  THEN [NoJob EXCEPT !.at = "checking", !.listed = TRUE, !.epoch = itsEpoch,
                                     !.expected = repo[c].expected]
                  ELSE [jobs[j] EXCEPT !.listed = @ /\ jobs[j].epoch # itsEpoch]]
      PROVE  MobileInv'
  <2>1. mine \in Jobs
    BY DEF FreeJobs
  <2>2. UNCHANGED <<login, bearer, persisted, screen, leaving, dialog, refresher, wipes>>
    BY DEF ClaimRefresh, mobSession, mobCache
  <2>3. RepoOK'
    BY <1>1, <1>3, <2>1, <2>2, JoinedIsOK, OneCallSteps
  <2>4. TokenOK'
    BY <1>1, <2>2, CallHasSession DEF MobileInv, TokenOK, BearerIsOwn
  <2>5. DialogIsOwn' /\ MobileCacheOK'
    BY <2>2, CacheUntouched DEF MobileInv, DialogIsOwn, ClaimRefresh
  <2> DEFINE fresh == [NoJob EXCEPT !.at = "checking", !.listed = TRUE, !.epoch = itsEpoch,
                                    !.expected = repo[c].expected]
  <2>6. /\ fresh \in JobRecords /\ fresh.at = "checking" /\ fresh.listed
        /\ fresh.epoch = itsEpoch
    <3>1. itsEpoch \in Nat /\ repo[c].expected \in Bearers \cup {Nil}
      BY <1>1 DEF RepoRecords
    <3> HIDE DEF itsEpoch
    <3> QED BY <3>1, NothingIsTyped DEF JobRecords
  <2>7. ASSUME NEW j \in Jobs, j # mine
        PROVE  /\ jobs'[j] \in JobRecords /\ jobs'[j].epoch = jobs[j].epoch
               /\ jobs'[j].at = jobs[j].at /\ jobs'[j].of = jobs[j].of
               /\ jobs'[j].listed = (jobs[j].listed /\ jobs[j].epoch # itsEpoch)
    BY <1>3, <2>7, JobHasParts DEF JobRecords
  <2>8. ASSUME NEW j \in Jobs, j # mine, Refreshing(jobs[j])
        PROVE  jobs[j].listed /\ jobs[j].epoch # itsEpoch
    BY <1>3, <2>8, JobHasParts DEF JobOK, InFlight, Refreshing
  <2>9. jobs'[mine] = fresh
    BY <1>3, <2>1
  <2> HIDE DEF fresh, itsEpoch
  <2>10. ASSUME NEW j \in Jobs PROVE JobOK(jobs[j])'
    <3>1. CASE j = mine
      BY <1>1, <2>2, <2>6, <2>9, <3>1 DEF JobOK, Refreshing
    <3>2. CASE j # mine
      BY ZenonT(60), <2>2, <2>7, <2>8, <3>2, JobHasParts DEF JobOK, Refreshing, CurrentEpoch
    <3> QED BY <3>1, <3>2
  <2>11. OneRefreshing'
    <3>1. ASSUME NEW j \in Jobs, NEW k \in Jobs, Refreshing(jobs'[j]), Refreshing(jobs'[k]),
                 jobs'[j].epoch = jobs'[k].epoch, j # k
          PROVE  FALSE
      BY <2>6, <2>7, <2>8, <2>9, <3>1 DEF MobileInv, JobsOK, OneRefreshing, Refreshing
    <3> QED BY <3>1 DEF OneRefreshing, Refreshing
  <2>12. DOMAIN jobs' = Jobs
    BY <1>3
  <2> QED BY <2>3, <2>4, <2>5, <2>10, <2>11, <2>12 DEF MobileInv, JobsOK
<1>4. FreeJobs # {} => (CHOOSE j \in FreeJobs : TRUE) \in FreeJobs
  OBVIOUS
<1> QED BY <1>2, <1>3, <1>4 DEF ClaimRefresh

-----------------------------------------------------------------------------
(* The end of a refresh                                                      *)

\* Of several refreshes of an itsEpoch one is under way, however this one moves on.
LEMMA OneJobMoves ==
    ASSUME MobileInv, NEW j \in Jobs, NEW job, JobOK(job), job.epoch = jobs[j].epoch,
           Refreshing(job) => Refreshing(jobs[j]),
           jobs' = [jobs EXCEPT ![j] = job], UNCHANGED <<login, refresher>>
    PROVE  JobsOK'
<1>1. DOMAIN jobs' = Jobs
  BY DEF MobileInv, JobsOK
<1>2. ASSUME NEW k \in Jobs PROVE JobOK(jobs[k])'
  BY <1>2 DEF MobileInv, JobsOK, JobOK, CurrentEpoch, Refreshing
<1>3. ASSUME NEW k \in Jobs
      PROVE  /\ jobs'[k].epoch = jobs[k].epoch
             /\ Refreshing(jobs'[k]) => Refreshing(jobs[k])
  BY <1>3 DEF MobileInv, JobsOK
<1>4. OneRefreshing'
  BY <1>3 DEF MobileInv, JobsOK, OneRefreshing, Refreshing
<1> QED BY <1>1, <1>2, <1>4 DEF JobsOK

LEMMA SessionStays ==
    ASSUME MobileInv, UNCHANGED <<mobSession, refresher>>,
           \E j \in Jobs : jobs[j].at # "free"
    PROVE  TokenOK' /\ DialogIsOwn'
<1>1. UNCHANGED <<login, bearer, persisted, screen, leaving, dialog>>
  BY DEF mobSession
<1>2. TokenOK'
  BY <1>1, CallHasSession DEF MobileInv, TokenOK, BearerIsOwn
<1> QED BY <1>1, <1>2 DEF MobileInv, DialogIsOwn

\* The end of a refresh, for itself and for those who joined it.
LEMMA CompleteKeeps ==
    ASSUME MobileInv, NEW j \in Jobs, NEW verdict \in {"success", "rejected", "dead", "network"},
           Complete(j, verdict), UNCHANGED <<login, refresher, wipes>>
    PROVE  RepoOK' /\ JobsOK'
<1> DEFINE over == [NoJob EXCEPT !.at = "done", !.listed = jobs[j].listed,
                                 !.epoch = jobs[j].epoch]
<1>1. JobOK(jobs[j]) /\ jobs[j] \in JobRecords
  BY JobHasParts
<1>2. over \in JobRecords /\ over.at = "done" /\ over.epoch = jobs[j].epoch
  BY <1>1, NothingIsTyped DEF JobRecords
<1>3. jobs' = [jobs EXCEPT ![j] = over]
  BY DEF Complete
<1> HIDE DEF over
<1>4. JobOK(over) /\ ~ Refreshing(over)
  BY <1>1, <1>2 DEF JobOK, Refreshing
<1>5. JobsOK'
  BY <1>2, <1>3, <1>4, OneJobMoves
<1>6. ASSUME NEW c \in RepoCalls PROVE CallOK(repo'[c])
  <2>1. CallOK(repo[c]) /\ repo[c] \in RepoRecords
    BY CallHasParts
  <2>2. CASE ~ (In(c, "joined") /\ repo[c].job = j)
    BY <2>1, <2>2 DEF Complete
  <2>3. CASE In(c, "joined") /\ verdict = "success" /\ repo[c].kind # "ensure" /\ repo[c].job = j
    <3> DEFINE q == [repo[c] EXCEPT !.at = "sending", !.retry = TRUE, !.job = Nil]
    <3>1. q \in RepoRecords
      BY <2>1 DEF RepoRecords, RepoPlaces
    <3>2. /\ q.at = "sending" /\ q.gen = repo[c].gen /\ q.epoch = repo[c].epoch
          /\ q.value = repo[c].value
      BY <2>1 DEF RepoRecords
    <3>3. repo'[c] = q
      BY <2>3 DEF Complete
    <3> HIDE DEF q
    <3>4. CallOK(q)
      BY <2>1, <2>3, <3>1, <3>2 DEF CallOK, In
    <3> QED BY <3>3, <3>4
  <2>4. CASE In(c, "joined") /\ repo[c].job = j /\ ~ (verdict = "success" /\ repo[c].kind # "ensure")
    <3>1. repo'[c] = Refused(c, verdict)
      BY <2>4 DEF Complete
    <3>2. CASE verdict # "success"
      BY <2>4, <3>1, <3>2, RefusedIsOK DEF In
    <3>3. CASE repo[c].kind = "ensure"
      BY <3>1, <3>3, CallHasParts, OverIsOK DEF Refused
    <3> QED BY <2>4, <3>2, <3>3
  <2> QED BY <2>2, <2>3, <2>4
<1>7. RepoOK'
  BY <1>6 DEF RepoOK, CallOK, CurrentEpoch, Complete
<1> QED BY <1>5, <1>7

LEMMA CheckJobKeeps ==
    ASSUME MobileInv, NEW j \in Jobs, CheckJob(j)
    PROVE  MobileInv'
<1>1. JobOK(jobs[j]) /\ jobs[j] \in JobRecords /\ jobs[j].at = "checking"
  BY JobHasParts DEF CheckJob
<1>2. TokenOK' /\ DialogIsOwn' /\ MobileCacheOK'
  BY <1>1, SessionStays, CacheUntouched DEF CheckJob, mobSession
<1>3. UNCHANGED <<login, refresher, wipes>>
  BY DEF CheckJob, mobSession, mobCache
<1>4. CASE Complete(j, "rejected")
  BY <1>2, <1>3, <1>4, CompleteKeeps DEF MobileInv
<1>5. CASE jobs' = [jobs EXCEPT ![j].at = "posting"] /\ repo' = repo
  <2> DEFINE job == [jobs[j] EXCEPT !.at = "posting"]
  <2>1. /\ job \in JobRecords /\ job.at = "posting" /\ job.epoch = jobs[j].epoch
        /\ job.listed = jobs[j].listed
    BY <1>1 DEF JobRecords
  <2>2. jobs' = [jobs EXCEPT ![j] = job]
    BY <1>5
  <2> HIDE DEF job
  <2>3. JobOK(job) /\ Refreshing(jobs[j])
    BY <1>1, <2>1 DEF JobOK, Refreshing
  <2>4. JobsOK'
    BY <1>3, <2>1, <2>2, <2>3, OneJobMoves
  <2>5. RepoOK'
    BY <1>3, <1>5 DEF MobileInv, RepoOK, CallOK, CurrentEpoch
  <2> QED BY <1>2, <2>4, <2>5 DEF MobileInv
<1> QED BY <1>4, <1>5 DEF CheckJob

LEMMA PostRefreshKeeps ==
    ASSUME MobileInv, NEW j \in Jobs, PostRefresh(j)
    PROVE  MobileInv'
<1> DEFINE job == [jobs[j] EXCEPT !.at = "waiting", !.of = Owner(bearer),
                                  !.was = Owner(bearer) \in serverLive,
                                  !.ver = IF bearer = Nil THEN 0 ELSE bearer.ver + 1]
<1>1. JobOK(jobs[j]) /\ jobs[j] \in JobRecords /\ jobs[j].at = "posting"
  BY JobHasParts DEF PostRefresh
<1>2. TokenOK' /\ DialogIsOwn' /\ MobileCacheOK'
  BY <1>1, SessionStays, CacheUntouched DEF PostRefresh, mobSession
<1>3. UNCHANGED <<login, refresher, wipes>>
  BY DEF PostRefresh, mobSession, mobCache
<1>4. CurrentEpoch(jobs[j].epoch) => Owner(bearer) = login
  BY <1>1, CallHasSession, BearerIsMine DEF CurrentEpoch
<1>5. jobs' = [jobs EXCEPT ![j] = job]
  BY DEF PostRefresh
<1>6. /\ job \in JobRecords /\ job.at = "waiting" /\ job.epoch = jobs[j].epoch
      /\ job.listed = jobs[j].listed /\ job.of = Owner(bearer)
  <2>1. /\ (Owner(bearer) \in serverLive) \in BOOLEAN
        /\ (IF bearer = Nil THEN 0 ELSE bearer.ver + 1) \in Nat
    BY BearerIsMine
  <2> QED BY <1>1, <2>1, BearerIsMine DEF JobRecords
<1> HIDE DEF job
<1>7. JobOK(job) /\ Refreshing(jobs[j])
  BY <1>1, <1>4, <1>6 DEF JobOK, Refreshing
<1>8. JobsOK'
  BY <1>3, <1>5, <1>6, <1>7, OneJobMoves
<1>9. RepoOK'
  BY <1>3 DEF PostRefresh, MobileInv, RepoOK, CallOK, CurrentEpoch
<1> QED BY <1>2, <1>8, <1>9 DEF MobileInv

\* The token that is stored was asked for with the bearer of this session.
LEMMA RotatedKeeps ==
    ASSUME MobileInv, NEW j \in Jobs, Rotated(j)
    PROVE  MobileInv'
<1> DEFINE mine == TokenOf(jobs[j].of, jobs[j].ver)
           stores == CurrentEpoch(jobs[j].epoch) /\ persisted # Nil /\ persisted = jobs[j].expected
<1>1. JobOK(jobs[j]) /\ jobs[j] \in JobRecords /\ jobs[j].at = "waiting"
  BY JobHasParts DEF Rotated
<1>2. UNCHANGED <<login, screen, leaving, dialog, refresher, wipes>> /\ MobileCacheOK'
  BY CacheUntouched DEF Rotated, mobCache
<1>3. DialogIsOwn'
  BY <1>2 DEF MobileInv, DialogIsOwn
<1>4. CASE stores /\ persisted' = mine /\ bearer' = mine /\ Complete(j, "success")
  <2>1. mine \in Bearers /\ mine.of = login /\ mine # Nil
    BY <1>1, <1>4, NothingIsTyped, CallHasSession DEF JobOK, JobRecords, TokenOf, Bearers,
       CurrentEpoch
  <2>2. screen = "in" /\ leaving \in {"no", "fencing"}
    BY <1>1, <1>4, CallHasSession DEF CurrentEpoch
  <2> HIDE DEF mine
  <2>3. TokenOK'
    BY <1>2, <1>4, <2>1, <2>2 DEF MobileInv, TokenOK, BearerIsOwn
  <2> QED BY <1>2, <1>3, <1>4, <2>3, CompleteKeeps DEF MobileInv
<1>5. CASE UNCHANGED <<persisted, bearer>> /\ Complete(j, "rejected")
  <2>1. TokenOK'
    BY <1>1, <1>2, <1>5, CallHasSession DEF MobileInv, TokenOK, BearerIsOwn
  <2> QED BY <1>2, <1>3, <1>5, <2>1, CompleteKeeps DEF MobileInv
<1> QED BY <1>4, <1>5 DEF Rotated

LEMMA RefreshRefusedKeeps ==
    ASSUME MobileInv, NEW j \in Jobs, RefreshUnauthorized(j) \/ RefreshFailed(j)
    PROVE  MobileInv'
<1>1. PICK verdict \in {"rejected", "dead", "network"} : Complete(j, verdict)
  BY DEF RefreshUnauthorized, RefreshFailed
<1>2. jobs[j].at = "waiting" /\ UNCHANGED <<mobSession, refresher, mobCache>>
  BY DEF RefreshUnauthorized, RefreshFailed
<1>3. TokenOK' /\ DialogIsOwn' /\ MobileCacheOK'
  BY <1>2, SessionStays, CacheUntouched DEF mobSession
<1>4. UNCHANGED <<login, refresher, wipes>>
  BY <1>2 DEF mobSession, mobCache
<1> QED BY <1>1, <1>3, <1>4, CompleteKeeps DEF MobileInv

LEMMA ClearJobKeeps ==
    ASSUME MobileInv, NEW j \in Jobs, ClearJob(j)
    PROVE  MobileInv'
<1>1. jobs[j].at = "done" /\ jobs' = [jobs EXCEPT ![j] = NoJob]
      /\ UNCHANGED <<mobSession, refresher, mobCache, repo>>
  BY DEF ClearJob
<1>2. TokenOK' /\ DialogIsOwn' /\ MobileCacheOK'
  BY <1>1, SessionStays, CacheUntouched DEF mobSession
<1>3. UNCHANGED <<login, refresher, wipes, repo>>
  BY <1>1 DEF mobSession, mobCache
<1>4. RepoOK'
  BY <1>3 DEF MobileInv, RepoOK, CallOK, CurrentEpoch
<1>5. ASSUME NEW k \in Jobs
      PROVE  \/ jobs'[k] = jobs[k]
             \/ jobs'[k] = NoJob /\ ~ Refreshing(jobs'[k]) /\ JobOK(NoJob)
  BY <1>1, <1>5, CallHasParts, NothingIsTyped
     DEF MobileInv, JobsOK, JobOK, TokenOK, Refreshing
<1>6. ASSUME NEW k \in Jobs PROVE JobOK(jobs[k])'
  BY <1>3, <1>5, JobHasParts, NothingIsTyped DEF JobOK, CurrentEpoch, Refreshing
<1>7. OneRefreshing'
  BY <1>5 DEF MobileInv, JobsOK, OneRefreshing, Refreshing
<1>8. DOMAIN jobs' = Jobs
  BY <1>1 DEF MobileInv, JobsOK
<1> QED BY <1>2, <1>4, <1>6, <1>7, <1>8 DEF MobileInv, JobsOK

-----------------------------------------------------------------------------
(* The logout, the login and the process                                     *)

LEMMA SaveToDiskKeeps ==
    ASSUME MobileInv, NEW value \in saves, SaveToDisk(value)
    PROVE  MobileInv'
<1>1. UNCHANGED <<login, bearer, persisted, screen, leaving, dialog, refresher, jobs, wipes,
                  repo>>
  BY DEF SaveToDisk, mobSession
<1>2. MobileCacheOK'
  BY <1>1 DEF SaveToDisk, MobileInv, MobileCacheOK, WipeIsFinal
<1>3. TokenOK' /\ DialogIsOwn'
  BY <1>1 DEF MobileInv, TokenOK, BearerIsOwn, Quiet, DialogIsOwn
<1>4. RepoOK' /\ JobsOK'
  BY <1>1 DEF MobileInv, RepoOK, JobsOK, CallOK, JobOK, OneRefreshing, CurrentEpoch, Refreshing
<1> QED BY <1>2, <1>3, <1>4 DEF MobileInv

\* What calls and refreshes have in their hands stays right when the numbers
\* move on, or when nobody has anything in his hands.
LEMMA HandsStayRight ==
    ASSUME MobileInv, UNCHANGED <<jobs, repo>>, wipes' = wipes,
           refresher' \in [epoch : Nat, active : BOOLEAN],
           \/ refresher' = refresher /\ login' = login
           \/ refresher' = refresher /\ (refresher.active => Quiet)
           \/ refresher'.epoch = refresher.epoch + 1
    PROVE  RepoOK' /\ JobsOK'
<1>1. refresher.epoch \in Nat
  BY DEF MobileInv, TokenOK
<1>2. ASSUME NEW c \in RepoCalls PROVE CallOK(repo[c])'
  <2>1. CallOK(repo[c]) /\ repo[c] \in RepoRecords
    BY CallHasParts
  <2>2. repo[c].epoch \in Nat
    BY <2>1 DEF RepoRecords
  <2> QED BY <1>1, <2>1, <2>2 DEF CallOK, CurrentEpoch, Quiet
<1>3. ASSUME NEW j \in Jobs PROVE JobOK(jobs[j])'
  <2>1. JobOK(jobs[j]) /\ jobs[j] \in JobRecords
    BY JobHasParts
  <2>2. jobs[j].epoch \in Nat
    BY <2>1 DEF JobRecords
  <2> QED BY <1>1, <2>1, <2>2 DEF JobOK, CurrentEpoch, Quiet, Refreshing
<1>4. OneRefreshing'
  BY DEF MobileInv, JobsOK, OneRefreshing, Refreshing
<1> QED BY <1>2, <1>3, <1>4 DEF MobileInv, RepoOK, JobsOK

LEMMA WipeKeeps ==
    ASSUME MobileInv, Wipe
    PROVE  MobileInv'
<1>1. UNCHANGED <<login, bearer, persisted, screen, dialog, refresher, jobs>>
  BY DEF Wipe
<1>2. screen = "in" /\ ~ refresher.active /\ leaving = "wiping" /\ leaving' = "joining"
  BY DEF Wipe, MobileInv, TokenOK
<1>3. TokenOK' /\ DialogIsOwn'
  BY <1>1, <1>2 DEF MobileInv, TokenOK, BearerIsOwn, DialogIsOwn
<1>4. MobileCacheOK'
  BY <1>2 DEF Wipe, MobileInv, MobileCacheOK, WipeIsFinal
<1>5. JobsOK'
  BY <1>1 DEF MobileInv, JobsOK, JobOK, OneRefreshing, CurrentEpoch, Refreshing
<1>6. ASSUME NEW c \in RepoCalls PROVE CallOK(repo[c])'
  <2>1. CallOK(repo[c]) /\ repo[c] \in RepoRecords /\ wipes \in Nat
    BY CallHasParts
  <2>2. PICK b \in BOOLEAN : repo'[c] = [repo[c] EXCEPT !.cancelled = b]
    <3>1. (repo[c].back /\ ~ In(c, "launching")) \in BOOLEAN
      BY <2>1 DEF RepoRecords
    <3> QED BY <3>1 DEF Wipe
  <2>3. /\ repo'[c] \in RepoRecords
        /\ repo'[c].at = repo[c].at /\ repo'[c].gen = repo[c].gen
        /\ repo'[c].epoch = repo[c].epoch /\ repo'[c].value = repo[c].value
        /\ repo'[c].of = repo[c].of /\ repo'[c].job = repo[c].job
    BY <2>1, <2>2 DEF RepoRecords
  <2>4. repo[c].gen \in Nat /\ wipes' = wipes + 1
    BY <2>1 DEF RepoRecords, Wipe
  <2> QED BY <1>1, <2>1, <2>3, <2>4 DEF CallOK, CurrentEpoch
<1>7. DOMAIN repo' = RepoCalls
  BY DEF Wipe
<1> QED BY <1>3, <1>4, <1>5, <1>6, <1>7 DEF MobileInv, RepoOK

LEMMA LogoutStepKeeps ==
    ASSUME MobileInv, LogoutStep
    PROVE  MobileInv'
<1>1. CASE Logout
  <2>1. TokenOK' /\ DialogIsOwn' /\ MobileCacheOK'
    BY <1>1 DEF Logout, MobileInv, TokenOK, BearerIsOwn, DialogIsOwn, Quiet, MobileCacheOK,
                WipeIsFinal, mobCache
  <2>2. RepoOK' /\ JobsOK'
    BY <1>1, HandsStayRight DEF Logout, mobCache, MobileInv, TokenOK
  <2> QED BY <2>1, <2>2 DEF MobileInv
<1>2. CASE FenceRefresher
  <2>1. refresher.epoch \in Nat /\ screen = "in"
    BY <1>2 DEF FenceRefresher, MobileInv, TokenOK
  <2>2. TokenOK' /\ DialogIsOwn' /\ MobileCacheOK'
    BY <1>2, <2>1 DEF FenceRefresher, MobileInv, TokenOK, BearerIsOwn, DialogIsOwn, Quiet,
                MobileCacheOK, WipeIsFinal, mobCache
  <2>3. refresher' \in [epoch : Nat, active : BOOLEAN] /\ refresher'.epoch = refresher.epoch + 1
    BY <1>2, <2>1 DEF FenceRefresher
  <2>4. RepoOK' /\ JobsOK'
    BY <1>2, <2>3, HandsStayRight DEF FenceRefresher, mobCache
  <2> QED BY <2>2, <2>4 DEF MobileInv
<1>3. CASE Wipe
  BY <1>3, WipeKeeps
<1>4. CASE Joined
  <2>1. TokenOK' /\ DialogIsOwn' /\ MobileCacheOK'
    BY <1>4 DEF Joined, MobileInv, TokenOK, BearerIsOwn, DialogIsOwn, Quiet, MobileCacheOK,
                WipeIsFinal
  <2>2. RepoOK' /\ JobsOK'
    BY <1>4, HandsStayRight DEF Joined, MobileInv, TokenOK
  <2> QED BY <2>1, <2>2 DEF MobileInv
<1>5. CASE ForgetToken
  <2>1. TokenOK' /\ DialogIsOwn' /\ MobileCacheOK'
    BY <1>5 DEF ForgetToken, MobileInv, TokenOK, BearerIsOwn, DialogIsOwn, Quiet,
                MobileCacheOK, WipeIsFinal, mobCache
  <2>2. RepoOK' /\ JobsOK'
    BY <1>5, HandsStayRight DEF ForgetToken, mobCache, MobileInv, TokenOK
  <2> QED BY <2>1, <2>2 DEF MobileInv
<1>6. CASE Flip
  <2>1. TokenOK' /\ DialogIsOwn' /\ MobileCacheOK'
    BY <1>6 DEF Flip, MobileInv, TokenOK, BearerIsOwn, DialogIsOwn, Quiet, MobileCacheOK,
                WipeIsFinal, mobCache
  <2>2. RepoOK' /\ JobsOK'
    BY <1>6, HandsStayRight DEF Flip, mobCache, MobileInv, TokenOK
  <2> QED BY <2>1, <2>2 DEF MobileInv
<1> QED BY <1>1, <1>2, <1>3, <1>4, <1>5, <1>6 DEF LogoutStep

LEMMA NewToken ==
    ASSUME NEW n \in Nat
    PROVE  TokenOf(n, 0) \in Bearers /\ TokenOf(n, 0).of = n /\ TokenOf(n, 0) # Nil
BY NothingIsTyped DEF TokenOf, Bearers

LEMMA LoginKeeps ==
    ASSUME MobileInv, SignIn \/ SignedIn \/ ResumeForNewSession
    PROVE  MobileInv'
<1>1. login \in Nat /\ refresher.epoch \in Nat
  BY DEF MobileInv, TokenOK
<1>2. CASE SignIn
  <2>1. /\ bearer = Nil /\ persisted = Nil /\ dialog = Nil /\ leaving = "no"
        /\ (refresher.active => Quiet)
    BY <1>2 DEF SignIn, MobileInv, TokenOK, BearerIsOwn, DialogIsOwn
  <2>2. TokenOK'
    BY <1>1, <1>2, <2>1, NewToken DEF SignIn, MobileInv, TokenOK, BearerIsOwn, Quiet
  <2>3. DialogIsOwn' /\ MobileCacheOK'
    BY <1>2, <2>1 DEF SignIn, MobileInv, DialogIsOwn, MobileCacheOK, WipeIsFinal, mobCache
  <2>4. RepoOK' /\ JobsOK'
    BY <1>2, <2>1, HandsStayRight DEF SignIn, mobCache, MobileInv, TokenOK
  <2> QED BY <2>2, <2>3, <2>4 DEF MobileInv
<1>3. CASE SignedIn
  <2>1. TokenOK'
    BY <1>1, <1>3, NewToken DEF SignedIn, MobileInv, TokenOK, BearerIsOwn, Quiet
  <2>2. DialogIsOwn' /\ MobileCacheOK'
    BY <1>3 DEF SignedIn, MobileInv, DialogIsOwn, MobileCacheOK, WipeIsFinal, mobCache
  <2>3. RepoOK' /\ JobsOK'
    BY <1>3, HandsStayRight DEF SignedIn, mobCache, MobileInv, TokenOK
  <2> QED BY <2>1, <2>2, <2>3 DEF MobileInv
<1>4. CASE ResumeForNewSession
  <2>1. TokenOK' /\ DialogIsOwn' /\ MobileCacheOK'
    BY <1>1, <1>4 DEF ResumeForNewSession, MobileInv, TokenOK, BearerIsOwn, DialogIsOwn,
                      MobileCacheOK, WipeIsFinal, mobCache
  <2>2. refresher' \in [epoch : Nat, active : BOOLEAN] /\ refresher'.epoch = refresher.epoch + 1
    BY <1>1, <1>4 DEF ResumeForNewSession
  <2>3. RepoOK' /\ JobsOK'
    BY <1>4, <2>2, HandsStayRight DEF ResumeForNewSession, mobCache
  <2> QED BY <2>1, <2>3 DEF MobileInv
<1> QED BY <1>2, <1>3, <1>4

LEMMA NobodyIsOK ==
    ASSUME repo' = [c \in RepoCalls |-> NoRepoCall], jobs' = [j \in Jobs |-> NoJob],
           wipes' = 0, refresher' = [epoch |-> 0, active |-> TRUE]
    PROVE  RepoOK' /\ JobsOK' /\ Quiet'
BY NothingIsTyped DEF RepoOK, JobsOK, CallOK, JobOK, OneRefreshing, Refreshing, Quiet

\* What is launched anew is launched with the token and the cache on disk.
LEMMA RelaunchKeeps ==
    ASSUME MobileInv, Relaunch
    PROVE  MobileInv'
<1>1. RepoOK' /\ JobsOK' /\ Quiet'
  BY NobodyIsOK DEF Relaunch
<1>2. TokenOK'
  BY <1>1 DEF Relaunch, MobileInv, TokenOK, BearerIsOwn
<1>3. DialogIsOwn'
  BY DEF Relaunch, DialogIsOwn
<1>4. MobileCacheOK'
  <2>1. disk # Nil => [disk EXCEPT !.gen = 0] \in MobileValues /\ [disk EXCEPT !.gen = 0].gen = 0
    BY DEF MobileInv, MobileCacheOK, MobileValues
  <2> QED BY <2>1 DEF Relaunch, MobileCacheOK, WipeIsFinal
<1> QED BY <1>1, <1>2, <1>3, <1>4 DEF MobileInv

LEMMA SessionEndsKeeps ==
    ASSUME MobileInv, SessionEnds
    PROVE  MobileInv'
<1>1. TokenOK' /\ DialogIsOwn' /\ MobileCacheOK'
  BY DEF SessionEnds, MobileInv, TokenOK, BearerIsOwn, DialogIsOwn, Quiet, MobileCacheOK,
         WipeIsFinal, mobCache
<1>2. RepoOK' /\ JobsOK'
  BY HandsStayRight DEF SessionEnds, mobCache, MobileInv, TokenOK
<1> QED BY <1>1, <1>2 DEF MobileInv

LEMMA MobileIdles ==
    ASSUME MobileInv, UNCHANGED mobVars
    PROVE  MobileInv'
<1>1. UNCHANGED <<login, bearer, persisted, screen, leaving, dialog, refresher, jobs, repo,
                  wipes, memory, disk, published, saves>>
  BY DEF mobVars, mobSession, mobCache
<1>2. TokenOK' /\ DialogIsOwn' /\ MobileCacheOK'
  BY <1>1 DEF MobileInv, TokenOK, BearerIsOwn, DialogIsOwn, Quiet, MobileCacheOK, WipeIsFinal
<1>3. RepoOK' /\ JobsOK'
  BY <1>1, HandsStayRight DEF MobileInv, TokenOK
<1> QED BY <1>2, <1>3 DEF MobileInv

LEMMA RepoStepKeeps ==
    ASSUME MobileInv, NEW c \in RepoCalls, RepoStep(c)
    PROVE  MobileInv'
BY StartReadKeeps, StartEnsureKeeps, StartUncachedKeeps, LookKeeps, LoadDiskKeeps,
   RestoreKeeps, ServeKeeps, BackgroundKeeps, CommitKeeps, PublishFetchedKeeps, FailKeeps,
   CancelledKeeps, EnterSafeKeeps, SendRepoKeeps, ReceiveValueKeeps, ReceiveDeadKeeps,
   ReceiveErrorKeeps, TryRefreshKeeps, ClaimRefreshKeeps
   DEF RepoStep

LEMMA JobStepKeeps ==
    ASSUME MobileInv, NEW j \in Jobs, JobStep(j)
    PROVE  MobileInv'
BY CheckJobKeeps, PostRefreshKeeps, RotatedKeeps, RefreshRefusedKeeps, ClearJobKeeps DEF JobStep

LEMMA MobileBegins ==
    ASSUME MobileInit
    PROVE  MobileInv
<1>1. RepoOK /\ JobsOK
  BY NothingIsTyped DEF MobileInit, RepoOK, JobsOK, CallOK, JobOK, OneRefreshing, Refreshing
<1>2. TokenOK /\ DialogIsOwn
  BY NewToken DEF MobileInit, TokenOK, BearerIsOwn, DialogIsOwn
<1>3. MobileCacheOK
  BY DEF MobileInit, MobileCacheOK, WipeIsFinal, MobileValues
<1> QED BY <1>1, <1>2, <1>3 DEF MobileInv

LEMMA MobileInvariant == MobileSpec => []MobileInv
<1>1. MobileInv /\ [MobileNext]_mobVars => MobileInv'
  BY RepoStepKeeps, JobStepKeeps, SaveToDiskKeeps, LogoutStepKeeps, LoginKeeps, SessionEndsKeeps,
     RelaunchKeeps, MobileIdles DEF MobileNext
<1> QED BY <1>1, MobileBegins, PTL DEF MobileSpec

\* What was under way when a logout of the mobile client began cannot bring its
\* token, its data or its dialog into the next session: a refresh stores its
\* token in the epoch it was begun in, a call commits and publishes in the
\* generation it was begun in, and the calls of an epoch share one refresh
\* (SessionRefresher.kt, CacheCoordinator.kt, SessionLogout.kt).  The process may
\* die and be launched anew at any moment.
THEOREM MobileLogoutIsFinal == MobileSpec => []LogoutFencesMobile
<1>1. MobileInv => LogoutFencesMobile
  BY DEF MobileInv, LogoutFencesMobile, TokenOK, MobileCacheOK, JobsOK, OneRefreshing, Refreshing,
         OneRefreshPerEpoch
<1> QED BY <1>1, MobileInvariant, PTL

-----------------------------------------------------------------------------
(* The login flow of the extension.                                          *)

\* The events the browser and the alarms bring, and the absence of one.
BrowserEvents == {"COOKIE_SET", "TAB_LOADED", "TIMEOUT", "none"}

\* The runner is at work on such an event or has it parked.
Tells(type) == type \in {run.event.type, run.parked.type}

\* No token, or one minted after the last logout was answered.
Newer(number) == number \in Nat /\ (number # 0 => number > logouts.answered)

\* What is saved, what the runner decided and what a POST has brought it.
TokensAreNew ==
    /\ Newer(saved.result.token) /\ Newer(run.out.token)
    /\ \A event \in {run.event, run.follow} :
          event.type = "HANDOFF_OK" => event.arg \in Nat /\ event.arg > logouts.answered

\* The poll under way was asked after the logouts its token is newer than.
AnswersAreNew ==
    /\ minted \in Nat /\ logouts.answered \in Nat /\ logouts.answered <= minted
    /\ poll.result.token \in Nat
    /\ poll.result.token # 0 => poll.result.token > poll.since.answered

\* An operation behind the head of the queue has not begun.
OnlyTheHeadRuns ==
    \A i \in DOMAIN queue :
      /\ queue[i].kind \in {"handoff", "logout"}
      /\ queue[i].since.answered \in Nat /\ queue[i].since.answered <= logouts.answered
      /\ i > 1 => queue[i].pc \in {"read", "request"}

\* What is parked comes from outside, what follows comes from a POST.
EventsAreTyped ==
    /\ run.parked.type \in BrowserEvents \cup {"LOGOUT", "REQUEST"}
    /\ run.follow.type \notin {"LOGOUT", "REQUEST"}
    /\ run.pc = "off" => run = Off

\* A request under way has the handoff that made it waiting.
RequestIsJoined == Tells("REQUEST") => AtHead("handoff", "joined")

\* A logout posts nothing, pushes nothing and ends idle.
LogoutRuns ==
    run.event.type = "LOGOUT" =>
      /\ run.follow.type = "none" /\ run.pc \in {"step", "save"}
      /\ run.pc = "save" => run.out.flow = IdleFlow /\ run.out.token = 0

\* No flow, and nothing that could bring a token or begin a flow.
Ended ==
    /\ saved.flow = IdleFlow
    /\ run.pc \in {"off", "step", "save"}
    /\ {run.event.type, run.parked.type} \subseteq BrowserEvents
    /\ run.follow.type = "none"
    /\ run.out.flow = IdleFlow /\ run.out.token = 0

\* A logout that waits for the runner is not forgotten by it; once it has been
\* run, all is quiet until the logout is over.
LogoutStops ==
    queue # <<>> /\ Head(queue).kind = "logout" =>
      /\ Head(queue).pc = "joined" => Tells("LOGOUT") \/ Ended
      /\ Head(queue).pc = "ran" \/ (Head(queue).pc = "remove" /\ Head(queue).clean) => Ended

\* A sequence, of whatever the operations are.
IsQueue(q) == \E S : q \in Seq(S)

LoginIsTyped ==
    /\ DOMAIN saved = {"flow", "result", "epoch"}
    /\ DOMAIN run = {"pc", "event", "parked", "follow", "out"}
    /\ DOMAIN logouts = {"answered", "killed"}
    /\ IsQueue(queue)
    /\ \A i \in DOMAIN queue :
         DOMAIN queue[i] = {"kind", "epoch", "pc", "flow", "clean", "since"}

\* The inductive invariant of the login flow.
LoginInvariant ==
    /\ LoginIsTyped /\ EventsAreTyped /\ OnlyTheHeadRuns
    /\ TokensAreNew /\ AnswersAreNew
    /\ RequestIsJoined /\ LogoutRuns /\ LogoutStops
    /\ LogoutForgetsTokens

\* A queue of which the head is replaced.
LEMMA HeadChanges ==
    ASSUME NEW q, IsQueue(q), q # <<>>, NEW e, NEW r, r = [q EXCEPT ![1] = e]
    PROVE  /\ IsQueue(r) /\ r # <<>> /\ DOMAIN r = DOMAIN q
           /\ 1 \in DOMAIN q /\ Head(q) = q[1] /\ Head(r) = e /\ r[1] = e
           /\ \A i \in DOMAIN q : i # 1 => r[i] = q[i]
<1>1. PICK S : q \in Seq(S)
  BY DEF IsQueue
<1>2. [q EXCEPT ![1] = e] \in Seq(S \cup {e})
  BY <1>1
<1>3. Len(q) \in Nat /\ Len(q) # 0 /\ DOMAIN q = 1..Len(q)
  BY <1>1
<1> QED
  BY <1>1, <1>2, <1>3 DEF IsQueue

\* A queue of which the head is taken.
LEMMA HeadLeaves ==
    ASSUME NEW q, IsQueue(q), q # <<>>, NEW r, r = Tail(q)
    PROVE  /\ IsQueue(r) /\ 1 \in DOMAIN q /\ Head(q) = q[1]
           /\ \A i \in DOMAIN r : i \in Nat /\ i >= 1 /\ i + 1 \in DOMAIN q /\ r[i] = q[i + 1]
           /\ r # <<>> => 1 \in DOMAIN r /\ Head(r) = r[1]
<1>1. PICK S : q \in Seq(S)
  BY DEF IsQueue
<1> QED
  BY <1>1 DEF IsQueue

\* The state machine makes up no token.
LEMMA AdvanceOfToken ==
    ASSUME NEW flow, NEW event, NEW guarded
    PROVE  LET out == Advance(flow, event, guarded) IN
           out.token = 0 \/ (event.type = "HANDOFF_OK" /\ out.token = event.arg)
<1>1. ASSUME NEW f, NEW s
      PROVE  Outcome(f).token = 0 /\ Visit(f, s).token = 0 /\ AdvanceAuth(f).token = 0
  BY DEF Outcome, Visit, AdvanceAuth
<1>2. ASSUME NEW f, NEW core, NEW result, NEW brought
      PROVE  Terminal(f, core, result, brought).token = brought
  BY DEF Outcome, Terminal
<1>3. ASSUME NEW f, NEW s
      PROVE  HandoffStale(f, s).token = 0
  BY <1>1, <1>2 DEF HandoffStale, Outcome, Visit
<1>4. Loaded(flow, event).token = 0 /\ CookieSet(flow, event, guarded).token = 0
  BY <1>1 DEF Loaded, CookieSet
<1>5. Requested.token = 0
  BY <1>1 DEF Requested, Outcome
<1>6. [Visit(flow, event.arg) EXCEPT !.clear = Downstream(event.arg)].token = 0
  BY DEF Visit, Outcome
<1>7. [Terminal(flow, "idle", "none", 0) EXCEPT !.flow = IdleFlow].token = 0
  BY DEF Terminal, Outcome
<1> QED
  BY <1>1, <1>2, <1>3, <1>4, <1>5, <1>6, <1>7 DEF Advance

\* A logout ends any flow, without a POST and without a push.
LEMMA AdvanceOfLogout ==
    ASSUME NEW flow, NEW event, NEW guarded, event.type = "LOGOUT"
    PROVE  LET out == Advance(flow, event, guarded) IN
           out.flow = IdleFlow /\ out.token = 0 /\ ~ out.post /\ out.result = "none"
<1>1. Advance(flow, event, guarded)
        = [Terminal(flow, "idle", "none", 0) EXCEPT !.flow = IdleFlow]
  BY DEF Advance
<1> QED
  BY <1>1 DEF Terminal, Outcome

\* Without a flow, the browser's events lead nowhere.
LEMMA AdvanceOfQuiet ==
    ASSUME NEW event, event.type \in BrowserEvents, NEW guarded
    PROVE  Advance(Normalized(IdleFlow), event, guarded) = Outcome(IdleFlow)
<1>1. Normalized(IdleFlow) = IdleFlow /\ ~ IsActive(IdleFlow) /\ IdleFlow.core = "idle"
  BY DEF Normalized, IsActive, IdleFlow
<1> QED
  BY <1>1 DEF Advance, BrowserEvents
LEMMA StepOfRunKeeps ==
    ASSUME LoginInvariant, Step
    PROVE  LoginInvariant'
<1>1. PICK guarded \in BOOLEAN :
         LET out == Advance(Normalized(saved.flow), run.event, guarded) IN
         run' = [run EXCEPT !.out = out,
                            !.pc = IF out.post THEN "post"
                                   ELSE IF out.result # "none" THEN "send" ELSE "save"]
  BY DEF Step
<1> DEFINE out == Advance(Normalized(saved.flow), run.event, guarded)
<1>2. /\ run' = [run EXCEPT !.out = out, !.pc = run'.pc]
      /\ run'.pc = IF out.post THEN "post" ELSE IF out.result # "none" THEN "send" ELSE "save"
  BY <1>1 DEF LoginInvariant, LoginIsTyped
<1>3. out.token = 0 \/ (run.event.type = "HANDOFF_OK" /\ out.token = run.event.arg)
  BY AdvanceOfToken
<1>4. run.event.type = "LOGOUT" =>
        out.flow = IdleFlow /\ out.token = 0 /\ ~ out.post /\ out.result = "none"
  <2> SUFFICES ASSUME run.event.type = "LOGOUT"
               PROVE  /\ out.flow = IdleFlow /\ out.token = 0
                      /\ ~ out.post /\ out.result = "none"
    OBVIOUS
  <2> QED
    BY AdvanceOfLogout
<1>5. Ended => out = Outcome(IdleFlow)
  BY AdvanceOfQuiet DEF Ended
<1>6. LET o == Outcome(IdleFlow) IN
      o.flow = IdleFlow /\ o.token = 0 /\ ~ o.post /\ o.result = "none"
  BY DEF Outcome
<1> HIDE DEF out
<1>7. /\ DOMAIN run' = DOMAIN run
      /\ run'.out = out /\ run'.event = run.event /\ run'.parked = run.parked
      /\ run'.follow = run.follow /\ run.pc = "step" /\ run'.pc # "off"
      /\ UNCHANGED <<saved, queue, poll, minted, told, logouts>>
  BY <1>2 DEF LoginInvariant, LoginIsTyped, Step
<1>8. LoginIsTyped' /\ EventsAreTyped' /\ OnlyTheHeadRuns' /\ AnswersAreNew'
      /\ LogoutForgetsTokens' /\ RequestIsJoined'
  BY <1>7 DEF LoginInvariant, LoginIsTyped, EventsAreTyped, OnlyTheHeadRuns, AnswersAreNew,
       LogoutForgetsTokens, RequestIsJoined, Tells, AtHead
<1>9. TokensAreNew'
  BY <1>3, <1>7 DEF LoginInvariant, TokensAreNew, Newer
<1>10. LogoutRuns'
  BY <1>2, <1>4, <1>7 DEF LoginInvariant, LogoutRuns
<1>11. Ended => Ended'
  BY <1>2, <1>5, <1>6, <1>7 DEF Ended
<1>12. LogoutStops'
  BY <1>7, <1>11 DEF LoginInvariant, LogoutStops, Tells
<1> QED
  BY <1>8, <1>9, <1>10, <1>12 DEF LoginInvariant

LEMMA PostKeeps ==
    ASSUME LoginInvariant, Post
    PROVE  LoginInvariant'
<1>1. PICK answer \in Answers :
         /\ run' = [run EXCEPT !.pc = "save", !.follow = answer]
         /\ minted' = IF answer.type = "HANDOFF_OK" THEN answer.arg ELSE minted
  BY DEF Post
<1>2. /\ answer.type \notin {"LOGOUT", "REQUEST"}
      /\ answer.type = "HANDOFF_OK" => answer.arg = minted + 1
  BY DEF Answers, FlowEvent
<1>3. /\ DOMAIN run' = DOMAIN run
      /\ run'.out = run.out /\ run'.event = run.event /\ run'.parked = run.parked
      /\ run'.follow = answer /\ run.pc = "post" /\ run'.pc = "save"
      /\ UNCHANGED <<saved, queue, poll, told, logouts>>
  BY <1>1 DEF LoginInvariant, LoginIsTyped, Post
<1>4. LoginIsTyped' /\ EventsAreTyped' /\ OnlyTheHeadRuns' /\ AnswersAreNew'
      /\ LogoutForgetsTokens' /\ RequestIsJoined'
  BY <1>1, <1>2, <1>3 DEF LoginInvariant, LoginIsTyped, EventsAreTyped, OnlyTheHeadRuns,
       AnswersAreNew, LogoutForgetsTokens, RequestIsJoined, Tells, AtHead
<1>5. TokensAreNew'
  BY <1>2, <1>3 DEF LoginInvariant, TokensAreNew, AnswersAreNew, Newer
<1>6. LogoutRuns' /\ ~ Ended
  BY <1>3 DEF LoginInvariant, LogoutRuns, Ended
<1>7. LogoutStops'
  BY <1>3, <1>6 DEF LoginInvariant, LogoutStops, Tells
<1> QED
  BY <1>4, <1>5, <1>6, <1>7 DEF LoginInvariant

LEMMA SendKeeps ==
    ASSUME LoginInvariant, SendToApp
    PROVE  LoginInvariant'
<1>1. /\ DOMAIN run' = DOMAIN run /\ DOMAIN saved' = DOMAIN saved
      /\ saved'.result.token = run.out.token
      /\ run'.out = run.out /\ run'.event = run.event /\ run'.parked = run.parked
      /\ run'.follow = run.follow /\ run.pc = "send" /\ run'.pc = "save"
      /\ UNCHANGED <<queue, poll, minted, told, logouts>>
  BY DEF LoginInvariant, LoginIsTyped, SendToApp
<1>2. LoginIsTyped' /\ EventsAreTyped' /\ OnlyTheHeadRuns' /\ AnswersAreNew'
      /\ LogoutForgetsTokens' /\ RequestIsJoined'
  BY <1>1 DEF LoginInvariant, LoginIsTyped, EventsAreTyped, OnlyTheHeadRuns, AnswersAreNew,
       LogoutForgetsTokens, RequestIsJoined, Tells, AtHead
<1>3. TokensAreNew'
  BY <1>1 DEF LoginInvariant, TokensAreNew, Newer
<1>4. LogoutRuns' /\ ~ Ended
  BY <1>1 DEF LoginInvariant, LogoutRuns, Ended
<1>5. LogoutStops'
  BY <1>1, <1>4 DEF LoginInvariant, LogoutStops, Tells
<1> QED
  BY <1>2, <1>3, <1>4, <1>5 DEF LoginInvariant

LEMMA HeadIsTyped ==
    ASSUME LoginInvariant, queue # <<>>
    PROVE  /\ Head(queue) = queue[1] /\ 1 \in DOMAIN queue
           /\ DOMAIN queue[1] = {"kind", "epoch", "pc", "flow", "clean", "since"}
<1>1. IsQueue(queue)
  BY DEF LoginInvariant, LoginIsTyped
<1>2. Head(queue) = queue[1] /\ 1 \in DOMAIN queue
  BY <1>1, HeadLeaves
<1> QED
  BY <1>2 DEF LoginInvariant, LoginIsTyped

\* An event of the app or of the browser starts a run, or is parked.
LEMMA EventRuns ==
    ASSUME LoginInvariant, NEW event, RunFlow(event), UNCHANGED <<saved, logouts>>,
           event.type \in BrowserEvents \cup {"LOGOUT", "REQUEST"}
    PROVE  /\ DOMAIN run' = DOMAIN run /\ EventsAreTyped' /\ TokensAreNew' /\ LogoutRuns'
           /\ run'.event.type \in {run.event.type, event.type}
           /\ run'.parked.type \in {"none", run.parked.type, event.type}
           /\ event.type \in BrowserEvents => (Tells("REQUEST")' <=> Tells("REQUEST"))
           /\ event.type \in BrowserEvents => (Tells("LOGOUT")' <=> Tells("LOGOUT"))
           /\ event.type \in BrowserEvents /\ Ended => Ended'
           /\ event.type = "LOGOUT" => Tells("LOGOUT")'
<1>1. CASE run.pc = "off"
  <2>1. /\ run = Off /\ run' = [Off EXCEPT !.pc = "step", !.event = event]
    BY <1>1 DEF RunFlow, LoginInvariant, EventsAreTyped
  <2>2. /\ DOMAIN run' = DOMAIN run /\ run'.pc = "step" /\ run'.event = event
        /\ run'.parked = NoEvent /\ run'.follow = NoEvent
        /\ run'.out.flow = IdleFlow /\ run'.out.token = 0 /\ NoEvent.type = "none"
        /\ run.event = NoEvent /\ run.parked = NoEvent
    BY <2>1 DEF Off, Outcome, NoEvent, FlowEvent
  <2>3. EventsAreTyped' /\ TokensAreNew' /\ LogoutRuns'
    BY <2>2 DEF LoginInvariant, EventsAreTyped, TokensAreNew, Newer, LogoutRuns, BrowserEvents
  <2>4. event.type \in BrowserEvents /\ Ended => Ended'
    BY <2>2 DEF Ended, BrowserEvents
  <2> QED
    BY <2>2, <2>3, <2>4 DEF Tells, BrowserEvents
<1>2. CASE run.pc # "off" /\ Priority(event) >= Priority(run.parked)
  <2>1. run' = [run EXCEPT !.parked = event]
    BY <1>2 DEF RunFlow
  <2>2. /\ DOMAIN run' = DOMAIN run /\ run'.pc = run.pc /\ run'.event = run.event
        /\ run'.parked = event /\ run'.follow = run.follow /\ run'.out = run.out
    BY <2>1 DEF LoginInvariant, LoginIsTyped
  <2>3. EventsAreTyped' /\ TokensAreNew' /\ LogoutRuns'
    BY <1>2, <2>2 DEF LoginInvariant, EventsAreTyped, TokensAreNew, Newer, LogoutRuns
  <2>4. event.type \in BrowserEvents => run.parked.type \notin {"REQUEST", "LOGOUT"}
    BY <1>2 DEF Priority, BrowserEvents
  <2>5. event.type \in BrowserEvents /\ Ended => Ended'
    BY <2>2 DEF Ended
  <2> QED
    BY <2>2, <2>3, <2>4, <2>5 DEF Tells, BrowserEvents
<1>3. CASE run.pc # "off" /\ ~ (Priority(event) >= Priority(run.parked))
  <2>1. run' = run
    BY <1>3 DEF RunFlow
  <2>2. EventsAreTyped' /\ TokensAreNew' /\ LogoutRuns' /\ (Ended => Ended')
    BY <2>1 DEF LoginInvariant, EventsAreTyped, TokensAreNew, Newer, LogoutRuns, Ended
  <2>3. event.type # "LOGOUT"
    BY <1>3 DEF Priority, LoginInvariant, EventsAreTyped, BrowserEvents
  <2> QED
    BY <2>1, <2>2, <2>3 DEF Tells
<1> QED
  BY <1>1, <1>2, <1>3

\* What the head of the queue is turned into.
LEMMA HeadMoves ==
    ASSUME LoginInvariant, queue # <<>>, NEW op, queue' = [queue EXCEPT ![1] = op],
           DOMAIN op = DOMAIN queue[1], op.kind = queue[1].kind, op.since = queue[1].since,
           logouts' = logouts
    PROVE  /\ queue' # <<>> /\ Head(queue) = queue[1] /\ Head(queue') = op
           /\ IsQueue(queue') /\ OnlyTheHeadRuns'
           /\ \A i \in DOMAIN queue' :
                DOMAIN queue'[i] = {"kind", "epoch", "pc", "flow", "clean", "since"}
<1>1. IsQueue(queue)
  BY DEF LoginInvariant, LoginIsTyped
<1>2. /\ IsQueue(queue') /\ queue' # <<>> /\ DOMAIN queue' = DOMAIN queue
      /\ 1 \in DOMAIN queue /\ Head(queue) = queue[1] /\ Head(queue') = queue'[1]
      /\ queue'[1] = op
      /\ \A i \in DOMAIN queue : i # 1 => queue'[i] = queue[i]
  BY <1>1, HeadChanges
<1>3. OnlyTheHeadRuns'
  BY <1>2 DEF LoginInvariant, OnlyTheHeadRuns
<1>4. \A i \in DOMAIN queue' :
        DOMAIN queue'[i] = {"kind", "epoch", "pc", "flow", "clean", "since"}
  BY <1>2 DEF LoginInvariant, LoginIsTyped
<1> QED
  BY <1>2, <1>3, <1>4

\* A run ends, and whoever waits hears of it.
LEMMA RunEnds ==
    ASSUME LoginInvariant, NEW how \in {"ran", "failed"}, run' = Off, Wake(how),
           UNCHANGED <<minted, poll, told, logouts>>,
           DOMAIN saved' = DOMAIN saved, saved'.result = saved.result,
           how = "ran" => ~ Tells("LOGOUT") \/ saved'.flow = IdleFlow,
           Ended => saved'.flow = IdleFlow
    PROVE  LoginInvariant'
<1>1. /\ run'.pc = "off" /\ run'.event = NoEvent /\ run'.parked = NoEvent /\ run'.follow = NoEvent
      /\ run'.out.flow = IdleFlow /\ run'.out.token = 0
      /\ NoEvent.type = "none"
      /\ DOMAIN run' = DOMAIN run
  BY DEF Off, NoEvent, FlowEvent, Outcome, LoginInvariant, LoginIsTyped
<1>2. saved'.flow = IdleFlow => Ended'
  BY <1>1 DEF Ended, BrowserEvents
<1>3. TokensAreNew' /\ EventsAreTyped' /\ RequestIsJoined' /\ LogoutRuns' /\ AnswersAreNew'
      /\ LogoutForgetsTokens'
  BY <1>1 DEF LoginInvariant, TokensAreNew, Newer, EventsAreTyped, RequestIsJoined, LogoutRuns,
       AnswersAreNew, LogoutForgetsTokens, Tells, BrowserEvents
<1>4. CASE queue # <<>> /\ Head(queue).pc = "joined"
  <2> DEFINE op == [queue[1] EXCEPT !.pc = how]
  <2>1. queue' = [queue EXCEPT ![1] = op]
    BY <1>4 DEF Wake
  <2>2. 1 \in DOMAIN queue
    <3>1. IsQueue(queue)
      BY DEF LoginInvariant, LoginIsTyped
    <3> QED
      BY <1>4, <3>1, HeadLeaves
  <2>3. DOMAIN op = DOMAIN queue[1] /\ op.pc = how /\ op.kind = queue[1].kind
        /\ op.since = queue[1].since
    BY <2>2 DEF LoginInvariant, LoginIsTyped
  <2> HIDE DEF op
  <2>4. /\ queue' # <<>> /\ Head(queue) = queue[1] /\ Head(queue') = op
        /\ IsQueue(queue') /\ OnlyTheHeadRuns'
        /\ \A i \in DOMAIN queue' :
             DOMAIN queue'[i] = {"kind", "epoch", "pc", "flow", "clean", "since"}
    BY <1>4, <2>1, <2>3, HeadMoves
  <2>5. LoginIsTyped'
    BY <1>1, <2>4 DEF LoginInvariant, LoginIsTyped
  <2>6. queue[1].kind = "logout" => Tells("LOGOUT") \/ Ended
    BY <1>4, <2>4 DEF LoginInvariant, LogoutStops
  <2>7. op.kind = "logout" /\ how = "ran" => Ended'
    BY <1>2, <2>3, <2>6
  <2>8. LogoutStops'
    BY <2>3, <2>4, <2>7 DEF LogoutStops
  <2> QED
    BY <1>3, <2>4, <2>5, <2>8 DEF LoginInvariant
<1>5. CASE ~ (queue # <<>> /\ Head(queue).pc = "joined")
  <2>1. UNCHANGED queue
    BY <1>5 DEF Wake
  <2>2. LoginIsTyped' /\ OnlyTheHeadRuns'
    BY <1>1, <2>1 DEF LoginInvariant, LoginIsTyped, OnlyTheHeadRuns
  <2>3. LogoutStops'
    BY <1>2, <1>5, <2>1 DEF LoginInvariant, LogoutStops
  <2> QED
    BY <1>3, <2>2, <2>3 DEF LoginInvariant
<1> QED
  BY <1>4, <1>5

LEMMA SaveKeeps ==
    ASSUME LoginInvariant, Save
    PROVE  LoginInvariant'
<1> DEFINE next == IF run.follow.type # "none" THEN run.follow
                   ELSE Drain(run.event, run.out.flow, run.parked)
<1>1. /\ DOMAIN saved' = DOMAIN saved /\ saved'.flow = run.out.flow
      /\ saved'.result = saved.result /\ run.pc = "save"
      /\ UNCHANGED <<poll, minted, told, logouts>>
  BY DEF LoginInvariant, LoginIsTyped, Save
<1>2. Ended => saved'.flow = IdleFlow
  BY <1>1 DEF Ended
<1>3. \/ next = run.follow /\ run.follow.type # "none"
      \/ next = run.parked /\ run.follow.type = "none"
      \/ next = NoEvent /\ run.parked.type = "REQUEST" /\ run.follow.type = "none"
         /\ run.event.type = "HANDOFF_OK"
  BY DEF Drain
<1>4. NoEvent.type = "none"
  BY DEF NoEvent, FlowEvent
<1>5. CASE next.type = "none"
  <2>1. run' = Off /\ Wake("ran")
    BY <1>5 DEF Save, NextEvent
  <2>2. Tells("LOGOUT") => saved'.flow = IdleFlow
    BY <1>1, <1>3, <1>4, <1>5 DEF LoginInvariant, LogoutRuns, Tells
  <2> QED
    BY <1>1, <1>2, <2>1, <2>2, RunEnds
<1>6. CASE next.type # "none"
  <2>1. run' = [Off EXCEPT !.pc = "step", !.event = next,
                   !.parked = IF run.follow.type # "none" THEN run.parked ELSE NoEvent]
        /\ UNCHANGED queue
    BY <1>6 DEF Save, NextEvent
  <2> HIDE DEF next
  <2>2. /\ DOMAIN run' = DOMAIN run /\ run'.pc = "step" /\ run'.event = next
        /\ run'.parked = IF run.follow.type # "none" THEN run.parked ELSE NoEvent
        /\ run'.follow = NoEvent /\ run'.out.flow = IdleFlow /\ run'.out.token = 0
    BY <2>1 DEF Off, Outcome, LoginInvariant, LoginIsTyped
  <2>3. LoginIsTyped' /\ OnlyTheHeadRuns' /\ AnswersAreNew' /\ LogoutForgetsTokens'
    BY <1>1, <2>1, <2>2 DEF LoginInvariant, LoginIsTyped, OnlyTheHeadRuns, AnswersAreNew,
         LogoutForgetsTokens
  <2>4. EventsAreTyped' /\ LogoutRuns'
    BY <1>4, <2>2 DEF LoginInvariant, EventsAreTyped, LogoutRuns, BrowserEvents
  <2>5. TokensAreNew'
    BY <1>1, <1>3, <1>4, <1>6, <2>2
    DEF LoginInvariant, TokensAreNew, Newer, EventsAreTyped, BrowserEvents
  <2>6. RequestIsJoined'
    BY <1>3, <1>4, <1>6, <2>1, <2>2
    DEF LoginInvariant, RequestIsJoined, EventsAreTyped, Tells, AtHead
  <2>7. Ended => Ended'
    BY <1>1, <1>3, <1>4, <2>2 DEF Ended, BrowserEvents
  <2>8. Tells("LOGOUT") /\ AtHead("logout", "joined") => Tells("LOGOUT")' \/ Ended'
    BY <1>1, <1>3, <1>4, <1>6, <2>2
    DEF LoginInvariant, LogoutRuns, RequestIsJoined, EventsAreTyped, Tells, AtHead, Ended,
        BrowserEvents
  <2>9. LogoutStops'
    BY <2>1, <2>7, <2>8 DEF LoginInvariant, LogoutStops, AtHead
  <2> QED
    BY <2>3, <2>4, <2>5, <2>6, <2>9 DEF LoginInvariant
<1> QED
  BY <1>5, <1>6

LEMMA SaveFailsKeeps ==
    ASSUME LoginInvariant, SaveFails
    PROVE  LoginInvariant'
<1>1. run' = Off /\ Wake("failed") /\ UNCHANGED <<saved, minted, poll, told, logouts>>
  BY DEF SaveFails
<1>2. Ended => saved'.flow = IdleFlow
  BY <1>1 DEF Ended
<1> QED
  BY <1>1, <1>2, RunEnds

\* The head of the queue is answered and leaves it; it was not waiting for a
\* run, so no request is under way.
LEMMA HeadIsAnswered ==
    ASSUME LoginInvariant, queue # <<>>, Head(queue).pc # "joined", NEW brought, AnswerApp(brought),
           Newer(brought), DOMAIN logouts' = DOMAIN logouts,
           logouts'.answered \in Nat, logouts.answered <= logouts'.answered
    PROVE  /\ IsQueue(queue') /\ OnlyTheHeadRuns' /\ LogoutStops' /\ LogoutForgetsTokens'
           /\ ~ Tells("REQUEST")
           /\ \A i \in DOMAIN queue' :
                DOMAIN queue'[i] = {"kind", "epoch", "pc", "flow", "clean", "since"}
<1>1. IsQueue(queue) /\ queue' = Tail(queue)
  BY DEF LoginInvariant, LoginIsTyped, AnswerApp
<1>2. /\ IsQueue(queue') /\ 1 \in DOMAIN queue /\ Head(queue) = queue[1]
      /\ \A i \in DOMAIN queue' :
           i \in Nat /\ i >= 1 /\ i + 1 \in DOMAIN queue /\ queue'[i] = queue[i + 1]
      /\ queue' # <<>> => 1 \in DOMAIN queue' /\ Head(queue') = queue'[1]
  <2>1. queue # <<>>
    OBVIOUS
  <2>2. \A r : r = Tail(queue) =>
          /\ IsQueue(r) /\ 1 \in DOMAIN queue /\ Head(queue) = queue[1]
          /\ \A i \in DOMAIN r :
               i \in Nat /\ i >= 1 /\ i + 1 \in DOMAIN queue /\ r[i] = queue[i + 1]
          /\ r # <<>> => 1 \in DOMAIN r /\ Head(r) = r[1]
    BY <1>1, <2>1, HeadLeaves, Zenon
  <2> QED
    BY <1>1, <2>2, Zenon
<1>3. \A i \in DOMAIN queue' :
        DOMAIN queue'[i] = {"kind", "epoch", "pc", "flow", "clean", "since"}
  BY <1>2 DEF LoginInvariant, LoginIsTyped
<1>4. \A i \in DOMAIN queue' :
        /\ queue'[i].kind \in {"handoff", "logout"} /\ queue'[i].pc \in {"read", "request"}
        /\ queue'[i].since.answered \in Nat /\ queue'[i].since.answered <= logouts.answered
  BY <1>2 DEF LoginInvariant, OnlyTheHeadRuns
<1>5. OnlyTheHeadRuns'
  BY <1>4 DEF OnlyTheHeadRuns, LoginInvariant, AnswersAreNew
<1>6. LogoutStops'
  BY <1>2, <1>4 DEF LogoutStops
<1>7. LogoutForgetsTokens'
  <2>1. told'.token = brought /\ told'.since = queue[1].since
    BY <1>2 DEF AnswerApp
  <2>2. queue[1].since.answered \in Nat /\ queue[1].since.answered <= logouts.answered
    BY <1>2 DEF LoginInvariant, OnlyTheHeadRuns
  <2>3. logouts.answered \in Nat
    BY DEF LoginInvariant, AnswersAreNew
  <2> QED
    BY <2>1, <2>2, <2>3 DEF LogoutForgetsTokens, Newer
<1>8. ~ Tells("REQUEST")
  BY DEF LoginInvariant, RequestIsJoined, AtHead
<1> QED
  BY <1>2, <1>3, <1>5, <1>6, <1>7, <1>8

\* ... and nothing else is changed but the state and the result saved.
LEMMA AnswerKeeps ==
    ASSUME LoginInvariant, queue # <<>>, Head(queue).pc # "joined", NEW brought, AnswerApp(brought),
           Newer(brought), UNCHANGED <<run, poll, minted, logouts>>,
           DOMAIN saved' = DOMAIN saved, saved'.result.token \in {0, saved.result.token}
    PROVE  LoginInvariant'
<1>0. /\ DOMAIN logouts' = DOMAIN logouts
      /\ logouts'.answered \in Nat /\ logouts.answered <= logouts'.answered
  BY DEF LoginInvariant, AnswersAreNew
<1>1. /\ IsQueue(queue') /\ OnlyTheHeadRuns' /\ LogoutStops' /\ LogoutForgetsTokens'
      /\ ~ Tells("REQUEST")
      /\ \A i \in DOMAIN queue' :
           DOMAIN queue'[i] = {"kind", "epoch", "pc", "flow", "clean", "since"}
  BY <1>0, HeadIsAnswered
<1>2. LoginIsTyped'
  BY <1>1 DEF LoginInvariant, LoginIsTyped
<1>3. EventsAreTyped' /\ AnswersAreNew' /\ LogoutRuns'
  BY DEF LoginInvariant, EventsAreTyped, AnswersAreNew, LogoutRuns
<1>4. TokensAreNew'
  BY DEF LoginInvariant, TokensAreNew, Newer
<1>5. RequestIsJoined'
  BY <1>1 DEF RequestIsJoined, Tells
<1> QED
  BY <1>1, <1>2, <1>3, <1>4, <1>5 DEF LoginInvariant

\* A handoff goes on; it was not waiting for a run, and no run is told.
LEMMA HandoffGoesOn ==
    ASSUME LoginInvariant, queue # <<>>, Head(queue).kind = "handoff", Head(queue).pc # "joined",
           NEW op, queue' = [queue EXCEPT ![1] = op],
           DOMAIN op = DOMAIN queue[1], op.kind = queue[1].kind, op.since = queue[1].since,
           UNCHANGED <<run, poll, minted, told, logouts>>,
           DOMAIN saved' = DOMAIN saved, saved'.result.token \in {0, saved.result.token}
    PROVE  LoginInvariant'
<1>1. /\ queue' # <<>> /\ Head(queue) = queue[1] /\ Head(queue') = op
      /\ IsQueue(queue') /\ OnlyTheHeadRuns'
      /\ \A i \in DOMAIN queue' :
           DOMAIN queue'[i] = {"kind", "epoch", "pc", "flow", "clean", "since"}
  BY HeadMoves
<1>2. LoginIsTyped'
  BY <1>1 DEF LoginInvariant, LoginIsTyped
<1>3. EventsAreTyped' /\ AnswersAreNew' /\ LogoutRuns' /\ LogoutForgetsTokens'
  BY DEF LoginInvariant, EventsAreTyped, AnswersAreNew, LogoutRuns, LogoutForgetsTokens
<1>4. TokensAreNew'
  BY DEF LoginInvariant, TokensAreNew, Newer
<1>5. RequestIsJoined'
  BY DEF LoginInvariant, RequestIsJoined, Tells, AtHead
<1>6. LogoutStops'
  BY <1>1 DEF LogoutStops
<1> QED
  BY <1>1, <1>2, <1>3, <1>4, <1>5, <1>6 DEF LoginInvariant

LEMMA HandoffReadKeeps ==
    ASSUME LoginInvariant, HandoffRead
    PROVE  LoginInvariant'
<1>1. /\ queue # <<>> /\ Head(queue).kind = "handoff" /\ Head(queue).pc # "joined"
      /\ UNCHANGED <<saved, run, poll, minted, logouts>>
  BY DEF HandoffRead, AtHead
<1>2. CASE Cancelled
  BY <1>1, <1>2, AnswerKeeps DEF HandoffRead, Newer
<1>3. CASE ~ Cancelled
  <2> DEFINE op == [queue[1] EXCEPT !.pc = "remove", !.flow = Normalized(saved.flow)]
  <2>1. queue' = [queue EXCEPT ![1] = op] /\ UNCHANGED told
    BY <1>3 DEF HandoffRead
  <2>2. DOMAIN op = DOMAIN queue[1] /\ op.kind = queue[1].kind /\ op.since = queue[1].since
    BY <1>1, HeadIsTyped
  <2> HIDE DEF op
  <2> QED
    BY <1>1, <2>1, <2>2, HandoffGoesOn
<1> QED
  BY <1>2, <1>3

LEMMA HandoffRemoveKeeps ==
    ASSUME LoginInvariant, HandoffRemove
    PROVE  LoginInvariant'
<1>1. /\ queue # <<>> /\ Head(queue).kind = "handoff" /\ Head(queue).pc # "joined"
      /\ UNCHANGED <<run, poll, minted, logouts>>
  BY DEF HandoffRemove, AtHead
<1>2. CASE AnswerApp(0) /\ UNCHANGED saved
  BY <1>1, <1>2, AnswerKeeps DEF Newer
<1>3. CASE /\ saved' = [saved EXCEPT !.result = NoResult, !.epoch = 0]
           /\ Goto("decide") /\ UNCHANGED told
  <2> DEFINE op == [queue[1] EXCEPT !.pc = "decide"]
  <2>1. queue' = [queue EXCEPT ![1] = op]
    BY <1>3 DEF Goto
  <2>2. DOMAIN op = DOMAIN queue[1] /\ op.kind = queue[1].kind /\ op.since = queue[1].since
    BY <1>1, HeadIsTyped
  <2>3. DOMAIN saved' = DOMAIN saved /\ saved'.result.token = 0
    BY <1>3 DEF LoginInvariant, LoginIsTyped, NoResult
  <2> HIDE DEF op
  <2> QED
    BY <1>1, <1>3, <2>1, <2>2, <2>3, HandoffGoesOn
<1> QED
  BY <1>2, <1>3 DEF HandoffRemove

LEMMA HandoffDecideKeeps ==
    ASSUME LoginInvariant, HandoffDecide
    PROVE  LoginInvariant'
<1>1. /\ queue # <<>> /\ Head(queue).kind = "handoff" /\ Head(queue).pc # "joined"
      /\ UNCHANGED <<run, poll, minted, logouts>>
  BY DEF HandoffDecide, AtHead
<1>2. CASE AnswerApp(0) /\ UNCHANGED saved
  BY <1>1, <1>2, AnswerKeeps DEF Newer
<1>3. ASSUME NEW flow, saved' = [saved EXCEPT !.flow = flow], Goto("request"), UNCHANGED told
      PROVE  LoginInvariant'
  <2> DEFINE op == [queue[1] EXCEPT !.pc = "request"]
  <2>1. queue' = [queue EXCEPT ![1] = op]
    BY <1>3 DEF Goto
  <2>2. DOMAIN op = DOMAIN queue[1] /\ op.kind = queue[1].kind /\ op.since = queue[1].since
    BY <1>1, HeadIsTyped
  <2>3. DOMAIN saved' = DOMAIN saved /\ saved'.result.token = saved.result.token
    BY <1>3 DEF LoginInvariant, LoginIsTyped
  <2> HIDE DEF op
  <2> QED
    BY <1>1, <1>3, <2>1, <2>2, <2>3, HandoffGoesOn
<1>4. \/ AnswerApp(0) /\ UNCHANGED saved
      \/ \E flow : saved' = [saved EXCEPT !.flow = flow] /\ Goto("request") /\ UNCHANGED told
  BY DEF HandoffDecide
<1> QED
  BY <1>2, <1>3, <1>4

LEMMA HandoffRanKeeps ==
    ASSUME LoginInvariant, HandoffRan
    PROVE  LoginInvariant'
<1>1. /\ queue # <<>> /\ Head(queue).pc # "joined"
      /\ UNCHANGED <<saved, run, poll, minted, logouts>>
  BY DEF HandoffRan, AtHead
<1>2. PICK brought \in {0, saved.result.token} : AnswerApp(brought)
  BY DEF HandoffRan
<1>3. Newer(brought)
  BY <1>2 DEF LoginInvariant, TokensAreNew, Newer
<1> QED
  BY <1>1, <1>2, <1>3, AnswerKeeps

LEMMA HandoffRequestKeeps ==
    ASSUME LoginInvariant, HandoffRequest
    PROVE  LoginInvariant'
<1>1. /\ queue # <<>> /\ Head(queue).kind = "handoff" /\ Head(queue).pc # "joined"
      /\ UNCHANGED <<saved, poll, minted, logouts>>
  BY DEF HandoffRequest, AtHead
<1>2. CASE Cancelled
  BY <1>1, <1>2, AnswerKeeps DEF HandoffRequest, Newer
<1>3. CASE ~ Cancelled
  <2> DEFINE op == [queue[1] EXCEPT !.pc = "joined"]
             event == FlowEvent("REQUEST", 0)
  <2>1. queue' = [queue EXCEPT ![1] = op] /\ RunFlow(event) /\ UNCHANGED told
    BY <1>3 DEF HandoffRequest, Goto
  <2>2. DOMAIN op = DOMAIN queue[1] /\ op.kind = queue[1].kind /\ op.since = queue[1].since
        /\ op.pc = "joined" /\ event.type = "REQUEST"
    BY <1>1, HeadIsTyped DEF FlowEvent
  <2> HIDE DEF op, event
  <2>3. /\ queue' # <<>> /\ Head(queue) = queue[1] /\ Head(queue') = op
        /\ IsQueue(queue') /\ OnlyTheHeadRuns'
        /\ \A i \in DOMAIN queue' :
             DOMAIN queue'[i] = {"kind", "epoch", "pc", "flow", "clean", "since"}
    BY <1>1, <2>1, <2>2, HeadMoves
  <2>4. /\ DOMAIN run' = DOMAIN run /\ EventsAreTyped' /\ TokensAreNew' /\ LogoutRuns'
    BY <1>1, <2>1, <2>2, EventRuns
  <2>5. LoginIsTyped' /\ AnswersAreNew' /\ LogoutForgetsTokens'
    BY <1>1, <2>1, <2>3, <2>4
    DEF LoginInvariant, LoginIsTyped, AnswersAreNew, LogoutForgetsTokens
  <2>6. RequestIsJoined' /\ LogoutStops'
    BY <1>1, <2>2, <2>3 DEF RequestIsJoined, LogoutStops, AtHead
  <2> QED
    BY <2>3, <2>4, <2>5, <2>6 DEF LoginInvariant
<1> QED
  BY <1>2, <1>3

LEMMA LogoutRequestKeeps ==
    ASSUME LoginInvariant, LogoutRequest
    PROVE  LoginInvariant'
<1> DEFINE op == [queue[1] EXCEPT !.pc = "joined"]
           event == FlowEvent("LOGOUT", 0)
<1>1. /\ queue # <<>> /\ Head(queue).kind = "logout" /\ Head(queue).pc = "request"
      /\ queue' = [queue EXCEPT ![1] = op] /\ RunFlow(event)
      /\ UNCHANGED <<saved, poll, minted, told, logouts>>
  BY DEF LogoutRequest, AtHead, Goto
<1>2. DOMAIN op = DOMAIN queue[1] /\ op.kind = queue[1].kind /\ op.since = queue[1].since
      /\ op.pc = "joined" /\ event.type = "LOGOUT"
  BY <1>1, HeadIsTyped DEF FlowEvent
<1> HIDE DEF op, event
<1>3. /\ queue' # <<>> /\ Head(queue) = queue[1] /\ Head(queue') = op
      /\ IsQueue(queue') /\ OnlyTheHeadRuns'
      /\ \A i \in DOMAIN queue' :
           DOMAIN queue'[i] = {"kind", "epoch", "pc", "flow", "clean", "since"}
  BY <1>1, <1>2, HeadMoves
<1>4. /\ DOMAIN run' = DOMAIN run /\ EventsAreTyped' /\ TokensAreNew' /\ LogoutRuns'
      /\ Tells("LOGOUT")'
      /\ run'.event.type \in {run.event.type, event.type}
      /\ run'.parked.type \in {"none", run.parked.type, event.type}
  BY <1>1, <1>2, EventRuns
<1>5. LoginIsTyped' /\ AnswersAreNew' /\ LogoutForgetsTokens'
  BY <1>1, <1>3, <1>4 DEF LoginInvariant, LoginIsTyped, AnswersAreNew, LogoutForgetsTokens
<1>6. ~ Tells("REQUEST")
  BY <1>1 DEF LoginInvariant, RequestIsJoined, AtHead
<1>7. RequestIsJoined'
  BY <1>2, <1>4, <1>6 DEF RequestIsJoined, Tells
<1>8. LogoutStops'
  BY <1>2, <1>3, <1>4 DEF LogoutStops
<1> QED
  BY <1>3, <1>4, <1>5, <1>7, <1>8 DEF LoginInvariant

LEMMA LogoutClearKeeps ==
    ASSUME LoginInvariant, LogoutClear
    PROVE  LoginInvariant'
<1>1. PICK complete \in BOOLEAN :
        queue' = [queue EXCEPT ![1].pc = "remove",
                               ![1].clean = complete /\ Head(queue).pc = "ran"]
  BY DEF LogoutClear
<1> DEFINE op == [queue[1] EXCEPT !.pc = "remove", !.clean = complete /\ Head(queue).pc = "ran"]
<1>2. /\ queue # <<>> /\ Head(queue).kind = "logout" /\ Head(queue).pc \in {"ran", "failed"}
      /\ queue' = [queue EXCEPT ![1] = op]
      /\ UNCHANGED <<saved, run, poll, minted, told, logouts>>
  BY <1>1 DEF LogoutClear, AtHead
<1>3. DOMAIN op = DOMAIN queue[1] /\ op.kind = queue[1].kind /\ op.since = queue[1].since
      /\ op.pc = "remove" /\ (op.clean => Head(queue).pc = "ran")
  BY <1>2, HeadIsTyped
<1> HIDE DEF op
<1>4. /\ queue' # <<>> /\ Head(queue) = queue[1] /\ Head(queue') = op
      /\ IsQueue(queue') /\ OnlyTheHeadRuns'
      /\ \A i \in DOMAIN queue' :
           DOMAIN queue'[i] = {"kind", "epoch", "pc", "flow", "clean", "since"}
  BY <1>2, <1>3, HeadMoves
<1>5. LoginIsTyped' /\ AnswersAreNew' /\ LogoutForgetsTokens' /\ EventsAreTyped'
      /\ TokensAreNew' /\ LogoutRuns'
  BY <1>2, <1>4 DEF LoginInvariant, LoginIsTyped, AnswersAreNew, LogoutForgetsTokens,
       EventsAreTyped, TokensAreNew, Newer, LogoutRuns
<1>6. RequestIsJoined'
  BY <1>2 DEF LoginInvariant, RequestIsJoined, Tells, AtHead
<1>7. Head(queue).pc = "ran" => Ended'
  BY <1>2 DEF LoginInvariant, LogoutStops, Ended
<1>8. LogoutStops'
  BY <1>3, <1>4, <1>7 DEF LogoutStops
<1> QED
  BY <1>4, <1>5, <1>6, <1>8 DEF LoginInvariant

LEMMA LogoutRemoveKeeps ==
    ASSUME LoginInvariant, LogoutRemove
    PROVE  LoginInvariant'
<1>1. PICK removed \in BOOLEAN :
        /\ saved' = IF removed THEN [saved EXCEPT !.result = NoResult, !.epoch = 0] ELSE saved
        /\ logouts' = IF removed /\ Head(queue).clean
                      THEN [logouts EXCEPT !.answered = minted] ELSE logouts
  BY DEF LogoutRemove
<1>2. /\ queue # <<>> /\ Head(queue).kind = "logout" /\ Head(queue).pc = "remove"
      /\ AnswerApp(0) /\ UNCHANGED <<run, poll, minted>>
  BY DEF LogoutRemove, AtHead
<1>3. /\ DOMAIN saved' = DOMAIN saved /\ saved'.flow = saved.flow
      /\ saved'.result.token = IF removed THEN 0 ELSE saved.result.token
  BY <1>1 DEF LoginInvariant, LoginIsTyped, NoResult
<1>4. CASE ~ (removed /\ Head(queue).clean)
  BY <1>1, <1>2, <1>3, <1>4, AnswerKeeps DEF Newer
<1>5. CASE removed /\ Head(queue).clean
  <2>1. DOMAIN logouts' = DOMAIN logouts /\ logouts'.answered = minted
    BY <1>1, <1>5 DEF LoginInvariant, LoginIsTyped
  <2>2. minted \in Nat /\ logouts.answered <= minted
    BY DEF LoginInvariant, AnswersAreNew
  <2>3. Newer(0)
    BY DEF Newer
  <2>4. /\ IsQueue(queue') /\ OnlyTheHeadRuns' /\ LogoutStops' /\ LogoutForgetsTokens'
        /\ ~ Tells("REQUEST")
        /\ \A i \in DOMAIN queue' :
             DOMAIN queue'[i] = {"kind", "epoch", "pc", "flow", "clean", "since"}
    BY <1>2, <2>1, <2>2, <2>3, HeadIsAnswered
  <2>5. Ended
    BY <1>2, <1>5 DEF LoginInvariant, LogoutStops
  <2>6. LoginIsTyped'
    BY <1>2, <1>3, <2>1, <2>4 DEF LoginInvariant, LoginIsTyped
  <2>7. EventsAreTyped' /\ LogoutRuns'
    BY <1>2 DEF LoginInvariant, EventsAreTyped, LogoutRuns
  <2>8. AnswersAreNew'
    BY <1>2, <2>1, <2>2 DEF LoginInvariant, AnswersAreNew
  <2>9. TokensAreNew'
    BY <1>2, <1>3, <1>5, <2>1, <2>5 DEF TokensAreNew, Newer, Ended, BrowserEvents
  <2>10. RequestIsJoined'
    BY <1>2, <2>4 DEF RequestIsJoined, Tells
  <2> QED
    BY <2>4, <2>6, <2>7, <2>8, <2>9, <2>10 DEF LoginInvariant
<1> QED
  BY <1>4, <1>5

\* A message of the app queues its operation.
LEMMA OperationArrives ==
    ASSUME LoginInvariant, NEW kind \in {"handoff", "logout"}, NEW opEpoch,
           queue' = Append(queue, Operation(kind, opEpoch)),
           UNCHANGED <<run, poll, minted, told, logouts>>,
           DOMAIN saved' = DOMAIN saved, saved'.flow = saved.flow, saved'.result = saved.result
    PROVE  LoginInvariant'
<1> DEFINE op == Operation(kind, opEpoch)
<1>1. /\ DOMAIN op = {"kind", "epoch", "pc", "flow", "clean", "since"}
      /\ op.kind = kind /\ op.pc \in {"read", "request"} /\ op.since = logouts
  BY DEF Operation
<1> HIDE DEF op
<1>2. IsQueue(queue)
  BY DEF LoginInvariant, LoginIsTyped
<1>3. queue' = Append(queue, op)
  BY DEF op
<1>4. /\ IsQueue(queue') /\ queue' # <<>>
      /\ \A i \in DOMAIN queue' : \/ i \in DOMAIN queue /\ queue'[i] = queue[i]
                                  \/ queue'[i] = op /\ (queue = <<>> \/ i > 1)
      /\ Head(queue') = IF queue = <<>> THEN op ELSE Head(queue)
      /\ queue = <<>> => DOMAIN queue' = {1}
  <2>1. PICK S : queue \in Seq(S)
    BY <1>2 DEF IsQueue
  <2>2. queue \in Seq(S \cup {op}) /\ Append(queue, op) \in Seq(S \cup {op})
    BY <2>1
  <2>3. /\ Len(queue) \in Nat /\ DOMAIN queue = 1..Len(queue)
        /\ DOMAIN queue' = 1..(Len(queue) + 1)
        /\ queue'[Len(queue) + 1] = op
        /\ \A i \in 1..Len(queue) : queue'[i] = queue[i]
    BY <1>3, <2>2
  <2>4. queue' # <<>> /\ Head(queue') = queue'[1] /\ (queue = <<>> <=> Len(queue) = 0)
    BY <1>3, <2>2, <2>3
  <2>5. queue # <<>> => Head(queue) = queue[1]
    BY <2>2
  <2>6. IsQueue(queue')
    BY <1>3, <2>2 DEF IsQueue
  <2>7. Head(queue') = IF queue = <<>> THEN op ELSE Head(queue)
    BY <2>3, <2>4, <2>5
  <2>8. ASSUME NEW i \in DOMAIN queue'
        PROVE  \/ i \in DOMAIN queue /\ queue'[i] = queue[i]
               \/ queue'[i] = op /\ (queue = <<>> \/ i > 1)
    <3>1. i \in 1..(Len(queue) + 1)
      BY <2>3
    <3>2. i \in 1..Len(queue) \/ (i = Len(queue) + 1 /\ (Len(queue) = 0 \/ i > 1))
      BY <2>3, <3>1
    <3> QED
      BY <2>3, <2>4, <3>2
  <2>9. queue = <<>> => DOMAIN queue' = {1}
    BY <2>3, <2>4
  <2> QED
    BY <2>4, <2>6, <2>7, <2>8, <2>9
<1>5. LoginIsTyped'
  BY <1>1, <1>4 DEF LoginInvariant, LoginIsTyped
<1>6. OnlyTheHeadRuns'
  BY <1>1, <1>4 DEF LoginInvariant, OnlyTheHeadRuns, AnswersAreNew
<1>7. TokensAreNew' /\ AnswersAreNew' /\ EventsAreTyped' /\ LogoutRuns' /\ LogoutForgetsTokens'
  BY DEF LoginInvariant, TokensAreNew, Newer, AnswersAreNew, EventsAreTyped, LogoutRuns,
       LogoutForgetsTokens
<1>8. RequestIsJoined'
  BY <1>4 DEF LoginInvariant, RequestIsJoined, Tells, AtHead
<1>9. LogoutStops'
  BY <1>1, <1>4 DEF LoginInvariant, LogoutStops, Tells, Ended
<1> QED
  BY <1>5, <1>6, <1>7, <1>8, <1>9 DEF LoginInvariant

\* Whatever else happens leaves the run and the queue alone.
LEMMA NothingElseMatters ==
    ASSUME LoginInvariant, UNCHANGED <<run, queue, minted, logouts>>,
           DOMAIN saved' = DOMAIN saved, saved'.result = saved.result,
           saved.flow = IdleFlow => saved'.flow = IdleFlow,
           poll'.result.token \in Nat,
           poll'.result.token # 0 => poll'.result.token > poll'.since.answered,
           LogoutForgetsTokens'
    PROVE  LoginInvariant'
<1>1. LoginIsTyped' /\ EventsAreTyped' /\ OnlyTheHeadRuns' /\ TokensAreNew' /\ AnswersAreNew'
  BY DEF LoginInvariant, LoginIsTyped, EventsAreTyped, OnlyTheHeadRuns, TokensAreNew, Newer,
       AnswersAreNew
<1>2. RequestIsJoined' /\ LogoutRuns' /\ LogoutStops'
  BY DEF LoginInvariant, RequestIsJoined, LogoutRuns, LogoutStops, Tells, AtHead, Ended
<1> QED
  BY <1>1, <1>2 DEF LoginInvariant

LEMMA MessageKeeps ==
    ASSUME LoginInvariant, SendHandoff \/ SendLogout \/ PollStart \/ PollAnswer
    PROVE  LoginInvariant'
<1>1. ASSUME NEW anEpoch, saved' = [saved EXCEPT !.epoch = anEpoch]
      PROVE  /\ DOMAIN saved' = DOMAIN saved
             /\ saved'.flow = saved.flow /\ saved'.result = saved.result
  BY <1>1 DEF LoginInvariant, LoginIsTyped
<1>2. ASSUME told' = told
      PROVE  LogoutForgetsTokens'
  BY <1>2 DEF LoginInvariant, LogoutForgetsTokens
<1>3. CASE SendHandoff
  <2>1. /\ DOMAIN saved' = DOMAIN saved
        /\ saved'.flow = saved.flow /\ saved'.result = saved.result
    BY <1>1, <1>3 DEF SendHandoff
  <2>2. UNCHANGED <<run, poll, minted, told, logouts>>
    BY <1>3 DEF SendHandoff
  <2>3. \/ queue' = queue
        \/ queue' = Append(queue, Operation("handoff", epoch + 1))
    BY <1>3 DEF SendHandoff
  <2>4. CASE queue' = queue
    BY <1>2, <2>1, <2>2, <2>4, NothingElseMatters DEF LoginInvariant, AnswersAreNew
  <2>5. CASE queue' = Append(queue, Operation("handoff", epoch + 1))
    BY <2>1, <2>2, <2>5, OperationArrives
  <2> QED
    BY <2>3, <2>4, <2>5
<1>4. CASE SendLogout
  <2>1. /\ DOMAIN saved' = DOMAIN saved
        /\ saved'.flow = saved.flow /\ saved'.result = saved.result
    BY <1>1, <1>4 DEF SendLogout
  <2>2. UNCHANGED <<run, poll, minted, told, logouts>>
        /\ queue' = Append(queue, Operation("logout", epoch'))
    BY <1>4 DEF SendLogout
  <2> QED
    BY <2>1, <2>2, OperationArrives
<1>5. CASE PollStart
  <2>1. /\ DOMAIN saved' = DOMAIN saved
        /\ saved'.flow = saved.flow /\ saved'.result = saved.result
    BY <1>1, <1>5 DEF PollStart
  <2>2. /\ UNCHANGED <<run, queue, minted, told, logouts>>
        /\ poll'.result = saved.result /\ poll'.since = logouts
    BY <1>5 DEF PollStart
  <2>3. Newer(saved.result.token)
    BY DEF LoginInvariant, TokensAreNew
  <2> QED
    BY <1>2, <2>1, <2>2, <2>3, NothingElseMatters DEF Newer
<1>6. CASE PollAnswer
  <2>1. /\ UNCHANGED <<saved, run, queue, minted, logouts>>
        /\ poll'.result.token = 0
        /\ told'.token \in {0, poll.result.token} /\ told'.since = poll.since
    BY <1>6 DEF PollAnswer, NoPoll, NoResult
  <2>2. LogoutForgetsTokens'
    BY <2>1 DEF LogoutForgetsTokens, LoginInvariant, AnswersAreNew
  <2> QED
    BY <2>1, <2>2, NothingElseMatters
<1> QED
  BY <1>3, <1>4, <1>5, <1>6

\* A new worker finds what was saved and nothing else.
LEMMA FreshWorker ==
    ASSUME LoginInvariant, run' = Off, queue' = <<>>, poll' = NoPoll,
           UNCHANGED <<saved, minted, told>>,
           DOMAIN logouts' = DOMAIN logouts, logouts'.answered = logouts.answered
    PROVE  LoginInvariant'
<1>1. IsQueue(<<>>) /\ DOMAIN queue' = {}
  BY DEF IsQueue
<1>2. /\ run'.pc = "off" /\ run'.event = NoEvent /\ run'.parked = NoEvent /\ run'.follow = NoEvent
      /\ run'.out.flow = IdleFlow /\ run'.out.token = 0 /\ NoEvent.type = "none"
      /\ DOMAIN run' = DOMAIN run
  BY DEF Off, NoEvent, FlowEvent, Outcome, LoginInvariant, LoginIsTyped
<1>3. LoginIsTyped'
  BY <1>1, <1>2 DEF LoginInvariant, LoginIsTyped
<1>4. EventsAreTyped' /\ LogoutRuns' /\ RequestIsJoined'
  BY <1>2 DEF EventsAreTyped, LogoutRuns, RequestIsJoined, Tells, BrowserEvents
<1>5. OnlyTheHeadRuns' /\ LogoutStops'
  BY <1>1 DEF OnlyTheHeadRuns, LogoutStops
<1>6. TokensAreNew' /\ AnswersAreNew' /\ LogoutForgetsTokens'
  BY <1>2 DEF LoginInvariant, TokensAreNew, Newer, AnswersAreNew, LogoutForgetsTokens, NoPoll,
       NoResult
<1> QED
  BY <1>3, <1>4, <1>5, <1>6 DEF LoginInvariant

LEMMA BrowserKeeps ==
    ASSUME LoginInvariant, BrowserStep \/ RestoreEpoch
    PROVE  LoginInvariant'
<1>1. ASSUME NEW event, event.type \in {"COOKIE_SET", "TAB_LOADED", "TIMEOUT"}, RunFlow(event),
             UNCHANGED workerVars
      PROVE  LoginInvariant'
  <2>1. UNCHANGED <<saved, queue, poll, minted, told, logouts>> /\ event.type \in BrowserEvents
    BY <1>1 DEF workerVars, BrowserEvents
  <2>2. /\ DOMAIN run' = DOMAIN run /\ EventsAreTyped' /\ TokensAreNew' /\ LogoutRuns'
        /\ (Tells("REQUEST")' <=> Tells("REQUEST")) /\ (Tells("LOGOUT")' <=> Tells("LOGOUT"))
        /\ Ended => Ended'
    BY <1>1, <2>1, EventRuns
  <2>3. LoginIsTyped' /\ OnlyTheHeadRuns' /\ AnswersAreNew' /\ LogoutForgetsTokens'
    BY <2>1, <2>2 DEF LoginInvariant, LoginIsTyped, OnlyTheHeadRuns, AnswersAreNew,
         LogoutForgetsTokens
  <2>4. RequestIsJoined'
    BY <2>1, <2>2 DEF LoginInvariant, RequestIsJoined, AtHead
  <2>5. LogoutStops'
    BY <2>1, <2>2 DEF LoginInvariant, LogoutStops
  <2> QED
    BY <2>2, <2>3, <2>4, <2>5 DEF LoginInvariant
<1>2. CASE CookieAppears \/ TabLoads \/ PollAlarm \/ TimeoutAlarm
  <2>1. \A type, arg : FlowEvent(type, arg).type = type
    BY DEF FlowEvent
  <2>2. UNCHANGED workerVars
    BY <1>2 DEF CookieAppears, TabLoads, PollAlarm, TimeoutAlarm
  <2>3. PICK type \in {"COOKIE_SET", "TAB_LOADED", "TIMEOUT"} :
             \E arg : RunFlow(FlowEvent(type, arg))
    BY <1>2 DEF CookieAppears, TabLoads, PollAlarm, TimeoutAlarm
  <2> QED
    BY <1>1, <2>1, <2>2, <2>3
<1>3. CASE DeadlinePasses \/ TabCloses \/ RestoreEpoch
  <2>1. /\ UNCHANGED <<run, queue, poll, minted, told, logouts>>
        /\ DOMAIN saved' = DOMAIN saved /\ saved'.result = saved.result
    BY <1>3 DEF DeadlinePasses, TabCloses, RestoreEpoch, workerVars, LoginInvariant, LoginIsTyped
  <2>2. saved.flow = IdleFlow => saved'.flow = IdleFlow
    BY <1>3 DEF DeadlinePasses, TabCloses, RestoreEpoch, workerVars, IsActive, IdleFlow
  <2>3. LogoutForgetsTokens'
    BY <2>1 DEF LoginInvariant, LogoutForgetsTokens
  <2> QED
    BY <2>1, <2>2, <2>3, NothingElseMatters DEF LoginInvariant, AnswersAreNew
<1>4. CASE Restart
  <2>1. /\ run' = Off /\ queue' = <<>> /\ poll' = NoPoll /\ UNCHANGED <<saved, minted, told>>
        /\ DOMAIN logouts' = DOMAIN logouts /\ logouts'.answered = logouts.answered
    BY <1>4 DEF Restart, LoginInvariant, LoginIsTyped
  <2> QED
    BY <2>1, FreshWorker
<1> QED
  BY <1>2, <1>3, <1>4 DEF BrowserStep

LEMMA FlowStepKeeps ==
    ASSUME LoginInvariant, ExtNext
    PROVE  LoginInvariant'
<1>1. CASE RunnerStep
  BY <1>1, StepOfRunKeeps, PostKeeps, SendKeeps, SaveKeeps, SaveFailsKeeps DEF RunnerStep
<1>2. CASE QueueStep
  BY <1>2, HandoffReadKeeps, HandoffRemoveKeeps, HandoffDecideKeeps, HandoffRequestKeeps,
     HandoffRanKeeps, LogoutRequestKeeps, LogoutClearKeeps, LogoutRemoveKeeps DEF QueueStep
<1>3. CASE SendHandoff \/ SendLogout \/ PollStart \/ PollAnswer
  BY <1>3, MessageKeeps
<1>4. CASE BrowserStep \/ RestoreEpoch
  BY <1>4, BrowserKeeps
<1> QED
  BY <1>1, <1>2, <1>3, <1>4 DEF ExtNext

LEMMA LoginBegins ==
    ASSUME ExtInit
    PROVE  LoginInvariant
<1>1. /\ saved = [flow |-> IdleFlow, result |-> NoResult, epoch |-> 0]
      /\ run = Off /\ queue = <<>> /\ poll = NoPoll /\ minted = 0
      /\ logouts = [answered |-> 0, killed |-> 0] /\ told.token = 0
  BY DEF ExtInit
<1>2. IsQueue(<<>>) /\ DOMAIN queue = {}
  BY <1>1 DEF IsQueue
<1>3. /\ run.pc = "off" /\ run.event = NoEvent /\ run.parked = NoEvent /\ run.follow = NoEvent
      /\ run.out.flow = IdleFlow /\ run.out.token = 0 /\ NoEvent.type = "none"
      /\ DOMAIN run = {"pc", "event", "parked", "follow", "out"}
  BY <1>1 DEF Off, NoEvent, FlowEvent, Outcome
<1>4. LoginIsTyped
  BY <1>1, <1>2, <1>3 DEF LoginIsTyped
<1>5. EventsAreTyped /\ LogoutRuns /\ RequestIsJoined
  BY <1>1, <1>3 DEF EventsAreTyped, LogoutRuns, RequestIsJoined, Tells, BrowserEvents
<1>6. OnlyTheHeadRuns /\ LogoutStops
  BY <1>1, <1>2 DEF OnlyTheHeadRuns, LogoutStops
<1>7. TokensAreNew /\ AnswersAreNew /\ LogoutForgetsTokens
  BY <1>1, <1>3 DEF TokensAreNew, Newer, AnswersAreNew, LogoutForgetsTokens, NoPoll, NoResult
<1> QED
  BY <1>4, <1>5, <1>6, <1>7 DEF LoginInvariant

\* Once a logout has been answered ok, no later message of the app is answered with a token
\* minted before it, whatever the order of messages, page loads, cookies, alarms, failures and
\* restarts of the worker, and however many of them there are.
THEOREM LogoutForgetsTheTokens == ExtensionSpec => []LogoutForgetsTokens
<1>1. ExtensionInit => LoginInvariant
  BY LoginBegins DEF ExtensionInit
<1>2. LoginInvariant /\ [ExtensionNext]_extensionVars => LoginInvariant'
  <2> SUFFICES ASSUME LoginInvariant, [ExtensionNext]_extensionVars
               PROVE  LoginInvariant'
    OBVIOUS
  <2>1. CASE ExtNext
    BY <2>1, FlowStepKeeps
  <2>2. CASE UNCHANGED extVars
    <3>1. UNCHANGED <<saved, run, queue, poll, minted, told, logouts>>
      BY <2>2 DEF extVars
    <3>2. LogoutForgetsTokens'
      BY <3>1 DEF LoginInvariant, LogoutForgetsTokens
    <3> QED
      BY <3>1, <3>2, NothingElseMatters DEF LoginInvariant, AnswersAreNew
  <2> QED
    BY <2>1, <2>2 DEF ExtensionNext, extensionVars
<1>3. LoginInvariant => LogoutForgetsTokens
  BY DEF LoginInvariant
<1> QED
  BY <1>1, <1>2, <1>3, PTL DEF ExtensionSpec

-----------------------------------------------------------------------------
(* The renewals of the extension.                                            *)

\* A capture listens; only a capture has a tab open, and only one still waiting
\* for its tab has a tab to come that it has not given up.
RenewalInvariant ==
    \A r \in Renewals :
      /\ Capturing(r) => flight[r].listening
      /\ flight[r].tab = "open" => Capturing(r)
      /\ flight[r].tab = "pending" /\ flight[r].settled = "none" => flight[r].pc = "creating"

FlightFields == {"pc", "fence", "listening", "tab", "settled", "retried", "answer"}

\* A function of the renewals, each a record of a flight.
FlightsAreTyped ==
    /\ DOMAIN flight = Renewals
    /\ \A r \in Renewals : DOMAIN flight[r] = FlightFields

LEMMA OneRenewal ==
    ASSUME FlightsAreTyped, RenewalInvariant, NEW r \in Renewals,
           NEW one, flight' = [flight EXCEPT ![r] = one], DOMAIN one = FlightFields,
           one.pc \in {"app", "creating", "look", "wait"} => one.listening,
           one.tab = "open" => one.pc \in {"app", "creating", "look", "wait"},
           one.tab = "pending" /\ one.settled = "none" => one.pc = "creating"
    PROVE  FlightsAreTyped' /\ RenewalInvariant'
  BY DEF FlightsAreTyped, RenewalInvariant, Capturing

\* A renewal that is not capturing ends.
LEMMA EndKeeps ==
    ASSUME FlightsAreTyped, RenewalInvariant, NEW r \in Renewals, NEW answer, EndWith(r, answer),
           ~ Capturing(r)
    PROVE  FlightsAreTyped' /\ RenewalInvariant'
<1> DEFINE one == [flight[r] EXCEPT !.pc = "done",
                                    !.answer = IF Overtaken(r) THEN "cancelled" ELSE answer]
<1>1. flight' = [flight EXCEPT ![r] = one]
  BY DEF EndWith
<1>2. /\ DOMAIN one = FlightFields /\ one.pc = "done" /\ one.tab = flight[r].tab
      /\ one.settled = flight[r].settled
  BY DEF FlightsAreTyped, FlightFields
<1> HIDE DEF one
<1>3. /\ one.tab # "open"
      /\ ~ (one.tab = "pending" /\ one.settled = "none")
  BY <1>2 DEF RenewalInvariant, Capturing
<1> QED
  BY <1>1, <1>2, <1>3, OneRenewal

LEMMA RenewalKeeps ==
    ASSUME FlightsAreTyped, RenewalInvariant, NEW r \in Renewals,
           StartRenewal(r) \/ RenewalStep(r) \/ Navigate(r) \/ UserClosesTab(r)
    PROVE  FlightsAreTyped' /\ RenewalInvariant'
<1>1. DOMAIN flight[r] = FlightFields /\ DOMAIN flight = Renewals
  BY DEF FlightsAreTyped
<1>2. /\ flight[r].pc \in {"app", "creating", "look", "wait"} => flight[r].listening
      /\ flight[r].tab = "open" => flight[r].pc \in {"app", "creating", "look", "wait"}
      /\ flight[r].tab = "pending" /\ flight[r].settled = "none" => flight[r].pc = "creating"
  BY DEF RenewalInvariant, Capturing
<1>3. CASE StartRenewal(r)
  BY <1>1, <1>2, <1>3, OneRenewal DEF StartRenewal, NoFlight, FlightFields
<1>4. CASE \E answer : EndWith(r, answer) /\ ~ Capturing(r)
  BY <1>4, EndKeeps
<1>5. ASSUME NEW pc \in {"cookie", "post", "post2", "done"},
             flight' = [flight EXCEPT ![r].pc = pc], ~ Capturing(r)
      PROVE  FlightsAreTyped' /\ RenewalInvariant'
  <2> DEFINE next == [flight[r] EXCEPT !.pc = pc]
  <2>1. /\ DOMAIN next = FlightFields /\ next.pc = pc /\ next.tab = flight[r].tab
        /\ next.settled = flight[r].settled
    BY <1>1 DEF FlightFields
  <2>2. flight' = [flight EXCEPT ![r] = next]
    BY <1>5
  <2> HIDE DEF next
  <2> QED
    BY <1>2, <1>5, <2>1, <2>2, OneRenewal DEF Capturing
<1>6. ASSUME flight' = [flight EXCEPT ![r].pc = "app", ![r].listening = TRUE], ~ Capturing(r)
      PROVE  FlightsAreTyped' /\ RenewalInvariant'
  <2> DEFINE next == [flight[r] EXCEPT !.pc = "app", !.listening = TRUE]
  <2>1. /\ DOMAIN next = FlightFields /\ next.pc = "app" /\ next.tab = flight[r].tab
        /\ next.settled = flight[r].settled /\ next.listening
    BY <1>1 DEF FlightFields
  <2>2. flight' = [flight EXCEPT ![r] = next]
    BY <1>6
  <2> HIDE DEF next
  <2> QED
    BY <1>2, <1>6, <2>1, <2>2, OneRenewal DEF Capturing
<1>7. CASE FindAppTab(r)
  BY <1>1, <1>2, <1>7, OneRenewal DEF FindAppTab, FlightFields
<1>8. CASE TabCreated(r)
  <2>1. CASE flight[r].settled # "none"
    <3> DEFINE next == [flight[r] EXCEPT !.tab = "none"]
    <3>1. /\ DOMAIN next = FlightFields /\ next.tab = "none" /\ next.pc = flight[r].pc
          /\ next.listening = flight[r].listening
      BY <1>1 DEF FlightFields
    <3>2. flight' = [flight EXCEPT ![r] = next]
      BY <1>8, <2>1 DEF TabCreated
    <3> HIDE DEF next
    <3> QED
      BY <1>2, <3>1, <3>2, OneRenewal
  <2>2. CASE flight[r].settled = "none"
    <3> DEFINE next == [flight[r] EXCEPT !.tab = "open", !.pc = "look"]
    <3>1. /\ DOMAIN next = FlightFields /\ next.tab = "open" /\ next.pc = "look"
          /\ next.listening = flight[r].listening
      BY <1>1 DEF FlightFields
    <3>2. flight' = [flight EXCEPT ![r] = next] /\ flight[r].tab = "pending"
      BY <1>8, <2>2 DEF TabCreated
    <3>3. flight[r].listening
      BY <1>2, <2>2, <3>2
    <3> HIDE DEF next
    <3> QED
      BY <3>1, <3>2, <3>3, OneRenewal
  <2> QED
    BY <2>1, <2>2
<1>9. CASE LookAtTab(r)
  BY <1>1, <1>2, <1>9, OneRenewal DEF LookAtTab, FlightFields
<1>10. CASE CaptureTimesOut(r)
  BY <1>1, <1>2, <1>10, OneRenewal DEF CaptureTimesOut, Settle, FlightFields
<1>11. CASE EndCapture(r)
  BY <1>1, <1>2, <1>11, OneRenewal DEF EndCapture, Capturing, FlightFields
<1>12. CASE BeginRenewal(r) \/ ReadCookieAgain(r) \/ PostAgain(r)
  BY <1>4, <1>5, <1>12 DEF BeginRenewal, ReadCookieAgain, PostAgain, Capturing
<1>13. CASE ReadCookie(r) \/ PostCookie(r)
  BY <1>4, <1>5, <1>6, <1>13 DEF ReadCookie, PostCookie, Capturing
<1>14. CASE Navigate(r)
  BY <1>1, <1>2, <1>14, OneRenewal DEF Navigate, Settle, FlightFields
<1>15. CASE UserClosesTab(r)
  <2> DEFINE next == [flight[r] EXCEPT !.tab = "none",
                        !.settled = IF @ = "none" THEN "unavailable" ELSE @]
  <2>1. /\ DOMAIN next = FlightFields /\ next.tab = "none" /\ next.pc = flight[r].pc
        /\ next.listening = flight[r].listening
    BY <1>1 DEF FlightFields
  <2>2. flight' = [flight EXCEPT ![r] = next]
    BY <1>15 DEF UserClosesTab
  <2> HIDE DEF next
  <2> QED
    BY <1>2, <2>1, <2>2, OneRenewal
<1> QED
  BY <1>3, <1>7, <1>8, <1>9, <1>10, <1>11, <1>12, <1>13, <1>14, <1>15
  DEF RenewalStep

LEMMA FenceKeeps ==
    ASSUME FlightsAreTyped, RenewalInvariant, Fence
    PROVE  FlightsAreTyped' /\ RenewalInvariant'
<1>1. CASE UNCHANGED flight
  BY <1>1 DEF FlightsAreTyped, RenewalInvariant, Capturing
<1>2. CASE flight' = [r \in Renewals |->
                       IF flight[r].listening /\ flight[r].settled = "none"
                       THEN [flight[r] EXCEPT !.settled = "unavailable"] ELSE flight[r]]
  <2>1. DOMAIN flight' = Renewals
    BY <1>2
  <2>2. ASSUME NEW r \in Renewals
        PROVE  /\ DOMAIN flight'[r] = FlightFields
               /\ flight'[r].pc = flight[r].pc /\ flight'[r].tab = flight[r].tab
               /\ flight'[r].listening = flight[r].listening
               /\ flight'[r].settled \in {flight[r].settled, "unavailable"}
    BY <1>2 DEF FlightsAreTyped, FlightFields
  <2> QED
    BY <2>1, <2>2 DEF FlightsAreTyped, RenewalInvariant, Capturing
<1> QED
  BY <1>1, <1>2 DEF Fence

\* No ticket tab outlives its renewal: whatever the timer, the user, the browser, the logouts and
\* the requests do, and in whatever order, a tab that is open has a renewal that will close it.
THEOREM TabsAreClosed == ExtensionSpec => []NoTabOutlives
<1>1. ExtensionInit => FlightsAreTyped /\ RenewalInvariant
  BY DEF ExtensionInit, RenewalInit, NoFlight, FlightsAreTyped, FlightFields, RenewalInvariant,
     Capturing
<1>2. FlightsAreTyped /\ RenewalInvariant /\ [ExtensionNext]_extensionVars
        => FlightsAreTyped' /\ RenewalInvariant'
  <2> SUFFICES ASSUME FlightsAreTyped, RenewalInvariant, [ExtensionNext]_extensionVars
               PROVE  FlightsAreTyped' /\ RenewalInvariant'
    OBVIOUS
  <2>1. CASE RenewalNext
    BY <2>1, RenewalKeeps, FenceKeeps DEF RenewalNext
  <2>2. CASE UNCHANGED renewalVars
    BY <2>2 DEF renewalVars, FlightsAreTyped, RenewalInvariant, Capturing
  <2> QED
    BY <2>1, <2>2 DEF ExtensionNext, extensionVars
<1>3. FlightsAreTyped /\ RenewalInvariant => NoTabOutlives
  BY DEF RenewalInvariant, NoTabOutlives
<1> QED
  BY <1>1, <1>2, <1>3, PTL DEF ExtensionSpec

=============================================================================
