---------------------------- MODULE WebSession ----------------------------
(***************************************************************************)
(* The session of the web client within one page load: the Pinia auth      *)
(* store, the axios interceptor with its shared refresh, the renewal of an *)
(* upstream session, the login view and the silent re-login through the    *)
(* extension.  A callback of the page runs to its end: an action is one    *)
(* callback, or what a promise's settling makes its waiters do.            *)
(*                                                                         *)
(* A token carries the session generation in which it was asked for: what  *)
(* the code must never mix up.  The server and the extension answer when   *)
(* and as they like.                                                       *)
(***************************************************************************)
EXTENDS Naturals, FiniteSets

CONSTANTS Kinds,       \* of the calls made
          Requests,    \* calls of the API that may be under way at a time
          MaxLogouts,  \* bound of the session generation
          MaxMints,    \* bound of the tokens handed out
          MaxAttempts, \* bound of the logins and re-logins begun
          None         \* no token, no refresh, no epoch

ASSUME NoneIsNothing == None \notin [no : Nat, epoch : Nat]

ASSUME WebBounds == /\ MaxLogouts \in Nat /\ MaxMints \in Nat \ {0}
                    /\ MaxAttempts \in Nat

VARIABLES
    generation,  \* sessionLifetime: the epoch,
    gate,        \*   and how many logouts are in progress
    local,       \* the token of localStorage
    token,       \* the token of the store
    mints,       \* how many tokens were handed out
    requests,    \* the calls of the API
    refreshes,     \* the refreshes whose answer is awaited, named by number
    shared,    \* the refresh that later 401s join
    renewals,    \* the renewals of an upstream session that are awaited
    interaction, \* upstreamRecoveryState: the user must log in by hand
    logout,      \* how far the logout is
    attempts,    \* the logins: handoffs to the extension and captures
    newest,      \* the newest attempt of each kind
    extFlows,    \* the epochs whose handoff may still end with a token
    reauth,      \* the store's reauthAttempted and reauthing
    view         \* the login view

lifetime == <<generation, gate>>
tokens == <<local, token, mints>>
calls == <<requests, refreshes, shared, renewals, interaction>>
logins == <<attempts, newest, extFlows, reauth, view>>
webVars == <<lifetime, tokens, calls, logout, logins>>

Epochs == 0 .. MaxLogouts
Tokens == [at : Epochs, no : 1 .. MaxMints]
Attempts == 1 .. MaxAttempts

\* A read may be repeated, a write never; a 401 of a service route may mean
\* that the upstream session is stale.
ASSUME KindsOfCalls ==
    Kinds \subseteq {"read", "write", "serviceRead", "serviceWrite"}
ServiceKinds == {"serviceRead", "serviceWrite"}
ReadKinds == {"read", "serviceRead"}

Idle == [state |-> "idle"]

\* The generation a call was first made in, and the one it was last sent in.
Call(kind, born, at, retried) ==
    [state |-> "sent", kind |-> kind, born |-> born, at |-> at,
     retried |-> retried]

IsCurrent(e) == e = generation /\ gate = 0

WebInit ==
    /\ generation = 0 /\ gate = 0
    /\ local \in {None, [at |-> 0, no |-> 1]} /\ token = local /\ mints = 1
    /\ requests = [r \in Requests |-> Idle]
    /\ refreshes = {} /\ shared = None /\ renewals = {} /\ interaction = FALSE
    /\ logout = "no"
    /\ attempts = [a \in Attempts |-> Idle]
    /\ newest = [handoff |-> 0, capture |-> 0]
    /\ extFlows = {}
    /\ reauth = [attempted |-> FALSE, overlay |-> FALSE]
    /\ view = [mounted |-> FALSE, flow |-> 0, epoch |-> 0,
               busy |-> FALSE, waiting |-> FALSE]
----------------------------------------------------------------------------
(* Logins.  Attempt a is the a-th one begun.                               *)

Begun == Cardinality({a \in Attempts : attempts[a] # Idle})

Begin(owner) ==
    [attempts EXCEPT ![Begun + 1] =
        [state |-> "asked", owner |-> owner, epoch |-> generation]]

\* An answer is used by the newest attempt of its kind, in its own epoch.
OwnsAfterLogout(a, kind) == newest[kind] = a

Owns(a, kind) == newest[kind] = a /\ IsCurrent(attempts[a].epoch)

\* A token of attempt or flow of epoch e is stored.
Store(e) ==
    /\ mints < MaxMints /\ mints' = mints + 1
    /\ local' = [at |-> e, no |-> mints + 1] /\ token' = local'
    /\ interaction' = FALSE \* a new session begins

\* finishHandoff: presented with the epoch of its caller.
FinishHandoff(e, expected) ==
    IF IsCurrent(expected) THEN Store(e) ELSE UNCHANGED <<tokens, interaction>>

\* A 401 has shown the session to be dead: the page asks for a re-login, which
\* happens once until a logout.
WipeAndReauth ==
    /\ local' = None /\ UNCHANGED <<token, mints>>
    /\ IF reauth.attempted
         THEN UNCHANGED logins
         ELSE /\ Begun < MaxAttempts
              /\ attempts' = Begin("reauth")
              /\ newest' = [newest EXCEPT !.handoff = Begun + 1]
              /\ extFlows' = extFlows \cup {generation}
              /\ reauth' = [attempted |-> TRUE, overlay |-> TRUE]
              /\ UNCHANGED view
----------------------------------------------------------------------------
(* The API client.                                                         *)

Send(r, kind) ==
    /\ requests[r] = Idle
    /\ requests' = [requests EXCEPT
                      ![r] = Call(kind, generation, generation, FALSE)]
    /\ UNCHANGED <<lifetime, tokens, refreshes, shared, renewals, interaction,
                   logout, logins>>

\* An answer that is no 401 goes to the caller as it is.
Answered(r) ==
    /\ requests[r].state = "sent"
    /\ requests' = [requests EXCEPT ![r] = Idle]
    /\ UNCHANGED <<lifetime, tokens, refreshes, shared, renewals, interaction,
                   logout, logins>>

FreshNumber == CHOOSE n \in 1 .. Cardinality(refreshes) + 1 :
                    \A f \in refreshes : f.no # n

\* A 401 joins the refresh of its epoch or begins one.
RefreshOnce(r) ==
    LET joined == IF shared # None /\ shared.epoch = generation
                    THEN shared
                    ELSE [no |-> FreshNumber, epoch |-> generation]
    IN  /\ refreshes' = refreshes \cup {joined} /\ shared' = joined
        /\ requests' = [requests EXCEPT ![r].state = "refreshing"]

Rejected(r) ==
    LET q == requests[r]
    IN  /\ q.state = "sent"
        /\ \/ gate > 0 \/ q.at # generation
           \/ q.retried /\ q.kind \in ServiceKinds
        /\ requests' = [requests EXCEPT ![r] = Idle]
        /\ UNCHANGED <<lifetime, tokens, refreshes, shared, renewals,
                       interaction, logout, logins>>

FirstUnauthorized(r) ==
    LET q == requests[r]
    IN  /\ q.state = "sent" /\ IsCurrent(q.at) /\ ~q.retried
        /\ RefreshOnce(r)
        /\ UNCHANGED <<lifetime, tokens, renewals, interaction, logout,
                       logins>>

SecondUnauthorized(r) ==
    LET q == requests[r]
    IN  /\ q.state = "sent" /\ IsCurrent(q.at) /\ q.retried
        /\ q.kind \notin ServiceKinds
        /\ requests' = [requests EXCEPT ![r] = Idle]
        /\ WipeAndReauth
        /\ UNCHANGED <<lifetime, refreshes, shared, renewals, interaction,
                       logout>>

\* The calls that wait for refresh f: it was begun in the generation in which
\* the last of their sendings was made.
WaitFor(f) == {r \in Requests : /\ requests[r].state = "refreshing"
                                /\ requests[r].at = f.epoch}

\* A refresh gives up its own place only.
ReleaseAnyones(f) == refreshes' = refreshes \ {f} /\ shared' = None

Release(f) == /\ refreshes' = refreshes \ {f}
              /\ shared' = IF shared = f THEN None ELSE shared

\* What becomes of call q when the token has been refreshed.
Resume(q) ==
    CASE q.kind \in ServiceKinds -> [q EXCEPT !.state = "renewing"]
      [] q.kind = "read" -> Call(q.kind, q.born, generation, TRUE)
      [] OTHER -> Idle

Refreshed(f) ==
    /\ f \in refreshes /\ IsCurrent(f.epoch) /\ mints < MaxMints
    /\ Release(f)
    /\ LET new == [at |-> f.epoch, no |-> mints + 1]
           waiting == WaitFor(f)
       IN  /\ mints' = mints + 1 /\ local' = new /\ token' = new
           /\ requests' = [r \in Requests |->
                IF r \in waiting THEN Resume(requests[r]) ELSE requests[r]]
           /\ renewals' = IF \E r \in waiting :
                                requests[r].kind \in ServiceKinds
                            THEN renewals \cup {new} ELSE renewals
    /\ UNCHANGED <<lifetime, interaction, logout, logins>>

Discard(waiting) ==
    requests' = [r \in Requests |->
                    IF r \in waiting THEN Idle ELSE requests[r]]

\* The refresh is refused in the epoch it was made in.
SessionDead(f) ==
    /\ f \in refreshes /\ IsCurrent(f.epoch)
    /\ Release(f) /\ Discard(WaitFor(f)) /\ WipeAndReauth
    /\ UNCHANGED <<lifetime, renewals, interaction, logout>>

\* The refresh failed, or a logout has come in between.
RefreshLost(f) ==
    /\ f \in refreshes
    /\ Release(f) /\ Discard(WaitFor(f))
    /\ UNCHANGED <<lifetime, tokens, renewals, interaction, logout, logins>>

\* The user, or the check of a new session, asks for a renewal.
Relogin ==
    /\ local # None /\ IsCurrent(generation)
    /\ renewals' = renewals \cup {local}
    /\ UNCHANGED <<lifetime, tokens, requests, refreshes, shared, interaction,
                   logout, logins>>

\* A renewal that its token or its epoch has not outlived is answered
\* "cancelled".  A read is repeated only if the session is still its own.
FencedByToken(t) == local = t

Fenced(t) == IsCurrent(t.at) /\ local = t

Renewed(t, outcome) ==
    /\ t \in renewals /\ renewals' = renewals \ {t}
    /\ requests' = [r \in Requests |->
          LET q == requests[r]
          IN  IF q.state # "renewing" \/ q.at # t.at THEN q
              ELSE IF /\ outcome = "recovered" /\ Fenced(t)
                      /\ q.kind \in ReadKinds
                     THEN Call(q.kind, q.born, generation, TRUE)
                     ELSE Idle]
    /\ interaction' = IF ~Fenced(t) THEN interaction
                      ELSE IF outcome = "unavailable" THEN interaction
                      ELSE outcome = "interaction-required"
    /\ UNCHANGED <<lifetime, tokens, refreshes, shared, logout, logins>>
----------------------------------------------------------------------------
(* Logout.                                                                 *)

LogoutBegins ==
    /\ logout = "no" /\ token # None /\ generation < MaxLogouts
    /\ gate' = gate + 1 /\ generation' = generation + 1
    /\ logout' = "revoking"
    /\ UNCHANGED <<tokens, calls, logins>>

\* The server has answered, or has had its five seconds.
Wiped ==
    /\ logout = "revoking" /\ logout' = "wiping"
    /\ local' = None /\ token' = None /\ UNCHANGED mints
    /\ interaction' = FALSE
    /\ reauth' = [attempted |-> FALSE, overlay |-> FALSE]
    /\ UNCHANGED <<lifetime, requests, refreshes, shared, renewals, attempts,
                   newest, extFlows, view>>

GateFalls == /\ logout = "wiping" /\ logout' = "no"
             /\ gate' = gate - 1
             /\ UNCHANGED <<generation, tokens, calls>>

\* The extension has answered the wipe with ok: it has nothing left to send
\* (Extension.LogoutForgetsTokens).
WipeConfirmed ==
    /\ GateFalls /\ extFlows' = {}
    /\ UNCHANGED <<attempts, newest, reauth, view>>

\* It has answered with an error, or not within five seconds: a POST that runs
\* there is finished before the wipe, and its token pushed.
WipeUnconfirmed == GateFalls /\ UNCHANGED logins
----------------------------------------------------------------------------
(* The login view, and what an attempt does with its answers.              *)

Mount ==
    /\ ~view.mounted /\ token = None
    /\ view' = [view EXCEPT !.mounted = TRUE, !.epoch = generation]
    /\ UNCHANGED <<lifetime, tokens, calls, logout, attempts, newest, extFlows,
                   reauth>>

Unmounted == [mounted |-> FALSE, flow |-> 0, epoch |-> 0,
              busy |-> FALSE, waiting |-> FALSE]

Unmount ==
    /\ view.mounted /\ view' = Unmounted
    /\ UNCHANGED <<lifetime, tokens, calls, logout, attempts, newest, extFlows,
                   reauth>>

Clickable == /\ view.mounted /\ ~view.busy /\ ~view.waiting
             /\ Begun < MaxAttempts

Click(kind) ==
    /\ Clickable /\ gate = 0
    /\ attempts' = Begin(IF kind = "handoff" THEN "view" ELSE "capture")
    /\ newest' = [newest EXCEPT ![kind] = Begun + 1]
    /\ extFlows' = IF kind = "handoff" THEN extFlows \cup {generation}
                                       ELSE extFlows
    /\ view' = [view EXCEPT !.flow = Begun + 1, !.epoch = generation,
                            !.busy = TRUE]
    /\ UNCHANGED <<lifetime, tokens, calls, logout, reauth>>

\* During a logout the store sends nothing, and the view leaves its own mark of
\* a handoff standing.
ClickInLogout(kind) ==
    /\ Clickable /\ gate > 0
    /\ attempts' = [attempts EXCEPT ![Begun + 1] = [state |-> "over"]]
    /\ newest' = [newest EXCEPT ![kind] = Begun + 1]
    /\ view' = [view EXCEPT !.flow = Begun + 1, !.epoch = generation,
                            !.busy = (kind = "handoff")]
    /\ UNCHANGED <<lifetime, tokens, calls, logout, extFlows, reauth>>

OwnsFlow(a) == view.flow = a /\ IsCurrent(attempts[a].epoch)
OwnsOverlay(a) == attempts[a].owner = "reauth" /\ IsCurrent(attempts[a].epoch)

Ends(a) == attempts' = [attempts EXCEPT ![a] = [state |-> "over"]]
Becomes(a, s) == attempts' = [attempts EXCEPT ![a].state = s]

\* Attempt a has led to nothing, or to a session: the view that waits for it is
\* free again or left, the overlay of a re-login is taken down.
Failed(a) ==
    /\ view' = IF OwnsFlow(a)
                 THEN [view EXCEPT !.busy = FALSE, !.waiting = FALSE] ELSE view
    /\ reauth' = [reauth EXCEPT !.overlay = @ /\ ~OwnsOverlay(a)]

Succeeded(a) ==
    /\ view' = IF OwnsFlow(a) THEN Unmounted ELSE view
    /\ reauth' = [reauth EXCEPT !.overlay = @ /\ ~OwnsOverlay(a)]

Asked(a, kind) == attempts[a] # Idle /\ attempts[a].state = "asked"
                  /\ (attempts[a].owner = "capture") = (kind = "capture")

\* The answer holds a token.
AnswerToken(a, kind) ==
    /\ Asked(a, kind) /\ Owns(a, kind) /\ Ends(a)
    /\ Store(attempts[a].epoch) /\ Succeeded(a)
    /\ UNCHANGED <<lifetime, requests, refreshes, shared, renewals, logout,
                   newest, extFlows>>

\* The answer is a failure, or comes too late to be used.
AnswerNothing(a, kind) ==
    /\ Asked(a, kind) /\ Ends(a) /\ Failed(a)
    /\ UNCHANGED <<lifetime, tokens, calls, logout, newest, extFlows>>

\* The extension has begun to log in, or is at it already: its state is polled
\* from now on.
AnswerStarted(a) ==
    /\ Asked(a, "handoff")
    /\ LET polls == /\ Owns(a, "handoff")
                    /\ attempts[a].owner = "view" => OwnsFlow(a)
       IN  IF polls
             THEN /\ Becomes(a, "polling")
                  /\ view' = IF OwnsFlow(a) THEN [view EXCEPT !.busy = FALSE,
                                                             !.waiting = TRUE]
                             ELSE view
                  /\ UNCHANGED reauth
             ELSE Ends(a) /\ Failed(a)
    /\ UNCHANGED <<lifetime, tokens, calls, logout, newest, extFlows>>

\* The poll of a re-login goes on while its epoch lasts, the one of the view
\* while the flow is the view's.
Polls(a) == IF attempts[a].owner = "view"
              THEN view.flow = a /\ attempts[a].epoch = generation
              ELSE attempts[a].epoch = generation

PollReads(a) ==
    /\ attempts[a] # Idle /\ attempts[a].state = "polling" /\ Polls(a)
    /\ attempts[a].owner = "view" => view.waiting
    /\ Becomes(a, "reading")
    /\ UNCHANGED <<lifetime, tokens, calls, logout, newest, extFlows, reauth,
                   view>>

Reading(a) == attempts[a] # Idle /\ attempts[a].state = "reading"
Uses(a) == Polls(a) /\ (attempts[a].owner = "view" => gate = 0)

\* A flow that a failed wipe has left running answers the polls of the next
\* handoff too, which is told that it has started.
PollToken(a) ==
    /\ Reading(a) /\ Uses(a) /\ Ends(a) /\ Succeeded(a)
    /\ \E e \in extFlows : FinishHandoff(e, attempts[a].epoch)
    /\ UNCHANGED <<lifetime, requests, refreshes, shared, renewals, logout,
                   newest, extFlows>>

PollError(a) ==
    /\ Reading(a) /\ Ends(a) /\ Failed(a)
    /\ UNCHANGED <<lifetime, tokens, calls, logout, newest, extFlows>>

\* Nothing yet, or no extension to ask: the poll goes on.
PollAgain(a) ==
    /\ Reading(a) /\ Uses(a)
    /\ IF attempts[a].owner = "view" /\ ~view.waiting
         THEN Ends(a) ELSE Becomes(a, "polling")
    /\ UNCHANGED <<lifetime, tokens, calls, logout, newest, extFlows, reauth,
                   view>>

\* A poll that is nobody's any more ends by itself.
PollDropped(a) ==
    /\ attempts[a] # Idle /\ attempts[a].state = "polling" /\ ~Polls(a)
    /\ Ends(a)
    /\ UNCHANGED <<lifetime, tokens, calls, logout, newest, extFlows, reauth,
                   view>>

\* The extension posts its result to the page: a mounted view of the current
\* epoch takes it, whichever epoch's handoff it is of.
BridgeToken ==
    /\ view.mounted /\ IsCurrent(view.epoch) /\ view' = Unmounted
    /\ \E e \in extFlows : FinishHandoff(e, view.epoch)
    /\ UNCHANGED <<lifetime, requests, refreshes, shared, renewals, logout,
                   attempts, newest, extFlows, reauth>>

BridgeError ==
    /\ view.mounted /\ IsCurrent(view.epoch)
    /\ view' = [view EXCEPT !.waiting = FALSE, !.busy = FALSE]
    /\ UNCHANGED <<lifetime, tokens, calls, logout, attempts, newest, extFlows,
                   reauth>>

LoginStep ==
    \/ Mount \/ Unmount \/ BridgeToken \/ BridgeError
    \/ \E kind \in {"handoff", "capture"} :
          \/ Click(kind) \/ ClickInLogout(kind)
          \/ \E a \in Attempts : AnswerToken(a, kind) \/ AnswerNothing(a, kind)
    \/ \E a \in Attempts :
          \/ AnswerStarted(a) \/ PollReads(a) \/ PollToken(a) \/ PollError(a)
          \/ PollAgain(a) \/ PollDropped(a)

RequestStep ==
    \/ \E r \in Requests :
          \/ \E kind \in Kinds : Send(r, kind)
          \/ Answered(r) \/ Rejected(r)
          \/ FirstUnauthorized(r) \/ SecondUnauthorized(r)
    \/ \E f \in refreshes : Refreshed(f) \/ SessionDead(f) \/ RefreshLost(f)
    \/ Relogin
    \/ \E t \in renewals, outcome \in {"recovered", "interaction-required",
                                       "unavailable"} : Renewed(t, outcome)

WebNext ==
    \/ LoginStep \/ RequestStep
    \/ LogoutBegins \/ Wiped \/ WipeConfirmed \/ WipeUnconfirmed

WebSpec == WebInit /\ [][WebNext]_webVars
----------------------------------------------------------------------------
\* The variables hold what their comments say.
WebTypeOK ==
    /\ generation \in Epochs /\ gate \in 0 .. 1
    /\ local \in Tokens \cup {None} /\ token \in Tokens \cup {None}
    /\ mints \in 1 .. MaxMints
    /\ \A r \in Requests : requests[r].state \in
          {"idle", "sent", "refreshing", "renewing"}
    /\ renewals \subseteq Tokens /\ interaction \in BOOLEAN
    /\ logout \in {"no", "revoking", "wiping"} /\ (gate = 1) = (logout # "no")
    /\ extFlows \subseteq Epochs

\* What the extension still sends of a handoff that no wipe has confirmed to be
\* dropped, to a view or a poll of the present generation.
Undropped(t) ==
    /\ t.at \in extFlows
    /\ \/ /\ view.mounted /\ view.epoch = generation /\ ~view'.mounted
          /\ UNCHANGED <<attempts, refreshes>>
       \/ \E a \in Attempts : Reading(a) /\ attempts[a].epoch = generation
                              /\ Ends(a)

\* A token is put into localStorage or into the store only while no logout is
\* in progress, and was asked for in the session generation that is current
\* then: no refresh, no capture and no answer to a handoff of before a logout
\* brings a session back, whenever it comes.  What the extension pushes or
\* answers a poll with is of that generation too once a wipe was confirmed;
\* after one that failed or took too long it may be of a handoff before it.
NoLateToken ==
    [][\A t \in {local', token'} \ {local, token, None} :
            gate' = 0 /\ (t.at = generation' \/ Undropped(t))]_webVars

\* "A late pre-logout result arriving after endLogout (epoch bumped, flag down)
\* never commits" (web/src/views/LoginView.vue): the session of the page was
\* asked for since the last logout.
LateResultNeverCommits ==
    gate = 0 /\ token # None => token.at = generation

\* One generation has at most one refresh under way, whatever the number of
\* 401s and whichever refresh of an earlier generation is still unanswered.
OneRefreshPerGeneration ==
    \A f, g \in refreshes : f.epoch = g.epoch => f = g

\* The overlay of the silent re-login covers the page only while a re-login of
\* this generation works on it, or a logout that will take it down.
OverlayHasOwner ==
    reauth.overlay =>
        \/ gate > 0
        \/ \E a \in Attempts :
              /\ attempts[a] # Idle /\ attempts[a].state # "over"
              /\ attempts[a].owner = "reauth" /\ attempts[a].epoch = generation

\* A call is repeated in the generation in which its caller made it, and only
\* if it is a read.
RepeatsStayInTheirSession ==
    \A r \in Requests :
        requests[r].state = "sent" /\ requests[r].retried =>
            /\ requests[r].at = requests[r].born
            /\ requests[r].kind \in ReadKinds

\* "401 = invalid JWT: the axios interceptor wipes the token and redirects to
\* /login" (web/src/stores/auth.ts): a page that has lost its token, and does
\* not try to get a new one, is not taken for logged in.
LostTokenLogsOut ==
    local = None /\ ~reauth.overlay /\ gate = 0 => token = None
============================================================================
