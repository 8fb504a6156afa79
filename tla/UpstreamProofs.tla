--------------------------- MODULE UpstreamProofs ---------------------------
(***************************************************************************)
(* What requests share on their way to an upstream, and how they change    *)
(* the registry of push targets, for any number of them: one part for each *)
(* of the three machines of MCUpstream.  The last part is of the poller,   *)
(* which asks the upstreams for its users and pushes to those targets.     *)
(***************************************************************************)
EXTENDS MCUpstream, MCNotificationPoller, FiniteSetTheorems, TLAPS

-----------------------------------------------------------------------------
(***************************************************************************)
(* The retry of a rejected token, for any number of calls, tokens and      *)
(* logins.                                                                 *)
(*                                                                         *)
(* A token is in one place at a time as far as a call can still get it:    *)
(* in the flight that minted it, then in the cache of one generation.      *)
(* Once a call has it no flight can bring it, so that deleting the cache   *)
(* of the call's own generation leaves nowhere to get it from, also where  *)
(* the retry goes on in another generation.  That the cache and the        *)
(* flights of the generations hold different tokens, and none of the       *)
(* future, is what makes this inductive.                                   *)
(***************************************************************************)

CallPlaces == {"idle", "session", "identity", "identity flight", "token",
           "token flight", "fetch", "rejected", "delete"}

CallRecords ==
    [pc : CallPlaces, method : SiapMethods, ref : Generations \cup {0},
     cookie : BOOLEAN, mail : BOOLEAN, retried : BOOLEAN,
     token : Nat, left : Nat, rejected : Nat]

FlightRecords ==
    [pc : {"off", "run", "minted"}, mail : BOOLEAN, cookie : BOOLEAN, token : Nat]

\* What the tokens of the cache and of the flights of the generations are, when
\* `top` is the last token minted.
TokensOK(kept, minting, top) ==
    /\ top \in Nat
    /\ kept \in [Generations -> Nat]
    /\ minting \in [Generations -> FlightRecords]
    /\ \A g \in Generations :
          /\ kept[g] <= top /\ minting[g].token <= top
          /\ minting[g].pc = "minted" <=> minting[g].token # 0
    /\ \A g, h \in Generations :
          /\ kept[g] # 0 => kept[g] # minting[h].token
          /\ g # h /\ kept[g] # 0 => kept[g] # kept[h]
          /\ g # h /\ minting[g].token # 0 => minting[g].token # minting[h].token

\* No flight brings token t, and no generation outside `spared` has it kept.
Gone(t, kept, minting, spared) ==
    t # 0 => \A g \in Generations :
                /\ minting[g].token # t
                /\ g \notin spared => kept[g] # t

Holding == {"fetch", "rejected"}

CallOK(k, kept, minting, top) ==
    /\ k \in CallRecords
    /\ k.token <= top /\ k.rejected <= top
    /\ k.retried => k.method.retries
    /\ ~ k.retried => k.rejected = 0
    /\ k.pc \notin {"idle", "session"} => k.ref \in Generations
    /\ k.pc \in Holding /\ k.method.api => k.token # 0
    /\ k.pc \notin Holding => k.token = 0
    /\ k.token # 0 => k.token # k.rejected
    /\ Gone(k.token, kept, minting, {k.ref})
    /\ Gone(k.rejected, kept, minting, IF k.pc = "delete" THEN {k.ref} ELSE {})

SiapInv ==
    /\ session \in [gen : Generations, cookie : BOOLEAN, mail : BOOLEAN]
    /\ DOMAIN flight = {"identity", "token"}
    /\ flight["identity"] \in [Generations -> FlightRecords]
    /\ TokensOK(token, flight["token"], valid)
    /\ DOMAIN call = Calls
    /\ \A c \in Calls : CallOK(call[c], token, flight["token"], valid)

-----------------------------------------------------------------------------
(* Methods and calls                                                         *)

\* A method that replaces a rejected token needs one.
MethodOK(m) ==
    /\ m.retries \in BOOLEAN /\ m.inTry \in BOOLEAN
    /\ m.cookie \in BOOLEAN /\ m.api \in BOOLEAN
    /\ m.current \in BOOLEAN /\ m.requests \in Nat
    /\ m.retries => m.api

LEMMA MethodsAre == \A m \in SiapMethods : MethodOK(m)
<1>1. MethodOK(fetchWithSessionContext)
  BY DEF MethodOK, fetchWithSessionContext
<1>2. MethodOK(getJadwalForCurrentSession)
  BY DEF MethodOK, getJadwalForCurrentSession, fetchWithSessionContext
<1>3. MethodOK(getIrs)
  BY DEF MethodOK, getIrs, fetchWithSessionContext
<1>4. MethodOK(getProfile)
  BY DEF MethodOK, getProfile, getIrs, fetchWithSessionContext
<1>5. MethodOK(getLecturers)
  BY DEF MethodOK, getLecturers, getProfile, getIrs, fetchWithSessionContext
<1>6. MethodOK(fetchWithCookie)
  BY DEF MethodOK, fetchWithCookie, fetchWithSessionContext
<1> QED
  BY <1>1, <1>2, <1>3, <1>4, <1>5, <1>6
     DEF SiapMethods, getJadwal, getNotifications, getAbsen, getKhs,
         getKehadiran, getNilaiDetail, markKehadiran, markNotification

LEMMA FirstGeneration == 1 \in Generations /\ 0 \notin Generations
BY SiapBounds DEF Generations

LEMMA NoCallIsOK ==
    ASSUME NEW kept, NEW minting, NEW top \in Nat
    PROVE  CallOK(NoCall, kept, minting, top)
<1>1. fetchWithCookie \in SiapMethods
  BY DEF SiapMethods, getKehadiran
<1> QED BY <1>1 DEF NoCall, CallOK, CallRecords, CallPlaces, Gone, Holding

\* What the catch makes of a call whose token, if it has one, was rejected.
LEMMA CaughtIsOK ==
    ASSUME NEW kept, NEW minting, NEW top \in Nat, NEW k,
           CallOK(k, kept, minting, top),
           k.pc \notin {"idle", "session", "delete"},
           NEW error, NEW inTry
    PROVE  CallOK(Caught(k, error, inTry), kept, minting, top)
<1>1. CASE Caught(k, error, inTry) = NoCall
  BY <1>1, NoCallIsOK
<1>2. CASE Caught(k, error, inTry) # NoCall
  <2> DEFINE caught == [k EXCEPT !.pc = "delete", !.retried = TRUE,
                                 !.rejected = k.token, !.token = 0, !.left = 0]
  <2>1. Caught(k, error, inTry) = caught /\ k.method.retries
    BY <1>2 DEF Caught
  <2>2. k \in CallRecords
    BY DEF CallOK
  <2>3. /\ caught \in CallRecords
        /\ caught.pc = "delete" /\ caught.retried /\ caught.token = 0
        /\ caught.rejected = k.token /\ caught.ref = k.ref
        /\ caught.method = k.method
    BY <2>2 DEF CallRecords, CallPlaces
  <2>4. CallOK(caught, kept, minting, top)
    BY <2>1, <2>2, <2>3 DEF CallOK, Gone, Holding, CallRecords
  <2> QED BY <2>1, <2>4
<1> QED BY <1>1, <1>2

\* Before it knows of its session a call has nothing to try again.
LEMMA UnreadIsGivenUp ==
    ASSUME NEW k, NEW inTry, NEW error \in {"stale", "dead"}
    PROVE  Caught(k, error, inTry) = NoCall
BY DEF Caught

\* A call that moves on and takes no token.
LEMMA MovesOn ==
    ASSUME NEW kept, NEW minting, NEW top, NEW k, NEW next \in CallRecords,
           CallOK(k, kept, minting, top),
           next.token = k.token, next.rejected = k.rejected,
           next.retried = k.retried, next.method = k.method,
           next.pc \notin {"idle", "session"} => next.ref \in Generations,
           next.ref = k.ref \/ k.token = 0,
           k.pc # "delete", next.pc # "delete",
           \/ next.pc \in Holding /\ k.pc \in Holding
           \/ next.pc \in Holding /\ ~ k.method.api /\ k.token = 0
           \/ next.pc \notin Holding /\ k.token = 0
    PROVE  CallOK(next, kept, minting, top)
BY DEF CallOK, Gone, Holding

\* A call that takes the token of its generation from the cache.
LEMMA TakesToken ==
    ASSUME NEW kept, NEW minting, NEW top, NEW k,
           TokensOK(kept, minting, top), CallOK(k, kept, minting, top),
           k.pc \in {"token", "token flight"}, kept[k.ref] # 0
    PROVE  CallOK([k EXCEPT !.pc = "fetch", !.token = kept[k.ref]],
                  kept, minting, top)
<1> DEFINE next == [k EXCEPT !.pc = "fetch", !.token = kept[k.ref]]
<1>1. k \in CallRecords /\ k.ref \in Generations /\ kept[k.ref] \in Nat
  BY DEF CallOK, TokensOK
<1>2. /\ next \in CallRecords
      /\ next.pc = "fetch" /\ next.token = kept[k.ref]
      /\ next.ref = k.ref /\ next.rejected = k.rejected
      /\ next.retried = k.retried /\ next.method = k.method
  BY <1>1 DEF CallRecords, CallPlaces
<1>3. Gone(next.token, kept, minting, {next.ref})
  <2>1. \A h \in Generations :
           /\ minting[h].token # kept[k.ref]
           /\ h # k.ref => kept[h] # kept[k.ref]
    BY <1>1 DEF TokensOK
  <2> QED BY <1>2, <2>1 DEF Gone
<1>4. Gone(next.rejected, kept, minting, {}) /\ next.token # next.rejected
  BY <1>1, <1>2 DEF CallOK, Gone, CallRecords
<1>5. next.token <= top
  BY <1>1, <1>2 DEF TokensOK
<1> HIDE DEF next
<1>6. CallOK(next, kept, minting, top)
  BY <1>1, <1>2, <1>3, <1>4, <1>5 DEF CallOK, Holding
<1> QED BY <1>6 DEF next

-----------------------------------------------------------------------------
(* The tokens, when the world changes                                        *)

\* SIAP mints a token nobody has yet; it may be a flight's.
LEMMA AnotherMint ==
    ASSUME NEW kept, NEW minting, NEW top, TokensOK(kept, minting, top)
    PROVE  /\ TokensOK(kept, minting, top + 1)
           /\ \A k : CallOK(k, kept, minting, top)
                        => CallOK(k, kept, minting, top + 1)
<1>1. TokensOK(kept, minting, top + 1)
  BY DEF TokensOK, FlightRecords
<1>2. \A k : CallOK(k, kept, minting, top)
                => CallOK(k, kept, minting, top + 1)
  BY DEF TokensOK, CallOK, CallRecords
<1> QED BY <1>1, <1>2

Minted(fl, t) == [fl EXCEPT !.pc = "minted", !.token = t]

LEMMA MintedFlight ==
    ASSUME NEW fl \in FlightRecords, NEW t \in Nat
    PROVE  /\ Minted(fl, t) \in FlightRecords
           /\ Minted(fl, t).pc = "minted" /\ Minted(fl, t).token = t
BY DEF Minted, FlightRecords

LEMMA FlightMints ==
    ASSUME NEW kept, NEW minting, NEW top, TokensOK(kept, minting, top),
           NEW g \in Generations,
           NEW new, new = [minting EXCEPT ![g] = Minted(minting[g], top + 1)]
    PROVE  /\ TokensOK(kept, new, top + 1)
           /\ \A k : CallOK(k, kept, minting, top)
                        => CallOK(k, kept, new, top + 1)
<1>1. top \in Nat /\ minting \in [Generations -> FlightRecords]
  BY DEF TokensOK
<1>2. new[g] = Minted(minting[g], top + 1) /\ minting[g] \in FlightRecords
  BY <1>1
<1>3. new[g] \in FlightRecords /\ new[g].pc = "minted" /\ new[g].token = top + 1
  <2>1. top + 1 \in Nat
    BY <1>1
  <2> QED BY <1>2, <2>1, MintedFlight
<1>4. \A h \in Generations : h # g => new[h] = minting[h]
  BY <1>1
<1>5. new \in [Generations -> FlightRecords]
  BY <1>1, <1>3, <1>4
<1>6. kept \in [Generations -> Nat]
  BY DEF TokensOK
<1>7. \A h \in Generations : minting[h].token \in Nat
  BY <1>1 DEF FlightRecords
<1> HIDE DEF FlightRecords
<1>8. TokensOK(kept, new, top + 1)
  BY <1>1, <1>3, <1>4, <1>5, <1>6, <1>7 DEF TokensOK
<1>9. ASSUME NEW k, CallOK(k, kept, minting, top)
      PROVE  CallOK(k, kept, new, top + 1)
  <2>1. k \in CallRecords /\ k.token \in Nat /\ k.rejected \in Nat
    BY <1>9 DEF CallOK, CallRecords
  <2>2. \A s : Gone(k.token, kept, minting, s) => Gone(k.token, kept, new, s)
    BY <1>1, <1>3, <1>4, <1>9, <2>1 DEF Gone, CallOK
  <2>3. \A s : Gone(k.rejected, kept, minting, s)
                  => Gone(k.rejected, kept, new, s)
    BY <1>1, <1>3, <1>4, <1>9, <2>1 DEF Gone, CallOK
  <2>4. k.token <= top + 1 /\ k.rejected <= top + 1
    BY <1>1, <1>9, <2>1 DEF CallOK
  <2> QED BY <1>9, <2>1, <2>2, <2>3, <2>4 DEF CallOK
<1> QED BY <1>8, <1>9

\* A flight of generation g that brings no token begins, or has ended.
LEMMA FlightWithout ==
    ASSUME NEW kept, NEW minting, NEW top, TokensOK(kept, minting, top),
           NEW g \in Generations, NEW fl \in FlightRecords,
           fl.token = 0, fl.pc # "minted",
           NEW new, new = [minting EXCEPT ![g] = fl]
    PROVE  /\ TokensOK(kept, new, top)
           /\ \A k : CallOK(k, kept, minting, top)
                        => CallOK(k, kept, new, top)
<1>1. minting \in [Generations -> FlightRecords]
  BY DEF TokensOK
<1>2. new \in [Generations -> FlightRecords]
  BY <1>1
<1>3. \A h \in Generations : new[h] = IF h = g THEN fl ELSE minting[h]
  BY <1>1
<1>4. TokensOK(kept, new, top)
  BY <1>2, <1>3 DEF TokensOK
<1>5. ASSUME NEW k, CallOK(k, kept, minting, top)
      PROVE  CallOK(k, kept, new, top)
  <2>1. \A t, s : Gone(t, kept, minting, s) => Gone(t, kept, new, s)
    BY <1>3 DEF Gone
  <2> QED BY <1>5, <2>1 DEF CallOK
<1> QED BY <1>4, <1>5

\* The kept token of generation g is forgotten.
LEMMA CacheForgets ==
    ASSUME NEW kept, NEW minting, NEW top, TokensOK(kept, minting, top),
           NEW g \in Generations, NEW new, new = [kept EXCEPT ![g] = 0]
    PROVE  /\ TokensOK(new, minting, top)
           /\ \A k : CallOK(k, kept, minting, top)
                        => CallOK(k, new, minting, top)
<1>1. kept \in [Generations -> Nat]
  BY DEF TokensOK
<1>2. \A h \in Generations : new[h] = IF h = g THEN 0 ELSE kept[h]
  BY <1>1
<1>3. new \in [Generations -> Nat]
  BY <1>1
<1>4. TokensOK(new, minting, top)
  BY <1>2, <1>3 DEF TokensOK, FlightRecords
<1>5. ASSUME NEW k, CallOK(k, kept, minting, top)
      PROVE  CallOK(k, new, minting, top)
  <2>1. \A t, s : Gone(t, kept, minting, s) => Gone(t, new, minting, s)
    BY <1>2 DEF Gone
  <2> QED BY <1>5, <2>1 DEF CallOK
<1> QED BY <1>4, <1>5

\* The token of the flight of generation g goes into the cache.
LEMMA FlightLands ==
    ASSUME NEW kept, NEW minting, NEW top, TokensOK(kept, minting, top),
           NEW g \in Generations, minting[g].pc = "minted",
           NEW t, t = minting[g].token,
           NEW newCached, newCached = [kept EXCEPT ![g] = t],
           NEW newMinting, newMinting = [minting EXCEPT ![g] = NoFlight]
    PROVE  /\ TokensOK(newCached, newMinting, top)
           /\ newCached[g] # 0
           /\ \A k : CallOK(k, kept, minting, top)
                        => CallOK(k, newCached, newMinting, top)
<1>1. /\ kept \in [Generations -> Nat]
      /\ minting \in [Generations -> FlightRecords]
      /\ minting[g].token \in Nat /\ minting[g].token # 0
  BY DEF TokensOK, FlightRecords
<1>2. NoFlight \in FlightRecords /\ NoFlight.token = 0 /\ NoFlight.pc # "minted"
  BY DEF NoFlight, FlightRecords
<1>3. /\ newCached \in [Generations -> Nat]
      /\ newMinting \in [Generations -> FlightRecords]
  BY <1>1, <1>2
<1>4. \A h \in Generations :
         /\ newCached[h] = IF h = g THEN minting[g].token ELSE kept[h]
         /\ newMinting[h] = IF h = g THEN NoFlight ELSE minting[h]
  BY <1>1
<1>5. TokensOK(newCached, newMinting, top)
  BY <1>1, <1>2, <1>3, <1>4 DEF TokensOK
<1>6. ASSUME NEW k, CallOK(k, kept, minting, top)
      PROVE  CallOK(k, newCached, newMinting, top)
  <2>1. \A u, s : Gone(u, kept, minting, s) => Gone(u, newCached, newMinting, s)
    BY <1>2, <1>4 DEF Gone
  <2> QED BY <1>6, <2>1 DEF CallOK
<1> QED BY <1>1, <1>4, <1>5, <1>6

-----------------------------------------------------------------------------
(* The invariant, action by action                                           *)

\* One call is replaced, nothing else of the invariant's changes.
LEMMA OneCall ==
    ASSUME SiapInv, NEW c \in Calls, NEW k,
           CallOK(k, token, flight["token"], valid),
           call' = [call EXCEPT ![c] = k],
           UNCHANGED <<session, token, flight, valid>>
    PROVE  SiapInv'
BY DEF SiapInv

LEMMA BeginCallKeeps ==
    ASSUME SiapInv, NEW c \in Calls, BeginCall(c)
    PROVE  SiapInv'
<1>1. PICK m \in SiapMethods, g \in Generations :
         call' = [call EXCEPT ![c] =
                    [NoCall EXCEPT !.pc = "session", !.method = m,
                                   !.ref = IF m.current THEN 0 ELSE g]]
  BY DEF BeginCall
<1> DEFINE k == [NoCall EXCEPT !.pc = "session", !.method = m,
                               !.ref = IF m.current THEN 0 ELSE g]
<1>2. /\ k \in CallRecords /\ k.pc = "session" /\ k.token = 0
      /\ k.rejected = 0 /\ ~ k.retried
  BY DEF NoCall, CallRecords, CallPlaces
<1> HIDE DEF k
<1>3. CallOK(k, token, flight["token"], valid)
  BY <1>2 DEF CallOK, Gone, Holding, SiapInv, TokensOK
<1> QED BY <1>1, <1>3, OneCall DEF BeginCall, k

LEMMA CurrentRefKeeps ==
    ASSUME SiapInv, NEW c \in Calls, CurrentRef(c)
    PROVE  SiapInv'
<1> DEFINE k == call[c]
<1>1. CallOK(k, token, flight["token"], valid) /\ k \in CallRecords
      /\ session.gen \in Generations /\ valid \in Nat
  BY DEF SiapInv, CallOK, TokensOK
<1>2. CASE session.gen # 0 /\ session.cookie
  <2> DEFINE next == [k EXCEPT !.ref = session.gen]
  <2>1. /\ next \in CallRecords /\ next.pc = "session"
        /\ next.token = k.token /\ next.rejected = k.rejected
        /\ next.retried = k.retried /\ next.method = k.method
    BY <1>1 DEF CurrentRef, CallRecords
  <2>2. k.token = 0 /\ k.pc = "session"
    BY <1>1 DEF CurrentRef, CallOK, Holding
  <2>3. CallOK(next, token, flight["token"], valid)
    <3> HIDE DEF next, k
    <3> QED BY <1>1, <2>1, <2>2, MovesOn DEF Holding
  <2> QED BY <1>2, <2>3, OneCall DEF CurrentRef
<1>3. CASE ~ (session.gen # 0 /\ session.cookie)
  <2>1. CallOK(Unresolved(k, "stale"), token, flight["token"], valid)
    BY <1>1, NoCallIsOK, UnreadIsGivenUp DEF Unresolved
  <2> QED BY <1>3, <2>1, OneCall DEF CurrentRef
<1> QED BY <1>2, <1>3

LEMMA ReadSessionKeeps ==
    ASSUME SiapInv, NEW c \in Calls, ReadSession(c)
    PROVE  SiapInv'
<1> DEFINE k == call[c]
           next == [k EXCEPT !.pc = IF Of(c).api THEN "identity" ELSE "fetch",
                             !.cookie = session.cookie, !.mail = session.mail,
                             !.left = Of(c).requests]
<1>1. /\ CallOK(k, token, flight["token"], valid) /\ k \in CallRecords
      /\ session.cookie \in BOOLEAN /\ session.mail \in BOOLEAN /\ valid \in Nat
      /\ k.method \in SiapMethods /\ k.ref \in Generations
      /\ k.pc = "session" /\ k.token = 0
  BY DEF SiapInv, CallOK, TokensOK, ReadSession, CallRecords, Holding
<1>2. /\ next \in CallRecords /\ next.pc = IF k.method.api THEN "identity" ELSE "fetch"
      /\ next.token = k.token /\ next.rejected = k.rejected /\ next.ref = k.ref
      /\ next.retried = k.retried /\ next.method = k.method
  BY <1>1, MethodsAre DEF CallRecords, CallPlaces, Of, MethodOK
<1>3. CallOK(next, token, flight["token"], valid)
  <2> HIDE DEF next, k
  <2> QED BY <1>1, <1>2, MovesOn, MethodsAre DEF Holding, MethodOK
<1>4. \A error \in {"stale", "dead"} :
         CallOK(Unresolved(k, error), token, flight["token"], valid)
  BY <1>1, NoCallIsOK, UnreadIsGivenUp DEF Unresolved
<1> QED BY <1>3, <1>4, OneCall DEF ReadSession, Unresolved

\* A flight of the identities carries no token.
LEMMA IdentityFlight ==
    ASSUME SiapInv, NEW g \in Generations, NEW fl \in FlightRecords
    PROVE  LET new == [flight EXCEPT !["identity"][g] = fl]
           IN  /\ DOMAIN new = {"identity", "token"}
               /\ new["identity"] \in [Generations -> FlightRecords]
               /\ new["token"] = flight["token"]
BY DEF SiapInv

\* A flight of the tokens leaves those of the identities alone.
LEMMA TokenFlight ==
    ASSUME SiapInv, NEW g \in Generations, NEW fl
    PROVE  LET new == [flight EXCEPT !["token"][g] = fl]
           IN  /\ DOMAIN new = {"identity", "token"}
               /\ new["identity"] = flight["identity"]
               /\ new["token"] = [flight["token"] EXCEPT ![g] = fl]
BY DEF SiapInv

\* A call goes to a place where it holds no token.
LEMMA GoesOn ==
    ASSUME SiapInv, NEW c \in Calls, call[c].pc \in {"identity", "token", "identity flight"},
           NEW next,
           \/ next = [call[c] EXCEPT !.pc = "identity flight"]
           \/ next = [call[c] EXCEPT !.pc = "token flight"]
           \/ next = Identified(call[c])
    PROVE  CallOK(next, token, flight["token"], valid)
<1> DEFINE k == call[c]
<1>1. /\ CallOK(k, token, flight["token"], valid) /\ k \in CallRecords
      /\ k.ref \in Generations /\ k.token = 0
  BY DEF SiapInv, CallOK, Holding
<1>2. /\ next \in CallRecords
      /\ next.pc \in {"identity flight", "token flight", "token"}
      /\ next.token = k.token /\ next.rejected = k.rejected /\ next.ref = k.ref
      /\ next.retried = k.retried /\ next.method = k.method
  BY ZenonT(60), <1>1 DEF CallRecords, CallPlaces, Identified
<1> HIDE DEF k
<1> QED BY <1>1, <1>2, MovesOn DEF Holding, k

LEMMA NeedIdentityKeeps ==
    ASSUME SiapInv, NEW c \in Calls, NeedIdentity(c)
    PROVE  SiapInv'
<1> DEFINE g == call[c].ref
           fl == [NoFlight EXCEPT !.pc = "run", !.mail = call[c].mail,
                                  !.cookie = call[c].cookie]
<1>1. g \in Generations /\ call[c].pc = "identity" /\ fl \in FlightRecords
  BY DEF SiapInv, CallOK, NeedIdentity, NoFlight, FlightRecords, CallRecords
<1>2. CASE g \in identity /\ ~ Flying("identity", g)
  <2>1. CallOK(Identified(call[c]), token, flight["token"], valid)
    BY <1>1, GoesOn
  <2> QED BY <1>2, <2>1, OneCall DEF NeedIdentity
<1>3. CASE ~ (g \in identity /\ ~ Flying("identity", g))
  <2> DEFINE next == [call[c] EXCEPT !.pc = "identity flight"]
  <2>1. CallOK(next, token, flight["token"], valid)
    BY <1>1, GoesOn
  <2>2. call' = [call EXCEPT ![c] = next]
    BY <1>3 DEF NeedIdentity, CallGoes
  <2>3. /\ DOMAIN flight' = {"identity", "token"}
        /\ flight'["identity"] \in [Generations -> FlightRecords]
        /\ flight'["token"] = flight["token"]
    BY <1>1, <1>3, IdentityFlight DEF NeedIdentity, SiapInv
  <2>4. UNCHANGED <<session, token, valid>>
    BY DEF NeedIdentity
  <2> HIDE DEF next
  <2> QED BY <2>1, <2>2, <2>3, <2>4 DEF SiapInv
<1> QED BY <1>2, <1>3

LEMMA NeedTokenKeeps ==
    ASSUME SiapInv, NEW c \in Calls, NeedToken(c)
    PROVE  SiapInv'
<1> DEFINE g == call[c].ref
<1>1. /\ g \in Generations /\ call[c].pc = "token"
      /\ TokensOK(token, flight["token"], valid)
      /\ CallOK(call[c], token, flight["token"], valid)
  BY DEF SiapInv, CallOK, NeedToken
<1>2. CASE token[g] # 0 /\ ~ Flying("token", g)
  <2> DEFINE next == [call[c] EXCEPT !.pc = "fetch", !.token = token[g]]
  <2>1. CallOK(next, token, flight["token"], valid)
    BY <1>1, <1>2, TakesToken
  <2>2. call' = [call EXCEPT ![c] = next]
    BY <1>2 DEF NeedToken
  <2> QED BY <1>2, <2>1, <2>2, OneCall DEF NeedToken
<1>3. CASE ~ (token[g] # 0 /\ ~ Flying("token", g))
  <2> DEFINE next == [call[c] EXCEPT !.pc = "token flight"]
             fl == [flight["token"][g] EXCEPT !.pc = "run"]
  <2>1. CallOK(next, token, flight["token"], valid)
    BY <1>1, GoesOn
  <2>2. call' = [call EXCEPT ![c] = next] /\ UNCHANGED <<session, token, valid>>
    BY <1>3 DEF NeedToken, CallGoes
  <2>3. CASE Flying("token", g)
    BY <1>3, <2>1, <2>2, <2>3, OneCall DEF NeedToken
  <2>4. CASE ~ Flying("token", g)
    <3>1. flight["token"][g] \in FlightRecords /\ flight["token"][g].token = 0
      BY <1>1, <2>4 DEF TokensOK, Flying, FlightRecords
    <3>2. fl \in FlightRecords /\ fl.token = 0 /\ fl.pc # "minted"
      BY <3>1 DEF FlightRecords
    <3>3. flight' = [flight EXCEPT !["token"][g] = fl]
      BY <1>3, <2>4 DEF NeedToken
    <3> HIDE DEF fl, next
    <3>4. /\ DOMAIN flight' = {"identity", "token"}
          /\ flight'["identity"] = flight["identity"]
          /\ flight'["token"] = [flight["token"] EXCEPT ![g] = fl]
      BY <1>1, <3>3, TokenFlight
    <3>5. /\ TokensOK(token, flight'["token"], valid)
          /\ \A k : CallOK(k, token, flight["token"], valid)
                       => CallOK(k, token, flight'["token"], valid)
      BY <1>1, <3>2, <3>4, FlightWithout
    <3> QED BY <2>1, <2>2, <3>4, <3>5 DEF SiapInv
  <2> QED BY <2>3, <2>4
<1> QED BY <1>2, <1>3

LEMMA NoFlightIs == NoFlight \in FlightRecords /\ NoFlight.token = 0 /\ NoFlight.pc = "off"
BY DEF NoFlight, FlightRecords

LEMMA ResolveIdentityKeeps ==
    ASSUME SiapInv, NEW g \in Generations, ResolveIdentity(g)
    PROVE  SiapInv'
<1>1. UNCHANGED <<session, token, valid>>
  BY DEF ResolveIdentity
<1>2. flight' = [flight EXCEPT !["identity"][g] = NoFlight]
  BY DEF ResolveIdentity, Settle
<1>3. /\ DOMAIN flight' = {"identity", "token"}
      /\ flight'["identity"] \in [Generations -> FlightRecords]
      /\ flight'["token"] = flight["token"]
  BY <1>2, IdentityFlight, NoFlightIs
<1>4. ASSUME NEW c \in Calls, call[c].pc = "identity flight"
      PROVE  /\ CallOK(Identified(call[c]), token, flight["token"], valid)
             /\ CallOK(Unresolved(call[c], "stale"), token, flight["token"], valid)
  <2>1. valid \in Nat
    BY DEF SiapInv, TokensOK
  <2>2. CallOK(Identified(call[c]), token, flight["token"], valid)
    BY <1>4, GoesOn
  <2>3. Unresolved(call[c], "stale") = NoCall
    BY UnreadIsGivenUp DEF Unresolved
  <2> QED BY <2>1, <2>2, <2>3, NoCallIsOK
<1>5. /\ DOMAIN call' = Calls
      /\ \A c \in Calls : CallOK(call'[c], token, flight["token"], valid)
  <2>1. CASE Settle("identity", g, [c \in Calls |-> Identified(call[c])])
    BY <1>4, <2>1 DEF Settle, SiapInv
  <2>2. CASE Settle("identity", g, [c \in Calls |-> Unresolved(call[c], "stale")])
    BY <1>4, <2>2 DEF Settle, SiapInv
  <2> QED BY <2>1, <2>2 DEF ResolveIdentity
<1> QED BY <1>1, <1>3, <1>5 DEF SiapInv

LEMMA MintKeeps ==
    ASSUME SiapInv, NEW g \in Generations, Mint(g)
    PROVE  SiapInv'
<1> DEFINE fl == Minted(flight["token"][g], valid + 1)
<1>1. flight' = [flight EXCEPT !["token"][g] = fl]
  BY DEF Mint, Minted
<1>2. UNCHANGED <<session, token, call>> /\ valid' = valid + 1
  BY DEF Mint
<1>3. /\ DOMAIN flight' = {"identity", "token"}
      /\ flight'["identity"] = flight["identity"]
      /\ flight'["token"] = [flight["token"] EXCEPT ![g] = fl]
  BY <1>1, TokenFlight
<1>4. /\ TokensOK(token, flight'["token"], valid + 1)
      /\ \A k : CallOK(k, token, flight["token"], valid)
                   => CallOK(k, token, flight'["token"], valid + 1)
  <2> DEFINE minting == flight["token"]
             new == [minting EXCEPT ![g] = Minted(minting[g], valid + 1)]
  <2>1. TokensOK(token, minting, valid)
    BY DEF SiapInv
  <2>2. flight'["token"] = new
    BY <1>3
  <2> HIDE DEF minting, new
  <2>3. new = [minting EXCEPT ![g] = Minted(minting[g], valid + 1)]
    BY DEF new
  <2>4. /\ TokensOK(token, new, valid + 1)
        /\ \A k : CallOK(k, token, minting, valid)
                     => CallOK(k, token, new, valid + 1)
    BY <2>1, <2>3, FlightMints
  <2> QED BY <2>2, <2>4 DEF minting
<1> QED BY <1>2, <1>3, <1>4 DEF SiapInv

LEMMA TokenMintedKeeps ==
    ASSUME SiapInv, NEW g \in Generations, TokenMinted(g)
    PROVE  SiapInv'
<1> DEFINE t == flight["token"][g].token
<1>1. /\ UNCHANGED <<session, valid>>
      /\ token' = [token EXCEPT ![g] = t]
      /\ flight' = [flight EXCEPT !["token"][g] = NoFlight]
      /\ flight["token"][g].pc = "minted"
  BY DEF TokenMinted, Settle
<1>2. /\ DOMAIN flight' = {"identity", "token"}
      /\ flight'["identity"] = flight["identity"]
      /\ flight'["token"] = [flight["token"] EXCEPT ![g] = NoFlight]
  BY <1>1, TokenFlight
<1>3. /\ TokensOK(token', flight'["token"], valid)
      /\ token'[g] # 0
      /\ \A k : CallOK(k, token, flight["token"], valid)
                   => CallOK(k, token', flight'["token"], valid)
  <2>1. TokensOK(token, flight["token"], valid)
    BY DEF SiapInv
  <2> DEFINE minting == flight["token"]
             newCached == [token EXCEPT ![g] = t]
             newMinting == [minting EXCEPT ![g] = NoFlight]
  <2>2. token' = newCached /\ flight'["token"] = newMinting
    BY <1>1, <1>2
  <2>3. TokensOK(token, minting, valid) /\ minting[g].pc = "minted"
    BY <1>1, <2>1
  <2> HIDE DEF minting, newCached, newMinting, t
  <2>4. /\ t = minting[g].token
        /\ newCached = [token EXCEPT ![g] = t]
        /\ newMinting = [minting EXCEPT ![g] = NoFlight]
    BY DEF newCached, newMinting, minting, t
  <2>5. /\ TokensOK(newCached, newMinting, valid)
        /\ newCached[g] # 0
        /\ \A k : CallOK(k, token, minting, valid)
                     => CallOK(k, newCached, newMinting, valid)
    BY <2>3, <2>4, FlightLands
  <2> QED BY <2>2, <2>5 DEF minting
<1>4. token'[g] = t
  BY <1>1 DEF SiapInv, TokensOK
<1>5. \A c \in Calls : CallOK(call[c], token', flight'["token"], valid)
  BY <1>3 DEF SiapInv
<1>6. ASSUME NEW c \in Calls, call[c].pc = "token flight", call[c].ref = g
      PROVE  CallOK([call[c] EXCEPT !.pc = "fetch", !.token = t],
                    token', flight'["token"], valid)
  BY <1>3, <1>4, <1>5, <1>6, TakesToken
<1>7. call' = [c \in Calls |->
                 IF call[c].pc = "token flight" /\ call[c].ref = g
                 THEN [call[c] EXCEPT !.pc = "fetch", !.token = t]
                 ELSE call[c]]
  BY DEF TokenMinted, Settle
<1>8. /\ DOMAIN call' = Calls
      /\ \A c \in Calls : CallOK(call'[c], token', flight'["token"], valid)
  BY <1>5, <1>6, <1>7
<1> QED BY <1>1, <1>2, <1>3, <1>8 DEF SiapInv

LEMMA MintFailsKeeps ==
    ASSUME SiapInv, NEW g \in Generations, MintFails(g)
    PROVE  SiapInv'
<1>1. UNCHANGED <<session, token, valid>>
  BY DEF MintFails
<1>2. PICK error \in {"credential", "endpoint"} :
         Settle("token", g, [c \in Calls |-> Unresolved(call[c], error)])
  BY DEF MintFails
<1>3. /\ DOMAIN flight' = {"identity", "token"}
      /\ flight'["identity"] = flight["identity"]
      /\ flight'["token"] = [flight["token"] EXCEPT ![g] = NoFlight]
  BY <1>2, TokenFlight DEF Settle
<1>4. /\ TokensOK(token, flight'["token"], valid)
      /\ \A k : CallOK(k, token, flight["token"], valid)
                   => CallOK(k, token, flight'["token"], valid)
  BY <1>3, NoFlightIs, FlightWithout DEF SiapInv
<1>5. ASSUME NEW c \in Calls, call[c].pc = "token flight"
      PROVE  CallOK(Unresolved(call[c], error), token, flight["token"], valid)
  BY <1>5, CaughtIsOK DEF SiapInv, TokensOK, Unresolved
<1>6. /\ DOMAIN call' = Calls
      /\ \A c \in Calls : CallOK(call'[c], token, flight["token"], valid)
  BY <1>2, <1>5 DEF Settle, SiapInv
<1> QED BY <1>1, <1>3, <1>4, <1>6 DEF SiapInv

LEMMA RequestKeeps ==
    ASSUME SiapInv, NEW c \in Calls, Request(c) \/ Reject(c) \/ Rejected(c)
    PROVE  SiapInv'
<1> DEFINE k == call[c]
<1>1. /\ CallOK(k, token, flight["token"], valid) /\ k \in CallRecords
      /\ valid \in Nat
  BY DEF SiapInv, CallOK, TokensOK
<1>2. CASE Request(c)
  <2>1. CASE call' = [call EXCEPT ![c] = NoCall]
    BY <1>1, <1>2, <2>1, NoCallIsOK, OneCall DEF Request
  <2>2. CASE k.left > 1 /\ call' = [call EXCEPT ![c].left = @ - 1]
    <3> DEFINE next == [k EXCEPT !.left = @ - 1]
    <3>1. /\ next \in CallRecords /\ next.pc = k.pc
          /\ next.token = k.token /\ next.rejected = k.rejected
          /\ next.ref = k.ref /\ next.retried = k.retried
          /\ next.method = k.method
      BY <1>1, <2>2 DEF CallRecords
    <3>2. CallOK(next, token, flight["token"], valid)
      <4> HIDE DEF next
      <4> QED BY <1>1, <3>1 DEF CallOK
    <3>3. call' = [call EXCEPT ![c] = next]
      BY <2>2
    <3> QED BY <1>2, <3>2, <3>3, OneCall DEF Request
  <2> QED BY <1>2, <2>1, <2>2 DEF Request
<1>3. CASE Reject(c)
  <2> DEFINE next == [k EXCEPT !.pc = "rejected"]
  <2>1. /\ next \in CallRecords /\ next.pc = "rejected" /\ k.pc = "fetch"
        /\ next.token = k.token /\ next.rejected = k.rejected
        /\ next.ref = k.ref /\ next.retried = k.retried
        /\ next.method = k.method
    BY <1>1, <1>3 DEF CallRecords, CallPlaces, Reject
  <2>2. CallOK(next, token, flight["token"], valid)
    <3> HIDE DEF next, k
    <3>1. k.ref \in Generations
      BY <1>1, <2>1 DEF CallOK
    <3> QED BY <1>1, <2>1, <3>1, MovesOn DEF Holding
  <2>3. call' = [call EXCEPT ![c] = next]
    BY <1>3 DEF Reject, CallGoes
  <2> QED BY <1>3, <2>2, <2>3, OneCall DEF Reject
<1>4. CASE Rejected(c)
  BY <1>1, <1>4, CaughtIsOK, OneCall DEF Rejected
<1> QED BY <1>2, <1>3, <1>4

LEMMA DeleteKeeps ==
    ASSUME SiapInv, NEW c \in Calls, Delete(c)
    PROVE  SiapInv'
<1> DEFINE k == call[c]
           g == k.ref
           next == [k EXCEPT !.pc = "session",
                             !.ref = IF Of(c).current THEN 0 ELSE @]
<1>1. /\ CallOK(k, token, flight["token"], valid) /\ k \in CallRecords
      /\ g \in Generations /\ k.pc = "delete" /\ k.token = 0
      /\ k.method \in SiapMethods
  BY DEF SiapInv, CallOK, Delete, Holding, CallRecords
<1>2. /\ token' = [token EXCEPT ![g] = 0]
      /\ call' = [call EXCEPT ![c] = next]
      /\ UNCHANGED <<session, flight, valid>>
  BY <1>1, FirstGeneration DEF Delete
<1>3. /\ TokensOK(token', flight["token"], valid)
      /\ \A x : CallOK(x, token, flight["token"], valid)
                   => CallOK(x, token', flight["token"], valid)
  <2>1. TokensOK(token, flight["token"], valid)
    BY DEF SiapInv
  <2> DEFINE minting == flight["token"]
             new == [token EXCEPT ![g] = 0]
  <2>2. token' = new /\ g \in Generations
    BY <1>1, <1>2
  <2> HIDE DEF minting, new, k, g, next
  <2>3. new = [token EXCEPT ![g] = 0]
    BY DEF new
  <2>4. TokensOK(token, minting, valid)
    BY <2>1 DEF minting
  <2>5. /\ TokensOK(new, minting, valid)
        /\ \A x : CallOK(x, token, minting, valid)
                     => CallOK(x, new, minting, valid)
    BY <2>2, <2>3, <2>4, CacheForgets
  <2> QED BY <2>2, <2>5 DEF minting
<1>4. /\ next \in CallRecords /\ next.pc = "session"
      /\ next.token = 0 /\ next.rejected = k.rejected
      /\ next.retried = k.retried /\ next.method = k.method
  BY <1>1, MethodsAre DEF CallRecords, CallPlaces, Of, MethodOK
<1>5. token'[g] = 0 /\ \A h \in Generations : h # g => token'[h] = token[h]
  BY <1>1, <1>2 DEF SiapInv, TokensOK
<1> HIDE DEF next
<1>6. Gone(next.rejected, token', flight["token"], {})
  BY <1>1, <1>4, <1>5 DEF CallOK, Gone
<1>7. CallOK(next, token', flight["token"], valid)
  BY <1>1, <1>4, <1>6 DEF CallOK, Gone, Holding
<1> QED BY <1>2, <1>3, <1>7 DEF SiapInv

\* The invariant of the SIAP client: a token still to be had is in one place,
\* and a call whose token was rejected has deleted that place.
THEOREM SiapInvariant == SiapSpec => []SiapInv
<1>1. SiapInit => SiapInv
  <2> SUFFICES ASSUME SiapInit PROVE SiapInv
    OBVIOUS
  <2>1. TokensOK(token, flight["token"], valid)
    BY NoFlightIs DEF SiapInit, TokensOK
  <2>2. \A c \in Calls : CallOK(call[c], token, flight["token"], valid)
    BY NoCallIsOK DEF SiapInit
  <2> QED BY <2>1, <2>2, NoFlightIs, FirstGeneration DEF SiapInit, SiapInv
<1>2. SiapInv /\ [SiapNext]_siapVars => SiapInv'
  <2> SUFFICES ASSUME SiapInv, [SiapNext]_siapVars PROVE SiapInv'
    OBVIOUS
  <2>1. ASSUME NEW c \in Calls, BeginCall(c) PROVE SiapInv'
    BY <2>1, BeginCallKeeps
  <2>2. ASSUME NEW c \in Calls, CallStep(c) PROVE SiapInv'
    BY <2>2, CurrentRefKeeps, ReadSessionKeeps, NeedIdentityKeeps,
       NeedTokenKeeps, RequestKeeps, DeleteKeeps DEF CallStep
  <2>3. ASSUME NEW g \in Generations, ResolutionStep(g) PROVE SiapInv'
    BY <2>3, ResolveIdentityKeeps, MintKeeps, TokenMintedKeeps, MintFailsKeeps
       DEF ResolutionStep
  <2>4. ASSUME NEW g \in Generations, Expire(g) PROVE SiapInv'
    <3>1. /\ TokensOK(token', flight["token"], valid)
          /\ \A k : CallOK(k, token, flight["token"], valid)
                       => CallOK(k, token', flight["token"], valid)
      BY <2>4, CacheForgets DEF SiapInv, Expire
    <3> QED BY <2>4, <3>1 DEF Expire, SiapInv
  <2>5. CASE OtherAppMints
    <3>1. /\ TokensOK(token, flight["token"], valid + 1)
          /\ \A k : CallOK(k, token, flight["token"], valid)
                       => CallOK(k, token, flight["token"], valid + 1)
      BY AnotherMint DEF SiapInv
    <3> QED BY <2>5, <3>1 DEF OtherAppMints, SiapInv
  <2>6. CASE LoginAgain
    <3>1. session'.gen \in Generations
      BY <2>6, SiapBounds DEF LoginAgain, SiapInv, Generations
    <3>2. session' \in [gen : Generations, cookie : BOOLEAN, mail : BOOLEAN]
      BY <2>6, <3>1 DEF LoginAgain
    <3> QED BY <2>6, <3>2 DEF LoginAgain, SiapInv
  <2>7. CASE UNCHANGED siapVars
    BY <2>7 DEF siapVars, SiapInv
  <2> QED BY <2>1, <2>2, <2>3, <2>4, <2>5, <2>6, <2>7 DEF SiapNext
<1> QED BY <1>1, <1>2, PTL DEF SiapSpec

\* A call never sends the token SIAP has just rejected again: not the kept
\* one, nor one a flight it joins still brings (siap-upstream.session.ts).
THEOREM RetriesAreFresh == SiapSpec => []RetrySendsFreshToken
<1>1. SiapInv => RetrySendsFreshToken
  <2> SUFFICES ASSUME SiapInv, NEW c \in Calls, call[c].retried,
                      call[c].pc \in Holding
               PROVE  call[c].token # call[c].rejected
    BY DEF RetrySendsFreshToken, Holding
  <2>1. CallOK(call[c], token, flight["token"], valid)
    BY DEF SiapInv
  <2>2. call[c].method \in SiapMethods /\ call[c].method.retries
    BY <2>1 DEF CallOK, CallRecords
  <2>3. call[c].token # 0
    BY <2>1, <2>2, MethodsAre DEF CallOK, MethodOK
  <2> QED BY <2>1, <2>3 DEF CallOK
<1> QED BY <1>1, SiapInvariant, PTL

-----------------------------------------------------------------------------
(***************************************************************************)
(* Flights, sesskeys and payloads are shared between requests; what is     *)
(* proved here is that sharing never crosses a login, for any number of    *)
(* callers, logins and renewals.                                           *)
(*                                                                         *)
(* The argument goes by the key of a flight: whatever joins, waits for or  *)
(* starts a flight of a scope, the flight's cookie, what it ends with and  *)
(* what the cache holds for its scope belong to the login of that scope.   *)
(* The cookie itself may be one the caller never had.  A payload that ends *)
(* a flight, or is stored, covers every course but those of which Kulon    *)
(* refused a page; a list of courses covers them all.                      *)
(***************************************************************************)

Processes == Callers \cup FlightKeys

Places == {"off", "await", "got", "context", "sesskey", "cache", "page", "load", "pages"}

ProcStates ==
    [pc : Places, on : FlightKeys \cup {<<>>}, cookie : Cookies \cup {NoCookie},
     sesskey : Cookies \cup {NoCookie}, rows : SUBSET CourseIds,
     refused : SUBSET CourseIds, got : Payloads]

\* The cookie belongs to the login of the scope, if the scope is a login's.
InScope(scope, cookie) == scope # Current => cookie[1] = scope

\* The payload is of the scope's login, and covers every course that was not refused;
\* only the aggregate's pages are.
Whole(method, scope, payload) ==
    /\ InScope(scope, payload.cookie)
    /\ payload.rows \cup payload.refused = CourseIds
    /\ method # "all" => payload.refused = {}

\* What a flight waits for, once it has its sesskey, is a payload of this method.
Needs(key) ==
    IF key[1] = "run" THEN key[2]
    ELSE IF key[1] = "refresh" /\ key[2] = "all" THEN "list" ELSE "timeline"

\* A payload a flight may end with.
Fits(key, payload) ==
    payload.ok =>
        /\ key[1] = "sesskey" => payload.cookie = key[3]
        /\ key[1] # "sesskey" => Whole(key[2], key[3], payload)

\* Where a flight of a kind may be.
PlaceOf(key, pc) ==
    /\ key[1] = "run" => pc \in {"off", "context", "sesskey", "cache", "await", "got"}
    /\ key[1] = "refresh" => pc \in {"off", "load", "await", "got", "pages"}
    /\ key[1] = "timeline" => pc \in {"off", "load"}
    /\ key[1] = "sesskey" => pc \in {"off", "page"}

\* What a flight works with: its own cookie, and the sesskey read with it.
Equipped(key, x) ==
    /\ x.sesskey # NoCookie => x.sesskey = x.cookie
    /\ key[1] = "sesskey" => x.cookie = key[3]
    /\ key[1] # "sesskey" => InScope(key[3], x.cookie)
    /\ key[1] \in {"refresh", "timeline"} => x.sesskey # NoCookie
    /\ key[1] = "run" =>
          /\ x.pc \in {"context", "sesskey"} => x.sesskey = NoCookie
          /\ x.pc = "cache" => x.sesskey # NoCookie
          /\ x.pc # "context" => x.cookie \in Cookies

\* A method's flight first awaits the sesskey of its cookie; all else that is
\* awaited is of the same scope.
AwaitsSesskey(key, x) == key[1] = "run" /\ x.sesskey = NoCookie

FlightOK(key, x) ==
    /\ PlaceOf(key, x.pc)
    /\ x.pc # "off" => Equipped(key, x)
    /\ x.pc = "off" => x.sesskey = NoCookie
    /\ x.pc # "await" => x.on = <<>>
    /\ x.pc = "await" =>
          IF AwaitsSesskey(key, x)
          THEN x.on = <<"sesskey", "sesskey", x.cookie>>
          ELSE x.on[1] # "sesskey" /\ x.on[2] = Needs(key) /\ x.on[3] = key[3]
    /\ x.pc \in {"got", "pages"} /\ x.got.ok =>
          IF AwaitsSesskey(key, x)
          THEN x.got.cookie = x.cookie
          ELSE Whole(Needs(key), key[3], x.got)
    /\ x.pc = "pages" => x.got.ok /\ key[2] = "all"

CallerOK(x) ==
    /\ x.pc # "await" => x.on = <<>>
    /\ x.cookie # NoCookie =>
          /\ x.pc = "await" => x.on[1] = "run" /\ x.on[3] = x.cookie[1]
          /\ x.pc = "got" /\ x.got.ok => x.got.cookie[1] = x.cookie[1]

ProcessOK(p, x) ==
    /\ p \in FlightKeys => FlightOK(p, x)
    /\ p \in Callers => CallerOK(x)

ProcOK(pr) ==
    /\ pr \in [Processes -> ProcStates]
    /\ \A p \in Processes : ProcessOK(p, pr[p])

Entries == [age : {"none", "fresh", "stale"}, value : Payloads]

CacheOK(entries) ==
    /\ entries \in [Methods \X Scopes -> Entries]
    /\ \A k \in Methods \X Scopes :
          /\ entries[k].age # "none" => entries[k].value.ok
          /\ entries[k].value.ok => Whole(k[1], k[2], entries[k].value)

SesskeysOK(keys) ==
    /\ keys \in [Cookies -> Cookies \cup {NoCookie}]
    /\ \A k \in Cookies : keys[k] \in {NoCookie, k}

KulonInv ==
    /\ live \in Cookies \cup {NoCookie}
    /\ logins \in 1..MaxLogins
    /\ SesskeysOK(sesskeys)
    /\ CacheOK(cached)
    /\ ProcOK(proc)

-----------------------------------------------------------------------------
(* Keys, payloads and the empty process                                      *)

LEMMA KeyTypes ==
    ASSUME NEW key \in FlightKeys
    PROVE  /\ key = <<key[1], key[2], key[3]>>
           /\ key # <<>>
           /\ key[1] \in {"run", "refresh", "timeline", "sesskey"}
           /\ key[1] \in {"run", "refresh"} => key[2] \in Methods
           /\ key[1] # "sesskey" => key[3] \in Scopes
           /\ key[1] = "sesskey" => key[3] \in Cookies
BY DEF FlightKeys

LEMMA RunKeys ==
    ASSUME NEW method \in Methods, NEW scope \in Scopes
    PROVE  /\ <<"run", method, scope>> \in FlightKeys
           /\ <<"refresh", method, scope>> \in FlightKeys
           /\ <<"timeline", "timeline", scope>> \in FlightKeys
           /\ <<method, scope>> \in Methods \X Scopes
BY DEF FlightKeys

LEMMA SesskeyKeys ==
    ASSUME NEW cookie \in Cookies
    PROVE  <<"sesskey", "sesskey", cookie>> \in FlightKeys
BY DEF FlightKeys

LEMMA CookieTypes ==
    ASSUME NEW cookie \in Cookies
    PROVE  /\ cookie # NoCookie
           /\ cookie[1] \in Scopes /\ cookie[1] # Current
           /\ cookie[2] \in 0..MaxRenewals
           /\ cookie = <<cookie[1], cookie[2]>>
BY KulonBounds DEF Cookies, NoCookie, Scopes, Current

LEMMA FailureType == Failure \in Payloads /\ ~ Failure.ok
BY DEF Failure, Payloads

LEMMA PayloadType ==
    ASSUME NEW cookie \in Cookies, NEW rows \in SUBSET CourseIds,
           NEW refused \in SUBSET CourseIds
    PROVE  /\ Payload(cookie, rows, refused) \in Payloads
           /\ Payload(cookie, rows, refused).ok
           /\ Payload(cookie, rows, refused).cookie = cookie
           /\ Payload(cookie, rows, refused).rows = rows
           /\ Payload(cookie, rows, refused).refused = refused
BY DEF Payload, Payloads

LEMMA RowsType ==
    ASSUME NEW payload \in Payloads
    PROVE  payload.rows \in SUBSET CourseIds /\ payload.refused \in SUBSET CourseIds
<1>1. CASE payload = Failure
  BY <1>1 DEF Failure
<1>2. CASE payload \in [ok : {TRUE}, cookie : Cookies, rows : SUBSET CourseIds,
                        refused : SUBSET CourseIds]
  BY <1>2
<1> QED
  BY <1>1, <1>2 DEF Payloads

LEMMA FreeType ==
    /\ Free \in ProcStates
    /\ Free.pc = "off" /\ Free.on = <<>>
    /\ Free.cookie = NoCookie /\ Free.sesskey = NoCookie
BY FailureType DEF Free, ProcStates, Places

LEMMA FreeOK == \A p \in Processes : ProcessOK(p, Free)
BY FreeType DEF ProcessOK, FlightOK, CallerOK, PlaceOf

-----------------------------------------------------------------------------
(* What the operations on the processes preserve                             *)

LEMMA MoveOK ==
    ASSUME NEW pr, ProcOK(pr), NEW p \in Processes, NEW x \in ProcStates, ProcessOK(p, x)
    PROVE  ProcOK([pr EXCEPT ![p] = x])
BY DEF ProcOK

\* The state a flight starts in.
StartState(pr, p, pc) ==
    [Free EXCEPT !.pc = pc, !.cookie = pr[p].cookie, !.sesskey = pr[p].sesskey]

AwaitState(pr, p, key) == [pr[p] EXCEPT !.pc = "await", !.on = key]

LEMMA StartType ==
    ASSUME NEW pr, ProcOK(pr), NEW p \in Processes, NEW pc \in Places
    PROVE  /\ StartState(pr, p, pc) \in ProcStates
           /\ StartState(pr, p, pc).pc = pc
           /\ StartState(pr, p, pc).on = <<>>
           /\ StartState(pr, p, pc).cookie = pr[p].cookie
           /\ StartState(pr, p, pc).sesskey = pr[p].sesskey
BY FreeType DEF StartState, ProcOK, ProcStates

LEMMA AwaitType ==
    ASSUME NEW pr, ProcOK(pr), NEW p \in Processes, NEW key \in FlightKeys
    PROVE  /\ AwaitState(pr, p, key) \in ProcStates
           /\ AwaitState(pr, p, key).pc = "await"
           /\ AwaitState(pr, p, key).on = key
           /\ AwaitState(pr, p, key).cookie = pr[p].cookie
           /\ AwaitState(pr, p, key).sesskey = pr[p].sesskey
BY DEF AwaitState, ProcOK, ProcStates, Places

LEMMA JoinedOK ==
    ASSUME NEW pr, ProcOK(pr), NEW p \in Processes, NEW key \in FlightKeys, p # key,
           NEW pc \in Places,
           ProcessOK(key, StartState(pr, p, pc)), ProcessOK(p, AwaitState(pr, p, key))
    PROVE  ProcOK(Joined(pr, p, key, pc))
<1> DEFINE first == [pr EXCEPT ![key] = IF pr[key].pc = "off"
                                        THEN StartState(pr, p, pc) ELSE pr[key]]
<1>1. key \in Processes
  BY DEF Processes
<1>2. ProcOK(first)
  BY <1>1, StartType, MoveOK DEF ProcOK
<1>3. Joined(pr, p, key, pc) = [first EXCEPT ![p] = AwaitState(pr, p, key)]
  BY <1>1 DEF Joined, StartState, AwaitState, ProcOK
<1> HIDE DEF first
<1>4. AwaitState(pr, p, key) \in ProcStates
  BY AwaitType
<1>5. ProcOK([first EXCEPT ![p] = AwaitState(pr, p, key)])
  BY <1>2, <1>4, MoveOK
<1> QED
  BY <1>3, <1>5

LEMMA StartedOK ==
    ASSUME NEW pr, ProcOK(pr), NEW p \in Processes, NEW key \in FlightKeys,
           NEW pc \in Places, ProcessOK(key, StartState(pr, p, pc))
    PROVE  ProcOK(Started(pr, p, key, pc))
<1>1. key \in Processes
  BY DEF Processes
<1>2. ProcOK([pr EXCEPT ![key] = StartState(pr, p, pc)])
  BY <1>1, StartType, MoveOK
<1> QED
  BY <1>2 DEF Started, StartState

\* Whoever waits for a flight may take what the flight may end with.
LEMMA SettledOK ==
    ASSUME NEW pr, ProcOK(pr), NEW key \in FlightKeys, NEW outcome \in Payloads,
           Fits(key, outcome)
    PROVE  ProcOK(Settled(pr, key, outcome))
<1> DEFINE got(p) == [pr[p] EXCEPT !.pc = "got", !.on = <<>>, !.got = outcome]
<1>1. DOMAIN pr = Processes /\ \A p \in Processes : pr[p] \in ProcStates /\ ProcessOK(p, pr[p])
  BY DEF ProcOK
<1>2. ASSUME NEW p \in Processes, pr[p].on = key
      PROVE  got(p) \in ProcStates /\ ProcessOK(p, got(p))
  <2>1. /\ got(p) \in ProcStates
        /\ got(p).pc = "got" /\ got(p).on = <<>> /\ got(p).got = outcome
        /\ got(p).cookie = pr[p].cookie /\ got(p).sesskey = pr[p].sesskey
    BY <1>1 DEF ProcStates, Places
  <2> HIDE DEF got
  <2>2. ASSUME p \in FlightKeys PROVE FlightOK(p, got(p))
    <3>1. pr[p].pc = "await" /\ FlightOK(p, pr[p])
      BY <1>1, <1>2, <2>2, KeyTypes DEF ProcessOK, FlightOK
    <3>2. PlaceOf(p, "got")
      BY <2>2, <3>1, KeyTypes DEF FlightOK, PlaceOf
    <3>3. Equipped(p, got(p))
      BY <2>1, <3>1 DEF FlightOK, Equipped
    <3>4. AwaitsSesskey(p, got(p)) <=> AwaitsSesskey(p, pr[p])
      BY <2>1 DEF AwaitsSesskey
    <3>5. CASE AwaitsSesskey(p, pr[p])
      <4>1. key[1] = "sesskey" /\ key[3] = pr[p].cookie
        BY <1>2, <3>1, <3>5 DEF FlightOK
      <4> QED
        BY <2>1, <3>2, <3>3, <3>4, <3>5, <4>1 DEF FlightOK, Fits
    <3>6. CASE ~ AwaitsSesskey(p, pr[p])
      <4>1. key[1] # "sesskey" /\ key[2] = Needs(p) /\ key[3] = p[3]
        BY <1>2, <3>1, <3>6 DEF FlightOK
      <4> QED
        BY <2>1, <3>2, <3>3, <3>4, <3>6, <4>1 DEF FlightOK, Fits
    <3> QED
      BY <3>5, <3>6
  <2>3. ASSUME p \in Callers PROVE CallerOK(got(p))
    <3>1. pr[p].pc = "await" /\ CallerOK(pr[p])
      BY <1>1, <1>2, <2>3, KeyTypes DEF ProcessOK, CallerOK
    <3>2. ASSUME pr[p].cookie # NoCookie, outcome.ok
          PROVE  outcome.cookie[1] = pr[p].cookie[1]
      <4>1. pr[p].cookie \in Cookies
        BY <1>1, <3>2 DEF ProcStates
      <4>2. key[1] = "run" /\ key[3] = pr[p].cookie[1] /\ key[3] # Current
        BY <1>2, <3>1, <3>2, <4>1, CookieTypes DEF CallerOK
      <4> QED
        BY <3>2, <4>2 DEF Fits, Whole, InScope
    <3> QED
      BY <2>1, <3>2 DEF CallerOK
  <2> QED
    BY <2>1, <2>2, <2>3 DEF ProcessOK
<1>3. \A p \in Processes :
        Settled(pr, key, outcome)[p] = IF p = key THEN Free
                                       ELSE IF pr[p].on = key THEN got(p) ELSE pr[p]
  BY <1>1 DEF Settled
<1>4. /\ DOMAIN Settled(pr, key, outcome) = Processes
      /\ Settled(pr, key, outcome) = [p \in Processes |-> Settled(pr, key, outcome)[p]]
  BY <1>1 DEF Settled
<1> HIDE DEF got
<1>5. \A p \in Processes : /\ Settled(pr, key, outcome)[p] \in ProcStates
                           /\ ProcessOK(p, Settled(pr, key, outcome)[p])
  BY <1>1, <1>2, <1>3, FreeType, FreeOK
<1> QED
  BY <1>4, <1>5 DEF ProcOK

LEMMA FailedOK ==
    ASSUME NEW pr, ProcOK(pr), NEW key \in FlightKeys
    PROVE  ProcOK(Settled(pr, key, Failure))
BY SettledOK, FailureType DEF Fits

-----------------------------------------------------------------------------
(* Initially, and a few facts of the invariant                               *)

LEMMA KulonInitially == KulonInit => KulonInv
<1> SUFFICES ASSUME KulonInit PROVE KulonInv
  OBVIOUS
<1>1. <<1, 0>> \in Cookies /\ 1 \in 1..MaxLogins
  BY KulonBounds DEF Cookies
<1>2. NoEntry \in Entries /\ NoEntry.age = "none" /\ ~ NoEntry.value.ok
  BY FailureType DEF NoEntry, Entries
<1>3. CacheOK(cached)
  BY <1>2 DEF KulonInit, CacheOK
<1>4. ProcOK(proc)
  BY FreeType, FreeOK DEF KulonInit, ProcOK, Processes
<1> QED
  BY <1>1, <1>3, <1>4 DEF KulonInit, KulonInv, SesskeysOK

\* A flight that is at a place is of a kind that goes there.
LEMMA FlightTypes ==
    ASSUME KulonInv, NEW key \in FlightKeys
    PROVE  /\ key \in Processes /\ key \notin Callers
           /\ proc[key] \in ProcStates
           /\ FlightOK(key, proc[key])
           /\ key[1] \in {"run", "refresh", "timeline", "sesskey"}
           /\ PlaceOf(key, proc[key].pc)
BY KeyTypes, CallersAreNoFlights DEF KulonInv, ProcOK, ProcessOK, Processes, FlightOK

LEMMA CallerTypes ==
    ASSUME KulonInv, NEW c \in Callers
    PROVE  c \in Processes /\ c \notin FlightKeys
BY CallersAreNoFlights DEF Processes

-----------------------------------------------------------------------------
(* The steps of callers                                                      *)

\* A caller joins the flight of its own scope.
LEMMA JoinRun ==
    ASSUME KulonInv, NEW c \in Callers, NEW method \in Methods, NEW scope \in Scopes,
           NEW cookie \in Cookies \cup {NoCookie},
           cookie # NoCookie => cookie \in Cookies /\ scope = cookie[1],
           cookie = NoCookie => scope = Current,
           proc' = Joined([proc EXCEPT ![c] = [Free EXCEPT !.cookie = cookie]], c,
                          <<"run", method, scope>>, "context"),
           UNCHANGED <<live, logins, sesskeys, cached>>
    PROVE  KulonInv'
<1> DEFINE key == <<"run", method, scope>>
           x == [Free EXCEPT !.cookie = cookie]
           pr == [proc EXCEPT ![c] = x]
<1>1. /\ key \in FlightKeys /\ c \in Processes /\ c \notin FlightKeys
      /\ key \notin Callers /\ c # key
  BY RunKeys, CallerTypes, CallersAreNoFlights
<1>2. /\ x \in ProcStates /\ x.pc = "off" /\ x.on = <<>>
      /\ x.cookie = cookie /\ x.sesskey = NoCookie
  BY FreeType DEF ProcStates
<1>3. ProcessOK(c, x)
  BY <1>1, <1>2 DEF ProcessOK, CallerOK
<1> HIDE DEF x
<1>4. ProcOK(pr) /\ pr[c] = x
  BY <1>1, <1>2, <1>3, MoveOK DEF KulonInv, ProcOK
<1> HIDE DEF pr
<1>5. ProcessOK(key, StartState(pr, c, "context"))
  <2>1. /\ StartState(pr, c, "context").pc = "context"
        /\ StartState(pr, c, "context").on = <<>>
        /\ StartState(pr, c, "context").cookie = cookie
        /\ StartState(pr, c, "context").sesskey = NoCookie
    BY <1>1, <1>2, <1>4, StartType DEF Places
  <2>2. InScope(scope, cookie)
    BY DEF InScope
  <2>3. FlightOK(key, StartState(pr, c, "context"))
    BY <2>1, <2>2 DEF FlightOK, PlaceOf, Equipped
  <2> QED
    BY <1>1, <2>3 DEF ProcessOK
<1>6. ProcessOK(c, AwaitState(pr, c, key))
  <2>1. /\ AwaitState(pr, c, key).pc = "await"
        /\ AwaitState(pr, c, key).on = key
        /\ AwaitState(pr, c, key).cookie = cookie
    BY <1>1, <1>2, <1>4, AwaitType
  <2> QED
    BY <1>1, <2>1 DEF ProcessOK, CallerOK
<1>7. "context" \in Places
  BY DEF Places
<1>8. ProcOK(Joined(pr, c, key, "context"))
  BY <1>1, <1>4, <1>5, <1>6, <1>7, JoinedOK
<1>9. ProcOK(proc')
  BY <1>8 DEF pr, x
<1> QED
  BY <1>9 DEF KulonInv

LEMMA CallKeeps ==
    ASSUME KulonInv, NEW c \in Callers,
           (\E method \in Methods : CallMethod(c, method)) \/ Poll(c)
    PROVE  KulonInv'
<1>1. ASSUME NEW method \in Methods, CallMethod(c, method)
      PROVE  KulonInv'
  <2>1. live \in Cookies /\ live # NoCookie /\ live[1] \in Scopes
    BY <1>1, CookieTypes DEF CallMethod, KulonInv
  <2>2. /\ proc' = Joined([proc EXCEPT ![c] = [Free EXCEPT !.cookie = live]], c,
                          <<"run", method, live[1]>>, "context")
        /\ UNCHANGED <<live, logins, sesskeys, cached>>
    BY <1>1 DEF CallMethod, ScopeOf
  <2> QED
    BY <2>1, <2>2, JoinRun
<1>2. ASSUME Poll(c)
      PROVE  KulonInv'
  <2>1. [Free EXCEPT !.cookie = NoCookie] = Free
    BY FreeType DEF ProcStates
  <2>2. /\ proc' = Joined([proc EXCEPT ![c] = [Free EXCEPT !.cookie = NoCookie]], c,
                          <<"run", "all", Current>>, "context")
        /\ "all" \in Methods
        /\ UNCHANGED <<live, logins, sesskeys, cached>>
    BY <1>2, <2>1 DEF Poll
  <2>3. Current \in Scopes /\ NoCookie \in Cookies \cup {NoCookie}
    BY KulonBounds DEF Current, Scopes
  <2>4. NoCookie \notin Cookies
    BY CookieTypes
  <2> QED
    BY <2>2, <2>3, <2>4, JoinRun
<1> QED
  BY <1>1, <1>2

-----------------------------------------------------------------------------
(* The steps of flights                                                      *)

\* A step that moves processes only.
LEMMA ProcStep ==
    ASSUME KulonInv, ProcOK(proc'), UNCHANGED <<live, logins, sesskeys, cached>>
    PROVE  KulonInv'
BY DEF KulonInv

\* A flight moves by itself.
LEMMA FlightMoves ==
    ASSUME KulonInv, NEW key \in FlightKeys, NEW x \in ProcStates, FlightOK(key, x),
           proc' = [proc EXCEPT ![key] = x]
    PROVE  ProcOK(proc')
<1>1. ProcessOK(key, x)
  BY FlightTypes DEF ProcessOK
<1> QED
  BY <1>1, FlightTypes, MoveOK DEF KulonInv

LEMMA ContextKeeps ==
    ASSUME KulonInv, NEW key \in FlightKeys, Context(key)
    PROVE  KulonInv'
<1>1. /\ key[1] = "run" /\ proc[key] \in ProcStates /\ FlightOK(key, proc[key])
      /\ proc[key].pc = "context" /\ proc[key].on = <<>> /\ proc[key].sesskey = NoCookie
  BY FlightTypes DEF Context, At, PlaceOf, FlightOK, Equipped
<1>2. UNCHANGED <<live, logins, sesskeys, cached>>
  BY DEF Context
<1>3. CASE live # NoCookie /\ key[3] \in {Current, ScopeOf(live[1])}
  <2> DEFINE x == [proc[key] EXCEPT !.pc = "sesskey", !.cookie = live]
  <2>1. live \in Cookies /\ InScope(key[3], live)
    BY <1>3 DEF KulonInv, InScope, ScopeOf
  <2>2. /\ x \in ProcStates
        /\ x.pc = "sesskey" /\ x.cookie = live /\ x.on = <<>> /\ x.sesskey = NoCookie
    BY <1>1, <2>1 DEF ProcStates, Places
  <2>3. proc' = [proc EXCEPT ![key] = x]
    BY <1>3, FlightTypes DEF Context, KulonInv, ProcOK
  <2> HIDE DEF x
  <2>4. FlightOK(key, x)
    BY <1>1, <2>1, <2>2 DEF FlightOK, PlaceOf, Equipped
  <2> QED
    BY <1>2, <2>2, <2>3, <2>4, FlightMoves, ProcStep
<1>4. CASE ~ (live # NoCookie /\ key[3] \in {Current, ScopeOf(live[1])})
  BY <1>2, <1>4, FailedOK, ProcStep DEF Context, KulonInv
<1> QED
  BY <1>3, <1>4

LEMMA ResolveKeeps ==
    ASSUME KulonInv, NEW key \in FlightKeys, Resolve(key)
    PROVE  KulonInv'
<1> DEFINE cookie == proc[key].cookie
           known == sesskeys[cookie]
           page == <<"sesskey", "sesskey", cookie>>
<1>1. /\ key[1] = "run" /\ proc[key] \in ProcStates
      /\ Equipped(key, proc[key])
      /\ proc[key].pc = "sesskey" /\ proc[key].on = <<>> /\ proc[key].sesskey = NoCookie
      /\ cookie \in Cookies /\ cookie # NoCookie
      /\ InScope(key[3], cookie)
  BY FlightTypes, CookieTypes DEF Resolve, At, PlaceOf, FlightOK, Equipped
<1>2. UNCHANGED <<live, logins, sesskeys, cached>>
  BY DEF Resolve
<1>3. CASE known # NoCookie
  <2> DEFINE x == [proc[key] EXCEPT !.pc = "cache", !.sesskey = known]
  <2>1. known = cookie
    BY <1>1, <1>3 DEF KulonInv, SesskeysOK
  <2>2. /\ x \in ProcStates
        /\ x.pc = "cache" /\ x.cookie = cookie /\ x.on = <<>> /\ x.sesskey = cookie
    BY <1>1, <2>1 DEF ProcStates, Places
  <2>3. proc' = [proc EXCEPT ![key] = x]
    BY <1>3, FlightTypes DEF Resolve, SesskeyKey, KulonInv, ProcOK
  <2> HIDE DEF x
  <2>4. FlightOK(key, x)
    BY <1>1, <2>2 DEF FlightOK, PlaceOf, Equipped
  <2> QED
    BY <1>2, <2>2, <2>3, <2>4, FlightMoves, ProcStep
<1>4. CASE known = NoCookie
  <2>1. /\ page \in FlightKeys /\ page \notin Callers /\ page # key
        /\ key \in Processes /\ key \notin Callers
    BY <1>1, SesskeyKeys, FlightTypes, CallersAreNoFlights
  <2>2. ProcOK(proc) /\ "page" \in Places
    BY DEF KulonInv, Places
  <2>3. ProcessOK(page, StartState(proc, key, "page"))
    <3>1. /\ StartState(proc, key, "page").pc = "page"
          /\ StartState(proc, key, "page").on = <<>>
          /\ StartState(proc, key, "page").cookie = cookie
          /\ StartState(proc, key, "page").sesskey = NoCookie
      BY <1>1, <2>1, <2>2, StartType
    <3> QED
      BY <2>1, <3>1 DEF ProcessOK, FlightOK, PlaceOf, Equipped
  <2>4. ProcessOK(key, AwaitState(proc, key, page))
    <3>1. /\ AwaitState(proc, key, page).pc = "await"
          /\ AwaitState(proc, key, page).on = page
          /\ AwaitState(proc, key, page).cookie = cookie
          /\ AwaitState(proc, key, page).sesskey = NoCookie
      BY <1>1, <2>1, <2>2, AwaitType
    <3> QED
      BY <1>1, <2>1, <3>1 DEF ProcessOK, FlightOK, PlaceOf, Equipped, AwaitsSesskey
  <2>5. ProcOK(Joined(proc, key, page, "page"))
    BY <2>1, <2>2, <2>3, <2>4, JoinedOK
  <2>6. proc' = Joined(proc, key, page, "page")
    BY <1>4 DEF Resolve, SesskeyKey
  <2> QED
    BY <1>2, <2>5, <2>6, ProcStep
<1> QED
  BY <1>3, <1>4

\* A sesskey is of the cookie its flight is for.
LEMMA SesskeyKeeps ==
    ASSUME KulonInv, NEW key \in FlightKeys, Sesskey(key)
    PROVE  KulonInv'
<1>1. key[1] = "sesskey" /\ proc[key].cookie = key[3] /\ key[3] \in Cookies
  BY FlightTypes, KeyTypes DEF Sesskey, At, PlaceOf, FlightOK, Equipped
<1>2. PICK answer \in {Payload(proc[key].cookie, {}, {}), Failure} :
        proc' = Settled(proc, key, answer)
  BY DEF Sesskey
<1>3. answer \in Payloads /\ Fits(key, answer)
  BY <1>1, PayloadType, FailureType DEF Fits
<1>4. UNCHANGED <<live, logins, sesskeys, cached>> /\ ProcOK(proc)
  BY DEF Sesskey, KulonInv
<1> QED
  BY <1>2, <1>3, <1>4, SettledOK, ProcStep

LEMMA ResolvedKeeps ==
    ASSUME KulonInv, NEW key \in FlightKeys, Resolved(key)
    PROVE  KulonInv'
<1> DEFINE cookie == proc[key].cookie
           got == proc[key].got
<1>1. /\ key[1] = "run" /\ proc[key] \in ProcStates
      /\ proc[key].pc = "got" /\ proc[key].on = <<>> /\ proc[key].sesskey = NoCookie
      /\ cookie \in Cookies /\ InScope(key[3], cookie)
      /\ got.ok => got.cookie = cookie
  BY FlightTypes DEF Resolved, At, FlightOK, Equipped, AwaitsSesskey
<1>2. UNCHANGED <<live, logins, cached>> /\ ProcOK(proc)
  BY DEF Resolved, KulonInv
<1>3. CASE got.ok
  <2> DEFINE x == [proc[key] EXCEPT !.pc = "cache", !.sesskey = got.cookie]
  <2>1. got.cookie = cookie /\ cookie # NoCookie
    BY <1>1, <1>3, CookieTypes
  <2>2. /\ x \in ProcStates
        /\ x.pc = "cache" /\ x.cookie = cookie /\ x.on = <<>> /\ x.sesskey = cookie
    BY <1>1, <2>1 DEF ProcStates, Places
  <2>3. proc' = [proc EXCEPT ![key] = x]
    BY <1>3, FlightTypes DEF Resolved, KulonInv, ProcOK
  <2>4. sesskeys' = [sesskeys EXCEPT ![cookie] = cookie]
    BY <1>3, <2>1 DEF Resolved, SesskeyKey
  <2>5. SesskeysOK(sesskeys')
    BY <1>1, <2>4 DEF KulonInv, SesskeysOK
  <2> HIDE DEF x
  <2>6. FlightOK(key, x)
    BY <1>1, <2>1, <2>2 DEF FlightOK, PlaceOf, Equipped
  <2>7. ProcOK(proc')
    BY <2>2, <2>3, <2>6, FlightMoves
  <2> QED
    BY <1>2, <2>5, <2>7 DEF KulonInv
<1>4. CASE ~ got.ok
  BY <1>2, <1>4, FailedOK, ProcStep DEF Resolved
<1> QED
  BY <1>3, <1>4

\* A payload of the cache belongs to its scope, and so does a refresh.
LEMMA LookupKeeps ==
    ASSUME KulonInv, NEW key \in FlightKeys, Lookup(key)
    PROVE  KulonInv'
<1> DEFINE refresh == <<"refresh", key[2], key[3]>>
           entry == cached[<<key[2], key[3]>>]
<1>1. /\ key[1] = "run" /\ proc[key] \in ProcStates
      /\ proc[key].pc = "cache" /\ Equipped(key, proc[key])
      /\ proc[key].sesskey = proc[key].cookie /\ proc[key].sesskey # NoCookie
      /\ key \in Processes /\ key \notin Callers
  BY FlightTypes DEF Lookup, At, PlaceOf, FlightOK, Equipped
<1>2. /\ key[2] \in Methods /\ key[3] \in Scopes
      /\ refresh \in FlightKeys /\ refresh \notin Callers /\ refresh # key
  BY <1>1, KeyTypes, RunKeys, CallersAreNoFlights
<1>3. entry \in Entries /\ entry.value \in Payloads /\ Fits(key, entry.value)
  BY <1>1, <1>2, RunKeys DEF KulonInv, CacheOK, Entries, Fits
<1>4. UNCHANGED <<live, logins, sesskeys, cached>> /\ ProcOK(proc) /\ "load" \in Places
  BY DEF Lookup, KulonInv, Places
<1>5. ProcessOK(refresh, StartState(proc, key, "load"))
  <2>1. /\ StartState(proc, key, "load").pc = "load"
        /\ StartState(proc, key, "load").on = <<>>
        /\ StartState(proc, key, "load").cookie = proc[key].cookie
        /\ StartState(proc, key, "load").sesskey = proc[key].sesskey
    BY <1>1, <1>4, StartType
  <2> QED
    BY <1>1, <1>2, <2>1 DEF ProcessOK, FlightOK, PlaceOf, Equipped
<1>6. CASE entry.age = "fresh"
  BY <1>3, <1>4, <1>6, SettledOK, ProcStep DEF Lookup
<1>7. CASE entry.age = "stale"
  <2>1. ProcOK(Started(proc, key, refresh, "load"))
    BY <1>1, <1>2, <1>4, <1>5, StartedOK
  <2>2. ProcOK(Settled(Started(proc, key, refresh, "load"), key, entry.value))
    BY <1>3, <2>1, SettledOK
  <2>3. proc' = Settled(Started(proc, key, refresh, "load"), key, entry.value)
    BY <1>7 DEF Lookup
  <2> QED
    BY <1>4, <2>2, <2>3, ProcStep
<1>8. CASE entry.age \notin {"fresh", "stale"}
  <2>1. ProcessOK(key, AwaitState(proc, key, refresh))
    <3>1. /\ AwaitState(proc, key, refresh).pc = "await"
          /\ AwaitState(proc, key, refresh).on = refresh
          /\ AwaitState(proc, key, refresh).cookie = proc[key].cookie
          /\ AwaitState(proc, key, refresh).sesskey = proc[key].sesskey
      BY <1>1, <1>2, <1>4, AwaitType
    <3> QED
      BY <1>1, <1>2, <3>1 DEF ProcessOK, FlightOK, PlaceOf, Equipped, AwaitsSesskey, Needs
  <2>2. ProcOK(Joined(proc, key, refresh, "load"))
    BY <1>1, <1>2, <1>4, <1>5, <2>1, JoinedOK
  <2>3. proc' = Joined(proc, key, refresh, "load")
    BY <1>8 DEF Lookup
  <2> QED
    BY <1>4, <2>2, <2>3, ProcStep
<1> QED
  BY <1>6, <1>7, <1>8

LEMMA RefreshedKeeps ==
    ASSUME KulonInv, NEW key \in FlightKeys, Refreshed(key)
    PROVE  KulonInv'
<1>1. proc[key].got \in Payloads /\ Fits(key, proc[key].got)
  BY FlightTypes DEF Refreshed, At, FlightOK, AwaitsSesskey, Fits, Needs, ProcStates
<1>2. ProcOK(proc')
  BY <1>1, SettledOK DEF Refreshed, KulonInv
<1> QED
  BY <1>2, ProcStep DEF Refreshed

-----------------------------------------------------------------------------
(* The steps of a refresh                                                    *)

\* What a refresh joins gets the cookie and the sesskey it was given.
LEMMA LoadKeeps ==
    ASSUME KulonInv, NEW key \in FlightKeys, Load(key)
    PROVE  KulonInv'
<1>1. /\ key[1] = "refresh" /\ proc[key] \in ProcStates
      /\ proc[key].pc = "load" /\ Equipped(key, proc[key])
      /\ proc[key].sesskey = proc[key].cookie /\ proc[key].sesskey # NoCookie
      /\ key \in Processes /\ key \notin Callers
      /\ key[3] \in Scopes
  BY FlightTypes, KeyTypes DEF Load, At, FlightOK, Equipped
<1>2. UNCHANGED <<live, logins, sesskeys, cached>> /\ ProcOK(proc)
  BY DEF Load, KulonInv
<1>3. proc[key].cookie \in Cookies
  BY <1>1 DEF ProcStates
<1>4. ASSUME NEW on \in FlightKeys, NEW pc \in Places,
             \/ on[1] = "run" /\ pc = "cache"
             \/ on[1] = "timeline" /\ pc = "load",
             on[2] = Needs(key), on[3] = key[3]
      PROVE  ProcOK(Joined(proc, key, on, pc))
  <2>1. on # key /\ on \notin Callers
    BY <1>1, <1>4, CallersAreNoFlights
  <2>2. ProcessOK(on, StartState(proc, key, pc))
    <3>1. /\ StartState(proc, key, pc).pc = pc
          /\ StartState(proc, key, pc).on = <<>>
          /\ StartState(proc, key, pc).cookie = proc[key].cookie
          /\ StartState(proc, key, pc).sesskey = proc[key].sesskey
      BY <1>1, <1>2, StartType
    <3> QED
      BY <1>1, <1>3, <1>4, <2>1, <3>1 DEF ProcessOK, FlightOK, PlaceOf, Equipped
  <2>3. ProcessOK(key, AwaitState(proc, key, on))
    <3>1. /\ AwaitState(proc, key, on).pc = "await"
          /\ AwaitState(proc, key, on).on = on
          /\ AwaitState(proc, key, on).cookie = proc[key].cookie
          /\ AwaitState(proc, key, on).sesskey = proc[key].sesskey
      BY <1>1, <1>2, AwaitType
    <3> QED
      BY <1>1, <1>4, <3>1 DEF ProcessOK, FlightOK, PlaceOf, Equipped, AwaitsSesskey
  <2> QED
    BY <1>1, <1>2, <2>1, <2>2, <2>3, JoinedOK
<1>5. CASE key[2] = "all"
  <2>1. <<"run", "list", key[3]>> \in FlightKeys /\ "cache" \in Places
    BY <1>1, KulonBounds, RunKeys DEF Places
  <2>2. ProcOK(Joined(proc, key, <<"run", "list", key[3]>>, "cache"))
    BY <1>1, <1>4, <1>5, <2>1 DEF Needs
  <2> QED
    BY <1>2, <1>5, <2>2, ProcStep DEF Load
<1>6. CASE key[2] # "all"
  <2>1. <<"timeline", "timeline", key[3]>> \in FlightKeys /\ "load" \in Places
    BY <1>1, KulonBounds, RunKeys DEF Places
  <2>2. ProcOK(Joined(proc, key, <<"timeline", "timeline", key[3]>>, "load"))
    BY <1>1, <1>4, <1>6, <2>1 DEF Needs
  <2> QED
    BY <1>2, <1>6, <2>2, ProcStep DEF Load
<1> QED
  BY <1>5, <1>6

LEMMA TimelineKeeps ==
    ASSUME KulonInv, NEW key \in FlightKeys, Timeline(key)
    PROVE  KulonInv'
<1>1. /\ key[1] = "timeline" /\ proc[key] \in ProcStates /\ Equipped(key, proc[key])
      /\ proc[key].sesskey = proc[key].cookie /\ proc[key].sesskey # NoCookie
  BY FlightTypes DEF Timeline, At, FlightOK, Equipped
<1>2. proc[key].cookie \in Cookies /\ InScope(key[3], proc[key].cookie)
  BY <1>1 DEF ProcStates, Equipped
<1>3. PICK answer \in {Payload(proc[key].cookie, CourseIds, {}), Failure} :
        proc' = Settled(proc, key, answer)
  BY DEF Timeline
<1>4. answer \in Payloads /\ Fits(key, answer)
  <2>1. key[2] = "timeline"
    BY <1>1 DEF FlightKeys
  <2>2. /\ Payload(proc[key].cookie, CourseIds, {}) \in Payloads
        /\ Fits(key, Payload(proc[key].cookie, CourseIds, {}))
    BY <1>1, <1>2, <2>1, PayloadType DEF Fits, Whole
  <2> QED
    BY <1>3, <2>2, FailureType DEF Fits
<1>5. UNCHANGED <<live, logins, sesskeys, cached>> /\ ProcOK(proc)
  BY DEF Timeline, KulonInv
<1> QED
  BY <1>3, <1>4, <1>5, SettledOK, ProcStep

\* A refresh ends, and its payload, or that it failed, is in the cache.
LEMMA EndKeeps ==
    ASSUME KulonInv, NEW key \in FlightKeys, key[1] = "refresh",
           NEW payload \in Payloads, Fits(key, payload), payload.ok,
           EndRefresh(key, payload), UNCHANGED <<live, logins, sesskeys>>
    PROVE  KulonInv'
<1> DEFINE entry == [age |-> "fresh", value |-> payload]
<1>1. <<key[2], key[3]>> \in Methods \X Scopes
  BY KeyTypes, RunKeys
<1>2. entry \in Entries /\ Whole(key[2], key[3], payload)
  BY DEF Entries, Fits
<1>3. cached' = [cached EXCEPT ![<<key[2], key[3]>>] = entry]
  BY DEF EndRefresh
<1>4. CacheOK(cached')
  BY <1>1, <1>2, <1>3 DEF KulonInv, CacheOK
<1>5. ProcOK(proc')
  BY SettledOK DEF EndRefresh, KulonInv
<1> QED
  BY <1>4, <1>5 DEF KulonInv

LEMMA FailKeeps ==
    ASSUME KulonInv, NEW key \in FlightKeys, FailRefresh(key),
           UNCHANGED <<live, logins, sesskeys>>
    PROVE  KulonInv'
<1>1. NoEntry \in Entries /\ NoEntry.age = "none" /\ ~ NoEntry.value.ok
  BY FailureType DEF NoEntry, Entries
<1>2. CacheOK(cached')
  BY <1>1 DEF FailRefresh, KulonInv, CacheOK
<1>3. ProcOK(proc')
  BY FailedOK DEF FailRefresh, KulonInv
<1> QED
  BY <1>2, <1>3 DEF KulonInv

\* A refresh stays where its list is, or goes through the pages of the courses.
LEMMA PagesMove ==
    ASSUME KulonInv, NEW key \in FlightKeys, key[1] = "refresh", key[2] = "all",
           proc[key].pc \in {"got", "pages"}, proc[key].got.ok,
           NEW rows \in SUBSET CourseIds, NEW refused \in SUBSET CourseIds,
           proc' = [proc EXCEPT ![key] = [proc[key] EXCEPT !.pc = "pages", !.rows = rows,
                                                           !.refused = refused]],
           UNCHANGED <<live, logins, sesskeys, cached>>
    PROVE  KulonInv'
<1> DEFINE x == [proc[key] EXCEPT !.pc = "pages", !.rows = rows, !.refused = refused]
<1>1. FlightOK(key, proc[key]) /\ proc[key] \in ProcStates
  BY FlightTypes
<1>2. /\ x \in ProcStates
      /\ x.pc = "pages" /\ x.on = proc[key].on /\ x.got = proc[key].got
      /\ x.cookie = proc[key].cookie /\ x.sesskey = proc[key].sesskey
  BY <1>1 DEF ProcStates, Places
<1>3. proc' = [proc EXCEPT ![key] = x]
  OBVIOUS
<1> HIDE DEF x
<1>4. FlightOK(key, x)
  BY <1>1, <1>2 DEF FlightOK, PlaceOf, Equipped, AwaitsSesskey
<1> QED
  BY <1>2, <1>3, <1>4, FlightMoves, ProcStep

LEMMA ListedKeeps ==
    ASSUME KulonInv, NEW key \in FlightKeys, Listed(key)
    PROVE  KulonInv'
<1>1. /\ key[1] = "refresh" /\ proc[key].pc = "got" /\ proc[key] \in ProcStates
      /\ proc[key].got \in Payloads /\ Fits(key, proc[key].got)
  BY FlightTypes DEF Listed, At, FlightOK, AwaitsSesskey, Fits, Whole, Needs, ProcStates
<1>2. UNCHANGED <<live, logins, sesskeys>>
  BY DEF Listed
<1>3. CASE FailRefresh(key)
  BY <1>2, <1>3, FailKeeps
<1>4. CASE proc[key].got.ok /\ EndRefresh(key, proc[key].got)
  BY <1>1, <1>2, <1>4, EndKeeps
<1>5. CASE proc[key].got.ok /\ key[2] = "all" /\ Goto(key, "pages") /\ UNCHANGED cached
  <2>1. proc' = [proc EXCEPT ![key] = [proc[key] EXCEPT !.pc = "pages",
                                                        !.rows = proc[key].rows,
                                                        !.refused = proc[key].refused]]
    BY <1>1, <1>5, FlightTypes DEF Goto, KulonInv, ProcOK, ProcStates
  <2>2. proc[key].rows \in SUBSET CourseIds /\ proc[key].refused \in SUBSET CourseIds
    BY <1>1 DEF ProcStates
  <2> QED
    BY <1>1, <1>2, <1>5, <2>1, <2>2, PagesMove
<1> QED
  BY <1>3, <1>4, <1>5 DEF Listed

LEMMA PagesKeeps ==
    ASSUME KulonInv, NEW key \in FlightKeys, Pages(key) \/ Aggregated(key)
    PROVE  KulonInv'
<1>1. /\ key[1] = "refresh" /\ key[2] = "all"
      /\ proc[key].pc = "pages" /\ proc[key] \in ProcStates /\ Equipped(key, proc[key])
      /\ proc[key].got.ok /\ Whole(Needs(key), key[3], proc[key].got)
      /\ proc[key].sesskey = proc[key].cookie /\ proc[key].sesskey # NoCookie
  BY FlightTypes DEF Pages, Aggregated, At, PlaceOf, FlightOK, Equipped, AwaitsSesskey
<1>2. /\ proc[key].cookie \in Cookies /\ InScope(key[3], proc[key].cookie)
      /\ proc[key].rows \in SUBSET CourseIds /\ proc[key].got.rows \in SUBSET CourseIds
      /\ proc[key].refused \in SUBSET CourseIds
  <2>1. proc[key].got \in Payloads
    BY <1>1 DEF ProcStates
  <2>2. proc[key].got.rows \in SUBSET CourseIds
    BY <2>1, RowsType
  <2> QED
    BY <1>1, <2>2 DEF ProcStates, Equipped
<1>3. UNCHANGED <<live, logins, sesskeys>>
  BY DEF Pages, Aggregated
<1>4. CASE Aggregated(key)
  <2> DEFINE payload == Payload(proc[key].cookie, proc[key].rows, proc[key].refused)
  <2>1. /\ payload \in Payloads /\ payload.ok /\ payload.cookie = proc[key].cookie
        /\ payload.rows = proc[key].rows /\ payload.refused = proc[key].refused
    BY <1>2, PayloadType
  <2>2. PagesLeft(key) = {} /\ EndRefresh(key, payload)
    BY <1>4 DEF Aggregated
  <2> HIDE DEF payload
  <2>3. proc[key].got.rows = CourseIds
    BY <1>1 DEF Whole, Needs
  <2>4. Whole(key[2], key[3], payload)
    BY <1>1, <1>2, <2>1, <2>2, <2>3 DEF Whole, PagesLeft
  <2>5. Fits(key, payload)
    BY <1>1, <2>1, <2>4 DEF Fits
  <2> QED
    BY <1>1, <1>3, <2>1, <2>2, <2>5, EndKeeps
<1>5. CASE Pages(key) /\ FailRefresh(key)
  BY <1>3, <1>5, FailKeeps
<1>6. CASE /\ \E c \in PagesLeft(key) :
                \/ proc' = [proc EXCEPT ![key].rows = @ \cup {c}]
                \/ proc' = [proc EXCEPT ![key].refused = @ \cup {c}]
           /\ UNCHANGED cached
  <2>1. PICK c \in PagesLeft(key) :
          \/ proc' = [proc EXCEPT ![key].rows = @ \cup {c}]
          \/ proc' = [proc EXCEPT ![key].refused = @ \cup {c}]
    BY <1>6
  <2>2. /\ proc[key].rows \cup {c} \in SUBSET CourseIds
        /\ proc[key].refused \cup {c} \in SUBSET CourseIds
    BY <1>2 DEF PagesLeft
  <2>3. \/ proc' = [proc EXCEPT ![key] = [proc[key] EXCEPT !.pc = "pages",
                                            !.rows = proc[key].rows \cup {c},
                                            !.refused = proc[key].refused]]
        \/ proc' = [proc EXCEPT ![key] = [proc[key] EXCEPT !.pc = "pages",
                                            !.rows = proc[key].rows,
                                            !.refused = proc[key].refused \cup {c}]]
    <3> DEFINE x == proc[key]
    <3>1. /\ [x EXCEPT !.rows = x.rows \cup {c}] =
             [x EXCEPT !.pc = "pages", !.rows = x.rows \cup {c}, !.refused = x.refused]
          /\ [x EXCEPT !.refused = x.refused \cup {c}] =
             [x EXCEPT !.pc = "pages", !.rows = x.rows, !.refused = x.refused \cup {c}]
      BY <1>1 DEF ProcStates
    <3> QED
      BY <2>1, <3>1
  <2> QED
    BY <1>1, <1>2, <1>3, <1>6, <2>2, <2>3, PagesMove
<1> QED
  BY <1>4, <1>5, <1>6 DEF Pages

-----------------------------------------------------------------------------
(* The rest of the backend, and the theorems                                 *)

LEMMA AroundKeeps ==
    ASSUME KulonInv, RenewCookie \/ Login \/ Logout \/ UNCHANGED kulonVars
    PROVE  KulonInv'
<1>1. UNCHANGED <<sesskeys, cached, proc>>
  BY DEF RenewCookie, Login, Logout, kulonVars
<1>2. live' \in Cookies \cup {NoCookie} /\ logins' \in 1..MaxLogins
  <2>1. CASE RenewCookie
    <3>1. live \in Cookies /\ live[2] \in 0..MaxRenewals /\ live[1] \in 1..MaxLogins
      BY <2>1 DEF RenewCookie, KulonInv, Cookies
    <3>2. live[2] + 1 \in 0..MaxRenewals
      BY <2>1, <3>1, KulonBounds DEF RenewCookie
    <3>3. <<live[1], live[2] + 1>> \in Cookies
      BY <3>1, <3>2 DEF Cookies
    <3> QED
      BY <2>1, <3>3 DEF RenewCookie, KulonInv
  <2>2. CASE Login
    BY <2>2, KulonBounds DEF Login, KulonInv, Cookies
  <2>3. CASE Logout \/ UNCHANGED kulonVars
    BY <2>3 DEF Logout, kulonVars, KulonInv
  <2> QED
    BY <2>1, <2>2, <2>3
<1> QED
  BY <1>1, <1>2 DEF KulonInv

LEMMA AgeKeeps ==
    ASSUME KulonInv, Age
    PROVE  KulonInv'
<1>1. UNCHANGED <<live, logins, proc>>
  BY DEF Age
<1>2. CacheOK(cached) /\ SesskeysOK(sesskeys)
  BY DEF KulonInv
<1>3. CASE /\ \E k \in {k \in DOMAIN cached : cached[k].age # "none"} :
                cached' = [cached EXCEPT ![k] = IF @.age = "fresh" THEN [@ EXCEPT !.age = "stale"]
                                                ELSE NoEntry]
           /\ UNCHANGED sesskeys
  <2>1. PICK k \in Methods \X Scopes :
          cached' = [cached EXCEPT ![k] = IF cached[k].age = "fresh"
                                          THEN [cached[k] EXCEPT !.age = "stale"]
                                          ELSE NoEntry]
    BY <1>2, <1>3 DEF CacheOK
  <2>2. NoEntry \in Entries /\ NoEntry.age = "none" /\ ~ NoEntry.value.ok
    BY FailureType DEF NoEntry, Entries
  <2>3. cached[k] \in Entries
    BY <1>2 DEF CacheOK
  <2>4. /\ [cached[k] EXCEPT !.age = "stale"] \in Entries
        /\ [cached[k] EXCEPT !.age = "stale"].value = cached[k].value
    BY <2>3 DEF Entries
  <2>5. CacheOK(cached')
    BY <1>2, <2>1, <2>2, <2>4 DEF CacheOK
  <2> QED
    BY <1>1, <1>2, <1>3, <2>5 DEF KulonInv
<1>4. CASE /\ \E k \in {k \in Cookies : sesskeys[k] # NoCookie} :
                sesskeys' = [sesskeys EXCEPT ![k] = NoCookie]
           /\ UNCHANGED cached
  <2>1. SesskeysOK(sesskeys')
    BY <1>2, <1>4 DEF SesskeysOK
  <2> QED
    BY <1>1, <1>2, <1>4, <2>1 DEF KulonInv
<1> QED
  BY <1>3, <1>4 DEF Age

LEMMA KulonStepKeeps == KulonInv /\ [KulonNext]_kulonVars => KulonInv'
<1> SUFFICES ASSUME KulonInv, [KulonNext]_kulonVars PROVE KulonInv'
  OBVIOUS
<1>1. CASE FlightStep
  BY <1>1, ContextKeeps, ResolveKeeps, SesskeyKeeps, ResolvedKeeps, LookupKeeps,
     RefreshedKeeps, LoadKeeps, TimelineKeeps, ListedKeeps, PagesKeeps DEF FlightStep
<1>2. CASE CallerStep
  BY <1>2, CallKeeps DEF CallerStep
<1> QED
  BY <1>1, <1>2, AroundKeeps, AgeKeeps DEF KulonNext

THEOREM KulonInvariant == KulonSpec => []KulonInv
BY KulonInitially, KulonStepKeeps, PTL DEF KulonSpec

\* Whatever flights and cache entries a request shares, and whoever logs in, out
\* or renews a cookie meanwhile, it is answered with data of its own login
\* (flightKeyForSession, cacheKeyForSession).
THEOREM AnswersAreOwn == KulonSpec => []AnswersOwnData
<1>1. KulonInv => AnswersOwnData
  BY CallerTypes DEF KulonInv, ProcOK, ProcessOK, CallerOK, AnswersOwnData
<1> QED
  BY <1>1, KulonInvariant, PTL

\* No request goes out with the sesskey of another cookie, also of one that was
\* renewed since (resolveSesskey).
THEOREM SesskeysFit == KulonSpec => []SesskeyFitsCookie
<1>1. KulonInv => SesskeyFitsCookie
  BY FlightTypes DEF FlightOK, Equipped, SesskeyFitsCookie
<1> QED
  BY <1>1, KulonInvariant, PTL

\* A stored aggregate misses only courses Kulon refused a page of, whichever page
\* failed otherwise and whoever waited for it (fetchAllAssignments).
THEOREM OnlyRefusalsAreLost == KulonSpec => []OnlyRefusedAreMissing
<1>1. KulonInv => OnlyRefusedAreMissing
  <2> SUFFICES ASSUME KulonInv, NEW s \in Scopes, "all" \in Methods,
                      cached[<<"all", s>>].age # "none"
               PROVE  CourseIds \ cached[<<"all", s>>].value.rows
                         \subseteq cached[<<"all", s>>].value.refused
    BY DEF OnlyRefusedAreMissing
  <2>1. <<"all", s>> \in Methods \X Scopes
    BY RunKeys
  <2> QED
    BY <2>1 DEF KulonInv, CacheOK, Whole
<1> QED
  BY <1>1, KulonInvariant, PTL

-----------------------------------------------------------------------------
(***************************************************************************)
(* The cap on web subscriptions holds for any number of clients, targets   *)
(* and any cap, although removals write back a list they read before       *)
(* others changed it.  Such a list was within the cap when it was read,    *)
(* and a client that only registers never writes one back: the invariant   *)
(* bounds what every client has read, and says that a write of a           *)
(* registration is one of a device token.                                  *)
(***************************************************************************)

ReqStates ==
    [pc : {"idle", "get", "script", "write", "sadd", "srem", "ok"},
     op : {"none", "add", "remove"}, channel : Channels,
     target : Targets \cup {"none"}, read : SUBSET Targets]

PushTypes ==
    /\ list \in [Channels -> SUBSET Targets]
    /\ indexed \in [Channels -> BOOLEAN]
    /\ req \in [Clients -> ReqStates]

WithinCap(set) == IsFiniteSet(set) /\ Cardinality(set) <= Cap

\* A request on the web list has read no more than the cap, and does not
\* write what it read back with something added to it.
Bounded(mine) ==
    /\ mine.pc # "idle" => mine.target \in Targets
    /\ mine.channel = "web" =>
          /\ WithinCap(mine.read)
          /\ mine.pc \in {"get", "write"} => mine.op = "remove"

PushInv ==
    /\ PushTypes
    /\ WithinCap(list["web"])
    /\ \A c \in Clients : Bounded(req[c])

LEMMA EmptyWithinCap == WithinCap({})
BY FS_EmptySet, PushBounds DEF WithinCap

\* What is read, or left after a removal, fits if the list it is of fitted.
LEMMA RestWithinCap ==
    ASSUME NEW set, NEW rest, rest \subseteq set, WithinCap(set)
    PROVE  WithinCap(rest)
<1>1. /\ IsFiniteSet(rest)
      /\ Cardinality(rest) <= Cardinality(set)
  BY FS_Subset DEF WithinCap
<1>2. Cardinality(rest) \in Nat /\ Cardinality(set) \in Nat
  BY <1>1, FS_CardinalityType DEF WithinCap
<1> QED
  BY <1>1, <1>2, PushBounds DEF WithinCap

LEMMA AddedWithinCap ==
    ASSUME NEW set, NEW t, WithinCap(set), ~ (Cardinality(set) >= Cap)
    PROVE  WithinCap(set \cup {t})
<1>1. /\ IsFiniteSet(set \cup {t})
      /\ \/ Cardinality(set \cup {t}) = Cardinality(set)
         \/ Cardinality(set \cup {t}) = Cardinality(set) + 1
  BY FS_AddElement DEF WithinCap
<1>2. Cardinality(set) \in Nat
  BY FS_CardinalityType DEF WithinCap
<1> QED
  BY <1>1, <1>2, PushBounds DEF WithinCap

LEMMA PushInitially == PushInit => PushInv
<1> SUFFICES ASSUME PushInit PROVE PushInv
  OBVIOUS
<1>1. PushTypes
  BY DEF PushInit, PushTypes, NoReq, ReqStates, Channels
<1>2. list["web"] = {} /\ \A c \in Clients : req[c].read = {} /\ req[c].pc = "idle"
  BY DEF PushInit, NoReq, Channels
<1> QED
  BY <1>1, <1>2, EmptyWithinCap DEF PushInv, Bounded

\* A client whose state changes to one that is typed and bounded, while the web
\* list stays.
LEMMA RequestMoves ==
    ASSUME PushInv, NEW c \in Clients, NEW mine \in ReqStates, Bounded(mine),
           req' = [req EXCEPT ![c] = mine],
           list' \in [Channels -> SUBSET Targets], WithinCap(list'["web"]),
           indexed' \in [Channels -> BOOLEAN]
    PROVE  PushInv'
<1>1. req' \in [Clients -> ReqStates]
  BY DEF PushInv, PushTypes
<1>2. \A d \in Clients : req'[d] = IF d = c THEN mine ELSE req[d]
  BY DEF PushInv, PushTypes
<1>3. \A d \in Clients : Bounded(req'[d])
  BY <1>2 DEF PushInv
<1> QED
  BY <1>1, <1>3 DEF PushInv, PushTypes, WithinCap, Bounded

\* Only the program counter changes, to one where nothing is written.
LEMMA GoesMoves ==
    ASSUME PushInv, NEW c \in Clients, NEW pc \in {"idle", "sadd", "srem", "ok"},
           Goes(c, pc), req[c].pc # "idle", list' \in [Channels -> SUBSET Targets],
           WithinCap(list'["web"]),
           indexed' \in [Channels -> BOOLEAN]
    PROVE  PushInv'
<1> DEFINE mine == [req[c] EXCEPT !.pc = pc]
<1>1. req[c] \in ReqStates /\ Bounded(req[c])
  BY DEF PushInv, PushTypes
<1>2. mine \in ReqStates
  BY <1>1 DEF ReqStates
<1>3. /\ mine.pc = pc /\ mine.target = req[c].target
      /\ mine.channel = req[c].channel /\ mine.read = req[c].read
  BY <1>1 DEF ReqStates
<1>4. Bounded(mine)
  BY <1>1, <1>3 DEF Bounded
<1>5. req' = [req EXCEPT ![c] = mine]
  BY DEF Goes, PushInv, PushTypes
<1> HIDE DEF mine
<1> QED
  BY <1>2, <1>4, <1>5, RequestMoves

LEMMA BeginKeeps ==
    ASSUME PushInv, NEW c \in Clients, BeginRequest(c)
    PROVE  PushInv'
<1>1. PICK op \in {"add", "remove"}, ch \in Channels, t \in Targets :
        req' = [req EXCEPT ![c] = [NoReq EXCEPT !.op = op, !.channel = ch, !.target = t,
                   !.pc = IF op = "add" /\ ch = "web" THEN "script" ELSE "get"]]
  BY DEF BeginRequest
<1> DEFINE mine == [NoReq EXCEPT !.op = op, !.channel = ch, !.target = t,
                       !.pc = IF op = "add" /\ ch = "web" THEN "script" ELSE "get"]
<1>2. /\ mine \in ReqStates
      /\ mine.read = {} /\ mine.channel = ch /\ mine.op = op /\ mine.target = t
      /\ mine.pc = IF op = "add" /\ ch = "web" THEN "script" ELSE "get"
  BY DEF NoReq, ReqStates, Channels
<1>3. Bounded(mine)
  BY <1>2, EmptyWithinCap DEF Bounded
<1>4. UNCHANGED <<list, indexed>>
  BY DEF BeginRequest
<1>5. req' = [req EXCEPT ![c] = mine]
  BY <1>1
<1> HIDE DEF mine
<1> QED
  BY <1>2, <1>3, <1>4, <1>5, RequestMoves DEF PushInv, PushTypes

LEMMA GetKeeps ==
    ASSUME PushInv, NEW c \in Clients, Get(c)
    PROVE  PushInv'
<1> DEFINE pc == IF req[c].op = "remove" /\ list[req[c].channel] = {} THEN "ok" ELSE "write"
           mine == [req[c] EXCEPT !.pc = pc, !.read = list[req[c].channel]]
<1>1. /\ req[c] \in ReqStates /\ Bounded(req[c]) /\ req[c].pc = "get"
      /\ UNCHANGED <<list, indexed>>
  BY DEF PushInv, PushTypes, Get
<1>2. list[req[c].channel] \in SUBSET Targets
  BY <1>1 DEF PushInv, PushTypes, ReqStates
<1>3. /\ mine \in ReqStates
      /\ mine.channel = req[c].channel /\ mine.op = req[c].op
      /\ mine.target = req[c].target
      /\ mine.read = list[req[c].channel]
  BY <1>1, <1>2 DEF ReqStates
<1>4. Bounded(mine)
  BY <1>1, <1>3 DEF Bounded, PushInv
<1>5. req' = [req EXCEPT ![c] = mine]
  BY DEF Get, PushInv, PushTypes
<1> HIDE DEF mine
<1> QED
  BY <1>1, <1>3, <1>4, <1>5, RequestMoves DEF PushInv, PushTypes

\* A registration that writes the list it read is one of a device token.
LEMMA SetAddedKeeps ==
    ASSUME PushInv, NEW c \in Clients, SetAdded(c)
    PROVE  PushInv'
<1>1. /\ req[c] \in ReqStates /\ Bounded(req[c])
      /\ req[c].op = "add" /\ req[c].pc = "write"
  BY DEF PushInv, PushTypes, SetAdded, Doing
<1>2. req[c].channel = "device" /\ req[c].target \in Targets
  BY <1>1 DEF Bounded, ReqStates, Channels
<1>3. list' = [list EXCEPT !["device"] = req[c].read \cup {req[c].target}]
  BY <1>2 DEF SetAdded
<1>4. list' \in [Channels -> SUBSET Targets] /\ list'["web"] = list["web"]
  BY <1>1, <1>2, <1>3 DEF PushInv, PushTypes, ReqStates, Channels
<1>5. Goes(c, "sadd") /\ UNCHANGED indexed
  BY DEF SetAdded
<1> QED
  BY <1>1, <1>4, <1>5, GoesMoves DEF PushInv, PushTypes

LEMMA ScriptKeeps ==
    ASSUME PushInv, NEW c \in Clients, Script(c)
    PROVE  PushInv'
<1>1. /\ req[c] \in ReqStates /\ Bounded(req[c]) /\ req[c].pc = "script"
      /\ UNCHANGED indexed
  BY DEF PushInv, PushTypes, Script, Doing
<1>2. CASE UNCHANGED list
  BY <1>1, <1>2, GoesMoves DEF Script, PushInv, PushTypes
<1>3. CASE /\ ~ (Cardinality(list["web"]) >= Cap)
           /\ Goes(c, "sadd") /\ list' = [list EXCEPT !["web"] = @ \cup {req[c].target}]
  <2>1. /\ list' \in [Channels -> SUBSET Targets]
        /\ list'["web"] = list["web"] \cup {req[c].target}
    BY <1>1, <1>3 DEF PushInv, PushTypes, Bounded, Channels
  <2>2. WithinCap(list["web"]) /\ ~ (Cardinality(list["web"]) >= Cap)
    BY <1>3 DEF PushInv
  <2>3. WithinCap(list["web"] \cup {req[c].target})
    BY <2>2, AddedWithinCap
  <2> QED
    BY <1>1, <1>3, <2>1, <2>3, GoesMoves DEF PushInv, PushTypes
<1> QED
  BY <1>2, <1>3 DEF Script

\* Removing writes back no more than was read.
LEMMA SetRestKeeps ==
    ASSUME PushInv, NEW c \in Clients, SetRest(c)
    PROVE  PushInv'
<1> DEFINE rest == req[c].read \ {req[c].target}
<1>1. /\ req[c] \in ReqStates /\ Bounded(req[c]) /\ req[c].pc = "write"
      /\ UNCHANGED indexed
      /\ list' = [list EXCEPT ![req[c].channel] = rest]
      /\ Goes(c, "srem") \/ Goes(c, "ok")
  BY DEF PushInv, PushTypes, SetRest, Doing
<1>2. list' \in [Channels -> SUBSET Targets]
  BY <1>1 DEF PushInv, PushTypes, ReqStates
<1>3. CASE req[c].channel = "web"
  <2>1. list'["web"] = rest /\ WithinCap(rest)
    BY <1>1, <1>3, RestWithinCap DEF PushInv, PushTypes, Bounded, Channels
  <2> QED
    BY <1>1, <1>2, <2>1, GoesMoves DEF PushInv, PushTypes
<1>4. CASE req[c].channel # "web"
  <2>1. list'["web"] = list["web"]
    BY <1>1, <1>4 DEF PushInv, PushTypes, Channels
  <2> QED
    BY <1>1, <1>2, <2>1, GoesMoves DEF PushInv, PushTypes
<1> QED
  BY <1>3, <1>4

LEMMA IndexKeeps ==
    ASSUME PushInv, NEW c \in Clients, Sadd(c) \/ Srem(c) \/ FailRequest(c)
    PROVE  PushInv'
<1>1. /\ indexed' \in [Channels -> BOOLEAN] /\ UNCHANGED list
      /\ req[c].pc # "idle"
      /\ Goes(c, "ok") \/ Goes(c, "idle")
  BY DEF PushInv, PushTypes, Sadd, Srem, FailRequest, Doing
<1> QED
  BY <1>1, GoesMoves DEF PushInv, PushTypes

LEMMA PushStepKeeps == PushInv /\ [PushNext]_pushVars => PushInv'
<1>1. ASSUME PushInv, UNCHANGED pushVars PROVE PushInv'
  BY <1>1 DEF pushVars, PushInv, PushTypes, WithinCap, Bounded
<1>2. ASSUME PushInv, PushNext PROVE PushInv'
  BY <1>2, BeginKeeps, GetKeeps, SetAddedKeeps, ScriptKeeps, SetRestKeeps, IndexKeeps
     DEF PushNext
<1> QED
  BY <1>1, <1>2

\* However many requests and pollers register and remove at the same time, a
\* user's web subscriptions stay within the cap (redis-notification.store.ts).
THEOREM WebCapIsKept == PushSpec => []WebCapHolds
<1>1. PushInv => WebCapHolds
  BY DEF PushInv, WithinCap, WebCapHolds
<1> QED
  BY <1>1, PushInitially, PushStepKeeps, PTL DEF PushSpec

-----------------------------------------------------------------------------
(***************************************************************************)
(* The notification poller, for any number of users, tasks, slots, cycles, *)
(* for every chunk size, budget and lifetime of the lock.                  *)
(*                                                                         *)
(* Two cycles do work on one user where the rejection of one worker ends   *)
(* the cycle of another that goes on (poller.service.ts:103).  The first   *)
(* part shows that this is the only way: as long as a rejected cycle had   *)
(* no other worker, at most one cycle is in.  The second shows what the    *)
(* poller promises wherever the cycles do not overlap, and so, without a   *)
(* condition, where there is one user.                                     *)
(***************************************************************************)

\* The places of a cycle that has taken the lock.
Entered == {"locking", "listing", "working", "unlocking"}

\* At most one cycle is in; it is the one the flag and the lock are for, and the
\* one that has workers.
OneCycle ==
    /\ now \in Nat /\ lock \in Nat /\ running \in BOOLEAN
    /\ DOMAIN cycle = Cycles /\ DOMAIN work = Cycles
    /\ \A n \in Cycles : DOMAIN cycle[n] = {"at", "todo", "budget"} /\ DOMAIN work[n] = Users
    /\ \A n, m \in Cycles : cycle[n].at \in Entered /\ cycle[m].at \in Entered => n = m
    /\ \A n \in Cycles : /\ cycle[n].at = "locking" => now < lock /\ ~ running
                         /\ cycle[n].at \in Entered \ {"locking"} => running
                         /\ \A u \in Users : work[n][u].at # "off" => cycle[n].at = "working"
    /\ running => \E n \in Cycles : cycle[n].at \in Entered

\* A rejection leaves no other worker of the chunk going on.
RejectsAlone == \A n \in Cycles, u \in Users : CycleRejected(n, u) => Working(n) \subseteq {u}

\* A cycle goes to another place, and takes the flag and the lock along.
LEMMA CycleGoes ==
    ASSUME OneCycle, NEW n \in Cycles, NEW c, cycle' = [cycle EXCEPT ![n] = c],
           DOMAIN c = {"at", "todo", "budget"}, UNCHANGED <<now, work>>,
           lock' \in Nat, running' \in BOOLEAN,
           \A m \in Cycles \ {n} : cycle[m].at \notin Entered,
           IF c.at = "locking" THEN now < lock' /\ ~ running' ELSE running' <=> c.at \in Entered,
           \A u \in Users : work[n][u].at # "off" => c.at = "working"
    PROVE  OneCycle'
<1>1. /\ DOMAIN cycle' = Cycles /\ cycle'[n] = c
      /\ \A m \in Cycles \ {n} : cycle'[m] = cycle[m]
  BY DEF OneCycle
<1>2. \A m \in Cycles \ {n} : cycle'[m].at \notin Entered
  BY <1>1
<1>3. \A m, k \in Cycles : cycle'[m].at \in Entered /\ cycle'[k].at \in Entered => m = k
  BY <1>2
<1>4. running' => \E m \in Cycles : cycle'[m].at \in Entered
  BY <1>1 DEF Entered
<1>5. ASSUME NEW m \in Cycles
      PROVE  /\ cycle'[m].at = "locking" => now' < lock' /\ ~ running'
             /\ cycle'[m].at \in Entered \ {"locking"} => running'
             /\ \A u \in Users : work'[m][u].at # "off" => cycle'[m].at = "working"
  BY <1>1, <1>2 DEF OneCycle, Entered
<1> QED
  BY <1>1, <1>3, <1>4, <1>5 DEF OneCycle

\* Only the worker for u of the n-th cycle changes.
OthersWork(n, u) ==
    /\ DOMAIN work' = Cycles /\ \A m \in Cycles : DOMAIN work'[m] = Users
    /\ \A m \in Cycles, v \in Users : m # n \/ v # u => work'[m][v] = work[m][v]

\* A step of a worker is a step of no other worker.
LEMMA WorkersOfOthers ==
    ASSUME OneCycle, NEW n \in Cycles, NEW u \in Users, WorkStep(n, u)
    PROVE  OthersWork(n, u)
<1> USE DEF OthersWork
<1>1. DOMAIN work = Cycles /\ \A m \in Cycles : DOMAIN work[m] = Users
  BY DEF OneCycle
<1>2. CASE Devices(n, u)
  BY <1>1, <1>2 DEF Devices, Done
<1>3. CASE Fetched(n, u)
  BY <1>1, <1>3 DEF Fetched
<1>4. CASE FetchStale(n, u) \/ ResetFlag(n, u) \/ SetFlag(n, u)
  BY <1>1, <1>4 DEF FetchStale, ResetFlag, SetFlag, WorkerGoes
<1>5. CASE Detect(n, u)
  BY <1>1, <1>5 DEF Detect
<1>6. CASE \E event \in work[n][u].pending : PushFcm(n, u, event)
  <2> PICK event : PushFcm(n, u, event)
    BY <1>6
  <2> DEFINE left == work[n][u].pending \ {event}
  <2>1. work' = [work EXCEPT ![n][u].at = "web", ![n][u].event = event, ![n][u].pending = left]
    BY DEF PushFcm
  <2> HIDE DEF left
  <2> QED
    BY <1>1, <2>1
<1>11. CASE PushWeb(n, u)
  BY <1>1, <1>11 DEF PushWeb
<1>7. CASE Pushed(n, u)
  BY <1>1, <1>7 DEF Pushed
<1>8. CASE SaveTasks(n, u) \/ SaveTable(n, u) \/ SaveDeadline(n, u) \/ SavePrints(n, u)
  BY <1>1, <1>8 DEF SaveTasks, SaveTable, SaveDeadline, SavePrints
<1>9. CASE Relogin(n, u)
  <2>1. CASE Done(n, u)
    BY <1>1, <2>1 DEF Done
  <2>2. ASSUME NEW fcm, NEW web, NEW pending,
               work' = [work EXCEPT ![n][u].at = "pushing", ![n][u].fcm = fcm,
                                    ![n][u].web = web, ![n][u].pending = pending]
        PROVE  OthersWork(n, u)
    BY <1>1, <2>2
  <2>3. CASE ~ relogin[u]
    <3>1. PICK fcm, web :
            work' = [work EXCEPT ![n][u].at = "pushing", ![n][u].fcm = fcm, ![n][u].web = web,
                                 ![n][u].pending = IF fcm \/ web THEN {SessionExpired} ELSE {}]
      BY <1>9, <2>3 DEF Relogin
    <3>2. PICK pending : pending = IF fcm \/ web THEN {SessionExpired} ELSE {}
      OBVIOUS
    <3> QED
      BY <2>2, <3>1, <3>2
  <2> QED
    BY <1>9, <2>1, <2>3 DEF Relogin
<1>10. CASE WorkDone(n, u) \/ UserSkipped(n, u) \/ CycleRejected(n, u)
  BY <1>1, <1>10 DEF WorkDone, UserSkipped, CycleRejected, Done
<1> QED
  BY <1>2, <1>3, <1>4, <1>5, <1>6, <1>7, <1>8, <1>9, <1>10, <1>11 DEF WorkStep

\* A worker that rejects its cycle takes the flag down: nobody may go on then.
LEMMA WorkKeepsOneCycle ==
    ASSUME OneCycle, RejectsAlone, NEW n \in Cycles, NEW u \in Users, WorkStep(n, u)
    PROVE  OneCycle'
<1>1. UNCHANGED <<now, lock>>
  BY DEF WorkStep, Devices, Fetched, FetchStale, ResetFlag, Detect, PushFcm, PushWeb,
         Pushed, SaveTasks, SaveTable, SaveDeadline, SavePrints, Relogin, SetFlag, WorkDone,
         UserSkipped, CycleRejected
<1>2. CASE CycleRejected(n, u) /\ cycle[n].at = "working"
  <2>1. /\ running' = FALSE /\ cycle' = [cycle EXCEPT ![n].at = "ended", ![n].todo = {}]
        /\ work' = [work EXCEPT ![n][u] = Off]
    BY <1>2 DEF CycleRejected, Finally, Done
  <2>2. \A v \in Users : work[n][v].at # "off" => v = u
    BY <1>2 DEF RejectsAlone, Working
  <2>3. /\ DOMAIN cycle' = Cycles /\ \A m \in Cycles : DOMAIN cycle'[m] = {"at", "todo", "budget"}
        /\ cycle'[n].at = "ended" /\ \A m \in Cycles \ {n} : cycle'[m] = cycle[m]
    BY <2>1 DEF OneCycle
  <2>4. \A m \in Cycles : cycle'[m].at \notin Entered
    BY <1>2, <2>3 DEF OneCycle, Entered
  <2>5. ASSUME NEW m \in Cycles, NEW v \in Users PROVE work'[m][v].at = "off"
    <3>1. work'[n][u].at = "off"
      BY <2>1 DEF OneCycle, Off
    <3>2. m # n \/ v # u => work'[m][v] = work[m][v]
      BY <2>1 DEF OneCycle
    <3>3. m # n => work[m][v].at = "off"
      BY <1>2 DEF OneCycle, Entered
    <3> QED
      BY <2>2, <3>1, <3>2, <3>3
  <2>6. DOMAIN work' = Cycles /\ \A m \in Cycles : DOMAIN work'[m] = Users
    BY WorkersOfOthers DEF OthersWork
  <2> QED
    BY <1>1, <2>1, <2>3, <2>4, <2>5, <2>6 DEF OneCycle, Entered
<1>3. CASE ~ (CycleRejected(n, u) /\ cycle[n].at = "working")
  <2>1. running' = running
    BY <1>3 DEF WorkStep, Devices, Fetched, FetchStale, ResetFlag, Detect, PushFcm, PushWeb,
         Pushed, SaveTasks, SaveTable, SaveDeadline, SavePrints, Relogin, SetFlag, WorkDone,
         UserSkipped, CycleRejected
  <2>2. /\ DOMAIN cycle' = Cycles
        /\ \A m \in Cycles : DOMAIN cycle'[m] = {"at", "todo", "budget"}
                             /\ cycle'[m].at = cycle[m].at
    <3>1. CASE UNCHANGED cycle
      BY <3>1 DEF OneCycle
    <3>2. CASE cycle' = [cycle EXCEPT ![n].budget = @ - 1]
      BY <3>2 DEF OneCycle
    <3> QED
      BY <1>3, <3>1, <3>2
      DEF WorkStep, Devices, Fetched, FetchStale, ResetFlag, Detect, PushFcm, PushWeb,
          Pushed, SaveTasks, SaveTable, SaveDeadline, SavePrints, Relogin, SetFlag, WorkDone,
          UserSkipped, CycleRejected
  <2>3. work'[n][u].at # "off" => cycle[n].at = "working"
    <3>1. CASE work[n][u].at # "off"
      BY <3>1 DEF OneCycle
    <3>2. CASE work[n][u].at = "off"
      <4>1. work' = [work EXCEPT ![n][u] = Off]
        BY <3>2
        DEF WorkStep, WorkerAt, Devices, Fetched, FetchStale, ResetFlag, Detect, PushFcm,
            PushWeb, Pushed, SaveTasks, SaveTable, SaveDeadline, SavePrints, Relogin, SetFlag,
            WorkDone, UserSkipped, CycleRejected, Done
      <4> QED
        BY <4>1 DEF OneCycle, Off
    <3> QED
      BY <3>1, <3>2
  <2>4. \A m \in Cycles, v \in Users : work'[m][v].at # "off" => cycle[m].at = "working"
    BY <2>3, WorkersOfOthers DEF OthersWork, OneCycle
  <2> QED
    BY <1>1, <2>1, <2>2, <2>4, WorkersOfOthers DEF OthersWork, OneCycle
<1> QED
  BY <1>2, <1>3

\* A cycle enters only when no other is in and the lock has been dropped.
LEMMA CycleKeepsOneCycle ==
    ASSUME PollerAssumption, OneCycle, NEW n \in Cycles, CycleStep(n)
    PROVE  OneCycle'
<1>1. /\ now \in Nat /\ lock \in Nat /\ running \in BOOLEAN /\ LockTtl \in Nat \ {0}
      /\ DOMAIN cycle = Cycles /\ DOMAIN cycle[n] = {"at", "todo", "budget"}
  BY DEF OneCycle, PollerAssumption
<1>2. EndedCycle.at = "ended" /\ DOMAIN EndedCycle = {"at", "todo", "budget"}
  BY DEF EndedCycle, Unused
<1>3. ASSUME NEW place
      PROVE  \E c : /\ [cycle EXCEPT ![n].at = place] = [cycle EXCEPT ![n] = c]
                    /\ DOMAIN c = {"at", "todo", "budget"} /\ c.at = place
  <2>1. PICK c : c = [cycle[n] EXCEPT !.at = place]
    OBVIOUS
  <2>2. DOMAIN c = {"at", "todo", "budget"} /\ c.at = place
    BY <1>1, <2>1
  <2>3. [cycle EXCEPT ![n].at = place] = [cycle EXCEPT ![n] = c]
    BY <1>1, <2>1
  <2> QED
    BY <2>2, <2>3
<1>4. CASE Enter(n)
  <2>1. cycle[n].at = "unused" /\ \A u \in Users : work[n][u].at = "off"
    BY <1>4 DEF Enter, IsNext, OneCycle
  <2>2. CASE running \/ now < lock
    <3>1. cycle' = [cycle EXCEPT ![n] = EndedCycle] /\ UNCHANGED <<now, lock, running, work>>
      BY <1>4, <2>2 DEF Enter
    <3>2. /\ DOMAIN cycle' = Cycles /\ cycle'[n] = EndedCycle
          /\ \A m \in Cycles \ {n} : cycle'[m] = cycle[m]
      BY <1>1, <3>1
    <3> QED
      BY <1>2, <2>1, <3>1, <3>2 DEF OneCycle, Entered
  <2>3. CASE ~ (running \/ now < lock)
    <3>1. /\ cycle' = [cycle EXCEPT ![n].at = "locking"] /\ lock' = now + LockTtl
          /\ UNCHANGED <<now, running, work>>
      BY <1>4, <2>3 DEF Enter
    <3>2. PICK c : /\ cycle' = [cycle EXCEPT ![n] = c]
                   /\ DOMAIN c = {"at", "todo", "budget"} /\ c.at = "locking"
      BY <1>3, <3>1
    <3>3. \A m \in Cycles : cycle[m].at \notin Entered
      BY <2>3 DEF OneCycle, Entered
    <3>4. lock' \in Nat /\ now < lock'
      BY <1>1, <3>1
    <3> QED
      <4>1. running' \in BOOLEAN /\ ~ running' /\ UNCHANGED <<now, work>>
        BY <1>1, <2>3, <3>1
      <4> QED
        BY <2>1, <3>2, <3>3, <3>4, <4>1, CycleGoes
  <2> QED
    BY <2>2, <2>3
<1>5. CASE Locked(n)
  <2>1. /\ cycle[n].at = "locking" /\ UNCHANGED <<now, lock, work>> /\ ~ running
        /\ \A u \in Users : work[n][u].at = "off"
    BY <1>5 DEF Locked, OneCycle
  <2>2. CASE running' = TRUE /\ cycle' = [cycle EXCEPT ![n].at = "listing"]
    <3>1. PICK c : /\ cycle' = [cycle EXCEPT ![n] = c]
                   /\ DOMAIN c = {"at", "todo", "budget"} /\ c.at = "listing"
      BY <1>3, <2>2
    <3>2. \A m \in Cycles \ {n} : cycle[m].at \notin Entered
      BY <2>1 DEF OneCycle, Entered
    <3>3. c.at \in Entered /\ c.at # "locking" /\ lock' \in Nat /\ running' \in BOOLEAN /\ running'
      BY <1>1, <2>1, <2>2, <3>1 DEF Entered
    <3> QED
      BY <2>1, <3>1, <3>2, <3>3, CycleGoes
  <2>3. CASE UNCHANGED running /\ cycle' = [cycle EXCEPT ![n] = EndedCycle]
    <3>1. /\ DOMAIN cycle' = Cycles /\ cycle'[n] = EndedCycle
          /\ \A m \in Cycles \ {n} : cycle'[m] = cycle[m]
      BY <1>1, <2>3
    <3>2. \A m \in Cycles : cycle'[m].at \notin Entered
      BY <1>2, <2>1, <3>1 DEF OneCycle, Entered
    <3> QED
      BY <1>2, <2>1, <2>3, <3>1, <3>2 DEF OneCycle, Entered
  <2> QED
    BY <1>5, <2>2, <2>3 DEF Locked
<1>6. CASE List(n)
  <2>1. PICK subs : cycle' = [cycle EXCEPT ![n] =
                                [at |-> "working", todo |-> subs, budget |-> Budget]]
    BY <1>6 DEF List
  <2>2. /\ cycle[n].at = "listing" /\ UNCHANGED <<now, lock, running, work>> /\ running
    BY <1>6 DEF List, OneCycle, Entered
  <2>3. PICK c : c = [at |-> "working", todo |-> subs, budget |-> Budget]
    OBVIOUS
  <2>4. /\ cycle' = [cycle EXCEPT ![n] = c] /\ c.at = "working"
        /\ DOMAIN c = {"at", "todo", "budget"}
    BY <2>1, <2>3
  <2> QED
    <3>2. \A m \in Cycles \ {n} : cycle[m].at \notin Entered
      BY <2>2 DEF OneCycle, Entered
    <3>3. c.at \in Entered /\ c.at # "locking" /\ lock' \in Nat /\ running' \in BOOLEAN /\ running'
      BY <1>1, <2>2, <2>4 DEF Entered
    <3> QED
      BY <2>2, <2>4, <3>2, <3>3, CycleGoes
<1>7. CASE Chunk(n)
  <2>1. /\ cycle[n].at = "working" /\ UNCHANGED <<now, lock, running>>
        /\ \A u \in Users : work[n][u].at = "off"
    BY <1>7 DEF Chunk, Working
  <2>2. PICK users :
          /\ cycle' = [cycle EXCEPT ![n].todo = @ \ users]
          /\ work' = [work EXCEPT ![n] =
                        [u \in Users |-> IF u \in users THEN [Off EXCEPT !.at = "devices"]
                                         ELSE Off]]
    BY <1>7 DEF Chunk
  <2>3. /\ DOMAIN cycle' = Cycles
        /\ \A m \in Cycles : /\ DOMAIN cycle'[m] = {"at", "todo", "budget"}
                             /\ cycle'[m].at = cycle[m].at
    BY <2>2 DEF OneCycle
  <2>4. /\ DOMAIN work' = Cycles /\ \A m \in Cycles : DOMAIN work'[m] = Users
        /\ \A m \in Cycles \ {n} : work'[m] = work[m]
    BY <2>2 DEF OneCycle
  <2> QED
    BY <2>1, <2>3, <2>4 DEF OneCycle
<1>8. CASE ChunksDone(n)
  <2>1. /\ cycle[n].at = "working" /\ UNCHANGED <<now, lock, running, work>> /\ running
        /\ \A u \in Users : work[n][u].at = "off"
    BY <1>8 DEF ChunksDone, Working, OneCycle, Entered
  <2>2. PICK c : /\ cycle' = [cycle EXCEPT ![n] = c]
                 /\ DOMAIN c = {"at", "todo", "budget"} /\ c.at = "unlocking"
    BY <1>3, <1>8 DEF ChunksDone
  <2> QED
    <3>2. \A m \in Cycles \ {n} : cycle[m].at \notin Entered
      BY <2>1 DEF OneCycle, Entered
    <3>3. c.at \in Entered /\ c.at # "locking" /\ lock' \in Nat /\ running' \in BOOLEAN /\ running'
      BY <1>1, <2>1, <2>2 DEF Entered
    <3> QED
      BY <2>1, <2>2, <3>2, <3>3, CycleGoes
<1>9. CASE Unlock(n) \/ CycleFails(n)
  <2>1. /\ cycle[n].at \in {"listing", "unlocking"} /\ UNCHANGED <<now, work>>
        /\ lock' \in Nat /\ running' = FALSE
        /\ cycle' = [cycle EXCEPT ![n].at = "ended", ![n].todo = {}]
        /\ \A u \in Users : work[n][u].at = "off"
    BY <1>1, <1>9 DEF Unlock, CycleFails, Finally, OneCycle
  <2>2. PICK c : c = [cycle[n] EXCEPT !.at = "ended", !.todo = {}]
    OBVIOUS
  <2>3. DOMAIN c = {"at", "todo", "budget"} /\ c.at = "ended"
    BY <1>1, <2>2
  <2>4. cycle' = [cycle EXCEPT ![n] = c]
    BY <1>1, <2>1, <2>2
  <2> QED
    <3>2. \A m \in Cycles \ {n} : cycle[m].at \notin Entered
      BY <2>1 DEF OneCycle, Entered
    <3>3. IF c.at = "locking" THEN now < lock' /\ ~ running' ELSE running' <=> c.at \in Entered
      BY <2>1, <2>3 DEF Entered
    <3>4. \A u \in Users : work[n][u].at # "off" => c.at = "working"
      BY <2>1
    <3>5. UNCHANGED <<now, work>> /\ lock' \in Nat /\ running' \in BOOLEAN
      BY <2>1
    <3> QED
      BY <2>3, <2>4, <3>2, <3>3, <3>4, <3>5, CycleGoes
<1> QED
  BY <1>4, <1>5, <1>6, <1>7, <1>8, <1>9 DEF CycleStep

LEMMA RestKeepsOneCycle ==
    ASSUME OneCycle, Tick \/ Restart \/ UNCHANGED pollVars
    PROVE  OneCycle'
<1>1. CASE Tick
  BY <1>1 DEF Tick, OneCycle
<1>2. CASE Restart
  <2>1. Unused.at = "unused" /\ DOMAIN Unused = {"at", "todo", "budget"}
        /\ EndedCycle.at = "ended" /\ DOMAIN EndedCycle = {"at", "todo", "budget"}
    BY DEF EndedCycle, Unused
  <2>2. /\ DOMAIN cycle' = Cycles
        /\ \A n \in Cycles : DOMAIN cycle'[n] = {"at", "todo", "budget"}
                             /\ cycle'[n].at \notin Entered
    BY <1>2, <2>1 DEF Restart, Entered
  <2>3. /\ DOMAIN work' = Cycles
        /\ \A n \in Cycles : DOMAIN work'[n] = Users /\ \A u \in Users : work'[n][u].at = "off"
    BY <1>2 DEF Restart, Off
  <2>4. running' = FALSE /\ UNCHANGED <<now, lock>>
    BY <1>2 DEF Restart
  <2> QED
    BY <2>2, <2>3, <2>4 DEF OneCycle, Entered
<1>3. CASE UNCHANGED pollVars
  BY <1>3 DEF pollVars, OneCycle
<1> QED
  BY <1>1, <1>2, <1>3

\* Lock and flag keep two cycles off one user (poller.service.ts:39), as long as no
\* cycle is rejected while another worker of its chunk goes on.
THEOREM OverlapNeedsAStraggler == MCPollSpec /\ [][RejectsAlone]_MCPollVars => []CyclesDoNotOverlap
<1>1. MCPollInit => OneCycle
  <2>1. Unused.at = "unused" /\ DOMAIN Unused = {"at", "todo", "budget"} /\ Off.at = "off"
    BY DEF Unused, Off
  <2> SUFFICES ASSUME MCPollInit PROVE OneCycle
    OBVIOUS
  <2>2. /\ now = 0 /\ lock = 0 /\ running = FALSE /\ cycle = [n \in Cycles |-> Unused]
        /\ work = [n \in Cycles |-> [u \in Users |-> Off]]
    BY DEF MCPollInit, PollInit, SavedInit
  <2> QED
    BY <2>1, <2>2 DEF OneCycle, Entered
<1>2. OneCycle /\ [MCPollNext]_MCPollVars /\ [RejectsAlone]_MCPollVars => OneCycle'
  <2> SUFFICES ASSUME OneCycle, [MCPollNext]_MCPollVars, [RejectsAlone]_MCPollVars
               PROVE  OneCycle'
    OBVIOUS
  <2>1. CASE UNCHANGED MCPollVars
    BY <2>1, RestKeepsOneCycle DEF MCPollVars
  <2>2. CASE MCPollNext /\ RejectsAlone
    <3>1. ASSUME NEW n \in Cycles, NEW u \in Users, MCWork(n, u)
          PROVE  OneCycle'
      <4>1. WorkStep(n, u)
        BY <3>1 DEF MCWork, WorkStep
      <4> QED
        BY <2>2, <4>1, WorkKeepsOneCycle
    <3> QED
      BY <2>2, <3>1, CycleKeepsOneCycle, RestKeepsOneCycle, PollerAssumption DEF MCPollNext
  <2> QED
    BY <2>1, <2>2
<1>3. OneCycle => CyclesDoNotOverlap
  BY DEF OneCycle, CyclesDoNotOverlap, Entered
<1> QED
  BY <1>1, <1>2, <1>3, PTL DEF MCPollSpec

-----------------------------------------------------------------------------
(***************************************************************************)
(* What a worker pushes is not saved yet when it is pushed and is saved    *)
(* when the worker ends: everything pending is new to what is saved, the   *)
(* worker carries what it will save, and what it will save shows all it    *)
(* has pushed.  A new task of the list is pending, pushed or dropped until *)
(* the list is saved.                                                      *)
(***************************************************************************)

WorkFields ==
    {"at", "expired", "fcm", "web", "tasks", "due", "table", "pending", "event",
     "validTasks", "validTable", "keys", "prints"}

\* What a worker knows of what it has pushed: which kind of event it is.
IsEvent(event) ==
    /\ event.kind \in {"new_task", "deadline_reached", "reschedule", "session_expired"}
    /\ event.kind = "session_expired" <=> event = SessionExpired

PollIsTyped ==
    /\ DOMAIN cycle = Cycles /\ DOMAIN work = Cycles
    /\ \A n \in Cycles : /\ DOMAIN cycle[n] = {"at", "todo", "budget"}
                         /\ cycle[n].budget \in Nat
                         /\ DOMAIN work[n] = Users
    /\ \A n \in Cycles, u \in Users : DOMAIN work[n][u] = WorkFields
    /\ DOMAIN snapTasks = Users /\ DOMAIN snapTable = Users /\ DOMAIN sentDeadline = Users
    /\ DOMAIN sentPrints = Users /\ DOMAIN relogin = Users
    /\ DOMAIN fresh = Users /\ DOMAIN settled = Users /\ DOMAIN dropped = Users
    /\ \A u \in Users : \A event \in fresh[u] \cup settled[u] : IsEvent(event)

\* What is saved shows that an event of this kind needs no push.
IsSaved(u, event) ==
    /\ event.kind = "new_task" => event.what \in snapTasks[u]
    /\ event.kind = "deadline_reached" => event.what \in sentDeadline[u]
    /\ event.kind = "reschedule" => event.what \in sentPrints[u]
    /\ event.kind = "session_expired" => relogin[u]

Pushing == {"pushing", "web"}
ToSaveTasks == Pushing \cup {"saveTasks"}
ToSaveDeadline == ToSaveTasks \cup {"saveTable", "saveDeadline"}
ToSavePrints == ToSaveDeadline \cup {"savePrints"}

\* ... or will show it when the worker comes to its end.
WillBeSaved(w, u, event) ==
    /\ event.kind = "new_task" /\ w.at \in ToSaveTasks =>
          w.validTasks /\ event.what \in w.tasks
    /\ event.kind = "deadline_reached" /\ w.at \in ToSaveDeadline => event.what \in w.keys
    /\ event.kind = "reschedule" /\ w.at \in ToSavePrints => event.what \in w.prints
    /\ \/ event.kind = "new_task" /\ w.at \in ToSaveTasks
       \/ event.kind = "deadline_reached" /\ w.at \in ToSaveDeadline
       \/ event.kind = "reschedule" /\ w.at \in ToSavePrints
       \/ event.kind = "session_expired" /\ w.at # "ending"
       \/ IsSaved(u, event)

WorkerPlaces(w) ==
    /\ w.pending # {} => w.at \in Pushing
    /\ w.expired => w.at \in Pushing \cup {"relogin", "flagging", "ending"}
    /\ ~ w.expired =>
          w.at \in {"devices", "fetching", "flag", "detecting", "ending"} \cup ToSavePrints

KeepsWhatWasSent(w, u) ==
    ~ w.expired =>
      /\ w.at \in ToSaveDeadline => sentDeadline[u] \subseteq w.keys
      /\ w.at \in ToSavePrints => sentPrints[u] \subseteq w.prints

PushesOnce(w, u) ==
    /\ w.at \in {"devices", "fetching", "flag", "detecting", "relogin"} => fresh[u] = {}
    /\ \A event \in w.pending : IsEvent(event) /\ ~ IsSaved(u, event) /\ event \notin fresh[u]
    /\ \A event \in w.pending \cup fresh[u] :
          (event.kind = "session_expired" <=> w.expired) /\ WillBeSaved(w, u, event)

HasTargets(w) ==
    \/ w.at \in {"fetching", "flag", "detecting"}
    \/ ~ w.expired /\ w.at \in Pushing
    => w.fcm \/ w.web

TellsNewTasks(w, u, budget) ==
    ~ w.expired /\ w.validTasks /\ snapTasks[u] # Null /\ w.at \in ToSaveTasks =>
      \A t \in w.tasks \ snapTasks[u] :
         \/ Event("new_task", t) \in w.pending \cup fresh[u] \cup dropped[u]
         \/ w.at = "web" /\ w.event = Event("new_task", t) /\ w.web /\ budget = 0

\* What holds of the worker w of u in the n-th cycle, until it is off.
WorkerOK(n, u, w) ==
    /\ WorkerPlaces(w) /\ KeepsWhatWasSent(w, u) /\ PushesOnce(w, u) /\ HasTargets(w)
    /\ TellsNewTasks(w, u, cycle[n].budget)
    /\ cycle[n].at \in {"working", "ended"}

PollInv ==
    /\ PollIsTyped
    /\ \A n \in Cycles, u \in Users :
         IF work[n][u].at = "off" THEN ~ work[n][u].expired ELSE WorkerOK(n, u, work[n][u])
    /\ \A u \in Users : \A event \in settled[u] : IsSaved(u, event)
    /\ \A u \in Users : (\A n \in Cycles : work[n][u].at = "off") => fresh[u] = {}

\* What a step of the worker for u leaves to the others ...
OthersKeep(u) ==
    /\ DOMAIN snapTasks' = Users /\ DOMAIN snapTable' = Users /\ DOMAIN sentDeadline' = Users
    /\ DOMAIN sentPrints' = Users /\ DOMAIN relogin' = Users
    /\ DOMAIN fresh' = Users /\ DOMAIN settled' = Users /\ DOMAIN dropped' = Users
    /\ \A v \in Users \ {u} :
         /\ snapTasks'[v] = snapTasks[v] /\ sentDeadline'[v] = sentDeadline[v]
         /\ sentPrints'[v] = sentPrints[v] /\ relogin'[v] = relogin[v]
         /\ fresh'[v] = fresh[v] /\ settled'[v] = settled[v] /\ dropped'[v] = dropped[v]

\* ... and what it may do to the cycles.
CyclesKeep ==
    /\ DOMAIN cycle' = Cycles
    /\ \A m \in Cycles : /\ DOMAIN cycle'[m] = DOMAIN cycle[m] /\ cycle'[m].budget \in Nat
                         /\ cycle[m].budget = 0 => cycle'[m].budget = 0
                         /\ cycle'[m].at \in {cycle[m].at, "ended"}

\* A step of one worker keeps the invariant if it leaves the others what they have:
\* as the cycles do not overlap, the keys of its user are its own.
LEMMA OneWorker ==
    ASSUME PollInv, CyclesDoNotOverlap, NEW n \in Cycles, NEW u \in Users,
           work[n][u].at # "off", NEW w, work' = [work EXCEPT ![n][u] = w],
           DOMAIN w = WorkFields,
           CyclesKeep, OthersKeep(u),
           \A event \in fresh'[u] \cup settled'[u] : IsEvent(event),
           IF w.at = "off" THEN fresh'[u] = {} /\ ~ w.expired ELSE WorkerOK(n, u, w)',
           \A event \in settled'[u] : IsSaved(u, event)'
    PROVE  PollInv'
<1>1. /\ work'[n][u] = w
      /\ DOMAIN work' = Cycles /\ \A m \in Cycles : DOMAIN work'[m] = Users
      /\ \A m \in Cycles, v \in Users : m # n \/ v # u => work'[m][v] = work[m][v]
  BY DEF PollInv, PollIsTyped
<1>2. \A m \in Cycles : m # n => work[m][u].at = "off"
  BY DEF CyclesDoNotOverlap
<1>3. PollIsTyped'
  BY <1>1 DEF PollInv, PollIsTyped, CyclesKeep, OthersKeep
<1>4. ASSUME NEW m \in Cycles, NEW v \in Users \ {u}, work[m][v].at # "off"
      PROVE  WorkerOK(m, v, work[m][v])'
  <2>1. WorkerOK(m, v, work[m][v]) /\ work'[m][v] = work[m][v]
    BY <1>1, <1>4 DEF PollInv
  <2> DEFINE w2 == work[m][v]
  <2>2. WorkerPlaces(w2)' /\ KeepsWhatWasSent(w2, v)' /\ HasTargets(w2)' /\ PushesOnce(w2, v)'
    BY <2>1, SMTT(20) DEF OthersKeep, WorkerOK, WorkerPlaces, KeepsWhatWasSent, HasTargets, PushesOnce,
         WillBeSaved, IsSaved
  <2>3. TellsNewTasks(w2, v, cycle[m].budget)'
    BY <2>1 DEF OthersKeep, CyclesKeep, WorkerOK, TellsNewTasks
  <2>4. cycle'[m].at \in {"working", "ended"}
    BY <2>1 DEF WorkerOK, CyclesKeep
  <2> QED
    BY <2>1, <2>2, <2>3, <2>4 DEF WorkerOK
<1>5. \A v \in Users : \A event \in settled'[v] : IsSaved(v, event)'
  BY DEF PollInv, IsSaved, OthersKeep
<1> QED
  BY <1>1, <1>2, <1>3, <1>4, <1>5 DEF PollInv, OthersKeep

\* What the invariant says of a worker.
LEMMA WorkerIsOK ==
    ASSUME PollInv, NEW n \in Cycles, NEW u \in Users, work[n][u].at # "off"
    PROVE  /\ WorkerPlaces(work[n][u]) /\ KeepsWhatWasSent(work[n][u], u)
           /\ PushesOnce(work[n][u], u) /\ HasTargets(work[n][u])
           /\ TellsNewTasks(work[n][u], u, cycle[n].budget)
           /\ cycle[n].at \in {"working", "ended"}
           /\ DOMAIN work[n][u] = WorkFields
           /\ \A event \in settled[u] : IsSaved(u, event) /\ IsEvent(event)
           /\ \A event \in fresh[u] : IsEvent(event)
  BY DEF PollInv, WorkerOK, PollIsTyped

\* A step of a worker that changes nothing but the worker.
LEMMA QuietStep ==
    ASSUME PollInv, CyclesDoNotOverlap, NEW n \in Cycles, NEW u \in Users,
           work[n][u].at # "off", NEW w, work' = [work EXCEPT ![n][u] = w],
           DOMAIN w = WorkFields, UNCHANGED <<cycle, savedVars, historyVars>>,
           w.at = "off" => fresh[u] = {} /\ ~ w.expired,
           w.at # "off" => /\ WorkerPlaces(w) /\ KeepsWhatWasSent(w, u) /\ PushesOnce(w, u)
                          /\ HasTargets(w) /\ TellsNewTasks(w, u, cycle[n].budget)
    PROVE  PollInv'
<1>1. /\ UNCHANGED <<cycle, snapTasks, snapTable, sentDeadline, sentPrints, relogin>>
      /\ UNCHANGED <<fresh, settled, dropped>>
  BY DEF savedVars, historyVars
<1>2. /\ DOMAIN cycle = Cycles
      /\ \A m \in Cycles : cycle[m].budget \in Nat
      /\ DOMAIN snapTasks = Users /\ DOMAIN snapTable = Users /\ DOMAIN sentDeadline = Users
      /\ DOMAIN sentPrints = Users /\ DOMAIN relogin = Users
      /\ DOMAIN fresh = Users /\ DOMAIN settled = Users /\ DOMAIN dropped = Users
      /\ \A event \in fresh[u] \cup settled[u] : IsEvent(event)
  BY DEF PollInv, PollIsTyped
<1>3. w.at # "off" => WorkerOK(n, u, w)'
  <2> SUFFICES ASSUME w.at # "off" PROVE WorkerOK(n, u, w)'
    OBVIOUS
  <2>1. cycle[n].at \in {"working", "ended"}
    BY WorkerIsOK
  <2>2. WorkerPlaces(w)' /\ KeepsWhatWasSent(w, u)' /\ HasTargets(w)' /\ PushesOnce(w, u)'
    BY <1>1 DEF WorkerPlaces, KeepsWhatWasSent, HasTargets, PushesOnce, WillBeSaved, IsSaved
  <2>3. TellsNewTasks(w, u, cycle[n].budget)'
    BY <1>1 DEF TellsNewTasks
  <2> QED
    BY <1>1, <2>1, <2>2, <2>3 DEF WorkerOK
<1>4. \A event \in settled'[u] : IsSaved(u, event)'
  BY <1>1 DEF PollInv, IsSaved
<1>5. CyclesKeep /\ OthersKeep(u)
  BY <1>1, <1>2 DEF CyclesKeep, OthersKeep
<1>6. \A event \in fresh'[u] \cup settled'[u] : IsEvent(event)
  BY <1>1, <1>2
<1> QED
  BY <1>1, <1>3, <1>4, <1>5, <1>6, OneWorker

LEMMA OffIsTyped == DOMAIN Off = WorkFields /\ Off.at = "off" /\ ~ Off.expired /\ Off.pending = {}
  BY DEF Off, WorkFields

\* One lemma for each step of a worker.
LEMMA DevicesKeeps ==
    ASSUME PollInv, CyclesDoNotOverlap, NEW n \in Cycles, NEW u \in Users, Devices(n, u),
           UNCHANGED historyVars
    PROVE  PollInv'
<1>1. work[n][u].at = "devices" /\ UNCHANGED <<cycle, savedVars>>
  BY DEF Devices, WorkerAt
<1>2. /\ ~ work[n][u].expired /\ work[n][u].pending = {} /\ fresh[u] = {}
      /\ DOMAIN work[n][u] = WorkFields
  BY <1>1, WorkerIsOK DEF WorkerPlaces, PushesOnce, Pushing
<1>3. CASE Done(n, u)
  BY <1>1, <1>2, <1>3, OffIsTyped, QuietStep DEF Done
<1>4. ASSUME NEW fcm \in BOOLEAN, NEW web \in BOOLEAN, fcm \/ web,
             work' = [work EXCEPT ![n][u].at = "fetching", ![n][u].fcm = fcm, ![n][u].web = web]
      PROVE  PollInv'
  <2> DEFINE w == [work[n][u] EXCEPT !.at = "fetching", !.fcm = fcm, !.web = web]
  <2>1. work' = [work EXCEPT ![n][u] = w]
    BY <1>4 DEF PollInv, PollIsTyped
  <2>2. /\ DOMAIN w = WorkFields /\ w.at = "fetching" /\ ~ w.expired /\ w.pending = {}
        /\ w.fcm \/ w.web
    BY <1>2, <1>4 DEF WorkFields
  <2> HIDE DEF w
  <2>3. WorkerPlaces(w) /\ KeepsWhatWasSent(w, u) /\ PushesOnce(w, u) /\ HasTargets(w)
        /\ TellsNewTasks(w, u, cycle[n].budget)
    BY <1>2, <2>2 DEF WorkerPlaces, KeepsWhatWasSent, PushesOnce, HasTargets, TellsNewTasks,
         Pushing, ToSaveTasks, ToSaveDeadline, ToSavePrints
  <2> QED
    BY <1>1, <2>1, <2>2, <2>3, QuietStep
<1> QED
  BY <1>3, <1>4 DEF Devices

LEMMA FetchedKeeps ==
    ASSUME PollInv, CyclesDoNotOverlap, NEW n \in Cycles, NEW u \in Users, Fetched(n, u),
           UNCHANGED historyVars
    PROVE  PollInv'
<1>1. PICK tasks, due, table :
        work' = [work EXCEPT ![n][u].at = "flag", ![n][u].tasks = tasks,
                             ![n][u].due = due, ![n][u].table = table]
  BY DEF Fetched
<1>2. work[n][u].at = "fetching" /\ UNCHANGED <<cycle, savedVars>>
  BY DEF Fetched, WorkerAt
<1>3. /\ ~ work[n][u].expired /\ work[n][u].pending = {} /\ fresh[u] = {}
      /\ DOMAIN work[n][u] = WorkFields /\ (work[n][u].fcm \/ work[n][u].web)
  BY <1>2, WorkerIsOK DEF WorkerPlaces, PushesOnce, Pushing, HasTargets
<1> DEFINE w == [work[n][u] EXCEPT !.at = "flag", !.tasks = tasks, !.due = due, !.table = table]
<1>4. work' = [work EXCEPT ![n][u] = w]
  BY <1>1 DEF PollInv, PollIsTyped
<1>5. /\ DOMAIN w = WorkFields /\ w.at = "flag" /\ ~ w.expired /\ w.pending = {}
      /\ w.fcm \/ w.web
  BY <1>3 DEF WorkFields
<1> HIDE DEF w
<1>6. WorkerPlaces(w) /\ KeepsWhatWasSent(w, u) /\ PushesOnce(w, u) /\ HasTargets(w)
      /\ TellsNewTasks(w, u, cycle[n].budget)
  BY <1>3, <1>5 DEF WorkerPlaces, KeepsWhatWasSent, PushesOnce, HasTargets, TellsNewTasks,
       Pushing, ToSaveTasks, ToSaveDeadline, ToSavePrints
<1> QED
  BY <1>2, <1>4, <1>5, <1>6, QuietStep

LEMMA FetchStaleKeeps ==
    ASSUME PollInv, CyclesDoNotOverlap, NEW n \in Cycles, NEW u \in Users, FetchStale(n, u),
           UNCHANGED historyVars
    PROVE  PollInv'
<1> DEFINE w == [Off EXCEPT !.at = "relogin", !.expired = TRUE]
<1>1. /\ work[n][u].at = "fetching" /\ UNCHANGED <<cycle, savedVars>>
      /\ work' = [work EXCEPT ![n][u] = w]
  BY DEF FetchStale, WorkerAt
<1>2. fresh[u] = {}
  BY <1>1, WorkerIsOK DEF PushesOnce
<1>3. DOMAIN w = WorkFields /\ w.at = "relogin" /\ w.expired /\ w.pending = {}
  BY OffIsTyped DEF WorkFields
<1> HIDE DEF w
<1>4. WorkerPlaces(w) /\ KeepsWhatWasSent(w, u) /\ PushesOnce(w, u) /\ HasTargets(w)
      /\ TellsNewTasks(w, u, cycle[n].budget)
  BY <1>2, <1>3 DEF WorkerPlaces, KeepsWhatWasSent, PushesOnce, HasTargets, TellsNewTasks,
       Pushing, ToSaveTasks, ToSaveDeadline, ToSavePrints
<1> QED
  BY <1>1, <1>3, <1>4, QuietStep

LEMMA ReloginKeeps ==
    ASSUME PollInv, CyclesDoNotOverlap, NEW n \in Cycles, NEW u \in Users, Relogin(n, u),
           UNCHANGED historyVars
    PROVE  PollInv'
<1>1. work[n][u].at = "relogin" /\ UNCHANGED <<cycle, savedVars>>
  BY DEF Relogin, WorkerAt
<1>2. fresh[u] = {} /\ work[n][u].expired /\ DOMAIN work[n][u] = WorkFields
  <2>1. WorkerPlaces(work[n][u]) /\ PushesOnce(work[n][u], u) /\ DOMAIN work[n][u] = WorkFields
    BY <1>1, WorkerIsOK
  <2> QED
    BY <1>1, <2>1 DEF PushesOnce, WorkerPlaces, ToSavePrints, ToSaveDeadline, ToSaveTasks, Pushing
<1>3. CASE Done(n, u)
  BY <1>1, <1>2, <1>3, OffIsTyped, QuietStep DEF Done
<1>4. ASSUME NEW fcm \in BOOLEAN, NEW web \in BOOLEAN, ~ relogin[u],
             work' = [work EXCEPT ![n][u].at = "pushing", ![n][u].fcm = fcm, ![n][u].web = web,
                                  ![n][u].pending = IF fcm \/ web THEN {SessionExpired} ELSE {}]
      PROVE  PollInv'
  <2> DEFINE pending == IF fcm \/ web THEN {SessionExpired} ELSE {}
             w == [work[n][u] EXCEPT !.at = "pushing", !.fcm = fcm, !.web = web,
                     !.pending = pending]
  <2>0. pending \subseteq {SessionExpired}
    OBVIOUS
  <2>a. work' = [work EXCEPT ![n][u].at = "pushing", ![n][u].fcm = fcm, ![n][u].web = web,
                             ![n][u].pending = pending]
    BY <1>4
  <2> HIDE DEF pending
  <2>1. work' = [work EXCEPT ![n][u] = w]
    BY <2>a DEF PollInv, PollIsTyped
  <2>2. /\ DOMAIN w = WorkFields /\ w.at = "pushing" /\ w.expired
        /\ w.pending \subseteq {SessionExpired}
    BY <1>2, <2>0 DEF WorkFields
  <2>3. SessionExpired.kind = "session_expired" /\ IsEvent(SessionExpired)
    BY DEF SessionExpired, IsEvent
  <2> HIDE DEF w
  <2>4. PushesOnce(w, u)
    BY <1>2, <1>4, <2>2, <2>3 DEF PushesOnce, WillBeSaved, IsSaved
  <2>5. WorkerPlaces(w) /\ KeepsWhatWasSent(w, u) /\ HasTargets(w)
        /\ TellsNewTasks(w, u, cycle[n].budget)
    BY <2>2 DEF WorkerPlaces, KeepsWhatWasSent, HasTargets, TellsNewTasks, Pushing
  <2> QED
    BY <1>1, <2>1, <2>2, <2>4, <2>5, QuietStep
<1> QED
  BY <1>3, <1>4 DEF Relogin

LEMMA EventHasParts ==
    ASSUME NEW kind, NEW what
    PROVE  Event(kind, what).kind = kind /\ Event(kind, what).what = what
  BY DEF Event

\* What is pending is not saved, and will be: the keys and the prints to save extend
\* those that are saved.
LEMMA DetectKeeps ==
    ASSUME PollInv, CyclesDoNotOverlap, NEW n \in Cycles, NEW u \in Users, Detect(n, u),
           UNCHANGED historyVars
    PROVE  PollInv'
<1> DEFINE old == work[n][u]
           usable == TasksValid(u, old.tasks)
           new == NewTasks(u, old.tasks)
           moved == NewPrints(u, old.table)
           keys == sentDeadline[u] \cup old.due
           pending == {Event("new_task", t) : t \in new}
                      \cup {Event("reschedule", p) : p \in moved}
                      \cup {Event("deadline_reached", t) : t \in old.due \ sentDeadline[u]}
           w == [old EXCEPT !.at = "pushing", !.due = {}, !.validTasks = usable,
                   !.validTable = TableValid(u, old.table), !.keys = keys,
                   !.prints = sentPrints[u] \cup moved, !.pending = pending]
<1>1. /\ old.at = "detecting" /\ UNCHANGED <<cycle, savedVars>>
      /\ work' = [work EXCEPT ![n][u] = w]
  BY DEF Detect, WorkerAt
<1>2. /\ fresh[u] = {} /\ ~ old.expired /\ DOMAIN old = WorkFields /\ (old.fcm \/ old.web)
  BY <1>1, WorkerIsOK DEF PushesOnce, WorkerPlaces, Pushing, HasTargets
<1>3. /\ new \subseteq old.tasks
      /\ new # {} => usable /\ snapTasks[u] # Null
      /\ usable /\ snapTasks[u] # Null => new = old.tasks \ snapTasks[u]
      /\ \A t \in new : t \notin snapTasks[u]
      /\ moved \cap sentPrints[u] = {}
  BY DEF NewTasks, NewPrints
<1>4. ASSUME NEW event \in pending
      PROVE  /\ \/ event.kind = "new_task" /\ event.what \in new
                \/ event.kind = "reschedule" /\ event.what \in moved
                \/ event.kind = "deadline_reached" /\ event.what \in old.due \ sentDeadline[u]
             /\ IsEvent(event)
  <2>1. \/ event.kind = "new_task" /\ event.what \in new
        \/ event.kind = "reschedule" /\ event.what \in moved
        \/ event.kind = "deadline_reached" /\ event.what \in old.due \ sentDeadline[u]
    BY <1>4, EventHasParts
  <2>2. SessionExpired.kind = "session_expired"
    BY DEF SessionExpired
  <2> QED
    BY <2>1, <2>2 DEF IsEvent
<1> HIDE DEF usable, new, moved, pending
<1>5. /\ DOMAIN w = WorkFields /\ w.at = "pushing" /\ ~ w.expired /\ w.tasks = old.tasks
      /\ w.validTasks = usable /\ w.keys = keys /\ w.prints = sentPrints[u] \cup moved
      /\ w.pending = pending /\ w.fcm = old.fcm /\ w.web = old.web
  BY <1>2 DEF WorkFields
<1> HIDE DEF w
<1>6. WorkerPlaces(w) /\ KeepsWhatWasSent(w, u) /\ HasTargets(w)
  BY <1>2, <1>5
  DEF WorkerPlaces, KeepsWhatWasSent, HasTargets, Pushing, ToSaveTasks, ToSaveDeadline,
      ToSavePrints
<1>7. ASSUME NEW event \in pending
      PROVE  ~ IsSaved(u, event) /\ WillBeSaved(w, u, event)
  <2>1. CASE event.kind = "new_task" /\ event.what \in new
    BY <1>3, <1>5, <2>1 DEF IsSaved, WillBeSaved, ToSaveTasks, Pushing
  <2>2. CASE event.kind = "reschedule" /\ event.what \in moved
    BY <1>3, <1>5, <2>2
    DEF IsSaved, WillBeSaved, ToSavePrints, ToSaveDeadline, ToSaveTasks, Pushing
  <2>3. CASE event.kind = "deadline_reached" /\ event.what \in old.due \ sentDeadline[u]
    BY <1>5, <2>3 DEF IsSaved, WillBeSaved, ToSaveDeadline, ToSaveTasks, Pushing
  <2> QED
    BY <1>4, <2>1, <2>2, <2>3
<1>8. PushesOnce(w, u)
  BY <1>2, <1>4, <1>5, <1>7 DEF PushesOnce
<1>9. TellsNewTasks(w, u, cycle[n].budget)
  <2>1. \A t \in new : Event("new_task", t) \in pending
    BY DEF pending
  <2> QED
    BY <1>3, <1>5, <2>1 DEF TellsNewTasks
<1> QED
  BY <1>1, <1>5, <1>6, <1>8, <1>9, QuietStep

LEMMA PushedKeeps ==
    ASSUME PollInv, CyclesDoNotOverlap, NEW n \in Cycles, NEW u \in Users, Pushed(n, u),
           UNCHANGED historyVars
    PROVE  PollInv'
<1> DEFINE old == work[n][u]
           w == [old EXCEPT !.fcm = FALSE, !.web = FALSE,
                            !.at = IF old.expired THEN "flagging" ELSE "saveTasks"]
<1>1. /\ old.at = "pushing" /\ old.pending = {} /\ UNCHANGED <<cycle, savedVars>>
      /\ work' = [work EXCEPT ![n][u].fcm = FALSE, ![n][u].web = FALSE, ![n][u].at =
                    IF old.expired THEN "flagging" ELSE "saveTasks"]
  BY DEF Pushed, WorkerAt
<1>2. /\ WorkerPlaces(old) /\ KeepsWhatWasSent(old, u) /\ PushesOnce(old, u)
      /\ TellsNewTasks(old, u, cycle[n].budget) /\ DOMAIN old = WorkFields
      /\ \A event \in fresh[u] : IsEvent(event)
  BY <1>1, WorkerIsOK
<1>3. work' = [work EXCEPT ![n][u] = w]
  BY <1>1 DEF PollInv, PollIsTyped
<1>4. /\ DOMAIN w = WorkFields /\ w.at = IF old.expired THEN "flagging" ELSE "saveTasks"
      /\ w.expired = old.expired /\ w.tasks = old.tasks /\ w.validTasks = old.validTasks
      /\ w.keys = old.keys /\ w.prints = old.prints /\ w.pending = {}
  BY <1>1, <1>2 DEF WorkFields
<1> HIDE DEF w
<1>5. WorkerPlaces(w) /\ HasTargets(w)
  BY <1>4 DEF WorkerPlaces, HasTargets, ToSavePrints, ToSaveDeadline, ToSaveTasks, Pushing
<1>6. KeepsWhatWasSent(w, u)
  BY <1>1, <1>2, <1>4 DEF KeepsWhatWasSent, ToSavePrints, ToSaveDeadline, ToSaveTasks, Pushing
<1>7. ASSUME NEW event \in fresh[u]
      PROVE  (event.kind = "session_expired" <=> w.expired) /\ WillBeSaved(w, u, event)
  <2>1. (event.kind = "session_expired" <=> old.expired) /\ WillBeSaved(old, u, event)
        /\ IsEvent(event)
    BY <1>2 DEF PushesOnce
  <2> QED
    BY <1>1, <1>4, <2>1
    DEF IsEvent, WillBeSaved, ToSavePrints, ToSaveDeadline, ToSaveTasks, Pushing
<1>8. PushesOnce(w, u)
  BY <1>4, <1>7 DEF PushesOnce
<1>9. TellsNewTasks(w, u, cycle[n].budget)
  BY <1>1, <1>2, <1>4 DEF TellsNewTasks, ToSaveTasks, Pushing
<1> QED
  BY <1>1, <1>3, <1>4, <1>5, <1>6, <1>8, <1>9, QuietStep

\* The event moves from what is pending to what has been pushed, or is a task no
\* web push is left for.
LEMMA PushFcmKeeps ==
    ASSUME PollInv, CyclesDoNotOverlap, NEW n \in Cycles, NEW u \in Users,
           NEW event \in work[n][u].pending, PushFcm(n, u, event),
           fresh' = [fresh EXCEPT ![u] = IF Reaches(n, u) THEN @ \cup {event} ELSE @],
           UNCHANGED <<settled, dropped>>
    PROVE  PollInv'
<1> DEFINE old == work[n][u]
<1> PICK w : w = [old EXCEPT !.at = "web", !.event = event, !.pending = @ \ {event}]
  OBVIOUS
<1>1. /\ old.at = "pushing" /\ UNCHANGED <<cycle, savedVars>>
      /\ work' = [work EXCEPT ![n][u].at = "web", ![n][u].event = event,
                              ![n][u].pending = @ \ {event}]
  BY DEF PushFcm, WorkerAt
<1>2. /\ WorkerPlaces(old) /\ KeepsWhatWasSent(old, u) /\ PushesOnce(old, u) /\ HasTargets(old)
      /\ TellsNewTasks(old, u, cycle[n].budget) /\ DOMAIN old = WorkFields
      /\ \A e \in fresh[u] : IsEvent(e)
      /\ \A e \in settled[u] : IsSaved(u, e) /\ IsEvent(e)
  BY <1>1, WorkerIsOK
<1>3. work' = [work EXCEPT ![n][u] = w]
  BY <1>1 DEF PollInv, PollIsTyped
<1>4. /\ DOMAIN w = WorkFields /\ w.at = "web" /\ w.event = event
      /\ w.expired = old.expired /\ w.tasks = old.tasks /\ w.validTasks = old.validTasks
      /\ w.keys = old.keys /\ w.prints = old.prints /\ w.pending = old.pending \ {event}
      /\ w.fcm = old.fcm /\ w.web = old.web
  BY <1>1, <1>2 DEF WorkFields
<1>5. /\ UNCHANGED <<cycle, snapTasks, snapTable, sentDeadline, sentPrints, relogin>>
      /\ UNCHANGED <<settled, dropped>>
  BY <1>1 DEF savedVars
<1>6. /\ DOMAIN cycle = Cycles /\ \A m \in Cycles : cycle[m].budget \in Nat
      /\ DOMAIN snapTasks = Users /\ DOMAIN snapTable = Users /\ DOMAIN sentDeadline = Users
      /\ DOMAIN sentPrints = Users /\ DOMAIN relogin = Users
      /\ DOMAIN fresh = Users /\ DOMAIN settled = Users /\ DOMAIN dropped = Users
  BY DEF PollInv, PollIsTyped
<1>7. /\ fresh'[u] = IF Reaches(n, u) THEN fresh[u] \cup {event} ELSE fresh[u]
      /\ \A v \in Users \ {u} : fresh'[v] = fresh[v]
      /\ DOMAIN fresh' = Users
  BY <1>6
<1>8. \A e \in fresh'[u] \cup settled'[u] : IsEvent(e)
  BY <1>2, <1>5, <1>7 DEF PushesOnce
<1>9. WorkerPlaces(w)' /\ HasTargets(w)'
  BY <1>1, <1>2, <1>4
  DEF WorkerPlaces, HasTargets, ToSavePrints, ToSaveDeadline, ToSaveTasks, Pushing
<1>10. KeepsWhatWasSent(w, u)'
  BY <1>1, <1>2, <1>4, <1>5
  DEF KeepsWhatWasSent, ToSavePrints, ToSaveDeadline, ToSaveTasks, Pushing
<1>11. PushesOnce(w, u)'
  <2>1. ASSUME NEW e \in w.pending
        PROVE  IsEvent(e) /\ ~ IsSaved(u, e)' /\ e \notin fresh'[u]
    BY <1>2, <1>4, <1>5, <1>7 DEF PushesOnce, IsSaved
  <2>2. ASSUME NEW e \in w.pending \cup fresh'[u]
        PROVE  (e.kind = "session_expired" <=> w.expired) /\ WillBeSaved(w, u, e)'
    <3>1. e \in old.pending \cup fresh[u]
      BY <1>4, <1>7
    <3>2. (e.kind = "session_expired" <=> old.expired) /\ WillBeSaved(old, u, e)
      BY <1>2, <3>1 DEF PushesOnce
    <3> QED
      BY <1>1, <1>4, <1>5, <3>2
      DEF IsSaved, WillBeSaved, ToSavePrints, ToSaveDeadline, ToSaveTasks, Pushing
  <2> QED
    BY <1>4, <2>1, <2>2 DEF PushesOnce
<1>12. TellsNewTasks(w, u, cycle[n].budget)'
  <2> SUFFICES ASSUME ~ old.expired, old.validTasks, snapTasks[u] # Null,
                      NEW t \in old.tasks \ snapTasks[u]
               PROVE  \/ Event("new_task", t) \in w.pending \cup fresh'[u] \cup dropped[u]
                      \/ w.event = Event("new_task", t) /\ w.web /\ cycle[n].budget = 0
    BY <1>4, <1>5 DEF TellsNewTasks
  <2>1. Event("new_task", t) \in old.pending \cup fresh[u] \cup dropped[u]
    BY <1>1, <1>2 DEF TellsNewTasks, ToSaveTasks, Pushing
  <2>2. CASE Event("new_task", t) # event \/ Reaches(n, u)
    BY <1>4, <1>7, <2>1, <2>2
  <2>3. CASE Event("new_task", t) = event /\ ~ Reaches(n, u)
    <3>1. ~ old.fcm /\ ~ (old.web /\ cycle[n].budget > 0)
      BY <2>3 DEF Reaches, SendsWeb
    <3>2. old.fcm \/ old.web
      BY <1>1, <1>2 DEF HasTargets, Pushing
    <3> QED
      BY <1>4, <1>6, <2>3, <3>1, <3>2
  <2> QED
    BY <2>2, <2>3
<1>13. WorkerOK(n, u, w)'
  BY <1>1, <1>5, <1>9, <1>10, <1>11, <1>12, WorkerIsOK DEF WorkerOK
<1>14. \A e \in settled'[u] : IsSaved(u, e)'
  BY <1>2, <1>5 DEF IsSaved
<1>15. CyclesKeep /\ OthersKeep(u)
  BY <1>5, <1>6, <1>7 DEF CyclesKeep, OthersKeep
<1> QED
  BY <1>1, <1>3, <1>4, <1>8, <1>13, <1>14, <1>15, OneWorker

LEMMA PushWebKeeps ==
    ASSUME PollInv, CyclesDoNotOverlap, NEW n \in Cycles, NEW u \in Users, PushWeb(n, u),
           dropped' = [dropped EXCEPT ![u] =
             IF work[n][u].web /\ ~ SendsWeb(n, u) /\ work[n][u].event.kind = "new_task"
             THEN @ \cup {work[n][u].event} ELSE @],
           UNCHANGED <<fresh, settled>>
    PROVE  PollInv'
<1> DEFINE old == work[n][u]
<1> PICK w : w = [old EXCEPT !.at = "pushing", !.event = SessionExpired]
  OBVIOUS
<1>1. /\ old.at = "web" /\ UNCHANGED savedVars
      /\ cycle' = IF SendsWeb(n, u) THEN [cycle EXCEPT ![n].budget = @ - 1] ELSE cycle
      /\ work' = [work EXCEPT ![n][u].at = "pushing", ![n][u].event = SessionExpired]
  BY DEF PushWeb, WorkerAt
<1>2. /\ WorkerPlaces(old) /\ KeepsWhatWasSent(old, u) /\ PushesOnce(old, u) /\ HasTargets(old)
      /\ TellsNewTasks(old, u, cycle[n].budget) /\ DOMAIN old = WorkFields
      /\ \A e \in fresh[u] : IsEvent(e)
      /\ \A e \in settled[u] : IsSaved(u, e) /\ IsEvent(e)
      /\ cycle[n].at \in {"working", "ended"}
  BY <1>1, WorkerIsOK
<1>3. work' = [work EXCEPT ![n][u] = w]
  BY <1>1 DEF PollInv, PollIsTyped
<1>4. /\ DOMAIN w = WorkFields /\ w.at = "pushing"
      /\ w.expired = old.expired /\ w.tasks = old.tasks /\ w.validTasks = old.validTasks
      /\ w.keys = old.keys /\ w.prints = old.prints /\ w.pending = old.pending
      /\ w.fcm = old.fcm /\ w.web = old.web
  BY <1>1, <1>2 DEF WorkFields
<1>5. UNCHANGED <<snapTasks, snapTable, sentDeadline, sentPrints, relogin, fresh, settled>>
  BY <1>1 DEF savedVars
<1>6. /\ DOMAIN cycle = Cycles
      /\ \A m \in Cycles : cycle[m].budget \in Nat
                           /\ DOMAIN cycle[m] = {"at", "todo", "budget"}
      /\ DOMAIN snapTasks = Users /\ DOMAIN snapTable = Users /\ DOMAIN sentDeadline = Users
      /\ DOMAIN sentPrints = Users /\ DOMAIN relogin = Users
      /\ DOMAIN fresh = Users /\ DOMAIN settled = Users /\ DOMAIN dropped = Users
  BY DEF PollInv, PollIsTyped
<1>7. /\ DOMAIN cycle' = Cycles
      /\ \A m \in Cycles : /\ DOMAIN cycle'[m] = DOMAIN cycle[m] /\ cycle'[m].budget \in Nat
                           /\ cycle[m].budget = 0 => cycle'[m].budget = 0
                           /\ cycle'[m].at = cycle[m].at
  <2>1. CASE SendsWeb(n, u)
    <3>1. cycle' = [cycle EXCEPT ![n].budget = @ - 1] /\ cycle[n].budget > 0
      BY <1>1, <2>1 DEF SendsWeb
    <3>2. cycle'[n] = [cycle[n] EXCEPT !.budget = @ - 1] /\ DOMAIN cycle' = Cycles
      BY <1>6, <3>1
    <3>3. \A m \in Cycles \ {n} : cycle'[m] = cycle[m]
      BY <1>6, <3>1
    <3>4. /\ DOMAIN cycle'[n] = DOMAIN cycle[n] /\ cycle'[n].at = cycle[n].at
          /\ cycle'[n].budget = cycle[n].budget - 1
      BY <1>6, <3>2
    <3> QED
      BY <1>6, <3>1, <3>2, <3>3, <3>4
  <2>2. CASE ~ SendsWeb(n, u)
    BY <1>1, <1>6, <2>2
  <2> QED
    BY <2>1, <2>2
<1>8. /\ \A v \in Users \ {u} : dropped'[v] = dropped[v]
      /\ DOMAIN dropped' = Users /\ dropped[u] \subseteq dropped'[u]
      /\ old.web /\ ~ SendsWeb(n, u) /\ old.event.kind = "new_task" => old.event \in dropped'[u]
  BY <1>6
<1>9. WorkerPlaces(w)' /\ HasTargets(w)'
  BY <1>1, <1>2, <1>4
  DEF WorkerPlaces, HasTargets, ToSavePrints, ToSaveDeadline, ToSaveTasks, Pushing
<1>10. KeepsWhatWasSent(w, u)'
  BY <1>1, <1>2, <1>4, <1>5
  DEF KeepsWhatWasSent, ToSavePrints, ToSaveDeadline, ToSaveTasks, Pushing
<1>11. PushesOnce(w, u)'
  <2>1. ASSUME NEW e \in w.pending
        PROVE  IsEvent(e) /\ ~ IsSaved(u, e)' /\ e \notin fresh'[u]
    BY <1>2, <1>4, <1>5 DEF PushesOnce, IsSaved
  <2>2. ASSUME NEW e \in w.pending \cup fresh'[u]
        PROVE  (e.kind = "session_expired" <=> w.expired) /\ WillBeSaved(w, u, e)'
    <3>2. (e.kind = "session_expired" <=> old.expired) /\ WillBeSaved(old, u, e)
      BY <1>2, <1>4, <1>5 DEF PushesOnce
    <3> QED
      BY <1>1, <1>4, <1>5, <3>2
      DEF IsSaved, WillBeSaved, ToSavePrints, ToSaveDeadline, ToSaveTasks, Pushing
  <2> QED
    BY <1>4, <2>1, <2>2 DEF PushesOnce
<1>12. TellsNewTasks(w, u, cycle[n].budget)'
  <2> SUFFICES ASSUME ~ old.expired, old.validTasks, snapTasks[u] # Null,
                      NEW t \in old.tasks \ snapTasks[u]
               PROVE  Event("new_task", t) \in w.pending \cup fresh[u] \cup dropped'[u]
    BY <1>4, <1>5 DEF TellsNewTasks
  <2>1. \/ Event("new_task", t) \in old.pending \cup fresh[u] \cup dropped[u]
        \/ old.event = Event("new_task", t) /\ old.web /\ cycle[n].budget = 0
    BY <1>1, <1>2 DEF TellsNewTasks, ToSaveTasks, Pushing
  <2>2. CASE old.event = Event("new_task", t) /\ old.web /\ cycle[n].budget = 0
    BY <1>8, <2>2, EventHasParts DEF SendsWeb
  <2> QED
    BY <1>4, <1>8, <2>1, <2>2
<1>13. WorkerOK(n, u, w)'
  BY <1>2, <1>7, <1>9, <1>10, <1>11, <1>12 DEF WorkerOK
<1>14. \A e \in settled'[u] : IsSaved(u, e)'
  BY <1>2, <1>5 DEF IsSaved
<1>15. \A e \in fresh'[u] \cup settled'[u] : IsEvent(e)
  BY <1>2, <1>5
<1>16. CyclesKeep /\ OthersKeep(u)
  BY <1>5, <1>6, <1>7, <1>8 DEF CyclesKeep, OthersKeep
<1> QED
  BY <1>1, <1>3, <1>4, <1>13, <1>14, <1>15, <1>16, OneWorker

LEMMA DomainsKeep ==
    ASSUME PollInv
    PROVE  /\ DOMAIN cycle = Cycles /\ \A m \in Cycles : cycle[m].budget \in Nat
           /\ DOMAIN snapTasks = Users /\ DOMAIN snapTable = Users /\ DOMAIN sentDeadline = Users
           /\ DOMAIN sentPrints = Users /\ DOMAIN relogin = Users
           /\ DOMAIN fresh = Users /\ DOMAIN settled = Users /\ DOMAIN dropped = Users
  BY DEF PollInv, PollIsTyped

\* A worker ends, and with it what is only known of it.
LEMMA WorkerEnds ==
    ASSUME PollInv, CyclesDoNotOverlap, NEW n \in Cycles, NEW u \in Users,
           work[n][u].at # "off", Done(n, u), CyclesKeep, UNCHANGED savedVars,
           fresh' = [fresh EXCEPT ![u] = {}],
           settled' = settled \/ settled' = [settled EXCEPT ![u] = @ \cup fresh[u]],
           \A event \in settled'[u] : IsSaved(u, event),
           dropped' = dropped \/ dropped' = [dropped EXCEPT ![u] = {}]
    PROVE  PollInv'
<1>1. UNCHANGED <<snapTasks, snapTable, sentDeadline, sentPrints, relogin>>
  BY DEF savedVars
<1>2. OthersKeep(u) /\ fresh'[u] = {}
  BY <1>1, DomainsKeep DEF OthersKeep
<1>3. \A event \in fresh'[u] \cup settled'[u] : IsEvent(event)
  BY <1>2, DomainsKeep, WorkerIsOK
<1>4. \A event \in settled'[u] : IsSaved(u, event)'
  BY <1>1 DEF IsSaved
<1>5. PICK w : w = Off
  OBVIOUS
<1>6. work' = [work EXCEPT ![n][u] = w] /\ DOMAIN w = WorkFields /\ w.at = "off" /\ ~ w.expired
  BY <1>5, OffIsTyped DEF Done
<1> HIDE <1>5
<1> QED
  BY <1>2, <1>3, <1>4, <1>6, OneWorker

\* At its end everything a worker has pushed is saved.
LEMMA WorkDoneKeeps ==
    ASSUME PollInv, CyclesDoNotOverlap, NEW n \in Cycles, NEW u \in Users, WorkDone(n, u),
           settled' = [settled EXCEPT ![u] = @ \cup fresh[u]],
           fresh' = [fresh EXCEPT ![u] = {}], UNCHANGED dropped
    PROVE  PollInv'
<1>1. work[n][u].at = "ending" /\ Done(n, u) /\ UNCHANGED <<cycle, savedVars>>
  BY DEF WorkDone, WorkerAt
<1>2. \A event \in fresh[u] : IsEvent(event) /\ WillBeSaved(work[n][u], u, event)
  BY <1>1, WorkerIsOK DEF PushesOnce
<1>3. \A event \in fresh[u] : IsSaved(u, event)
  BY <1>1, <1>2 DEF WillBeSaved, ToSavePrints, ToSaveDeadline, ToSaveTasks, Pushing
<1>4. settled'[u] = settled[u] \cup fresh[u]
  BY DomainsKeep
<1>5. \A event \in settled'[u] : IsSaved(u, event)
  BY <1>1, <1>3, <1>4, WorkerIsOK
<1>6. CyclesKeep
  BY <1>1, DomainsKeep DEF CyclesKeep
<1> QED
  BY <1>1, <1>5, <1>6, WorkerEnds

\* An error takes nothing back of what is saved.
LEMMA GivenUpKeeps ==
    ASSUME PollInv, CyclesDoNotOverlap, NEW n \in Cycles, NEW u \in Users,
           UserSkipped(n, u) \/ CycleRejected(n, u),
           fresh' = [fresh EXCEPT ![u] = {}], dropped' = [dropped EXCEPT ![u] = {}],
           UNCHANGED settled
    PROVE  PollInv'
<1>1. work[n][u].at # "off" /\ Done(n, u) /\ UNCHANGED savedVars
  BY DEF UserSkipped, CycleRejected, PollInv
<1>2. cycle' = [cycle EXCEPT ![n].at = "ended", ![n].todo = {}] \/ UNCHANGED cycle
  BY DEF UserSkipped, CycleRejected, Finally
<1>3. CyclesKeep
  <2>1. CASE UNCHANGED cycle
    BY <2>1, DomainsKeep DEF CyclesKeep
  <2>2. CASE cycle' = [cycle EXCEPT ![n].at = "ended", ![n].todo = {}]
    <3>1. /\ DOMAIN cycle = Cycles
          /\ \A m \in Cycles : DOMAIN cycle[m] = {"at", "todo", "budget"}
                               /\ cycle[m].budget \in Nat
      BY DEF PollInv, PollIsTyped
    <3>2. /\ DOMAIN cycle' = Cycles /\ \A m \in Cycles \ {n} : cycle'[m] = cycle[m]
          /\ cycle'[n] = [cycle[n] EXCEPT !.at = "ended", !.todo = {}]
      BY <2>2, <3>1
    <3>3. /\ DOMAIN cycle'[n] = DOMAIN cycle[n] /\ cycle'[n].budget = cycle[n].budget
          /\ cycle'[n].at = "ended"
      BY <3>1, <3>2
    <3> QED
      BY <3>1, <3>2, <3>3 DEF CyclesKeep
  <2> QED
    BY <1>2, <2>1, <2>2
<1>4. \A event \in settled'[u] : IsSaved(u, event)
  BY <1>1, WorkerIsOK
<1> QED
  BY <1>1, <1>3, <1>4, WorkerEnds

LEMMA ResetFlagKeeps ==
    ASSUME PollInv, CyclesDoNotOverlap, NEW n \in Cycles, NEW u \in Users, ResetFlag(n, u),
           settled' = [settled EXCEPT ![u] = @ \ {SessionExpired}], UNCHANGED <<fresh, dropped>>
    PROVE  PollInv'
<1> DEFINE old == work[n][u]
<1> PICK w : w = [old EXCEPT !.at = "detecting"]
  OBVIOUS
<1>1. /\ old.at = "flag" /\ UNCHANGED <<cycle, snapTasks, snapTable, sentDeadline, sentPrints>>
      /\ relogin' = [relogin EXCEPT ![u] = FALSE]
      /\ work' = [work EXCEPT ![n][u].at = "detecting"]
  BY DEF ResetFlag, WorkerAt, WorkerGoes
<1>2. /\ WorkerPlaces(old) /\ KeepsWhatWasSent(old, u) /\ PushesOnce(old, u) /\ HasTargets(old)
      /\ TellsNewTasks(old, u, cycle[n].budget) /\ DOMAIN old = WorkFields
      /\ cycle[n].at \in {"working", "ended"}
  BY <1>1, WorkerIsOK
<1>3. work' = [work EXCEPT ![n][u] = w]
  BY <1>1 DEF PollInv, PollIsTyped
<1>4. ~ old.expired /\ old.pending = {} /\ fresh[u] = {}
  BY <1>1, <1>2 DEF WorkerPlaces, PushesOnce, Pushing
<1>5. /\ DOMAIN w = WorkFields /\ w.at = "detecting" /\ ~ w.expired /\ w.pending = {}
      /\ w.fcm = old.fcm /\ w.web = old.web
  BY <1>2, <1>4 DEF WorkFields
<1>6. /\ OthersKeep(u) /\ CyclesKeep /\ settled'[u] = settled[u] \ {SessionExpired}
      /\ UNCHANGED <<snapTasks, sentDeadline, sentPrints, fresh, dropped, cycle>>
  BY <1>1, DomainsKeep DEF OthersKeep, CyclesKeep
<1>7. WorkerPlaces(w)' /\ KeepsWhatWasSent(w, u)' /\ HasTargets(w)' /\ PushesOnce(w, u)'
  BY <1>1, <1>2, <1>4, <1>5, <1>6
  DEF WorkerPlaces, KeepsWhatWasSent, HasTargets, PushesOnce, ToSavePrints, ToSaveDeadline,
      ToSaveTasks, Pushing
<1>8. TellsNewTasks(w, u, cycle[n].budget)'
  BY <1>5 DEF TellsNewTasks, ToSaveTasks, Pushing
<1>9. WorkerOK(n, u, w)'
  BY <1>2, <1>6, <1>7, <1>8 DEF WorkerOK
<1>10. \A event \in settled'[u] : IsSaved(u, event)' /\ IsEvent(event)
  BY <1>1, <1>6, WorkerIsOK DEF IsSaved, IsEvent
<1>11. \A event \in fresh'[u] \cup settled'[u] : IsEvent(event)
  BY <1>4, <1>6, <1>10
<1> QED
  BY <1>1, <1>3, <1>5, <1>6, <1>9, <1>10, <1>11, OneWorker

\* The tasks that leave the snapshot are no longer settled; the pushed ones are in it.
LEMMA SaveTasksKeeps ==
    ASSUME PollInv, CyclesDoNotOverlap, NEW n \in Cycles, NEW u \in Users, SaveTasks(n, u),
           settled' = [settled EXCEPT ![u] = @ \ Left(u, @)],
           dropped' = [dropped EXCEPT ![u] = {}], UNCHANGED fresh
    PROVE  PollInv'
<1> DEFINE old == work[n][u]
<1> PICK w : w = [old EXCEPT !.at = "saveTable", !.tasks = {}, !.validTasks = FALSE]
  OBVIOUS
<1>1. /\ old.at = "saveTasks" /\ UNCHANGED <<cycle, snapTable, sentDeadline, sentPrints, relogin>>
      /\ snapTasks' = IF old.validTasks THEN [snapTasks EXCEPT ![u] = old.tasks] ELSE snapTasks
      /\ work' = [work EXCEPT ![n][u].at = "saveTable",
                              ![n][u].tasks = {}, ![n][u].validTasks = FALSE]
  BY DEF SaveTasks, WorkerAt, WorkerGoes
<1>2. /\ WorkerPlaces(old) /\ KeepsWhatWasSent(old, u) /\ PushesOnce(old, u)
      /\ DOMAIN old = WorkFields /\ cycle[n].at \in {"working", "ended"}
  BY <1>1, WorkerIsOK
<1>3. work' = [work EXCEPT ![n][u] = w]
  BY <1>1 DEF PollInv, PollIsTyped
<1>4. old.pending = {} /\ ~ old.expired
  BY <1>1, <1>2 DEF WorkerPlaces, Pushing, ToSaveTasks, ToSaveDeadline, ToSavePrints
<1>5. /\ DOMAIN w = WorkFields /\ w.at = "saveTable" /\ w.pending = {} /\ w.expired = old.expired
      /\ w.keys = old.keys /\ w.prints = old.prints
  BY <1>2, <1>4 DEF WorkFields
<1>6. /\ OthersKeep(u) /\ CyclesKeep
      /\ snapTasks'[u] = IF old.validTasks THEN old.tasks ELSE snapTasks[u]
      /\ settled'[u] = settled[u] \ Left(u, settled[u])
      /\ UNCHANGED <<fresh, sentDeadline, sentPrints, relogin>>
  BY <1>1, DomainsKeep DEF OthersKeep, CyclesKeep
<1>7. /\ WorkerPlaces(w)' /\ KeepsWhatWasSent(w, u)' /\ HasTargets(w)'
      /\ TellsNewTasks(w, u, cycle[n].budget)'
  BY <1>1, <1>2, <1>4, <1>5, <1>6
  DEF WorkerPlaces, KeepsWhatWasSent, HasTargets, TellsNewTasks, ToSavePrints,
      ToSaveDeadline, ToSaveTasks, Pushing
<1>8. ASSUME NEW event \in fresh[u]
      PROVE  (event.kind = "session_expired" <=> w.expired) /\ WillBeSaved(w, u, event)'
  <2>1. /\ event.kind = "session_expired" <=> old.expired
        /\ WillBeSaved(old, u, event) /\ IsEvent(event)
    BY <1>1, <1>2, WorkerIsOK DEF PushesOnce
  <2> QED
    BY <1>1, <1>4, <1>5, <1>6, <2>1
    DEF IsEvent, IsSaved, WillBeSaved, ToSavePrints, ToSaveDeadline, ToSaveTasks, Pushing
<1>9. PushesOnce(w, u)'
  BY <1>5, <1>6, <1>8 DEF PushesOnce
<1>10. WorkerOK(n, u, w)'
  BY <1>1, <1>2, <1>7, <1>9 DEF WorkerOK
<1>11. \A event \in settled'[u] : IsSaved(u, event)' /\ IsEvent(event)
  BY <1>1, <1>2, <1>4, <1>6, WorkerIsOK
  DEF IsSaved, IsEvent, KeepsWhatWasSent, ToSavePrints, ToSaveDeadline, ToSaveTasks,
      Pushing, Left
<1>12. \A event \in fresh'[u] \cup settled'[u] : IsEvent(event)
  BY <1>1, <1>6, <1>11, WorkerIsOK
<1> QED
  BY <1>1, <1>3, <1>5, <1>6, <1>10, <1>11, <1>12, OneWorker

LEMMA SaveTableKeeps ==
    ASSUME PollInv, CyclesDoNotOverlap, NEW n \in Cycles, NEW u \in Users, SaveTable(n, u),
           UNCHANGED historyVars
    PROVE  PollInv'
<1> DEFINE old == work[n][u]
<1> PICK w : w = [old EXCEPT !.at = "saveDeadline", !.table = NoSlot, !.validTable = FALSE]
  OBVIOUS
<1>1. /\ old.at = "saveTable" /\ UNCHANGED <<cycle, snapTasks, sentDeadline, sentPrints, relogin>>
      /\ snapTable' = IF old.validTable THEN [snapTable EXCEPT ![u] = old.table] ELSE snapTable
      /\ work' = [work EXCEPT ![n][u].at = "saveDeadline",
                              ![n][u].table = NoSlot, ![n][u].validTable = FALSE]
  BY DEF SaveTable, WorkerAt, WorkerGoes
<1>2. /\ WorkerPlaces(old) /\ KeepsWhatWasSent(old, u) /\ PushesOnce(old, u)
      /\ DOMAIN old = WorkFields /\ cycle[n].at \in {"working", "ended"}
  BY <1>1, WorkerIsOK
<1>3. work' = [work EXCEPT ![n][u] = w]
  BY <1>1 DEF PollInv, PollIsTyped
<1>4. old.pending = {} /\ ~ old.expired
  BY <1>1, <1>2 DEF WorkerPlaces, Pushing, ToSaveTasks, ToSaveDeadline, ToSavePrints
<1>5. /\ DOMAIN w = WorkFields /\ w.at = "saveDeadline" /\ w.pending = {} /\ w.expired = old.expired
      /\ w.keys = old.keys /\ w.prints = old.prints
  BY <1>2, <1>4 DEF WorkFields
<1>6. /\ OthersKeep(u) /\ CyclesKeep
      /\ UNCHANGED <<fresh, settled, snapTasks, sentDeadline, sentPrints, relogin>>
  BY <1>1, DomainsKeep DEF OthersKeep, CyclesKeep, historyVars
<1>7. /\ WorkerPlaces(w)' /\ KeepsWhatWasSent(w, u)' /\ HasTargets(w)'
      /\ TellsNewTasks(w, u, cycle[n].budget)'
  BY <1>1, <1>2, <1>4, <1>5, <1>6
  DEF WorkerPlaces, KeepsWhatWasSent, HasTargets, TellsNewTasks, ToSavePrints,
      ToSaveDeadline, ToSaveTasks, Pushing
<1>8. ASSUME NEW event \in fresh[u]
      PROVE  (event.kind = "session_expired" <=> w.expired) /\ WillBeSaved(w, u, event)'
  <2>1. /\ event.kind = "session_expired" <=> old.expired
        /\ WillBeSaved(old, u, event) /\ IsEvent(event)
    BY <1>1, <1>2, WorkerIsOK DEF PushesOnce
  <2> QED
    BY <1>1, <1>4, <1>5, <1>6, <2>1
    DEF IsEvent, IsSaved, WillBeSaved, ToSavePrints, ToSaveDeadline, ToSaveTasks, Pushing
<1>9. PushesOnce(w, u)'
  BY <1>5, <1>6, <1>8 DEF PushesOnce
<1>10. WorkerOK(n, u, w)'
  BY <1>1, <1>2, <1>7, <1>9 DEF WorkerOK
<1>11. \A event \in settled'[u] : IsSaved(u, event)' /\ IsEvent(event)
  BY <1>1, <1>2, <1>4, <1>6, WorkerIsOK
  DEF IsSaved, IsEvent, KeepsWhatWasSent, ToSavePrints, ToSaveDeadline, ToSaveTasks, Pushing
<1>12. \A event \in fresh'[u] \cup settled'[u] : IsEvent(event)
  BY <1>1, <1>6, <1>11, WorkerIsOK
<1> QED
  BY <1>1, <1>3, <1>5, <1>6, <1>10, <1>11, <1>12, OneWorker

LEMMA SaveDeadlineKeeps ==
    ASSUME PollInv, CyclesDoNotOverlap, NEW n \in Cycles, NEW u \in Users, SaveDeadline(n, u),
           UNCHANGED historyVars
    PROVE  PollInv'
<1> DEFINE old == work[n][u]
<1> PICK w : w = [old EXCEPT !.at = "savePrints", !.keys = {}]
  OBVIOUS
<1>1. /\ old.at = "saveDeadline" /\ UNCHANGED <<cycle, snapTasks, snapTable, sentPrints, relogin>>
      /\ sentDeadline' = [sentDeadline EXCEPT ![u] = old.keys]
      /\ work' = [work EXCEPT ![n][u].at = "savePrints", ![n][u].keys = {}]
  BY DEF SaveDeadline, WorkerAt, WorkerGoes
<1>2. /\ WorkerPlaces(old) /\ KeepsWhatWasSent(old, u) /\ PushesOnce(old, u)
      /\ DOMAIN old = WorkFields /\ cycle[n].at \in {"working", "ended"}
  BY <1>1, WorkerIsOK
<1>3. work' = [work EXCEPT ![n][u] = w]
  BY <1>1 DEF PollInv, PollIsTyped
<1>4. old.pending = {} /\ ~ old.expired
  BY <1>1, <1>2 DEF WorkerPlaces, Pushing, ToSaveTasks, ToSaveDeadline, ToSavePrints
<1>5. /\ DOMAIN w = WorkFields /\ w.at = "savePrints" /\ w.pending = {} /\ w.expired = old.expired
      /\ w.prints = old.prints
  BY <1>2, <1>4 DEF WorkFields
<1>6. /\ OthersKeep(u) /\ CyclesKeep
      /\ sentDeadline'[u] = old.keys
      /\ UNCHANGED <<fresh, settled, snapTasks, sentPrints, relogin>>
  BY <1>1, DomainsKeep DEF OthersKeep, CyclesKeep, historyVars
<1>7. /\ WorkerPlaces(w)' /\ KeepsWhatWasSent(w, u)' /\ HasTargets(w)'
      /\ TellsNewTasks(w, u, cycle[n].budget)'
  BY <1>1, <1>2, <1>4, <1>5, <1>6
  DEF WorkerPlaces, KeepsWhatWasSent, HasTargets, TellsNewTasks, ToSavePrints,
      ToSaveDeadline, ToSaveTasks, Pushing
<1>8. ASSUME NEW event \in fresh[u]
      PROVE  (event.kind = "session_expired" <=> w.expired) /\ WillBeSaved(w, u, event)'
  <2>1. /\ event.kind = "session_expired" <=> old.expired
        /\ WillBeSaved(old, u, event) /\ IsEvent(event)
    BY <1>1, <1>2, WorkerIsOK DEF PushesOnce
  <2> QED
    BY <1>1, <1>4, <1>5, <1>6, <2>1
    DEF IsEvent, IsSaved, WillBeSaved, ToSavePrints, ToSaveDeadline, ToSaveTasks, Pushing
<1>9. PushesOnce(w, u)'
  BY <1>5, <1>6, <1>8 DEF PushesOnce
<1>10. WorkerOK(n, u, w)'
  BY <1>1, <1>2, <1>7, <1>9 DEF WorkerOK
<1>11. \A event \in settled'[u] : IsSaved(u, event)' /\ IsEvent(event)
  BY <1>1, <1>2, <1>4, <1>6, WorkerIsOK
  DEF IsSaved, IsEvent, KeepsWhatWasSent, ToSavePrints, ToSaveDeadline, ToSaveTasks, Pushing
<1>12. \A event \in fresh'[u] \cup settled'[u] : IsEvent(event)
  BY <1>1, <1>6, <1>11, WorkerIsOK
<1> QED
  BY <1>1, <1>3, <1>5, <1>6, <1>10, <1>11, <1>12, OneWorker

LEMMA SavePrintsKeeps ==
    ASSUME PollInv, CyclesDoNotOverlap, NEW n \in Cycles, NEW u \in Users, SavePrints(n, u),
           UNCHANGED historyVars
    PROVE  PollInv'
<1> DEFINE old == work[n][u]
<1> PICK w : w = [old EXCEPT !.at = "ending", !.prints = {}]
  OBVIOUS
<1>1. /\ old.at = "savePrints" /\ UNCHANGED <<cycle, snapTasks, snapTable, sentDeadline, relogin>>
      /\ sentPrints' = [sentPrints EXCEPT ![u] = old.prints]
      /\ work' = [work EXCEPT ![n][u].at = "ending", ![n][u].prints = {}]
  BY DEF SavePrints, WorkerAt, WorkerGoes
<1>2. /\ WorkerPlaces(old) /\ KeepsWhatWasSent(old, u) /\ PushesOnce(old, u)
      /\ DOMAIN old = WorkFields /\ cycle[n].at \in {"working", "ended"}
  BY <1>1, WorkerIsOK
<1>3. work' = [work EXCEPT ![n][u] = w]
  BY <1>1 DEF PollInv, PollIsTyped
<1>4. old.pending = {} /\ ~ old.expired
  BY <1>1, <1>2 DEF WorkerPlaces, Pushing, ToSaveTasks, ToSaveDeadline, ToSavePrints
<1>5. /\ DOMAIN w = WorkFields /\ w.at = "ending" /\ w.pending = {} /\ w.expired = old.expired
      /\ w.prints = {}
  BY <1>2, <1>4 DEF WorkFields
<1>6. /\ OthersKeep(u) /\ CyclesKeep
      /\ sentPrints'[u] = old.prints
      /\ UNCHANGED <<fresh, settled, snapTasks, sentDeadline, relogin>>
  BY <1>1, DomainsKeep DEF OthersKeep, CyclesKeep, historyVars
<1>7. /\ WorkerPlaces(w)' /\ KeepsWhatWasSent(w, u)' /\ HasTargets(w)'
      /\ TellsNewTasks(w, u, cycle[n].budget)'
  BY <1>1, <1>2, <1>4, <1>5, <1>6
  DEF WorkerPlaces, KeepsWhatWasSent, HasTargets, TellsNewTasks, ToSavePrints,
      ToSaveDeadline, ToSaveTasks, Pushing
<1>8. ASSUME NEW event \in fresh[u]
      PROVE  (event.kind = "session_expired" <=> w.expired) /\ WillBeSaved(w, u, event)'
  <2>1. /\ event.kind = "session_expired" <=> old.expired
        /\ WillBeSaved(old, u, event) /\ IsEvent(event)
    BY <1>1, <1>2, WorkerIsOK DEF PushesOnce
  <2> QED
    BY <1>1, <1>4, <1>5, <1>6, <2>1
    DEF IsEvent, IsSaved, WillBeSaved, ToSavePrints, ToSaveDeadline, ToSaveTasks, Pushing
<1>9. PushesOnce(w, u)'
  BY <1>5, <1>6, <1>8 DEF PushesOnce
<1>10. WorkerOK(n, u, w)'
  BY <1>1, <1>2, <1>7, <1>9 DEF WorkerOK
<1>11. \A event \in settled'[u] : IsSaved(u, event)' /\ IsEvent(event)
  BY <1>1, <1>2, <1>4, <1>6, WorkerIsOK
  DEF IsSaved, IsEvent, KeepsWhatWasSent, ToSavePrints, ToSaveDeadline, ToSaveTasks, Pushing
<1>12. \A event \in fresh'[u] \cup settled'[u] : IsEvent(event)
  BY <1>1, <1>6, <1>11, WorkerIsOK
<1> QED
  BY <1>1, <1>3, <1>5, <1>6, <1>10, <1>11, <1>12, OneWorker

LEMMA SetFlagKeeps ==
    ASSUME PollInv, CyclesDoNotOverlap, NEW n \in Cycles, NEW u \in Users, SetFlag(n, u),
           UNCHANGED historyVars
    PROVE  PollInv'
<1> DEFINE old == work[n][u]
<1> PICK w : w = [old EXCEPT !.at = "ending"]
  OBVIOUS
<1>1. /\ old.at = "flagging" /\ UNCHANGED <<cycle, snapTasks, snapTable, sentDeadline, sentPrints>>
      /\ relogin' = [relogin EXCEPT ![u] = TRUE]
      /\ work' = [work EXCEPT ![n][u].at = "ending"]
  BY DEF SetFlag, WorkerAt, WorkerGoes
<1>2. /\ WorkerPlaces(old) /\ KeepsWhatWasSent(old, u) /\ PushesOnce(old, u)
      /\ DOMAIN old = WorkFields /\ cycle[n].at \in {"working", "ended"}
  BY <1>1, WorkerIsOK
<1>3. work' = [work EXCEPT ![n][u] = w]
  BY <1>1 DEF PollInv, PollIsTyped
<1>4. old.pending = {} /\ old.expired
  BY <1>1, <1>2 DEF WorkerPlaces, Pushing, ToSaveTasks, ToSaveDeadline, ToSavePrints
<1>5. /\ DOMAIN w = WorkFields /\ w.at = "ending" /\ w.pending = {} /\ w.expired = old.expired
      /\ w.expired
  BY <1>2, <1>4 DEF WorkFields
<1>6. /\ OthersKeep(u) /\ CyclesKeep
      /\ relogin'[u]
      /\ UNCHANGED <<fresh, settled, snapTasks, sentDeadline, sentPrints>>
  BY <1>1, DomainsKeep DEF OthersKeep, CyclesKeep, historyVars
<1>7. /\ WorkerPlaces(w)' /\ KeepsWhatWasSent(w, u)' /\ HasTargets(w)'
      /\ TellsNewTasks(w, u, cycle[n].budget)'
  BY <1>1, <1>2, <1>4, <1>5, <1>6
  DEF WorkerPlaces, KeepsWhatWasSent, HasTargets, TellsNewTasks, ToSavePrints,
      ToSaveDeadline, ToSaveTasks, Pushing
<1>8. ASSUME NEW event \in fresh[u]
      PROVE  (event.kind = "session_expired" <=> w.expired) /\ WillBeSaved(w, u, event)'
  <2>1. /\ event.kind = "session_expired" <=> old.expired
        /\ WillBeSaved(old, u, event) /\ IsEvent(event)
    BY <1>1, <1>2, WorkerIsOK DEF PushesOnce
  <2> QED
    BY <1>1, <1>4, <1>5, <1>6, <2>1
    DEF IsEvent, IsSaved, WillBeSaved, ToSavePrints, ToSaveDeadline, ToSaveTasks, Pushing
<1>9. PushesOnce(w, u)'
  BY <1>5, <1>6, <1>8 DEF PushesOnce
<1>10. WorkerOK(n, u, w)'
  BY <1>1, <1>2, <1>7, <1>9 DEF WorkerOK
<1>11. \A event \in settled'[u] : IsSaved(u, event)' /\ IsEvent(event)
  BY <1>1, <1>2, <1>4, <1>6, WorkerIsOK
  DEF IsSaved, IsEvent, KeepsWhatWasSent, ToSavePrints, ToSaveDeadline, ToSaveTasks, Pushing
<1>12. \A event \in fresh'[u] \cup settled'[u] : IsEvent(event)
  BY <1>1, <1>6, <1>11, WorkerIsOK
<1> QED
  BY <1>1, <1>3, <1>5, <1>6, <1>10, <1>11, <1>12, OneWorker

\* A step of a cycle that has no worker, which leaves the rest alone.
LEMMA IdleCycle ==
    ASSUME PollInv, NEW n \in Cycles, \A u \in Users : work[n][u].at = "off",
           NEW c, cycle' = [cycle EXCEPT ![n] = c],
           DOMAIN c = {"at", "todo", "budget"}, c.budget \in Nat,
           UNCHANGED <<work, savedVars, historyVars>>
    PROVE  PollInv'
<1>1. UNCHANGED <<work, snapTasks, snapTable, sentDeadline, sentPrints, relogin, fresh, settled,
                  dropped>>
  BY DEF savedVars, historyVars
<1>2. /\ DOMAIN cycle' = Cycles /\ cycle'[n] = c
      /\ \A m \in Cycles \ {n} : cycle'[m] = cycle[m]
  BY DomainsKeep
<1>3. PollIsTyped'
  BY <1>1, <1>2 DEF PollInv, PollIsTyped
<1>4. ASSUME NEW m \in Cycles, NEW u \in Users, work[m][u].at # "off"
      PROVE  WorkerOK(m, u, work[m][u])'
  <2>1. m # n /\ WorkerOK(m, u, work[m][u])
    BY <1>4 DEF PollInv
  <2> DEFINE w == work[m][u]
  <2>2. cycle'[m] = cycle[m]
    BY <1>2, <2>1
  <2>3. WorkerPlaces(w)' /\ KeepsWhatWasSent(w, u)' /\ HasTargets(w)' /\ PushesOnce(w, u)'
    BY <1>1, <2>1
    DEF WorkerOK, WorkerPlaces, KeepsWhatWasSent, HasTargets, PushesOnce, WillBeSaved, IsSaved
  <2>4. TellsNewTasks(w, u, cycle[m].budget)'
    BY <1>1, <2>1, <2>2 DEF WorkerOK, TellsNewTasks
  <2> QED
    BY <1>1, <2>1, <2>2, <2>3, <2>4 DEF WorkerOK
<1>5. \A u \in Users : \A event \in settled'[u] : IsSaved(u, event)'
  BY <1>1 DEF PollInv, IsSaved
<1> QED
  BY <1>1, <1>3, <1>4, <1>5 DEF PollInv

\* The steps of a cycle between its chunks.
LEMMA CycleKeeps ==
    ASSUME PollInv, PollerAssumption, NEW n \in Cycles, UNCHANGED historyVars,
           Enter(n) \/ Locked(n) \/ List(n) \/ ChunksDone(n) \/ Unlock(n) \/ CycleFails(n)
    PROVE  PollInv'
<1>1. UNCHANGED <<work, savedVars, historyVars>>
  BY DEF Enter, Locked, List, ChunksDone, Unlock, CycleFails
<1>2. \A u \in Users : work[n][u].at = "off"
  <2>1. CASE Working(n) = {}
    BY <2>1 DEF Working
  <2>2. CASE cycle[n].at \notin {"working", "ended"}
    BY <2>2, WorkerIsOK
  <2> QED
    BY <2>1, <2>2 DEF Enter, IsNext, Locked, List, ChunksDone, Unlock, CycleFails
<1>3. DOMAIN cycle[n] = {"at", "todo", "budget"} /\ cycle[n].budget \in Nat /\ DOMAIN cycle = Cycles
  BY DEF PollInv, PollIsTyped
<1>4. DOMAIN EndedCycle = {"at", "todo", "budget"} /\ EndedCycle.budget \in Nat
  BY DEF EndedCycle, Unused
<1> DEFINE Becomes(c) == /\ cycle' = [cycle EXCEPT ![n] = c]
                         /\ DOMAIN c = {"at", "todo", "budget"} /\ c.budget \in Nat
<1>5. \E c : Becomes(c)
  <2>1. CASE cycle' = [cycle EXCEPT ![n] = EndedCycle]
    BY <1>4, <2>1
  <2>2. ASSUME NEW place, cycle' = [cycle EXCEPT ![n].at = place]
        PROVE  \E c : Becomes(c)
    <3>1. PICK c : c = [cycle[n] EXCEPT !.at = place]
      OBVIOUS
    <3>2. DOMAIN c = {"at", "todo", "budget"} /\ c.budget \in Nat
      BY <1>3, <3>1
    <3>3. cycle' = [cycle EXCEPT ![n] = c]
      BY <1>3, <2>2, <3>1
    <3> QED
      BY <3>2, <3>3
  <2>3. CASE Finally(n)
    <3>1. PICK c : c = [cycle[n] EXCEPT !.at = "ended", !.todo = {}]
      OBVIOUS
    <3>2. DOMAIN c = {"at", "todo", "budget"} /\ c.budget \in Nat
      BY <1>3, <3>1
    <3>3. cycle' = [cycle EXCEPT ![n] = c]
      BY <1>3, <2>3, <3>1 DEF Finally
    <3> QED
      BY <3>2, <3>3
  <2>4. CASE List(n)
    <3>1. PICK subs : cycle' = [cycle EXCEPT ![n] =
                                  [at |-> "working", todo |-> subs, budget |-> Budget]]
      BY <2>4 DEF List
    <3>2. PICK c : c = [at |-> "working", todo |-> subs, budget |-> Budget]
      OBVIOUS
    <3>3. cycle' = [cycle EXCEPT ![n] = c]
      BY <3>1, <3>2
    <3>4. DOMAIN c = {"at", "todo", "budget"} /\ c.budget \in Nat
      BY <3>2 DEF PollerAssumption
    <3> QED
      BY <3>3, <3>4
  <2> QED
    BY <2>1, <2>2, <2>3, <2>4 DEF Enter, Locked, ChunksDone, Unlock, CycleFails
<1> QED
  BY <1>1, <1>2, <1>5, IdleCycle

\* A chunk starts: a user no other cycle works on has nothing pushed and not saved.
LEMMA ChunkKeeps ==
    ASSUME PollInv, CyclesDoNotOverlap', NEW n \in Cycles, Chunk(n), UNCHANGED historyVars
    PROVE  PollInv'
<1> DEFINE starting == [Off EXCEPT !.at = "devices"]
<1>1. PICK users :
        /\ cycle' = [cycle EXCEPT ![n].todo = @ \ users]
        /\ work' = [work EXCEPT ![n] = [u \in Users |-> IF u \in users THEN starting ELSE Off]]
  BY DEF Chunk
<1>2. /\ cycle[n].at = "working" /\ \A u \in Users : work[n][u].at = "off"
      /\ UNCHANGED <<snapTasks, snapTable, sentDeadline, sentPrints, relogin, fresh, settled,
                     dropped>>
  BY DEF Chunk, Working, savedVars, historyVars
<1>3. /\ DOMAIN starting = WorkFields /\ starting.at = "devices" /\ ~ starting.expired
      /\ starting.pending = {}
  BY OffIsTyped DEF WorkFields
<1> HIDE DEF starting
<1>4. /\ DOMAIN cycle' = Cycles
      /\ \A m \in Cycles : /\ DOMAIN cycle'[m] = {"at", "todo", "budget"}
                           /\ cycle'[m].budget = cycle[m].budget /\ cycle'[m].at = cycle[m].at
  BY <1>1 DEF PollInv, PollIsTyped
<1>5. /\ DOMAIN work' = Cycles /\ \A m \in Cycles : DOMAIN work'[m] = Users
      /\ \A u \in Users : work'[n][u] = IF u \in users THEN starting ELSE Off
      /\ \A m \in Cycles \ {n} : work'[m] = work[m]
  BY <1>1 DEF PollInv, PollIsTyped
<1>6. PollIsTyped'
  <2>1. \A m \in Cycles, u \in Users : DOMAIN work'[m][u] = WorkFields
    <3>1. \A m \in Cycles \ {n}, u \in Users : DOMAIN work'[m][u] = WorkFields
      BY <1>5 DEF PollInv, PollIsTyped
    <3>2. \A u \in Users : DOMAIN work'[n][u] = WorkFields
      BY <1>3, <1>5, OffIsTyped
    <3> QED
      BY <3>1, <3>2
  <2>2. \A m \in Cycles : cycle'[m].budget \in Nat
    BY <1>4, DomainsKeep
  <2>3. \A u \in Users : \A event \in fresh'[u] \cup settled'[u] : IsEvent(event)
    BY <1>2 DEF PollInv, PollIsTyped
  <2>4. /\ DOMAIN snapTasks' = Users /\ DOMAIN snapTable' = Users /\ DOMAIN sentDeadline' = Users
        /\ DOMAIN sentPrints' = Users /\ DOMAIN relogin' = Users
        /\ DOMAIN fresh' = Users /\ DOMAIN settled' = Users /\ DOMAIN dropped' = Users
    BY <1>2, DomainsKeep
  <2> QED
    BY <1>4, <1>5, <2>1, <2>2, <2>3, <2>4 DEF PollIsTyped
<1>7. ASSUME NEW u \in Users, \A m \in Cycles : work'[m][u].at = "off"
      PROVE  fresh[u] = {}
  BY <1>2, <1>5, <1>7 DEF PollInv
<1>8. ASSUME NEW m \in Cycles, NEW u \in Users, work'[m][u].at # "off"
      PROVE  WorkerOK(m, u, work[m][u])'
  <2>1. CASE m = n
    <3>1. u \in users /\ work'[n][u] = starting
      BY <1>5, <1>8, <2>1, OffIsTyped
    <3>2. fresh[u] = {}
      <4>1. \A k \in Cycles \ {n} : work'[k][u].at = "off"
        BY <1>8, <2>1 DEF CyclesDoNotOverlap
      <4> QED
        BY <1>2, <1>5, <4>1 DEF PollInv
    <3> QED
      BY <1>2, <1>3, <1>4, <2>1, <3>1, <3>2
      DEF WorkerOK, WorkerPlaces, KeepsWhatWasSent, HasTargets, PushesOnce, TellsNewTasks,
          ToSavePrints, ToSaveDeadline, ToSaveTasks, Pushing
  <2>2. CASE m # n
    <3>1. WorkerOK(m, u, work[m][u]) /\ work'[m][u] = work[m][u]
      BY <1>5, <1>8, <2>2 DEF PollInv
    <3> DEFINE w == work[m][u]
    <3>2. WorkerPlaces(w)' /\ KeepsWhatWasSent(w, u)' /\ HasTargets(w)' /\ PushesOnce(w, u)'
      BY <1>2, <3>1
      DEF WorkerOK, WorkerPlaces, KeepsWhatWasSent, HasTargets, PushesOnce, WillBeSaved, IsSaved
    <3>3. TellsNewTasks(w, u, cycle[m].budget)'
      BY <1>2, <1>4, <3>1 DEF WorkerOK, TellsNewTasks
    <3> QED
      BY <1>4, <3>1, <3>2, <3>3 DEF WorkerOK
  <2> QED
    BY <2>1, <2>2
<1>9. ASSUME NEW m \in Cycles, NEW u \in Users, work'[m][u].at = "off"
      PROVE  ~ work'[m][u].expired
  BY <1>3, <1>5, <1>9, OffIsTyped DEF PollInv
<1>10. \A u \in Users : \A event \in settled'[u] : IsSaved(u, event)'
  BY <1>2 DEF PollInv, IsSaved
<1> QED
  BY <1>2, <1>6, <1>7, <1>8, <1>9, <1>10 DEF PollInv

LEMMA RestartKeeps ==
    ASSUME PollInv, Restart, fresh' = None, dropped' = None, UNCHANGED settled
    PROVE  PollInv'
<1>1. /\ work' = [n \in Cycles |-> [u \in Users |-> Off]]
      /\ cycle' = [n \in Cycles |-> IF cycle[n].at = "unused" THEN Unused ELSE EndedCycle]
      /\ UNCHANGED <<snapTasks, snapTable, sentDeadline, sentPrints, relogin, settled>>
  BY DEF Restart, savedVars
<1>2. /\ DOMAIN Unused = {"at", "todo", "budget"} /\ Unused.budget \in Nat
      /\ DOMAIN EndedCycle = {"at", "todo", "budget"} /\ EndedCycle.budget \in Nat
  BY DEF EndedCycle, Unused
<1>3. PollIsTyped'
  BY <1>1, <1>2, OffIsTyped DEF PollInv, PollIsTyped, None
<1>4. \A u \in Users : \A event \in settled'[u] : IsSaved(u, event)'
  BY <1>1 DEF PollInv, IsSaved
<1> QED
  BY <1>1, <1>3, <1>4, OffIsTyped DEF PollInv, None

LEMMA PollIdleKeeps ==
    ASSUME PollInv, UNCHANGED <<cycle, work, savedVars, historyVars>>
    PROVE  PollInv'
<1>1. UNCHANGED <<cycle, work, snapTasks, snapTable, sentDeadline, sentPrints, relogin, fresh,
                  settled, dropped>>
  BY DEF savedVars, historyVars
<1> QED
  BY <1>1
  DEF PollInv, PollIsTyped, WorkerOK, WorkerPlaces, KeepsWhatWasSent, HasTargets, PushesOnce,
      TellsNewTasks, WillBeSaved, IsSaved

LEMMA PollStartsRight ==
    ASSUME PollerAssumption, MCPollInit
    PROVE  PollInv
<1>1. /\ work = [n \in Cycles |-> [u \in Users |-> Off]] /\ cycle = [n \in Cycles |-> Unused]
      /\ DOMAIN snapTasks = Users /\ DOMAIN snapTable = Users /\ DOMAIN sentDeadline = Users
      /\ DOMAIN sentPrints = Users /\ DOMAIN relogin = Users
      /\ fresh = None /\ settled = None /\ dropped = None
  BY DEF MCPollInit, PollInit, SavedInit
<1>2. DOMAIN Unused = {"at", "todo", "budget"} /\ Unused.budget \in Nat
  BY DEF Unused
<1> QED
  BY <1>1, <1>2, OffIsTyped DEF PollInv, PollIsTyped, None

LEMMA PollStepKeeps ==
    ASSUME PollerAssumption, PollInv, CyclesDoNotOverlap, CyclesDoNotOverlap',
           [MCPollNext]_MCPollVars
    PROVE  PollInv'
<1>1. ASSUME NEW n \in Cycles, CycleStep(n), UNCHANGED historyVars
      PROVE  PollInv'
  BY <1>1, CycleKeeps, ChunkKeeps DEF CycleStep
<1>2. ASSUME NEW n \in Cycles, NEW u \in Users, MCWork(n, u)
      PROVE  PollInv'
  BY <1>2, PushFcmKeeps, PushWebKeeps, ResetFlagKeeps, SaveTasksKeeps, WorkDoneKeeps,
     GivenUpKeeps, DevicesKeeps, FetchedKeeps, FetchStaleKeeps, DetectKeeps, PushedKeeps,
     SaveTableKeeps, SaveDeadlineKeeps, SavePrintsKeeps, ReloginKeeps, SetFlagKeeps
  DEF MCWork
<1>3. CASE Tick /\ UNCHANGED historyVars
  BY <1>3, PollIdleKeeps DEF Tick
<1>4. CASE Restart /\ fresh' = None /\ dropped' = None /\ UNCHANGED <<settled, told>>
  BY <1>4, RestartKeeps
<1>5. CASE UNCHANGED MCPollVars
  BY <1>5, PollIdleKeeps DEF MCPollVars, pollVars
<1> QED
  BY <1>1, <1>2, <1>3, <1>4, <1>5 DEF MCPollNext

\* No assignment slips into the snapshot unseen (poller.service.ts, processUser):
\* it was in the first snapshot, or the user was told, or no web push was left for
\* it, whatever fails in between, wherever the cycles do not overlap.
THEOREM NoTaskIsSkipped == MCPollSpec /\ []CyclesDoNotOverlap => NothingIsSkipped
<1>1. ASSUME PollInv, [MCPollNext]_MCPollVars
      PROVE  [\A u \in Users : snapTasks[u] # Null =>
               \A t \in snapTasks'[u] \ snapTasks[u] :
                  Event("new_task", t) \in fresh[u] \cup settled[u] \cup dropped[u]]_MCPollVars
  <2> SUFFICES ASSUME NEW u \in Users, snapTasks[u] # Null,
                      NEW t \in snapTasks'[u] \ snapTasks[u]
               PROVE  Event("new_task", t) \in fresh[u] \cup settled[u] \cup dropped[u]
    OBVIOUS
  <2>1. PICK n \in Cycles, v \in Users : SaveTasks(n, v)
    <3>1. snapTasks' # snapTasks
      OBVIOUS
    <3>2. ASSUME NEW n \in Cycles, CycleStep(n) PROVE UNCHANGED snapTasks
      BY <3>2 DEF CycleStep, Enter, Locked, List, Chunk, ChunksDone, Unlock, CycleFails, savedVars
    <3>3. ASSUME NEW n \in Cycles, NEW v \in Users, MCWork(n, v)
          PROVE  SaveTasks(n, v) \/ UNCHANGED snapTasks
      BY <3>3
      DEF MCWork, Devices, Fetched, FetchStale, ResetFlag, Detect, PushFcm, PushWeb, Pushed,
          SaveTable, SaveDeadline, SavePrints, Relogin, SetFlag, WorkDone, UserSkipped,
          CycleRejected, savedVars
    <3> QED
      BY <1>1, <3>1, <3>2, <3>3 DEF MCPollNext, MCPollVars, pollVars, savedVars, Tick, Restart
  <2> DEFINE w == work[n][u]
  <2>2. /\ v = u /\ w.at = "saveTasks" /\ w.validTasks /\ t \in w.tasks \ snapTasks[u]
    BY <1>1, <2>1, DomainsKeep DEF SaveTasks, WorkerAt
  <2>3. TellsNewTasks(w, u, cycle[n].budget) /\ WorkerPlaces(w)
    BY <1>1, <2>2, WorkerIsOK
  <2>4. ~ w.expired /\ w.pending = {}
    BY <2>2, <2>3 DEF WorkerPlaces, Pushing
  <2> QED
    BY <2>2, <2>3, <2>4 DEF TellsNewTasks, ToSaveTasks, Pushing
<1>2. CyclesDoNotOverlap /\ CyclesDoNotOverlap' /\ PollInv /\ [MCPollNext]_MCPollVars => PollInv'
  BY PollStepKeeps, PollerAssumption
<1>3. MCPollInit => PollInv
  BY PollStartsRight, PollerAssumption
<1> QED
  BY <1>1, <1>2, <1>3, PTL DEF MCPollSpec, NothingIsSkipped

\* What a worker that came to its end has pushed is not pushed again
\* (detectNewAssignments, detectReschedules, the sent keys), whatever fails in
\* between, wherever the cycles do not overlap.
THEOREM RepeatsAfterFailure == MCPollSpec /\ []CyclesDoNotOverlap => RepeatsOnlyAfterFailure
<1>1. ASSUME PollInv
      PROVE  [\A n \in Cycles, u \in Users : \A event \in work[n][u].pending :
                Pushes(n, u, event) => event \notin settled[u] \cup fresh[u]]_MCPollVars
  <2> SUFFICES ASSUME NEW n \in Cycles, NEW u \in Users, NEW event \in work[n][u].pending,
                      WorkerAt(n, u, "pushing")
               PROVE  event \notin settled[u] \cup fresh[u]
    BY DEF Pushes
  <2>1. work[n][u].at # "off"
    BY DEF WorkerAt
  <2>2. ~ IsSaved(u, event) /\ event \notin fresh[u]
    BY <1>1, <2>1, WorkerIsOK DEF PushesOnce
  <2> QED
    BY <1>1, <2>1, <2>2, WorkerIsOK
<1>2. CyclesDoNotOverlap /\ CyclesDoNotOverlap' /\ PollInv /\ [MCPollNext]_MCPollVars => PollInv'
  BY PollStepKeeps, PollerAssumption
<1>3. MCPollInit => PollInv
  BY PollStartsRight, PollerAssumption
<1> QED
  BY <1>1, <1>2, <1>3, PTL DEF MCPollSpec, RepeatsOnlyAfterFailure

\* One user is not worked on twice, as the only worker of a chunk leaves none
\* behind: what the poller promises holds without a condition.
THEOREM OneUserIsServedRight ==
    ASSUME \A u, v \in Users : u = v
    PROVE  MCPollSpec => []CyclesDoNotOverlap /\ NothingIsSkipped /\ RepeatsOnlyAfterFailure
<1>1. RejectsAlone
  BY DEF RejectsAlone, Working
<1> QED
  BY <1>1, OverlapNeedsAStraggler, NoTaskIsSkipped, RepeatsAfterFailure, PTL

=============================================================================
