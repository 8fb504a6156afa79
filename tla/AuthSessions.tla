---------------------------- MODULE AuthSessions ----------------------------
(***************************************************************************)
(* auth.service.ts and jwt-auth.guard.ts on top of RedisSessionStore: the  *)
(* requests that establish, use, refresh, renew and end the session of one *)
(* identity.  A request is a client of the store and awaits one store call *)
(* or one upstream answer at a time; what upstream answers is any of what  *)
(* the code tells apart.  The clients that are not Handlers stand for the  *)
(* rest of the backend (keep-alive, pairing, background reads).            *)
(*                                                                         *)
(* A token is its sessionGeneration claim: signatures hold, sub is the one *)
(* identity.                                                               *)
(***************************************************************************)
EXTENDS RedisSessionStore

CONSTANTS Handlers,   \* the clients that serve auth requests
          Kinds       \* the kinds of request an instance looks at

ASSUME HandlersAssumption ==
    /\ Handlers \subseteq Clients
    /\ Kinds \subseteq {"handoff", "refresh", "renew", "logout", "use"}

VARIABLES minted,   \* the generations tokens have been signed for
          req       \* req[h]: the request handler h serves

authVars == <<storeVars, minted, req>>

\* `field` names the cookie of the service a renewal is about.
Services == {"kulonCookie", "siapCookie"}

OtherService(field) == IF field = "kulonCookie" THEN "siapCookie" ELSE "kulonCookie"

Answers == {"none", "token", "session", "ok", "renewed", "invalid", "unavailable",
            "dead", "conflict", "refused"}

Requests ==
    [at : {"free", "kulon", "identity", "siap", "storing", "reading", "guarded",
           "using", "clearing", "validating", "rechecking", "replacing", "rereading",
           "merging", "answered"},
     kind : {"none", "handoff", "refresh", "renew", "logout", "use"},
     generation : Generations \cup {NoGeneration},
     field : Services \cup {"none"}, cookie : Cookies \cup {NoCookie},
     expected : Sessions \cup {NoSession}, attempt : 0..3, answer : Answers]

Free == [at |-> "free", kind |-> "none", generation |-> NoGeneration, field |-> "none",
         cookie |-> NoCookie, expected |-> NoSession, attempt |-> 0, answer |-> "none"]

AuthInit ==
    /\ StoreInit
    /\ minted = {}
    /\ req = [h \in Handlers |-> Free]

-----------------------------------------------------------------------------
(* Steps a request is made of                                                *)

At(h, place) == req[h].at = place

Goto(h, place) == req' = [req EXCEPT ![h].at = place]

Answer(h, answer) ==
    req' = [req EXCEPT ![h].at = "answered", ![h].answer = answer,
                       ![h].expected = NoSession, ![h].attempt = 0]

\* The store call h awaits has its answer.
Returned(h) == client[h].pc = "done"

Start(h, kind) == At(h, "free") /\ kind \in Kinds

\* verifyAsync: only a token that was signed gets past it.
Begin(h, kind, generation, field, cookie, place) ==
    /\ Start(h, kind)
    /\ generation \in minted
    /\ req' = [req EXCEPT ![h] = [Free EXCEPT !.at = place, !.kind = kind,
                  !.generation = generation, !.field = field, !.cookie = cookie]]

\* readLiveSession
ReadLive(h, generation) == CallQualified(h, "getIfGeneration", generation)

\* Answered: the response leaves, and the handler is free.
Respond(h) ==
    /\ At(h, "answered")
    /\ req' = [req EXCEPT ![h] = Free]
    /\ IF client[h].pc = "done" THEN Return(h) ELSE UNCHANGED storeVars
    /\ UNCHANGED minted

-----------------------------------------------------------------------------
(* handleSessionHandoff                                                      *)

HandoffStart(h) ==
    /\ Start(h, "handoff") /\ nextIv <= MaxWrites
    /\ req' = [req EXCEPT ![h] = [Free EXCEPT !.at = "kulon", !.kind = "handoff",
                                              !.attempt = 1]]
    /\ UNCHANGED <<storeVars, minted>>

\* A probe that answers `stale` is repeated, three times at most.
Retry(h) == req[h].attempt < 3 /\ req' = [req EXCEPT ![h].attempt = @ + 1]

HandoffKulon(h) ==
    /\ At(h, "kulon")
    /\ \/ req' = [req EXCEPT ![h].at = "identity", ![h].attempt = 1]
       \/ Retry(h)
       \/ Answer(h, "refused")
    /\ UNCHANGED <<storeVars, minted>>

\* getSessionIdentity: without an identity nothing is stored.
HandoffIdentity(h) ==
    /\ At(h, "identity")
    /\ Goto(h, "siap") \/ Answer(h, "refused")
    /\ UNCHANGED <<storeVars, minted>>

HandoffSiapRetry(h) ==
    /\ At(h, "siap")
    /\ Retry(h)
    /\ UNCHANGED <<storeVars, minted>>

\* The SIAP cookie is valid, or it is left out of what is stored.
HandoffStore(h) ==
    /\ At(h, "siap")
    /\ \E generation \in Generations, capture \in Captures, valid \in BOOLEAN :
         /\ CallSet(h, generation,
                    IF valid THEN capture ELSE [capture EXCEPT !.siapCookie = NoCookie])
         /\ req' = [req EXCEPT ![h].at = "storing", ![h].generation = generation,
                               ![h].attempt = 0]
    /\ UNCHANGED minted

HandoffSign(h) ==
    /\ At(h, "storing") /\ Returned(h)
    /\ minted' = minted \cup {req[h].generation}
    /\ Answer(h, "token")
    /\ UNCHANGED storeVars

-----------------------------------------------------------------------------
(* refresh, logout, and a guarded request that uses the session              *)

RefreshStart(h, generation) ==
    /\ Begin(h, "refresh", generation, "none", NoCookie, "reading")
    /\ ReadLive(h, generation)
    /\ UNCHANGED minted

RefreshSign(h) ==
    /\ req[h].kind = "refresh" /\ At(h, "reading") /\ Returned(h)
    /\ IF client[h].read = NoSession
       THEN Answer(h, "dead") /\ UNCHANGED minted
       ELSE /\ Answer(h, "token")
            /\ minted' = minted \cup {client[h].read.sessionGeneration}
    /\ UNCHANGED storeVars

LogoutStart(h, generation) ==
    /\ Begin(h, "logout", generation, "none", NoCookie, "clearing")
    /\ CallQualified(h, "clearIfGeneration", generation)
    /\ UNCHANGED minted

LogoutDone(h) ==
    /\ At(h, "clearing") /\ Returned(h)
    /\ Answer(h, IF client[h].result = "true" THEN "ok" ELSE "dead")
    /\ UNCHANGED <<storeVars, minted>>

\* canActivate reads the record and throws it away; the service reads again.
UseStart(h, generation) ==
    /\ Begin(h, "use", generation, "none", NoCookie, "guarded")
    /\ ReadLive(h, generation)
    /\ UNCHANGED minted

\* A mutation: the service reads whatever session the identity has now.
UseGuardedUnqualified(h) ==
    /\ req[h].kind = "use" /\ At(h, "guarded") /\ Returned(h)
    /\ IF client[h].read = NoSession
       THEN Answer(h, "dead") /\ UNCHANGED storeVars
       ELSE Goto(h, "using") /\ CallRead(h, "get")
    /\ UNCHANGED minted

UseGuarded(h) ==
    /\ req[h].kind = "use" /\ At(h, "guarded") /\ Returned(h)
    /\ IF client[h].read = NoSession
       THEN Answer(h, "dead") /\ UNCHANGED storeVars
       ELSE Goto(h, "using") /\ ReadLive(h, req[h].generation)
    /\ UNCHANGED minted

\* The cookies the request goes upstream with are those just read.
UseSession(h) ==
    /\ At(h, "using") /\ Returned(h)
    /\ Answer(h, IF client[h].read = NoSession THEN "dead" ELSE "session")
    /\ UNCHANGED <<storeVars, minted>>

-----------------------------------------------------------------------------
(* renewUpstreamSession                                                      *)

\* sameSessionExceptOtherCookie
SameExceptOther(current, expected, field) ==
    SameCapturedSession(current,
        [expected EXCEPT ![OtherService(field)] = current[OtherService(field)]])

WithCookie(session, h) == [session EXCEPT ![req[h].field] = req[h].cookie]

RenewStart(h, generation, field, cookie) ==
    /\ nextIv <= MaxWrites
    /\ Begin(h, "renew", generation, field, cookie, "guarded")
    /\ ReadLive(h, generation)
    /\ UNCHANGED minted

RenewGuarded(h) ==
    /\ req[h].kind = "renew" /\ At(h, "guarded") /\ Returned(h)
    /\ IF client[h].read = NoSession
       THEN Answer(h, "dead") /\ UNCHANGED storeVars
       ELSE Goto(h, "reading") /\ ReadLive(h, req[h].generation)
    /\ UNCHANGED minted

\* A cookie that isRenewableCookie() rejects is answered `invalid` at once.
RenewExpected(h) ==
    /\ req[h].kind = "renew" /\ At(h, "reading") /\ Returned(h)
    /\ IF client[h].read = NoSession
       THEN Answer(h, "dead")
       ELSE \/ req' = [req EXCEPT ![h].at = "validating", ![h].expected = client[h].read]
            \/ Answer(h, "invalid")
    /\ UNCHANGED <<storeVars, minted>>

RenewRejected(h) ==
    /\ At(h, "validating")
    /\ Answer(h, "invalid") \/ Answer(h, "unavailable")
    /\ UNCHANGED <<storeVars, minted>>

\* A mutation: a cookie upstream did not rotate is taken for stored.
RenewValidatedTrusting(h) ==
    /\ At(h, "validating")
    /\ IF req[h].cookie = req[h].expected[req[h].field]
       THEN Answer(h, "renewed") /\ UNCHANGED storeVars
       ELSE /\ Goto(h, "replacing")
            /\ CallReplace(h, req[h].expected, WithCookie(req[h].expected, h))
    /\ UNCHANGED minted

RenewValidated(h) ==
    /\ At(h, "validating")
    /\ IF req[h].cookie = req[h].expected[req[h].field]
       THEN Goto(h, "rechecking") /\ ReadLive(h, req[h].generation)
       ELSE /\ Goto(h, "replacing")
            /\ CallReplace(h, req[h].expected, WithCookie(req[h].expected, h))
    /\ UNCHANGED minted

\* The cookie was not rotated: is the snapshot still the live one?
RenewRechecked(h) ==
    /\ At(h, "rechecking") /\ Returned(h)
    /\ Answer(h, IF client[h].read = NoSession THEN "dead"
                 ELSE IF SameExceptOther(client[h].read, req[h].expected, req[h].field)
                 THEN "renewed" ELSE "conflict")
    /\ UNCHANGED <<storeVars, minted>>

\* What replaceIfUnchanged() is answered with, a conflict the second time.
ReplaceAnswer(result) == IF result = "updated" THEN "renewed" ELSE result

\* A mutation: a conflict is final.
RenewReplacedOnce(h) ==
    /\ At(h, "replacing") /\ Returned(h)
    /\ Answer(h, ReplaceAnswer(client[h].result))
    /\ UNCHANGED <<storeVars, minted>>

RenewReplaced(h) ==
    /\ At(h, "replacing") /\ Returned(h)
    /\ IF client[h].result = "conflict"
       THEN Goto(h, "rereading") /\ ReadLive(h, req[h].generation)
       ELSE Answer(h, ReplaceAnswer(client[h].result)) /\ UNCHANGED storeVars
    /\ UNCHANGED minted

\* One conflict is merged, if all that changed is the other service's cookie.
RenewReread(h) ==
    LET current == client[h].read IN
    /\ At(h, "rereading") /\ Returned(h)
    /\ IF current # NoSession /\ SameExceptOther(current, req[h].expected, req[h].field)
       THEN /\ req' = [req EXCEPT ![h].at = "merging", ![h].expected = current]
            /\ CallReplace(h, current, WithCookie(current, h))
       ELSE /\ Answer(h, IF current = NoSession THEN "dead" ELSE "conflict")
            /\ UNCHANGED storeVars
    /\ UNCHANGED minted

RenewMerged(h) ==
    /\ At(h, "merging") /\ Returned(h)
    /\ Answer(h, ReplaceAnswer(client[h].result))
    /\ UNCHANGED <<storeVars, minted>>

-----------------------------------------------------------------------------

HandlerStep(h) ==
    \/ HandoffStart(h) \/ HandoffKulon(h) \/ HandoffIdentity(h) \/ HandoffSiapRetry(h)
    \/ HandoffStore(h) \/ HandoffSign(h)
    \/ \E generation \in minted :
          RefreshStart(h, generation) \/ LogoutStart(h, generation) \/ UseStart(h, generation)
    \/ RefreshSign(h) \/ LogoutDone(h) \/ UseGuarded(h) \/ UseSession(h)
    \/ \E generation \in minted, field \in Services, cookie \in Cookies :
          RenewStart(h, generation, field, cookie)
    \/ RenewGuarded(h) \/ RenewExpected(h) \/ RenewRejected(h) \/ RenewValidated(h)
    \/ RenewRechecked(h) \/ RenewReplaced(h) \/ RenewReread(h) \/ RenewMerged(h)
    \/ Respond(h)

\* The store works on a call, time passes, the rest of the backend calls.
Background ==
    /\ \/ \E c \in Clients : StoreStep(c)
       \/ \E c \in Clients \ Handlers : Call(c) \/ Return(c)
       \/ Tick
    /\ UNCHANGED <<minted, req>>

\* Requests in flight are lost with the process; tokens are not.
Crash ==
    /\ Restart \/ RotateKey
    /\ req' = [h \in Handlers |-> Free]
    /\ UNCHANGED minted

AuthNext == (\E h \in Handlers : HandlerStep(h)) \/ Background \/ Crash

AuthSpec == AuthInit /\ [][AuthNext]_authVars

-----------------------------------------------------------------------------
(* Properties                                                                *)

AuthTypeOK ==
    /\ StoreTypeOK
    /\ minted \subseteq Generations
    /\ req \in [Handlers -> Requests]

\* A request that passed the guard with a token goes upstream with the cookies
\* of the session that token was minted for, or is refused: a login that
\* replaces the session between the guard and the service changes nothing.
TokenSeesOwnSession ==
    \A h \in Handlers :
        (At(h, "answered") /\ req[h].answer = "session")
        => client[h].read.sessionGeneration = req[h].generation

\* A renewal never asks the store for a replacement the store throws on.
RenewalNeverThrows == \A h \in Handlers : client[h].result # "throw"

=============================================================================
