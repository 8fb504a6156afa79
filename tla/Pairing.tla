------------------------------ MODULE Pairing ------------------------------
(***************************************************************************)
(* pairing.service.ts over redis-pairing.store.ts: a signed-in device asks *)
(* for a one-time code, another device redeems it for a token of the same  *)
(* session, and the first device polls whether that has happened.          *)
(*                                                                         *)
(* A code owns three Redis keys with lifetimes of their own (pair:,        *)
(* pair-exp:, pair-used:), read and written one command at a time, and     *)
(* each request also reads the session store.  Of that store this module   *)
(* assumes what SessionLife promises: `live` is the generation an identity *)
(* is signed in under, and a generation that ended does not come back.     *)
(***************************************************************************)
EXTENDS Integers

CONSTANTS Subs, Generations, NoGeneration, Codes, NoCode, Requests,
          PairTtl,    \* PAIRING_TTL_MS, in ticks
          Grace,      \* EXPIRED_TOMBSTONE_GRACE_MS
          UsedTtl,    \* CONSUMED_TOMBSTONE_TTL_MS
          MaxTime     \* bound on the clock

ASSUME PairLifetimesAssumption ==
    PairTtl \in Nat \ {0} /\ Grace \in Nat /\ UsedTtl \in Nat \ {0} /\ MaxTime \in Nat

ASSUME PairNullsAssumption == NoGeneration \notin Generations /\ NoCode \notin Codes

VARIABLES now,
          live,      \* live[sub]: the generation sub is signed in under
          logins,    \* the tokens of all logins so far
          pair,      \* pair:<code>, with the time Redis drops it
          pairExp,   \* when pair-exp:<code> is dropped
          pairUsed,  \* pair-used:<code>, with the time Redis drops it
          drawn,     \* the codes generated so far
          shown,     \* the codes a device has been shown
          req        \* req[r]: the request r

pairVars == <<now, live, logins, pair, pairExp, pairUsed, drawn, shown, req>>

keyVars == <<pair, pairExp, pairUsed>>

Logins == [sub : Subs, generation : Generations]

NoLogin == [sub |-> CHOOSE sub \in Subs : TRUE, generation |-> NoGeneration]

\* A key is present until its time; 0 is a key that is not there.
Keys == [login : Logins \cup {NoLogin}, until : Nat]

NoKey == [login |-> NoLogin, until |-> 0]

Present(key) == now < key.until

RequestStates ==
    [at : {"free", "guard", "reading", "setting", "setting-exp", "taking", "retaking",
           "missing", "marking", "issuer", "status", "used", "answered"},
     kind : {"none", "request", "consume", "status"},
     login : Logins \cup {NoLogin}, code : Codes \cup {NoCode},
     answer : {"none", "code", "token", "pending", "consumed", "invalid", "expired",
               "dead", "error"}]

Free == [at |-> "free", kind |-> "none", login |-> NoLogin, code |-> NoCode,
         answer |-> "none"]

PairInit ==
    /\ now = 0
    /\ live = [sub \in Subs |-> NoGeneration]
    /\ logins = {}
    /\ pair = [code \in Codes |-> NoKey]
    /\ pairExp = [code \in Codes |-> 0]
    /\ pairUsed = [code \in Codes |-> NoKey]
    /\ drawn = {}
    /\ shown = {}
    /\ req = [r \in Requests |-> Free]

-----------------------------------------------------------------------------
(* Steps a request is made of                                                *)

At(r, place) == req[r].at = place

Goto(r, place) == req' = [req EXCEPT ![r].at = place]

Answer(r, answer) == req' = [req EXCEPT ![r].at = "answered", ![r].answer = answer]

\* What readLiveSession may answer: a live session is missed when a renewal of
\* one of its cookies lands between the two round trips of the read.
ReadsLive(login) == {live[login.sub] = login.generation, FALSE}

Start(r, kind, login, code, place) ==
    /\ At(r, "free")
    /\ req' = [req EXCEPT ![r] = [Free EXCEPT !.at = place, !.kind = kind,
                                              !.login = login, !.code = code]]
    /\ UNCHANGED <<now, live, logins, keyVars, drawn, shown>>

\* JwtAuthGuard
Guard(r) ==
    /\ At(r, "guard")
    /\ \E alive \in ReadsLive(req[r].login) :
         IF alive
         THEN Goto(r, IF req[r].kind = "request" THEN "reading" ELSE "status")
         ELSE Answer(r, "dead")
    /\ UNCHANGED <<now, live, logins, keyVars, drawn, shown>>

-----------------------------------------------------------------------------
(* requestPairing                                                            *)

RequestStart(r, login) == Start(r, "request", login, NoCode, "guard")

RequestRead(r) ==
    /\ At(r, "reading")
    /\ \E alive \in ReadsLive(req[r].login) :
         IF alive
         THEN \E code \in Codes \ drawn :
                /\ drawn' = drawn \cup {code}
                /\ req' = [req EXCEPT ![r].at = "setting", ![r].code = code]
         ELSE Answer(r, "dead") /\ UNCHANGED drawn
    /\ UNCHANGED <<now, live, logins, keyVars, shown>>

SetPair(r) ==
    /\ At(r, "setting")
    /\ pair' = [pair EXCEPT ![req[r].code] = [login |-> req[r].login,
                                              until |-> now + PairTtl]]
    /\ Goto(r, "setting-exp")
    /\ UNCHANGED <<now, live, logins, pairExp, pairUsed, drawn, shown>>

SetExp(r) ==
    /\ At(r, "setting-exp")
    /\ pairExp' = [pairExp EXCEPT ![req[r].code] = now + PairTtl + Grace]
    /\ shown' = shown \cup {req[r].code}
    /\ Answer(r, "code")
    /\ UNCHANGED <<now, live, logins, pair, pairUsed, drawn>>

-----------------------------------------------------------------------------
(* consume                                                                   *)

ConsumeStart(r, code) == Start(r, "consume", NoLogin, code, "taking")

\* Nothing is left of what was typed once it is normalised.
ConsumeEmpty(r) ==
    /\ At(r, "free")
    /\ req' = [req EXCEPT ![r] = [Free EXCEPT !.at = "answered", !.kind = "consume",
                                              !.answer = "invalid"]]
    /\ UNCHANGED <<now, live, logins, keyVars, drawn, shown>>

\* A mutation: the key is read and left where it is.
ReadPair(r) ==
    /\ IF Present(pair[req[r].code])
       THEN req' = [req EXCEPT ![r].at = "marking", ![r].login = pair[req[r].code].login]
       ELSE Goto(r, "missing")
    /\ UNCHANGED pair

\* GETDEL, or the script that stands in for it.
TakePair(r) ==
    /\ IF Present(pair[req[r].code])
       THEN req' = [req EXCEPT ![r].at = "marking", ![r].login = pair[req[r].code].login]
       ELSE Goto(r, "missing")
    /\ pair' = [pair EXCEPT ![req[r].code] = NoKey]

Take(r) ==
    /\ At(r, "taking") \/ At(r, "retaking")
    /\ TakePair(r)
    /\ UNCHANGED <<now, live, logins, pairExp, pairUsed, drawn, shown>>

\* GETDEL rejects, and has or has not deleted the key: whatever the error is,
\* the script is tried.
TakeRejected(r) ==
    /\ At(r, "taking")
    /\ Goto(r, "retaking")
    /\ \/ UNCHANGED pair
       \/ pair' = [pair EXCEPT ![req[r].code] = NoKey]
    /\ UNCHANGED <<now, live, logins, pairExp, pairUsed, drawn, shown>>

ReadExp(r) ==
    /\ At(r, "missing")
    /\ Answer(r, IF now < pairExp[req[r].code] THEN "expired" ELSE "invalid")
    /\ UNCHANGED <<now, live, logins, keyVars, drawn, shown>>

\* A mutation: the code is not marked as used.
SetUsedNever(r) ==
    /\ At(r, "marking")
    /\ Goto(r, "issuer")
    /\ UNCHANGED <<now, live, logins, keyVars, drawn, shown>>

SetUsed(r) ==
    /\ At(r, "marking")
    /\ pairUsed' = [pairUsed EXCEPT ![req[r].code] = [login |-> req[r].login,
                                                      until |-> now + UsedTtl]]
    /\ Goto(r, "issuer")
    /\ UNCHANGED <<now, live, logins, pair, pairExp, drawn, shown>>

\* A mutation: the token is bound to whatever session the identity has now.
ReadAnySession(r) ==
    LET current == live[req[r].login.sub] IN
    /\ At(r, "issuer")
    /\ IF current = NoGeneration
       THEN Answer(r, "dead")
       ELSE req' = [req EXCEPT ![r].at = "answered", ![r].answer = "token",
                               ![r].login.generation = current]
    /\ UNCHANGED <<now, live, logins, keyVars, drawn, shown>>

\* The session the code was asked for under, or none: the token is signed for
\* the generation just read.
ReadIssuer(r) ==
    /\ At(r, "issuer")
    /\ \E alive \in ReadsLive(req[r].login) : Answer(r, IF alive THEN "token" ELSE "dead")
    /\ UNCHANGED <<now, live, logins, keyVars, drawn, shown>>

-----------------------------------------------------------------------------
(* statusFor.  The guard vouches for the viewer; only the sub is compared.   *)

StatusStart(r, login, code) == Start(r, "status", login, code, "guard")

Owns(r, key) == key.login.sub = req[r].login.sub

StatusGet(r) ==
    LET key == pair[req[r].code] IN
    /\ At(r, "status")
    /\ IF Present(key)
       THEN Answer(r, IF Owns(r, key) THEN "pending" ELSE "invalid")
       ELSE Goto(r, "used")
    /\ UNCHANGED <<now, live, logins, keyVars, drawn, shown>>

FindConsumed(r) ==
    LET key == pairUsed[req[r].code] IN
    /\ At(r, "used")
    /\ Answer(r, IF Present(key) /\ Owns(r, key) THEN "consumed" ELSE "invalid")
    /\ UNCHANGED <<now, live, logins, keyVars, drawn, shown>>

-----------------------------------------------------------------------------

Respond(r) ==
    /\ At(r, "answered")
    /\ req' = [req EXCEPT ![r] = Free]
    /\ UNCHANGED <<now, live, logins, keyVars, drawn, shown>>

\* A Redis command is refused, or its reply lost, or the backend restarts: the
\* request fails with what it has done so far.
Fail(r) ==
    /\ req[r].at \notin {"free", "taking", "answered"}
    /\ Answer(r, "error")
    /\ UNCHANGED <<now, live, logins, keyVars, drawn, shown>>

Tick ==
    /\ now < MaxTime
    /\ now' = now + 1
    /\ UNCHANGED <<live, logins, keyVars, drawn, shown, req>>

\* The session store, seen from here: a login replaces, a logout or an expiry
\* ends.
Login(sub, generation) ==
    /\ \A login \in logins : login.generation # generation
    /\ live' = [live EXCEPT ![sub] = generation]
    /\ logins' = logins \cup {[sub |-> sub, generation |-> generation]}
    /\ UNCHANGED <<now, keyVars, drawn, shown, req>>

End(sub) ==
    /\ live[sub] # NoGeneration
    /\ live' = [live EXCEPT ![sub] = NoGeneration]
    /\ UNCHANGED <<now, logins, keyVars, drawn, shown, req>>

RequestStep(r) ==
    \/ \E login \in logins :
          RequestStart(r, login) \/ \E code \in shown : StatusStart(r, login, code)
    \/ Guard(r) \/ RequestRead(r) \/ SetPair(r) \/ SetExp(r)
    \/ \E code \in shown : ConsumeStart(r, code)
    \/ ConsumeEmpty(r) \/ Take(r) \/ TakeRejected(r) \/ ReadExp(r) \/ SetUsed(r)
    \/ ReadIssuer(r) \/ StatusGet(r) \/ FindConsumed(r) \/ Respond(r) \/ Fail(r)

PairNext ==
    \/ \E r \in Requests : RequestStep(r)
    \/ \E sub \in Subs : End(sub) \/ \E generation \in Generations : Login(sub, generation)
    \/ Tick

PairSpec == PairInit /\ [][PairNext]_pairVars

-----------------------------------------------------------------------------

PairTypeOK ==
    /\ now \in Nat
    /\ live \in [Subs -> Generations \cup {NoGeneration}]
    /\ logins \subseteq Logins
    /\ pair \in [Codes -> Keys]
    /\ pairExp \in [Codes -> Nat]
    /\ pairUsed \in [Codes -> Keys]
    /\ shown \subseteq drawn /\ drawn \subseteq Codes
    /\ req \in [Requests -> RequestStates]

\* However many devices redeem a code at the same time, and whether or not the
\* reply to the GETDEL gets through, at most one of them gets past it: no two
\* requests hold what one code was worth, and none holds it while the code can
\* still be redeemed.
CodeIsTakenOnce ==
    \A r \in Requests :
        (req[r].kind = "consume" /\ req[r].at \in {"marking", "issuer"})
        => /\ ~ Present(pair[req[r].code])
           /\ \A other \in Requests \ {r} :
                (req[other].kind = "consume" /\ req[other].code = req[r].code)
                => req[other].at \notin {"marking", "issuer"}

=============================================================================
