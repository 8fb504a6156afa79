------------------------- MODULE AuthSessionsProofs -------------------------
(***************************************************************************)
(* Requests on top of the Redis store, for any number of handlers, other   *)
(* clients, tokens, cookies and lifetimes.                                 *)
(*                                                                         *)
(* The first invariant, AuthInv, ties the place of a request to the store  *)
(* call its handler awaits: a token is only ever answered with a session   *)
(* of its own generation.  The second, SeenInv, ties what was seen of the  *)
(* record since a request began to what the request has read: as long as   *)
(* nobody else has changed the record, what was read is what is there.     *)
(* OwnersInv, StatesInv and GenerationsInv are of the development sign-ins. *)
(***************************************************************************)
EXTENDS MCAuthSessions, RedisSessionStoreProofs, FiniteSetTheorems

-----------------------------------------------------------------------------
(* What is known of a request x and of the store call cl of its handler      *)

Intake == {"kulon", "identity", "siap"}

ReadPlaces == {"reading", "guarded", "using", "rechecking", "rereading"}

ReplacePlaces == {"replacing", "merging"}

\* The places past the first snapshot a renewal was validated with.
Renewing == {"validating", "rechecking", "rereading"} \cup ReplacePlaces

\* The places of a request that came with a token, until it is answered.
Working == ReadPlaces \cup Renewing \cup {"clearing"}

\* The store call a request awaits at its place.
Awaits(x, cl) ==
    /\ x.at \in {"free"} \cup Intake => cl.pc = "idle"
    /\ x.at = "storing" => cl.call.op = "set" /\ cl.pc \in {"set", "done"}
    /\ x.at \in ReadPlaces \cup {"validating"} =>
          /\ cl.call.op = "getIfGeneration" /\ cl.call.generation = x.generation
    /\ x.at = "validating" => cl.pc = "done"
    /\ x.at = "clearing" =>
          /\ cl.call.op = "clearIfGeneration" /\ cl.call.generation = x.generation
          /\ cl.pc \in {"get", "decide", "delete", "done"}
    /\ x.at \in ReplacePlaces =>
          /\ cl.call.op = "replaceIfUnchanged" /\ cl.call.generation = x.generation
          /\ cl.call.expected = x.expected
          /\ cl.call.replacement = [x.expected EXCEPT ![x.field] = x.cookie]
          /\ cl.pc \in {"get", "decide", "delete", "replace", "done"}
          /\ cl.pc = "done" => cl.result \in {"updated", "conflict", "dead"}
    /\ x.at = "answered" => cl.pc \in {"idle", "done"}

\* What a renewal works with: its cookie is another than the one it replaces.
Renews(x) ==
    /\ x.at \in Renewing =>
          /\ x.expected \in Sessions /\ x.expected.sessionGeneration = x.generation
          /\ x.kind = "renew"
    /\ x.kind = "renew" => x.field \in Services /\ x.cookie \in Cookies
    /\ x.at = "rechecking" => x.expected[x.field] = x.cookie
    /\ x.at \in {"rereading"} \cup ReplacePlaces => x.expected[x.field] # x.cookie

Serves(x, cl) ==
    /\ Awaits(x, cl)
    /\ cl.call.op = "getIfGeneration" => OwnRead(cl)
    /\ Renews(x)
    /\ x.at \in Working \cup {"storing"} => x.generation \in Generations
    /\ (x.at = "answered" /\ x.answer = "session") =>
          /\ cl.call.op = "getIfGeneration" /\ cl.call.generation = x.generation
          /\ cl.pc = "done" /\ cl.read # NoSession /\ x.generation \in Generations
    /\ cl.result # "throw"

AuthInv ==
    /\ StoreInv
    /\ AuthTypeOK
    /\ \A h \in Handlers : Serves(req[h], client[h])

-----------------------------------------------------------------------------
(* What was seen of the record while a request was served.  A request x, the *)
(* call cl of its handler, what was seen s, and the envelope e in Redis.     *)

\* Of a request whose session was live when it began, and whose record nobody
\* else has changed, and which has not come past its absolute cap.
Undisturbed(x, cl, e) ==
    /\ (x.at \in Working /\ ~ (cl.pc = "done" /\ cl.call.op = "clearIfGeneration"))
       => SessionIn(e) # NoSession /\ SessionIn(e).sessionGeneration = x.generation
    /\ (x.at \in Working /\ cl.pc \in {"decide", "expire", "delete", "replace"})
       => cl.envelope = e
    /\ x.at \in Working /\ cl.pc = "delete" => cl.call.op = "clearIfGeneration"
    /\ x.at \in Working /\ cl.pc = "done" =>
          /\ cl.call.op = "getIfGeneration" => cl.read # NoSession
          /\ cl.call.op = "clearIfGeneration" => cl.result = "true"
          /\ cl.call.op = "replaceIfUnchanged" => cl.result # "dead"
    /\ x.at = "answered" => x.answer # "dead"

\* The record differs from a snapshot in the other service's cookie at most.
Near(session, snapshot, x) ==
    session # NoSession /\ SameExceptOther(session, snapshot, x.field)

\* While nobody has changed the record, it is the snapshot.
Follows(e, snapshot, x, moved) ==
    Near(SessionIn(e), snapshot, x) /\ (moved = 0 => SessionIn(e) = snapshot)

\* Of a renewal that met one renewal of the other service, or none.
Mergeable(x, cl, e, moved) ==
    /\ (x.at = "reading" /\ cl.pc = "done" /\ cl.read # NoSession) =>
          Follows(e, cl.read, x, moved)
    /\ x.at = "validating" => Follows(e, x.expected, x, moved)
    /\ x.at = "rechecking" =>
          /\ cl.pc # "done" => Near(SessionIn(e), x.expected, x)
          /\ cl.pc \in {"decide", "expire"} /\ Decrypt(cl.envelope) # NoSession =>
                Near(Decrypt(cl.envelope), x.expected, x)
          /\ cl.pc = "done" /\ cl.read # NoSession => Near(cl.read, x.expected, x)
    /\ x.at = "replacing" =>
          /\ cl.pc # "done" => Follows(e, x.expected, x, moved)
          /\ cl.pc \in {"decide", "replace", "delete"} /\ moved = 0 => cl.envelope = e
          /\ cl.pc = "done" /\ cl.result = "conflict" =>
                moved = 1 /\ Near(SessionIn(e), x.expected, x)
    /\ x.at = "rereading" =>
          /\ moved = 1
          /\ cl.pc # "done" => Near(SessionIn(e), x.expected, x)
          /\ cl.pc \in {"decide", "expire"} => cl.envelope = e
          /\ cl.pc = "done" /\ cl.read # NoSession =>
                SessionIn(e) = cl.read /\ Near(SessionIn(e), x.expected, x)
    /\ x.at = "merging" =>
          /\ moved = 1
          /\ cl.pc # "done" => SessionIn(e) = x.expected
          /\ cl.pc \in {"decide", "replace", "delete"} => cl.envelope = e
          /\ cl.pc = "done" => cl.result # "conflict"
    /\ x.at = "answered" => x.answer # "conflict"

\* Of the cookie a renewal answers for.
Confirmed(x, cl, held) ==
    /\ (x.at = "rechecking" /\ cl.pc = "done" /\ cl.read # NoSession
        /\ cl.read[x.field] = x.cookie) => held
    /\ (x.at \in ReplacePlaces /\ cl.pc = "done" /\ cl.result = "updated") => held
    /\ (x.at = "answered" /\ x.answer = "renewed") => held

SeenOK(x, cl, s, e) ==
    /\ s.moved \in 0..2
    /\ s.began /\ s.moved = 0 /\ ~ s.capped => Undisturbed(x, cl, e)
    /\ s.moved < 2 /\ ~ s.foreign => Mergeable(x, cl, e, s.moved)
    /\ Confirmed(x, cl, s.held)

SeenInv == \A h \in Handlers : SeenOK(req[h], client[h], seen[h], redis)

-----------------------------------------------------------------------------
(* What a step of a request makes of it, x before and y after, and of its    *)
(* store call, cl before and new after                                       *)

Same(x, y) == y.kind = x.kind /\ y.field = x.field /\ y.cookie = x.cookie

Keeps(x, y) == Same(x, y) /\ y.generation = x.generation

\* The handler has sent a qualified call, or a renewal of y's snapshot.
Asks(new, op, generation) ==
    /\ new.pc = "get" /\ new.result = "void"
    /\ new.call.op = op /\ new.call.generation = generation

AsksReplace(new, y) ==
    /\ Asks(new, "replaceIfUnchanged", y.expected.sessionGeneration)
    /\ new.call.expected = y.expected
    /\ new.call.replacement = [y.expected EXCEPT ![y.field] = y.cookie]

\* A login is taken in, stored and signed.
TakesIn(x, cl, y, new) ==
    \/ /\ x.at \in {"free"} \cup Intake /\ new = cl /\ (Same(x, y) \/ y.kind = "handoff")
       /\ y.at \in Intake \/ (y.at = "answered" /\ y.answer = "refused")
    \/ /\ x.at = "siap" /\ y.at = "storing" /\ Same(x, y) /\ y.generation \in Generations
       /\ new.pc = "set" /\ new.call.op = "set" /\ new.result = "void"
    \/ /\ x.at = "storing" /\ Keeps(x, y) /\ new = cl /\ cl.pc = "done"
       /\ y.at = "answered" /\ y.answer = "token"

\* A request comes with a token.
Opens(x, y, new) ==
    /\ x.at = "free" /\ y.generation \in Generations
    /\ y.kind = "renew" => y.field \in Services /\ y.cookie \in Cookies
    /\ \/ y.at \in {"reading", "guarded"} /\ Asks(new, "getIfGeneration", y.generation)
       \/ y.at = "clearing" /\ Asks(new, "clearIfGeneration", y.generation)

\* A read or a logout comes back.
ComesBack(x, cl, y, new) ==
    /\ cl.pc = "done" /\ Keeps(x, y)
    /\ \/ /\ x.at \in ReadPlaces /\ cl.read = NoSession
          /\ y.at = "answered" /\ y.answer = "dead" /\ new = cl
       \/ /\ x.at = "guarded" /\ cl.read # NoSession
          /\ y.at \in {"using", "reading"} /\ Asks(new, "getIfGeneration", x.generation)
       \/ /\ x.at = "using" /\ cl.read # NoSession
          /\ y.at = "answered" /\ y.answer = "session" /\ new = cl
       \/ /\ x.at = "reading" /\ cl.read # NoSession
          /\ y.at = "answered" /\ y.answer \in {"token", "invalid"} /\ new = cl
       \/ /\ x.at = "clearing" /\ new = cl
          /\ y.at = "answered" /\ y.answer = IF cl.result = "true" THEN "ok" ELSE "dead"
       \/ /\ x.at = "reading" /\ x.kind = "renew" /\ cl.read # NoSession
          /\ y.at = "validating" /\ y.expected = cl.read /\ new = cl

\* Upstream has validated the new cookie, or not.
Validates(x, cl, y, new) ==
    /\ x.at = "validating" /\ Keeps(x, y)
    /\ \/ y.at = "answered" /\ y.answer \in {"invalid", "unavailable"} /\ new = cl
       \/ /\ y.expected = x.expected /\ x.cookie = x.expected[x.field]
          /\ y.at = "rechecking" /\ Asks(new, "getIfGeneration", x.generation)
       \/ /\ y.expected = x.expected /\ x.cookie # x.expected[x.field]
          /\ y.at = "replacing" /\ AsksReplace(new, y)

\* The store has answered a renewal.
Renewed(x, cl, y, new) ==
    /\ cl.pc = "done" /\ Keeps(x, y)
    /\ \/ /\ x.at = "rechecking" /\ cl.read # NoSession /\ new = cl /\ y.at = "answered"
          /\ y.answer = IF SameExceptOther(cl.read, x.expected, x.field) THEN "renewed"
                        ELSE "conflict"
       \/ /\ x.at = "replacing" /\ cl.result = "conflict" /\ y.expected = x.expected
          /\ y.at = "rereading" /\ Asks(new, "getIfGeneration", x.generation)
       \/ /\ x.at = "merging" \/ (x.at = "replacing" /\ cl.result # "conflict")
          /\ new = cl /\ y.at = "answered" /\ y.answer = ReplaceAnswer(cl.result)
       \/ /\ x.at = "rereading" /\ Near(cl.read, x.expected, x) /\ y.expected = cl.read
          /\ y.at = "merging" /\ AsksReplace(new, y)
       \/ /\ x.at = "rereading" /\ cl.read # NoSession /\ ~ Near(cl.read, x.expected, x)
          /\ new = cl /\ y.at = "answered" /\ y.answer = "conflict"

Leaves(x, cl, y, new) ==
    /\ x.at = "answered" /\ y = Free
    /\ new = IF cl.pc = "done" THEN Idle ELSE cl

Handles(x, cl, y, new) ==
    \/ TakesIn(x, cl, y, new) \/ Opens(x, y, new) \/ ComesBack(x, cl, y, new)
    \/ Validates(x, cl, y, new) \/ Renewed(x, cl, y, new) \/ Leaves(x, cl, y, new)

\* A step of the request h serves: nobody else's, and Redis is not touched.
Served(h) ==
    /\ req' \in [Handlers -> Requests] /\ \A g \in Handlers \ {h} : req'[g] = req[g]
    /\ \A c \in Clients \ {h} : client'[c] = client[c]
    /\ StoreInv' /\ UNCHANGED redis
    /\ minted' \subseteq Generations
    /\ Handles(req[h], client[h], req'[h], client'[h])

-----------------------------------------------------------------------------
(* The steps a request is made of                                            *)

USE HandlersAssumption

LEMMA RequestFields ==
    ASSUME AuthInv, NEW h \in Handlers
    PROVE  /\ h \in Clients /\ req \in [Handlers -> Requests] /\ req[h] \in Requests
           /\ minted \subseteq Generations
           /\ req[h].kind \in {"none", "handoff", "refresh", "renew", "logout", "use"}
           /\ req[h].field \in Services \cup {"none"}
           /\ req[h].cookie \in Cookies \cup {NoCookie}
           /\ req[h].generation \in Generations \cup {NoGeneration}
           /\ req[h].expected \in Sessions \cup {NoSession}
           /\ StoreInv /\ Serves(req[h], client[h])
           /\ client[h] \in ClientStates /\ client \in [Clients -> ClientStates]
           /\ client[h].read \in Sessions \cup {NoSession}
BY CallTypes DEF AuthInv, AuthTypeOK, Requests, StoreInv, StoreTypeOK

\* What is left of a step that changes one request only.
LEMMA StoreStutters ==
    ASSUME StoreInv, UNCHANGED storeVars
    PROVE  StoreInv' /\ UNCHANGED <<redis, client>>
BY StoreNextInv DEF storeVars

LEMMA AnswerEffect ==
    ASSUME AuthInv, NEW h \in Handlers, NEW answer \in Answers, Answer(h, answer)
    PROVE  /\ req' \in [Handlers -> Requests] /\ \A g \in Handlers \ {h} : req'[g] = req[g]
           /\ Keeps(req[h], req'[h]) /\ req'[h].at = "answered" /\ req'[h].answer = answer
<1>1. req \in [Handlers -> Requests] /\ req[h] \in Requests
  BY RequestFields
<1> DEFINE y1 == [req[h] EXCEPT !.at = "answered", !.answer = answer]
           y2 == [y1 EXCEPT !.expected = NoSession]
           y  == [y2 EXCEPT !.attempt = 0]
<1>2. y \in Requests
  <2>1. y1 \in Requests
    BY <1>1 DEF Requests
  <2>2. y2 \in Requests
    BY <2>1 DEF Requests
  <2> HIDE DEF y1, y2
  <2> QED
    BY <2>2 DEF Requests
<1>3. req' = [req EXCEPT ![h] = y]
  BY <1>1 DEF Answer
<1>4. Keeps(req[h], y) /\ y.at = "answered" /\ y.answer = answer
  BY <1>1 DEF Requests, Keeps, Same
<1> QED
  BY <1>1, <1>2, <1>3, <1>4

LEMMA GotoEffect ==
    ASSUME AuthInv, NEW h \in Handlers,
           NEW place \in {"siap", "using", "reading", "rechecking", "replacing", "rereading"},
           Goto(h, place)
    PROVE  /\ req' \in [Handlers -> Requests] /\ \A g \in Handlers \ {h} : req'[g] = req[g]
           /\ Keeps(req[h], req'[h]) /\ req'[h].at = place
           /\ req'[h].expected = req[h].expected
<1>1. req \in [Handlers -> Requests] /\ req[h] \in Requests
  BY RequestFields
<1> DEFINE y == [req[h] EXCEPT !.at = place]
<1>2. y \in Requests
  BY <1>1 DEF Requests
<1>3. req' = [req EXCEPT ![h] = y]
  BY <1>1 DEF Goto
<1>4. Keeps(req[h], y) /\ y.at = place /\ y.expected = req[h].expected
  BY <1>1 DEF Requests, Keeps, Same
<1> QED
  BY <1>1, <1>2, <1>3, <1>4

LEMMA BeginEffect ==
    ASSUME AuthInv, NEW h \in Handlers,
           NEW kind \in {"refresh", "renew", "logout", "use"}, NEW generation \in minted,
           NEW field \in Services \cup {"none"}, NEW cookie \in Cookies \cup {NoCookie},
           NEW place \in {"reading", "guarded", "clearing"},
           Begin(h, kind, generation, field, cookie, place)
    PROVE  /\ req' \in [Handlers -> Requests] /\ \A g \in Handlers \ {h} : req'[g] = req[g]
           /\ req[h].at = "free" /\ req'[h].at = place /\ req'[h].kind = kind
           /\ req'[h].generation = generation /\ generation \in Generations
           /\ req'[h].field = field /\ req'[h].cookie = cookie
<1>1. req \in [Handlers -> Requests] /\ generation \in Generations
  BY RequestFields
<1> DEFINE y0 == [Free EXCEPT !.at = place, !.kind = kind]
           y1 == [y0 EXCEPT !.generation = generation]
           y  == [y1 EXCEPT !.field = field, !.cookie = cookie]
<1>2. req' = [req EXCEPT ![h] = y]
  BY DEF Begin
<1>3. Free \in Requests
  BY DEF Free, Requests, Answers
<1>4. y0 \in Requests /\ y0.at = place /\ y0.kind = kind
  BY ZenonT(60), <1>3 DEF Requests
<1> HIDE DEF y0
<1>5. y1 \in Requests /\ y1.at = place /\ y1.kind = kind /\ y1.generation = generation
  BY <1>1, <1>4 DEF Requests
<1> HIDE DEF y1
<1>6. /\ y \in Requests /\ y.at = place /\ y.kind = kind /\ y.generation = generation
      /\ y.field = field /\ y.cookie = cookie
  BY <1>5 DEF Requests
<1> HIDE DEF y
<1> QED
  BY <1>1, <1>2, <1>6 DEF Begin, Start, At

LEMMA AskEffect ==
    ASSUME AuthInv, NEW h \in Handlers, NEW generation,
           NEW op \in {"getIfGeneration", "clearIfGeneration"},
           CallQualified(h, op, generation)
    PROVE  /\ StoreInv' /\ UNCHANGED redis
           /\ \A c \in Clients \ {h} : client'[c] = client[c]
           /\ Asks(client'[h], op, generation)
<1>1. h \in Clients /\ StoreInv
  BY RequestFields
<1>2. StoreInv'
  <2>1. generation \in stored
    BY DEF CallQualified
  <2> QED
    BY <1>1, <2>1, CallQualifiedInv
<1> DEFINE call == [NoCall EXCEPT !.op = op, !.generation = generation]
<1>3. Enter(h, call, "get") /\ call.op = op /\ call.generation = generation
  BY DEF CallQualified, NoCall
<1> HIDE DEF call
<1>4. /\ \A c \in Clients \ {h} : client'[c] = client[c]
      /\ client'[h].pc = "get" /\ client'[h].call = call /\ client'[h].result = "void"
      /\ UNCHANGED redis
  BY <1>1, <1>3, EnterEffect
<1> QED
  BY <1>2, <1>3, <1>4 DEF Asks

LEMMA AskReplaceEffect ==
    ASSUME AuthInv, NEW h \in Handlers, NEW expected \in Sessions,
           NEW replacement \in Sessions, CallReplace(h, expected, replacement)
    PROVE  /\ StoreInv' /\ UNCHANGED redis
           /\ \A c \in Clients \ {h} : client'[c] = client[c]
           /\ Asks(client'[h], "replaceIfUnchanged", expected.sessionGeneration)
           /\ client'[h].call.expected = expected
           /\ client'[h].call.replacement = replacement
<1>1. h \in Clients /\ StoreInv
  BY RequestFields
<1>2. StoreInv'
  BY <1>1, CallReplaceInv
<1> DEFINE call == [NoCall EXCEPT !.op = "replaceIfUnchanged",
                                  !.generation = expected.sessionGeneration,
                                  !.expected = expected,
                                  !.replacement = replacement, !.iv = nextIv]
<1>3. /\ Enter(h, call, "get") /\ call.op = "replaceIfUnchanged"
      /\ call.generation = expected.sessionGeneration
      /\ call.expected = expected /\ call.replacement = replacement
  BY DEF CallReplace, NoCall
<1> HIDE DEF call
<1>4. /\ \A c \in Clients \ {h} : client'[c] = client[c]
      /\ client'[h].pc = "get" /\ client'[h].call = call /\ client'[h].result = "void"
      /\ UNCHANGED redis
  BY <1>1, <1>3, EnterEffect
<1> QED
  BY <1>2, <1>3, <1>4 DEF Asks

LEMMA CookieFits ==
    ASSUME NEW session \in Sessions, NEW field \in Services, NEW cookie \in Cookies
    PROVE  [session EXCEPT ![field] = cookie] \in Sessions
BY DEF Sessions, Services

-----------------------------------------------------------------------------
(* One lemma per step of a request                                           *)

\* A step that answers, and leaves the store alone.
LEMMA AnswerServes ==
    ASSUME AuthInv, NEW h \in Handlers, NEW answer \in Answers, Answer(h, answer),
           UNCHANGED storeVars, minted' \subseteq Generations
    PROVE  /\ Keeps(req[h], req'[h]) /\ req'[h].at = "answered" /\ req'[h].answer = answer
           /\ client'[h] = client[h]
           /\ Handles(req[h], client[h], req'[h], client'[h]) => Served(h)
BY RequestFields, StoreStutters, AnswerEffect DEF Served

LEMMA Moved ==
    ASSUME NEW x \in Requests, NEW place \in Intake \cup {"storing"}, NEW n \in 0..3
    PROVE  /\ [x EXCEPT !.at = place, !.attempt = n] \in Requests
           /\ [x EXCEPT !.at = place, !.attempt = n].at = place
           /\ Keeps(x, [x EXCEPT !.at = place, !.attempt = n])
<1>1. [x EXCEPT !.at = place] \in Requests
  BY DEF Requests, Intake
<1> QED
  BY <1>1 DEF Requests, Keeps, Same

LEMMA HandoffServed ==
    ASSUME AuthInv, NEW h \in Handlers,
           \/ HandoffStart(h) \/ HandoffKulon(h) \/ HandoffIdentity(h) \/ HandoffSiapRetry(h)
    PROVE  Served(h)
<1>1. UNCHANGED storeVars /\ minted' \subseteq Generations
  BY RequestFields DEF HandoffStart, HandoffKulon, HandoffIdentity, HandoffSiapRetry
<1>2. req[h].at \in {"free"} \cup Intake /\ req[h] \in Requests /\ req \in [Handlers -> Requests]
  BY RequestFields DEF HandoffStart, HandoffKulon, HandoffIdentity, HandoffSiapRetry, Start, At,
     Intake
<1>3. CASE Answer(h, "refused")
  BY <1>1, <1>2, <1>3, AnswerServes DEF Answers, Handles, TakesIn, Keeps
<1>4. ASSUME NEW y \in Requests, req' = [req EXCEPT ![h] = y], y.at \in Intake,
             Same(req[h], y) \/ y.kind = "handoff"
      PROVE  Served(h)
  BY <1>1, <1>2, <1>4, RequestFields, StoreStutters DEF Served, Handles, TakesIn
<1>5. CASE HandoffStart(h)
  <2> DEFINE y0 == [Free EXCEPT !.kind = "handoff"]
             y  == [y0 EXCEPT !.at = "kulon", !.attempt = 1]
  <2>1. y0 \in Requests /\ y0.kind = "handoff"
    BY DEF Free, Requests, Answers
  <2>2. req' = [req EXCEPT ![h] = y]
    <3>1. y = [Free EXCEPT !.at = "kulon", !.kind = "handoff", !.attempt = 1]
      BY DEF Free
    <3> QED
      BY <1>5, <3>1 DEF HandoffStart
  <2>3. 1 \in 0..3 /\ "kulon" \in Intake
    BY DEF Intake
  <2> HIDE DEF y0
  <2>4. y \in Requests /\ y.at = "kulon" /\ Keeps(y0, y)
    BY <2>1, <2>3, Moved
  <2> HIDE DEF y
  <2> QED
    BY <1>4, <2>1, <2>2, <2>3, <2>4 DEF Keeps, Same
<1>6. CASE req[h].at \in Intake /\ Retry(h)
  <2> DEFINE y == [req[h] EXCEPT !.attempt = @ + 1]
  <2>1. y \in Requests /\ y.at = req[h].at /\ Same(req[h], y)
    BY <1>2, <1>6 DEF Requests, Retry, Same
  <2>2. req' = [req EXCEPT ![h] = y]
    BY <1>2, <1>6 DEF Retry
  <2> QED
    BY <1>4, <1>6, <2>1, <2>2
<1>7. CASE req' = [req EXCEPT ![h].at = "identity", ![h].attempt = 1]
  <2> DEFINE y == [req[h] EXCEPT !.at = "identity", !.attempt = 1]
  <2>1. y \in Requests /\ y.at = "identity" /\ Same(req[h], y)
    <3>1. 1 \in 0..3 /\ "identity" \in Intake
      BY DEF Intake
    <3>2. y \in Requests /\ y.at = "identity" /\ Keeps(req[h], y)
      BY <1>2, <3>1, Moved
    <3> QED
      BY <3>2 DEF Keeps
  <2>2. req' = [req EXCEPT ![h] = y]
    BY <1>2, <1>7
  <2> QED
    BY <1>4, <2>1, <2>2 DEF Intake
<1>8. CASE Goto(h, "siap")
  <2> DEFINE y == [req[h] EXCEPT !.at = "siap"]
  <2>1. y \in Requests /\ y.at = "siap" /\ Same(req[h], y)
    BY <1>2 DEF Requests, Same
  <2>2. req' = [req EXCEPT ![h] = y]
    BY <1>2, <1>8 DEF Goto
  <2> QED
    BY <1>4, <2>1, <2>2 DEF Intake
<1> QED
  BY <1>3, <1>5, <1>6, <1>7, <1>8
     DEF HandoffKulon, HandoffIdentity, HandoffSiapRetry, At, Intake

LEMMA HandoffStoreServed ==
    ASSUME AuthInv, NEW h \in Handlers, HandoffStore(h)
    PROVE  Served(h)
<1>1. PICK generation \in Generations, handed \in Captures, valid \in BOOLEAN :
        /\ CallSet(h, generation,
                   IF valid THEN handed ELSE [handed EXCEPT !.siapCookie = NoCookie])
        /\ req' = [req EXCEPT ![h].at = "storing", ![h].generation = generation,
                              ![h].attempt = 0]
  BY DEF HandoffStore
<1> DEFINE kept == IF valid THEN handed ELSE [handed EXCEPT !.siapCookie = NoCookie]
           call == [NoCall EXCEPT !.op = "set", !.replacement = LoginSession(generation, kept),
                                  !.iv = nextIv]
           y1   == [req[h] EXCEPT !.at = "storing", !.attempt = 0]
           y    == [y1 EXCEPT !.generation = generation]
<1>2. kept \in Handovers
  <2>1. handed \in Handovers
    BY CapturesAssumption DEF Handovers
  <2>2. [handed EXCEPT !.siapCookie = NoCookie] \in Handovers
    BY <2>1 DEF Handovers
  <2> QED
    BY <2>1, <2>2
<1>3. req \in [Handlers -> Requests] /\ req[h] \in Requests /\ h \in Clients /\ StoreInv
  BY RequestFields
<1>4. y1 \in Requests /\ y1.at = "storing" /\ Keeps(req[h], y1)
  <2>1. 0 \in 0..3
    OBVIOUS
  <2> QED
    BY <1>3, <2>1, Moved
<1>5. req' = [req EXCEPT ![h] = y]
  <2>1. y = [req[h] EXCEPT !.at = "storing", !.generation = generation, !.attempt = 0]
    BY <1>3 DEF Requests
  <2> QED
    BY <1>1, <1>3, <2>1
<1> HIDE DEF y1
<1>6. y \in Requests /\ Same(req[h], y) /\ y.at = "storing" /\ y.generation = generation
  BY <1>4 DEF Same, Keeps, Requests
<1>7. Enter(h, call, "set") /\ call.op = "set"
  BY <1>1 DEF CallSet, NoCall
<1>8. StoreInv'
  BY <1>1, <1>2, <1>3, CallSetInv
<1>9. req[h].at = "siap" /\ minted' \subseteq Generations
  BY RequestFields DEF HandoffStore, At
<1> HIDE DEF y, call, kept
<1>10. /\ \A d \in Clients \ {h} : client'[d] = client[d]
       /\ client'[h].pc = "set" /\ client'[h].call = call /\ client'[h].result = "void"
       /\ UNCHANGED redis
  BY <1>3, <1>7, EnterEffect
<1>11. /\ req' \in [Handlers -> Requests] /\ \A g \in Handlers \ {h} : req'[g] = req[g]
       /\ req'[h] = y
  BY <1>3, <1>5, <1>6
<1>12. TakesIn(req[h], client[h], req'[h], client'[h])
  BY <1>6, <1>7, <1>9, <1>10, <1>11 DEF TakesIn
<1> QED
  BY <1>8, <1>9, <1>10, <1>11, <1>12 DEF Served, Handles

LEMMA HandoffSignServed ==
    ASSUME AuthInv, NEW h \in Handlers, HandoffSign(h)
    PROVE  Served(h)
<1>1. /\ Answer(h, "token") /\ UNCHANGED storeVars /\ req[h].at = "storing"
      /\ client[h].pc = "done" /\ minted' = minted \cup {req[h].generation}
  BY DEF HandoffSign, At, Returned
<1>2. minted' \subseteq Generations
  BY <1>1, RequestFields DEF Serves
<1> QED
  BY <1>1, <1>2, AnswerServes DEF Answers, Handles, TakesIn

LEMMA StartServed ==
    ASSUME AuthInv, NEW h \in Handlers, NEW generation \in minted,
           NEW kind \in {"refresh", "renew", "logout", "use"},
           NEW field \in Services \cup {"none"}, NEW cookie \in Cookies \cup {NoCookie},
           NEW place \in {"reading", "guarded", "clearing"},
           Begin(h, kind, generation, field, cookie, place),
           kind = "renew" => field \in Services /\ cookie \in Cookies,
           NEW op \in {"getIfGeneration", "clearIfGeneration"},
           op = "clearIfGeneration" <=> place = "clearing",
           CallQualified(h, op, generation), UNCHANGED minted
    PROVE  Served(h)
<1>1. /\ req' \in [Handlers -> Requests] /\ \A g \in Handlers \ {h} : req'[g] = req[g]
      /\ req[h].at = "free" /\ req'[h].at = place /\ req'[h].kind = kind
      /\ req'[h].generation = generation /\ generation \in Generations
      /\ req'[h].field = field /\ req'[h].cookie = cookie
  BY BeginEffect
<1>2. /\ StoreInv' /\ UNCHANGED redis
      /\ \A c \in Clients \ {h} : client'[c] = client[c]
      /\ Asks(client'[h], op, generation)
  BY AskEffect
<1>3. Opens(req[h], req'[h], client'[h])
  BY <1>1, <1>2 DEF Opens
<1> QED
  BY <1>1, <1>2, <1>3, RequestFields DEF Served, Handles

LEMMA StartsServed ==
    ASSUME AuthInv, NEW h \in Handlers, NEW generation \in minted,
           \/ RefreshStart(h, generation) \/ LogoutStart(h, generation)
           \/ UseStart(h, generation)
           \/ \E field \in Services, cookie \in Cookies : RenewStart(h, generation, field, cookie)
    PROVE  Served(h)
<1>1. CASE RefreshStart(h, generation)
  BY <1>1, StartServed DEF RefreshStart, ReadLive
<1>2. CASE LogoutStart(h, generation)
  BY <1>2, StartServed DEF LogoutStart
<1>3. CASE UseStart(h, generation)
  BY <1>3, StartServed DEF UseStart, ReadLive
<1>4. ASSUME NEW field \in Services, NEW cookie \in Cookies,
             RenewStart(h, generation, field, cookie)
      PROVE  Served(h)
  BY <1>4, StartServed DEF RenewStart, ReadLive
<1> QED
  BY <1>1, <1>2, <1>3, <1>4

\* What a qualified read of a handler came back with is of the generation asked for.
LEMMA ReadIsOwn ==
    ASSUME AuthInv, NEW h \in Handlers, req[h].at \in ReadPlaces, client[h].pc = "done",
           client[h].read # NoSession
    PROVE  /\ req[h].generation \in Generations /\ client[h].read \in Sessions
           /\ client[h].read.sessionGeneration = req[h].generation
<1>1. req[h].generation \in Generations /\ client[h].call.generation = req[h].generation
  BY RequestFields DEF Serves, Awaits, Working
<1>2. GenerationMatches(client[h].read, client[h].call.generation)
  BY RequestFields DEF Serves, Awaits, OwnRead
<1> QED
  BY <1>1, <1>2, RequestFields, GenerationsAssumption DEF GenerationMatches

LEMMA ReadServed ==
    ASSUME AuthInv, NEW h \in Handlers, RefreshSign(h) \/ LogoutDone(h) \/ UseSession(h)
    PROVE  Served(h)
<1>1. CASE RefreshSign(h)
  <2>1. /\ req[h].at = "reading" /\ client[h].pc = "done" /\ UNCHANGED storeVars
        /\ \/ client[h].read = NoSession /\ Answer(h, "dead") /\ UNCHANGED minted
           \/ /\ client[h].read # NoSession /\ Answer(h, "token")
              /\ minted' = minted \cup {client[h].read.sessionGeneration}
    BY <1>1 DEF RefreshSign, At, Returned
  <2>2. minted' \subseteq Generations
    BY <2>1, ReadIsOwn, RequestFields DEF ReadPlaces
  <2> QED
    BY <2>1, <2>2, AnswerServes DEF Answers, Handles, ComesBack, ReadPlaces
<1>2. CASE LogoutDone(h)
  <2>1. /\ req[h].at = "clearing" /\ client[h].pc = "done" /\ UNCHANGED storeVars
        /\ Answer(h, IF client[h].result = "true" THEN "ok" ELSE "dead")
        /\ minted' \subseteq Generations
    BY <1>2, RequestFields DEF LogoutDone, At, Returned
  <2> DEFINE answer == IF client[h].result = "true" THEN "ok" ELSE "dead"
  <2>2. answer \in Answers
    BY DEF Answers
  <2>3. ComesBack(req[h], client[h], req'[h], client'[h])
    BY <2>1, <2>2, AnswerServes DEF ComesBack
  <2> QED
    BY <2>1, <2>2, <2>3, AnswerServes DEF Handles
<1>3. CASE UseSession(h)
  <2>1. /\ req[h].at = "using" /\ client[h].pc = "done" /\ UNCHANGED storeVars
        /\ \/ client[h].read = NoSession /\ Answer(h, "dead")
           \/ client[h].read # NoSession /\ Answer(h, "session")
        /\ minted' \subseteq Generations
    BY <1>3, RequestFields DEF UseSession, At, Returned
  <2> QED
    BY <2>1, AnswerServes DEF Answers, Handles, ComesBack, ReadPlaces
<1> QED
  BY <1>1, <1>2, <1>3

\* A step that goes on with a qualified read of the store.
LEMMA ReadsOn ==
    ASSUME AuthInv, NEW h \in Handlers,
           NEW place \in {"using", "reading", "rechecking", "rereading"},
           Goto(h, place), ReadLive(h, req[h].generation), UNCHANGED minted
    PROVE  /\ Keeps(req[h], req'[h]) /\ req'[h].at = place
           /\ req'[h].expected = req[h].expected
           /\ Asks(client'[h], "getIfGeneration", req[h].generation)
           /\ Handles(req[h], client[h], req'[h], client'[h]) => Served(h)
<1>1. /\ req' \in [Handlers -> Requests] /\ \A g \in Handlers \ {h} : req'[g] = req[g]
      /\ Keeps(req[h], req'[h]) /\ req'[h].at = place
      /\ req'[h].expected = req[h].expected
  BY GotoEffect
<1>2. /\ StoreInv' /\ UNCHANGED redis
      /\ \A c \in Clients \ {h} : client'[c] = client[c]
      /\ Asks(client'[h], "getIfGeneration", req[h].generation)
  BY AskEffect DEF ReadLive
<1> QED
  BY <1>1, <1>2, RequestFields DEF Served

LEMMA GuardedServed ==
    ASSUME AuthInv, NEW h \in Handlers, UseGuarded(h) \/ RenewGuarded(h)
    PROVE  Served(h)
<1>1. req[h].at = "guarded" /\ client[h].pc = "done" /\ UNCHANGED minted
  BY DEF UseGuarded, RenewGuarded, At, Returned
<1>2. CASE client[h].read = NoSession
  <2>1. Answer(h, "dead") /\ UNCHANGED storeVars
    BY <1>2 DEF UseGuarded, RenewGuarded
  <2> QED
    BY <1>1, <1>2, <2>1, AnswerServes, RequestFields DEF Answers, Handles, ComesBack, ReadPlaces
<1>3. CASE client[h].read # NoSession
  <2>1. /\ ReadLive(h, req[h].generation)
        /\ Goto(h, "using") \/ Goto(h, "reading")
    BY <1>3 DEF UseGuarded, RenewGuarded
  <2> QED
    BY <1>1, <1>3, <2>1, ReadsOn DEF Handles, ComesBack
<1> QED
  BY <1>2, <1>3

LEMMA RenewExpectedServed ==
    ASSUME AuthInv, NEW h \in Handlers, RenewExpected(h)
    PROVE  Served(h)
<1>1. /\ req[h].at = "reading" /\ req[h].kind = "renew" /\ client[h].pc = "done"
      /\ UNCHANGED minted /\ UNCHANGED storeVars
  BY DEF RenewExpected, At, Returned
<1>2. CASE Answer(h, "dead") /\ client[h].read = NoSession
  BY <1>1, <1>2, AnswerServes, RequestFields DEF Answers, Handles, ComesBack, ReadPlaces
<1>3. CASE Answer(h, "invalid") /\ client[h].read # NoSession
  BY <1>1, <1>3, AnswerServes, RequestFields DEF Answers, Handles, ComesBack, ReadPlaces
<1>4. CASE /\ client[h].read # NoSession
           /\ req' = [req EXCEPT ![h].at = "validating", ![h].expected = client[h].read]
  <2> DEFINE y == [req[h] EXCEPT !.at = "validating", !.expected = client[h].read]
  <2>1. req \in [Handlers -> Requests] /\ req[h] \in Requests /\ client[h].read \in Sessions
    BY <1>4, RequestFields
  <2>2. y \in Requests /\ y.at = "validating" /\ y.expected = client[h].read /\ Keeps(req[h], y)
    BY <2>1 DEF Requests, Keeps, Same
  <2>3. req' = [req EXCEPT ![h] = y]
    BY <1>4, <2>1
  <2> HIDE DEF y
  <2>4. ComesBack(req[h], client[h], req'[h], client[h])
    BY <1>1, <1>4, <2>1, <2>2, <2>3 DEF ComesBack
  <2> QED
    BY <1>1, <2>1, <2>2, <2>3, <2>4, StoreStutters, RequestFields DEF Served, Handles
<1> QED
  BY <1>2, <1>3, <1>4 DEF RenewExpected

\* A renewal that asks the store to replace a snapshot.
LEMMA ReplacesOn ==
    ASSUME AuthInv, NEW h \in Handlers, NEW y \in Requests, req' = [req EXCEPT ![h] = y],
           Keeps(req[h], y), y.expected \in Sessions, y.field \in Services, y.cookie \in Cookies,
           CallReplace(h, y.expected, [y.expected EXCEPT ![y.field] = y.cookie]),
           UNCHANGED minted
    PROVE  /\ req'[h] = y /\ AsksReplace(client'[h], y)
           /\ Handles(req[h], client[h], req'[h], client'[h]) => Served(h)
<1>1. req \in [Handlers -> Requests]
  BY RequestFields
<1>2. [y.expected EXCEPT ![y.field] = y.cookie] \in Sessions
  BY CookieFits
<1>3. /\ StoreInv' /\ UNCHANGED redis
      /\ \A c \in Clients \ {h} : client'[c] = client[c]
      /\ Asks(client'[h], "replaceIfUnchanged", y.expected.sessionGeneration)
      /\ client'[h].call.expected = y.expected
      /\ client'[h].call.replacement = [y.expected EXCEPT ![y.field] = y.cookie]
  BY <1>2, AskReplaceEffect
<1> QED
  BY <1>1, <1>3, RequestFields DEF Served, AsksReplace

LEMMA RenewValidatedServed ==
    ASSUME AuthInv, NEW h \in Handlers, RenewRejected(h) \/ RenewValidated(h)
    PROVE  Served(h)
<1>1. /\ req[h].at = "validating" /\ UNCHANGED minted /\ req[h] \in Requests
      /\ req[h].expected \in Sessions /\ req[h].field \in Services /\ req[h].cookie \in Cookies
      /\ req[h].expected.sessionGeneration = req[h].generation
  BY RequestFields DEF RenewRejected, RenewValidated, At, Serves, Renews, Renewing
<1>2. CASE RenewRejected(h)
  BY <1>1, <1>2, AnswerServes, RequestFields
     DEF RenewRejected, Answers, Handles, Validates
<1>3. CASE RenewValidated(h) /\ req[h].cookie = req[h].expected[req[h].field]
  <2>1. Goto(h, "rechecking") /\ ReadLive(h, req[h].generation)
    BY <1>3 DEF RenewValidated
  <2> QED
    BY <1>1, <1>3, <2>1, ReadsOn DEF Handles, Validates
<1>4. CASE RenewValidated(h) /\ req[h].cookie # req[h].expected[req[h].field]
  <2> DEFINE y == [req[h] EXCEPT !.at = "replacing"]
  <2>1. /\ Goto(h, "replacing")
        /\ CallReplace(h, req[h].expected, [req[h].expected EXCEPT ![req[h].field] = req[h].cookie])
    BY <1>4 DEF RenewValidated, WithCookie
  <2>2. /\ y \in Requests /\ Keeps(req[h], y) /\ y.at = "replacing"
        /\ y.expected = req[h].expected /\ y.field = req[h].field /\ y.cookie = req[h].cookie
    BY <1>1 DEF Requests, Keeps, Same
  <2>3. req' = [req EXCEPT ![h] = y]
    BY <2>1, RequestFields DEF Goto
  <2> HIDE DEF y
  <2>4. req'[h] = y /\ AsksReplace(client'[h], y)
        /\ (Handles(req[h], client[h], req'[h], client'[h]) => Served(h))
    BY <1>1, <2>1, <2>2, <2>3, ReplacesOn
  <2>5. Validates(req[h], client[h], req'[h], client'[h])
    BY <1>1, <1>4, <2>2, <2>4 DEF Validates
  <2> QED
    BY <2>4, <2>5 DEF Handles
<1> QED
  BY <1>2, <1>3, <1>4

LEMMA RenewRecheckedServed ==
    ASSUME AuthInv, NEW h \in Handlers, RenewRechecked(h)
    PROVE  Served(h)
<1>1. /\ req[h].at = "rechecking" /\ client[h].pc = "done" /\ UNCHANGED minted
      /\ UNCHANGED storeVars /\ minted' \subseteq Generations
  BY RequestFields DEF RenewRechecked, At, Returned
<1>2. CASE client[h].read = NoSession
  <2>1. Answer(h, "dead")
    BY <1>2 DEF RenewRechecked
  <2> QED
    BY <1>1, <1>2, <2>1, AnswerServes DEF Answers, Handles, ComesBack, ReadPlaces
<1>3. CASE client[h].read # NoSession
  <2> DEFINE answer == IF SameExceptOther(client[h].read, req[h].expected, req[h].field)
                       THEN "renewed" ELSE "conflict"
  <2>1. Answer(h, answer) /\ answer \in Answers
    BY <1>3 DEF RenewRechecked, Answers
  <2>2. Keeps(req[h], req'[h]) /\ req'[h].at = "answered" /\ req'[h].answer = answer
        /\ client'[h] = client[h]
        /\ (Handles(req[h], client[h], req'[h], client'[h]) => Served(h))
    BY <1>1, <2>1, AnswerServes
  <2> QED
    BY <1>1, <1>3, <2>2 DEF Handles, Renewed
<1> QED
  BY <1>2, <1>3

\* The store never throws on a renewal, and it answers one of three things.
LEMMA ReplaceAnswers ==
    ASSUME AuthInv, NEW h \in Handlers, req[h].at \in ReplacePlaces, client[h].pc = "done"
    PROVE  ReplaceAnswer(client[h].result) \in Answers
BY RequestFields DEF Serves, Awaits, ReplaceAnswer, Answers

LEMMA RenewReplacedServed ==
    ASSUME AuthInv, NEW h \in Handlers, RenewReplaced(h) \/ RenewMerged(h)
    PROVE  Served(h)
<1>1. /\ req[h].at \in ReplacePlaces /\ client[h].pc = "done" /\ UNCHANGED minted
      /\ minted' \subseteq Generations
  BY RequestFields DEF RenewReplaced, RenewMerged, At, Returned, ReplacePlaces
<1>2. CASE RenewReplaced(h) /\ client[h].result = "conflict"
  <2>1. /\ Goto(h, "rereading") /\ ReadLive(h, req[h].generation) /\ req[h].at = "replacing"
    BY <1>2 DEF RenewReplaced, At
  <2> QED
    BY <1>1, <1>2, <2>1, ReadsOn DEF Handles, Renewed
<1>3. CASE RenewMerged(h) \/ (RenewReplaced(h) /\ client[h].result # "conflict")
  <2>1. /\ Answer(h, ReplaceAnswer(client[h].result)) /\ UNCHANGED storeVars
        /\ req[h].at = "merging" \/ (req[h].at = "replacing" /\ client[h].result # "conflict")
    BY <1>3 DEF RenewReplaced, RenewMerged, At
  <2> QED
    BY <1>1, <2>1, ReplaceAnswers, AnswerServes DEF Handles, Renewed
<1> QED
  BY <1>2, <1>3

LEMMA RenewRereadServed ==
    ASSUME AuthInv, NEW h \in Handlers, RenewReread(h)
    PROVE  Served(h)
<1> DEFINE current == client[h].read
<1>1. /\ req[h].at = "rereading" /\ client[h].pc = "done" /\ UNCHANGED minted
      /\ minted' \subseteq Generations /\ req[h] \in Requests /\ current \in Sessions \cup {NoSession}
      /\ req[h].field \in Services /\ req[h].cookie \in Cookies
  BY RequestFields DEF RenewReread, At, Returned, Serves, Renews, Renewing
<1>2. CASE current = NoSession
  <2>1. Answer(h, "dead") /\ UNCHANGED storeVars
    BY <1>2 DEF RenewReread
  <2> QED
    BY <1>1, <1>2, <2>1, AnswerServes DEF Answers, Handles, ComesBack, ReadPlaces
<1>3. CASE current # NoSession /\ ~ Near(current, req[h].expected, req[h])
  <2>1. Answer(h, "conflict") /\ UNCHANGED storeVars
    BY <1>3 DEF RenewReread, Near
  <2> QED
    BY <1>1, <1>3, <2>1, AnswerServes DEF Answers, Handles, Renewed
<1>4. CASE Near(current, req[h].expected, req[h])
  <2> DEFINE y == [req[h] EXCEPT !.at = "merging", !.expected = current]
  <2>1. /\ req' = [req EXCEPT ![h].at = "merging", ![h].expected = current]
        /\ CallReplace(h, current, [current EXCEPT ![req[h].field] = req[h].cookie])
        /\ current \in Sessions
    BY <1>1, <1>4 DEF RenewReread, Near, WithCookie
  <2>2. /\ y \in Requests /\ Keeps(req[h], y) /\ y.at = "merging"
        /\ y.expected = current /\ y.field = req[h].field /\ y.cookie = req[h].cookie
    BY <1>1, <2>1 DEF Requests, Keeps, Same
  <2>3. req' = [req EXCEPT ![h] = y]
    BY <2>1, RequestFields
  <2> HIDE DEF y
  <2>4. req'[h] = y /\ AsksReplace(client'[h], y)
        /\ (Handles(req[h], client[h], req'[h], client'[h]) => Served(h))
    BY <1>1, <2>1, <2>2, <2>3, ReplacesOn
  <2>5. Renewed(req[h], client[h], req'[h], client'[h])
    BY <1>1, <1>4, <2>2, <2>4 DEF Renewed
  <2> QED
    BY <2>4, <2>5 DEF Handles
<1> QED
  BY <1>2, <1>3, <1>4 DEF Near

LEMMA RespondServed ==
    ASSUME AuthInv, NEW h \in Handlers, Respond(h)
    PROVE  Served(h)
<1>1. /\ req[h].at = "answered" /\ req' = [req EXCEPT ![h] = Free] /\ UNCHANGED minted
  BY DEF Respond, At
<1>2. Free \in Requests /\ req \in [Handlers -> Requests]
  BY RequestFields DEF Free, Requests, Answers
<1>3. CASE client[h].pc = "done"
  <2>1. Return(h)
    BY <1>3 DEF Respond
  <2>2. StoreInv' /\ UNCHANGED redis /\ client' = [client EXCEPT ![h] = Idle]
    BY <2>1, RequestFields, ReturnInv DEF Return
  <2> QED
    BY <1>1, <1>2, <1>3, <2>2, RequestFields DEF Served, Handles, Leaves
<1>4. CASE client[h].pc # "done"
  <2>1. UNCHANGED storeVars
    BY <1>4 DEF Respond
  <2> QED
    BY <1>1, <1>2, <1>4, <2>1, StoreStutters, RequestFields DEF Served, Handles, Leaves
<1> QED
  BY <1>3, <1>4

\* Whatever a handler does for its request is one of the steps above.
LEMMA HandlerServes ==
    ASSUME AuthInv, NEW h \in Handlers, HandlerStep(h)
    PROVE  Served(h)
BY HandoffServed, HandoffStoreServed, HandoffSignServed, StartsServed, ReadServed,
   GuardedServed, RenewExpectedServed, RenewValidatedServed, RenewRecheckedServed,
   RenewReplacedServed, RenewRereadServed, RespondServed DEF HandlerStep

-----------------------------------------------------------------------------
(* AuthInv is inductive                                                      *)

LEMMA AuthInitInv == AuthInit => AuthInv
<1> SUFFICES ASSUME AuthInit PROVE AuthInv
  OBVIOUS
<1>1. StoreInv
  BY StoreInitInv DEF AuthInit
<1>2. Free \in Requests
  BY DEF Free, Requests, Answers
<1>3. \A h \in Handlers : req[h] = Free /\ client[h] = Idle
  BY DEF AuthInit, StoreInit
<1>4. Serves(Free, Idle)
  BY DEF Serves, Awaits, Renews, Free, Idle, NoCall, Intake, ReadPlaces, ReplacePlaces,
     Renewing, Working
<1> QED
  BY <1>1, <1>2, <1>3, <1>4 DEF AuthInit, AuthInv, AuthTypeOK, StoreInv

LEMMA OwnSession ==
    ASSUME NEW cl \in ClientStates, OwnRead(cl), cl.pc = "done", cl.read # NoSession,
           cl.call.generation \in Generations
    PROVE  cl.read \in Sessions /\ cl.read.sessionGeneration = cl.call.generation
BY GenerationsAssumption DEF ClientStates, OwnRead, GenerationMatches

\* A record that differs in the other service's cookie at most has this one's.
LEMMA NearKeeps ==
    ASSUME NEW session, NEW snapshot \in Sessions, NEW x, x.field \in Services,
           Near(session, snapshot, x)
    PROVE  /\ session[x.field] = snapshot[x.field]
           /\ session.sessionGeneration = snapshot.sessionGeneration
BY DEF Near, SameExceptOther, SameCapturedSession, OtherService, Services, Sessions

LEMMA HandlesServes ==
    ASSUME NEW x \in Requests, NEW cl \in ClientStates, NEW y \in Requests,
           NEW new \in ClientStates, Serves(x, cl), Handles(x, cl, y, new)
    PROVE  Serves(y, new)
<1> USE DEF Serves, Awaits, Renews, ReadPlaces, ReplacePlaces, Renewing, Working, Intake
<1>1. CASE TakesIn(x, cl, y, new)
  BY <1>1 DEF TakesIn, Same, Keeps
<1>2. CASE Opens(x, y, new)
  BY <1>2 DEF Opens, Asks, OwnRead
<1>3. CASE ComesBack(x, cl, y, new)
  <2>1. CASE new = cl
    BY <1>3, <2>1, OwnSession DEF ComesBack, Keeps, Same
  <2>2. CASE Asks(new, "getIfGeneration", x.generation)
    BY <1>3, <2>2 DEF ComesBack, Keeps, Same, Asks, OwnRead
  <2> QED
    BY <1>3, <2>1, <2>2 DEF ComesBack
<1>4. CASE Validates(x, cl, y, new)
  BY <1>4 DEF Validates, Keeps, Same, Asks, AsksReplace, OwnRead
<1>5. CASE Renewed(x, cl, y, new)
  <2>1. CASE y.at = "merging"
    <3>1. cl.read[x.field] = x.expected[x.field]
      BY <1>5, <2>1, NearKeeps DEF Renewed
    <3> QED
      BY <1>5, <2>1, <3>1, OwnSession DEF Renewed, Keeps, Same, Asks, AsksReplace, Near
  <2>2. CASE y.at # "merging"
    BY <1>5, <2>2 DEF Renewed, Keeps, Same, Asks, OwnRead, ReplaceAnswer
  <2> QED
    BY <2>1, <2>2
<1>6. CASE Leaves(x, cl, y, new)
  BY <1>6 DEF Leaves, Free, Idle, NoCall, OwnRead
<1> QED
  BY <1>1, <1>2, <1>3, <1>4, <1>5, <1>6 DEF Handles

\* A step of the store on the call a handler awaits.
LEMMA StepServes ==
    ASSUME AuthInv, NEW h \in Handlers, StoreStep(h)
    PROVE  Serves(req[h], client'[h])
<1> DEFINE x   == req[h]
           cl  == client[h]
           new == client'[h]
<1>1. StoreInv /\ h \in Clients /\ Serves(x, cl) /\ cl \in ClientStates
  BY RequestFields
<1>2. cl.pc \notin {"idle", "done"}
  BY DEF StoreStep, Get, Decide, Set, Slide, CasExpire, CasDelete, CasReplace
<1>3. x.at \in {"storing", "clearing"} \cup ReadPlaces \cup ReplacePlaces
  BY <1>1, <1>2, RequestFields
     DEF Serves, Awaits, Requests, Intake, ReadPlaces, ReplacePlaces
<1>4. CASE x.at = "storing"
  <2>1. StepsSet(cl, new)
    BY <1>1, <1>4, SetSteps DEF Serves, Awaits
  <2> QED
    BY <1>1, <1>4, <2>1 DEF StepsSet, Serves, Awaits, Renews, Intake, ReadPlaces,
       ReplacePlaces, Renewing, Working
<1>5. CASE x.at \in ReadPlaces
  <2>1. cl.call.op = "getIfGeneration" /\ OwnRead(cl)
    BY <1>1, <1>5 DEF Serves, Awaits
  <2>2. StepsRead(cl, new)
    BY <1>1, <2>1, ReadSteps
  <2>3. OwnRead(new)
    BY <2>1, <2>2 DEF StepsRead, OwnRead
  <2>9. Serves(x, new)
    <3> HIDE DEF x, cl, new
    <3> QED
      BY <1>1, <1>5, <2>1, <2>2, <2>3 DEF StepsRead, Serves, Awaits, Renews, Intake, ReadPlaces,
         ReplacePlaces, Renewing, Working
  <2> QED
    BY <2>9
<1>6. CASE x.at = "clearing"
  <2>1. StepsClear(cl, new)
    BY <1>1, <1>6, ClearSteps DEF Serves, Awaits
  <2>9. Serves(x, new)
    <3> HIDE DEF x, cl, new
    <3> QED
      BY <1>1, <1>6, <2>1 DEF StepsClear, Serves, Awaits, Renews, Intake, ReadPlaces,
         ReplacePlaces, Renewing, Working
  <2> QED
    BY <2>9
<1>7. CASE x.at \in ReplacePlaces
  <2>1. StepsReplace(cl, new)
    BY <1>1, <1>7, ReplaceSteps DEF Serves, Awaits
  <2>2. IsUpstreamCookieRenewal(cl.call.generation, cl.call.expected, cl.call.replacement)
    <3>1. /\ cl.call.expected = x.expected /\ cl.call.generation = x.generation
          /\ cl.call.replacement = [x.expected EXCEPT ![x.field] = x.cookie]
          /\ x.expected \in Sessions /\ x.expected.sessionGeneration = x.generation
          /\ x.field \in Services /\ x.cookie \in Cookies /\ x.expected[x.field] # x.cookie
      BY <1>1, <1>7 DEF Serves, Awaits, Renews, Renewing
    <3> HIDE DEF x, cl
    <3>2. IsCookieRenewal(x.field, x.generation, x.expected,
                          [x.expected EXCEPT ![x.field] = x.cookie])
      BY <3>1, CookiesAssumption DEF IsCookieRenewal, Services, Sessions
    <3> QED
      BY <3>1, <3>2 DEF IsUpstreamCookieRenewal, Services, CookieFields
  <2>3. new.pc = "done" => new.result \in {"updated", "conflict", "dead"}
    BY <1>1, <1>2, <2>1, <2>2 DEF StepsReplace
  <2>9. Serves(x, new)
    <3> HIDE DEF x, cl, new
    <3> QED
      BY <1>1, <1>7, <2>1, <2>2, <2>3 DEF StepsReplace, Serves, Awaits, Renews, Intake, ReadPlaces,
         ReplacePlaces, Renewing, Working
  <2> QED
    BY <2>9
<1> QED
  BY <1>3, <1>4, <1>5, <1>6, <1>7

\* AuthInv is kept by every request, call, tick of the clock and crash.
THEOREM AuthNextInv == AuthInv /\ [AuthNext]_authVars => AuthInv'
<1> SUFFICES ASSUME AuthInv, [AuthNext]_authVars PROVE AuthInv'
  OBVIOUS
<1>1. /\ StoreInv /\ minted \subseteq Generations /\ req \in [Handlers -> Requests]
      /\ \A h \in Handlers : Serves(req[h], client[h])
  BY DEF AuthInv, AuthTypeOK
<1>2. ASSUME StoreInv', minted' \subseteq Generations, req' \in [Handlers -> Requests],
             \A h \in Handlers : Serves(req'[h], client'[h])
      PROVE  AuthInv'
  BY <1>2 DEF AuthInv, AuthTypeOK, StoreInv
<1>3. ASSUME NEW h \in Handlers, HandlerStep(h)
      PROVE  AuthInv'
  <2>1. Served(h)
    BY <1>3, HandlerServes
  <2>2. Serves(req'[h], client'[h])
    <3>1. client'[h] \in ClientStates /\ req'[h] \in Requests
      BY <2>1, HandlersAssumption DEF Served, StoreInv, StoreTypeOK
    <3> QED
      BY <2>1, <3>1, RequestFields, HandlesServes DEF Served
  <2> QED
    BY <1>1, <1>2, <2>1, <2>2, HandlersAssumption DEF Served
<1>4. ASSUME NEW c \in Clients, StoreStep(c), UNCHANGED <<minted, req>>
      PROVE  AuthInv'
  <2>1. StoreInv'
    BY <1>1, <1>4, StoreNextInv DEF StoreNext
  <2>2. \A d \in Clients \ {c} : client'[d] = client[d]
    BY <1>1, <1>4, StoreStepIsOfOne
  <2>3. c \in Handlers => Serves(req[c], client'[c])
    BY <1>4, StepServes
  <2> QED
    BY <1>1, <1>2, <1>4, <2>1, <2>2, <2>3, HandlersAssumption
<1>5. ASSUME NEW c \in Clients \ Handlers, Call(c) \/ Return(c), UNCHANGED <<minted, req>>
      PROVE  AuthInv'
  <2>1. StoreInv'
    BY <1>1, <1>5, StoreNextInv DEF StoreNext
  <2>2. \A d \in Clients \ {c} : client'[d] = client[d]
    BY <1>1, <1>5, EnterEffect DEF Call, CallSet, CallRead, CallQualified, CallReplace, Return,
       StoreInv, StoreTypeOK
  <2> QED
    BY <1>1, <1>2, <1>5, <2>1, <2>2, HandlersAssumption
<1>6. CASE Tick /\ UNCHANGED <<minted, req>>
  <2>1. StoreInv' /\ client' = client
    BY <1>1, <1>6, StoreNextInv DEF StoreNext, Tick
  <2> QED
    BY <1>1, <1>2, <1>6, <2>1
<1>7. CASE Crash
  <2>1. StoreInv'
    BY <1>1, <1>7, StoreNextInv DEF StoreNext, Crash
  <2>2. \A h \in Handlers : req'[h] = Free /\ client'[h] = Idle
    BY <1>7, HandlersAssumption DEF Crash, Restart, RotateKey
  <2>3. Serves(Free, Idle) /\ Free \in Requests
    BY DEF Serves, Awaits, Renews, Free, Idle, NoCall, Intake, ReadPlaces, ReplacePlaces,
       Renewing, Working, Requests, Answers
  <2>4. req' \in [Handlers -> Requests] /\ minted' \subseteq Generations
    BY <1>1, <1>7, <2>3 DEF Crash
  <2> QED
    BY <1>2, <2>1, <2>2, <2>3, <2>4
<1>8. CASE UNCHANGED authVars
  <2>1. StoreInv' /\ client' = client
    BY <1>1, <1>8, StoreStutters DEF authVars
  <2> QED
    BY <1>1, <1>2, <1>8, <2>1 DEF authVars
<1> QED
  BY <1>3, <1>4, <1>5, <1>6, <1>7, <1>8 DEF AuthNext, Background

\* A request always awaits the store call of its place.
THEOREM AuthInvariant == AuthSpec => []AuthInv
<1>1. AuthInit => AuthInv
  BY AuthInitInv
<1> QED
  BY <1>1, AuthNextInv, PTL DEF AuthSpec

\* A request that passed the guard goes upstream with the cookies of the session
\* its token was minted for (jwt-auth.guard.ts, auth.service.ts readLiveSession).
THEOREM GuardedRequestsSeeTheirSession == AuthSpec => []TokenSeesOwnSession
<1>1. AuthInv => TokenSeesOwnSession
  <2> SUFFICES ASSUME AuthInv, NEW h \in Handlers, At(h, "answered"), req[h].answer = "session"
               PROVE  client[h].read.sessionGeneration = req[h].generation
    BY DEF TokenSeesOwnSession
  <2>1. /\ client[h].call.op = "getIfGeneration" /\ client[h].call.generation = req[h].generation
        /\ client[h].pc = "done" /\ client[h].read # NoSession /\ req[h].generation \in Generations
        /\ OwnRead(client[h]) /\ client[h] \in ClientStates
    BY RequestFields DEF At, Serves
  <2> QED
    BY <2>1, OwnSession
<1> QED
  BY <1>1, AuthInvariant, PTL

-----------------------------------------------------------------------------
(* What was seen: a step of a request                                        *)

\* What was seen, before and after a step that nobody else took part in.
Carried(x, s, t) ==
    /\ t.began = s.began /\ t.moved = s.moved /\ (t.foreign <=> s.foreign)
    /\ (s.held /\ x.at # "validating") => t.held
    /\ s.capped => t.capped

\* Of a request that begins.
LEMMA BeginsSeen ==
    ASSUME NEW x, NEW cl, NEW y, NEW new, NEW t, NEW e,
           Serves(x, cl), x.at = "free", y.at # "free",
           Handles(x, cl, y, new), t.moved = 0,
           t.began => SessionIn(e) # NoSession /\ SessionIn(e).sessionGeneration = y.generation
    PROVE  SeenOK(y, new, t, e)
<1> USE DEF ReadPlaces, ReplacePlaces, Renewing, Working, Intake
<1>1. CASE TakesIn(x, cl, y, new)
  BY <1>1 DEF TakesIn, SeenOK, Undisturbed, Mergeable, Confirmed, Serves, Awaits
<1>2. CASE Opens(x, y, new)
  BY <1>2 DEF Opens, Asks, SeenOK, Undisturbed, Mergeable, Confirmed, Serves, Awaits
<1> QED
  BY <1>1, <1>2 DEF Handles, ComesBack, Validates, Renewed, Leaves

LEMMA UndisturbedOn ==
    ASSUME NEW x, NEW cl, NEW y, NEW new, NEW e,
           Serves(x, cl), x.at # "free", y.at # "free",
           Handles(x, cl, y, new), Undisturbed(x, cl, e)
    PROVE  Undisturbed(y, new, e)
<1> USE DEF ReadPlaces, ReplacePlaces, Renewing, Working, Intake, Undisturbed
<1>1. CASE TakesIn(x, cl, y, new)
  BY <1>1 DEF TakesIn, Serves, Awaits
<1>2. CASE ComesBack(x, cl, y, new)
  BY <1>2 DEF ComesBack, Asks, Serves, Awaits, Keeps
<1>3. CASE Validates(x, cl, y, new)
  BY <1>3 DEF Validates, Asks, AsksReplace, Serves, Awaits, Keeps
<1>4. CASE Renewed(x, cl, y, new)
  BY <1>4 DEF Renewed, Asks, AsksReplace, Serves, Awaits, Keeps, ReplaceAnswer
<1> QED
  BY <1>1, <1>2, <1>3, <1>4 DEF Handles, Opens, Leaves, Free

LEMMA MergeableOn ==
    ASSUME NEW x, NEW cl, NEW y, NEW new, NEW e, NEW moved,
           Serves(x, cl), x.at # "free", y.at # "free",
           Handles(x, cl, y, new), Mergeable(x, cl, e, moved)
    PROVE  Mergeable(y, new, e, moved)
<1> USE DEF ReadPlaces, ReplacePlaces, Renewing, Working, Intake, Mergeable
<1>1. CASE TakesIn(x, cl, y, new)
  BY <1>1 DEF TakesIn, Serves, Awaits
<1>2. CASE ComesBack(x, cl, y, new)
  BY <1>2 DEF ComesBack, Asks, Serves, Awaits, Keeps, Same, Follows, Near
<1>3. CASE Validates(x, cl, y, new)
  BY <1>3 DEF Validates, Asks, AsksReplace, Serves, Awaits, Keeps, Same, Follows, Near
<1>4. CASE Renewed(x, cl, y, new)
  BY <1>4 DEF Renewed, Asks, AsksReplace, Serves, Awaits, Keeps, Same, ReplaceAnswer, Follows, Near
<1> QED
  BY <1>1, <1>2, <1>3, <1>4 DEF Handles, Opens, Leaves, Free

LEMMA ConfirmedOn ==
    ASSUME NEW x, NEW cl, NEW y, NEW new, NEW s, NEW t,
           Serves(x, cl), x.at # "free", y.at # "free",
           Handles(x, cl, y, new), Confirmed(x, cl, s.held), Carried(x, s, t)
    PROVE  Confirmed(y, new, t.held)
<1> USE DEF ReadPlaces, ReplacePlaces, Renewing, Working, Intake, Confirmed, Carried
<1>1. CASE TakesIn(x, cl, y, new)
  BY <1>1 DEF TakesIn, Serves, Awaits
<1>2. CASE ComesBack(x, cl, y, new)
  BY <1>2 DEF ComesBack, Asks
<1>3. CASE Validates(x, cl, y, new)
  BY <1>3 DEF Validates, Asks, AsksReplace
<1>4. CASE Renewed(x, cl, y, new)
  <2>1. x.at = "rechecking" /\ SameExceptOther(cl.read, x.expected, x.field)
           /\ cl.read # NoSession => cl.read[x.field] = x.cookie
    BY NearKeeps DEF Serves, Renews, Near
  <2> QED
    BY <1>4, <2>1 DEF Renewed, Asks, AsksReplace, ReplaceAnswer, Serves, Awaits
<1> QED
  BY <1>1, <1>2, <1>3, <1>4 DEF Handles, Opens, Leaves, Free

LEMMA HandlesSeen ==
    ASSUME NEW x, NEW cl, NEW y, NEW new, NEW s, NEW t, NEW e,
           Serves(x, cl), x.at # "free", y.at # "free",
           Handles(x, cl, y, new), SeenOK(x, cl, s, e), Carried(x, s, t)
    PROVE  SeenOK(y, new, t, e)
BY UndisturbedOn, MergeableOn, ConfirmedOn DEF SeenOK, Carried

-----------------------------------------------------------------------------
(* What was seen: a step of the store on the request's own call              *)

\* The call has got the new cookie of a renewal x confirmed: its record holds it.
HoldsNow(x, e) ==
    /\ x.field \in Services /\ SessionIn(e) # NoSession
    /\ SessionIn(e).sessionGeneration = x.generation
    /\ SessionIn(e)[x.field] = x.cookie

\* The record is past its absolute cap.
OverAge == SessionIn(redis) # NoSession /\ AbsoluteDead(SessionIn(redis), now)

CarriedByStore(x, s, t) ==
    /\ Carried(x, s, t)
    /\ (x.at \notin {"validating", "guarded", "reading"} /\ HoldsNow(x, redis')) => t.held
    /\ OverAge => t.capped

LEMMA EnvelopesIn ==
    ASSUME AuthInv, NEW h \in Handlers
    PROVE  /\ redis # NoEnvelope => SessionIn(redis) = Decrypt(redis)
           /\ client[h].pc \in {"decide", "expire", "delete", "replace"} =>
                 client[h].envelope # NoEnvelope
           /\ NoSession \notin Sessions
BY RequestFields, NullsAssumption DEF SessionIn, Sound, StoreInv, Envelopes

LEMMA NearSelf ==
    ASSUME NEW session \in Sessions, NEW x
    PROVE  Near(session, session, x)
BY NullsAssumption DEF Near, SameExceptOther, SameCapturedSession, OtherService, Sessions

LEMMA ReadSeen ==
    ASSUME AuthInv, NEW h \in Handlers, StoreStep(h), NEW s, NEW t,
           req[h].at \in ReadPlaces,
           SeenOK(req[h], client[h], s, redis), CarriedByStore(req[h], s, t)
    PROVE  SeenOK(req[h], client'[h], t, redis')
<1> DEFINE x   == req[h]
           cl  == client[h]
           new == client'[h]
<1>1. /\ Serves(x, cl) /\ cl.call.op = "getIfGeneration" /\ cl.call.generation = x.generation
      /\ OwnRead(cl) /\ x.generation \in Generations /\ x.at \in ReadPlaces
      /\ StepsRead(cl, new)
  BY RequestFields, ReadSteps DEF Serves, Awaits, Working
<1>2. /\ redis # NoEnvelope => SessionIn(redis) = Decrypt(redis)
      /\ cl.pc \in {"decide", "expire", "delete"} => cl.envelope # NoEnvelope
      /\ SessionIn(NoEnvelope) = NoSession
  BY EnvelopesIn DEF SessionIn
<1>3. ASSUME ~ OverAge, Undisturbed(x, cl, redis)
      PROVE  Undisturbed(x, new, redis')
  <2>1. SessionIn(redis) # NoSession => ~ AbsoluteDead(SessionIn(redis), now)
    BY <1>3 DEF OverAge
  <2> HIDE DEF x, cl, new
  <2> QED
    BY <1>1, <1>2, <1>3, <2>1 DEF Undisturbed, StepsRead, GenerationMatches, Working,
       ReadPlaces
<1>4. ASSUME NEW moved, Mergeable(x, cl, redis, moved)
      PROVE  Mergeable(x, new, redis', moved)
  <2>1. new.pc # "done" => redis' = redis
    BY <1>1 DEF StepsRead
  <2>2. new.pc = "done" /\ new.read # NoSession =>
          /\ cl.pc = "expire" /\ redis' = redis /\ redis = cl.envelope
          /\ new.read = Decrypt(cl.envelope) /\ SessionIn(redis) = new.read
          /\ new.read \in Sessions
    <3>1. new.read \in Sessions \cup {NoSession}
      <4>1. StoreInv'
        BY RequestFields, StoreNextInv DEF StoreNext
      <4> QED
        BY <4>1, RequestFields DEF StoreInv, StoreTypeOK, ClientStates
    <3> QED
      BY <1>1, <1>2, <3>1 DEF StepsRead, OwnRead
  <2>3. new.pc = "decide" => cl.pc = "get" /\ new.envelope = redis /\ redis # NoEnvelope
    BY <1>1 DEF StepsRead
  <2>4. new.pc = "expire" => cl.pc = "decide" /\ new.envelope = cl.envelope
    BY <1>1 DEF StepsRead
  <2>5. /\ new.pc \in {"decide", "expire", "delete", "done"} /\ cl.pc # "done"
        /\ new.pc = "delete" => cl.pc = "decide"
    BY <1>1 DEF StepsRead
  <2> HIDE DEF x, cl, new
  <2>6. CASE x.at = "reading"
    BY <1>4, <2>2, <2>6, NearSelf DEF Mergeable, Follows
  <2>7. CASE x.at = "rechecking"
    BY <1>2, <1>4, <2>1, <2>2, <2>3, <2>4, <2>5, <2>7 DEF Mergeable
  <2>8. CASE x.at = "rereading"
    BY <1>2, <1>4, <2>1, <2>2, <2>3, <2>4, <2>5, <2>8 DEF Mergeable
  <2> QED
    BY <1>1, <2>6, <2>7, <2>8 DEF ReadPlaces, Mergeable
<1>5. Confirmed(x, new, t.held)
  <2>1. (x.at = "rechecking" /\ new.pc = "done" /\ new.read # NoSession
         /\ new.read[x.field] = x.cookie) => HoldsNow(x, redis')
    <3>1. x.at = "rechecking" => x.field \in Services
      BY <1>1 DEF Serves, Renews, Renewing
    <3>2. GenerationMatches(Decrypt(cl.envelope), x.generation) /\ x.generation # NoGeneration
             => Decrypt(cl.envelope).sessionGeneration = x.generation
      BY DEF GenerationMatches
    <3> HIDE DEF x, cl, new
    <3> QED
      BY <1>1, <1>2, <3>1, <3>2, GenerationsAssumption DEF StepsRead, HoldsNow, OwnRead
  <2> QED
    BY <2>1 DEF CarriedByStore, Carried, Confirmed, SeenOK, ReadPlaces, ReplacePlaces
<1> QED
  BY <1>3, <1>4, <1>5 DEF SeenOK, CarriedByStore, Carried

LEMMA ClearSeen ==
    ASSUME AuthInv, NEW h \in Handlers, StoreStep(h), NEW s, NEW t,
           req[h].at = "clearing",
           SeenOK(req[h], client[h], s, redis), CarriedByStore(req[h], s, t)
    PROVE  SeenOK(req[h], client'[h], t, redis')
<1> DEFINE x   == req[h]
           cl  == client[h]
           new == client'[h]
<1>1. /\ Serves(x, cl) /\ cl.call.op = "clearIfGeneration" /\ cl.call.generation = x.generation
      /\ x.generation \in Generations /\ x.at = "clearing"
      /\ StepsClear(cl, new)
  BY RequestFields, ClearSteps DEF Serves, Awaits, Working
<1>2. /\ redis # NoEnvelope => SessionIn(redis) = Decrypt(redis)
      /\ SessionIn(NoEnvelope) = NoSession
  BY EnvelopesIn DEF SessionIn
<1>3. ASSUME ~ OverAge, Undisturbed(x, cl, redis)
      PROVE  Undisturbed(x, new, redis')
  <2>1. cl.pc \in {"get", "decide", "delete"}
    BY <1>1 DEF StepsClear
  <2> HIDE DEF x, cl, new
  <2> QED
    BY <1>1, <1>2, <1>3, <2>1 DEF Undisturbed, StepsClear, GenerationMatches, Working
<1>4. ASSUME NEW moved
      PROVE  Mergeable(x, new, redis', moved)
  BY <1>1 DEF Mergeable
<1>5. Confirmed(x, new, t.held)
  BY <1>1 DEF Confirmed, ReplacePlaces
<1> QED
  BY <1>3, <1>4, <1>5 DEF SeenOK, CarriedByStore, Carried

LEMMA StoringSeen ==
    ASSUME NEW x, NEW new, NEW s, NEW t, NEW cl, NEW e, x.at = "storing",
           SeenOK(x, cl, s, redis), Carried(x, s, t)
    PROVE  SeenOK(x, new, t, e)
BY DEF SeenOK, Carried, Undisturbed, Mergeable, Confirmed, Working, ReadPlaces, ReplacePlaces,
   Renewing

LEMMA ReplaceSeen ==
    ASSUME AuthInv, NEW h \in Handlers, StoreStep(h), NEW s, NEW t,
           req[h].at \in ReplacePlaces,
           SeenOK(req[h], client[h], s, redis), CarriedByStore(req[h], s, t)
    PROVE  SeenOK(req[h], client'[h], t, redis')
<1> DEFINE x   == req[h]
           cl  == client[h]
           new == client'[h]
<1>1. /\ Serves(x, cl) /\ cl.call.op = "replaceIfUnchanged" /\ cl.call.generation = x.generation
      /\ cl.call.expected = x.expected /\ x.expected \in Sessions
      /\ x.expected.sessionGeneration = x.generation
      /\ cl.call.replacement = [x.expected EXCEPT ![x.field] = x.cookie]
      /\ x.field \in Services /\ x.cookie \in Cookies
      /\ x.generation \in Generations /\ x.at \in {"replacing", "merging"}
      /\ StepsReplace(cl, new) /\ Serves(x, new)
  BY RequestFields, ReplaceSteps, StepServes
     DEF Serves, Awaits, Working, Renews, Renewing, ReplacePlaces
<1>2. /\ redis # NoEnvelope => SessionIn(redis) = Decrypt(redis)
      /\ SessionIn(NoEnvelope) = NoSession
      /\ cl.pc = "replace" => Decrypt(cl.envelope) = x.expected
      /\ cl.pc \in {"decide", "delete", "replace"} => cl.envelope # NoEnvelope
      /\ GenerationMatches(x.expected, x.generation)
  BY <1>1, EnvelopesIn, RequestFields DEF SessionIn, StoreInv, Sound, GenerationMatches
<1>3. new.pc = "done" /\ new.result = "updated" =>
         /\ cl.pc = "replace" /\ redis = cl.envelope
         /\ SessionIn(redis') = [x.expected EXCEPT ![x.field] = x.cookie]
         /\ SessionIn(redis') \in Sessions
         /\ SessionIn(redis').sessionGeneration = x.generation
         /\ SessionIn(redis')[x.field] = x.cookie
  <2> SUFFICES ASSUME new.pc = "done", new.result = "updated"
               PROVE  /\ cl.pc = "replace" /\ redis = cl.envelope
                      /\ SessionIn(redis') = [x.expected EXCEPT ![x.field] = x.cookie]
                      /\ SessionIn(redis') \in Sessions
                      /\ SessionIn(redis').sessionGeneration = x.generation
                      /\ SessionIn(redis')[x.field] = x.cookie
    OBVIOUS
  <2>0. cl.pc = "replace" /\ redis = cl.envelope
    BY <1>1 DEF StepsReplace
  <2>1. redis' = Envelope(cl.call.iv, cl.call.replacement) /\ cl.call.iv \in Nat
    BY <1>1, <2>0, RequestFields, CallTypes DEF StepsReplace, Calls, StoreInv
  <2>2. [x.expected EXCEPT ![x.field] = x.cookie] \in Sessions
    BY <1>1, CookieFits
  <2>3. /\ [x.expected EXCEPT ![x.field] = x.cookie].sessionGeneration = x.generation
        /\ [x.expected EXCEPT ![x.field] = x.cookie][x.field] = x.cookie
    BY <1>1 DEF Sessions, Services
  <2>4. redis' # NoEnvelope /\ Decrypt(redis') = [x.expected EXCEPT ![x.field] = x.cookie]
    BY <1>1, <2>1, <2>2, EnvelopeType, NullsAssumption DEF Envelopes
  <2> QED
    BY <2>0, <2>2, <2>3, <2>4 DEF SessionIn
<1>4. ASSUME ~ OverAge, Undisturbed(x, cl, redis)
      PROVE  Undisturbed(x, new, redis')
  <2>1. SessionIn(redis) # NoSession => ~ AbsoluteDead(SessionIn(redis), now)
    BY <1>4 DEF OverAge
  <2>2. x.at \in Working /\ x.at # "answered"
    BY <1>1 DEF Working, Renewing, ReplacePlaces
  <2> HIDE DEF x, cl, new
  <2> QED
    BY <1>1, <1>2, <1>3, <1>4, <2>1, <2>2, NullsAssumption DEF Undisturbed, StepsReplace
<1>5. ASSUME NEW moved, Mergeable(x, cl, redis, moved), moved \in 0..1
      PROVE  Mergeable(x, new, redis', moved)
  <2> HIDE DEF x, cl, new
  <2>1. CASE x.at = "replacing"
    BY <1>1, <1>2, <1>3, <1>5, <2>1 DEF Mergeable, StepsReplace, Follows
  <2>2. CASE x.at = "merging"
    BY <1>1, <1>2, <1>3, <1>5, <2>2 DEF Mergeable, StepsReplace
  <2> QED
    BY <1>1, <2>1, <2>2
<1>6. Confirmed(x, new, t.held)
  <2>1. new.pc = "done" /\ new.result = "updated" => HoldsNow(x, redis')
    BY <1>1, <1>3, NullsAssumption DEF HoldsNow
  <2> QED
    BY <1>1, <2>1 DEF CarriedByStore, Carried, Confirmed
<1> QED
  BY <1>4, <1>5, <1>6 DEF SeenOK, CarriedByStore, Carried

-----------------------------------------------------------------------------
(* What was seen: a step of somebody else                                    *)

\* Somebody else's change was no more than a new cookie of the other service.
OnlyOther(x, e, f) ==
    /\ x.field \in Services /\ SessionIn(e) # NoSession /\ SessionIn(f) # NoSession
    /\ SameExceptOther(SessionIn(f), SessionIn(e), x.field)

LEMMA NearOn ==
    ASSUME NEW snapshot \in Sessions, NEW x, NEW e, NEW f,
           OnlyOther(x, e, f), Near(SessionIn(e), snapshot, x)
    PROVE  Near(SessionIn(f), snapshot, x)
BY DEF OnlyOther, Near, SameExceptOther, SameCapturedSession, OtherService, Services, Sessions

LEMMA MovedOn ==
    ASSUME NEW x, NEW cl \in ClientStates, NEW e, NEW f, Serves(x, cl),
           Mergeable(x, cl, e, 0), OnlyOther(x, e, f)
    PROVE  Mergeable(x, cl, f, 1)
<1>1. \A snapshot \in Sessions : Near(SessionIn(e), snapshot, x) => Near(SessionIn(f), snapshot, x)
  BY NearOn
<1>2. x.at \in Renewing => x.expected \in Sessions
  BY DEF Serves, Renews
<1>3. cl.read # NoSession => cl.read \in Sessions
  BY DEF ClientStates
<1> QED
  BY <1>1, <1>2, <1>3 DEF Mergeable, Follows, Renewing, ReplacePlaces

LEMMA OthersSeen ==
    ASSUME NEW x, NEW cl \in ClientStates, NEW s, NEW t, NEW e, NEW f, Serves(x, cl),
           SeenOK(x, cl, s, e), t.began = s.began,
           t.moved = IF s.moved < 2 THEN s.moved + 1 ELSE s.moved,
           (s.held /\ x.at # "validating") => t.held,
           ~ t.foreign => (~ s.foreign /\ OnlyOther(x, e, f))
    PROVE  SeenOK(x, cl, t, f)
<1>1. s.moved \in 0..2 /\ t.moved \in 1..2 /\ (t.moved < 2 => s.moved = 0 /\ t.moved = 1)
  BY DEF SeenOK
<1>2. Confirmed(x, cl, t.held)
  BY DEF SeenOK, Confirmed, ReplacePlaces
<1>3. t.moved < 2 /\ ~ t.foreign => Mergeable(x, cl, f, t.moved)
  BY <1>1, MovedOn DEF SeenOK
<1> QED
  BY <1>1, <1>2, <1>3 DEF SeenOK

LEMMA FreeSeen ==
    ASSUME NEW x, NEW cl, NEW e, x.at = "free"
    PROVE  SeenOK(x, cl, Unseen, e)
BY DEF SeenOK, Unseen, Mergeable, Confirmed, ReplacePlaces

-----------------------------------------------------------------------------
(* SeenInv is inductive                                                      *)

\* Saw, of a request that begins.
LEMMA SawBegin ==
    ASSUME NEW h \in Handlers, req[h].at = "free", req'[h].at # "free"
    PROVE  /\ Saw(h).moved = 0
           /\ Saw(h).began => SessionIn(redis) # NoSession
                 /\ SessionIn(redis).sessionGeneration = req'[h].generation
BY RecordIn DEF Saw, Unseen

\* Saw, when Redis is not touched or it was the request's own command.
LEMMA SawCarries ==
    ASSUME NEW h \in Handlers, req[h].at # "free", req'[h].at # "free",
           redis' = redis \/ (client[h].pc \in Commands /\ client'[h].pc = "done")
    PROVE  /\ Carried(req[h], seen[h], Saw(h))
           /\ req'[h] = req[h] => CarriedByStore(req[h], seen[h], Saw(h))
<1>1. Carried(req[h], seen[h], Saw(h))
  BY DEF Saw, Carried
<1>2. req'[h] = req[h] /\ HoldsNow(req[h], redis') => Holds(h)'
  BY RecordInLater DEF HoldsNow, Holds
<1>3. OverAge => Saw(h).capped
  BY RecordIn DEF Saw, OverAge
<1> QED
  BY <1>1, <1>2, <1>3 DEF Saw, CarriedByStore

\* Saw, when somebody else has changed the record.
LEMMA SawOthers ==
    ASSUME NEW h \in Handlers, req[h].at # "free", req'[h] = req[h], client'[h] = client[h],
           redis' # redis
    PROVE  /\ Saw(h).began = seen[h].began
           /\ Saw(h).moved = IF seen[h].moved < 2 THEN seen[h].moved + 1 ELSE seen[h].moved
           /\ (seen[h].held /\ req[h].at # "validating") => Saw(h).held
           /\ ~ Saw(h).foreign => (~ seen[h].foreign /\ OnlyOther(req[h], redis, redis'))
<1>1. ~ (client[h].pc \in Commands /\ client'[h].pc = "done")
  BY DEF Commands
<1>2. OnlyOtherServiceChanged(h) => OnlyOther(req[h], redis, redis')
  BY RecordIn, RecordInLater DEF OnlyOtherServiceChanged, OnlyOther, SameExceptOther,
     SameCapturedSession
<1> QED
  BY <1>1, <1>2 DEF Saw

\* One who neither moves nor is answered only sees the record change.
LEMMA BystanderSeen ==
    ASSUME AuthInv, SeenInv, NEW h \in Handlers, req'[h] = req[h], client'[h] = client[h],
           seen'[h] = Saw(h)
    PROVE  SeenOK(req'[h], client'[h], seen'[h], redis')
<1>0. Serves(req[h], client[h]) /\ client[h] \in ClientStates
      /\ SeenOK(req[h], client[h], seen[h], redis)
  BY RequestFields DEF SeenInv
<1>1. CASE req[h].at = "free"
  <2>1. Saw(h) = Unseen
    BY <1>1 DEF Saw
  <2> QED
    BY <1>1, <2>1, FreeSeen
<1>2. CASE req[h].at # "free" /\ redis' = redis
  <2>1. Carried(req[h], seen[h], Saw(h))
    BY <1>2, SawCarries
  <2> QED
    BY <1>0, <1>2, <2>1 DEF SeenOK, Carried, Confirmed, ReplacePlaces
<1>3. CASE req[h].at # "free" /\ redis' # redis
  <2>1. /\ Saw(h).began = seen[h].began
        /\ Saw(h).moved = IF seen[h].moved < 2 THEN seen[h].moved + 1 ELSE seen[h].moved
        /\ (seen[h].held /\ req[h].at # "validating") => Saw(h).held
        /\ ~ Saw(h).foreign => (~ seen[h].foreign /\ OnlyOther(req[h], redis, redis'))
    BY <1>3, SawOthers
  <2> HIDE DEF Saw
  <2>2. SeenOK(req[h], client[h], Saw(h), redis')
    BY <1>0, <2>1, OthersSeen
  <2> QED
    BY <2>2
<1> QED
  BY <1>1, <1>2, <1>3

LEMMA ServedSeen ==
    ASSUME AuthInv, SeenInv, NEW h \in Handlers, Served(h), seen'[h] = Saw(h)
    PROVE  SeenOK(req'[h], client'[h], seen'[h], redis')
<1>0. /\ Serves(req[h], client[h]) /\ SeenOK(req[h], client[h], seen[h], redis)
      /\ redis' = redis /\ Handles(req[h], client[h], req'[h], client'[h])
  BY RequestFields DEF SeenInv, Served
<1>1. CASE req'[h].at = "free"
  <2>1. Saw(h) = Unseen
    BY <1>1 DEF Saw
  <2> QED
    BY <1>1, <2>1, FreeSeen
<1>2. CASE req'[h].at # "free" /\ req[h].at = "free"
  <2>1. /\ Saw(h).moved = 0
        /\ Saw(h).began => SessionIn(redis) # NoSession
              /\ SessionIn(redis).sessionGeneration = req'[h].generation
    BY <1>2, SawBegin
  <2>2. SeenOK(req'[h], client'[h], Saw(h), redis)
    BY <1>0, <1>2, <2>1, BeginsSeen
  <2> QED
    BY <1>0, <2>2
<1>3. CASE req'[h].at # "free" /\ req[h].at # "free"
  <2>1. Carried(req[h], seen[h], Saw(h))
    BY <1>0, <1>3, SawCarries
  <2>2. SeenOK(req'[h], client'[h], Saw(h), redis)
    BY <1>0, <1>3, <2>1, HandlesSeen
  <2> QED
    BY <1>0, <2>2
<1> QED
  BY <1>1, <1>2, <1>3

LEMMA StoreSeen ==
    ASSUME AuthInv, SeenInv, NEW h \in Handlers, StoreStep(h), UNCHANGED req,
           seen'[h] = Saw(h)
    PROVE  SeenOK(req'[h], client'[h], seen'[h], redis')
<1>0. /\ Serves(req[h], client[h]) /\ SeenOK(req[h], client[h], seen[h], redis)
      /\ StoreInv /\ h \in Clients /\ client[h] \in ClientStates /\ req[h] \in Requests
  BY RequestFields DEF SeenInv
<1>1. client[h].pc \notin {"idle", "done"}
  BY DEF StoreStep, Get, Decide, Set, Slide, CasExpire, CasDelete, CasReplace
<1>2. req[h].at \in {"storing", "clearing"} \cup ReadPlaces \cup ReplacePlaces
  BY <1>0, <1>1 DEF Serves, Awaits, Requests, Intake, ReadPlaces, ReplacePlaces
<1>3. redis' = redis \/ (client[h].pc \in Commands /\ client'[h].pc = "done")
  <2>1. CASE Get(h) \/ Decide(h)
    BY <2>1 DEF Get, Decide
  <2>2. CASE Set(h) \/ Slide(h) \/ CasExpire(h) \/ CasDelete(h) \/ CasReplace(h)
    <3>1. ASSUME NEW result, Finish(h, result)
          PROVE  client'[h].pc = "done"
      BY <1>0, <3>1 DEF Finish, StoreInv, StoreTypeOK, ClientStates
    <3>2. ASSUME NEW session, FinishRead(h, session)
          PROVE  client'[h].pc = "done"
      BY <1>0, <3>2 DEF FinishRead, StoreInv, StoreTypeOK, ClientStates
    <3> QED
      BY <2>2, <3>1, <3>2 DEF Set, Slide, CasExpire, CasDelete, CasReplace, FinishNull, Commands
  <2> QED
    BY <2>1, <2>2 DEF StoreStep
<1>4. CarriedByStore(req[h], seen[h], Saw(h))
  <2>1. req[h].at # "free"
    BY <1>2 DEF ReadPlaces, ReplacePlaces
  <2> QED
    BY <1>3, <2>1, SawCarries
<1>5. CASE req[h].at = "storing"
  BY <1>0, <1>4, <1>5, StoringSeen DEF CarriedByStore
<1>6. CASE req[h].at = "clearing"
  BY <1>0, <1>4, <1>6, ClearSeen
<1>7. CASE req[h].at \in ReadPlaces
  BY <1>0, <1>4, <1>7, ReadSeen
<1>8. CASE req[h].at \in ReplacePlaces
  BY <1>0, <1>4, <1>8, ReplaceSeen
<1> QED
  BY <1>2, <1>5, <1>6, <1>7, <1>8

\* What was seen stays tied to the record, whoever moves.
THEOREM SeenNextInv == AuthInv /\ SeenInv /\ [MCNext]_mcVars => AuthInv' /\ SeenInv'
<1> SUFFICES ASSUME AuthInv, SeenInv, [MCNext]_mcVars PROVE AuthInv' /\ SeenInv'
  OBVIOUS
<1>1. CASE UNCHANGED <<authVars, seen>>
  <2>1. AuthInv'
    BY <1>1, AuthNextInv
  <2>2. UNCHANGED <<redis, client, req, seen>>
    BY <1>1 DEF authVars, storeVars
  <2> QED
    BY <2>1, <2>2 DEF SeenInv
<1>2. CASE AuthNext /\ seen' = [h \in Handlers |-> Saw(h)]
  <2>0. AuthInv' /\ \A h \in Handlers : seen'[h] = Saw(h)
    BY <1>2, AuthNextInv
  <2> SUFFICES ASSUME NEW h \in Handlers
               PROVE  SeenOK(req'[h], client'[h], seen'[h], redis')
    BY <2>0 DEF SeenInv
  <2>1. StoreInv /\ h \in Clients /\ client \in [Clients -> ClientStates]
    BY RequestFields
  <2>2. ASSUME NEW g \in Handlers, HandlerStep(g)
        PROVE  SeenOK(req'[h], client'[h], seen'[h], redis')
    <3>1. Served(g)
      BY <2>2, HandlerServes
    <3>2. CASE g = h
      BY <2>0, <3>1, <3>2, ServedSeen
    <3>3. CASE g # h
      BY <2>0, <2>1, <3>1, <3>3, BystanderSeen DEF Served
    <3> QED
      BY <3>2, <3>3
  <2>3. ASSUME NEW c \in Clients, StoreStep(c), UNCHANGED <<minted, req>>
        PROVE  SeenOK(req'[h], client'[h], seen'[h], redis')
    <3>1. CASE c = h
      BY <2>0, <2>3, <3>1, StoreSeen
    <3>2. CASE c # h
      <4>1. client'[h] = client[h]
        BY <2>1, <2>3, <3>2, StoreStepIsOfOne
      <4> QED
        BY <2>0, <2>3, <4>1, BystanderSeen
    <3> QED
      BY <3>1, <3>2
  <2>4. ASSUME NEW c \in Clients \ Handlers, Call(c) \/ Return(c), UNCHANGED <<minted, req>>
        PROVE  SeenOK(req'[h], client'[h], seen'[h], redis')
    <3>1. client'[h] = client[h]
      BY <2>1, <2>4, EnterEffect DEF Call, CallSet, CallRead, CallQualified, CallReplace, Return
    <3> QED
      BY <2>0, <2>4, <3>1, BystanderSeen
  <2>5. CASE Tick /\ UNCHANGED <<minted, req>>
    BY <2>0, <2>5, BystanderSeen DEF Tick
  <2>6. CASE Crash
    <3>1. req'[h] = Free
      BY <2>6 DEF Crash
    <3>2. Saw(h) = Unseen /\ req'[h].at = "free"
      BY <3>1 DEF Saw, Free
    <3> QED
      BY <2>0, <3>2, FreeSeen
  <2> QED
    BY <1>2, <2>2, <2>3, <2>4, <2>5, <2>6 DEF AuthNext, Background
<1> QED
  BY <1>1, <1>2 DEF MCNext, mcVars

\* Both invariants hold in every behaviour of the sign-ins.
THEOREM SeenInvariant == MCSpec => [](AuthInv /\ SeenInv)
<1>1. MCInit => AuthInv /\ SeenInv
  <2> SUFFICES ASSUME MCInit PROVE AuthInv /\ SeenInv
    OBVIOUS
  <2>1. \A h \in Handlers : req[h].at = "free" /\ seen[h] = Unseen
    BY DEF MCInit, AuthInit, Free
  <2> QED
    BY <2>1, AuthInitInv, FreeSeen DEF MCInit, SeenInv
<1> QED
  BY <1>1, SeenNextInv, PTL DEF MCSpec

\* A token whose session was live when the request began is refused as dead only
\* if somebody else changed the record or it came past its absolute cap
\* (session-record-policy.ts evaluateRecord, redis-session.store.ts).
THEOREM RefusalsHaveACause == MCSpec => []DeadHasACause
<1>1. AuthInv /\ SeenInv => DeadHasACause
  BY DEF SeenInv, SeenOK, Undisturbed, DeadHasACause, At
<1> QED
  BY <1>1, SeenInvariant, PTL

\* A renewal that meets one renewal of the other service is merged, never
\* answered 409 (auth.service.ts renewUpstreamSession).
THEOREM OtherRenewalsAreMerged == MCSpec => []OneOtherRenewalIsMerged
<1>1. AuthInv /\ SeenInv => OneOtherRenewalIsMerged
  BY DEF SeenInv, SeenOK, Mergeable, OneOtherRenewalIsMerged, At
<1> QED
  BY <1>1, SeenInvariant, PTL

\* `renewed` is answered only for a cookie the live record of the token's session
\* held after upstream had validated it, and the store never throws on a renewal.
THEOREM RenewalsAnswerTruly == MCSpec => []RenewalAnswersTruly
<1>1. AuthInv /\ SeenInv => RenewalAnswersTruly
  BY DEF AuthInv, Serves, SeenInv, SeenOK, Confirmed, RenewalAnswersTruly, RenewalNeverThrows, At
<1> QED
  BY <1>1, SeenInvariant, PTL

-----------------------------------------------------------------------------
(* The development sign-ins                                                  *)

\* A capture, a callback or a stored session has the fields it was made with.
IsDoing(x) ==
    LET fields == {"step", "cookie", "sub", "generation"} IN
    DOMAIN x = fields /\ x = [f \in fields |-> x[f]]

IsSession(x) ==
    LET fields == {"cookie", "generation", "fresh"} IN
    DOMAIN x = fields /\ x = [f \in fields |-> x[f]]

\* Kulon's cookies are numbered as they are handed out.
CookiesNumbered ==
    \E n \in Nat : DOMAIN ownerOf = 1..n /\ living \subseteq 1..n

\* A cookie that goes with the identity of a person is that person's.
Named(cookie, sub, owners) ==
    sub \in People => cookie \in DOMAIN owners /\ owners[cookie] = sub

\* What a capture knows of whose cookie it holds: nothing until Kulon has named
\* somebody, or nobody.
Knows(x, owners) ==
    /\ x.step \in {"check", "identity"} => x.sub = Shared
    /\ x.step \in {"store", "sign", "probe"} => Named(x.cookie, x.sub, owners)

OwnersInv ==
    /\ CookiesNumbered
    /\ capture = [c \in Windows |-> capture[c]]
    /\ sessions = [i \in Identities |-> sessions[i]]
    /\ \A c \in Windows : IsDoing(capture[c]) /\ Knows(capture[c], ownerOf)
    /\ \A i \in Identities :
          /\ IsSession(sessions[i])
          /\ sessions[i] # NothingStored => Named(sessions[i].cookie, i, ownerOf)
    /\ \A t \in tokens : Named(t.cookie, t.sub, ownerOf)

\* A callback that has taken its state, and has not given its token yet.
InFlight(x) == x.step \in {"exchange", "sign"}

\* A state that was issued and is not pending any more will not be again.
Spent(s, pending) == s \in States /\ pending[s] \notin {"unused", "pending"}

StatesInv ==
    /\ pendingStates = [s \in States |-> pendingStates[s]]
    /\ callback = [b \in Callbacks |-> callback[b]]
    /\ \A b \in Callbacks :
          /\ IsDoing(callback[b])
          /\ InFlight(callback[b]) =>
                /\ Spent(callback[b].sub, pendingStates)
                /\ \A t \in tokens : t.by = "oidc" => t.sub # callback[b].sub
    /\ \A b, d \in Callbacks :
          (b # d /\ InFlight(callback[b]) /\ InFlight(callback[d]))
          => callback[b].sub # callback[d].sub
    /\ \A t \in tokens : t.by = "oidc" => Spent(t.sub, pendingStates)
    /\ SignInsStayApart

\* A capture whose generation is nobody else's yet, and one whose generation may be
\* that of a stored session.
Fresh(x) == x.step \in {"check", "identity", "store"}
Settled(x) == x.step \in {"probe", "sign"}

\* A stored session of this generation is this identity's, with this cookie.
Fits(generation, sub, cookie, held) ==
    \A i \in Identities :
        held[i].generation = generation => i = sub /\ held[i].cookie = cookie

\* No two sessions are of one generation, and whoever holds a generation fits the
\* session that has it; a fresh one is held once.
GenerationsInv ==
    /\ lastGeneration \in Nat
    /\ \A i \in Identities :
          /\ sessions[i] = NothingStored \/ sessions[i].generation \in 1..lastGeneration
          /\ sessions[i] # NothingStored =>
                Fits(sessions[i].generation, i, sessions[i].cookie, sessions)
    /\ \A t \in tokens :
          /\ t.generation \in 1..lastGeneration
          /\ Fits(t.generation, t.sub, t.cookie, sessions)
    /\ \A b \in Callbacks : callback[b].step = "sign" =>
          /\ callback[b].generation \in 1..lastGeneration
          /\ Fits(callback[b].generation, callback[b].sub, 0, sessions)
    /\ \A c \in Windows : Fresh(capture[c]) \/ Settled(capture[c]) =>
          capture[c].generation \in 1..lastGeneration
    /\ \A c \in Windows : Settled(capture[c]) =>
          Fits(capture[c].generation, capture[c].sub, capture[c].cookie, sessions)
    /\ \A c \in Windows : Fresh(capture[c]) =>
          /\ \A i \in Identities : sessions[i].generation # capture[c].generation
          /\ \A t \in tokens : t.generation # capture[c].generation
          /\ \A b \in Callbacks :
                callback[b].step = "sign" => callback[b].generation # capture[c].generation
          /\ \A d \in Windows \ {c} : (Fresh(capture[d]) \/ Settled(capture[d])) =>
                capture[d].generation # capture[c].generation

LEMMA DoingFields ==
    ASSUME NEW step, NEW cookie, NEW sub, NEW generation
    PROVE  LET x == Doing(step, cookie, sub, generation) IN
           /\ IsDoing(x) /\ x.step = step /\ x.cookie = cookie /\ x.sub = sub
           /\ x.generation = generation
BY DEF Doing, IsDoing

LEMMA RestingFields ==
    ASSUME NEW step
    PROVE  IsDoing(Resting(step)) /\ Resting(step).step = step
BY DoingFields DEF Resting

LEMMA SessionFields ==
    ASSUME NEW cookie, NEW generation, NEW young
    PROVE  /\ IsSession(Session(cookie, generation, young))
           /\ Session(cookie, generation, young).cookie = cookie
           /\ Session(cookie, generation, young).generation = generation
BY DEF Session, IsSession

LEMMA NothingFields ==
    IsSession(NothingStored) /\ NothingStored.cookie = 0 /\ NothingStored.generation = 0
BY SessionFields DEF NothingStored

\* EXCEPT on such a record.
LEMMA SessionExcept ==
    ASSUME NEW x, IsSession(x)
    PROVE  LET y == [x EXCEPT !.fresh = FALSE] IN
           IsSession(y) /\ y.cookie = x.cookie /\ y.generation = x.generation
BY DEF IsSession

\* A capture goes on with y, and signs a token that is named like it or none.
LEMMA GoesOn ==
    ASSUME OwnersInv, NEW c \in Windows, NEW y, Goes(c, y), IsDoing(y), Knows(y, ownerOf),
           \A t \in tokens' : t \in tokens \/ Named(t.cookie, t.sub, ownerOf),
           UNCHANGED <<browserVars, sessions>>
    PROVE  OwnersInv'
<1>1. /\ capture' = [d \in Windows |-> capture'[d]] /\ capture'[c] = y
      /\ \A d \in Windows \ {c} : capture'[d] = capture[d]
  BY DEF Goes, OwnersInv
<1>2. UNCHANGED <<ownerOf, living, sessions>>
  BY DEF browserVars
<1>3. CookiesNumbered'
  BY <1>2 DEF OwnersInv, CookiesNumbered
<1>4. \A d \in Windows : IsDoing(capture'[d]) /\ Knows(capture'[d], ownerOf)
  BY <1>1 DEF OwnersInv
<1>5. \A t \in tokens' : Named(t.cookie, t.sub, ownerOf)
  BY DEF OwnersInv
<1> QED
  BY <1>1, <1>2, <1>3, <1>4, <1>5 DEF OwnersInv

LEMMA CaptureOwners ==
    ASSUME OwnersInv, NEW c \in Windows, Shared \notin People,
           \/ captureSsoSession(c) \/ ReuseProbed(c) \/ Launch(c) \/ DashboardReached(c)
           \/ establishKulonSession(c) \/ establishSiapSession(c) \/ CaptureTimesOut(c)
           \/ Checked(c) \/ getSessionIdentity(c) \/ SignCapture(c) \/ NextCapture(c)
    PROVE  OwnersInv'
<1> DEFINE x == capture[c]
<1>0. IsDoing(x) /\ Knows(x, ownerOf)
  BY DEF OwnersInv
<1>a. ASSUME NEW step \in {"done", "launch", "login", "failed", "kulon", "siap", "idle"}
      PROVE  IsDoing(Resting(step)) /\ Knows(Resting(step), ownerOf)
  BY RestingFields DEF Knows
<1>1. CASE captureSsoSession(c)
  <2>1. UNCHANGED <<browserVars, sessions, tokens>>
    BY <1>1 DEF captureSsoSession
  <2>2. \/ \E i \in Stored : Goes(c, Doing("probe", sessions[i].cookie, i, sessions[i].generation))
        \/ Goes(c, Resting("launch"))
    BY <1>1 DEF captureSsoSession
  <2>3. ASSUME NEW i \in Stored
        PROVE  LET y == Doing("probe", sessions[i].cookie, i, sessions[i].generation) IN
               IsDoing(y) /\ Knows(y, ownerOf)
    <3>1. Named(sessions[i].cookie, i, ownerOf)
      BY DEF Stored, OwnersInv
    <3> QED
      BY <3>1, DoingFields DEF Knows
  <2> QED
    BY <2>1, <2>2, <2>3, <1>a, GoesOn
<1>2. CASE \/ Launch(c) \/ DashboardReached(c) \/ establishKulonSession(c)
           \/ CaptureTimesOut(c) \/ NextCapture(c)
  <2>1. UNCHANGED <<browserVars, sessions, tokens>>
    BY <1>2 DEF Launch, DashboardReached, establishKulonSession, CaptureTimesOut, NextCapture
  <2>2. \E step \in {"done", "launch", "login", "failed", "kulon", "siap", "idle"} :
           Goes(c, Resting(step))
    BY <1>2 DEF Launch, DashboardReached, establishKulonSession, CaptureTimesOut, NextCapture
  <2> QED
    BY <2>1, <2>2, <1>a, GoesOn
<1>3. CASE ReuseProbed(c) \/ SignCapture(c)
  <2>1. UNCHANGED <<browserVars, sessions>> /\ x.step \in {"probe", "sign"}
    BY <1>3 DEF ReuseProbed, SignCapture
  <2>2. \E step \in {"done", "launch", "login", "failed", "kulon", "siap", "idle"} :
           Goes(c, Resting(step))
    BY <1>3 DEF ReuseProbed, SignCapture
  <2>3. \/ UNCHANGED tokens
        \/ \E by : Sign(x.sub, x.generation, by, x.cookie)
    BY <1>3 DEF ReuseProbed, SignCapture
  <2>4. Named(x.cookie, x.sub, ownerOf)
    BY <1>0, <2>1 DEF Knows
  <2>5. \A t \in tokens' : t \in tokens \/ Named(t.cookie, t.sub, ownerOf)
    BY <2>3, <2>4 DEF Sign
  <2> QED
    BY <2>1, <2>2, <2>5, <1>a, GoesOn
<1>4. CASE establishSiapSession(c)
  <2>1. /\ Goes(c, Doing("check", jar, Shared, NewGeneration))
        /\ UNCHANGED <<browserVars, sessions, tokens>>
    BY <1>4 DEF establishSiapSession
  <2>2. LET y == Doing("check", jar, Shared, NewGeneration) IN IsDoing(y) /\ Knows(y, ownerOf)
    BY DoingFields DEF Knows
  <2> QED
    BY <2>1, <2>2, GoesOn
<1>5. CASE Checked(c)
  <2>1. UNCHANGED <<browserVars, sessions, tokens>> /\ x.step = "check"
    BY <1>5 DEF Checked
  <2>2. \/ Goes(c, [x EXCEPT !.step = "identity"])
        \/ Goes(c, [x EXCEPT !.step = "store", !.cookie = 0])
    BY <1>5 DEF Checked
  <2>3. x.sub = Shared
    BY <1>0, <2>1 DEF Knows
  <2> HIDE DEF x
  <2> DEFINE y == [x EXCEPT !.step = "identity"]
             z == [x EXCEPT !.step = "store", !.cookie = 0]
  <2>4. IsDoing(y) /\ y.step = "identity" /\ y.sub = x.sub
    BY <1>0 DEF IsDoing
  <2>5. IsDoing(z) /\ z.sub = x.sub /\ z.step = "store"
    BY <1>0 DEF IsDoing
  <2>6. Goes(c, y) \/ Goes(c, z)
    BY <2>2
  <2> HIDE DEF y, z
  <2>7. Knows(y, ownerOf) /\ Knows(z, ownerOf)
    BY <2>3, <2>4, <2>5 DEF Knows, Named
  <2> QED
    BY <2>1, <2>4, <2>5, <2>6, <2>7, GoesOn
<1>6. CASE getSessionIdentity(c)
  <2>1. UNCHANGED <<browserVars, sessions, tokens>>
    BY <1>6 DEF getSessionIdentity
  <2>2. PICK sub \in IdentityOf(x.cookie) : Goes(c, [x EXCEPT !.step = "store", !.sub = sub])
    BY <1>6 DEF getSessionIdentity
  <2>3. Named(x.cookie, sub, ownerOf)
    BY <2>2 DEF IdentityOf, Named, OwnersInv, CookiesNumbered
  <2> HIDE DEF x
  <2> DEFINE y == [x EXCEPT !.step = "store", !.sub = sub]
  <2>4. IsDoing(y) /\ y.cookie = x.cookie /\ y.sub = sub /\ y.step = "store"
    BY <1>0 DEF IsDoing
  <2>5. Goes(c, y)
    BY <2>2
  <2> HIDE DEF y
  <2>6. Knows(y, ownerOf)
    BY <2>3, <2>4 DEF Knows
  <2> QED
    BY <2>1, <2>4, <2>5, <2>6, GoesOn
<1> QED
  BY <1>1, <1>2, <1>3, <1>4, <1>5, <1>6

LEMMA StoreOwners ==
    ASSUME OwnersInv, NEW c \in Windows, StoreCapture(c)
    PROVE  OwnersInv'
<1> DEFINE x == capture[c]
           session == Session(x.cookie, x.generation, TRUE)
           y == [x EXCEPT !.step = "sign"]
<1>1. /\ Named(x.cookie, x.sub, ownerOf) /\ IsDoing(x)
      /\ sessions' = [sessions EXCEPT ![x.sub] = session]
      /\ Goes(c, y)
      /\ UNCHANGED <<ownerOf, living, tokens>>
  BY DEF StoreCapture, OwnersInv, browserVars, Knows
<1>2. IsSession(session) /\ session.cookie = x.cookie
  BY DEF Session, IsSession
<1> HIDE DEF session, x
<1>3. IsDoing(y) /\ y.step = "sign" /\ y.cookie = x.cookie /\ y.sub = x.sub
  BY <1>1 DEF IsDoing
<1> HIDE DEF y
<1>4. /\ sessions' = [i \in Identities |-> sessions'[i]]
      /\ \A i \in Identities :
            /\ IsSession(sessions'[i])
            /\ sessions'[i] # NothingStored => Named(sessions'[i].cookie, i, ownerOf)
  BY <1>1, <1>2 DEF OwnersInv
<1>5. /\ capture' = [d \in Windows |-> capture'[d]]
      /\ capture'[c] = y
      /\ \A d \in Windows \ {c} : capture'[d] = capture[d]
  BY <1>1 DEF Goes, OwnersInv
<1>6. IsDoing(y) /\ Knows(y, ownerOf)
  BY <1>1, <1>3 DEF Knows
<1>7. \A d \in Windows : IsDoing(capture'[d]) /\ Knows(capture'[d], ownerOf)
  BY <1>5, <1>6 DEF OwnersInv
<1>8. CookiesNumbered'
  BY <1>1 DEF OwnersInv, CookiesNumbered
<1>9. \A t \in tokens' : Named(t.cookie, t.sub, ownerOf)
  BY <1>1 DEF OwnersInv
<1> QED
  BY <1>1, <1>4, <1>5, <1>7, <1>8, <1>9 DEF OwnersInv

\* A cookie that is handed out is a new one: the others keep their owners.
LEMMA LogInOwners ==
    ASSUME OwnersInv, NEW p \in People, LogInAtWindow(p)
    PROVE  OwnersInv'
<1>1. PICK n \in Nat : DOMAIN ownerOf = 1..n /\ living \subseteq 1..n
  BY DEF OwnersInv, CookiesNumbered
<1>2. Cardinality(DOMAIN ownerOf) = n
  BY <1>1, FS_Interval
<1>3. /\ ownerOf' = [m \in 1..(n + 1) |-> IF m = n + 1 THEN p ELSE ownerOf[m]]
      /\ living' = living \cup {n + 1} /\ UNCHANGED <<capture, sessions, tokens>>
  BY <1>2 DEF LogInAtWindow
<1>4. n + 1 \in Nat /\ DOMAIN ownerOf' = 1..(n + 1) /\ living' \subseteq 1..(n + 1)
  BY <1>1, <1>3
<1>5. CookiesNumbered'
  BY <1>4 DEF CookiesNumbered
<1>6. \A cookie \in DOMAIN ownerOf : cookie \in DOMAIN ownerOf' /\ ownerOf'[cookie] = ownerOf[cookie]
  BY <1>1, <1>3
<1>7. \A cookie, sub : Named(cookie, sub, ownerOf) => Named(cookie, sub, ownerOf')
  BY <1>6 DEF Named
<1>8. \A x : Knows(x, ownerOf) => Knows(x, ownerOf')
  BY <1>7 DEF Knows
<1> QED
  BY <1>3, <1>5, <1>7, <1>8 DEF OwnersInv

LEMMA SessionsOwners ==
    ASSUME OwnersInv, NEW i, NEW session, sessions' = [sessions EXCEPT ![i] = session],
           IsSession(session),
           \/ i \notin People \/ session = NothingStored
           \/ i \in Identities /\ sessions[i] # NothingStored /\ session.cookie = sessions[i].cookie,
           UNCHANGED <<browserVars, capture, tokens>>
    PROVE  OwnersInv'
<1>1. /\ sessions' = [j \in Identities |-> sessions'[j]]
      /\ \A j \in Identities : sessions'[j] = IF j = i THEN session ELSE sessions[j]
  BY DEF OwnersInv
<1>2. session # NothingStored => Named(session.cookie, i, ownerOf)
  BY DEF Named, OwnersInv
<1>3. \A j \in Identities :
         /\ IsSession(sessions'[j])
         /\ sessions'[j] # NothingStored => Named(sessions'[j].cookie, j, ownerOf)
  BY <1>1, <1>2 DEF OwnersInv
<1>4. CookiesNumbered' /\ UNCHANGED <<ownerOf, capture, tokens>>
  BY DEF OwnersInv, CookiesNumbered, browserVars
<1> QED
  BY <1>1, <1>3, <1>4 DEF OwnersInv

LEMMA OwnersNextInv ==
    ASSUME OwnersInv, StatesInv, Shared \notin People /\ States \cap People = {},
           [LegacyNext]_legacyVars
    PROVE  OwnersInv'
<1>1. CASE UNCHANGED <<browserVars, capture, sessions, tokens>>
  BY <1>1 DEF browserVars, OwnersInv, CookiesNumbered
<1>2. ASSUME NEW c \in Windows, StoreCapture(c)
      PROVE  OwnersInv'
  BY <1>2, StoreOwners
<1>3. ASSUME NEW b \in Callbacks, consumeTokenResponse(b)
      PROVE  OwnersInv'
  <2>1. UNCHANGED <<browserVars, capture, tokens>> /\ callback[b].step = "exchange"
    BY <1>3 DEF consumeTokenResponse
  <2>2. \/ UNCHANGED sessions
        \/ sessions' = [sessions EXCEPT ![callback[b].sub] = Session(0, NewGeneration, TRUE)]
    BY <1>3 DEF consumeTokenResponse
  <2> DEFINE session == Session(0, NewGeneration, TRUE)
  <2>3. IsSession(session)
    BY SessionFields
  <2>4. callback[b].sub \notin People
    BY <2>1 DEF StatesInv, InFlight, Spent
  <2> HIDE DEF session
  <2>5. CASE sessions' = [sessions EXCEPT ![callback[b].sub] = session]
    BY <2>1, <2>3, <2>4, <2>5, SessionsOwners
  <2> QED
    BY <1>1, <2>1, <2>2, <2>5 DEF session
<1>4. ASSUME NEW i \in Identities, SessionAges(i)
      PROVE  OwnersInv'
  <2>1. /\ UNCHANGED <<browserVars, capture, tokens>>
        /\ IsSession(sessions[i]) /\ sessions[i] # NothingStored
    BY <1>4 DEF SessionAges, OwnersInv
  <2>2. \/ sessions' = [sessions EXCEPT ![i] = [sessions[i] EXCEPT !.fresh = FALSE]]
        \/ sessions' = [sessions EXCEPT ![i] = NothingStored]
    BY <1>4 DEF SessionAges, OwnersInv
  <2> DEFINE aged == [sessions[i] EXCEPT !.fresh = FALSE]
  <2>3. IsSession(aged) /\ aged.cookie = sessions[i].cookie
    BY <2>1, SessionExcept
  <2>4. IsSession(NothingStored)
    BY NothingFields
  <2> HIDE DEF aged
  <2>5. CASE sessions' = [sessions EXCEPT ![i] = aged]
    BY <2>1, <2>3, <2>5, SessionsOwners
  <2>6. CASE sessions' = [sessions EXCEPT ![i] = NothingStored]
    BY <2>1, <2>4, <2>6, SessionsOwners
  <2> QED
    BY <2>2, <2>5, <2>6 DEF aged
<1>5. ASSUME NEW cookie, CookieDies(cookie)
      PROVE  OwnersInv'
  <2>1. UNCHANGED <<ownerOf, capture, sessions, tokens>> /\ living' \subseteq living
    BY <1>5 DEF CookieDies
  <2> QED
    BY <2>1 DEF OwnersInv, CookiesNumbered
<1>6. ASSUME NEW b \in Callbacks, SignCallback(b)
      PROVE  OwnersInv'
  <2>1. /\ UNCHANGED <<ownerOf, living, capture, sessions>>
        /\ callback[b].step = "sign" /\ Sign(callback[b].sub, callback[b].generation, "oidc", 0)
    BY <1>6 DEF SignCallback, browserVars
  <2>2. callback[b].sub \notin People
    BY <2>1 DEF StatesInv, InFlight, Spent
  <2>3. \A t \in tokens' : Named(t.cookie, t.sub, ownerOf)
    BY <2>1, <2>2 DEF Sign, Named, OwnersInv
  <2> QED
    BY <2>1, <2>3 DEF OwnersInv, CookiesNumbered
<1>7. CASE LegacyNext
  <2>1. ASSUME NEW s \in States,
               issueState(s) \/ StateExpires(s) \/ \E b \in Callbacks : handleCallback(b, s)
        PROVE  OwnersInv'
    BY <1>1, <2>1 DEF issueState, StateExpires, handleCallback
  <2> QED
    BY <1>2, <1>3, <1>4, <1>5, <1>6, <1>7, <2>1, CaptureOwners, LogInOwners DEF LegacyNext
<1> QED
  BY <1>1, <1>7 DEF legacyVars, browserVars

LEMMA SpentStays ==
    ASSUME NEW s, NEW t, NEW before, NEW after, Spent(t, before),
           \A u \in States : after[u] \in {before[u], "expired", "gone"} \/ before[u] = "unused"
    PROVE  Spent(t, after)
BY DEF Spent

\* What leaves callbacks and tokens alone leaves the states that are spent spent.
LEMMA StatesMove ==
    ASSUME StatesInv, UNCHANGED <<callback, tokens>>,
           pendingStates' = [u \in States |-> pendingStates'[u]],
           \A u \in States : \/ pendingStates'[u] \in {pendingStates[u], "expired", "gone"}
                             \/ pendingStates[u] = "unused"
    PROVE  StatesInv'
<1>1. \A t : Spent(t, pendingStates) => Spent(t, pendingStates')
  BY SpentStays
<1> QED
  BY <1>1 DEF StatesInv, SignInsStayApart

LEMMA CallbackStates ==
    ASSUME StatesInv, NEW b \in Callbacks, NEW s \in States, handleCallback(b, s)
    PROVE  StatesInv'
<1>1. /\ pendingStates' = [pendingStates EXCEPT ![s] = "gone"]
      /\ \/ callback' = [callback EXCEPT ![b] = Resting("failed")]
         \/ /\ pendingStates[s] = "pending"
            /\ callback' = [callback EXCEPT ![b] = Doing("exchange", 0, s, 0)]
      /\ UNCHANGED tokens
  BY DEF handleCallback, TakeState
<1>2. /\ pendingStates' = [u \in States |-> pendingStates'[u]] /\ pendingStates'[s] = "gone"
      /\ \A u \in States : pendingStates'[u] \in {pendingStates[u], "gone"}
  BY <1>1 DEF StatesInv
<1>3. \A t : Spent(t, pendingStates) => Spent(t, pendingStates')
  BY <1>2, SpentStays
<1>4. /\ callback' = [d \in Callbacks |-> callback'[d]]
      /\ \A d \in Callbacks \ {b} : callback'[d] = callback[d]
      /\ \/ callback'[b] = Resting("failed")
         \/ pendingStates[s] = "pending" /\ callback'[b] = Doing("exchange", 0, s, 0)
  BY <1>1 DEF StatesInv
<1>5. /\ IsDoing(callback'[b])
      /\ InFlight(callback'[b]) => callback'[b].sub = s /\ pendingStates[s] = "pending"
  BY <1>4, DoingFields, RestingFields DEF InFlight
<1>6. Spent(s, pendingStates') /\ (pendingStates[s] = "pending" => ~ Spent(s, pendingStates))
  BY <1>2 DEF Spent
<1>7. \A d \in Callbacks :
          /\ IsDoing(callback'[d])
          /\ InFlight(callback'[d]) =>
                /\ Spent(callback'[d].sub, pendingStates')
                /\ \A t \in tokens : t.by = "oidc" => t.sub # callback'[d].sub
  BY <1>3, <1>4, <1>5, <1>6 DEF StatesInv
<1>8. \A d, e \in Callbacks :
          (d # e /\ InFlight(callback'[d]) /\ InFlight(callback'[e]))
          => callback'[d].sub # callback'[e].sub
  BY <1>4, <1>5, <1>6 DEF StatesInv
<1> QED
  BY <1>1, <1>2, <1>3, <1>4, <1>7, <1>8 DEF StatesInv, SignInsStayApart

\* A callback in flight goes on with its state, or fails.
LEMMA ResponseStates ==
    ASSUME StatesInv, NEW b \in Callbacks, consumeTokenResponse(b)
    PROVE  StatesInv'
<1> DEFINE x == callback[b]
<1>1. /\ UNCHANGED <<pendingStates, tokens>> /\ x.step = "exchange" /\ IsDoing(x)
      /\ \/ callback' = [callback EXCEPT ![b] = Resting("failed")]
         \/ callback' = [callback EXCEPT ![b] = [x EXCEPT !.step = "sign", !.generation = NewGeneration]]
  BY DEF consumeTokenResponse, StatesInv
<1> DEFINE g == NewGeneration
           y == [x EXCEPT !.step = "sign", !.generation = g]
<1>2. /\ callback' = [d \in Callbacks |-> callback'[d]]
      /\ \A d \in Callbacks \ {b} : callback'[d] = callback[d]
      /\ callback'[b] = Resting("failed") \/ callback'[b] = y
  BY <1>1 DEF StatesInv
<1> HIDE DEF x, g
<1>3. IsDoing(y) /\ y.sub = x.sub
  BY <1>1 DEF IsDoing
<1> HIDE DEF y
<1>4. /\ IsDoing(callback'[b])
      /\ InFlight(callback'[b]) => callback'[b].sub = x.sub /\ InFlight(x)
  BY <1>1, <1>2, <1>3, RestingFields DEF InFlight
<1>5. \A d \in Callbacks :
          /\ IsDoing(callback'[d])
          /\ InFlight(callback'[d]) => callback'[d].sub = callback[d].sub /\ InFlight(callback[d])
  BY <1>2, <1>4 DEF StatesInv, x
<1> QED
  BY <1>1, <1>2, <1>5 DEF StatesInv, SignInsStayApart

\* The token of a callback is the only one of its state.
LEMMA SignStates ==
    ASSUME StatesInv, NEW b \in Callbacks, SignCallback(b)
    PROVE  StatesInv'
<1> DEFINE x == callback[b]
           token == [sub |-> x.sub, generation |-> x.generation, by |-> "oidc", cookie |-> 0]
<1>1. /\ UNCHANGED pendingStates /\ InFlight(x) /\ Spent(x.sub, pendingStates)
      /\ \A t \in tokens : t.by = "oidc" => t.sub # x.sub
      /\ tokens' = tokens \cup {token}
      /\ callback' = [callback EXCEPT ![b] = Resting("done")]
  BY DEF SignCallback, Sign, StatesInv, InFlight
<1>2. /\ callback' = [d \in Callbacks |-> callback'[d]]
      /\ \A d \in Callbacks \ {b} : callback'[d] = callback[d] /\ (InFlight(callback[d]) => callback[d].sub # x.sub)
      /\ callback'[b] = Resting("done")
  BY <1>1 DEF StatesInv
<1>3. IsDoing(callback'[b]) /\ ~ InFlight(callback'[b])
  BY <1>2, RestingFields DEF InFlight
<1>4. token.sub = x.sub
  OBVIOUS
<1> HIDE DEF x, token
<1>5. \A t \in tokens' : t.by = "oidc" => Spent(t.sub, pendingStates)
  BY <1>1, <1>4 DEF StatesInv
<1>6. \A t, u \in tokens' : t.by = "oidc" /\ u.by = "oidc" /\ t.sub = u.sub => t = u
  BY <1>1, <1>4 DEF StatesInv, SignInsStayApart
<1>7. \A d \in Callbacks :
          /\ IsDoing(callback'[d])
          /\ InFlight(callback'[d]) =>
                /\ Spent(callback'[d].sub, pendingStates)
                /\ \A t \in tokens' : t.by = "oidc" => t.sub # callback'[d].sub
  BY <1>1, <1>2, <1>3, <1>4 DEF StatesInv
<1>8. \A d, e \in Callbacks :
          (d # e /\ InFlight(callback'[d]) /\ InFlight(callback'[e]))
          => callback'[d].sub # callback'[e].sub
  BY <1>2, <1>3 DEF StatesInv
<1> QED
  BY <1>1, <1>2, <1>5, <1>6, <1>7, <1>8 DEF StatesInv, SignInsStayApart

LEMMA StatesNextInv ==
    ASSUME StatesInv, [LegacyNext]_legacyVars
    PROVE  StatesInv'
<1>1. ASSUME UNCHANGED oidcVars, \A t \in tokens' : t \in tokens \/ t.by # "oidc",
             tokens \subseteq tokens'
      PROVE  StatesInv'
  BY <1>1 DEF oidcVars, StatesInv, SignInsStayApart
<1>2. ASSUME UNCHANGED <<oidcVars, tokens>>
      PROVE  StatesInv'
  BY <1>1, <1>2
<1>3. ASSUME NEW c \in Windows,
             \/ captureSsoSession(c) \/ ReuseProbed(c) \/ Launch(c) \/ DashboardReached(c)
             \/ establishKulonSession(c) \/ establishSiapSession(c) \/ CaptureTimesOut(c)
             \/ Checked(c) \/ getSessionIdentity(c) \/ StoreCapture(c) \/ SignCapture(c)
             \/ NextCapture(c)
      PROVE  StatesInv'
  <2>1. ASSUME NEW sub, NEW generation, NEW by, NEW cookie, by # "oidc",
               Sign(sub, generation, by, cookie), UNCHANGED oidcVars
        PROVE  StatesInv'
    BY <1>1, <2>1 DEF Sign
  <2>2. CASE ReuseProbed(c)
    BY <1>2, <2>1, <2>2 DEF ReuseProbed
  <2>3. CASE SignCapture(c)
    BY <2>1, <2>3 DEF SignCapture
  <2> QED
    BY <1>2, <1>3, <2>2, <2>3 DEF captureSsoSession, Launch, DashboardReached,
       establishKulonSession, establishSiapSession, CaptureTimesOut, Checked, getSessionIdentity,
       StoreCapture, NextCapture
<1>4. ASSUME NEW s \in States, issueState(s) \/ StateExpires(s)
      PROVE  StatesInv'
  <2>1. UNCHANGED <<callback, tokens>>
    BY <1>4 DEF issueState, StateExpires
  <2>2. CASE issueState(s)
    <3>1. /\ pendingStates[s] = "unused"
          /\ pendingStates' = [t \in States |->
                CASE t = s -> "pending"
                  [] t # s /\ pendingStates[t] = "expired" -> "gone"
                  [] OTHER -> pendingStates[t]]
      BY <2>2 DEF issueState
    <3>2. pendingStates' = [u \in States |-> pendingStates'[u]]
      BY <3>1
    <3>3. \A u \in States : \/ pendingStates'[u] \in {pendingStates[u], "expired", "gone"}
                            \/ pendingStates[u] = "unused"
      BY <3>1
    <3> QED
      BY <2>1, <3>2, <3>3, StatesMove
  <2>3. CASE StateExpires(s)
    <3>1. pendingStates' = [pendingStates EXCEPT ![s] = "expired"]
      BY <2>3 DEF StateExpires
    <3>2. /\ pendingStates' = [u \in States |-> pendingStates'[u]]
          /\ \A u \in States : pendingStates'[u] \in {pendingStates[u], "expired", "gone"}
      BY <3>1 DEF StatesInv
    <3> QED
      BY <2>1, <3>2, StatesMove
  <2> QED
    BY <1>4, <2>2, <2>3
<1>5. ASSUME \/ \E p \in People : LogInAtWindow(p)
             \/ \E cookie \in 1..MaxCookies : CookieDies(cookie)
             \/ \E i \in Identities : SessionAges(i)
      PROVE  StatesInv'
  BY <1>2, <1>5 DEF LogInAtWindow, CookieDies, SessionAges
<1>6. CASE LegacyNext
  <2>1. ASSUME NEW s \in States,
               issueState(s) \/ StateExpires(s) \/ \E b \in Callbacks : handleCallback(b, s)
        PROVE  StatesInv'
    BY <1>4, <2>1, CallbackStates
  <2>2. ASSUME NEW b \in Callbacks, consumeTokenResponse(b) \/ SignCallback(b)
        PROVE  StatesInv'
    BY <2>2, ResponseStates, SignStates
  <2> QED
    BY <1>3, <1>5, <1>6, <2>1, <2>2 DEF LegacyNext
<1> QED
  BY <1>2, <1>6 DEF legacyVars, oidcVars

-----------------------------------------------------------------------------
(* The generations of the development sign-ins                               *)

\* What is held by whom, when a capture c goes on with y and nothing is stored: y
\* may hold a generation that fits, or x's fresh one.
LEMMA GenerationsGoOn ==
    ASSUME GenerationsInv, OwnersInv, NEW c \in Windows, NEW y, Goes(c, y),
           UNCHANGED <<sessions, callback, lastGeneration>>,
           \A t \in tokens' : \/ t \in tokens
                              \/ /\ Settled(capture[c])
                                 /\ t.generation = capture[c].generation
                                 /\ t.sub = capture[c].sub /\ t.cookie = capture[c].cookie,
           \/ ~ Fresh(y) /\ ~ Settled(y)
           \/ Fresh(y) /\ Fresh(capture[c]) /\ y.generation = capture[c].generation
           \/ \E i \in Stored : /\ Settled(y) /\ ~ Fresh(y) /\ y.generation = sessions[i].generation
                                /\ y.sub = i /\ y.cookie = sessions[i].cookie
    PROVE  GenerationsInv'
<1> DEFINE x == capture[c]
<1>1. capture'[c] = y /\ \A d \in Windows \ {c} : capture'[d] = capture[d]
  BY DEF Goes, OwnersInv
<1>2. ~ (Fresh(x) /\ Settled(x)) /\ (Fresh(y) => ~ Settled(y))
  BY DEF Fresh, Settled
<1>3. \A t \in tokens' : /\ t.generation \in 1..lastGeneration
                         /\ Fits(t.generation, t.sub, t.cookie, sessions)
  BY DEF GenerationsInv
<1>4. Settled(y) => /\ y.generation \in 1..lastGeneration
                    /\ Fits(y.generation, y.sub, y.cookie, sessions)
  BY <1>2 DEF GenerationsInv, Stored
<1>5. \A d \in Windows : Fresh(capture'[d]) \/ Settled(capture'[d]) =>
         capture'[d].generation \in 1..lastGeneration
  BY <1>1, <1>4 DEF GenerationsInv
<1>6. \A d \in Windows : Settled(capture'[d]) =>
         Fits(capture'[d].generation, capture'[d].sub, capture'[d].cookie, sessions)
  BY <1>1, <1>4 DEF GenerationsInv
<1>7. ASSUME NEW d \in Windows, Fresh(capture'[d])
      PROVE  /\ Fresh(capture[d]) /\ capture'[d].generation = capture[d].generation
             /\ \A i \in Identities : sessions[i].generation # capture[d].generation
             /\ \A t \in tokens : t.generation # capture[d].generation
             /\ \A b \in Callbacks :
                   callback[b].step = "sign" => callback[b].generation # capture[d].generation
             /\ \A e \in Windows \ {d} : Fresh(capture[e]) \/ Settled(capture[e]) =>
                   capture[e].generation # capture[d].generation
  <2>1. Fresh(capture[d]) /\ capture'[d].generation = capture[d].generation
    BY <1>1, <1>7
  <2> QED
    BY <2>1 DEF GenerationsInv
<1>8. ASSUME NEW d \in Windows, Fresh(capture'[d])
      PROVE  \A t \in tokens' : t.generation # capture'[d].generation
  <2>1. ASSUME NEW t \in tokens', t \notin tokens
        PROVE  t.generation # capture'[d].generation
    <3>1. Settled(x) /\ t.generation = x.generation
      BY <2>1
    <3>2. d # c
      BY <3>1, <1>2, <1>7, <1>8
    <3> QED
      BY <3>1, <3>2, <1>7, <1>8
  <2> QED
    BY <2>1, <1>7, <1>8
<1>9. ASSUME NEW d \in Windows, Fresh(capture'[d]), NEW e \in Windows \ {d},
             Fresh(capture'[e]) \/ Settled(capture'[e])
      PROVE  capture'[e].generation # capture'[d].generation
  <2>1. CASE e # c
    BY <2>1, <1>1, <1>7, <1>9
  <2>2. CASE e = c /\ Fresh(y)
    <3>1. Fresh(x) /\ y.generation = x.generation
      BY <2>2, <1>2, <1>1
    <3> QED
      BY <3>1, <2>2, <1>1, <1>7, <1>9
  <2>3. CASE e = c /\ Settled(y)
    <3>1. PICK i \in Stored : y.generation = sessions[i].generation
      BY <2>3, <1>2
    <3> QED
      BY <3>1, <2>3, <1>1, <1>7, <1>9 DEF Stored
  <2> QED
    BY <2>1, <2>2, <2>3, <1>1, <1>9
<1>10. /\ lastGeneration' \in Nat
       /\ \A i \in Identities :
             /\ sessions'[i] = NothingStored \/ sessions'[i].generation \in 1..lastGeneration'
             /\ sessions'[i] # NothingStored =>
                   Fits(sessions'[i].generation, i, sessions'[i].cookie, sessions')
       /\ \A b \in Callbacks : callback'[b].step = "sign" =>
             /\ callback'[b].generation \in 1..lastGeneration'
             /\ Fits(callback'[b].generation, callback'[b].sub, 0, sessions')
  BY DEF GenerationsInv
<1>11. UNCHANGED <<sessions, callback, lastGeneration>>
  OBVIOUS
<1>12. \A d \in Windows : Fresh(capture'[d]) =>
          /\ \A i \in Identities : sessions'[i].generation # capture'[d].generation
          /\ \A t \in tokens' : t.generation # capture'[d].generation
          /\ \A b \in Callbacks :
                callback'[b].step = "sign" => callback'[b].generation # capture'[d].generation
          /\ \A e \in Windows \ {d} : (Fresh(capture'[e]) \/ Settled(capture'[e])) =>
                capture'[e].generation # capture'[d].generation
  BY <1>7, <1>8, <1>9, <1>11
<1> QED
  BY <1>3, <1>5, <1>6, <1>10, <1>11, <1>12 DEF GenerationsInv

LEMMA CaptureGenerations ==
    ASSUME GenerationsInv, OwnersInv, NEW c \in Windows,
           \/ captureSsoSession(c) \/ ReuseProbed(c) \/ Launch(c) \/ DashboardReached(c)
           \/ establishKulonSession(c) \/ CaptureTimesOut(c)
           \/ Checked(c) \/ getSessionIdentity(c) \/ SignCapture(c) \/ NextCapture(c)
    PROVE  GenerationsInv'
<1> DEFINE x == capture[c]
<1>0. IsDoing(x)
  BY DEF OwnersInv
<1>a. ASSUME NEW step \in {"done", "launch", "login", "failed", "kulon", "siap", "idle"}
      PROVE  ~ Fresh(Resting(step)) /\ ~ Settled(Resting(step))
  BY RestingFields DEF Fresh, Settled
<1>1. CASE captureSsoSession(c)
  <2>1. UNCHANGED <<sessions, callback, lastGeneration, tokens>>
    BY <1>1 DEF captureSsoSession, oidcVars
  <2>2. CASE Goes(c, Resting("launch"))
    BY <2>1, <2>2, <1>a, GenerationsGoOn
  <2>3. ASSUME NEW i \in Stored,
               Goes(c, Doing("probe", sessions[i].cookie, i, sessions[i].generation))
        PROVE  GenerationsInv'
    <3> DEFINE y == Doing("probe", sessions[i].cookie, i, sessions[i].generation)
    <3>1. /\ Settled(y) /\ ~ Fresh(y) /\ y.generation = sessions[i].generation
          /\ y.sub = i /\ y.cookie = sessions[i].cookie
      BY DoingFields DEF Settled, Fresh
    <3> QED
      BY <2>1, <2>3, <3>1, GenerationsGoOn
  <2> QED
    BY <1>1, <2>2, <2>3 DEF captureSsoSession
<1>2. CASE \/ Launch(c) \/ DashboardReached(c) \/ establishKulonSession(c)
           \/ CaptureTimesOut(c) \/ NextCapture(c)
  <2>1. UNCHANGED <<sessions, callback, lastGeneration, tokens>>
    BY <1>2 DEF Launch, DashboardReached, establishKulonSession, CaptureTimesOut, NextCapture,
       oidcVars
  <2>2. \E step \in {"done", "launch", "login", "failed", "kulon", "siap", "idle"} :
           Goes(c, Resting(step))
    BY <1>2 DEF Launch, DashboardReached, establishKulonSession, CaptureTimesOut, NextCapture
  <2> QED
    BY <2>1, <2>2, <1>a, GenerationsGoOn
<1>3. CASE ReuseProbed(c) \/ SignCapture(c)
  <2>1. UNCHANGED <<sessions, callback, lastGeneration>> /\ Settled(x)
    BY <1>3 DEF ReuseProbed, SignCapture, Settled, oidcVars
  <2>2. \E step \in {"done", "launch", "login", "failed", "kulon", "siap", "idle"} :
           Goes(c, Resting(step))
    BY <1>3 DEF ReuseProbed, SignCapture
  <2>3. \/ UNCHANGED tokens
        \/ \E by : Sign(x.sub, x.generation, by, x.cookie)
    BY <1>3 DEF ReuseProbed, SignCapture
  <2>4. \A t \in tokens' : \/ t \in tokens
                           \/ /\ t.generation = x.generation
                              /\ t.sub = x.sub /\ t.cookie = x.cookie
    BY <2>3 DEF Sign
  <2> QED
    BY <2>1, <2>2, <2>4, <1>a, GenerationsGoOn
<1>4. CASE Checked(c) \/ getSessionIdentity(c)
  <2>1. UNCHANGED <<sessions, callback, lastGeneration, tokens>> /\ Fresh(x)
    BY <1>4 DEF Checked, getSessionIdentity, Fresh, oidcVars
  <2>2. \/ Goes(c, [x EXCEPT !.step = "identity"])
        \/ Goes(c, [x EXCEPT !.step = "store", !.cookie = 0])
        \/ \E sub : Goes(c, [x EXCEPT !.step = "store", !.sub = sub])
    BY <1>4 DEF Checked, getSessionIdentity
  <2> HIDE DEF x
  <2>3. ASSUME NEW y, Goes(c, y), y.step \in {"identity", "store"}, y.generation = x.generation
        PROVE  GenerationsInv'
    BY <2>1, <2>3, GenerationsGoOn DEF Fresh, x
  <2>4. CASE Goes(c, [x EXCEPT !.step = "identity"])
    <3> DEFINE y == [x EXCEPT !.step = "identity"]
    <3>1. y.step = "identity" /\ y.generation = x.generation
      BY <1>0 DEF IsDoing
    <3> QED
      BY <2>3, <2>4, <3>1
  <2>5. CASE Goes(c, [x EXCEPT !.step = "store", !.cookie = 0])
    <3> DEFINE y == [x EXCEPT !.step = "store", !.cookie = 0]
    <3>1. y.step = "store" /\ y.generation = x.generation
      BY <1>0 DEF IsDoing
    <3> QED
      BY <2>3, <2>5, <3>1
  <2>6. ASSUME NEW sub, Goes(c, [x EXCEPT !.step = "store", !.sub = sub])
        PROVE  GenerationsInv'
    <3> DEFINE y == [x EXCEPT !.step = "store", !.sub = sub]
    <3>1. y.step = "store" /\ y.generation = x.generation
      BY <1>0 DEF IsDoing
    <3> QED
      BY <2>3, <2>6, <3>1
  <2> QED
    BY <2>2, <2>4, <2>5, <2>6
<1> QED
  BY <1>1, <1>2, <1>3, <1>4

\* A new capture's generation is past every one there was.
LEMMA NewCapture ==
    ASSUME GenerationsInv, OwnersInv, NEW c \in Windows, establishSiapSession(c)
    PROVE  GenerationsInv'
<1> DEFINE g == lastGeneration + 1
           y == Doing("check", jar, Shared, g)
<1>1. /\ Goes(c, y) /\ lastGeneration' = g /\ UNCHANGED <<sessions, callback, tokens>>
  BY DEF establishSiapSession, NewGeneration, oidcVars
<1>2. Fresh(y) /\ ~ Settled(y) /\ y.generation = g
  BY DoingFields DEF Fresh, Settled
<1>3. g \in Nat /\ g \in 1..g /\ g \notin 1..lastGeneration /\ g # 0 /\ 1..lastGeneration \subseteq 1..g
  BY DEF GenerationsInv
<1> HIDE DEF y, g
<1>4. capture'[c] = y /\ \A d \in Windows \ {c} : capture'[d] = capture[d]
  BY <1>1 DEF Goes, OwnersInv
<1>5. \A i \in Identities : sessions[i].generation # g
  BY <1>3, NothingFields DEF GenerationsInv
<1>6. \A d \in Windows \ {c} : Fresh(capture[d]) \/ Settled(capture[d]) => capture[d].generation # g
  BY <1>3 DEF GenerationsInv
<1>7. \A d \in Windows : Fresh(capture'[d]) =>
          /\ \A i \in Identities : sessions'[i].generation # capture'[d].generation
          /\ \A t \in tokens' : t.generation # capture'[d].generation
          /\ \A b \in Callbacks :
                callback'[b].step = "sign" => callback'[b].generation # capture'[d].generation
  BY <1>1, <1>2, <1>3, <1>4, <1>5 DEF GenerationsInv
<1>8. ASSUME NEW d \in Windows, Fresh(capture'[d]), NEW e \in Windows \ {d},
             Fresh(capture'[e]) \/ Settled(capture'[e])
      PROVE  capture'[e].generation # capture'[d].generation
  <2>1. CASE e = c
    BY <2>1, <1>2, <1>4, <1>6, <1>8
  <2>2. CASE d = c
    BY <2>2, <1>2, <1>4, <1>6, <1>8
  <2>3. CASE e # c /\ d # c
    BY <2>3, <1>4, <1>8 DEF GenerationsInv
  <2> QED
    BY <2>1, <2>2, <2>3
<1>9. \A d \in Windows : Fresh(capture'[d]) \/ Settled(capture'[d]) =>
         capture'[d].generation \in 1..lastGeneration'
  BY <1>1, <1>2, <1>3, <1>4 DEF GenerationsInv
<1>10. \A d \in Windows : Settled(capture'[d]) =>
         Fits(capture'[d].generation, capture'[d].sub, capture'[d].cookie, sessions)
  BY <1>2, <1>4 DEF GenerationsInv
<1>11. \A i \in Identities :
             /\ sessions[i] = NothingStored \/ sessions[i].generation \in 1..lastGeneration'
             /\ sessions[i] # NothingStored =>
                   Fits(sessions[i].generation, i, sessions[i].cookie, sessions)
  BY <1>1, <1>3 DEF GenerationsInv
<1>12. /\ \A t \in tokens : /\ t.generation \in 1..lastGeneration'
                           /\ Fits(t.generation, t.sub, t.cookie, sessions)
       /\ \A b \in Callbacks : callback[b].step = "sign" =>
             /\ callback[b].generation \in 1..lastGeneration'
             /\ Fits(callback[b].generation, callback[b].sub, 0, sessions)
  BY <1>1, <1>3 DEF GenerationsInv
<1> QED
  BY <1>1, <1>3, <1>7, <1>8, <1>9, <1>10, <1>11, <1>12 DEF GenerationsInv

\* A session of a generation that no other session has goes in: whoever holds another
\* generation still fits, and whoever holds this one, when it is for this identity.
LEMMA FitsStored ==
    ASSUME sessions = [i \in Identities |-> sessions[i]], NEW sub, NEW session,
           NEW generation, NEW name, NEW cookie, Fits(generation, name, cookie, sessions),
           session.generation = generation => name = sub /\ cookie = session.cookie
    PROVE  Fits(generation, name, cookie, [sessions EXCEPT ![sub] = session])
<1> DEFINE after == [sessions EXCEPT ![sub] = session]
<1>1. \A i \in Identities : after[i] = IF i = sub THEN session ELSE sessions[i]
  OBVIOUS
<1> HIDE DEF after
<1>2. Fits(generation, name, cookie, after)
  BY <1>1 DEF Fits
<1> QED
  BY <1>2 DEF after

LEMMA StoreGenerations ==
    ASSUME GenerationsInv, OwnersInv, NEW c \in Windows, StoreCapture(c)
    PROVE  GenerationsInv'
<1> DEFINE x == capture[c]
           session == Session(x.cookie, x.generation, TRUE)
           y == [x EXCEPT !.step = "sign"]
           after == [sessions EXCEPT ![x.sub] = session]
<1>1. /\ Fresh(x) /\ IsDoing(x) /\ Goes(c, y) /\ sessions' = after
      /\ UNCHANGED <<callback, tokens, lastGeneration>>
  BY DEF StoreCapture, OwnersInv, Fresh, oidcVars
<1>2. session.cookie = x.cookie /\ session.generation = x.generation
  BY DEF Session
<1>3. y.step = "sign" /\ y.cookie = x.cookie /\ y.sub = x.sub /\ y.generation = x.generation
  <2> HIDE DEF x
  <2> QED
    BY <1>1 DEF IsDoing
<1>4. Settled(y) /\ ~ Fresh(y)
  BY <1>3 DEF Settled, Fresh
<1>5. /\ x.generation \in 1..lastGeneration
      /\ \A i \in Identities : sessions[i].generation # x.generation
      /\ \A t \in tokens : t.generation # x.generation
      /\ \A b \in Callbacks : callback[b].step = "sign" => callback[b].generation # x.generation
      /\ \A d \in Windows \ {c} : (Fresh(capture[d]) \/ Settled(capture[d])) =>
            capture[d].generation # x.generation
  BY <1>1 DEF GenerationsInv
<1>6. Fits(x.generation, x.sub, x.cookie, sessions)
  BY <1>5 DEF Fits
<1>7. capture'[c] = y /\ \A d \in Windows \ {c} : capture'[d] = capture[d]
  BY <1>1 DEF Goes, OwnersInv
<1>8. \A i \in Identities : after[i] = IF i = x.sub THEN session ELSE sessions[i]
  BY DEF OwnersInv
<1>9. ASSUME NEW generation, NEW name, NEW cookie, Fits(generation, name, cookie, sessions),
             generation = x.generation => name = x.sub /\ cookie = x.cookie
      PROVE  Fits(generation, name, cookie, after)
  BY <1>2, <1>9, FitsStored DEF OwnersInv
<1> HIDE DEF x, y, session, after
<1>10. \A t \in tokens : /\ t.generation \in 1..lastGeneration
                         /\ Fits(t.generation, t.sub, t.cookie, after)
  BY <1>5, <1>9 DEF GenerationsInv
<1>11. \A b \in Callbacks : callback[b].step = "sign" =>
             /\ callback[b].generation \in 1..lastGeneration
             /\ Fits(callback[b].generation, callback[b].sub, 0, after)
  BY <1>5, <1>9 DEF GenerationsInv
<1>12. Fits(y.generation, y.sub, y.cookie, after)
  BY <1>3, <1>6, <1>9
<1>13. \A d \in Windows : Settled(capture'[d]) =>
         Fits(capture'[d].generation, capture'[d].sub, capture'[d].cookie, after)
  BY <1>5, <1>7, <1>9, <1>12 DEF GenerationsInv
<1>14. \A d \in Windows : Fresh(capture'[d]) \/ Settled(capture'[d]) =>
         capture'[d].generation \in 1..lastGeneration
  BY <1>3, <1>5, <1>7 DEF GenerationsInv
<1>15. ASSUME NEW i \in Identities
       PROVE  /\ after[i] = NothingStored \/ after[i].generation \in 1..lastGeneration
              /\ after[i] # NothingStored => Fits(after[i].generation, i, after[i].cookie, after)
  <2>1. CASE i = x.sub
    BY <2>1, <1>2, <1>3, <1>5, <1>8, <1>12
  <2>2. CASE i # x.sub
    BY <2>2, <1>5, <1>8, <1>9 DEF GenerationsInv
  <2> QED
    BY <2>1, <2>2
<1>16. ASSUME NEW d \in Windows, Fresh(capture'[d])
       PROVE  /\ d # c /\ capture'[d] = capture[d]
              /\ \A i \in Identities : after[i].generation # capture[d].generation
              /\ \A t \in tokens : t.generation # capture[d].generation
              /\ \A b \in Callbacks :
                   callback[b].step = "sign" => callback[b].generation # capture[d].generation
  <2>1. d # c /\ capture'[d] = capture[d] /\ Fresh(capture[d])
    BY <1>4, <1>7, <1>16
  <2> QED
    BY <2>1, <1>2, <1>5, <1>8 DEF GenerationsInv
<1>17. ASSUME NEW d \in Windows, Fresh(capture'[d]), NEW e \in Windows \ {d},
              Fresh(capture'[e]) \/ Settled(capture'[e])
       PROVE  capture'[e].generation # capture'[d].generation
  <2>1. CASE e = c
    BY <2>1, <1>3, <1>5, <1>7, <1>16, <1>17
  <2>2. CASE e # c
    BY <2>2, <1>7, <1>16, <1>17 DEF GenerationsInv
  <2> QED
    BY <2>1, <2>2
<1> QED
  BY <1>1, <1>10, <1>11, <1>13, <1>14, <1>15, <1>16, <1>17 DEF GenerationsInv

LEMMA ResponseGenerations ==
    ASSUME GenerationsInv, OwnersInv, StatesInv, NEW b \in Callbacks, consumeTokenResponse(b)
    PROVE  GenerationsInv'
<1> DEFINE x == callback[b]
           g == lastGeneration + 1
           session == Session(0, g, TRUE)
           y == [x EXCEPT !.step = "sign", !.generation = g]
           after == [sessions EXCEPT ![x.sub] = session]
<1>1. /\ UNCHANGED <<capture, tokens>> /\ IsDoing(x)
      /\ \/ /\ callback' = [callback EXCEPT ![b] = Resting("failed")]
            /\ UNCHANGED <<sessions, lastGeneration>>
         \/ /\ callback' = [callback EXCEPT ![b] = y]
            /\ sessions' = after /\ lastGeneration' = g
  BY DEF consumeTokenResponse, StatesInv, NewGeneration
<1>2. session.cookie = 0 /\ session.generation = g
  BY SessionFields
<1>3. g \in Nat /\ g \in 1..g /\ g \notin 1..lastGeneration /\ g # 0 /\ 1..lastGeneration \subseteq 1..g
  BY DEF GenerationsInv
<1>4. CASE /\ callback' = [callback EXCEPT ![b] = Resting("failed")]
           /\ UNCHANGED <<sessions, lastGeneration>>
  <2>1. \A d \in Callbacks : callback'[d].step = "sign" => callback'[d] = callback[d]
    BY <1>4, RestingFields DEF StatesInv
  <2> QED
    BY <2>1, <1>1, <1>4 DEF GenerationsInv
<1>5. CASE /\ callback' = [callback EXCEPT ![b] = y]
           /\ sessions' = after /\ lastGeneration' = g
  <2>1. callback'[b] = y /\ \A d \in Callbacks \ {b} : callback'[d] = callback[d]
    BY <1>5 DEF StatesInv
  <2>2. \A i \in Identities : after[i] = IF i = x.sub THEN session ELSE sessions[i]
    BY DEF OwnersInv
  <2>3. ASSUME NEW generation, NEW name, NEW cookie, Fits(generation, name, cookie, sessions),
               generation = g => name = x.sub /\ cookie = 0
        PROVE  Fits(generation, name, cookie, after)
    BY <1>2, <2>3, FitsStored DEF OwnersInv
  <2> HIDE DEF x, session, after, g
  <2>4. y.sub = x.sub /\ y.generation = g
    BY <1>1 DEF IsDoing
  <2> HIDE DEF y
  <2>5. \A i \in Identities : sessions[i].generation # g
    BY <1>3, NothingFields DEF GenerationsInv
  <2>6. Fits(g, x.sub, 0, after)
    BY <2>3, <2>5 DEF Fits
  <2>7. \A t \in tokens : t.generation \in 1..g /\ t.generation # g
                          /\ Fits(t.generation, t.sub, t.cookie, after)
    BY <1>3, <2>3 DEF GenerationsInv
  <2>8. \A d \in Callbacks : callback'[d].step = "sign" =>
             /\ callback'[d].generation \in 1..g
             /\ Fits(callback'[d].generation, callback'[d].sub, 0, after)
    BY <1>3, <2>1, <2>3, <2>4, <2>6 DEF GenerationsInv
  <2>9. \A c \in Windows :
           /\ Fresh(capture[c]) \/ Settled(capture[c]) =>
                 capture[c].generation \in 1..g /\ capture[c].generation # g
           /\ Settled(capture[c]) =>
                 Fits(capture[c].generation, capture[c].sub, capture[c].cookie, after)
    BY <1>3, <2>3 DEF GenerationsInv
  <2>10. \A i \in Identities :
            /\ after[i] = NothingStored \/ after[i].generation \in 1..g
            /\ after[i] # NothingStored => Fits(after[i].generation, i, after[i].cookie, after)
    <3> TAKE i \in Identities
    <3>1. CASE i = x.sub
      BY <3>1, <1>2, <1>3, <2>2, <2>6
    <3>2. CASE i # x.sub
      BY <3>2, <1>3, <2>2, <2>3, <2>5 DEF GenerationsInv
    <3> QED
      BY <3>1, <3>2
  <2>11. \A c \in Windows : Fresh(capture[c]) =>
            /\ \A i \in Identities : after[i].generation # capture[c].generation
            /\ \A t \in tokens : t.generation # capture[c].generation
            /\ \A d \in Callbacks :
                  callback'[d].step = "sign" => callback'[d].generation # capture[c].generation
            /\ \A d \in Windows \ {c} : (Fresh(capture[d]) \/ Settled(capture[d])) =>
                  capture[d].generation # capture[c].generation
    BY <1>2, <2>1, <2>2, <2>4, <2>9 DEF GenerationsInv
  <2> QED
    BY <1>1, <1>3, <1>5, <2>7, <2>8, <2>9, <2>10, <2>11 DEF GenerationsInv
<1> QED
  BY <1>1, <1>4, <1>5

LEMMA AgesGenerations ==
    ASSUME GenerationsInv, OwnersInv, NEW i \in Identities, SessionAges(i)
    PROVE  GenerationsInv'
<1> DEFINE aged == [sessions[i] EXCEPT !.fresh = FALSE]
<1>1. /\ UNCHANGED <<capture, callback, tokens, lastGeneration>>
      /\ \/ sessions' = [sessions EXCEPT ![i] = aged]
         \/ sessions' = [sessions EXCEPT ![i] = NothingStored]
      /\ IsSession(sessions[i]) /\ sessions[i] # NothingStored
  BY DEF SessionAges, OwnersInv, oidcVars
<1>2. aged.cookie = sessions[i].cookie /\ aged.generation = sessions[i].generation
  BY <1>1, SessionExcept
<1>3. NothingStored.generation = 0
  BY NothingFields
<1> HIDE DEF aged
<1>4. \A j \in Identities :
         \/ sessions'[j] = NothingStored
         \/ /\ sessions[j] # NothingStored /\ sessions'[j].generation = sessions[j].generation
            /\ sessions'[j].cookie = sessions[j].cookie
  BY <1>1, <1>2 DEF OwnersInv
<1>4a. \A j \in Identities : sessions[j] = NothingStored => sessions'[j] = NothingStored
  BY <1>4
<1>5. ASSUME NEW generation \in 1..lastGeneration, NEW name, NEW cookie,
             Fits(generation, name, cookie, sessions)
      PROVE  Fits(generation, name, cookie, sessions')
  <2>1. generation # 0
    BY DEF GenerationsInv
  <2> QED
    BY <1>3, <1>4, <1>5, <2>1 DEF Fits
<1>6. \A j \in Identities :
          /\ sessions'[j] = NothingStored \/ sessions'[j].generation \in 1..lastGeneration
          /\ sessions'[j] # NothingStored =>
                Fits(sessions'[j].generation, j, sessions'[j].cookie, sessions')
  BY <1>4, <1>5 DEF GenerationsInv
<1>7. /\ \A t \in tokens : Fits(t.generation, t.sub, t.cookie, sessions')
      /\ \A b \in Callbacks : callback[b].step = "sign" =>
            Fits(callback[b].generation, callback[b].sub, 0, sessions')
      /\ \A c \in Windows : Settled(capture[c]) =>
            Fits(capture[c].generation, capture[c].sub, capture[c].cookie, sessions')
  BY <1>5 DEF GenerationsInv
<1>8. \A c \in Windows : Fresh(capture[c]) =>
         \A j \in Identities : sessions'[j].generation # capture[c].generation
  <2> TAKE c \in Windows
  <2> HAVE Fresh(capture[c])
  <2>1. capture[c].generation \in 1..lastGeneration /\ lastGeneration \in Nat
    BY DEF GenerationsInv
  <2>2. capture[c].generation # 0
    BY <2>1
  <2> QED
    BY <1>3, <1>4, <2>2 DEF GenerationsInv
<1> QED
  BY <1>1, <1>6, <1>7, <1>8 DEF GenerationsInv

LEMMA SignGenerations ==
    ASSUME GenerationsInv, StatesInv, NEW b \in Callbacks, SignCallback(b)
    PROVE  GenerationsInv'
<1> DEFINE x == callback[b]
<1>1. /\ UNCHANGED <<capture, sessions, lastGeneration>> /\ x.step = "sign"
      /\ Sign(x.sub, x.generation, "oidc", 0)
      /\ callback' = [callback EXCEPT ![b] = Resting("done")]
  BY DEF SignCallback
<1>2. \A d \in Callbacks : callback'[d].step = "sign" => callback'[d] = callback[d]
  BY <1>1, RestingFields DEF StatesInv
<1>3. \A t \in tokens' : \/ t \in tokens
                         \/ t.generation = x.generation /\ t.sub = x.sub /\ t.cookie = 0
  BY <1>1 DEF Sign
<1>4. \A t \in tokens' : /\ t.generation \in 1..lastGeneration
                         /\ Fits(t.generation, t.sub, t.cookie, sessions)
  BY <1>1, <1>3 DEF GenerationsInv
<1>5. \A c \in Windows : Fresh(capture[c]) =>
         \A t \in tokens' : t.generation # capture[c].generation
  BY <1>1, <1>3 DEF GenerationsInv
<1> QED
  BY <1>1, <1>2, <1>4, <1>5 DEF GenerationsInv

LEMMA GenerationsNextInv ==
    ASSUME GenerationsInv, OwnersInv, StatesInv, [LegacyNext]_legacyVars
    PROVE  GenerationsInv'
<1>1. ASSUME UNCHANGED <<capture, callback, sessions, tokens, lastGeneration>>
      PROVE  GenerationsInv'
  BY <1>1 DEF GenerationsInv
<1>2. ASSUME NEW b \in Callbacks, NEW s \in States, handleCallback(b, s)
      PROVE  GenerationsInv'
  <2>1. /\ UNCHANGED <<capture, sessions, tokens, lastGeneration>>
        /\ \/ callback' = [callback EXCEPT ![b] = Resting("failed")]
           \/ callback' = [callback EXCEPT ![b] = Doing("exchange", 0, s, 0)]
    BY <1>2 DEF handleCallback
  <2>2. \A d \in Callbacks : callback'[d].step = "sign" => callback'[d] = callback[d]
    BY <2>1, RestingFields, DoingFields DEF StatesInv
  <2> QED
    BY <2>1, <2>2 DEF GenerationsInv
<1>3. ASSUME NEW s \in States, issueState(s) \/ StateExpires(s)
      PROVE  GenerationsInv'
  BY <1>1, <1>3 DEF issueState, StateExpires
<1>4. ASSUME \/ \E p \in People : LogInAtWindow(p)
             \/ \E cookie \in 1..MaxCookies : CookieDies(cookie)
      PROVE  GenerationsInv'
  BY <1>1, <1>4 DEF LogInAtWindow, CookieDies, oidcVars
<1>5. CASE LegacyNext
  BY <1>2, <1>3, <1>4, <1>5, CaptureGenerations, NewCapture, StoreGenerations,
     ResponseGenerations, SignGenerations, AgesGenerations DEF LegacyNext
<1> QED
  BY <1>1, <1>5 DEF legacyVars, oidcVars

LEMMA LegacyInitInv == LegacyInit => OwnersInv /\ StatesInv /\ GenerationsInv
<1> SUFFICES ASSUME LegacyInit PROVE OwnersInv /\ StatesInv /\ GenerationsInv
  OBVIOUS
<1>1. /\ capture = [c \in Windows |-> Resting("idle")]
      /\ callback = [b \in Callbacks |-> Resting("idle")]
      /\ sessions = [i \in Identities |-> NothingStored]
      /\ pendingStates = [s \in States |-> "unused"] /\ tokens = {} /\ lastGeneration = 0
      /\ ownerOf = <<>> /\ living = {}
  BY DEF LegacyInit
<1>2. IsDoing(Resting("idle")) /\ Resting("idle").step = "idle"
  BY RestingFields
<1>3. IsSession(NothingStored)
  BY NothingFields
<1>4. DOMAIN ownerOf = 1..0 /\ 0 \in Nat
  BY <1>1
<1>5. CookiesNumbered
  BY <1>1, <1>4 DEF CookiesNumbered
<1>6. OwnersInv
  BY <1>1, <1>2, <1>3, <1>5 DEF OwnersInv, Knows
<1>7. StatesInv
  BY <1>1, <1>2 DEF StatesInv, InFlight, SignInsStayApart
<1>8. GenerationsInv
  BY <1>1, <1>2 DEF GenerationsInv, Fresh, Settled
<1> QED
  BY <1>6, <1>7, <1>8

\* A development sign-in gives a token that names the owner of the session it is for
\* and fits no other session, a person's session holds that person's cookie, and two
\* sign-ins with Microsoft never share an identity (legacy-auth.service.ts
\* captureSsoSession, microsoft-auth.service.ts handleCallback), for any number of
\* people, windows, states and callbacks.
THEOREM SignInsAreKept == MCSpec => []SignInsAreOwn
<1> DEFINE Inv == OwnersInv /\ StatesInv /\ GenerationsInv
<1>1. MCInit => Inv
  BY LegacyInitInv DEF MCInit
<1>2. Inv /\ [MCNext]_mcVars => Inv'
  <2>1. [MCNext]_mcVars => [LegacyNext]_legacyVars
    BY DEF MCNext, mcVars
  <2> QED
    BY <2>1, OwnersNextInv, StatesNextInv, GenerationsNextInv, PeopleAssumption
<1>3. Inv => SignInsAreOwn
  <2> SUFFICES ASSUME Inv PROVE SignInsAreOwn
    OBVIOUS
  <2>1. StoredUnderItsOwner
    <3> SUFFICES ASSUME NEW p \in People, sessions[p].cookie # 0
                 PROVE  ownerOf[sessions[p].cookie] = p
      BY DEF StoredUnderItsOwner
    <3>1. sessions[p] # NothingStored
      BY NothingFields
    <3> QED
      BY <3>1 DEF OwnersInv, Named, Identities
  <2>2. TokensNameTheOwner
    BY DEF TokensNameTheOwner, OwnersInv, Named, CookiesNumbered
  <2>3. TokensFitTheirSession
    BY DEF TokensFitTheirSession, GenerationsInv, Fits
  <2> QED
    BY <2>1, <2>2, <2>3 DEF SignInsAreOwn, StatesInv
<1> QED
  BY <1>1, <1>2, <1>3, PTL DEF MCSpec

=============================================================================
