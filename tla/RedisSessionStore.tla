------------------------- MODULE RedisSessionStore -------------------------
(***************************************************************************)
(* redis-session.store.ts: the record of one identity in Redis, and the    *)
(* clients (requests, cron cycles) that read, slide, renew and clear it.   *)
(*                                                                         *)
(* Every call but set() is a round trip to Redis (GET), a local decision   *)
(* (decrypt, evaluateRecord at Date.now()) and a second round trip (a Lua  *)
(* script that compares the exact envelope read, or a plain EXPIRE), and   *)
(* other clients run between them: each of the three is a step here.       *)
(***************************************************************************)
EXTENDS SessionRecord

CONSTANTS Clients,
          NoSession,    \* null
          NoEnvelope,   \* no key in Redis
          Captures,     \* the cookies a login may hand over
          MaxTime,      \* bound on the clock
          MaxWrites     \* bound on the writes callers at large start

ASSUME BoundsAssumption == MaxTime \in Nat /\ MaxWrites \in Nat

ASSUME NullsAssumption ==
    /\ NoSession \notin Sessions
    /\ NoEnvelope \notin [iv : Nat, readable : BOOLEAN, session : Sessions]

ASSUME CapturesAssumption ==
    Captures \subseteq [ssoCookie : Cookies \cup {NoCookie}, kulonCookie : Cookies,
                        siapCookie : Cookies \cup {NoCookie}, other : Others]

VARIABLES redis,      \* the envelope under the key, or NoEnvelope
          expiresAt,  \* when Redis drops the key
          now,        \* Date.now(), and the clock Redis expires keys by
          issued,     \* generations drawn so far
          stored,     \* generations that have been written to Redis
          nextIv,     \* the next initialisation vector
          client      \* client[c]: where client c is in its call

storeVars == <<redis, expiresAt, now, issued, stored, nextIv, client>>

\* An envelope is the session encrypted under a fresh IV, so that two
\* encryptions of one session differ; `readable` is false once the key it was
\* encrypted with is gone.
Envelopes == [iv : Nat, readable : BOOLEAN, session : Sessions]

Envelope(iv, session) == [iv |-> iv, readable |-> TRUE, session |-> session]

\* decrypt
Decrypt(envelope) == IF envelope.readable THEN envelope.session ELSE NoSession

LoginSession(generation, capture) ==
    [sessionGeneration |-> generation, capturedAt |-> now,
     ssoCookie |-> capture.ssoCookie, kulonCookie |-> capture.kulonCookie,
     siapCookie |-> capture.siapCookie, other |-> capture.other]

-----------------------------------------------------------------------------
(* Calls.  A call is the operation, the generation it is qualified by, the   *)
(* snapshot it expects, the session it writes and the IV it encrypts with.   *)

Operations == {"set", "get", "getIfGeneration", "clearIfGeneration",
               "replaceIfUnchanged", "all"}

Calls == [op : Operations, generation : Generations \cup {NoGeneration},
          expected : Sessions \cup {NoSession},
          replacement : Sessions \cup {NoSession}, iv : Nat]

Results == {"void", "read", "true", "false", "updated", "conflict", "dead", "throw"}

\* pc: "idle"; "get", the GET is under way; "decide", the envelope is back;
\* the command sent last ("set", "slide", "expire", "delete", "replace");
\* "done", with what the call returns in `result`, and in `read` when that is
\* a session or null.
Commands == {"set", "slide", "expire", "delete", "replace"}

ClientStates ==
    [pc : {"idle", "get", "decide", "done"} \cup Commands, call : Calls,
     envelope : Envelopes \cup {NoEnvelope},
     result : Results, read : Sessions \cup {NoSession}]

NoCall == [op |-> "get", generation |-> NoGeneration, expected |-> NoSession,
           replacement |-> NoSession, iv |-> 0]

Idle == [pc |-> "idle", call |-> NoCall, envelope |-> NoEnvelope,
         result |-> "void", read |-> NoSession]

StoreInit ==
    /\ now = 0
    /\ \/ redis = NoEnvelope
       \/ \E capture \in Captures :
            redis = Envelope(0, LoginSession(NoGeneration, capture))
    /\ expiresAt = IF redis = NoEnvelope THEN 0 ELSE TtlMs
    /\ issued = {}
    /\ stored = IF redis = NoEnvelope THEN {} ELSE {NoGeneration}
    /\ nextIv = 1
    /\ client = [c \in Clients |-> Idle]

\* Client c enters the call `call`, from nowhere or from what its last call
\* returned.
Enter(c, call, pc) ==
    /\ client[c].pc \in {"idle", "done"}
    /\ client' = [client EXCEPT ![c] = [Idle EXCEPT !.pc = pc, !.call = call]]
    /\ UNCHANGED <<redis, expiresAt, now, stored>>

\* set(), as handleSessionHandoff calls it: under a generation just drawn.
CallSet(c, generation, capture) ==
    /\ generation \in Generations \ issued
    /\ Enter(c, [NoCall EXCEPT !.op = "set",
                               !.replacement = LoginSession(generation, capture),
                               !.iv = nextIv], "set")
    /\ issued' = issued \cup {generation}
    /\ nextIv' = nextIv + 1

CallRead(c, op) ==
    /\ op \in {"get", "all"}
    /\ Enter(c, [NoCall EXCEPT !.op = op], "get")
    /\ UNCHANGED <<issued, nextIv>>

\* getIfGeneration and clearIfGeneration, with the generation of a token or
\* of a record, so one that has been stored.
CallQualified(c, op, generation) ==
    /\ op \in {"getIfGeneration", "clearIfGeneration"}
    /\ generation \in stored
    /\ Enter(c, [NoCall EXCEPT !.op = op, !.generation = generation], "get")
    /\ UNCHANGED <<issued, nextIv>>

\* replaceIfUnchanged, qualified by the generation of the snapshot it expects.
CallReplace(c, expected, replacement) ==
    /\ Enter(c, [NoCall EXCEPT !.op = "replaceIfUnchanged",
                               !.generation = expected.sessionGeneration,
                               !.expected = expected,
                               !.replacement = replacement, !.iv = nextIv], "get")
    /\ nextIv' = nextIv + 1
    /\ UNCHANGED issued

-----------------------------------------------------------------------------
(* The GET, the decision and the last command of client c.                   *)

Finish(c, result) ==
    client' = [client EXCEPT ![c].pc = "done", ![c].result = result,
                             ![c].envelope = NoEnvelope]

FinishRead(c, session) ==
    client' = [client EXCEPT ![c].pc = "done", ![c].result = "read",
                             ![c].read = session, ![c].envelope = NoEnvelope]

Send(c, command) == client' = [client EXCEPT ![c].pc = command]

\* What each operation answers when there is no live record to act on.
FinishNull(c) ==
    CASE client[c].call.op = "clearIfGeneration"  -> Finish(c, "true")
      [] client[c].call.op = "replaceIfUnchanged" -> Finish(c, "dead")
      [] OTHER                                    -> FinishRead(c, NoSession)

Get(c) ==
    /\ client[c].pc = "get"
    /\ IF redis = NoEnvelope
       THEN FinishNull(c)
       ELSE client' = [client EXCEPT ![c].pc = "decide", ![c].envelope = redis]
    /\ UNCHANGED <<redis, expiresAt, now, issued, stored, nextIv>>

\* all() decrypts what SCAN and MGET return and takes no other decision.
DecideAll(c) ==
    /\ client[c].call.op = "all"
    /\ FinishRead(c, Decrypt(client[c].envelope))

DecideUnreadable(c) ==
    /\ client[c].call.op # "all"
    /\ Decrypt(client[c].envelope) = NoSession
    /\ IF client[c].call.op = "get"
       THEN FinishNull(c)
       ELSE Send(c, "delete")

\* The commands a live record leads to.
DecideLive(c, session) ==
    LET call == client[c].call IN
    CASE call.op = "get"               -> Send(c, "slide")
      [] call.op = "getIfGeneration"   -> Send(c, "expire")
      [] call.op = "clearIfGeneration" -> Send(c, "delete")
      [] call.op = "replaceIfUnchanged" ->
            IF ~ SameCapturedSession(session, call.expected)
            THEN Finish(c, "conflict")
            ELSE IF ~ IsUpstreamCookieRenewal(call.generation, call.expected,
                                              call.replacement)
            THEN Finish(c, "throw")
            ELSE Send(c, "replace")

\* Neither slid nor deleted.
FinishMismatch(c) ==
    CASE client[c].call.op = "clearIfGeneration"  -> Finish(c, "false")
      [] client[c].call.op = "replaceIfUnchanged" -> Finish(c, "conflict")
      [] OTHER                                    -> FinishRead(c, NoSession)

DecideReadable(c) ==
    LET session  == Decrypt(client[c].envelope)
        decision == EvaluateRecord(session, now, client[c].call.generation) IN
    /\ client[c].call.op # "all"
    /\ session # NoSession
    /\ CASE decision = "absolute-dead"       -> Send(c, "delete")
         [] decision = "generation-mismatch" -> FinishMismatch(c)
         [] decision = "live"                -> DecideLive(c, session)

Decide(c) ==
    /\ client[c].pc = "decide"
    /\ DecideAll(c) \/ DecideUnreadable(c) \/ DecideReadable(c)
    /\ UNCHANGED <<redis, expiresAt, now, issued, stored, nextIv>>

\* The Lua scripts' comparison with the exact envelope read.
Unchanged(c) == redis = client[c].envelope

\* set: SET key envelope EX ttl
Set(c) ==
    /\ client[c].pc = "set"
    /\ redis' = Envelope(client[c].call.iv, client[c].call.replacement)
    /\ expiresAt' = now + TtlMs
    /\ stored' = stored \cup {client[c].call.replacement.sessionGeneration}
    /\ Finish(c, "void")
    /\ UNCHANGED <<now, issued, nextIv>>

\* get: a plain EXPIRE, of whatever is under the key by now
Slide(c) ==
    /\ client[c].pc = "slide"
    /\ expiresAt' = IF redis = NoEnvelope THEN expiresAt ELSE now + TtlMs
    /\ FinishRead(c, Decrypt(client[c].envelope))
    /\ UNCHANGED <<redis, now, issued, stored, nextIv>>

\* A mutation: the slide of a qualified read is a plain EXPIRE.
PlainExpire(c) ==
    /\ client[c].pc = "expire"
    /\ expiresAt' = IF redis = NoEnvelope THEN expiresAt ELSE now + TtlMs
    /\ FinishRead(c, Decrypt(client[c].envelope))
    /\ UNCHANGED <<redis, now, issued, stored, nextIv>>

\* CAS_EXPIRE_LUA
CasExpire(c) ==
    /\ client[c].pc = "expire"
    /\ expiresAt' = IF Unchanged(c) THEN now + TtlMs ELSE expiresAt
    /\ FinishRead(c, IF Unchanged(c) THEN Decrypt(client[c].envelope) ELSE NoSession)
    /\ UNCHANGED <<redis, now, issued, stored, nextIv>>

\* A mutation: clearIfGeneration ignores a lost comparison.
CasDeleteAlwaysTrue(c) ==
    /\ client[c].pc = "delete"
    /\ IF Unchanged(c)
       THEN redis' = NoEnvelope /\ expiresAt' = 0
       ELSE UNCHANGED <<redis, expiresAt>>
    /\ FinishNull(c)
    /\ UNCHANGED <<now, issued, stored, nextIv>>

\* A mutation: the reply of a script that has deleted is not recognised.
CasDeleteMisread(c) ==
    /\ client[c].pc = "delete"
    /\ IF Unchanged(c)
       THEN redis' = NoEnvelope /\ expiresAt' = 0
       ELSE UNCHANGED <<redis, expiresAt>>
    /\ IF client[c].call.op = "clearIfGeneration"
       THEN Finish(c, "false")
       ELSE FinishNull(c)
    /\ UNCHANGED <<now, issued, stored, nextIv>>

\* CAS_DELETE_LUA.  Only clearIfGeneration looks at what the script returned.
CasDelete(c) ==
    /\ client[c].pc = "delete"
    /\ IF Unchanged(c)
       THEN redis' = NoEnvelope /\ expiresAt' = 0 /\ FinishNull(c)
       ELSE /\ UNCHANGED <<redis, expiresAt>>
            /\ IF client[c].call.op = "clearIfGeneration"
               THEN Finish(c, "false")
               ELSE FinishNull(c)
    /\ UNCHANGED <<now, issued, stored, nextIv>>

\* A mutation: the renewal is written with a plain SET.
PlainReplace(c) ==
    /\ client[c].pc = "replace"
    /\ redis' = Envelope(client[c].call.iv, client[c].call.replacement)
    /\ expiresAt' = now + TtlMs
    /\ Finish(c, "updated")
    /\ UNCHANGED <<now, issued, stored, nextIv>>

\* CAS_REPLACE_LUA
CasReplace(c) ==
    /\ client[c].pc = "replace"
    /\ redis' = IF Unchanged(c)
                THEN Envelope(client[c].call.iv, client[c].call.replacement)
                ELSE redis
    /\ expiresAt' = IF Unchanged(c) THEN now + TtlMs ELSE expiresAt
    /\ Finish(c, IF Unchanged(c) THEN "updated" ELSE "conflict")
    /\ UNCHANGED <<now, issued, stored, nextIv>>

\* The call returns to its caller.
Return(c) ==
    /\ client[c].pc = "done"
    /\ client' = [client EXCEPT ![c] = Idle]
    /\ UNCHANGED <<redis, expiresAt, now, issued, stored, nextIv>>

-----------------------------------------------------------------------------
(* What happens around the clients.                                          *)

\* Time passes, and Redis drops a key whose lifetime is over.
Tick ==
    /\ now < MaxTime
    /\ now' = now + 1
    /\ IF redis # NoEnvelope /\ now' >= expiresAt
       THEN redis' = NoEnvelope /\ expiresAt' = 0
       ELSE UNCHANGED <<redis, expiresAt>>
    /\ UNCHANGED <<issued, stored, nextIv, client>>

\* The backend restarts: the calls in flight are lost.
Restart ==
    /\ client' = [c \in Clients |-> Idle]
    /\ UNCHANGED <<redis, expiresAt, now, issued, stored, nextIv>>

\* The backend restarts with another SESSION_ENC_KEY: what is in Redis cannot
\* be decrypted any more.
RotateKey ==
    /\ client' = [c \in Clients |-> Idle]
    /\ redis # NoEnvelope
    /\ redis' = [redis EXCEPT !.readable = FALSE]
    /\ UNCHANGED <<expiresAt, now, issued, stored, nextIv>>

\* Redis executes a command, or a client decides.
StoreStep(c) ==
    \/ Get(c) \/ Decide(c)
    \/ Set(c) \/ Slide(c) \/ CasExpire(c) \/ CasDelete(c) \/ CasReplace(c)

\* Any caller: a login, a request with a token, a background read, a renewal
\* of one cookie of the snapshot a read has just returned.
Call(c) ==
    \/ \E generation \in Generations, capture \in Captures :
          nextIv <= MaxWrites /\ CallSet(c, generation, capture)
    \/ \E op \in {"get", "all"} : CallRead(c, op)
    \/ \E op \in {"getIfGeneration", "clearIfGeneration"}, generation \in stored :
          CallQualified(c, op, generation)
    \/ \E field \in CookieFields, cookie \in Cookies \cup {NoCookie} :
          /\ client[c].read # NoSession /\ nextIv <= MaxWrites
          /\ CallReplace(c, client[c].read, [client[c].read EXCEPT ![field] = cookie])

StoreNext ==
    \/ \E c \in Clients : Call(c) \/ StoreStep(c) \/ Return(c)
    \/ Tick \/ Restart \/ RotateKey

StoreSpec == StoreInit /\ [][StoreNext]_storeVars

-----------------------------------------------------------------------------
(* Properties                                                                *)

StoreTypeOK ==
    /\ redis \in Envelopes \cup {NoEnvelope}
    /\ expiresAt \in Nat
    /\ now \in Nat
    /\ issued \subseteq Generations
    /\ stored \subseteq Generations \cup {NoGeneration}
    /\ nextIv \in Nat \ {0}
    /\ client \in [Clients -> ClientStates]

\* The live session of the identity: what a decryptable key holds.
Record == IF redis = NoEnvelope THEN NoSession ELSE Decrypt(redis)

RecordGeneration == IF Record = NoSession THEN {} ELSE {Record.sessionGeneration}

\* However the round trips of concurrent calls interleave, the record goes
\* through the life SessionLife describes: in particular a renewal that read
\* before a logout or a login never brings the old session back.
Life == INSTANCE SessionLife
           WITH session <- Record, ended <- stored \ RecordGeneration

LifeRefined == Life!LifeSpec

\* A call qualified by a generation (the guard, a refresh, a logout, a renewal)
\* neither deletes, rewrites nor slides a live record of another generation: an
\* A-token whose session was replaced by B has no effect on B at all, whenever
\* B's login lands.
QualifiedCallsSpareOthers ==
    [][\A c \in Clients :
         LET call == client[c].call IN
         /\ client[c].pc \in {"expire", "delete", "replace"}
         /\ client'[c].pc = "done"
         /\ call.generation # NoGeneration
         /\ Record # NoSession
         /\ Record.sessionGeneration # call.generation
         /\ ~ AbsoluteDead(Record, now)
         => UNCHANGED <<redis, expiresAt>>]_storeVars

\* No lost update: a renewal only ever overwrites the snapshot its caller read
\* before it validated the new cookie.
NoLostRenewal ==
    [][\A c \in Clients :
         (client[c].pc = "replace" /\ redis' # redis /\ client'[c].result = "updated")
         => Record = client[c].call.expected]_storeVars

\* logout() answers ok only for a session that is gone, and gone for good: while
\* the answer is on its way no other call revives it.
LogoutIsFinal ==
    \A c \in Clients :
        (/\ client[c].pc = "done"
         /\ client[c].call.op = "clearIfGeneration"
         /\ client[c].call.generation # NoGeneration
         /\ client[c].result = "true")
        => client[c].call.generation \notin RecordGeneration

=============================================================================
