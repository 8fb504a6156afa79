------------------------ MODULE InMemorySessionStore ------------------------
(***************************************************************************)
(* in-memory-session.store.ts: the Map adapter, one identity.  Every       *)
(* operation checks and acts without an await in between, so each is one   *)
(* step; the sliding lifetime is checked when the record is looked at.     *)
(***************************************************************************)
EXTENDS SessionRecord

CONSTANTS Clients,
          NoSession,   \* null
          NoRecord,    \* no entry in the Map
          Captures,    \* the cookies a login may hand over
          MaxTime      \* bound on the clock

ASSUME MapBoundsAssumption == MaxTime \in Nat

ASSUME MapNullsAssumption ==
    NoSession \notin Sessions /\ NoRecord \notin [session : Sessions, expiresAt : Nat]

ASSUME MapCapturesAssumption ==
    Captures \subseteq [ssoCookie : Cookies \cup {NoCookie}, kulonCookie : Cookies,
                       siapCookie : Cookies \cup {NoCookie}, other : Others]

VARIABLES record,   \* [session, expiresAt], or NoRecord
          now,
          stored,   \* generations that have been stored
          seen      \* seen[c]: the session client c last read, its `expected`

mapVars == <<record, now, stored, seen>>

LoginSession(generation, capture) ==
    [sessionGeneration |-> generation, capturedAt |-> now,
     ssoCookie |-> capture.ssoCookie, kulonCookie |-> capture.kulonCookie,
     siapCookie |-> capture.siapCookie, other |-> capture.other]

MapInit ==
    /\ record = NoRecord
    /\ now = 0
    /\ stored = {}
    /\ seen = [c \in Clients |-> NoSession]

Present == record # NoRecord

Expired == Present /\ now > record.expiresAt

\* evaluateRecord, expiry included.
Decision(generation) ==
    IF ~ Present THEN "absent"
    ELSE IF Expired THEN "expired"
    ELSE EvaluateRecord(record.session, now, generation)

Slid(session) == [session |-> session, expiresAt |-> now + TtlMs]

DeleteIfDead(decision) ==
    record' = IF decision \in {"expired", "absolute-dead"} THEN NoRecord ELSE record

Set(generation, capture) ==
    /\ generation \in Generations \ stored
    /\ record' = Slid(LoginSession(generation, capture))
    /\ stored' = stored \cup {generation}
    /\ UNCHANGED <<now, seen>>

\* get (unqualified: NoGeneration) and getIfGeneration
Read(c, generation) ==
    /\ IF Decision(generation) = "live"
       THEN /\ record' = Slid(record.session)
            /\ seen' = [seen EXCEPT ![c] = record.session]
       ELSE /\ DeleteIfDead(Decision(generation))
            /\ seen' = [seen EXCEPT ![c] = NoSession]
    /\ UNCHANGED <<now, stored>>

ClearIfGeneration(generation) ==
    /\ record' = IF Decision(generation) \in {"expired", "absolute-dead", "live"}
                 THEN NoRecord
                 ELSE record
    /\ UNCHANGED <<now, stored, seen>>

\* A mutation: the snapshot is not compared with what the caller expected.
ReplaceUnchecked(c, replacement) ==
    LET expected == seen[c]
        decision == Decision(expected.sessionGeneration) IN
    /\ expected # NoSession
    /\ IF decision = "live"
       THEN record' = Slid(replacement)
       ELSE DeleteIfDead(decision)
    /\ UNCHANGED <<now, stored, seen>>

\* replaceIfUnchanged, of the snapshot the caller read.  A replacement that is
\* not the renewal of one cookie throws.
ReplaceIfUnchanged(c, replacement) ==
    LET expected == seen[c]
        decision == Decision(expected.sessionGeneration) IN
    /\ expected # NoSession
    /\ IF /\ decision = "live"
          /\ SameCapturedSession(record.session, expected)
          /\ IsUpstreamCookieRenewal(expected.sessionGeneration, expected, replacement)
       THEN record' = Slid(replacement)
       ELSE DeleteIfDead(decision)
    /\ UNCHANGED <<now, stored, seen>>

\* all(), for this identity: no absolute cap and no slide.
All(c) ==
    /\ record' = IF Expired THEN NoRecord ELSE record
    /\ seen' = [seen EXCEPT ![c] = IF Present /\ ~ Expired THEN record.session ELSE NoSession]
    /\ UNCHANGED <<now, stored>>

Tick ==
    /\ now < MaxTime
    /\ now' = now + 1
    /\ UNCHANGED <<record, stored, seen>>

\* The process restarts: the Map is lost, and so are its callers.
Restart ==
    /\ record' = NoRecord
    /\ seen' = [c \in Clients |-> NoSession]
    /\ UNCHANGED <<now, stored>>

Replacements(session) ==
    {[session EXCEPT ![field] = cookie] :
        field \in CookieFields, cookie \in Cookies \cup {NoCookie}}

MapNext ==
    \/ \E generation \in Generations, capture \in Captures : Set(generation, capture)
    \/ \E c \in Clients, generation \in stored \cup {NoGeneration} : Read(c, generation)
    \/ \E generation \in stored : ClearIfGeneration(generation)
    \/ \E c \in Clients :
          seen[c] # NoSession
          /\ \E r \in Replacements(seen[c]) : ReplaceIfUnchanged(c, r)
    \/ \E c \in Clients : All(c)
    \/ Tick \/ Restart

MapSpec == MapInit /\ [][MapNext]_mapVars

-----------------------------------------------------------------------------
(* Properties                                                                *)

MapTypeOK ==
    /\ record \in [session : Sessions, expiresAt : Nat] \cup {NoRecord}
    /\ now \in Nat
    /\ stored \subseteq Generations
    /\ seen \in [Clients -> Sessions \cup {NoSession}]

\* The session a caller would find: an expired entry is no session, even while
\* it is still in the Map.
MapRecord == IF Present /\ ~ Expired THEN record.session ELSE NoSession

MapGeneration == IF MapRecord = NoSession THEN {} ELSE {MapRecord.sessionGeneration}

\* The Map adapter keeps the promise the Redis adapter keeps: callers that hold
\* snapshots of a session that has been replaced, cleared or has expired since
\* never bring it back and never change two cookies at once.
MapLife == INSTANCE SessionLife
              WITH session <- MapRecord, ended <- stored \ MapGeneration

MapLifeRefined == MapLife!LifeSpec

=============================================================================
