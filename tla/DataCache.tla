----------------------------- MODULE DataCache -----------------------------
(***************************************************************************)
(* getStale of redis-data.cache.ts over createKeyedSingleFlight of         *)
(* single-flight.ts: the stale-while-revalidate read of one cache key, as  *)
(* the requests of one backend process call it.                            *)
(*                                                                         *)
(* A read is a round trip to Redis and a decision taken when its reply is  *)
(* back.  A refresh is a flight: the upstream fetch, then one Redis write, *)
(* then the wake-up of whoever waits for it, and last the removal of its   *)
(* slot, with other reads between any two of these.  A payload is the      *)
(* number of the flight that fetched it.                                   *)
(***************************************************************************)
EXTENDS Integers, FiniteSets

CONSTANTS Readers,
          FreshTtl, StaleTtl,  \* SwrOptions
          Backoff,             \* REFRESH_BACKOFF_MS
          MaxTime,             \* bound on the clock
          MaxFlights           \* bound on the flights

ASSUME CacheAssumption ==
    /\ FreshTtl \in Nat \ {0} /\ StaleTtl \in Nat /\ Backoff \in Nat
    /\ MaxTime \in Nat /\ MaxFlights \in Nat

VARIABLES now,
          entry,    \* the envelope under the key, or NoEntry
          hold,     \* refreshHold: no background refresh before
          flight,   \* flight[n]: the n-th refresh
          slot,     \* flights.get(key), 0 when there is none
          reader    \* reader[r]: the getStale() call of r

cacheVars == <<now, entry, hold, flight, slot, reader>>

Cutoff == FreshTtl + StaleTtl

Flights == 1..MaxFlights

\* An envelope, with the time Redis drops it; one that parseEnvelope() does not
\* accept is malformed.
Entries == [payload : 0..MaxFlights, fa : Nat, until : Nat, malformed : BOOLEAN]

NoEntry == [payload |-> 0, fa |-> 0, until |-> 0, malformed |-> FALSE]

Cached == IF now < entry.until THEN entry ELSE NoEntry

Unstarted == [at |-> "unused", background |-> FALSE, fa |-> 0]

Ended(place) == [Unstarted EXCEPT !.at = place]

FlightStates ==
    [at : {"unused", "fetching", "setting", "deleting", "settled", "removed"},
     background : BOOLEAN, fa : Nat]

\* at "joined" a reader awaits the flight `on`; at "answered" `payload` is what
\* it returns, 0 for an exception.
ReaderStates ==
    [at : {"idle", "getting", "got", "purging", "joined", "answered"},
     seen : Entries, on : 0..MaxFlights, payload : 0..MaxFlights, stale : BOOLEAN]

Idle == [at |-> "idle", seen |-> NoEntry, on |-> 0, payload |-> 0, stale |-> FALSE]

Flying(n) == flight[n].at \in {"fetching", "setting", "deleting"}

CacheInit ==
    /\ now = 0
    /\ entry \in {NoEntry, [NoEntry EXCEPT !.until = Cutoff, !.malformed = TRUE]}
    /\ hold = 0
    /\ flight = [n \in Flights |-> Unstarted]
    /\ slot = 0
    /\ reader = [r \in Readers |-> Idle]

-----------------------------------------------------------------------------
(* createKeyedSingleFlight                                                   *)

Unused == {n \in Flights : flight[n].at = "unused"}

NextFlight == CHOOSE n \in Unused : \A m \in Unused : n <= m

\* runOwned: the active flight, or a new one.
Active == IF slot # 0 /\ flight[slot].at # "settled" THEN slot ELSE 0

CanRun == Active # 0 \/ Unused # {}

FlightOf == IF Active # 0 THEN Active ELSE NextFlight

RunOwned(background) ==
    IF Active # 0
    THEN UNCHANGED <<flight, slot>>
    ELSE /\ flight' = [flight EXCEPT ![NextFlight].at = "fetching",
                                         ![NextFlight].background = background]
         /\ slot' = NextFlight

\* A mutation: only one of those who wait is woken.
SettleOne(n, payload) ==
    /\ flight' = [flight EXCEPT ![n] = Ended("settled")]
    /\ LET waiting == {r \in Readers : reader[r].at = "joined" /\ reader[r].on = n} IN
       IF waiting = {}
       THEN UNCHANGED reader
       ELSE reader' = [reader EXCEPT ![CHOOSE r \in waiting : TRUE] =
                          [Idle EXCEPT !.at = "answered", !.payload = payload]]

\* resolve and reject: everyone who shares the promise has its outcome.
Settle(n, payload) ==
    /\ flight' = [flight EXCEPT ![n] = Ended("settled")]
    /\ reader' = [r \in Readers |->
                     IF reader[r].at = "joined" /\ reader[r].on = n
                     THEN [Idle EXCEPT !.at = "answered", !.payload = payload]
                     ELSE reader[r]]

\* A mutation: the slot is removed whoever holds it.
RemoveAny(n) ==
    /\ flight[n].at = "settled"
    /\ flight' = [flight EXCEPT ![n] = Ended("removed")]
    /\ slot' = 0
    /\ UNCHANGED <<now, entry, hold, reader>>

\* The finally() of a flight runs after others may have started the next one.
Remove(n) ==
    /\ flight[n].at = "settled"
    /\ flight' = [flight EXCEPT ![n] = Ended("removed")]
    /\ slot' = IF slot = n THEN 0 ELSE slot
    /\ UNCHANGED <<now, entry, hold, reader>>

-----------------------------------------------------------------------------
(* getStale                                                                  *)

ReadStart(r) ==
    /\ reader[r].at = "idle"
    /\ reader' = [reader EXCEPT ![r].at = "getting"]
    /\ UNCHANGED <<now, entry, hold, flight, slot>>

ReadGet(r) ==
    /\ reader[r].at = "getting"
    /\ reader' = [reader EXCEPT ![r].at = "got", ![r].seen = Cached]
    /\ UNCHANGED <<now, entry, hold, flight, slot>>

\* A GET, or the DEL of a malformed envelope, that Redis refuses.
ReadFails(r) ==
    /\ reader[r].at \in {"getting", "purging"}
    /\ reader' = [reader EXCEPT ![r] = [Idle EXCEPT !.at = "answered"]]
    /\ UNCHANGED <<now, entry, hold, flight, slot>>

Age(r) == now - reader[r].seen.fa

Hit(r) == reader[r].seen # NoEntry /\ ~ reader[r].seen.malformed

AnswerSeen(r, stale) ==
    reader' = [reader EXCEPT ![r] = [Idle EXCEPT !.at = "answered", !.stale = stale,
                                                 !.payload = reader[r].seen.payload]]

Join(r) ==
    /\ CanRun
    /\ RunOwned(FALSE)
    /\ reader' = [reader EXCEPT ![r] = [Idle EXCEPT !.at = "joined", !.on = FlightOf]]

ReadFresh(r) ==
    /\ reader[r].at = "got" /\ Hit(r) /\ Age(r) < FreshTtl
    /\ AnswerSeen(r, FALSE)
    /\ UNCHANGED <<now, entry, hold, flight, slot>>

\* A mutation: failed refreshes do not hold back the next one.
ReadStaleEager(r) ==
    /\ reader[r].at = "got" /\ Hit(r) /\ FreshTtl <= Age(r) /\ Age(r) < Cutoff
    /\ AnswerSeen(r, TRUE)
    /\ CanRun /\ RunOwned(TRUE)
    /\ UNCHANGED <<now, entry, hold>>

ReadStale(r) ==
    /\ reader[r].at = "got" /\ Hit(r) /\ FreshTtl <= Age(r) /\ Age(r) < Cutoff
    /\ AnswerSeen(r, TRUE)
    /\ IF now >= hold
       THEN CanRun /\ RunOwned(TRUE)
       ELSE UNCHANGED <<flight, slot>>
    /\ UNCHANGED <<now, entry, hold>>

\* A miss, or an envelope beyond the stale window.
ReadMiss(r) ==
    /\ reader[r].at = "got" /\ ~ reader[r].seen.malformed
    /\ Hit(r) => Age(r) >= Cutoff
    /\ Join(r)
    /\ UNCHANGED <<now, entry, hold>>

ReadMalformed(r) ==
    /\ reader[r].at = "got" /\ reader[r].seen.malformed
    /\ reader' = [reader EXCEPT ![r].at = "purging"]
    /\ UNCHANGED <<now, entry, hold, flight, slot>>

\* deleteMalformed, of whatever is there by now
ReadPurged(r) ==
    /\ reader[r].at = "purging"
    /\ entry' = NoEntry
    /\ Join(r)
    /\ UNCHANGED <<now, hold>>

Return(r) ==
    /\ reader[r].at = "answered"
    /\ reader' = [reader EXCEPT ![r] = Idle]
    /\ UNCHANGED <<now, entry, hold, flight, slot>>

-----------------------------------------------------------------------------
(* executeRefresh                                                            *)

BackoffRefresh == IF hold > now + Backoff THEN hold ELSE now + Backoff

\* An error that does not mean a dead session: what is stale is kept, and the
\* next background refresh held back, if this one was.
Failed(n) ==
    /\ hold' = IF flight[n].background THEN BackoffRefresh ELSE hold
    /\ Settle(n, 0)

FetchOk(n) ==
    /\ flight[n].at = "fetching"
    /\ flight' = [flight EXCEPT ![n].at = "setting", ![n].fa = now]
    /\ UNCHANGED <<now, entry, hold, slot, reader>>

FetchFailed(n) ==
    /\ flight[n].at = "fetching"
    /\ Failed(n)
    /\ UNCHANGED <<now, entry, slot>>

\* A dead session is forgotten by a background refresh only.
FetchDead(n) ==
    /\ flight[n].at = "fetching"
    /\ IF flight[n].background
       THEN flight' = [flight EXCEPT ![n].at = "deleting"] /\ UNCHANGED reader
       ELSE Settle(n, 0)
    /\ UNCHANGED <<now, entry, hold, slot>>

Stored(n) == [payload |-> n, fa |-> flight[n].fa, until |-> now + Cutoff,
              malformed |-> FALSE]

SetDone(n) ==
    /\ flight[n].at = "setting"
    /\ entry' = Stored(n)
    /\ hold' = 0
    /\ Settle(n, n)
    /\ UNCHANGED <<now, slot>>

\* A SET that is refused, or whose reply is lost.
SetFailed(n) ==
    /\ flight[n].at = "setting"
    /\ entry' \in {entry, Stored(n)}
    /\ Failed(n)
    /\ UNCHANGED <<now, slot>>

\* A mutation: the outcome is reported, the payload stays.
DelForgotten(n) ==
    /\ flight[n].at = "deleting"
    /\ Settle(n, 0)
    /\ UNCHANGED <<now, entry, hold, slot>>

DelDone(n) ==
    /\ flight[n].at = "deleting"
    /\ entry' = NoEntry
    /\ Settle(n, 0)
    /\ UNCHANGED <<now, hold, slot>>

DelFailed(n) ==
    /\ flight[n].at = "deleting"
    /\ entry' \in {entry, NoEntry}
    /\ Failed(n)
    /\ UNCHANGED <<now, slot>>

-----------------------------------------------------------------------------

Tick ==
    /\ now < MaxTime
    /\ now' = now + 1
    /\ UNCHANGED <<entry, hold, flight, slot, reader>>

\* The process restarts: all is lost but what Redis holds.
Restart ==
    /\ flight' = [n \in Flights |->
                     IF flight[n].at = "unused" THEN Unstarted ELSE Ended("removed")]
    /\ slot' = 0
    /\ hold' = 0
    /\ reader' = [r \in Readers |-> Idle]
    /\ UNCHANGED <<now, entry>>

ReaderStep(r) ==
    \/ ReadStart(r) \/ ReadGet(r) \/ ReadFails(r) \/ ReadFresh(r) \/ ReadStale(r)
    \/ ReadMiss(r) \/ ReadMalformed(r) \/ ReadPurged(r) \/ Return(r)

FlightStep(n) ==
    \/ FetchOk(n) \/ FetchFailed(n) \/ FetchDead(n) \/ SetDone(n) \/ SetFailed(n)
    \/ DelDone(n) \/ DelFailed(n) \/ Remove(n)

CacheNext ==
    \/ \E r \in Readers : ReaderStep(r)
    \/ \E n \in Flights : FlightStep(n)
    \/ Tick \/ Restart

CacheSpec == CacheInit /\ [][CacheNext]_cacheVars

-----------------------------------------------------------------------------
(* Properties                                                                *)

CacheTypeOK ==
    /\ now \in Nat
    /\ entry \in Entries
    /\ hold \in Nat
    /\ flight \in [Flights -> FlightStates]
    /\ slot \in 0..MaxFlights
    /\ slot # 0 => Flying(slot) \/ flight[slot].at = "settled"
    /\ reader \in [Readers -> ReaderStates]

\* However reads, the settling of a flight and the removal of its slot
\* interleave, upstream is asked by one refresh of the key at a time.
OneFlightAtATime == \A n, m \in Flights : Flying(n) /\ Flying(m) => n = m

\* Whoever waits for a refresh is told how it ended, also when it was started
\* by another request or in the background.
WaitersAreWoken ==
    \A r \in Readers : reader[r].at = "joined" ~> reader[r].at # "joined"

=============================================================================
