-------------------------- MODULE MemoryDataCache --------------------------
(***************************************************************************)
(* getStale of in-memory-data.cache.ts, the cache of a process without     *)
(* Redis, over the same keyed single flight.  The map is read and written  *)
(* at once, so that a read is one step and no storage error exists; what   *)
(* is left of the interleavings is that of the flights, whose payload is   *)
(* in the map before those who wait for it are woken.                      *)
(***************************************************************************)
EXTENDS DataCache

\* Age and Hit of DataCache, of what the map holds now.
AgeNow == now - entry.fa
HitNow == entry # NoEntry /\ ~entry.malformed

MemoryAnswer(r, stale) ==
    reader' = [reader EXCEPT ![r] = [Idle EXCEPT !.at = "answered", !.stale = stale,
                                                 !.payload = entry.payload]]

MemoryFresh(r) ==
    /\ reader[r].at = "idle" /\ HitNow /\ AgeNow < FreshTtl
    /\ MemoryAnswer(r, FALSE)
    /\ UNCHANGED <<now, entry, hold, flight, slot>>

MemoryStale(r) ==
    /\ reader[r].at = "idle" /\ HitNow /\ FreshTtl <= AgeNow /\ AgeNow < Cutoff
    /\ MemoryAnswer(r, TRUE)
    /\ IF now >= hold
       THEN CanRun /\ RunOwned(TRUE)
       ELSE UNCHANGED <<flight, slot>>
    /\ UNCHANGED <<now, entry, hold>>

\* A miss, an expired entry, which is left where it is, or one that does not
\* parse, which is deleted.
MemoryMiss(r) ==
    /\ reader[r].at = "idle"
    /\ HitNow => AgeNow >= Cutoff
    /\ entry' = IF entry.malformed THEN NoEntry ELSE entry
    /\ Join(r)
    /\ UNCHANGED <<now, hold>>

\* The upstream answers: the payload is in the map at once.
MemoryFetched(n) ==
    /\ flight[n].at = "fetching"
    /\ entry' = [payload |-> n, fa |-> now, until |-> now + Cutoff, malformed |-> FALSE]
    /\ flight' = [flight EXCEPT ![n].at = "setting"]
    /\ UNCHANGED <<now, hold, slot, reader>>

MemorySet(n) ==
    /\ flight[n].at = "setting"
    /\ hold' = 0
    /\ Settle(n, n)
    /\ UNCHANGED <<now, entry, slot>>

\* A background refresh that meets a dead session deletes the entry.
MemoryDead(n) ==
    /\ flight[n].at = "fetching" /\ flight[n].background
    /\ entry' = NoEntry
    /\ flight' = [flight EXCEPT ![n].at = "deleting"]
    /\ UNCHANGED <<now, hold, slot, reader>>

MemoryDeleted(n) ==
    /\ flight[n].at = "deleting"
    /\ Settle(n, 0)
    /\ UNCHANGED <<now, entry, hold, slot>>

\* Any other failure, of a refresh somebody waits for also a dead session.
MemoryFailed(n) ==
    /\ flight[n].at = "fetching"
    /\ Failed(n)
    /\ UNCHANGED <<now, entry, slot>>

\* The process ends, and its map with it.
MemoryRestart ==
    /\ entry' = NoEntry
    /\ flight' = [n \in Flights |->
                     IF flight[n].at = "unused" THEN Unstarted ELSE Ended("removed")]
    /\ slot' = 0 /\ hold' = 0
    /\ reader' = [r \in Readers |-> Idle]
    /\ UNCHANGED now

=============================================================================
