---------------------------- MODULE MCDataCache ----------------------------
(* The data cache over Redis or in memory, remembering what has been         *)
(* answered, purged and refused.                                            *)
EXTENDS MemoryDataCache, TLC

VARIABLES backend,   \* the adapter of this process
          latest,    \* the newest payload a read has returned
          purged,    \* the last flight that forgot a dead session
          failedAt,  \* when a background refresh failed, if none worked since
          before     \* before[r]: latest and purged when the read of r started

historyVars == <<latest, purged, failedAt, before>>

MCVars == <<backend, cacheVars, historyVars>>

Never == -Backoff

Blank == [latest |-> 0, purged |-> 0]

MCInit ==
    /\ CacheInit
    /\ backend \in {"redis", "memory"}
    /\ backend = "memory" => entry = NoEntry
    /\ latest = 0 /\ purged = 0 /\ failedAt = Never
    /\ before = [r \in Readers |-> Blank]

Returned(r) ==
    /\ Return(r)
    /\ latest' = IF reader[r].payload > latest THEN reader[r].payload ELSE latest
    /\ before' = [before EXCEPT ![r] = Blank]
    /\ UNCHANGED <<purged, failedAt>>

RedisReads(r) ==
    \/ Returned(r)
    \/ /\ ReadStart(r)
       /\ before' = [before EXCEPT ![r] = [latest |-> latest, purged |-> purged]]
       /\ UNCHANGED <<latest, purged, failedAt>>
    \/ /\ \/ ReadGet(r) \/ ReadFails(r) \/ ReadFresh(r) \/ ReadStale(r) \/ ReadMiss(r)
          \/ ReadMalformed(r) \/ ReadPurged(r)
       /\ UNCHANGED historyVars

MemoryReads(r) ==
    \/ Returned(r)
    \/ /\ MemoryFresh(r) \/ MemoryStale(r) \/ MemoryMiss(r)
       /\ before' = [before EXCEPT ![r] = [latest |-> latest, purged |-> purged]]
       /\ UNCHANGED <<latest, purged, failedAt>>

RedisFlies(n) ==
    \/ /\ DelDone(n)
       /\ purged' = n
       /\ UNCHANGED <<latest, failedAt, before>>
    \/ /\ SetDone(n)
       /\ failedAt' = Never
       /\ UNCHANGED <<latest, purged, before>>
    \/ /\ FetchFailed(n) \/ SetFailed(n) \/ DelFailed(n)
       /\ failedAt' = IF flight[n].background THEN now ELSE failedAt
       /\ UNCHANGED <<latest, purged, before>>
    \/ /\ FetchOk(n) \/ FetchDead(n) \/ Remove(n)
       /\ UNCHANGED historyVars

MemoryFlies(n) ==
    \/ /\ MemoryDead(n)
       /\ purged' = n
       /\ UNCHANGED <<latest, failedAt, before>>
    \/ /\ MemorySet(n)
       /\ failedAt' = Never
       /\ UNCHANGED <<latest, purged, before>>
    \/ /\ MemoryFailed(n)
       /\ failedAt' = IF flight[n].background THEN now ELSE failedAt
       /\ UNCHANGED <<latest, purged, before>>
    \/ /\ MemoryFetched(n) \/ MemoryDeleted(n) \/ Remove(n)
       /\ UNCHANGED historyVars

Reads(r) ==
    \/ backend = "redis" /\ RedisReads(r) /\ UNCHANGED backend
    \/ backend = "memory" /\ MemoryReads(r) /\ UNCHANGED backend

Flies(n) ==
    \/ backend = "redis" /\ RedisFlies(n) /\ UNCHANGED backend
    \/ backend = "memory" /\ MemoryFlies(n) /\ UNCHANGED backend

MCNext ==
    \/ \E r \in Readers : Reads(r)
    \/ \E n \in Flights : Flies(n)
    \/ Tick /\ UNCHANGED <<backend, historyVars>>
    \/ /\ \/ backend = "redis" /\ Restart
          \/ backend = "memory" /\ MemoryRestart
       /\ UNCHANGED backend
       /\ failedAt' = Never /\ before' = [r \in Readers |-> Blank]
       /\ UNCHANGED <<latest, purged>>

MCSpec == MCInit /\ [][MCNext]_MCVars

\* Upstream fetches time out, and Redis answers or the connection fails.
MCFairSpec == MCSpec /\ \A n \in Flights : WF_MCVars(Flies(n))

(* A reader that has seen a payload never sees an older one, nor does a     *)
(* reader that starts after it: a slow refresh does not overwrite a newer.  *)
ReadsNeverGoBack ==
    \A r \in Readers :
        (reader[r].at = "answered" /\ reader[r].payload # 0)
        => reader[r].payload >= before[r].latest

(* Once a background refresh has found the session dead and dropped the     *)
(* payload, no read that starts later is served it or an older one, stale   *)
(* or not: it has to fetch, and meets the dead session.                     *)
DeadSessionIsForgotten ==
    \A r \in Readers :
        (reader[r].at = "answered" /\ reader[r].payload # 0)
        => reader[r].payload > before[r].purged

(* A failing upstream is not asked again in the background before           *)
(* REFRESH_BACKOFF_MS have passed, however many readers meet stale data,    *)
(* unless a refresh has worked since.                                       *)
BackoffIsKept ==
    [][\A n \in Flights :
         (flight[n].at = "unused" /\ flight'[n].at = "fetching" /\ flight'[n].background)
         => now >= failedAt + Backoff]_MCVars

=============================================================================
