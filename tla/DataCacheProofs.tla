-------------------------- MODULE DataCacheProofs --------------------------
(***************************************************************************)
(* What stale-while-revalidate may answer, for any number of readers and   *)
(* refreshes, over Redis and in memory.                                    *)
(*                                                                         *)
(* Payloads are numbered by their flights, and flights begin in the order  *)
(* of their numbers, one at a time: the flight under way is the newest.    *)
(* So what it stores is no older than anything ever answered, and newer    *)
(* than the flight that last found the session dead; what is in the cache, *)
(* and what a reader has seen of it since it started, is so as well.       *)
(***************************************************************************)
EXTENDS MCDataCache, TLAPS

\* The flights begin in order: k of them have.
Begun(fl, k) == \A n \in Flights : fl[n].at = "unused" <=> n > k

InFlight == {"fetching", "setting", "deleting"}

Types ==
    /\ now \in Nat
    /\ entry \in Entries
    /\ hold \in Int
    /\ flight \in [Flights -> FlightStates]
    /\ slot \in 0..MaxFlights
    /\ reader \in [Readers -> ReaderStates]
    /\ latest \in Nat /\ purged \in Nat /\ failedAt \in Int
    /\ before \in [Readers -> [latest : Nat, purged : Nat]]

\* A single flight, and it is the one of the slot.
SlotOK(fl, s) ==
    /\ \E k \in 0..MaxFlights : Begun(fl, k)
    /\ \A n \in Flights : fl[n].at \in InFlight => s = n
    /\ s # 0 => fl[s].at \in InFlight \cup {"settled"}

\* Payload p is no newer than a flight under way, and older than any to come.
Bounded(p, fl) ==
    \A n \in Flights : /\ fl[n].at = "unused" => p < n
                       /\ fl[n].at \in InFlight => p <= n

\* The last flight that found the session dead is older than one that may yet
\* bring a payload.
Purged(p, fl) ==
    /\ Bounded(p, fl)
    /\ \A n \in Flights : fl[n].at \in {"fetching", "setting"} => p < n

\* Nothing older than p can be read any more.
Past(p, e, fl) == Bounded(p, fl) /\ (e.payload # 0 => p <= e.payload)

\* A payload for a reader that knows of b.
Serves(p, b) == p # 0 => p >= b.latest /\ p > b.purged

ReaderOK(x, b, e, fl) ==
    /\ x.at = "joined" => x.on \in Flights /\ fl[x.on].at \in InFlight
    /\ x.at = "got" => Past(x.seen.payload, e, fl) /\ Serves(x.seen.payload, b)
    /\ x.at = "answered" => Past(x.payload, e, fl) /\ Serves(x.payload, b)

CacheOK(e, fl, l, p) ==
    /\ Past(e.payload, e, fl)
    /\ Past(l, e, fl)
    /\ Purged(p, fl)
    /\ e.payload # 0 => p < e.payload

\* What is stored is in the map at once.
MapOK == backend = "memory" =>
            \A n \in Flights : flight[n].at = "setting" => entry.payload \in {0, n}

Remembers(b) == b.latest <= latest /\ b.purged <= purged

CacheInv ==
    /\ Types
    /\ SlotOK(flight, slot)
    /\ CacheOK(entry, flight, latest, purged)
    /\ MapOK
    /\ \A r \in Readers : /\ Remembers(before[r])
                          /\ ReaderOK(reader[r], before[r], entry, flight)
    /\ hold >= failedAt + Backoff

-----------------------------------------------------------------------------
(* Flights                                                                   *)

LEMMA FlightsAreNaturals ==
    /\ Flights \subseteq Nat /\ 0 \notin Flights
    /\ \A k \in 0..MaxFlights : k # MaxFlights => k + 1 \in Flights
BY CacheAssumption DEF Flights

\* runOwned leaves the one flight under way, which is the newest, in the slot,
\* and a flight begins in the background only if it is to.
LEMMA RunOwnedKeeps ==
    ASSUME flight \in [Flights -> FlightStates], slot \in 0..MaxFlights,
           SlotOK(flight, slot), CanRun, NEW background \in BOOLEAN,
           RunOwned(background)
    PROVE  /\ flight' \in [Flights -> FlightStates] /\ slot' \in 0..MaxFlights
           /\ SlotOK(flight', slot')
           /\ FlightOf \in Flights /\ flight'[FlightOf].at \in InFlight
           /\ \A n \in Flights :
                 \/ flight'[n] = flight[n]
                 \/ /\ flight[n].at = "unused" /\ flight'[n].at = "fetching"
                    /\ flight'[n].background = background
<1>0. Flights = 1..MaxFlights /\ MaxFlights \in Nat
  BY CacheAssumption DEF Flights
<1>1. CASE Active # 0
  <2>1. slot \in Flights /\ FlightOf = slot /\ UNCHANGED <<flight, slot>>
    BY <1>0, <1>1 DEF Active, FlightOf, RunOwned
  <2>2. flight[slot].at \in InFlight
    BY <1>0, <1>1, <2>1 DEF Active, SlotOK
  <2> QED BY <2>1, <2>2 DEF SlotOK, Begun
<1>2. CASE Active = 0
  <2>1. PICK k \in 0..MaxFlights : Begun(flight, k)
    BY DEF SlotOK
  <2>2. k # MaxFlights
    BY <1>0, <1>2, <2>1 DEF CanRun, Unused, Begun
  <2>3. k + 1 \in Flights /\ Unused = {n \in Flights : n > k}
    BY <1>0, <2>1, <2>2 DEF Unused, Begun
  <2>4. NextFlight = k + 1
    <3>1. k + 1 \in Unused /\ \A m \in Unused : k + 1 <= m
      BY <1>0, <2>3
    <3>2. \A n \in Unused : (\A m \in Unused : n <= m) => n = k + 1
      BY <1>0, <2>3, <3>1
    <3> QED BY <3>1, <3>2 DEF NextFlight
  <2>5. /\ FlightOf = k + 1 /\ slot' = k + 1
        /\ flight' = [flight EXCEPT ![k + 1].at = "fetching",
                                    ![k + 1].background = background]
    BY <1>2, <2>4 DEF FlightOf, RunOwned
  <2>6. flight[k + 1] \in FlightStates /\ flight[k + 1].at = "unused"
    BY <1>0, <2>1, <2>3 DEF Begun
  <2>7. /\ flight'[k + 1] = [flight[k + 1] EXCEPT !.at = "fetching",
                                                  !.background = background]
        /\ \A n \in Flights : n # k + 1 => flight'[n] = flight[n]
        /\ DOMAIN flight' = Flights
        /\ flight' = [n \in Flights |-> flight'[n]]
    BY <2>3, <2>5
  <2>8. /\ flight'[k + 1] \in FlightStates /\ flight'[k + 1].at = "fetching"
        /\ flight'[k + 1].background = background
    BY <2>6, <2>7 DEF FlightStates
  <2>9. flight' \in [Flights -> FlightStates]
    BY <2>7, <2>8
  <2>10. Begun(flight', k + 1) /\ k + 1 \in 0..MaxFlights
    <3>1. k \in Nat /\ k + 1 \in 0..MaxFlights
      BY <1>0, <2>3
    <3>2. ASSUME NEW n \in Flights
          PROVE  flight'[n].at = "unused" <=> n > k + 1
      <4>1. CASE n = k + 1
        BY <2>8, <3>1, <4>1
      <4>2. CASE n # k + 1
        <5>1. flight'[n].at = "unused" <=> n > k
          BY <2>1, <2>7, <4>2 DEF Begun
        <5>2. n > k <=> n > k + 1
          BY <1>0, <3>1, <4>2
        <5> QED BY <5>1, <5>2
      <4> QED BY <4>1, <4>2
    <3> QED BY <3>1, <3>2 DEF Begun
  <2>11. \A n \in Flights : flight[n].at \notin InFlight
    BY <1>0, <1>2 DEF SlotOK, Active, InFlight
  <2>12. SlotOK(flight', slot')
    BY <2>3, <2>5, <2>7, <2>8, <2>10, <2>11 DEF SlotOK, InFlight
  <2> QED BY <2>3, <2>5, <2>6, <2>7, <2>8, <2>9, <2>10, <2>12 DEF InFlight
<1> QED BY <1>1, <1>2

\* A flight goes on or ends; no other changes.
Goes(n, old, new, next) ==
    /\ new = [old EXCEPT ![n] = next]
    /\ next \in FlightStates /\ next.at # "unused"
    /\ next.at \in InFlight => old[n].at \in InFlight
    /\ next.at = "fetching" => old[n].at = "fetching"
    /\ next.at = "setting" => old[n].at = "fetching"

LEMMA FlightGoes ==
    ASSUME NEW fl \in [Flights -> FlightStates], NEW new, NEW n \in Flights,
           NEW next, Goes(n, fl, new, next), fl[n].at # "unused"
    PROVE  /\ new \in [Flights -> FlightStates]
           /\ new[n] = next
           /\ \A m \in Flights : m # n => new[m] = fl[m]
           /\ \A k : Begun(fl, k) => Begun(new, k)
           /\ \A p : Bounded(p, fl) => Bounded(p, new)
           /\ \A p : Purged(p, fl) => Purged(p, new)
           /\ \A p, e : Past(p, e, fl) => Past(p, e, new)
<1>1. /\ new \in [Flights -> FlightStates] /\ new[n] = next
      /\ \A m \in Flights : m # n => new[m] = fl[m]
  BY DEF Goes
<1>2. \A m \in Flights :
         /\ new[m].at = "unused" <=> fl[m].at = "unused"
         /\ new[m].at \in InFlight => fl[m].at \in InFlight
         /\ new[m].at \in {"fetching", "setting"} =>
               fl[m].at \in {"fetching", "setting"}
  BY <1>1 DEF Goes
<1>3. \A p : Bounded(p, fl) => Bounded(p, new)
  BY <1>2 DEF Bounded
<1> QED BY <1>1, <1>2, <1>3 DEF Begun, Purged, Past

\* The flight under way is the newest that has begun.
LEMMA NewestFlies ==
    ASSUME NEW fl, NEW s, SlotOK(fl, s), NEW n \in Flights, fl[n].at \in InFlight
    PROVE  Bounded(n, fl)
<1>1. PICK k \in 0..MaxFlights : Begun(fl, k)
  BY DEF SlotOK
<1>2. n <= k
  BY <1>1, CacheAssumption DEF Begun, InFlight, Flights
<1>3. \A m \in Flights : fl[m].at = "unused" => n < m
  BY <1>1, <1>2, CacheAssumption DEF Begun, Flights
<1>4. \A m \in Flights : fl[m].at \in InFlight => m = n
  BY DEF SlotOK
<1> QED BY <1>3, <1>4, CacheAssumption DEF Bounded, Flights

\* What a new flight leaves as it is: it is newer than all there is.
LEMMA NewFlightKeeps ==
    ASSUME NEW fl, NEW new,
           \A n \in Flights : \/ new[n] = fl[n]
                              \/ fl[n].at = "unused" /\ new[n].at = "fetching"
    PROVE  /\ \A p \in Int : Bounded(p, fl) => Bounded(p, new)
           /\ \A p \in Int : Purged(p, fl) => Purged(p, new)
           /\ \A p \in Int : \A e : Past(p, e, fl) => Past(p, e, new)
<1>1. \A p \in Int : Bounded(p, fl) => Bounded(p, new)
  BY CacheAssumption DEF Bounded, InFlight, Flights
<1>2. \A p \in Int : Purged(p, fl) => Purged(p, new)
  BY <1>1 DEF Purged, Bounded
<1> QED BY <1>1, <1>2 DEF Past

-----------------------------------------------------------------------------
(* The invariant, kind of step by kind of step                               *)

LEMMA NothingIsPast ==
    ASSUME NEW e, NEW fl \in [Flights -> FlightStates]
    PROVE  Past(0, e, fl) <=> (e.payload # 0 => 0 <= e.payload)
BY CacheAssumption DEF Past, Bounded, Flights

\* One reader moves; a flight may begin and the entry may go.
LEMMA OneReader ==
    ASSUME CacheInv, NEW r \in Readers,
           NEW x \in ReaderStates, NEW b \in [latest : Nat, purged : Nat],
           reader' = [reader EXCEPT ![r] = x],
           before' = [before EXCEPT ![r] = b],
           Remembers(b),
           entry' \in {entry, NoEntry},
           flight' \in [Flights -> FlightStates], slot' \in 0..MaxFlights,
           SlotOK(flight', slot'),
           \A n \in Flights :
              \/ flight'[n] = flight[n]
              \/ flight[n].at = "unused" /\ flight'[n].at = "fetching",
           ReaderOK(x, b, entry', flight'),
           UNCHANGED <<now, hold, latest, purged, failedAt, backend>>
    PROVE  CacheInv'
<1>0. NoEntry \in Entries /\ NoEntry.payload = 0
  BY CacheAssumption DEF NoEntry, Entries
<1>1. Types'
  BY <1>0 DEF CacheInv, Types
<1>2. /\ \A p \in Int : Purged(p, flight) => Purged(p, flight')
      /\ \A p \in Int : \A e : Past(p, e, flight) => Past(p, e, flight')
  BY NewFlightKeeps
<1>3. \A p \in Int : Past(p, entry, flight) => Past(p, entry', flight')
  BY <1>0, <1>2 DEF Past
<1>4. entry.payload \in Nat /\ latest \in Nat /\ purged \in Nat
  BY DEF CacheInv, Types, Entries
<1>5. Past(entry'.payload, entry', flight')
  <2>1. CASE entry' = entry
    BY <1>3, <1>4, <2>1 DEF CacheInv, CacheOK
  <2>2. CASE entry' = NoEntry
    BY <1>0, <2>2, NothingIsPast
  <2> QED BY <2>1, <2>2
<1>6. CacheOK(entry', flight', latest', purged')
  BY <1>0, <1>2, <1>3, <1>4, <1>5 DEF CacheInv, CacheOK
<1>7. MapOK'
  BY <1>0 DEF CacheInv, MapOK
<1>8. ASSUME NEW q \in Readers
      PROVE  Remembers(before[q])' /\ ReaderOK(reader'[q], before'[q], entry', flight')
  <2>1. CASE q = r
    BY <2>1 DEF CacheInv, Types, Remembers
  <2>2. CASE q # r
    <3>1. /\ reader'[q] = reader[q] /\ before'[q] = before[q]
          /\ reader[q].seen.payload \in Int /\ reader[q].payload \in Int
      BY <2>2, CacheAssumption DEF CacheInv, Types, ReaderStates, Entries
    <3>2. ReaderOK(reader[q], before[q], entry, flight) /\ Remembers(before[q])
      BY DEF CacheInv
    <3>3. \A n \in Flights : flight[n].at \in InFlight => flight'[n].at \in InFlight
      BY DEF InFlight
    <3>4. Remembers(before[q])'
      BY <3>1, <3>2 DEF Remembers
    <3>5. reader[q].at = "got" =>
             Past(reader[q].seen.payload, entry', flight')
      BY <1>3, <3>1, <3>2 DEF ReaderOK
    <3>6. reader[q].at = "answered" => Past(reader[q].payload, entry', flight')
      BY <1>3, <3>1, <3>2 DEF ReaderOK
    <3> QED BY <3>1, <3>2, <3>3, <3>4, <3>5, <3>6 DEF ReaderOK
  <2> QED BY <2>1, <2>2
<1> QED BY <1>1, <1>6, <1>7, <1>8 DEF CacheInv, Remembers

\* A flight goes on, and may find the session dead, or put a payload into the map.
LEMMA OneFlight ==
    ASSUME CacheInv, NEW n \in Flights, flight[n].at = "fetching",
           NEW next \in FlightStates, next.at \in {"setting", "deleting"},
           flight' = [flight EXCEPT ![n] = next],
           entry' \in Entries,
           \/ /\ entry' = entry /\ purged' = purged
              /\ next.at = "setting" => backend = "redis"
           \/ /\ entry'.payload = n /\ purged' = purged /\ next.at = "setting"
           \/ /\ entry' = NoEntry /\ purged' = n /\ next.at = "deleting",
           UNCHANGED <<now, hold, slot, reader, latest, failedAt, before, backend>>
    PROVE  CacheInv'
<1>0. NoEntry.payload = 0 /\ n \in Nat /\ n # 0
  BY CacheAssumption DEF NoEntry, Flights
<1>1. /\ flight \in [Flights -> FlightStates] /\ SlotOK(flight, slot)
      /\ flight[n].at \in InFlight
      /\ entry.payload \in Nat /\ latest \in Nat /\ purged \in Nat
      /\ CacheOK(entry, flight, latest, purged)
  BY DEF CacheInv, Types, InFlight, Entries
<1>2. Goes(n, flight, flight', next)
  BY <1>1 DEF Goes, InFlight
<1>3. /\ flight' \in [Flights -> FlightStates]
      /\ flight'[n] = next
      /\ \A m \in Flights : m # n => flight'[m] = flight[m]
      /\ \A k : Begun(flight, k) => Begun(flight', k)
      /\ \A p : Bounded(p, flight) => Bounded(p, flight')
      /\ \A p : Purged(p, flight) => Purged(p, flight')
      /\ \A p, e : Past(p, e, flight) => Past(p, e, flight')
  BY <1>1, <1>2, FlightGoes
<1>4. Types'
  BY <1>0, <1>1, <1>3 DEF CacheInv, Types
<1>5. SlotOK(flight', slot')
  <2>1. \E k \in 0..MaxFlights : Begun(flight', k)
    BY <1>1, <1>3 DEF SlotOK
  <2> QED BY <1>1, <1>3, <2>1 DEF SlotOK, InFlight
<1>6. Bounded(n, flight) /\ purged < n
      /\ \A p : Bounded(p, flight) => p <= n
  BY <1>1, NewestFlies DEF CacheOK, Purged, Bounded
<1>7. \A p : Past(p, entry, flight) => Past(p, entry', flight')
  BY <1>0, <1>3, <1>6 DEF Past
<1>8. Past(entry'.payload, entry', flight')
  <2>1. CASE entry' = entry
    BY <1>1, <1>7, <2>1 DEF CacheOK
  <2>2. CASE entry'.payload = n
    BY <1>0, <1>3, <1>6, <2>2 DEF Past
  <2>3. CASE entry' = NoEntry
    BY <1>0, <1>3, <2>3, NothingIsPast
  <2> QED BY <2>1, <2>2, <2>3
<1>9. Purged(purged', flight')
  <2>1. CASE purged' = purged
    BY <1>1, <1>3, <2>1 DEF CacheOK
  <2>2. CASE purged' = n /\ next.at = "deleting"
    <3>1. \A m \in Flights : flight'[m].at \notin {"fetching", "setting"}
      BY <1>1, <1>3, <2>2 DEF SlotOK, InFlight
    <3> QED BY <1>3, <1>6, <2>2, <3>1 DEF Purged
  <2> QED BY <2>1, <2>2
<1>10. CacheOK(entry', flight', latest', purged')
  BY <1>0, <1>1, <1>6, <1>7, <1>8, <1>9 DEF CacheOK
<1>11. MapOK'
  <2> SUFFICES ASSUME backend = "memory", NEW m \in Flights,
                      flight'[m].at = "setting"
               PROVE  entry'.payload \in {0, m}
    BY DEF MapOK
  <2>1. CASE m = n
    BY <1>0, <1>3, <2>1
  <2>2. CASE m # n
    BY <1>1, <1>3, <2>2 DEF SlotOK, InFlight
  <2> QED BY <2>1, <2>2
<1>12. \A r \in Readers : Remembers(before[r])'
  BY <1>0, <1>6 DEF CacheInv, Remembers, Types
<1>13. \A r \in Readers : ReaderOK(reader'[r], before'[r], entry', flight')
  <2>1. \A m \in Flights : flight[m].at \in InFlight => flight'[m].at \in InFlight
    BY <1>3 DEF InFlight
  <2> QED BY <1>7, <2>1 DEF CacheInv, ReaderOK
<1> QED BY <1>4, <1>5, <1>10, <1>11, <1>12, <1>13 DEF CacheInv

\* A reader that has its answer.
Answering(payload) == [Idle EXCEPT !.at = "answered", !.payload = payload]

LEMMA IdleReader == Idle \in ReaderStates /\ Idle.at = "idle"
<1>1. NoEntry \in Entries
  BY CacheAssumption DEF NoEntry, Entries
<1> QED BY <1>1, CacheAssumption DEF Idle, ReaderStates

LEMMA AnsweredReader ==
    ASSUME NEW payload \in 0..MaxFlights
    PROVE  /\ Answering(payload) \in ReaderStates
           /\ Answering(payload).at = "answered"
           /\ Answering(payload).payload = payload
BY IdleReader DEF Answering, ReaderStates

\* A flight settles, with a payload or none: the entry is left, is the flight's
\* or is gone.
LEMMA Settled ==
    ASSUME CacheInv, NEW n \in Flights, flight[n].at \in InFlight,
           NEW payload, Settle(n, payload),
           entry' \in Entries,
           \/ entry' = entry /\ (payload = n => entry.payload \in {0, n})
           \/ entry'.payload = n /\ flight[n].at = "setting"
           \/ entry' = NoEntry,
           payload = 0 \/ (payload = n /\ flight[n].at = "setting"),
           \/ purged' = purged
           \/ purged' = n /\ entry' = NoEntry,
           hold' \in Int, failedAt' \in Int, hold' >= failedAt' + Backoff,
           UNCHANGED <<now, slot, latest, before, backend>>
    PROVE  CacheInv'
<1> DEFINE next == Ended("settled")
           waiter == Answering(payload)
<1>0. NoEntry.payload = 0 /\ n \in Nat /\ n # 0 /\ payload \in 0..MaxFlights
  BY CacheAssumption DEF NoEntry, Flights
<1>1. /\ flight \in [Flights -> FlightStates] /\ SlotOK(flight, slot)
      /\ entry.payload \in Nat /\ latest \in Nat /\ purged \in Nat
      /\ CacheOK(entry, flight, latest, purged)
  BY DEF CacheInv, Types, Entries
<1>2. next \in FlightStates /\ next.at = "settled"
  BY DEF FlightStates, Ended, Unstarted
<1>3. Goes(n, flight, flight', next) /\ flight[n].at # "unused"
  BY <1>2 DEF Goes, InFlight, Settle
<1> HIDE DEF next
<1>4. /\ flight' \in [Flights -> FlightStates]
      /\ flight'[n] = next
      /\ \A m \in Flights : m # n => flight'[m] = flight[m]
      /\ \A k : Begun(flight, k) => Begun(flight', k)
      /\ \A p : Bounded(p, flight) => Bounded(p, flight')
      /\ \A p : Purged(p, flight) => Purged(p, flight')
      /\ \A p, e : Past(p, e, flight) => Past(p, e, flight')
  BY <1>1, <1>3, FlightGoes
<1>5. \A m \in Flights : flight'[m].at \notin InFlight
  BY <1>1, <1>2, <1>4 DEF SlotOK, InFlight
<1>6. SlotOK(flight', slot')
  <2>1. \E k \in 0..MaxFlights : Begun(flight', k)
    BY <1>1, <1>4 DEF SlotOK
  <2>2. slot = n
    BY <1>1 DEF SlotOK
  <2> QED BY <1>2, <1>4, <1>5, <2>1, <2>2 DEF SlotOK
<1>7. Bounded(n, flight) /\ purged <= n
      /\ (flight[n].at = "setting" => purged < n)
      /\ \A p : Bounded(p, flight) => p <= n
  BY <1>1, NewestFlies DEF CacheOK, Purged, Bounded
<1>8. \A p : Past(p, entry, flight) => Past(p, entry', flight')
  BY <1>0, <1>4, <1>7 DEF Past
<1>9. Past(entry'.payload, entry', flight')
  <2>1. CASE entry' = entry
    BY <1>1, <1>8, <2>1 DEF CacheOK
  <2>2. CASE entry'.payload = n
    BY <1>0, <1>4, <1>7, <2>2 DEF Past
  <2>3. CASE entry' = NoEntry
    BY <1>0, <1>4, <2>3, NothingIsPast
  <2> QED BY <2>1, <2>2, <2>3
<1>10. Purged(purged', flight')
  BY <1>1, <1>4, <1>5, <1>7 DEF CacheOK, Purged, InFlight
<1>11. CacheOK(entry', flight', latest', purged')
  BY <1>0, <1>1, <1>7, <1>8, <1>9, <1>10 DEF CacheOK
<1>12. MapOK'
  BY <1>5 DEF MapOK, InFlight
<1>13. \A r \in Readers : Remembers(before[r])'
  BY <1>0, <1>1, <1>7 DEF CacheInv, Remembers, Types
<1>14. waiter \in ReaderStates /\ waiter.at = "answered" /\ waiter.payload = payload
  BY <1>0, AnsweredReader
<1>15. reader' = [r \in Readers |->
                    IF reader[r].at = "joined" /\ reader[r].on = n
                    THEN waiter ELSE reader[r]]
  BY DEF Settle, Answering
<1> HIDE DEF waiter
<1>16. reader' \in [Readers -> ReaderStates]
  BY <1>14, <1>15 DEF CacheInv, Types
<1>17. Types'
  BY <1>0, <1>1, <1>4, <1>16 DEF CacheInv, Types
<1>18. Past(payload, entry', flight')
  <2>1. CASE payload = 0
    <3>1. entry'.payload \in Nat
      BY DEF Entries
    <3> QED BY <1>4, <2>1, <3>1, NothingIsPast
  <2>2. CASE payload = n
    BY <1>0, <1>4, <1>7, <2>2 DEF Past
  <2> QED BY <2>1, <2>2
<1>19. ASSUME NEW r \in Readers
       PROVE  ReaderOK(reader'[r], before'[r], entry', flight')
  <2>1. ReaderOK(reader[r], before[r], entry, flight) /\ Remembers(before[r])
        /\ before[r] \in [latest : Nat, purged : Nat] /\ before'[r] = before[r]
    BY DEF CacheInv, Types
  <2>2. CASE reader[r].at = "joined"
    <3>1. reader'[r] = waiter
      BY <1>1, <1>15, <2>1, <2>2 DEF ReaderOK, SlotOK
    <3>2. latest <= n
      BY <1>1, <1>7 DEF CacheOK, Past
    <3>3. Serves(payload, before[r])
      BY <1>0, <1>1, <1>7, <2>1, <3>2 DEF Serves, Remembers
    <3> QED BY <1>14, <1>18, <2>1, <3>1, <3>3 DEF ReaderOK
  <2>3. CASE reader[r].at # "joined"
    BY <1>8, <1>15, <2>1, <2>3 DEF ReaderOK
  <2> QED BY <2>2, <2>3
<1> QED BY <1>6, <1>11, <1>12, <1>13, <1>17, <1>19 DEF CacheInv

-----------------------------------------------------------------------------
(* The invariant, action by action                                           *)

LEMMA StepTypes ==
    ASSUME CacheInv
    PROVE  /\ now \in Nat /\ entry \in Entries /\ hold \in Int
           /\ flight \in [Flights -> FlightStates] /\ slot \in 0..MaxFlights
           /\ SlotOK(flight, slot)
           /\ NoEntry \in Entries /\ NoEntry.payload = 0
           /\ entry.payload \in 0..MaxFlights
           /\ latest \in Nat /\ purged \in Nat /\ failedAt \in Int
           /\ \A n \in Flights : n \in Nat /\ n # 0
           /\ \A r \in Readers :
                 /\ reader[r] \in ReaderStates
                 /\ before[r] \in [latest : Nat, purged : Nat]
                 /\ Remembers(before[r])
                 /\ ReaderOK(reader[r], before[r], entry, flight)
           /\ \A r \in Readers :
                 /\ reader = [reader EXCEPT ![r] = reader[r]]
                 /\ before = [before EXCEPT ![r] = before[r]]
BY CacheAssumption DEF CacheInv, Types, Entries, NoEntry, Flights

\* A reader that starts remembers the present, which the entry can serve.
Present == [latest |-> latest, purged |-> purged]

LEMMA PresentIs ==
    ASSUME CacheInv
    PROVE  /\ Present \in [latest : Nat, purged : Nat]
           /\ Remembers(Present)
           /\ Serves(entry.payload, Present)
           /\ Past(entry.payload, entry, flight)
           /\ Past(0, entry, flight) /\ \A b : Serves(0, b)
<1>1. latest \in Nat /\ purged \in Nat /\ entry.payload \in Nat
      /\ flight \in [Flights -> FlightStates]
  BY DEF CacheInv, Types, Entries
<1>2. Past(0, entry, flight)
  BY <1>1, NothingIsPast
<1> QED BY <1>1, <1>2 DEF Present, Remembers, Serves, CacheInv, CacheOK, Past

\* The records of a reader that goes on, that is answered, and that waits.
At(x, place) == [x EXCEPT !.at = place]
Got(x, e) == [x EXCEPT !.at = "got", !.seen = e]
Answer(payload, stale) ==
    [Idle EXCEPT !.at = "answered", !.stale = stale, !.payload = payload]
Waiting(n) == [Idle EXCEPT !.at = "joined", !.on = n]

LEMMA ReadersMove ==
    ASSUME NEW x \in ReaderStates
    PROVE  /\ \A place \in {"getting", "purging"} :
                 At(x, place) \in ReaderStates /\ At(x, place).at = place
           /\ \A e \in Entries :
                 /\ Got(x, e) \in ReaderStates
                 /\ Got(x, e).at = "got" /\ Got(x, e).seen = e
BY DEF At, Got, ReaderStates

LEMMA ReadersEnd ==
    /\ \A payload \in 0..MaxFlights, stale \in BOOLEAN :
          /\ Answer(payload, stale) \in ReaderStates
          /\ Answer(payload, stale).at = "answered"
          /\ Answer(payload, stale).payload = payload
    /\ \A n \in Flights :
          /\ Waiting(n) \in ReaderStates
          /\ Waiting(n).at = "joined" /\ Waiting(n).on = n
<1>1. ASSUME NEW payload \in 0..MaxFlights, NEW stale \in BOOLEAN
      PROVE  /\ Answer(payload, stale) \in ReaderStates
             /\ Answer(payload, stale).at = "answered"
             /\ Answer(payload, stale).payload = payload
  BY IdleReader DEF Answer, ReaderStates
<1>2. ASSUME NEW n \in Flights
      PROVE  /\ Waiting(n) \in ReaderStates
             /\ Waiting(n).at = "joined" /\ Waiting(n).on = n
  <2>1. n \in 0..MaxFlights
    BY CacheAssumption DEF Flights
  <2> QED BY <2>1, IdleReader DEF Waiting, ReaderStates
<1> QED BY <1>1, <1>2

Refused == [Idle EXCEPT !.at = "answered"]

LEMMA FailedRead ==
    /\ Refused \in ReaderStates
    /\ Refused.at = "answered" /\ Refused.payload = 0
<1>1. Idle.payload = 0
  BY DEF Idle
<1> QED BY <1>1, IdleReader DEF Refused, ReaderStates

\* A reader's step that begins no flight and leaves the cache as it is.
LEMMA ReaderAlone ==
    ASSUME CacheInv, NEW r \in Readers,
           NEW x \in ReaderStates, NEW b \in [latest : Nat, purged : Nat],
           reader' = [reader EXCEPT ![r] = x],
           before' = [before EXCEPT ![r] = b],
           Remembers(b), ReaderOK(x, b, entry, flight),
           UNCHANGED <<now, entry, hold, flight, slot, latest, purged, failedAt,
                       backend>>
    PROVE  CacheInv'
BY StepTypes, OneReader

\* Reads over Redis that begin no flight.
LEMMA RedisReadKeeps ==
    ASSUME CacheInv, NEW r \in Readers,
           UNCHANGED <<latest, purged, failedAt, backend>>,
           \/ ReadStart(r) /\ before' = [before EXCEPT ![r] = Present]
           \/ /\ ReadGet(r) \/ ReadFails(r) \/ ReadFresh(r) \/ ReadMalformed(r)
              /\ before' = before
    PROVE  CacheInv'
<1>1. CASE ReadStart(r) /\ before' = [before EXCEPT ![r] = Present]
  <2>1. reader' = [reader EXCEPT ![r] = At(reader[r], "getting")]
    BY <1>1 DEF ReadStart, At
  <2>2. At(reader[r], "getting") \in ReaderStates
        /\ At(reader[r], "getting").at = "getting"
    BY StepTypes, ReadersMove
  <2>3. ReaderOK(At(reader[r], "getting"), Present, entry, flight)
    BY <2>2 DEF ReaderOK
  <2> QED BY <1>1, <2>1, <2>2, <2>3, PresentIs, ReaderAlone DEF ReadStart
<1>2. CASE before' = before
  <2>0. /\ reader[r] \in ReaderStates /\ before[r] \in [latest : Nat, purged : Nat]
        /\ Remembers(before[r]) /\ ReaderOK(reader[r], before[r], entry, flight)
        /\ before' = [before EXCEPT ![r] = before[r]]
    BY <1>2, StepTypes
  <2>1. CASE ReadGet(r)
    <3>1. reader' = [reader EXCEPT ![r] = Got(reader[r], Cached)]
      BY <2>1 DEF ReadGet, Got
    <3>2. Cached \in Entries /\ Cached.payload \in {0, entry.payload}
      BY StepTypes DEF Cached
    <3>3. /\ Got(reader[r], Cached) \in ReaderStates
          /\ Got(reader[r], Cached).at = "got"
          /\ Got(reader[r], Cached).seen = Cached
      BY <2>0, <3>2, ReadersMove
    <3>4. Past(Cached.payload, entry, flight) /\ Serves(Cached.payload, before[r])
      BY <2>0, <3>2, StepTypes, PresentIs DEF Serves, Present, Remembers
    <3>5. ReaderOK(Got(reader[r], Cached), before[r], entry, flight)
      BY <3>3, <3>4 DEF ReaderOK
    <3> QED BY <1>2, <2>0, <2>1, <3>1, <3>3, <3>5, ReaderAlone DEF ReadGet
  <2>2. CASE ReadFails(r)
    <3>1. reader' = [reader EXCEPT ![r] = Refused]
      BY <2>2 DEF ReadFails, Refused
    <3>2. ReaderOK(Refused, before[r], entry, flight)
      BY FailedRead, PresentIs DEF ReaderOK
    <3> QED BY <2>0, <2>2, <3>1, <3>2, FailedRead, ReaderAlone DEF ReadFails
  <2>3. CASE ReadFresh(r)
    <3> DEFINE x == Answer(reader[r].seen.payload, FALSE)
    <3>1. reader' = [reader EXCEPT ![r] = x]
      BY <2>3 DEF ReadFresh, AnswerSeen, Answer
    <3>2. /\ x \in ReaderStates /\ x.at = "answered"
          /\ x.payload = reader[r].seen.payload
      BY <2>0, ReadersEnd DEF ReaderStates, Entries
    <3>3. ReaderOK(x, before[r], entry, flight)
      BY <2>0, <2>3, <3>2 DEF ReaderOK, ReadFresh
    <3> QED BY <2>0, <2>3, <3>1, <3>2, <3>3, ReaderAlone DEF ReadFresh
  <2>4. CASE ReadMalformed(r)
    <3>1. reader' = [reader EXCEPT ![r] = At(reader[r], "purging")]
      BY <2>4 DEF ReadMalformed, At
    <3>2. At(reader[r], "purging") \in ReaderStates
          /\ At(reader[r], "purging").at = "purging"
      BY <2>0, ReadersMove
    <3>3. ReaderOK(At(reader[r], "purging"), before[r], entry, flight)
      BY <3>2 DEF ReaderOK
    <3> QED BY <2>0, <2>4, <3>1, <3>2, <3>3, ReaderAlone DEF ReadMalformed
  <2>5. CASE ReadStart(r) /\ before' = [before EXCEPT ![r] = Present]
    BY <1>1, <2>5
  <2> QED BY <2>1, <2>2, <2>3, <2>4, <2>5
<1> QED BY <1>1, <1>2

\* A reader waits for a flight, its own or another's, after it has perhaps
\* deleted what did not parse.
LEMMA JoinKeeps ==
    ASSUME CacheInv, NEW r \in Readers, Join(r),
           NEW b \in [latest : Nat, purged : Nat], Remembers(b),
           before' = [before EXCEPT ![r] = b],
           entry' \in {entry, NoEntry},
           UNCHANGED <<now, hold, latest, purged, failedAt, backend>>
    PROVE  CacheInv'
<1>1. /\ flight' \in [Flights -> FlightStates] /\ slot' \in 0..MaxFlights
      /\ SlotOK(flight', slot')
      /\ FlightOf \in Flights /\ flight'[FlightOf].at \in InFlight
      /\ \A n \in Flights :
            \/ flight'[n] = flight[n]
            \/ flight[n].at = "unused" /\ flight'[n].at = "fetching"
  BY StepTypes, RunOwnedKeeps DEF Join
<1>2. reader' = [reader EXCEPT ![r] = Waiting(FlightOf)]
  BY DEF Join, Waiting
<1>3. /\ Waiting(FlightOf) \in ReaderStates /\ Waiting(FlightOf).at = "joined"
      /\ Waiting(FlightOf).on = FlightOf
  BY <1>1, ReadersEnd
<1>4. ReaderOK(Waiting(FlightOf), b, entry', flight')
  BY <1>1, <1>3 DEF ReaderOK
<1> QED BY <1>1, <1>2, <1>3, <1>4, OneReader

\* A reader is served what is stale, and perhaps begins a flight for the next.
LEMMA StaleKeeps ==
    ASSUME CacheInv, NEW r \in Readers,
           NEW payload \in 0..MaxFlights, NEW stale \in BOOLEAN,
           reader' = [reader EXCEPT ![r] = Answer(payload, stale)],
           Past(payload, entry, flight),
           NEW b \in [latest : Nat, purged : Nat], Remembers(b),
           Serves(payload, b),
           before' = [before EXCEPT ![r] = b],
           (CanRun /\ RunOwned(TRUE)) \/ UNCHANGED <<flight, slot>>,
           UNCHANGED <<now, entry, hold, latest, purged, failedAt, backend>>
    PROVE  CacheInv'
<1> DEFINE x == Answer(payload, stale)
<1>1. x \in ReaderStates /\ x.at = "answered" /\ x.payload = payload
  BY ReadersEnd
<1>2. /\ flight' \in [Flights -> FlightStates] /\ slot' \in 0..MaxFlights
      /\ SlotOK(flight', slot')
      /\ \A n \in Flights :
            \/ flight'[n] = flight[n]
            \/ flight[n].at = "unused" /\ flight'[n].at = "fetching"
  <2>1. CASE CanRun /\ RunOwned(TRUE)
    BY <2>1, StepTypes, RunOwnedKeeps
  <2>2. CASE UNCHANGED <<flight, slot>>
    BY <2>2, StepTypes
  <2> QED BY <2>1, <2>2
<1>3. Past(payload, entry', flight')
  <2>1. payload \in Int
    BY CacheAssumption
  <2> QED BY <1>2, <2>1, NewFlightKeeps
<1>4. ReaderOK(x, b, entry', flight')
  BY <1>1, <1>3 DEF ReaderOK
<1> HIDE DEF x
<1>5. reader' = [reader EXCEPT ![r] = x]
  BY DEF x
<1> QED BY <1>1, <1>2, <1>4, <1>5, OneReader

\* A read has returned: its payload is the newest answered, or older.
LEMMA ReturnedKeeps ==
    ASSUME CacheInv, NEW r \in Readers, Returned(r), UNCHANGED backend
    PROVE  CacheInv'
<1>1. /\ reader' = [reader EXCEPT ![r] = Idle]
      /\ before' = [before EXCEPT ![r] = Blank]
      /\ UNCHANGED <<now, entry, hold, flight, slot, purged, failedAt, backend>>
      /\ latest' \in {latest, reader[r].payload} /\ latest' >= latest
  BY StepTypes DEF Returned, Return, ReaderStates
<1>2. /\ reader[r].payload \in Nat /\ latest \in Nat /\ purged \in Nat
      /\ Past(reader[r].payload, entry, flight)
  BY StepTypes DEF Returned, Return, ReaderStates, ReaderOK
<1>3. Blank \in [latest : Nat, purged : Nat] /\ Blank.latest = 0 /\ Blank.purged = 0
  BY DEF Blank
<1>4. Types'
  BY <1>1, <1>2, <1>3, IdleReader DEF CacheInv, Types
<1>5. CacheOK(entry', flight', latest', purged')
  BY <1>1, <1>2 DEF CacheInv, CacheOK
<1>6. ASSUME NEW q \in Readers
      PROVE  Remembers(before[q])' /\ ReaderOK(reader'[q], before'[q], entry', flight')
  <2>0. /\ before[q] \in [latest : Nat, purged : Nat] /\ Remembers(before[q])
        /\ ReaderOK(reader[q], before[q], entry, flight)
    BY StepTypes
  <2>1. CASE q = r
    <3>1. reader'[q] = Idle /\ before'[q] = Blank
      BY <1>1, <2>1 DEF CacheInv, Types
    <3>2. Remembers(before[q])'
      BY <1>1, <1>2, <1>3, <3>1 DEF Remembers
    <3> QED BY <3>1, <3>2, IdleReader DEF ReaderOK
  <2>2. CASE q # r
    <3>1. reader'[q] = reader[q] /\ before'[q] = before[q]
      BY <1>1, <2>2 DEF CacheInv, Types
    <3>2. Remembers(before[q])'
      BY <1>1, <1>2, <2>0, <3>1 DEF Remembers
    <3> QED BY <1>1, <2>0, <3>1, <3>2
  <2> QED BY <2>1, <2>2
<1>7. MapOK' /\ SlotOK(flight', slot') /\ hold' >= failedAt' + Backoff
  BY <1>1 DEF CacheInv, MapOK
<1> QED BY <1>4, <1>5, <1>6, <1>7 DEF CacheInv

LEMMA RedisReadsKeep ==
    ASSUME CacheInv, NEW r \in Readers, RedisReads(r), UNCHANGED backend
    PROVE  CacheInv'
<1>0. /\ reader[r] \in ReaderStates /\ before[r] \in [latest : Nat, purged : Nat]
      /\ Remembers(before[r]) /\ ReaderOK(reader[r], before[r], entry, flight)
      /\ before = [before EXCEPT ![r] = before[r]]
      /\ reader[r].seen.payload \in 0..MaxFlights
  BY StepTypes DEF ReaderStates, Entries
<1>1. CASE Returned(r)
  BY <1>1, ReturnedKeeps
<1>2. CASE /\ ReadStart(r)
           /\ before' = [before EXCEPT ![r] = Present]
           /\ UNCHANGED <<latest, purged, failedAt>>
  BY <1>2, RedisReadKeeps
<1>3. CASE /\ ReadGet(r) \/ ReadFails(r) \/ ReadFresh(r) \/ ReadMalformed(r)
           /\ UNCHANGED historyVars
  BY <1>3, RedisReadKeeps DEF historyVars
<1>4. CASE ReadStale(r) /\ UNCHANGED historyVars
  <2>1. reader' = [reader EXCEPT ![r] = Answer(reader[r].seen.payload, TRUE)]
    BY <1>4 DEF ReadStale, AnswerSeen, Answer
  <2>2. Past(reader[r].seen.payload, entry, flight)
        /\ Serves(reader[r].seen.payload, before[r])
    BY <1>0, <1>4 DEF ReadStale, ReaderOK
  <2>3. /\ (CanRun /\ RunOwned(TRUE)) \/ UNCHANGED <<flight, slot>>
        /\ UNCHANGED <<now, entry, hold, latest, purged, failedAt>>
        /\ before' = [before EXCEPT ![r] = before[r]]
    BY <1>0, <1>4 DEF ReadStale, historyVars
  <2> QED BY <1>0, <2>1, <2>2, <2>3, StaleKeeps
<1>5. CASE (ReadMiss(r) \/ ReadPurged(r)) /\ UNCHANGED historyVars
  <2>1. /\ Join(r) /\ entry' \in {entry, NoEntry}
        /\ UNCHANGED <<now, hold, latest, purged, failedAt>>
        /\ before' = [before EXCEPT ![r] = before[r]]
    BY <1>0, <1>5 DEF ReadMiss, ReadPurged, historyVars
  <2> QED BY <1>0, <2>1, JoinKeeps
<1> QED BY <1>1, <1>2, <1>3, <1>4, <1>5 DEF RedisReads, Present

LEMMA MemoryReadsKeep ==
    ASSUME CacheInv, NEW r \in Readers, MemoryReads(r), UNCHANGED backend
    PROVE  CacheInv'
<1>1. CASE Returned(r)
  BY <1>1, ReturnedKeeps
<1>2. CASE /\ MemoryFresh(r) \/ MemoryStale(r) \/ MemoryMiss(r)
           /\ before' = [before EXCEPT ![r] = Present]
           /\ UNCHANGED <<latest, purged, failedAt>>
  <2>0. /\ Present \in [latest : Nat, purged : Nat] /\ Remembers(Present)
        /\ Serves(entry.payload, Present) /\ Past(entry.payload, entry, flight)
        /\ entry.payload \in 0..MaxFlights
    BY StepTypes, PresentIs
  <2>1. ASSUME NEW stale \in BOOLEAN, MemoryAnswer(r, stale)
        PROVE  reader' = [reader EXCEPT ![r] = Answer(entry.payload, stale)]
    BY <2>1 DEF MemoryAnswer, Answer
  <2>2. CASE MemoryFresh(r)
    <3>1. reader' = [reader EXCEPT ![r] = Answer(entry.payload, FALSE)]
      BY <2>1, <2>2 DEF MemoryFresh
    <3>2. UNCHANGED <<now, entry, hold, flight, slot>>
      BY <2>2 DEF MemoryFresh
    <3> QED BY <1>2, <2>0, <3>1, <3>2, StaleKeeps
  <2>3. CASE MemoryStale(r)
    <3>1. reader' = [reader EXCEPT ![r] = Answer(entry.payload, TRUE)]
      BY <2>1, <2>3 DEF MemoryStale
    <3>2. /\ (CanRun /\ RunOwned(TRUE)) \/ UNCHANGED <<flight, slot>>
          /\ UNCHANGED <<now, entry, hold>>
      BY <2>3 DEF MemoryStale
    <3> QED BY <1>2, <2>0, <3>1, <3>2, StaleKeeps
  <2>4. CASE MemoryMiss(r)
    <3>1. Join(r) /\ entry' \in {entry, NoEntry} /\ UNCHANGED <<now, hold>>
      BY <2>4 DEF MemoryMiss
    <3> QED BY <1>2, <2>0, <3>1, JoinKeeps
  <2> QED BY <1>2, <2>2, <2>3, <2>4
<1> QED BY <1>1, <1>2 DEF MemoryReads, Present

\* The flight that settles, and what the next background refresh waits for.
LEMMA FailedKeeps ==
    ASSUME CacheInv, NEW n \in Flights, flight[n].at \in InFlight, Failed(n),
           entry' \in Entries,
           \/ entry' = entry
           \/ entry'.payload = n /\ flight[n].at = "setting"
           \/ entry' = NoEntry,
           failedAt' = (IF flight[n].background THEN now ELSE failedAt),
           UNCHANGED <<now, slot, latest, purged, before, backend>>
    PROVE  CacheInv'
<1>1. /\ hold' \in Int /\ failedAt' \in Int /\ hold' >= failedAt' + Backoff
  BY StepTypes, CacheAssumption DEF Failed, BackoffRefresh, CacheInv
<1>2. Settle(n, 0) /\ 0 # n
  BY StepTypes DEF Failed
<1> QED BY <1>1, <1>2, Settled

LEMMA WorkedIs == Never \in Int /\ 0 >= Never + Backoff
BY CacheAssumption DEF Never

LEMMA StoredIs ==
    ASSUME CacheInv, NEW n \in Flights
    PROVE  Stored(n) \in Entries /\ Stored(n).payload = n
<1>1. flight[n].fa \in Nat /\ now + Cutoff \in Nat /\ n \in 0..MaxFlights
  BY SMTT(30), StepTypes, CacheAssumption DEF FlightStates, Cutoff, Flights
<1> QED BY <1>1 DEF Stored, Entries

LEMMA FlightsMove ==
    ASSUME NEW x \in FlightStates
    PROVE  /\ \A place \in {"setting", "deleting"} :
                 /\ [x EXCEPT !.at = place] \in FlightStates
                 /\ [x EXCEPT !.at = place].at = place
           /\ \A t \in Nat :
                 /\ [x EXCEPT !.at = "setting", !.fa = t] \in FlightStates
                 /\ [x EXCEPT !.at = "setting", !.fa = t].at = "setting"
BY DEF FlightStates

LEMMA RemoveKeeps ==
    ASSUME CacheInv, NEW n \in Flights, Remove(n),
           UNCHANGED <<latest, purged, failedAt, before, backend>>
    PROVE  CacheInv'
<1> DEFINE next == Ended("removed")
<1>1. next \in FlightStates /\ next.at = "removed"
  BY DEF FlightStates, Ended, Unstarted
<1>2. /\ flight' = [flight EXCEPT ![n] = next] /\ flight[n].at = "settled"
      /\ UNCHANGED <<now, entry, hold, reader, latest, purged, failedAt, before, backend>>
      /\ slot' = IF slot = n THEN 0 ELSE slot
  BY DEF Remove
<1> HIDE DEF next
<1>3. Goes(n, flight, flight', next)
  BY <1>1, <1>2 DEF Goes, InFlight
<1>4. /\ flight' \in [Flights -> FlightStates]
      /\ flight'[n] = next
      /\ \A m \in Flights : m # n => flight'[m] = flight[m]
      /\ \A k : Begun(flight, k) => Begun(flight', k)
      /\ \A p : Purged(p, flight) => Purged(p, flight')
      /\ \A p, e : Past(p, e, flight) => Past(p, e, flight')
  BY <1>2, <1>3, StepTypes, FlightGoes
<1>5. SlotOK(flight', slot')
  <2>1. \E k \in 0..MaxFlights : Begun(flight', k)
    BY <1>4, StepTypes DEF SlotOK
  <2>2. \A m \in Flights : flight'[m].at \in InFlight => slot' = m
    BY <1>1, <1>2, <1>4, StepTypes DEF SlotOK, InFlight
  <2>3. slot' # 0 => flight'[slot'].at \in InFlight \cup {"settled"}
    <3>1. slot' # 0 => slot' = slot /\ slot \in Flights /\ slot # n
      BY <1>2, StepTypes, CacheAssumption DEF Flights
    <3> QED BY <1>4, <3>1, StepTypes DEF SlotOK
  <2> QED BY <2>1, <2>2, <2>3 DEF SlotOK
<1>6. Types'
  BY <1>2, <1>4, CacheAssumption DEF CacheInv, Types
<1>7. CacheOK(entry', flight', latest', purged')
  BY <1>2, <1>4 DEF CacheInv, CacheOK
<1>8. MapOK'
  BY <1>1, <1>2, <1>4 DEF CacheInv, MapOK
<1>9. \A m \in Flights : flight[m].at \in InFlight => flight'[m].at \in InFlight
  BY <1>2, <1>4 DEF InFlight
<1>10. ASSUME NEW r \in Readers
       PROVE  Remembers(before[r])' /\ ReaderOK(reader'[r], before'[r], entry', flight')
  BY <1>2, <1>4, <1>9, StepTypes DEF Remembers, ReaderOK
<1> QED BY <1>2, <1>5, <1>6, <1>7, <1>8, <1>10 DEF CacheInv

LEMMA RedisFliesKeep ==
    ASSUME CacheInv, NEW n \in Flights, RedisFlies(n), backend = "redis",
           UNCHANGED backend
    PROVE  CacheInv'
<1>0. /\ flight[n] \in FlightStates /\ entry \in Entries /\ NoEntry \in Entries
      /\ hold \in Int /\ failedAt \in Int /\ hold >= failedAt + Backoff
      /\ n # 0 /\ now \in Nat
  BY StepTypes DEF CacheInv
<1>1. CASE DelDone(n) /\ purged' = n /\ UNCHANGED <<latest, failedAt, before>>
  BY <1>0, <1>1, Settled DEF DelDone, InFlight
<1>2. CASE SetDone(n) /\ failedAt' = Never /\ UNCHANGED <<latest, purged, before>>
  <2>1. /\ Settle(n, n) /\ flight[n].at = "setting" /\ entry' = Stored(n)
        /\ hold' = 0 /\ UNCHANGED <<now, slot>>
    BY <1>2 DEF SetDone
  <2>2. hold' \in Int /\ failedAt' \in Int /\ hold' >= failedAt' + Backoff
    BY <1>2, <2>1, WorkedIs
  <2>3. entry' \in Entries /\ entry'.payload = n
    BY <2>1, StoredIs
  <2> QED BY <1>2, <2>1, <2>2, <2>3, Settled DEF InFlight
<1>3. CASE /\ FetchFailed(n) \/ SetFailed(n) \/ DelFailed(n)
           /\ failedAt' = (IF flight[n].background THEN now ELSE failedAt)
           /\ UNCHANGED <<latest, purged, before>>
  <2>1. /\ Failed(n) /\ flight[n].at \in InFlight /\ UNCHANGED <<now, slot>>
        /\ \/ entry' = entry
           \/ entry' = Stored(n) /\ flight[n].at = "setting"
           \/ entry' = NoEntry
    BY <1>3 DEF FetchFailed, SetFailed, DelFailed, InFlight
  <2>2. /\ entry' \in Entries
        /\ \/ entry' = entry
           \/ entry'.payload = n /\ flight[n].at = "setting"
           \/ entry' = NoEntry
    BY <1>0, <2>1, StoredIs
  <2> QED BY <1>3, <2>1, <2>2, FailedKeeps
<1>4. CASE FetchOk(n) /\ UNCHANGED historyVars
  <2> DEFINE next == [flight[n] EXCEPT !.at = "setting", !.fa = now]
  <2>1. next \in FlightStates /\ next.at = "setting"
    BY <1>0, FlightsMove
  <2>2. /\ flight[n].at = "fetching" /\ flight' = [flight EXCEPT ![n] = next]
        /\ UNCHANGED <<now, entry, hold, slot, reader, latest, purged, failedAt, before>>
    BY <1>4 DEF FetchOk, historyVars
  <2> HIDE DEF next
  <2> QED BY <1>0, <2>1, <2>2, OneFlight
<1>5. CASE FetchDead(n) /\ UNCHANGED historyVars
  <2>1. CASE flight[n].background
    <3> DEFINE next == [flight[n] EXCEPT !.at = "deleting"]
    <3>1. next \in FlightStates /\ next.at = "deleting"
      BY <1>0, FlightsMove
    <3>2. /\ flight[n].at = "fetching" /\ flight' = [flight EXCEPT ![n] = next]
          /\ UNCHANGED <<now, entry, hold, slot, reader, latest, purged, failedAt, before>>
      BY <1>5, <2>1 DEF FetchDead, historyVars
    <3> HIDE DEF next
    <3> QED BY <1>0, <3>1, <3>2, OneFlight
  <2>2. CASE ~ flight[n].background
    <3>1. /\ Settle(n, 0) /\ flight[n].at \in InFlight
          /\ UNCHANGED <<now, entry, hold, slot, latest, purged, failedAt, before>>
      BY <1>5, <2>2 DEF FetchDead, historyVars, InFlight
    <3> QED BY <1>0, <3>1, Settled
  <2> QED BY <2>1, <2>2
<1>6. CASE Remove(n) /\ UNCHANGED historyVars
  BY <1>6, RemoveKeeps DEF historyVars
<1> QED BY <1>1, <1>2, <1>3, <1>4, <1>5, <1>6 DEF RedisFlies

LEMMA MemoryFliesKeep ==
    ASSUME CacheInv, NEW n \in Flights, MemoryFlies(n), backend = "memory",
           UNCHANGED backend
    PROVE  CacheInv'
<1>0. /\ flight[n] \in FlightStates /\ entry \in Entries /\ NoEntry \in Entries
      /\ hold \in Int /\ failedAt \in Int /\ hold >= failedAt + Backoff
      /\ n # 0 /\ now \in Nat
  BY StepTypes DEF CacheInv
<1>1. CASE MemoryDead(n) /\ purged' = n /\ UNCHANGED <<latest, failedAt, before>>
  <2> DEFINE next == [flight[n] EXCEPT !.at = "deleting"]
  <2>1. next \in FlightStates /\ next.at = "deleting"
    BY <1>0, FlightsMove
  <2>2. /\ flight[n].at = "fetching" /\ flight' = [flight EXCEPT ![n] = next]
        /\ entry' = NoEntry
        /\ UNCHANGED <<now, hold, slot, reader, latest, failedAt, before>>
    BY <1>1 DEF MemoryDead
  <2> HIDE DEF next
  <2> QED BY <1>0, <1>1, <2>1, <2>2, OneFlight
<1>2. CASE MemorySet(n) /\ failedAt' = Never /\ UNCHANGED <<latest, purged, before>>
  <2>1. /\ Settle(n, n) /\ flight[n].at = "setting" /\ hold' = 0
        /\ UNCHANGED <<now, entry, slot>>
    BY <1>2 DEF MemorySet
  <2>2. hold' \in Int /\ failedAt' \in Int /\ hold' >= failedAt' + Backoff
    BY <1>2, <2>1, WorkedIs
  <2>3. entry.payload \in {0, n}
    BY <2>1 DEF CacheInv, MapOK
  <2> QED BY <1>0, <1>2, <2>1, <2>2, <2>3, Settled DEF InFlight
<1>3. CASE /\ MemoryFailed(n)
           /\ failedAt' = (IF flight[n].background THEN now ELSE failedAt)
           /\ UNCHANGED <<latest, purged, before>>
  <2>1. /\ Failed(n) /\ flight[n].at \in InFlight /\ UNCHANGED <<now, entry, slot>>
    BY <1>3 DEF MemoryFailed, InFlight
  <2> QED BY <1>0, <1>3, <2>1, FailedKeeps
<1>4. CASE MemoryFetched(n) /\ UNCHANGED historyVars
  <2> DEFINE next == [flight[n] EXCEPT !.at = "setting"]
             e == [payload |-> n, fa |-> now, until |-> now + Cutoff,
                   malformed |-> FALSE]
  <2>1. next \in FlightStates /\ next.at = "setting"
    BY <1>0, FlightsMove
  <2>2. /\ flight[n].at = "fetching" /\ flight' = [flight EXCEPT ![n] = next]
        /\ entry' = e
        /\ UNCHANGED <<now, hold, slot, reader, latest, purged, failedAt, before>>
    BY <1>4 DEF MemoryFetched, historyVars
  <2>3. e \in Entries /\ e.payload = n
    BY <1>0, CacheAssumption DEF Entries, Cutoff, Flights
  <2> HIDE DEF next, e
  <2> QED BY <1>0, <2>1, <2>2, <2>3, OneFlight
<1>5. CASE MemoryDeleted(n) /\ UNCHANGED historyVars
  <2>1. /\ Settle(n, 0) /\ flight[n].at \in InFlight
        /\ UNCHANGED <<now, entry, hold, slot, latest, purged, failedAt, before>>
    BY <1>5 DEF MemoryDeleted, historyVars, InFlight
  <2> QED BY <1>0, <2>1, Settled
<1>6. CASE Remove(n) /\ UNCHANGED historyVars
  BY <1>6, RemoveKeeps DEF historyVars
<1> QED BY <1>1, <1>2, <1>3, <1>4, <1>5, <1>6 DEF MemoryFlies

\* The process restarts; what was under way is over.
LEMMA RestartKeeps ==
    ASSUME CacheInv, Restart \/ MemoryRestart, UNCHANGED <<latest, purged, backend>>,
           failedAt' = Never, before' = [r \in Readers |-> Blank]
    PROVE  CacheInv'
<1>1. /\ flight' = [n \in Flights |->
                       IF flight[n].at = "unused" THEN Unstarted ELSE Ended("removed")]
      /\ slot' = 0 /\ hold' = 0 /\ reader' = [r \in Readers |-> Idle]
      /\ entry' \in {entry, NoEntry} /\ now' = now
  BY DEF Restart, MemoryRestart
<1>2. /\ Unstarted \in FlightStates /\ Unstarted.at = "unused"
      /\ Ended("removed") \in FlightStates /\ Ended("removed").at = "removed"
  BY DEF FlightStates, Unstarted, Ended
<1>3. /\ flight' \in [Flights -> FlightStates]
      /\ \A n \in Flights :
            /\ flight'[n].at = "unused" <=> flight[n].at = "unused"
            /\ flight'[n].at \notin {"fetching", "setting", "deleting"}
  BY <1>1, <1>2
<1>4. /\ Blank \in [latest : Nat, purged : Nat] /\ Blank.latest = 0 /\ Blank.purged = 0
  BY DEF Blank
<1>5. Types'
  BY <1>1, <1>3, <1>4, StepTypes, WorkedIs, IdleReader, CacheAssumption DEF Types
<1>6. SlotOK(flight', slot')
  <2>1. PICK k \in 0..MaxFlights : Begun(flight, k)
    BY StepTypes DEF SlotOK
  <2>2. Begun(flight', k)
    BY <1>3, <2>1 DEF Begun
  <2> QED BY <1>1, <1>3, <2>2 DEF SlotOK, InFlight
<1>7. /\ \A p : Bounded(p, flight) => Bounded(p, flight')
      /\ \A p : Bounded(p, flight) => Purged(p, flight')
  BY <1>3 DEF Bounded, Purged, InFlight
<1>8. CacheOK(entry', flight', latest', purged')
  <2>1. Past(entry'.payload, entry', flight')
    BY <1>1, <1>3, <1>7, StepTypes, NothingIsPast DEF CacheInv, CacheOK, Past
  <2> QED BY <1>1, <1>7, <2>1, StepTypes DEF CacheInv, CacheOK, Past, Purged
<1>9. MapOK'
  BY <1>3 DEF MapOK
<1>10. \A r \in Readers : /\ Remembers(before[r])'
                          /\ ReaderOK(reader'[r], before'[r], entry', flight')
  BY <1>1, <1>4, StepTypes, IdleReader DEF Remembers, ReaderOK
<1>11. hold' >= failedAt' + Backoff
  BY <1>1, WorkedIs
<1> QED BY <1>5, <1>6, <1>8, <1>9, <1>10, <1>11 DEF CacheInv

-----------------------------------------------------------------------------
(* The invariant and what follows                                            *)

LEMMA InitiallyOK == MCInit => CacheInv
<1> SUFFICES ASSUME MCInit PROVE CacheInv
  OBVIOUS
<1> USE DEF MCInit, CacheInit
<1>1. /\ entry \in Entries /\ entry.payload = 0
  <2>1. Cutoff \in Nat
    BY CacheAssumption DEF Cutoff
  <2>2. NoEntry \in Entries /\ NoEntry.payload = 0
    BY CacheAssumption DEF NoEntry, Entries
  <2>3. LET torn == [NoEntry EXCEPT !.until = Cutoff, !.malformed = TRUE]
        IN  torn \in Entries /\ torn.payload = 0
    BY <2>1, <2>2 DEF Entries
  <2> QED BY <2>2, <2>3
<1>2. Unstarted \in FlightStates /\ Unstarted.at = "unused"
  BY DEF FlightStates, Unstarted
<1>3. Blank \in [latest : Nat, purged : Nat] /\ Blank.latest = 0 /\ Blank.purged = 0
  BY DEF Blank
<1>4. Types
  BY <1>1, <1>2, <1>3, WorkedIs, IdleReader, CacheAssumption DEF Types
<1>5. SlotOK(flight, slot)
  <2>1. Begun(flight, 0)
    BY <1>2, CacheAssumption DEF Begun, Flights
  <2> QED BY <1>2, <2>1, CacheAssumption DEF SlotOK, InFlight
<1>6. Purged(0, flight)
  BY <1>2, CacheAssumption DEF Purged, Bounded, Flights, InFlight
<1>7. CacheOK(entry, flight, latest, purged)
  BY <1>1, <1>6 DEF CacheOK, Past, Purged
<1>8. MapOK
  BY <1>1 DEF MapOK
<1>9. \A r \in Readers : /\ Remembers(before[r])
                         /\ ReaderOK(reader[r], before[r], entry, flight)
  BY <1>3, IdleReader DEF Remembers, ReaderOK
<1> QED BY <1>4, <1>5, <1>7, <1>8, <1>9, WorkedIs DEF CacheInv

LEMMA TickKeeps ==
    ASSUME CacheInv, Tick \/ UNCHANGED now,
           UNCHANGED <<entry, hold, flight, slot, reader, backend, historyVars>>
    PROVE  CacheInv'
<1>1. now' \in Nat
  BY DEF Tick, CacheInv, Types
<1>2. Types'
  BY <1>1 DEF CacheInv, Types, historyVars
<1> QED BY <1>2 DEF CacheInv, historyVars, MapOK, Remembers

\* The invariant of the data cache, over Redis and in memory.
THEOREM DataCacheInvariant == MCSpec => []CacheInv
<1>1. CacheInv /\ [MCNext]_MCVars => CacheInv'
  <2> SUFFICES ASSUME CacheInv, [MCNext]_MCVars PROVE CacheInv'
    OBVIOUS
  <2>1. ASSUME NEW r \in Readers, Reads(r) PROVE CacheInv'
    BY <2>1, RedisReadsKeep, MemoryReadsKeep DEF Reads
  <2>2. ASSUME NEW n \in Flights, Flies(n) PROVE CacheInv'
    BY <2>2, RedisFliesKeep, MemoryFliesKeep DEF Flies
  <2>3. CASE Tick /\ UNCHANGED <<backend, historyVars>>
    BY <2>3, TickKeeps DEF Tick
  <2>4. CASE /\ Restart \/ MemoryRestart
             /\ UNCHANGED <<latest, purged, backend>>
             /\ failedAt' = Never /\ before' = [r \in Readers |-> Blank]
    BY <2>4, RestartKeeps
  <2>5. CASE UNCHANGED MCVars
    BY <2>5, TickKeeps DEF MCVars, cacheVars
  <2> QED BY <2>1, <2>2, <2>3, <2>4, <2>5 DEF MCNext
<1> QED BY <1>1, InitiallyOK, PTL DEF MCSpec

\* A reader never goes back in time (redis-data.cache.ts, in-memory-data.cache.ts):
\* no slow refresh overwrites a newer payload.
THEOREM ReadersGoForward == MCSpec => []ReadsNeverGoBack
<1>1. CacheInv => ReadsNeverGoBack
  BY DEF CacheInv, ReaderOK, Serves, ReadsNeverGoBack
<1> QED BY <1>1, DataCacheInvariant, PTL

\* What a dead session left in the cache is not served to a later reader.
THEOREM DeadSessionsAreForgotten == MCSpec => []DeadSessionIsForgotten
<1>1. CacheInv => DeadSessionIsForgotten
  BY DEF CacheInv, ReaderOK, Serves, DeadSessionIsForgotten
<1> QED BY <1>1, DataCacheInvariant, PTL

\* However reads, the settling of a flight and the removal of its slot
\* interleave, one refresh of a key is under way (single-flight.ts).
THEOREM FlightsAreSingle == MCSpec => []OneFlightAtATime
<1>1. CacheInv => OneFlightAtATime
  BY DEF CacheInv, SlotOK, InFlight, OneFlightAtATime, Flying
<1> QED BY <1>1, DataCacheInvariant, PTL

\* A flight begins in the background only when the last failure of one is
\* Backoff ago.
LEMMA StartsInTime ==
    ASSUME CacheInv, MCNext, NEW n \in Flights,
           flight[n].at = "unused", flight'[n].at = "fetching",
           flight'[n].background
    PROVE  now >= failedAt + Backoff
<1>0. /\ flight \in [Flights -> FlightStates] /\ slot \in 0..MaxFlights
      /\ SlotOK(flight, slot) /\ hold >= failedAt + Backoff
      /\ hold \in Int /\ failedAt \in Int /\ now \in Nat
  BY StepTypes DEF CacheInv
<1>2. ASSUME NEW r \in Readers, Reads(r)
      PROVE  now >= failedAt + Backoff
  <2>1. CASE UNCHANGED flight
    BY <2>1
  <2>2. CASE Join(r)
    <3>1. CanRun /\ RunOwned(FALSE)
      BY <2>2 DEF Join
    <3>2. flight'[n] = flight[n] \/ flight'[n].background = FALSE
      BY <1>0, <3>1, RunOwnedKeeps
    <3> QED BY <3>2
  <2>3. CASE now >= hold
    BY <1>0, <2>3, CacheAssumption
  <2> QED BY <1>2, <2>1, <2>2, <2>3
       DEF Reads, RedisReads, MemoryReads, Returned, Return, ReadStart, ReadGet,
           ReadFails, ReadFresh, ReadStale, ReadMiss, ReadMalformed, ReadPurged,
           MemoryFresh, MemoryStale, MemoryMiss
<1>3. ASSUME NEW m \in Flights, Flies(m)
      PROVE  FALSE
  <2>1. flight[m].at # "unused"
    BY <1>3 DEF Flies, RedisFlies, MemoryFlies, DelDone, SetDone, FetchFailed,
                SetFailed, DelFailed, FetchOk, FetchDead, Remove, MemoryDead,
                MemorySet, MemoryFailed, MemoryFetched, MemoryDeleted
  <2>2. \A k \in Flights : k # m => flight'[k] = flight[k]
    BY <1>0, <1>3
       DEF Flies, RedisFlies, MemoryFlies, DelDone, SetDone, FetchFailed,
           SetFailed, DelFailed, FetchOk, FetchDead, Remove, MemoryDead,
           MemorySet, MemoryFailed, MemoryFetched, MemoryDeleted, Settle, Failed
  <2> QED BY <2>1, <2>2
<1>4. CASE Restart \/ MemoryRestart
  <2>1. flight'[n] = Unstarted
    BY <1>4 DEF Restart, MemoryRestart
  <2> QED BY <2>1 DEF Unstarted
<1>5. CASE Tick
  BY <1>5 DEF Tick
<1> QED BY <1>2, <1>3, <1>4, <1>5 DEF MCNext

\* A failing upstream is not asked again in the background before
\* REFRESH_BACKOFF_MS have passed (redis-data.cache.ts).
THEOREM UpstreamIsSpared == MCSpec => BackoffIsKept
<1>1. CacheInv /\ [MCNext]_MCVars =>
        [\A n \in Flights :
            (flight[n].at = "unused" /\ flight'[n].at = "fetching"
                /\ flight'[n].background)
            => now >= failedAt + Backoff]_MCVars
  BY StartsInTime
<1> QED BY <1>1, DataCacheInvariant, PTL DEF MCSpec, BackoffIsKept

=============================================================================
