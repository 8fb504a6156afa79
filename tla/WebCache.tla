----------------------------- MODULE WebCache -----------------------------
(***************************************************************************)
(* The data cache of the web client (api/cache.ts) with the stores and     *)
(* views that read through it.  An entry is fresh, then stale (served, and *)
(* refreshed behind the reader's back), then expired.  A fetch belongs to  *)
(* the cache generation and to the generation of its key in which it was   *)
(* begun; a logout and a login advance the one, an invalidation the other. *)
(*                                                                         *)
(* A value is known by the login it belongs to, by how recent it is and by *)
(* the time it was received.                                               *)
(***************************************************************************)
EXTENDS Naturals, FiniteSets

CONSTANTS Readers,     \* components that may await a value at a time
          Keys,        \* the keys of the cache
          NestedKeys,  \* those whose store reads wrap a cached call again
          FreshTtl, StaleTtl,
          MaxSessions, \* bound of the logins
          MaxVersion,  \* bound of the changes at the server
          MaxTime,     \* bound of the clock
          MaxFlights,  \* bound of the fetches under way
          Nothing      \* no value, entry or fetch

ASSUME CacheBounds ==
    /\ NestedKeys \subseteq Keys
    /\ FreshTtl \in Nat \ {0} /\ StaleTtl \in Nat /\ FreshTtl <= StaleTtl
    /\ MaxSessions \in Nat \ {0} /\ MaxVersion \in Nat /\ MaxTime \in Nat
    /\ MaxFlights \in Nat

VARIABLES
    now,
    session,         \* the login that the token belongs to,
    phase,           \*   "in", "leaving" (the server is being told) or "out"
    version,         \* how often the data changed at the server
    cacheGeneration,
    keyGeneration,
    store,           \* the entries of the cache
    flights,         \* the fetches whose answer is awaited
    inflight,        \* the fetch of a key that a reader may join
    waits,           \* the fetch a reader waits for
    shown,           \* what the page shows
    least            \* the version a key's invalidation has made obsolete

sessionVars == <<session, phase, version>>
cacheVars == <<cacheGeneration, keyGeneration, store, flights, inflight>>
webCacheVars == <<now, sessionVars, cacheVars, waits, shown, least>>

Value(of, ver) == [of |-> of, ver |-> ver, born |-> now]
Entry(value) == [value |-> value, fetchedAt |-> now, gen |-> cacheGeneration]

WebCacheInit ==
    /\ now = 0 /\ session = 1 /\ phase = "in" /\ version = 0
    /\ cacheGeneration = 0 /\ keyGeneration = [k \in Keys |-> 0]
    /\ store = [k \in Keys |-> Nothing] /\ flights = {}
    /\ inflight = [k \in Keys |-> Nothing]
    /\ waits = [r \in Readers |-> Nothing]
    /\ shown = [k \in Keys |-> Nothing] /\ least = [k \in Keys |-> 0]
----------------------------------------------------------------------------
(* Fetches.                                                                *)

Owned(f) == f.gen = cacheGeneration /\ f.keyGen = keyGeneration[f.key]

Unused == CHOOSE n \in 1 .. MaxFlights : \A f \in flights : f.no # n

NewFlight(k) == [no |-> Unused, key |-> k, gen |-> cacheGeneration,
                 keyGen |-> keyGeneration[k], of |-> session, sent |-> version]

\* A reader joins a fetch of its own generations only.
Joins(k) == inflight[k] # Nothing /\ Owned(inflight[k])

\* fetchOne: the fetch that is joined or begun.
FetchOne(k) ==
    IF Joins(k) THEN UNCHANGED <<flights, inflight>>
    ELSE /\ Cardinality(flights) < MaxFlights
         /\ flights' = flights \cup {NewFlight(k)}
         /\ inflight' = [inflight EXCEPT ![k] = NewFlight(k)]

Age(k) == now - store[k].fetchedAt
Served(k) == store[k] # Nothing /\ store[k].gen = cacheGeneration
Fresh(k) == Served(k) /\ Age(k) < FreshTtl
Stale(k) == Served(k) /\ Age(k) >= FreshTtl /\ Age(k) < StaleTtl

Show(k, value) ==
    shown' = [shown EXCEPT ![k] = [value |-> value, at |-> now]]

\* Only the pages behind the login read.
Reads(r) == waits[r] = Nothing /\ phase # "out"

ReadFresh(r, k) ==
    /\ Reads(r) /\ Fresh(k)
    /\ Show(k, store[k].value)
    /\ UNCHANGED <<now, sessionVars, cacheVars, waits, least>>

ReadStale(r, k) ==
    /\ Reads(r) /\ Stale(k)
    /\ FetchOne(k) /\ Show(k, store[k].value)
    /\ UNCHANGED <<now, sessionVars, cacheGeneration, keyGeneration, store,
                   waits, least>>

\* A store's read whose fetcher is itself a cached call of the same key: the
\* outer refresh is answered at once by the inner call, with the stale entry,
\* and leaves no fetch to join.
ReadStaleNested(r, k) ==
    /\ Reads(r) /\ Stale(k) /\ k \in NestedKeys /\ ~Joins(k)
    /\ Cardinality(flights) < MaxFlights
    /\ flights' = flights \cup {NewFlight(k)}
    /\ inflight' = [inflight EXCEPT ![k] = Nothing]
    /\ store' = [store EXCEPT ![k] = Entry(store[k].value)]
    /\ Show(k, store[k].value)
    /\ UNCHANGED <<now, sessionVars, cacheGeneration, keyGeneration, waits,
                   least>>

ReadMiss(r, k) ==
    /\ Reads(r) /\ ~Fresh(k) /\ ~Stale(k)
    /\ FetchOne(k) /\ waits' = [waits EXCEPT ![r] = inflight'[k]]
    /\ UNCHANGED <<now, sessionVars, cacheGeneration, keyGeneration, store,
                   shown, least>>

\* A fetch ends for all that wait for it, and gives up its own place only.
FetchEnds(f) ==
    /\ flights' = flights \ {f}
    /\ inflight' = [inflight EXCEPT ![f.key] = IF @ = f THEN Nothing ELSE @]
    /\ waits' = [r \in Readers |-> IF waits[r] = f THEN Nothing ELSE waits[r]]

\* Its value is what the server had at some time since it was asked.  Only who
\* waits shows it, and the entry is written in either case.
Arrives(f) ==
    /\ f \in flights /\ Owned(f) /\ FetchEnds(f)
    /\ \E ver \in f.sent .. version :
          /\ store' = [store EXCEPT ![f.key] = Entry(Value(f.of, ver))]
          /\ IF \E r \in Readers : waits[r] = f
               THEN Show(f.key, Value(f.of, ver)) ELSE UNCHANGED shown
    /\ UNCHANGED <<now, sessionVars, cacheGeneration, keyGeneration, least>>

\* The fetch failed, gave nothing, or is of another generation: its readers
\* have an error to show or to keep silent about.
Fails(f) ==
    /\ f \in flights /\ FetchEnds(f)
    /\ UNCHANGED <<now, sessionVars, cacheGeneration, keyGeneration, store,
                   shown, least>>
----------------------------------------------------------------------------
(* What makes a value obsolete.                                            *)

Changes ==
    /\ version < MaxVersion /\ version' = version + 1
    /\ UNCHANGED <<now, session, phase, cacheVars, waits, shown, least>>

Invalidate(k) ==
    /\ keyGeneration' = [keyGeneration EXCEPT ![k] = @ + 1]
    /\ store' = [store EXCEPT ![k] = Nothing]

\* markNotificationRead: the server has changed the data, the key follows.
Mark(k) ==
    /\ phase = "in" /\ version < MaxVersion
    /\ version' = version + 1 /\ least' = [least EXCEPT ![k] = version + 1]
    /\ Invalidate(k)
    /\ UNCHANGED <<now, session, phase, cacheGeneration, flights, inflight,
                   waits, shown>>

ClearCache == /\ cacheGeneration' = cacheGeneration + 1
              /\ store' = [k \in Keys |-> Nothing]
              /\ UNCHANGED <<keyGeneration, flights, inflight>>

\* The cache is cleared first; the token lives on until the server has been
\* told, and reads with it.
LogoutClears ==
    /\ phase = "in" /\ phase' = "leaving" /\ ClearCache
    /\ UNCHANGED <<now, session, version, waits, shown, least>>

\* resetUserState empties the stores.
ShowNothing == shown' = [k \in Keys |-> Nothing]

StoresWiped ==
    /\ phase = "leaving" /\ phase' = "out" /\ ShowNothing
    /\ UNCHANGED <<now, session, version, cacheVars, waits, least>>

BeginSessionWarm == ShowNothing /\ UNCHANGED cacheVars

BeginSession == ShowNothing /\ ClearCache

Login ==
    /\ phase = "out" /\ session < MaxSessions
    /\ session' = session + 1 /\ phase' = "in" /\ BeginSession
    /\ UNCHANGED <<now, version, waits, least>>

Tick == /\ now < MaxTime /\ now' = now + 1
        /\ UNCHANGED <<sessionVars, cacheVars, waits, shown, least>>

WebCacheNext ==
    \/ \E r \in Readers, k \in Keys :
          ReadFresh(r, k) \/ ReadStale(r, k) \/ ReadMiss(r, k)
          \/ ReadStaleNested(r, k)
    \/ \E f \in flights : Arrives(f) \/ Fails(f)
    \/ \E k \in Keys : Mark(k)
    \/ Changes \/ LogoutClears \/ StoresWiped \/ Login \/ Tick

WebCacheSpec == WebCacheInit /\ [][WebCacheNext]_webCacheVars
----------------------------------------------------------------------------
\* A session that is logged in sees, and keeps in its cache, no value that was
\* fetched with the token of an earlier one: not by joining its fetch, not by
\* a background refresh that ends late, not by a fetch begun while the logout
\* was telling the server.
NobodyElsesData ==
    phase = "in" => \A k \in Keys :
        /\ store[k] # Nothing => store[k].value.of = session
        /\ shown[k] # Nothing => shown[k].value.of = session

\* Once a key was invalidated, what it held before the change is not served
\* again, though a fetch begun before the change ends after it.
InvalidatedIsGone ==
    \A k \in Keys : store[k] # Nothing => store[k].value.ver >= least[k]

\* "fresh -> cache; stale -> cache + background refresh (failures keep stale
\* silently); expired/miss -> sync fetch" (web/src/api/cache.ts): no value is
\* served that was received longer than the stale time ago.
NothingExpiredIsShown ==
    \A k \in Keys :
        shown[k] # Nothing => shown[k].at - shown[k].value.born < StaleTtl
=============================================================================
