--------------------------- MODULE MCWebClient ---------------------------
(***************************************************************************)
(* The session of the web client, its data cache, and the session core of  *)
(* the mobile client, which share no variable: a behaviour is one of a     *)
(* single of them.                                                         *)
(***************************************************************************)
EXTENDS WebSession, WebCache, MobileClient, TLC

VARIABLES machine, \* which of the three runs
          begun    \* the calls the mobile client has begun
MaxBegun == 2

MCInit == /\ machine \in {"session", "cache", "mobile"}
          /\ WebInit /\ WebCacheInit /\ MobileInit /\ begun = 0
          /\ machine # "session" => local = None
          /\ machine # "mobile" => disk = Nil

\* With two logins begun a single call is under way.
MaxWork == 3
Work == Cardinality({r \in Requests : requests[r] # Idle}) + Begun

\* The calls of the mobile client that this step begins.
BegunNow == {c \in RepoCalls : repo[c].at = "idle" /\ repo'[c].at # "idle"}

MCNext ==
    /\ UNCHANGED machine
    /\ \/ machine = "session" /\ WebNext /\ Work' <= MaxWork
                                /\ UNCHANGED <<webCacheVars, mobVars, begun>>
       \/ machine = "cache" /\ WebCacheNext /\ UNCHANGED <<webVars, mobVars, begun>>
       \/ /\ machine = "mobile" /\ MobileNext
          /\ begun' = begun + Cardinality(BegunNow) /\ begun' <= MaxBegun
          /\ UNCHANGED <<webVars, webCacheVars>>

MCSpec == MCInit /\ [][MCNext]_<<machine, begun, webVars, webCacheVars, mobVars>>

\* The calls of either API are alike, and so are the readers of the cache, of
\* which the runs have as many.
Alike == Permutations(Requests)

\* The silent renewals belong to a session: a generation has one refresh at a
\* time, and the overlay of a re-login is up only while that re-login, or the
\* logout that takes it down, is under way (api/client.ts, stores/auth.ts).
RefreshIsFenced == OneRefreshPerGeneration /\ OverlayHasOwner

\* The cache of the pages serves a session its own data, and nothing from before
\* what it knows to have changed (api/cache.ts, stores/*.ts).
CacheServesItsOwner == NobodyElsesData /\ InvalidatedIsGone

\* A logout of the mobile client is final for what was under way before it: the
\* token, the caches and the dialog belong to the session on screen, and an
\* epoch has one refresh at a time (SessionRefresher.kt, CacheCoordinator.kt).
LogoutFencesMobile == BearerIsOwn /\ WipeIsFinal /\ DialogIsOwn /\ OneRefreshPerEpoch

=============================================================================
