--------------------------- MODULE MobileClient ---------------------------
(***************************************************************************)
(* The session core of the mobile client: SsoRepository over               *)
(* SessionRefresher, CacheCoordinator and SessionLogout, with AppRoot's    *)
(* login and logout.  Two numbers fence what is under way: a logout and a  *)
(* login advance the refresher's epoch, a wipe the cache's generation.     *)
(*                                                                         *)
(* One key of the cache: keys share nothing but the generation.  A value   *)
(* is known by the login it is of and the generation of the call that      *)
(* fetched it; whether an entry is still fresh is left open at each look.  *)
(***************************************************************************)
EXTENDS Naturals, FiniteSets

CONSTANTS RepoCalls,     \* calls of the repository that may run at a time
          LastLogin,     \* bound of the logins
          LastLogout,    \* the last login that is ended by a logout
          LastRotation,  \* bound of the rotations of a login's token
          Jobs,          \* refreshes that may run at a time
          Nil            \* no token, value or job

ASSUME MobileBounds ==
    LastLogin \in Nat \ {0} /\ LastLogout \in Nat /\ LastRotation \in Nat

ASSUME NilIsNothing ==
    Nil \notin Nat /\ Nil \notin [of : Nat, ver : Nat] /\ Nil \notin [of : Nat \cup {Nil}, gen : Nat]

VARIABLES
    login,       \* the last login
    serverLive,  \* the logins whose session the backend has
    bearer,      \* Backend.authToken
    persisted,   \* the token in the TokenStore
    screen,      \* "in" (AppShell), "out" (LoginScreen), "saving" and "entering" between
    leaving,     \* how far a logout is, "no" if none is running
    dialog,      \* the login somebody said is over, Nil without a dialog
    refresher,   \* the SessionRefresher's lifecycleEpoch and active
    jobs,        \* the refreshes
    wipes,       \* the CacheCoordinator's generation
    memory, disk, published,  \* the value of either cache and of the StateFlow
    saves,       \* values that wait to be written to disk
    repo         \* the calls of the repository

mobSession == <<login, serverLive, bearer, persisted, screen, leaving, dialog>>
mobCache == <<wipes, memory, disk, published, saves>>
mobVars == <<mobSession, refresher, jobs, mobCache, repo>>

\* of: whose bearer a request carries; was: that session lived when it was sent.
NoRepoCall ==
    [at |-> "idle", kind |-> "read", gen |-> 0, epoch |-> 0, of |-> Nil, was |-> FALSE,
     retry |-> FALSE, expected |-> Nil, job |-> Nil, value |-> Nil,
     back |-> FALSE, cancelled |-> FALSE, told |-> "nothing"]

NoJob == [at |-> "free", listed |-> FALSE, epoch |-> 0, expected |-> Nil, of |-> Nil,
          was |-> FALSE, ver |-> 0]

TokenOf(n, ver) == [of |-> n, ver |-> ver]
Owner(token) == IF token = Nil THEN Nil ELSE token.of

\* The app is launched with what an earlier process has left.
MobileInit ==
    /\ login = 1 /\ serverLive = {1} /\ screen = "in" /\ leaving = "no" /\ dialog = Nil
    /\ bearer = TokenOf(1, 0) /\ persisted = TokenOf(1, 0)
    /\ refresher = [epoch |-> 0, active |-> TRUE]
    /\ jobs = [j \in Jobs |-> NoJob]
    /\ wipes = 0 /\ memory = Nil /\ published = Nil /\ saves = {}
    /\ disk \in {Nil, [of |-> 1, gen |-> 0]}
    /\ repo = [c \in RepoCalls |-> NoRepoCall]

In(c, place) == repo[c].at = place
Become(c, changed) == repo' = [repo EXCEPT ![c] = changed]
Move(c, place) == Become(c, [repo[c] EXCEPT !.at = place])
Leave(c) == Become(c, NoRepoCall)

CurrentEpoch(epoch) == refresher.active /\ refresher.epoch = epoch

----------------------------------------------------------------------------
(* CacheCoordinator.cached                                                 *)

\* A screen reads, or reads with force.
StartRead(c, force) ==
    /\ In(c, "idle") /\ screen = "in"
    /\ Become(c, [repo[c] EXCEPT !.at = IF force THEN "fetching" ELSE "looking",
                                 !.gen = wipes])
    /\ UNCHANGED <<mobSession, refresher, jobs, mobCache>>

\* An entry is served, and fetched anew behind the caller's back if it is
\* stale and to be revalidated.
Look(c) ==
    /\ In(c, "looking")
    /\ IF memory = Nil THEN Move(c, "loading")
       ELSE \E back \in BOOLEAN :
              Become(c, [repo[c] EXCEPT !.at = "serving", !.value = memory, !.back = back])
    /\ UNCHANGED <<mobSession, refresher, jobs, mobCache>>

\* restoreFromDisk: an entry that is young enough.
LoadDisk(c) ==
    /\ In(c, "loading")
    /\ \/ /\ disk # Nil
          /\ Become(c, [repo[c] EXCEPT !.at = "restoring", !.value = disk])
       \/ Move(c, "fetching")
    /\ UNCHANGED <<mobSession, refresher, jobs, mobCache>>

\* Nothing is restored across a wipe.
Restore(c) ==
    /\ In(c, "restoring")
    /\ IF repo[c].gen = wipes
       THEN /\ memory' = repo[c].value
            /\ \E back \in BOOLEAN :
                 Become(c, [repo[c] EXCEPT !.at = "serving", !.back = back])
       ELSE memory' = memory /\ Become(c, [repo[c] EXCEPT !.at = "fetching", !.value = Nil])
    /\ UNCHANGED <<mobSession, refresher, jobs, wipes, disk, published, saves>>

\* publishIfCurrent; a failure replaces the value on screen by an error.
Publish(c, value) ==
    published' = IF repo[c].gen = wipes THEN value ELSE published

Serve(c) ==
    /\ In(c, "serving")
    /\ Publish(c, repo[c].value)
    /\ IF repo[c].back
       THEN Become(c, [repo[c] EXCEPT !.at = "claimingBack", !.value = Nil, !.back = FALSE])
       ELSE Leave(c)
    /\ UNCHANGED <<mobSession, refresher, jobs, wipes, memory, disk, saves>>

\* refreshBackground: one at a time in a generation.
ClaimBack(c) ==
    /\ In(c, "claimingBack")
    /\ IF \E d \in RepoCalls : repo[d].back /\ repo[d].gen = repo[c].gen
       THEN Leave(c)
       ELSE Become(c, [repo[c] EXCEPT !.at = "launching", !.back = TRUE])
    /\ UNCHANGED <<mobSession, refresher, jobs, mobCache>>

LaunchBack(c) ==
    /\ In(c, "launching")
    /\ IF repo[c].gen = wipes THEN Move(c, "fetching") ELSE Leave(c)
    /\ UNCHANGED <<mobSession, refresher, jobs, mobCache>>

\* A mutation: a wipe does not keep what was fetched before it from memory.
CommitAlways(c) ==
    /\ In(c, "fetched")
    /\ memory' = repo[c].value
    /\ saves' = saves \cup {repo[c].value}
    /\ Move(c, "publishing")
    /\ UNCHANGED <<mobSession, refresher, jobs, wipes, disk, published>>

\* commitIfCurrent: memory at once, the disk in a coroutine of its own.
Commit(c) ==
    /\ In(c, "fetched")
    /\ IF repo[c].gen = wipes
       THEN memory' = repo[c].value /\ saves' = saves \cup {repo[c].value}
       ELSE UNCHANGED <<memory, saves>>
    /\ Move(c, "publishing")
    /\ UNCHANGED <<mobSession, refresher, jobs, wipes, disk, published>>

PublishFetched(c) ==
    /\ In(c, "publishing")
    /\ Publish(c, repo[c].value)
    /\ Leave(c)
    /\ UNCHANGED <<mobSession, refresher, jobs, wipes, memory, disk, saves>>

\* Only a foreground call of the cache shows its failure.
Fail(c) ==
    /\ In(c, "failed")
    /\ IF repo[c].kind = "read" /\ ~ repo[c].back THEN Publish(c, Nil)
                                                  ELSE published' = published
    /\ Leave(c)
    /\ UNCHANGED <<mobSession, refresher, jobs, wipes, memory, disk, saves>>

SaveToDisk(value) ==
    /\ saves' = saves \ {value}
    /\ disk' = IF value.gen = wipes THEN value ELSE disk
    /\ UNCHANGED <<mobSession, refresher, jobs, wipes, memory, published, repo>>

CancelledEnds(c) ==
    /\ repo[c].cancelled
    /\ Leave(c)
    /\ UNCHANGED <<mobSession, refresher, jobs, mobCache>>

----------------------------------------------------------------------------
(* SessionRefresher.safe                                                   *)

\* What is not cached: a read ("plain"), and markKehadiran ("action"), which is
\* not tried again.
StartUncached(c, kind) ==
    /\ In(c, "idle") /\ screen = "in"
    /\ Become(c, [repo[c] EXCEPT !.at = "fetching", !.kind = kind])
    /\ UNCHANGED <<mobSession, refresher, jobs, mobCache>>

EnterSafe(c) ==
    /\ In(c, "fetching")
    /\ Become(c, [repo[c] EXCEPT !.at = "sending", !.epoch = refresher.epoch])
    /\ UNCHANGED <<mobSession, refresher, jobs, mobCache>>

\* The request takes the bearer of this moment.
SendRepo(c) ==
    /\ In(c, "sending")
    /\ Become(c, [repo[c] EXCEPT !.at = "waiting", !.of = Owner(bearer),
                                 !.was = Owner(bearer) \in serverLive])
    /\ UNCHANGED <<mobSession, refresher, jobs, mobCache>>

ReceiveValue(c) ==
    /\ In(c, "waiting") /\ repo[c].was
    /\ IF repo[c].kind # "read" THEN Leave(c)
       ELSE Become(c, [NoRepoCall EXCEPT
                         !.at = "fetched", !.gen = repo[c].gen,
                         !.back = repo[c].back, !.cancelled = repo[c].cancelled,
                         !.value = [of |-> repo[c].of, gen |-> repo[c].gen]])
    /\ UNCHANGED <<mobSession, refresher, jobs, mobCache>>

\* What remains of a call whose request has been answered.
Unanswered(c, place) ==
    [repo[c] EXCEPT !.at = place, !.of = Nil, !.was = FALSE, !.retry = FALSE]

\* expireIfCurrent and notifySessionExpired
Expire(epoch, whose) ==
    dialog' = IF CurrentEpoch(epoch) /\ bearer # Nil THEN whose ELSE dialog

\* SESSION_DEAD opens the dialog.
ReceiveDead(c) ==
    /\ In(c, "waiting") /\ repo[c].of # Nil /\ repo[c].of \notin serverLive
    /\ Expire(repo[c].epoch, repo[c].of)
    /\ Become(c, Unanswered(c, "failed"))
    /\ UNCHANGED <<login, serverLive, bearer, persisted, screen, leaving, refresher, jobs,
                   mobCache>>

\* Another 401 (no bearer, a JWT past its time, an upstream that wants a new
\* login) is tried again once, after a refresh.
ReceiveUnauthorized(c) ==
    /\ In(c, "waiting")
    /\ Become(c, Unanswered(c, IF repo[c].retry \/ repo[c].kind = "action"
                              THEN "failed" ELSE "unauthorized"))
    /\ UNCHANGED <<mobSession, refresher, jobs, mobCache>>

\* A call that is tried again lets the exception of a request without an answer
\* out, past the cache: nothing is published of it.
ReceiveFailure(c) ==
    /\ In(c, "waiting")
    /\ \/ Become(c, Unanswered(c, "failed"))
       \/ repo[c].retry /\ Leave(c)
    /\ UNCHANGED <<mobSession, refresher, jobs, mobCache>>

----------------------------------------------------------------------------
(* SessionRefresher.tryRefresh, over a SessionFlight per epoch             *)

\* ensureFresh, of a token close to its end.
StartEnsure(c) ==
    /\ In(c, "idle") /\ screen = "in" /\ bearer # Nil
    /\ Become(c, [repo[c] EXCEPT !.at = "unauthorized", !.kind = "ensure"])
    /\ UNCHANGED <<mobSession, refresher, jobs, mobCache>>

\* What safe makes of the outcome; ensureFresh passes it on.
Refused(c, told) ==
    IF repo[c].kind = "ensure" THEN NoRepoCall
    ELSE [repo[c] EXCEPT !.at = "failed", !.job = Nil, !.expected = Nil, !.told = told]

TryRefresh(c) ==
    /\ In(c, "unauthorized")
    /\ IF refresher.active
       THEN Become(c, [repo[c] EXCEPT !.at = "claiming", !.job = refresher.epoch,
                                      !.expected = persisted])
       ELSE Become(c, Refused(c, "rejected"))
    /\ UNCHANGED <<mobSession, refresher, jobs, mobCache>>

FreeJobs == {j \in Jobs : jobs[j].at = "free"}
InFlight(epoch) == {j \in Jobs : jobs[j].listed /\ jobs[j].epoch = epoch /\ jobs[j].at # "done"}

\* A flight of the epoch is joined; else one is begun, in whose favour one that
\* is done leaves the list.
ClaimRefresh(c) ==
    LET epoch == repo[c].job IN
    /\ In(c, "claiming")
    /\ \/ \E j \in InFlight(epoch) :
            /\ Become(c, [repo[c] EXCEPT !.at = "joined", !.job = j, !.expected = Nil])
            /\ jobs' = jobs
       \/ /\ InFlight(epoch) = {} /\ FreeJobs # {}
          /\ LET mine == CHOOSE j \in FreeJobs : TRUE IN
             /\ Become(c, [repo[c] EXCEPT !.at = "joined", !.job = mine, !.expected = Nil])
             /\ jobs' = [j \in Jobs |->
                  IF j = mine
                  THEN [NoJob EXCEPT !.at = "checking", !.listed = TRUE, !.epoch = epoch,
                                     !.expected = repo[c].expected]
                  ELSE [jobs[j] EXCEPT !.listed = @ /\ jobs[j].epoch # epoch]]
    /\ UNCHANGED <<mobSession, refresher, mobCache>>

\* release: every caller hears the result.  After a success the request is
\* sent again.
Complete(j, told) ==
    /\ jobs' = [jobs EXCEPT ![j] = [NoJob EXCEPT !.at = "done", !.listed = jobs[j].listed,
                                                 !.epoch = jobs[j].epoch]]
    /\ repo' = [c \in RepoCalls |->
         IF ~ (In(c, "joined") /\ repo[c].job = j) THEN repo[c]
         ELSE IF told = "success" /\ repo[c].kind # "ensure"
         THEN [repo[c] EXCEPT !.at = "sending", !.retry = TRUE, !.job = Nil]
         ELSE Refused(c, told)]

\* performRefresh looks at the epoch, and asks with the bearer of this moment.
CheckJob(j) ==
    /\ jobs[j].at = "checking"
    /\ IF CurrentEpoch(jobs[j].epoch)
       THEN jobs' = [jobs EXCEPT ![j].at = "posting"] /\ repo' = repo
       ELSE Complete(j, "rejected")
    /\ UNCHANGED <<mobSession, refresher, mobCache>>

PostRefresh(j) ==
    /\ jobs[j].at = "posting"
    /\ jobs' = [jobs EXCEPT ![j] = [@ EXCEPT !.at = "waiting", !.of = Owner(bearer),
                                        !.was = Owner(bearer) \in serverLive,
                                        !.ver = IF bearer = Nil THEN 0 ELSE bearer.ver + 1]]
    /\ UNCHANGED <<mobSession, refresher, mobCache, repo>>

\* The new token is stored in place of the one the refresh began with.
Rotated(j) ==
    LET token == TokenOf(jobs[j].of, jobs[j].ver)
        stores == /\ CurrentEpoch(jobs[j].epoch)
                  /\ persisted # Nil /\ persisted = jobs[j].expected IN
    /\ jobs[j].at = "waiting" /\ jobs[j].was /\ jobs[j].ver <= LastRotation
    /\ IF stores
       THEN persisted' = token /\ bearer' = token /\ Complete(j, "success")
       ELSE UNCHANGED <<persisted, bearer>> /\ Complete(j, "rejected")
    /\ UNCHANGED <<login, serverLive, screen, leaving, dialog, refresher, mobCache>>

\* The backend answers SESSION_DEAD for a session that is over, and a plain 401
\* without a bearer.  Backend.refresh throws the status alone, so the first is
\* as rejected as the second; "dead" is remembered for the property below.
RefreshUnauthorized(j) ==
    /\ jobs[j].at = "waiting"
    /\ jobs[j].of \notin serverLive
    /\ Complete(j, IF jobs[j].of # Nil /\ CurrentEpoch(jobs[j].epoch) THEN "dead" ELSE "rejected")
    /\ UNCHANGED <<mobSession, refresher, mobCache>>

RefreshFailed(j) ==
    /\ jobs[j].at = "waiting"
    /\ Complete(j, IF CurrentEpoch(jobs[j].epoch) THEN "network" ELSE "rejected")
    /\ UNCHANGED <<mobSession, refresher, mobCache>>

ClearJob(j) ==
    /\ jobs[j].at = "done"
    /\ jobs' = [jobs EXCEPT ![j] = NoJob]
    /\ UNCHANGED <<mobSession, refresher, mobCache, repo>>

----------------------------------------------------------------------------
(* SessionLogout, AppRoot and the LoginScreen                              *)

\* The server is told, if it can be reached; until it has answered nothing
\* changes here.  A second logout waits for the one that is running.
Logout ==
    /\ screen = "in" /\ leaving = "no" /\ login <= LastLogout
    /\ leaving' = "fencing"
    /\ serverLive' \in {serverLive, serverLive \ {Owner(bearer)}}
    /\ UNCHANGED <<login, bearer, persisted, screen, dialog, refresher, jobs, mobCache, repo>>

FenceRefresher ==
    /\ leaving = "fencing"
    /\ leaving' = "wiping"
    /\ refresher' = [epoch |-> refresher.epoch + 1, active |-> FALSE]
    /\ UNCHANGED <<login, serverLive, bearer, persisted, screen, dialog, jobs, mobCache, repo>>

\* CacheCoordinator.clear: what runs in the background is cancelled.
Wipe ==
    /\ leaving = "wiping"
    /\ leaving' = "joining"
    /\ wipes' = wipes + 1 /\ memory' = Nil /\ disk' = Nil
    /\ repo' = [c \in RepoCalls |->
         [repo[c] EXCEPT !.cancelled = repo[c].back /\ ~ In(c, "launching")]]
    /\ UNCHANGED <<login, serverLive, bearer, persisted, screen, dialog, refresher, jobs,
                   published, saves>>

\* Only then are the StateFlows emptied.
Joined ==
    /\ leaving = "joining" /\ \A c \in RepoCalls : ~ repo[c].cancelled
    /\ leaving' = "forgetting"
    /\ published' = Nil
    /\ UNCHANGED <<login, serverLive, bearer, persisted, screen, dialog, refresher, jobs,
                   wipes, memory, disk, saves, repo>>

ForgetToken ==
    /\ leaving = "forgetting"
    /\ leaving' = "flipping"
    /\ persisted' = Nil
    /\ UNCHANGED <<login, serverLive, bearer, screen, dialog, refresher, jobs, mobCache, repo>>

Flip ==
    /\ leaving = "flipping"
    /\ leaving' = "no" /\ bearer' = Nil /\ dialog' = Nil /\ screen' = "out"
    /\ UNCHANGED <<login, serverLive, persisted, refresher, jobs, mobCache, repo>>

\* The handoff, or the pairing code, has got a token: the first attaches it
\* before it saves it, the second saves it first.
SignIn ==
    /\ screen = "out" /\ login < LastLogin
    /\ login' = login + 1 /\ serverLive' = serverLive \cup {login + 1}
    /\ \/ bearer' = TokenOf(login + 1, 0) /\ persisted' = persisted
       \/ persisted' = TokenOf(login + 1, 0) /\ bearer' = bearer
    /\ screen' = "saving"
    /\ UNCHANGED <<leaving, dialog, refresher, jobs, mobCache, repo>>

SignedIn ==
    /\ screen = "saving"
    /\ bearer' = TokenOf(login, 0) /\ persisted' = TokenOf(login, 0)
    /\ screen' = "entering"
    /\ UNCHANGED <<login, serverLive, leaving, dialog, refresher, jobs, mobCache, repo>>

\* A newly established login owns an epoch of its own.
ResumeForNewSession ==
    /\ screen = "entering"
    /\ screen' = "in"
    /\ refresher' = [epoch |-> refresher.epoch + 1, active |-> TRUE]
    /\ UNCHANGED <<login, serverLive, bearer, persisted, leaving, dialog, jobs, mobCache, repo>>

\* A session ends at the backend for reasons of its own.
SessionEnds ==
    /\ serverLive' = serverLive \ {login} /\ serverLive' # serverLive
    /\ UNCHANGED <<login, bearer, persisted, screen, leaving, dialog, refresher, jobs,
                   mobCache, repo>>

\* The process is killed and started anew, with what is persisted.  It counts
\* from 0 again; of the old numbers nothing is left to be taken for a new one.
Relaunch ==
    /\ bearer' = persisted /\ screen' = IF persisted = Nil THEN "out" ELSE "in"
    /\ leaving' = "no" /\ dialog' = Nil
    /\ refresher' = [epoch |-> 0, active |-> TRUE] /\ wipes' = 0
    /\ disk' = IF disk = Nil THEN Nil ELSE [disk EXCEPT !.gen = 0]
    /\ jobs' = [j \in Jobs |-> NoJob] /\ repo' = [c \in RepoCalls |-> NoRepoCall]
    /\ memory' = Nil /\ published' = Nil /\ saves' = {}
    /\ UNCHANGED <<login, serverLive, persisted>>

RepoStep(c) ==
    \/ (\E force \in BOOLEAN : StartRead(c, force)) \/ StartEnsure(c)
    \/ (\E kind \in {"plain", "action"} : StartUncached(c, kind))
    \/ Look(c) \/ LoadDisk(c) \/ Restore(c) \/ Serve(c) \/ ClaimBack(c) \/ LaunchBack(c)
    \/ Commit(c) \/ PublishFetched(c) \/ Fail(c) \/ CancelledEnds(c)
    \/ EnterSafe(c) \/ SendRepo(c) \/ ReceiveValue(c) \/ ReceiveDead(c)
    \/ ReceiveUnauthorized(c) \/ ReceiveFailure(c) \/ TryRefresh(c) \/ ClaimRefresh(c)

JobStep(j) ==
    \/ CheckJob(j) \/ PostRefresh(j) \/ Rotated(j) \/ RefreshUnauthorized(j)
    \/ RefreshFailed(j) \/ ClearJob(j)

LogoutStep == Logout \/ FenceRefresher \/ Wipe \/ Joined \/ ForgetToken \/ Flip

MobileNext ==
    \/ \E c \in RepoCalls : RepoStep(c)
    \/ \E j \in Jobs : JobStep(j)
    \/ \E value \in saves : SaveToDisk(value)
    \/ LogoutStep \/ SignIn \/ SignedIn \/ ResumeForNewSession \/ SessionEnds \/ Relaunch

MobileSpec == MobileInit /\ [][MobileNext]_mobVars

----------------------------------------------------------------------------
(* Properties                                                              *)

\* No refresh brings back a token of an earlier login, or one after a logout;
\* the token that is sent is the one that a restart would find.
BearerIsOwn ==
    /\ \A token \in {bearer, persisted} \ {Nil} : token.of = login
    /\ screen = "out" => bearer = Nil /\ persisted = Nil
    /\ leaving # "flipping" /\ screen # "saving" => bearer = persisted

\* What was fetched before a wipe is in neither cache and on no screen after it.
WipeIsFinal ==
    /\ \A value \in {memory, disk} \ {Nil} : value.gen = wipes
    /\ published # Nil => published.gen = wipes \/ leaving = "joining"

\* The dialog says of the session on screen that it is over, and of no other.
DialogIsOwn == dialog # Nil => dialog = login /\ screen = "in"

\* SessionRefresher.kt:42, "N concurrent 401s issue exactly ONE refresh POST".
OneRefreshPerEpoch ==
    \A j, k \in Jobs :
        (/\ jobs[j].at \in {"posting", "waiting"} /\ jobs[k].at \in {"posting", "waiting"}
         /\ jobs[j].epoch = jobs[k].epoch)
        => j = k

\* SessionRefresher.kt:44, "On dead session [onSessionExpired] fires (universal
\* re-login dialog)": a call whose refresh the backend answered with SESSION_DEAD
\* ends with the dialog open, if its session is still the one on screen.
DeadRefreshOpensDialog ==
    \A c \in RepoCalls :
        (In(c, "failed") /\ repo[c].told = "dead" /\ CurrentEpoch(repo[c].epoch))
        => dialog # Nil

\* CacheCoordinator.kt:28, "fetches from the old session cannot repopulate either
\* cache after the wipe": what the caches hold is of the last login.
CachesAreOfLastLogin ==
    \A value \in {memory, disk, published} \ {Nil} : value.of = login \/ screen # "in"

=============================================================================
