# yodips: a verification project for the backend, the browser extension, the web and the mobile client

TLA+ models of the parts of yodips that keep state or decide something: the
NestJS backend (`src/backend/src`), the browser extension (`src/extension/src`),
the web client (`src/web/src`) and the session core of the mobile client
(`src/mobile/app/src/commonMain/kotlin/core`); the TLC configurations that check them; and
TLAPS proofs about eight of them. `PROJECT.json` maps every definition to the
source lines it stands for.

1. [The system](#1-the-system)
2. [Modules and how they correspond to the
code](#2-modules-and-how-they-correspond-to-the-code)
3. [Runs: what is checked, with which bounds](#3-runs)
4. [Where the code and its documentation
disagree](#4-where-the-code-and-its-documentation-disagree)
5. [What is proved](#5-what-is-proved)
6. [Fairness](#6-fairness)
7. [What is not modelled](#7-what-is-not-modelled)
8. [Where to go on](#8-where-to-go-on)

## 1. The system

Yodips lets a student use two university services (Kulon, the learning
platform, and SIAP, the academic information system) through one backend. The
browser extension signs in with the university's single sign-on and hands the
captured cookies to the backend; web and mobile clients then hold only a JWT.
The JWT names an identity (`sub`) and a *session generation*, a random number
drawn at login; the cookies stay in the backend's session store.

| component | state it keeps | operations | talks to |
|---|---|---|---|
| session store (`session/`) | per identity one captured session: generation, time of capture, cookies. Redis: an encrypted envelope with a sliding lifetime; or a `Map` | `set`, `get`, `getIfGeneration`, `replaceIfUnchanged`, `clearIfGeneration`, `all` | Redis |
| auth service and guard (`auth/`) | none of its own but the probe cache | handoff, refresh, renewal of one cookie, logout, `me`, `canActivate` | session store, upstream probes |
| development sign-ins (`auth/legacy-auth*`, `microsoft/`) | a browser profile, pending OIDC states | capture, Microsoft sign-in, logout | session store, a browser window |
| keep-alive (`keepalive/`) | the `running` flag | a cron cycle over all sessions | session store, three upstream probes |
| pairing (`pairing/`) | per code three Redis keys: `pair:`, `pair-exp:`, `pair-used:` | request, consume, status | Redis, session store |
| data cache (`cache/`, `common/single-flight.ts`) | envelopes in Redis or a `Map`; per process the flights and the back-off | `get`, `set`, `del`, `getStale` | Redis, upstream fetches |
| Kulon client (`kulon/`) | sesskeys and payloads in the data cache, keyed flights | course list, progress, assignments, content | session store, data cache, Kulon |
| SIAP client (`siap/`) | the API token and the identity in the data cache | profile, grades, plan, schedule, attendance | session store, data cache, SIAP |
| upstream transport and probes (`upstream/`, `keepalive/*probe*`) | none | a fetch or a walk of redirects, and a verdict | SSO, Kulon, SIAP |
| dashboard (`dashboard/`, web `useDashboard`) | none; in the web client values, errors, counters | six slices at once | Kulon and SIAP clients |
| notification poller (`notifications/poller.service.ts`) | the `running` flag; in Redis the lock, snapshots, sent keys, the re-login flag | `runCycle` every 15 minutes | Redis, Kulon, SIAP, FCM, Web Push |
| notification registry (`notifications/redis-notification.store.ts`) | lists of device tokens and web subscriptions, two indexes | register, unregister, prune | Redis |
| extension, login | `chrome.storage`: flow, last result, epoch; in the worker a queue and a runner | handoff, logout, poll; cookie and tab events | backend, the web page |
| extension, renewal | one flight per tab and service, a ticket tab | renew, cancel | backend |
| web client, session (`stores/auth.ts`, `api/client.ts`, …) | a token in `localStorage` and in the store, an epoch and a gate, refreshes | calls and their retries, refresh, silent re-login, login, logout | backend, extension |
| web client, cache (`api/cache.ts`) | entries, flights, generations | `getCached`, `invalidate`, wipe | backend |
| web client, screens | what is shown | open, load, poll | the stores |
| mobile client, session core (`core/data`, `core/network`) | a stored token and the bearer requests carry, an epoch, a generation, a cache in memory and on disk | calls and their retry, refresh, logout, login, restart | backend |

What is hard about it is not computation but interleaving. Every operation of
the Redis-backed parts is a sequence of commands with the whole backend running
in between; requests wait seconds for upstreams while others log in, log out or
renew; a restart loses what was in flight but not what is in Redis; two cron
jobs work on the same records as the requests; the extension's worker is killed
whenever the browser likes; the web client's answers come after a logout, or
after the login that followed it. `PROJECT.json` lists the hazards line by line.
What should be true of each part:

* *session store*: a session that has ended never comes back; a call that
  carries an old token has no effect on the session that replaced it; a renewal
  changes one cookie and never overwrites another renewal.
* *auth and sign-ins*: what a request is answered is true: `renewed` means the
  cookie was stored, a refusal has a cause, the session used is the token's own,
  and a session, or a token that names a person, is of who signed in at the
  university.
* *keep-alive*: a cycle ends and does not get in its own way.
* *pairing*: a code is redeemed once, for the session it was asked for under,
  and the device that shows the code learns of it.
* *data caches, backend and web*: one refresh at a time, no reader goes back in
  time, a dead session's data is dropped, a failing upstream is left in peace,
  nobody waits for ever, nobody is served another session's data.
* *Kulon and SIAP clients*: sharing flights, sesskeys and tokens never crosses a
  login; a rejected token is not sent again; a list that misses a
  course because its pages failed is not kept.
* *upstream answers*: an outage is not taken for a dead session, nor a login
  page for a live one.
* *records, coursework, dashboard*: what several parsers, filters and charts
  say of one thing agrees.
* *poller and registry*: nothing is told twice without a failure, nothing is
  swallowed, cycles do not overlap, lists keep their cap.
* *extension, web session, mobile client*: a logout is final: no token, tab,
  overlay, retry or cached value of before it survives.

## 2. Modules and how they correspond to the code

### Sessions

`SessionRecord` holds the pure decisions both adapters take: `EvaluateRecord`
(`session-record-policy.ts`), `SameCapturedSession` and the renewal predicates
(`session-store.ts`). A cookie string is a member of a set, the empty string is
`NoCookie`; the fields no renewal may change are one field, `other`.

`SessionLife` is the abstract specification: one record and the set of
generations that have ended. `Establish` is a login, `Renew` changes one cookie,
`End` is a logout, an expiry, the absolute cap or a lost key.

`RedisSessionStore` is the adapter over Redis, with any number of clients. Each
call but `set` is a GET (`Get`), a local decision (`Decide`) and one more command
(`Slide`, `CasExpire`, `CasDelete`, `CasReplace`), three separate steps. An
envelope carries the number of its initialisation vector, so that two encryptions
of one session differ as they do in the code; the scripts compare envelopes, not
sessions. `RotateKey` is a restart with another `SESSION_ENC_KEY`. `client[c]` is
the position of one awaiting call; `issued` are the generations drawn (fresh:
128 random bits), `stored` those that have reached Redis.

`InMemorySessionStore` is the `Map` adapter; its operations do not await, so each
is one step. What makes it interesting is that callers hold snapshots (`seen`)
across steps.

`AuthSessions` EXTENDS the Redis store. `req[h]` is where a request handler
stands; its store calls run through the steps above. `Handlers` are the requests
being looked at, the other clients do whatever the store lets a client do. What
upstreams answer is left open to everything the code tells apart; the three
attempts of a probe are counted. A token is its generation.

`LegacyAuth` is the development server's sign-ins. The browser profile is a
`jar`: a window that opens finds the cookies of whoever used it last. A capture
reads the stored session, probes it, opens a window, stores and signs in
separate steps; an OIDC state is taken before its code is exchanged. A token
remembers the cookie of the session it was signed for.

`KeepAlive` EXTENDS the Redis store too. `cycle.at` walks through list, three
probes, judge, three renewals and the final slide. The deadline may have come at
any of the places where the code asks. Identities are independent, so one is
followed.

`Pairing` has the three keys with their own lifetimes and one step per command,
including the fallback from GETDEL to a script, in which the first command may
have taken effect. Of the session store it assumes what `SessionLife` promises
(which is proved of both adapters), plus that a qualified read may miss a live
session (`ReadsLive`), which the Redis store really does (section 4).

### Caches and upstream clients

`DataCache` is `getStale()` of one key over Redis: `reader[r]` a request,
`flight[n]` the n-th refresh, `slot` the entry of the keyed single flight, `hold`
the back-off. `Settle` and `Remove` are two steps because the `finally` of a
flight runs in a later microtask than the continuations of those who waited.
`MemoryDataCache` EXTENDS it with the adapter over a `Map`, where a read is one
step and the payload is there before the waiters wake; `MCDataCache` runs one or
the other, by `backend`.

`SiapClient` is `SiapService` over `SiapUpstreamSession`. Its methods differ in
what they need and what they retry, which is a record per method (`SiapMethods`).
`call[c]` is a running method; `flight` has the identity and the token flight of
each generation; `token[g]` the cached token. Tokens are numbered, and SIAP accepts
only the newest (`valid`).

`KulonClient` is `KulonService` over `KulonUpstreamSession`. `proc` holds the
callers and the flights alike: whoever is in `await` waits for the flight `on`.
A page of an aggregate is had, refused by Kulon (a 404 or a status below 400,
which the code takes for a page without rows) or failed. A cookie is a pair
(login, renewals since), so that a payload or a sesskey shows what it was
fetched with. Keys and scopes are those of the code, `Current` being the
poller's.

`UpstreamResponses` is how an answer is read: `site` is whether the session lives
and the weather, `visit` one walk of redirects, check, renewal or fetch. Between
two requests of a visit both may change. `witnessed` remembers what was true when
an answer was given.

`KulonCourses` is the course screen's data: three timeline requests in parallel,
a batch of states that may be cut short, and a pool of workers that scrape the
rest from the page. `Coursework` is the parsing of deadlines and task indexes and
the web client's filters over them. `SiapRecords` assembles grades, lecturers and
attendance and the charts over them. `Dashboard` has the backend's slices
(`ServerNext`) and the overlapping loads of the web client (`ViewNext`). In these
four most definitions are pure operators named after the function they model;
the actions change the world at Moodle or SIAP, or the day, and ask again. A
deadline may be missing (0), or be missing on a page that says "overdue" all the
same (`Lapsed`); a grade is one whose letter the chart has a bar for (`barred`) or
not; SIAP's pages may leave out either of the two ids a grade's detail is compared by.

### Notifications

`NotificationPoller` has the n-th call of `runCycle()` in `cycle[n]` and its
worker for a user in `work[n][u]`; a worker is `processUser()`, and
`sendReloginOnce()` when `expired` is set. Every Redis command and every push may
fail, before or after it took effect: `UserSkipped` and `CycleRejected` may
happen at every step. A rejected `Promise.all` does not stop the other workers of
its chunk.

`PushRegistry` is one user's two lists and two indexes. Device tokens are read,
changed and written back in separate commands; the web list is extended by a
script (`Script`) and shortened by read and write; the index follows.

### Extension and web client

`Extension` is the login flow: `queue` the serial queue of handoffs and logouts,
`run` the flow runner with its one parked event, `saved` what is in
`chrome.storage`, `epoch` the worker's own. `RunnerStep` and `QueueStep` are the
continuations of one await each; `RestoreEpoch` is a worker started after a kill.

`ExtensionRenewal` is the renewal of one upstream in a ticket tab: creation of
the tab, its listeners, its timer and a logout's cancel come in any order.

`WebSession` is one page load of the web client. An action is a callback, or
what a promise's settling makes its waiters do. A token carries the session
generation it was asked for in, which is what the code must never mix up; the
server and the extension answer when and as they like. `extFlows` are the
generations whose handoff the extension may still finish: a wipe that it
confirms empties them (`WipeConfirmed`, which `Extension`'s
`LogoutForgetsTokens` justifies), one that fails or takes more than five seconds
does not (`WipeUnconfirmed`). `WebCache` is `getCached` and the stores that read
through it; a value is known by its login, its version and the time it was
received.

`MobileClient` is `SsoRepository` over `SessionRefresher`, `CacheCoordinator` and
`SessionLogout`. `repo[c]` is a call of the repository, from the look at the
cache to what it publishes; `jobs[j]` is one run of `performRefresh`, which the
calls of an epoch share (`SessionFlight`). The two fences of the code are
`refresher` (an epoch, which a logout and a login advance) and `wipes` (the
cache's generation, which a wipe advances); a logout is the six steps of
`SessionLogout.run` and what its caller does next. `Relaunch` is the death of the
process at any moment: only `persisted` and `disk` outlive it, and the counters
begin at 0 again. A value is known by the login whose bearer fetched it.

`PairingCard` and `DetailScreens` are the three screens whose loads overlap: the
pairing card with its timers, the panel of a task, the page of a course.

### Composition

Components that share state extend one another (`AuthSessions` and `KeepAlive`
the Redis store, `MemoryDataCache` the data cache). Components that share none
but are checked together have a variable `machine` that says which of them a
behaviour is of (`MCUpstream`, `MCWebClient`, `MCExtension`, `MCServices`,
`MCAuthSessions` for the sign-ins): the sum of their state spaces, not the
product.

The `MC` modules add history variables (what happened while a request was
served, what has been answered or pushed) that the properties speak about, and
the values of the constants. Definitions named as a variant of another one
(`PlainReplace`, `ScriptOffByOne`, …) are plausible bugs; each property is broken
by one of them under its run's bounds. A few properties are conjunctions, and
each conjunct was broken by a variant of its own: besides the ones listed in
`PROJECT.json`, `To24HourAlways` (Coursework), `isAuthenticatedFailureByCode`
(Dashboard), `LoadKeepsError` (DetailScreens), `OwnerIsNext` and `EntryOfGood`
(KulonCourses), `TakeStateLater` (LegacyAuth), `startPollingAnew` (PairingCard),
`CalendarCountLate` and `gradedSemesterBySks` (SiapRecords).

## 3. Runs

Bounds are named constants in every module. State counts are of distinct states.

| run | property | what it shows |
|---|---|---|
| `redis_session_store` (418 000) | `LifeRefined` | the record implements `SessionLife`: no interleaving revives a session |
| | `QualifiedCallsSpareOthers` | calls with A's token neither delete, rewrite nor slide B's record |
| | `NoLostRenewal` | a renewal only overwrites the snapshot its caller expected |
| | `LogoutIsFinal` | when logout answers `ok`, that generation is not live |
| `auth_sessions` (880 000) | `TokenSeesOwnSession` | guard and service read twice, and a login in between changes nothing |
| | `DeadHasACause` | a token is told it is dead only if somebody changed the record meanwhile, or it came past its absolute cap |
| | `OneOtherRenewalIsMerged` | two services renewed at once: no 409 |
| | `RenewalAnswersTruly` | `renewed` means the live record held the cookie after it was validated; the store's "not a renewal" exception is unreachable from here |
| | `SignInsAreOwn` | a development sign-in's session is of who signed in; a token that names somebody was signed for a session with that person's cookie, and fits no other |
| `keep_alive` (212 000) | `CycleEnds` | liveness: the `running` flag comes down |
| | `OnlyOthersStopACycle` | a cycle that writes several cookies never conflicts with itself: it gives up half-way only after somebody else's change or past the absolute cap |
| `pairing` (2.2 million) | `CodeIsTakenOnce` | one redemption per code, lost replies included |
| | `PairsWithTheIssuingSession` | the token is bound to the session the code was asked for under |
| | `OwnerLearnsOfPairing` | the owner's poll after a pairing is never `pending` |
| `data_cache` (539 000) | `ReadsNeverGoBack` | a reader never sees an older payload than one returned before it started |
| | `DeadSessionIsForgotten` | once the background found the session dead, no later read is served its data |
| | `BackoffIsKept` | background refreshes keep `REFRESH_BACKOFF_MS` after a failure |
| | `WaitersAreWoken` | liveness: whoever joins a flight is answered |
| `notification_poller` (2.1 million) | `RepeatsOnlyAfterFailure` | what was pushed by a worker that came to its end is not pushed again |
| | `NothingIsSkipped` | no task enters the snapshot unseen, whatever fails and however upstream flickers |
| `extension` (800 000) | `LogoutForgetsTokens` | after a logout answered ok, no message is answered with a token minted before |
| | `NoTabOutlives` | a renewal's tab is closed when its caller is answered |
| | `OperationsEnd` | liveness: the queue of logins and logouts empties |
| `upstream` (1.35 million) | `RetrySendsFreshToken` | SIAP: the retry never sends the rejected token, from cache or flight |
| | `AnswersOwnData` | Kulon: shared flights and cache never cross a login |
| | `SesskeyFitsCookie` | a sesskey goes with the cookie it was read with |
| | `OnlyRefusedAreMissing` | a cached aggregate misses only courses of which Kulon refused a page |
| | `WebCapHolds` | never more web subscriptions than the cap |
| `web_client` (1.1 million) | `NoLateToken` | no token is stored in another session generation than it was asked for in, but one of a handoff that a wipe did not stop (section 4) |
| | `RefreshIsFenced` | one refresh per generation; the overlay of a re-login always has a living owner |
| | `RepeatsStayInTheirSession` | retries of the interceptor do not cross a logout, and only reads are repeated |
| | `CacheServesItsOwner` | no reader gets another login's data, nor what was invalidated |
| | `LogoutFencesMobile` | token, caches and dialog of the mobile client are the present session's; one refresh per epoch |
| `services` (987 000) | `ResponsesAreRead` | `invalid` or 401 only after an answer of a dead session or a forbidden page, with the exceptions `TakenForDeath` names; found valid was alive; one telemetry event per attempt |
| | `CourseListIsTrue` | courses nobody touched are listed once and rightly, progress is the course's own, the HTML fallback agrees with the JSON |
| | `CourseworkAgrees` | the dashboard's counts are the filters' lengths; deadlines and the word "overdue" are Moodle's |
| | `DashboardIsHonest` | the backend never answers a payload with a dead session in it; spinners turn exactly while something loads |
| | `RecordsAgree` | detail ids are of the row's course, and of the row where ids can be compared; every course's lecturers are found; charts and sums agree, with a bar exactly where a letter has one; nobody attends more than was held |
| | `ScreensHold` | a screen shows what was opened last, one timer of each kind |
| | `MapLifeRefined` | the in-memory store implements `SessionLife` too |
| `progress_new_year` | `ProgressNeverFalls` | violated, section 4 |
| `mobile_dead_refresh` | `DeadRefreshOpensDialog` | violated, section 4 |

The modules whose state is a protocol's have a type invariant, kept beside the
properties as documentation of the state. All of them hold; `StoreTypeOK`,
`MapTypeOK` and `PairTypeOK` are proved, the others (`AuthTypeOK`, `KeepTypeOK`,
`CacheTypeOK`, `PollTypeOK`, `ExtTypeOK`, `UpstreamTypeOK`, `WebTypeOK`) are
checked by adding the name under `INVARIANTS` of their run.

Why the bounds are enough for the cases to happen:

* *session stores*: two generations, two cookie values, two clients, two writes
  and a lifetime of two ticks give a login that replaces a login, a renewal of a
  renewal, a call that is overtaken between any two of its steps, expiry and cap.
* *auth*: one handler step by step, and one free client that may log in, log
  out and renew twice; time stands still there (`MaxTime` 0), because lifetimes
  are the store run's subject. Sign-ins: two people, two windows, two callbacks
  of one OIDC state, of which three begin.
* *keep-alive*: another client begins one write (a login or a renewal), which may
  land at any moment of a cycle, and any number of reads and logouts: enough for
  every conflict a cycle can meet; the cycle itself writes up to three cookies.
* *pairing*: one code, two requests (of any kind, one after the other), two
  identities with two generations each, and three ticks, so that each of the
  three keys is dropped while another is there.
* *cache*: two readers and three flights: a flight whose removal is late, the
  next one, and the one that a wrong removal would let start.
* *poller*: three cycles: a baseline, a change, and what comes of it; an
  initial state with a saved timetable stands for a fourth, so that a slot can
  move, move back and move again. Two tasks, of which one can be left out; a
  web-push budget of one, so that it runs out. One user: users share nothing but
  the cycle, and what goes wrong when they do is `CyclesDoNotOverlap` (section
  4); the two properties are to be read as "while cycles do not overlap".
* *upstream*: two callers, two courses, two logins, one renewal and two tokens: a
  flight of an earlier login, its cookie renewed, joined by a later call; of two
  courses one fails or is refused while the other arrives. A cap of one, two
  targets and two clients for the registry.
* *extension*: two messages (a login and a logout, in either order, or two of
  one kind), two tokens, two browser events (enough for one to be parked and one
  to be lost) and one relogin; two renewals, one by the timer and one by the
  user, and two logouts or logins during them.
* *web client*: two calls that may share a refresh, one logout, two attempts,
  two tokens, at most three calls and attempts begun at a time; the cache with
  two readers of a nested key, two logins, two versions and three ticks, past
  the stale time of two.
* *mobile client*: two calls of the repository, of any kind, over two logins, a
  logout between them, one rotation of the token and two refreshes; launched with
  or without a value on disk, and killed and launched again at any time.
* *services*: `MaxRequests` 5 is the code's redirect limit plus one. Hours 29 and
  30 are the two sides of midnight in WIB (UTC+7), with deadlines none, none
  but overdue, noon and midnight (36 and 48), where the twelve-hour clock is
  written 12. Months 4 to 12
  contain both a January and a February and the start of a second year. Course
  contents have sections with and without dates, with a gap in the numbering,
  hidden and foreign ones. Three days of which a year has three.

Deadlock is checked in every run where the system cannot stop; where it is
switched off, a bounded supply (cycles, messages, logins, loads) is used up.

Redis is taken to be one server that executes a command atomically and keeps
what it was sent; `Date.now()` and Redis' clock are the same clock.

## 4. Where the code and its documentation disagree

Two runs expect a violation:

* `progress_new_year` — `kulon-parse.ts:199`, a section "counts as ended if its
  end date is in the past in either the current or the next calendar year
  (covers a semester that started last year and ended this winter)". A day of
  the *next* year is never past, so on the first of January every section of the
  autumn is in the future again, and the progress of its course falls to zero.
* `mobile_dead_refresh` — `SessionRefresher.kt:44`, "On dead session
  [onSessionExpired] fires (universal re-login dialog)", and
  `SsoRepository.kt:137`, "dialog … if the refresh itself is 401 (SESSION_DEAD)".
  `Backend.refresh` throws the status without the envelope's code, so a refresh
  the backend answers with `SESSION_DEAD` ends like any rejected one, and no
  dialog opens.

More counterexamples are kept as definitions beside the properties. Each is found
by naming the definition in the configuration given, alone:

* `LogoutClearsMatching` (`MCRedisSessionRaces` with `SPECIFICATION RacesSpec`,
  the constants of `RedisSessionStore.cfg`, `MaxTime = 1`) — `auth.service.ts:285`,
  a matching generation is "cleared, ok". The script compares whole envelopes, so
  a cookie renewal of the *same* login between the logout's GET and its script
  makes `clearIfGeneration` answer false: the client gets 401 and the session
  lives on. (`getIfGeneration` has the same window: a live session is reported
  dead once. `DeadHasACause` shows that this needs a concurrent write.)
* `RotatedIsWritten` (`KeepAlive.cfg`) —
  `session-keepalive.service.ts:28`, "A rotated cookie is written immediately".
  All three probes run first, and the deadline check at line 151 lies between
  them and the first write, so a rotated cookie can be dropped although upstream
  no longer accepts the old one.
* `UsedCodeIsInvalid` (`Pairing.cfg`) — `pairing.service.ts:67`, a used code is
  `INVALID`. With Redis `pair-exp:` survives the redemption and the second
  attempt is answered `EXPIRED_CODE`. (The in-memory store, which the unit test
  uses, does answer `INVALID`.)
* `CyclesDoNotOverlap` (`NotificationPoller.cfg` with two users, one task, one
  slot) — `poller.service.ts:39`, no overlap thanks to lock and flag. An exception
  of `sendReloginOnce()` is not caught; the cycle ends and lowers the flag while
  the other worker of the chunk goes on, and the lock expires after 900 s.
* `ReloginOncePerEpisode` (a `PROPERTY`; `NotificationPoller.cfg`, one task, one
  slot) — `poller.service.ts:216`, at most one push per episode. The push comes
  before the flag is saved.
* `RegisteredIsPolled` (`Upstream.cfg`) — `notifications.controller.ts`,
  "'added' and 'duplicate' are both success". A `duplicate` skips the index, and
  a removal's SREM may come after another request's SADD: the user has a
  subscription and is never polled.
* `SharedCookieIsMine` (`Upstream.cfg`) — `kulon-upstream.session.ts:268`, "same
  generation means the same cookie material". A renewal keeps the generation;
  a caller joins a flight that was begun with the cookie before.
* `KilledLogoutForgetsTokens` (`Extension.cfg`, `MaxEvents = 1`, `MaxFences = 0`) —
  `background.ts`: a cached result "tagged with an OLDER epoch is rejected by
  every poll". A handoff that runs on persists its epoch over a newer one, and a
  poll never compares the tag; a worker killed within a logout can leave a token
  that a later poll is answered with.
* `LateResultNeverCommits` (`WebClient.cfg`) — `LoginView.vue:208`, "A late
  pre-logout result arriving after endLogout (epoch bumped, flag down) never
  commits". The listener compares the page's epoch with that of its own view
  (line 218), and the extension's results carry none. The logout's wipe is
  best-effort and waits five seconds (`auth.ts:507`), and the extension parks it
  behind a POST that runs (`flow-runner.ts:34`) and pushes that POST's token
  first (`background.ts:385`): the login view mounted after such a logout takes
  the token and signs in the student who has just logged out.
* `NothingExpiredIsShown` (`WebClient.cfg`) — `cache.ts:58`, "fresh → cache;
  stale → cache + background refresh …; expired/miss → sync fetch".
  `stores/kulon.ts` calls `getCached` inside the fetcher of `getCached` with the
  same key: the inner call answers the stale value, which the outer one stores
  as just received.
* `CachesAreOfLastLogin` (`WebClient.cfg`) — `CacheCoordinator.kt:28`, fetches
  "from the old session cannot repopulate either cache after the wipe". The
  bearer is dropped four steps after the wipe; a read begun in between belongs to
  the new generation, and is cached if the backend could not be told of the
  logout. The next login finds it.
* `LostTokenLogsOut` (`WebClient.cfg`) — `stores/auth.ts:180`, "the axios
  interceptor wipes the token and redirects to /login". Only `localStorage` is
  wiped; the store's token stays, and the router's guard sends the page back.

Other places where the code does not do what its neighbourhood says, met while
modelling and kept in the models as the code has them:

* *development sign-ins*: a capture gives whoever asks the session that is stored
  and its owner's name, without asking who is there
  (`legacy-auth.service.ts:58`); `TokensNameTheOwner` says only that name, token
  and session belong together.
* *session store*: a plain read slides the Redis lifetime of a record past its
  absolute cap; the next read takes it for dead.
* *extension*: the fresh worker bumps its epoch and `restoreEpoch` then jumps it
  again, so that a login begun meanwhile is answered "Login dibatalkan karena
  logout."; `removeResultForEpoch` removes whatever epoch the result is of; a
  parked event is overwritten by the next one although `flow-runner.ts` promises
  that no cookie change is lost; a worker killed in `captureRenewalTicket` leaves
  its tab; a second handoff right after `HANDOFF_OK` mints a second token.
* *SIAP*: a rejected token's key is deleted without looking whether another
  request has stored a newer one (costs a mint, and each mint revokes the last);
  a background retry may go on in another generation; the calendar's semester
  count is one more than the label's in January; a cached schedule older than the
  attendance gives more classes attended than held (the exception in
  `AttendanceFits`); a detail is attached without a comparison where the row or
  the icon has no id, so that it may be of another term's row of the same course;
  a semester with grades whose letters the chart does not know has no bar there.
* *Kulon*: a sesskey page keeps its historical 401 on a 5xx, a 429 is no outage,
  a torn body is "malformed" (`TakenForDeath`); a sesskey rejected by Moodle
  stays cached; a page of a course that answers 404 or below 400 counts as
  empty, and the list without that course's tasks is cached
  (`kulon.service.ts:877`, whose comment keeps the "previous complete list"
  after typed failures only); a task without a date that Moodle calls overdue is
  filtered as late and shown as due (`assignStatus`); a course hidden while in
  progress gets `past` and so full progress; the hidden copy of a course wins
  although a comment gives the visible one priority; a course un-hidden between
  the three timeline requests is missing.
* *dashboard*: its counts include assignments the student hid. (That an older
  load's value or error could replace a newer one's is an excess of the model, in
  which each load has requests of its own: in the code they share `api/cache.ts`.)
* *web client*: a late answer about an old code stops the new code's polling; the
  late detail of task A is shown under task B; an older course's content can land
  under the newer one when its recovery ran on after the navigation. `ScreensHold`
  states exactly under which conditions this cannot happen (`alone`, `stray`).
* *mobile client*: `safe` does not catch what the repeated call throws if it is no
  `ApiHttpException` (`SessionRefresher.kt:198`), although every other failure of a
  repository call is an `ApiResult`.
* *registry*: concurrent changes of the device tokens overwrite one another.

## 5. What is proved

Eight proof modules, each beside its component. All theorems hold for every value
of the constants that satisfies the named assumptions of the modules: any number
of clients, callers, codes, logins, tokens and any lifetimes. In each, the
properties alone are not inductive; the invariant says what every process in the
middle of something has read or is about to write.

* **`RedisSessionStoreProofs`** (`LifetimesAssumption`, `GenerationsAssumption`,
  `CookiesAssumption`, `BoundsAssumption`, `NullsAssumption`,
  `CapturesAssumption`). `StoreInv` adds to the types three parts. `FreshSets`: a
  client about to `SET` carries a session whose generation has been drawn and not
  stored, and no two clients carry the same, so a `SET` always starts a life
  `SessionLife` has not seen. `RecordStored`: the generation in Redis has been
  stored. `Sound`, of each client: at the moment the replacing script is called,
  the envelope it compares with decrypts to the very session the caller expected
  and the replacement is a one-cookie renewal of it. From it follow
  `StoreTypeCorrect`, `StoreImplementsLife` (`Set` maps to `Establish`, a
  successful `CasReplace` to `Renew`, a successful `CasDelete`, an expiry and
  `RotateKey` to `End` or a stutter, everything else to a stutter).
  `LogoutsAreFinal`, `QualifiedCallsAreHarmless` and `NoRenewalIsLost` need a
  second invariant, `AnswerInv`: a command that compares envelopes was only sent
  for an envelope that is unreadable, over its cap or of the call's own
  generation, and a generation whose logout was answered `true` is not in the
  record, where only generations not stored before come.
* **`ServicesProofs`** (those of the Map adapter, `WalkBound`,
  `ScreensAssumption`, `DashAssumption`, `CourseworkAssumption`,
  `RecordsAssumption`, `CoursesAssumption`), every property of `services`, over
  the parts of `MCServices` that share nothing; `ServicesInv` puts their
  invariants together. In-memory session store: `MapTypeCorrect`,
  `MapImplementsLife`. Operations are atomic, so the invariant is short: the
  types, and that the record's generation was stored. A snapshot held across
  awaits may be of any age; that it can renew the record it is of and nothing
  else is shown where it is used. With this both adapters are proved to keep the
  one promise, on which `Pairing` relies. Upstreams' answers: `AnswersAreRead`.
  `RespInv`: a visit that has met a dead session goes on at a site where it is
  dead, since a login comes between two visits only, so no later answer of the
  visit is a living one; a walk is at the login page, or carries the anonymous
  visitor's cookie, only after it met one. `WalkBound` says that a walk may
  follow one redirect (the code follows four): a limit of one request would
  leave a living session's first redirect unfollowed, and unjudged. Screens:
  `ScreensShowWhatWasAsked`. `CardInv` ties the handles of the card's timers to
  the timers that tick. `PanelInv`: a panel that was opened for the item shown
  and never disturbed has its load still coming or its content in place.
  `ViewInv`: each load under way carries the course it asked for, that of the
  page unless the page was left while its content was loading, and a page that
  is neither loading nor being recovered has its content or an error. Sections
  are open as they were when the content came, and the outline does not change
  while a page is shown. Dashboard: `DashboardTellsTheTruth`. A payload is what
  `getDashboard` makes of slices that have all settled (`ServerInv`), and a
  spinner's counter is the number of requests of its source under way
  (`SpinnerInv`, with the library's facts about cardinalities). Coursework:
  `CourseworkIsTold`. `WorkInv` ties the list in hand to Moodle's dates as they
  were when it was fetched; a filter's list and a dashboard's count are
  cardinalities of one set of rows, split by what is hidden; deadlines are read
  with or without a date, and "overdue" from the word where there is none.
  Records: `RecordsAreTold`. `GradesArePast`: a grade is of a term before the
  one under way, which is why the charts of grades never show it; a graded
  course has credits, so its semester is in the chart of credits; a semester has
  a bar if one of its rows is of a letter the chart knows (`SemesterRows`); a
  detail that is attached is of the row's course by the search, and of the row
  itself only by the comparison of ids, which the code skips where one is
  missing; and a semester left out there adds nothing, so both sums are the
  same. `RecordsInv` bounds what was attended by what was held, planned and, in
  the cached schedule, known. Courses: `UntouchedStayListed` and
  `CourseListIsTold`. `CoursesInv` follows a request: a class that has answered
  is right about every course not touched since the request began (`OfClass`),
  the merged list has each of them once (`Complete`), and in the batch and with
  the workers (`Scraped`) a listed course has the progress of its page on a day
  since then, or has failed, or is one a worker has or will take.
  `CourseListIsTold` is of contents whose two renderings agree
  (`RenderingsAgree`, the conjunct `FallbackAgrees` of the run): that the page a
  course falls back to says what the state says is a fact about two parsers over
  whole pages, which TLC checks of the run's contents. `UntouchedStayListed`
  needs no such condition. The sequences of these three models come from sets in
  some order (`OrderIsThere`, `SetAsSeq`, `PickedAre`), their sums from a
  recursive function whose existence is shown by its least missing argument
  (`SumsAreThere`).
* **`AuthSessionsProofs`** (`HandlersAssumption`, `PeopleAssumption`, with those
  of the store): over `StoreInv`, two invariants. `AuthInv` ties the place of a
  request to the store call its handler awaits: which operation, under which
  generation, with which snapshot, and what it may return.
  `GuardedRequestsSeeTheirSession` follows, and that the store's "not a renewal"
  exception is never reached. `SeenInv` ties what the history saw of the record
  since a request began to what the request has read of it: undisturbed, the
  record is of the request's generation and so is any envelope in its hand;
  after the other service's renewal alone, snapshot and record differ in that
  cookie only, and the second snapshot is the record itself.
  `RefusalsHaveACause`, `OtherRenewalsAreMerged` and `RenewalsAnswerTruly`
  follow, for every lifetime (the run has no absolute cap; the theorem names it
  as the one other cause of a refusal). `SignInsAreKept` is of the development
  sign-ins, and takes the fallback identity "sso" and the OIDC states to be
  nobody's name at Kulon (`PeopleAssumption`). `OwnersInv`: cookies are numbered
  as they are handed out, and the cookie a capture is about to store with a
  person's identity, or a stored session of that person has, is that person's.
  Generations are numbered as they are drawn, so that one is of one session and
  one cookie, and a token's name is what its cookie said when the session was
  stored. `StatesInv`: an OIDC state that a callback in flight or a token holds
  is that one's alone and is spent.
* **`KeepAliveProofs`**: `CyclesStopForOthers`. `KeepInv`: as long as nobody else
  has changed the record, the snapshot the cycle expects is what the record holds,
  before and after each of its own writes, and the cookie still to be written is
  another than the one the snapshot has. The record may still grow past its
  absolute cap between two writes; the property says so.
* **`PairingProofs`**: `PairTypeCorrect`, `CodesAreTakenOnce`. A code that was
  taken must not be set again: the requests that still write a code's keys have
  drawn different codes, none of them shown yet, and what is redeemed was shown;
  the one request that holds a code finds its key gone, also when a GETDEL whose
  reply was lost is followed by the script. `PairedWithTheIssuer` and
  `OwnersLearn`, for `MCPairing`'s history, need `BookInv`: whose session a code
  stands for at every place it passes through, that a session that is over stays
  over (a login draws a generation not used before: the promise of `SessionLife`,
  proved of both adapters), and that the mark of a redeemed code lasts.
* **`DataCacheProofs`**, both adapters: `ReadersGoForward`,
  `DeadSessionsAreForgotten`, `UpstreamIsSpared`, `FlightsAreSingle`. Flights
  begin in the order of their numbers, one at a time, and the one under way is
  the newest. So the payloads in the cache, seen by a reader or about to be
  stored are newer than the last purge and no older than anything answered.
* **`UpstreamProofs`** (`PollerAssumption` in its last part), four parts. Push
  registry: `WebCapIsKept`. A removal writes back a list it read before others
  changed it; that list was within the cap when it was read, and a registration
  never writes one back. (Uses the library's facts about cardinalities.)
  Kulon client (also `CallersAreNoFlights`): `AnswersAreOwn`, `SesskeysFit`,
  `OnlyRefusalsAreLost`. By the key of a flight: its cookie, what it ends with and
  what the cache holds for its scope belong to that scope's login, and whoever
  waits for it is in that scope; a flight at its pages has each course in hand,
  refused, or still to ask for.
  SIAP client: `RetriesAreFresh`. A token can be got from one place at a time: the
  flight that minted it, then the cache of one generation. Once a call has it no
  flight can bring it, so deleting the cache of the call's generation leaves
  nowhere to get it from. Caches and flights hold different tokens, none of the
  future.
  Poller: as the finding of section 4 shows, two cycles do work on one user, so
  `NoTaskIsSkipped` and `RepeatsAfterFailure` say what holds wherever they do not
  (`[]CyclesDoNotOverlap`), and `OverlapNeedsAStraggler` that only the case of the
  finding makes them: while every cycle that a worker rejects had no other worker
  going on, at most one cycle is in, the one the flag and the lock are for
  (`OneCycle`). The condition cannot be dropped, and `OneUserIsServedRight` needs
  none. `PollInv`: whatever is pending is new to what is saved; the worker carries
  what it will save, and that shows everything it has pushed, until it is saved or
  the worker is off and has pushed in vain; a new task of the list is pending,
  pushed or dropped until the list is saved.
* **`WebClientProofs`** (`NoneIsNothing`, `WebBounds`, `NilIsNothing`,
  `MobileBounds`, `ExtensionBounds`, `RenewalBounds`): every property of
  `web_client`, over its three clients, and the two invariants of `extension`.
  `NoTokenIsLate`, `RepeatsAreOwn`: the gate is shut exactly during a logout;
  refreshes and captures commit in the epoch they began in only, and what the
  extension brings is of a handoff in `extFlows`, which only an unconfirmed wipe
  leaves behind; an unfinished call was last sent in the
  generation it was made in, and only a read is ever sent twice.
  `RefreshesAreFenced`: the calls that exist are a prefix of their numbers, so a
  new one takes nobody's place; a refresh that calls join is of the present
  generation, and a number that is not in use exists while there are fewer
  refreshes than numbers. `CacheIsOfItsOwner`: a fetch that may still write was
  sent with the session's own token and after the last invalidation of its key.
  `MobileLogoutIsFinal`: an epoch and a number of a persisted session never come
  back, so whoever holds the current ones was started in the session on screen,
  and nobody holds any after a start without a token.
  `LogoutForgetsTheTokens`: that no token saved is older than the last logout is not
  inductive, since a POST under way may still bring one. `LoginInvariant` follows a
  logout through the queue and the runner: the runner, at work or holding one parked
  event, does not lose a logout that waits for it, and a request under way has its
  handoff waiting at the head of the queue, so a logout at the head excludes it; once
  the logout has run (`Ended`) there is no flow, and what the browser tells starts
  none, until the logout has been answered. A step that fails meanwhile leaves the
  logout marked as not clean, and it is not answered ok. `TabsAreClosed`: only a
  capture, whose listeners are registered, has a tab open, and a tab still to come
  is either awaited or has been given up, and is closed then.

Only model-checked: the liveness properties `CycleEnds`, `WaitersAreWoken` and
`OperationsEnd`, as ENABLED is out of the prover's reach; that the HTML page of a
course agrees with its JSON state (`RenderingsAgree`), whose parsers select from and
flatten sequences by definitions the provers have not; and the two refutations of
section 4, which are counterexamples.

## 6. Fairness

* `KeepAlive`: weak fairness of the steps a running cycle waits for: probes have
  timeouts (their outcomes include the timeout), Redis answers, and the Node
  event loop runs continuations. Nothing is assumed of other clients, of new
  cycles or of time.
* `DataCache` (`MCFairSpec`): weak fairness of each flight's next step: upstream
  fetches time out and Redis commands succeed or fail. Readers need not move.
* `Extension` (`ExtFairness`): weak fairness of the flow runner's and the queue's
  next step: the browser's promises settle and the backend's fetch ends, as long
  as the worker lives; a kill empties the queue. Nothing is assumed of messages,
  tabs, cookies or restarts.

Everything else is checked and proved without fairness.

## 7. What is not modelled

* *Session store*: Redis commands that fail or lose their reply (pairing, cache
  and poller have such failures); `clear()`, which nothing calls.
* *Auth*: `me()` and its probe cache; dev login; JWT signatures and expiry;
  `captureSession` over CDP, which nothing calls; the pages Playwright clicks
  through.
* *Pairing*: the in-memory store, used where there is no Redis.
* *Data cache*: the plain `get`/`set` and the eviction of the in-memory cache (the
  plain ones over Redis are in `SiapClient`, as the token's cache).
* *Notifications*: lifetimes of snapshots, sent keys and the re-login flag (14 and
  30 days); what the senders do with a push but its outcome.
* *Kulon, SIAP*: descriptions, attachments and layout; the parser of an
  assignment's own page; forum and events, which are reads like the others;
  `parseAbsenTable`, `parseDetailNilaiTable`, `dedupeSchedule` and the `nim` check
  of a grade's detail.
* *Transport*: the platform fetch's own timeout and host rules.
* *Extension*: content scripts, icons, host permissions, popup; writes to
  `chrome.storage` that fail; the runner's limit of twenty steps, which no run of
  the bounds reaches.
* *Web client*: a reload of the page and a login from the URL other than at the
  start; more than one upstream service at a time; the views that only show a
  store; hidden assignments shared between tabs.
* *Mobile client*: push registration, the WebView login and the renewal of an
  upstream's cookies, the history of notifications, and the screens; the order of
  two writes to disk that wait at the same time (any may come first); at most
  one key of the cache.
* HTTP filters, configuration and telemetry sinks carry no state the properties
  are about. The tools are straight-line scripts.

## 8. Where to go on

1. Failing and lost Redis commands in `RedisSessionStore`, with `me()` and its
   probe cache beside `AuthSessions`.
2. The extension and the web session in one model, with the bridge between them
   as a channel that may lose messages.
