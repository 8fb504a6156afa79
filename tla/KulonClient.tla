---------------------------- MODULE KulonClient ----------------------------
(***************************************************************************)
(* KulonService and KulonUpstreamSession: course lists and the assignment  *)
(* aggregate of one user, read with the Kulon cookie of the live session.  *)
(*                                                                         *)
(* A call runs in a single flight of its method and scope, which is the    *)
(* generation of the caller's token, or Current for the poller.  The       *)
(* flight reads the session, gets the sesskey of its cookie, and reads     *)
(* through the data cache; a refresh of the cache is a flight too, as are  *)
(* the timeline, which all methods share, and the sesskey.  Whoever joins  *)
(* a flight gets what it was started with: another cookie, perhaps.        *)
(***************************************************************************)
EXTENDS Naturals

CONSTANTS Callers,     \* requests and poller cycles
          CourseIds,   \* the courses the timeline shows
          Methods,     \* those of "list", "courses" and "all" that are called
          MaxLogins,   \* bound on the logins
          MaxRenewals, \* bound on the cookie renewals of a login
          MaxCalls,    \* bound on the calls of a caller
          MaxAges      \* bound on how often something in the cache grows old

ASSUME KulonBounds ==
    /\ Methods \subseteq {"list", "courses", "all"} /\ "list" \in Methods
    /\ MaxLogins \in Nat \ {0} /\ MaxRenewals \in Nat /\ MaxCalls \in Nat
    /\ MaxAges \in Nat

VARIABLES live,     \* the live session's cookie; NoCookie after a logout
          logins,   \* the logins so far: the last one's generation
          sesskeys, \* the cached sesskeys: the cookie of each key's page
          cached,   \* the cached payloads
          proc,     \* the callers and the flights
          calls,    \* the calls each caller has made
          ages      \* how often something in the cache grew old

kulonVars == <<live, logins, sesskeys, cached, proc, calls, ages>>

\* A cookie, by its login and how often it was renewed since: the generation of
\* the session stays, the cookie changes.
Cookies == (1..MaxLogins) \X (0..MaxRenewals)

NoCookie == <<0, 0>>

\* A generation, or the poller's namespace.
Current == 0

Scopes == 0..MaxLogins

FlightKeys ==
    ({"run", "refresh"} \X Methods \X Scopes) \cup ({"timeline"} \X {"timeline"} \X Scopes)
    \cup ({"sesskey"} \X {"sesskey"} \X Cookies)

ASSUME CallersAreNoFlights == Callers \cap FlightKeys = {}

\* A payload: the cookie it was fetched with, the courses it covers, and those it
\* leaves out since Kulon refused one of their pages.
Payload(cookie, rows, refused) ==
    [ok |-> TRUE, cookie |-> cookie, rows |-> rows, refused |-> refused]

Failure == [ok |-> FALSE, cookie |-> NoCookie, rows |-> {}, refused |-> {}]

Payloads ==
    {Failure} \cup [ok : {TRUE}, cookie : Cookies, rows : SUBSET CourseIds,
                    refused : SUBSET CourseIds]

\* `on` is the flight a process awaits, `got` what the last one ended with.
Free == [pc |-> "off", on |-> <<>>, cookie |-> NoCookie, sesskey |-> NoCookie,
         rows |-> {}, refused |-> {}, got |-> Failure]

NoEntry == [age |-> "none", value |-> Failure]

KulonInit ==
    /\ live = <<1, 0>> /\ logins = 1
    /\ sesskeys = [k \in Cookies |-> NoCookie]
    /\ cached = [k \in Methods \X Scopes |-> NoEntry]
    /\ proc = [p \in Callers \cup FlightKeys |-> Free]
    /\ calls = [c \in Callers |-> 0] /\ ages = 0

-----------------------------------------------------------------------------
(* Single flights: createKeyedSingleFlight.  The operators change a state of *)
(* the processes `pr`, so that a step may end one flight and start another.  *)

\* run(key): p awaits the flight, which p starts if nobody has, at `pc` and with
\* its own cookie and sesskey.
Joined(pr, p, key, pc) ==
    LET started == [Free EXCEPT !.pc = pc, !.cookie = pr[p].cookie, !.sesskey = pr[p].sesskey]
    IN [pr EXCEPT ![key] = IF @.pc = "off" THEN started ELSE @,
                  ![p].pc = "await", ![p].on = key]

\* The flight ends, and everyone who awaits it gets its outcome.
Settled(pr, key, outcome) ==
    [p \in DOMAIN pr |->
       IF p = key THEN Free
       ELSE IF pr[p].on = key THEN [pr[p] EXCEPT !.pc = "got", !.on = <<>>, !.got = outcome]
       ELSE pr[p]]

\* A background refresh is started and not awaited.
Started(pr, p, key, pc) ==
    IF pr[key].pc # "off" THEN pr
    ELSE [pr EXCEPT ![key] = [Free EXCEPT !.pc = pc, !.cookie = pr[p].cookie,
                                          !.sesskey = pr[p].sesskey]]

At(key, pc) == proc[key].pc = pc

Goto(p, pc) == proc' = [proc EXCEPT ![p].pc = pc]

-----------------------------------------------------------------------------
(* The callers                                                               *)

\* A mutation: flights and payloads of all generations under one key.
ScopeOfSub(generation) == 1

\* flightKeyForSession, cacheKeyForSession
ScopeOf(generation) == generation

\* getCourseList, getCourses, getCourseSummary, getAllAssignments: the guard has
\* let the token of the live session through.
CallMethod(c, method) ==
    /\ proc[c].pc \in {"off", "got"} /\ calls[c] < MaxCalls /\ live # NoCookie
    /\ calls' = [calls EXCEPT ![c] = @ + 1]
    /\ proc' = Joined([proc EXCEPT ![c] = [Free EXCEPT !.cookie = live]], c,
                      <<"run", method, ScopeOf(live[1])>>, "context")
    /\ UNCHANGED <<live, logins, sesskeys, cached, ages>>

\* getAllAssignmentsForCurrentSession
Poll(c) ==
    /\ "all" \in Methods
    /\ proc[c].pc \in {"off", "got"} /\ calls[c] < MaxCalls
    /\ calls' = [calls EXCEPT ![c] = @ + 1]
    /\ proc' = Joined([proc EXCEPT ![c] = Free], c, <<"run", "all", Current>>, "context")
    /\ UNCHANGED <<live, logins, sesskeys, cached, ages>>

-----------------------------------------------------------------------------
(* A method's flight: the session, the sesskey, the cache.                   *)

\* getContextForSession, getContextForCurrent: the session of the scope is live.
Context(key) ==
    /\ At(key, "context")
    /\ IF live # NoCookie /\ key[3] \in {Current, ScopeOf(live[1])}
       THEN proc' = [proc EXCEPT ![key].pc = "sesskey", ![key].cookie = live]
       ELSE proc' = Settled(proc, key, Failure)
    /\ UNCHANGED <<live, logins, sesskeys, cached, calls, ages>>

\* A mutation: one sesskey per generation, whatever its cookie.
SesskeyPerLogin(cookie) == <<cookie[1], 0>>

\* The key of a sesskey: the generation and the fingerprint of the cookie.
SesskeyKey(cookie) == cookie

\* resolveSesskey: the cached sesskey, or the flight that reads one.
Resolve(key) ==
    LET cookie == proc[key].cookie
        known  == sesskeys[SesskeyKey(cookie)] IN
    /\ At(key, "sesskey")
    /\ proc' = IF known # NoCookie
               THEN [proc EXCEPT ![key].pc = "cache", ![key].sesskey = known]
               ELSE Joined(proc, key, <<"sesskey", "sesskey", SesskeyKey(cookie)>>, "page")
    /\ UNCHANGED <<live, logins, sesskeys, cached, calls, ages>>

\* fetchSesskeyOrThrow
Sesskey(key) ==
    /\ At(key, "page")
    /\ \E answer \in {Payload(proc[key].cookie, {}, {}), Failure} :
         proc' = Settled(proc, key, answer)
    /\ UNCHANGED <<live, logins, sesskeys, cached, calls, ages>>

\* Every owner of a method's flight that awaited the sesskey caches it.
Resolved(key) ==
    LET got == proc[key].got IN
    /\ At(key, "got") /\ key[1] = "run" /\ proc[key].sesskey = NoCookie
    /\ IF got.ok
       THEN /\ sesskeys' = [sesskeys EXCEPT ![SesskeyKey(proc[key].cookie)] = got.cookie]
            /\ proc' = [proc EXCEPT ![key].pc = "cache", ![key].sesskey = got.cookie]
       ELSE proc' = Settled(proc, key, Failure) /\ UNCHANGED sesskeys
    /\ UNCHANGED <<live, logins, cached, calls, ages>>

\* getStale: fresh data answer, stale data answer while a refresh starts, and
\* without data the refresh is awaited.
Lookup(key) ==
    LET refresh == <<"refresh", key[2], key[3]>>
        entry   == cached[<<key[2], key[3]>>] IN
    /\ At(key, "cache")
    /\ proc' = CASE entry.age = "fresh" -> Settled(proc, key, entry.value)
                 [] entry.age = "stale" ->
                        Settled(Started(proc, key, refresh, "load"), key, entry.value)
                 [] OTHER -> Joined(proc, key, refresh, "load")
    /\ UNCHANGED <<live, logins, sesskeys, cached, calls, ages>>

\* The awaited refresh has ended, and the method's flight with it.
Refreshed(key) ==
    /\ At(key, "got") /\ key[1] = "run" /\ proc[key].sesskey # NoCookie
    /\ proc' = Settled(proc, key, proc[key].got)
    /\ UNCHANGED <<live, logins, sesskeys, cached, calls, ages>>

-----------------------------------------------------------------------------
(* A refresh                                                                 *)

\* fetchAllAssignments takes the course list, from the list's flight if there
\* is one; fetchCourses takes the timeline.
Load(key) ==
    /\ At(key, "load") /\ key[1] = "refresh"
    /\ proc' = IF key[2] = "all"
               THEN Joined(proc, key, <<"run", "list", key[3]>>, "cache")
               ELSE Joined(proc, key, <<"timeline", "timeline", key[3]>>, "load")
    /\ UNCHANGED <<live, logins, sesskeys, cached, calls, ages>>

\* fetchTimelineBase: one of its three AJAX calls failing fails them all.
Timeline(key) ==
    /\ At(key, "load") /\ key[1] = "timeline"
    /\ \E answer \in {Payload(proc[key].cookie, CourseIds, {}), Failure} :
         proc' = Settled(proc, key, answer)
    /\ UNCHANGED <<live, logins, sesskeys, cached, calls, ages>>

\* What the cache does with a refresh that fails: the entry is kept, or
\* dropped if the session is found dead.
FailRefresh(key) ==
    /\ proc' = Settled(proc, key, Failure)
    /\ cached' \in {cached, [cached EXCEPT ![<<key[2], key[3]>>] = NoEntry]}

EndRefresh(key, payload) ==
    /\ proc' = Settled(proc, key, payload)
    /\ cached' = [cached EXCEPT ![<<key[2], key[3]>>] = [age |-> "fresh", value |-> payload]]

\* The list is there.  A list of courses is enriched with progress and
\* lecturers, as far as they can be had, and stored.
Listed(key) ==
    LET got == proc[key].got IN
    /\ At(key, "got") /\ key[1] = "refresh"
    /\ IF ~ got.ok THEN FailRefresh(key)
       ELSE IF key[2] # "all" THEN EndRefresh(key, got)
       ELSE Goto(key, "pages") /\ UNCHANGED cached
    /\ UNCHANGED <<live, logins, sesskeys, calls, ages>>

\* The courses whose pages the workers have not had yet.
PagesLeft(key) == proc[key].got.rows \ (proc[key].rows \cup proc[key].refused)

\* A mutation: a page that failed counts as one without rows.
PagesSwallowed(key) ==
    /\ At(key, "pages")
    /\ \E c \in PagesLeft(key) :
         \/ proc' = [proc EXCEPT ![key].rows = @ \cup {c}]
         \/ proc' = [proc EXCEPT ![key].refused = @ \cup {c}]
         \/ proc' = [proc EXCEPT ![key].got.rows = @ \ {c}]
    /\ UNCHANGED <<live, logins, sesskeys, cached, calls, ages>>

\* A worker has the assignment and the quiz index of a course.  A page that Kulon
\* refuses, by a 404 or a status below 400, is one without rows; every other failure
\* is a StaleUpstreamError, and rejects the aggregate.
Pages(key) ==
    /\ At(key, "pages") /\ PagesLeft(key) # {}
    /\ \/ /\ \E c \in PagesLeft(key) :
               \/ proc' = [proc EXCEPT ![key].rows = @ \cup {c}]
               \/ proc' = [proc EXCEPT ![key].refused = @ \cup {c}]
          /\ UNCHANGED cached
       \/ FailRefresh(key)
    /\ UNCHANGED <<live, logins, sesskeys, calls, ages>>

\* All workers are through: the cookie of the pages is the aggregate's.
Aggregated(key) ==
    /\ At(key, "pages") /\ PagesLeft(key) = {}
    /\ EndRefresh(key, Payload(proc[key].cookie, proc[key].rows, proc[key].refused))
    /\ UNCHANGED <<live, logins, sesskeys, calls, ages>>

-----------------------------------------------------------------------------
(* The rest of the backend, and time                                         *)

RenewCookie ==
    /\ live # NoCookie /\ live[2] < MaxRenewals
    /\ live' = <<live[1], live[2] + 1>>
    /\ UNCHANGED <<logins, sesskeys, cached, proc, calls, ages>>

Login ==
    /\ logins < MaxLogins
    /\ logins' = logins + 1 /\ live' = <<logins', 0>>
    /\ UNCHANGED <<sesskeys, cached, proc, calls, ages>>

Logout ==
    /\ live # NoCookie /\ live' = NoCookie
    /\ UNCHANGED <<logins, sesskeys, cached, proc, calls, ages>>

\* Entries grow stale and expire; a sesskey lives five minutes.
Age ==
    /\ ages < MaxAges /\ ages' = ages + 1
    /\ \/ /\ \E k \in {k \in DOMAIN cached : cached[k].age # "none"} :
               cached' = [cached EXCEPT ![k] = IF @.age = "fresh" THEN [@ EXCEPT !.age = "stale"]
                                               ELSE NoEntry]
          /\ UNCHANGED sesskeys
       \/ /\ \E k \in {k \in Cookies : sesskeys[k] # NoCookie} :
               sesskeys' = [sesskeys EXCEPT ![k] = NoCookie]
          /\ UNCHANGED cached
    /\ UNCHANGED <<live, logins, proc, calls>>

FlightStep ==
    \E key \in {k \in FlightKeys : proc[k].pc # "off"} :
       \/ Context(key) \/ Resolve(key) \/ Sesskey(key) \/ Resolved(key) \/ Lookup(key)
       \/ Refreshed(key) \/ Load(key) \/ Timeline(key) \/ Listed(key) \/ Pages(key)
       \/ Aggregated(key)

CallerStep ==
    \E c \in Callers : (\E m \in Methods : CallMethod(c, m)) \/ Poll(c)

KulonNext == FlightStep \/ CallerStep \/ RenewCookie \/ Login \/ Logout \/ Age

KulonSpec == KulonInit /\ [][KulonNext]_kulonVars

-----------------------------------------------------------------------------
(* Properties                                                                *)

KulonTypeOK ==
    /\ live \in Cookies \cup {NoCookie} /\ logins \in 1..MaxLogins
    /\ sesskeys \in [Cookies -> Cookies \cup {NoCookie}]
    /\ cached \in [Methods \X Scopes -> [age : {"none", "fresh", "stale"}, value : Payloads]]
    /\ \A p \in Callers \cup FlightKeys :
          /\ proc[p].pc \in {"off", "await", "got", "context", "sesskey", "cache", "page",
                             "load", "pages"}
          /\ (proc[p].pc = "await") <=> (proc[p].on \in FlightKeys)
          /\ proc[p].pc = "await" => proc[proc[p].on].pc # "off"
          /\ proc[p].got \in Payloads

\* Nobody is answered with another login's data: what a token of one generation
\* gets was fetched with a cookie of that generation, however flights, cache
\* entries and sessions were shared and replaced meanwhile.
AnswersOwnData ==
    \A c \in Callers :
       proc[c].pc = "got" /\ proc[c].got.ok /\ proc[c].cookie # NoCookie
          => proc[c].got.cookie[1] = proc[c].cookie[1]

\* A sesskey is sent with the cookie it was read with, through renewals that
\* change the cookie and keep the generation.
SesskeyFitsCookie ==
    \A key \in FlightKeys :
       proc[key].sesskey # NoCookie => proc[key].sesskey = proc[key].cookie

\* A stored aggregate leaves out only courses that Kulon itself refused a page of: a
\* gateway's failure, a dead session or a broken transport on one page of one course
\* rejects the whole, and the list that was there before is kept
\* (fetchAllAssignments, fetchAssignmentIndex, fetchQuizIndex).
OnlyRefusedAreMissing ==
    \A s \in Scopes :
        LET aggregate == cached[<<"all", s>>] IN
        ("all" \in Methods /\ aggregate.age # "none")
        => CourseIds \ aggregate.value.rows \subseteq aggregate.value.refused

\* kulon-upstream.session.ts says "same generation means the same cookie
\* material, so sharing is safe": what awaits a flight has the flight's cookie.
SharedCookieIsMine ==
    \A key \in FlightKeys :
       proc[key].pc = "await" /\ proc[key].cookie # NoCookie
          => LET flight == proc[proc[key].on] IN
             flight.cookie # NoCookie => flight.cookie = proc[key].cookie

=============================================================================
