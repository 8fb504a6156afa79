---------------------------- MODULE MCServices ----------------------------
(***************************************************************************)
(* Eight parts of the system that share no variable: what upstreams'       *)
(* answers mean, the course list, coursework, the dashboard at the backend *)
(* and in the web client, a student's records, the pairing card, the panel *)
(* and the page of a course, and the in-memory session store.  A behaviour *)
(* is one of a single of them.                                             *)
(***************************************************************************)
EXTENDS UpstreamResponses, MCCourses, Coursework, Dashboard, SiapRecords,
        PairingCard, DetailScreens, InMemorySessionStore

CONSTANTS Irs, Jadwal, Mata, \* three slices, of two sources
          fresh, other       \* what a capture holds

VARIABLE machine \* which of them runs

servicesVars == <<machine, vars, courseVars, workVars, dashVars, recordVars,
                  cardVars, screenVars, mapVars>>

Machines == {"responses", "courses", "work", "dashboard", "useDashboard",
             "records", "card", "panel", "page", "map"}

SmallSliceOrder == <<Irs, Jadwal, Mata>>
SmallSources == Irs :> "siap" @@ Jadwal :> "siap" @@ Mata :> "kulon"

SmallCaptures ==
    {[ssoCookie |-> fresh, kulonCookie |-> fresh, siapCookie |-> fresh, other |-> other],
     [ssoCookie |-> NoCookie, kulonCookie |-> fresh, siapCookie |-> NoCookie, other |-> other]}

SmallOutlines ==
    {<<>>,
     <<OutlineSection(Undated, 0), OutlineSection(Undated, 0)>>,
     <<OutlineSection(Undated, 0), OutlineSection(Date(1, 2, NoYear), 1),
       OutlineSection(Date(2, 3, 1), 0), OutlineSection(Date(2, 3, 2), 0)>>}

\* What does not run starts in one state.
ServicesInit ==
    /\ machine \in Machines
    /\ CoursesInit
    /\ machine # "courses" =>
          /\ today = 1
          /\ \A c \in Courses : /\ course[c].kind = "other" /\ ~ course[c].hidden
                                /\ course[c].content.cms = <<>>
    /\ WorkInit
    /\ machine # "work" => \A w \in Works : ~ work[w].quiz /\ work[w].due = 0 /\ ~ active[w]
    /\ ScreensInit
    /\ machine # "page" => outline = <<>> /\ clock.day = 1 /\ view.course = CHOOSE i \in Items : TRUE
    /\ Init /\ DashInit /\ RecordsInit /\ CardInit /\ MapInit

ServicesNext ==
    /\ UNCHANGED machine
    /\ \/ /\ machine = "responses" /\ Next
          /\ UNCHANGED <<courseVars, workVars, dashVars, recordVars, cardVars, screenVars, mapVars>>
       \/ /\ machine = "courses" /\ CoursesNext
          /\ UNCHANGED <<vars, workVars, dashVars, recordVars, cardVars, screenVars, mapVars>>
       \/ /\ machine = "work" /\ WorkNext
          /\ UNCHANGED <<vars, courseVars, dashVars, recordVars, cardVars, screenVars, mapVars>>
       \/ /\ machine = "dashboard" /\ ServerNext
          /\ UNCHANGED <<vars, courseVars, workVars, recordVars, cardVars, screenVars, mapVars>>
       \/ /\ machine = "useDashboard" /\ ViewNext
          /\ UNCHANGED <<vars, courseVars, workVars, recordVars, cardVars, screenVars, mapVars>>
       \/ /\ machine = "records" /\ RecordsNext
          /\ UNCHANGED <<vars, courseVars, workVars, dashVars, cardVars, screenVars, mapVars>>
       \/ /\ machine = "card" /\ CardNext
          /\ UNCHANGED <<vars, courseVars, workVars, dashVars, recordVars, screenVars, mapVars>>
       \/ /\ machine = "panel" /\ PanelNext
          /\ UNCHANGED <<vars, courseVars, workVars, dashVars, recordVars, cardVars, mapVars>>
       \/ /\ machine = "page" /\ CourseViewNext
          /\ UNCHANGED <<vars, courseVars, workVars, dashVars, recordVars, cardVars, mapVars>>
       \/ /\ machine = "map" /\ MapNext
          /\ UNCHANGED <<vars, courseVars, workVars, dashVars, recordVars, cardVars, screenVars>>

ServicesSpec == ServicesInit /\ [][ServicesNext]_servicesVars

\* The callers of the session store are alike.
ClientsAlike == Permutations(Clients)

-----------------------------------------------------------------------------
(* What the parts promise: said of a part where it runs, for TLC's sake.     *)

\* A session found valid was alive, one that is refused had ended, with the
\* exceptions TakenForDeath names, and every request is accounted for once
\* (timedFetch, the probes, validateUpstreamCookie).
ResponsesAreRead ==
    machine = "responses" => ValidWasAlive /\ OutageIsNotDeath /\ OneEventPerAttempt

\* The list of courses is complete where nothing changes, and the content of a
\* course, and what of it was done, is the course's own: from Moodle's state or
\* from the page it falls back to (fetchCourses, scrapeCourseProgress).
CourseListIsTrue ==
    machine = "courses" =>
        /\ UntouchedAreListed
        /\ ProgressIsOwn
        /\ listing.phase = "idle" => FallbackAgrees

\* Counts, filters and deadlines of the coursework agree with Moodle and with
\* each other (parseMoodleDate, matchesKulonFilter, taskStats).
CourseworkAgrees == machine = "work" => CountsAreFilters /\ DeadlinesAreMoodles

\* Grades, lecturers, charts and attendance of a student's records agree (fetchKhs,
\* fetchLecturers, fetchAbsen, utils/dashboard.ts).
RecordsAgree == machine = "records" => RecordsAddUp

\* The screens that load what they show, show what was asked for (PairingCard.vue,
\* DetailPanel.vue, KulonCourseDetailView.vue).
ScreensHold ==
    /\ machine = "card" => CardWatchesShownCode /\ OneTimerEach
    /\ machine = "panel" => PanelShowsWhatWasOpened
    /\ machine = "page" => ViewShowsItsCourse /\ SectionIsOpen

=============================================================================
