--------------------------- MODULE DetailScreens ---------------------------
(***************************************************************************)
(* Two screens of the web client that load what they show: the panel with  *)
(* an assignment, and the page of a course.  Neither cancels a load when   *)
(* another thing is opened, so that answers may come late and crosswise.   *)
(***************************************************************************)
EXTENDS Integers, Sequences, FiniteSets, SequencesExt

CONSTANTS Items,     \* assignments and courses, alike
          WithPage,  \* the assignments with a course module id, among Items
          Nothing,   \* null
          Outlines,  \* what sections a course may have
          YearLength,
          MaxOpens   \* bound on the things opened on a screen

ASSUME ScreensAssumption ==
    /\ WithPage \subseteq Items
    /\ Nothing \notin Items \cup {"spinner", "error"}

VARIABLES panel, \* the panel; `alone` if its last load began with no other under way
          view,  \* the page; `stray` if it was left with a load of its content under way
          clock, \* the date, [year, day]
          outline \* the sections of the courses

screenVars == <<panel, view, clock, outline>>

(***************************************************************************)
(* The sections of a course                                                *)
(***************************************************************************)
\* A title names the first and the last day of a week, as days of a year, and
\* perhaps the year; a title of another form has no dates.
Date(first, last, year) == [dated |-> TRUE, first |-> first, last |-> last, year |-> year]
Undated == [dated |-> FALSE, first |-> 0, last |-> 0, year |-> 0]
NoYear == 0
OutlineSection(range, items) == [dateRange |-> range, items |-> items]

isCurrentWeekSection(range) ==
    /\ range.dated
    /\ range.year \in {NoYear, clock.year}
    /\ range.first <= clock.day /\ clock.day <= range.last

\* The sections that are open at first: those of the week, else the first one
\* with something in it, else the first.
initializeSectionCollapse(sections) ==
    LET current == {i \in DOMAIN sections : isCurrentWeekSection(sections[i].dateRange)}
        filled == SelectInSeq(sections, LAMBDA s : s.items > 0)
    IN  IF current # {} \/ sections = <<>> THEN current
        ELSE {IF filled = 0 THEN 1 ELSE filled}

(***************************************************************************)
(* The panel                                                               *)
(***************************************************************************)
LoadKeepsError(p, i) ==
    [p EXCEPT !.loading = TRUE, !.alone = p.reads = <<>>, !.reads = Append(@, i)]

Load(p, i) ==
    [p EXCEPT !.loading = TRUE, !.error = FALSE, !.alone = p.reads = <<>>,
              !.reads = Append(@, i)]

\* Opening it, or putting another assignment into it, loads; an assignment
\* without a module has no page to load.
OpenPanel(i) ==
    /\ panel.opens < MaxOpens
    /\ ~ panel.open \/ panel.item # i
    /\ LET p == [panel EXCEPT !.open = TRUE, !.item = i, !.opens = @ + 1] IN
       panel' = IF i \in WithPage THEN Load(p, i) ELSE p
    /\ UNCHANGED <<view, clock, outline>>
ClosePanel ==
    /\ panel.open
    /\ panel' = [panel EXCEPT !.open = FALSE]
    /\ UNCHANGED <<view, clock, outline>>
DetailAnswers(n) ==
    /\ n \in DOMAIN panel.reads
    /\ \E failed \in BOOLEAN :
          panel' = [panel EXCEPT !.loading = FALSE, !.reads = RemoveAt(@, n),
                                 !.detail = IF failed THEN Nothing ELSE panel.reads[n],
                                 !.error = @ \/ failed, !.failed = failed]
    /\ UNCHANGED <<view, clock, outline>>

ShownInPanel ==
    IF panel.loading THEN "spinner" ELSE IF panel.error THEN "error" ELSE panel.detail

(***************************************************************************)
(* The page of a course                                                    *)
(***************************************************************************)
NewView(course, opens) ==
    [course |-> course, content |-> Nothing, open |-> {}, loading |-> TRUE, error |-> FALSE,
     expired |-> FALSE, recovering |-> "no", wiped |-> FALSE, stray |-> FALSE,
     loads |-> <<[step |-> "lists", from |-> course, course |-> Nothing]>>, opens |-> opens]

\* Another course's page is another route of the same screen.
GoTo(c) ==
    /\ view.opens < MaxOpens /\ c # view.course
    /\ view' =
          [view EXCEPT !.course = c, !.content = Nothing, !.loading = TRUE, !.error = FALSE,
                       !.expired = FALSE, !.opens = @ + 1,
                       !.loads = Append(@, [step |-> "lists", from |-> c, course |-> Nothing]),
                       !.stray = \/ @ /\ view.loads # <<>>
                                 \/ view.recovering # "no"
                                 \/ \E l \in Range(view.loads) : l.step = "content"]
    /\ UNCHANGED <<panel, clock, outline>>

\* The lists are there, or failed: now the content is asked for, of the course
\* that is the route's by then.
CourseAtStart(l) == l.from

CourseAsked(l) == view.course

ListsSettle(n) ==
    /\ n \in DOMAIN view.loads /\ view.loads[n].step = "lists"
    /\ view' = [view EXCEPT !.loads[n].step = "content",
                            !.loads[n].course = CourseAsked(view.loads[n])]
    /\ UNCHANGED <<panel, clock, outline>>

Ended(n) == [view EXCEPT !.loading = FALSE, !.loads = RemoveAt(@, n)]

\* After the session was wiped every load is rejected as stale, without a word.
ContentAnswers(n) ==
    /\ n \in DOMAIN view.loads /\ view.loads[n].step = "content"
    /\ IF view.wiped THEN view' = Ended(n)
       ELSE \/ view' = [Ended(n) EXCEPT !.content = view.loads[n].course,
                                        !.open = initializeSectionCollapse(outline)]
            \/ \E expired \in BOOLEAN :
                  view' = [Ended(n) EXCEPT !.error = TRUE, !.expired = @ \/ expired]
    /\ UNCHANGED <<panel, clock, outline>>

Wiped ==
    /\ ~ view.wiped
    /\ view' = [view EXCEPT !.wiped = TRUE]
    /\ UNCHANGED <<panel, clock, outline>>

\* The session at Kulon is to be recovered; when it is, or somebody else did,
\* the account is read again and the whole page mounted anew.
relogin ==
    /\ view.expired /\ ~ view.loading /\ view.recovering = "no"
    /\ view' = [view EXCEPT !.recovering = "asked"]
    /\ UNCHANGED <<panel, clock, outline>>
Recovers ==
    /\ view.recovering = "asked"
    /\ view' = [view EXCEPT !.recovering = "reading", !.expired = FALSE, !.error = FALSE]
    /\ UNCHANGED <<panel, clock, outline>>
RecoveryFails ==
    /\ view.recovering = "asked"
    /\ \E cancelled \in BOOLEAN :
          view' = [view EXCEPT !.recovering = "no", !.error = @ \/ ~ cancelled]
    /\ UNCHANGED <<panel, clock, outline>>
Remount ==
    /\ view.recovering = "reading" /\ view.opens < MaxOpens
    /\ view' = NewView(view.course, view.opens + 1)
    /\ UNCHANGED <<panel, clock, outline>>

ScreensInit ==
    /\ panel = [open |-> FALSE, item |-> Nothing, loading |-> FALSE, error |-> FALSE,
                detail |-> Nothing, reads |-> <<>>, alone |-> TRUE, failed |-> FALSE,
                opens |-> 0]
    /\ \E c \in Items : view = NewView(c, 1)
    /\ clock \in [year : {1}, day : 1..YearLength]
    /\ outline \in Outlines

PanelNext ==
    \/ ClosePanel
    \/ \E i \in Items : OpenPanel(i)
    \/ \E n \in 1..MaxOpens : DetailAnswers(n)
CourseViewNext ==
    \/ Wiped \/ relogin \/ Recovers \/ RecoveryFails \/ Remount
    \/ \E c \in Items : GoTo(c)
    \/ \E n \in 1..MaxOpens : ListsSettle(n) \/ ContentAnswers(n)

(***************************************************************************)
(* Properties                                                              *)
(***************************************************************************)

\* The panel shows the assignment it was opened for, its error, or that it is
\* loading, whatever was opened and failed before, as long as loads do not
\* overlap; and it is never blank, also when they do.
PanelShowsWhatWasOpened ==
    panel.open /\ panel.item \in WithPage =>
        /\ ShownInPanel # Nothing
        /\ panel.alone =>
              ShownInPanel = IF panel.reads # <<>> THEN "spinner"
                             ELSE IF panel.failed THEN "error" ELSE panel.item

\* The page of a course has its content, or the reason why not: it shows
\* another course's content only if it was left while its content was loading,
\* and the empty page only after the session was wiped or while it is recovered.
ViewShowsItsCourse ==
    /\ ~ view.stray => view.content \in {Nothing, view.course}
    /\ ~ view.wiped /\ view.recovering = "no" /\ ~ view.loading
         => view.content # Nothing \/ view.error

\* A course with sections is shown with one of them open, which is this week's
\* if a title says so, and never that of a week of another year.
SectionIsOpen ==
    view.content # Nothing /\ outline # <<>> =>
        /\ view.open # {}
        /\ Cardinality(view.open) > 1 =>
              \A i \in view.open : outline[i].dateRange.year \in {NoYear, clock.year}

=============================================================================
