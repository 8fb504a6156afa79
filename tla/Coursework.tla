----------------------------- MODULE Coursework -----------------------------
(***************************************************************************)
(* Assignments and quizzes: Moodle's index pages, which the backend parses *)
(* into one list, the page of an assignment, and what the web client makes *)
(* of the list: the counts of the dashboard, the filters of the Kulon      *)
(* screen and the badge of a card.  Time is hours; Moodle writes its dates *)
(* in WIB, seven hours ahead, and with a twelve-hour clock.                *)
(***************************************************************************)
EXTENDS Integers, Sequences, FiniteSets, SequencesExt, FiniteSetsExt

CONSTANTS Works,      \* course module ids, numbers
          DueHours,   \* the deadlines, hours of Moodle's wall clock; 0 is none
          FirstHour, LastHour, DueSoon

ASSUME CourseworkAssumption ==
    /\ IsFiniteSet(Works) /\ DueHours \subseteq Nat
    /\ FirstHour \in Nat /\ LastHour \in Nat

VARIABLES work,     \* module -> what it is, at Moodle
          active,   \* whether its course is in progress, for the web client
          hour,     \* now, in UTC
          assignments, \* the list the web client has, with the hour it is of
          hidden,   \* the assignments the student put out of sight
          detail    \* the assignment's page the web client has, if any

workVars == <<work, active, hour, assignments, hidden, detail>>

Statuses == {"none", "draft", "submitted", "graded"}

\* A deadline that Moodle gives no date for but says is overdue.
Lapsed == -1

(***************************************************************************)
(* What Moodle shows                                                       *)
(***************************************************************************)

\* An hour of the wall clock, as Moodle writes it.
Written(wall) ==
    LET h == wall % 24 IN [day |-> wall \div 24, hour |-> ((h + 11) % 12) + 1,
                           half |-> IF h < 12 THEN "AM" ELSE "PM"]

IndexText(status) ==
    CASE status = "none"      -> "No submission"
      [] status = "draft"     -> "Draft (not submitted)"
      [] status = "submitted" -> "Submitted for grading"
      [] status = "graded"    -> "Graded"
SubmissionText(status) ==
    CASE status = "none"  -> "No submissions have been made yet"
      [] status = "draft" -> "Draft (not submitted)"
      [] status \in {"submitted", "graded"} -> "Submitted for grading"
GradingText(status) == IF status = "graded" THEN "Graded" ELSE "Not graded"

(***************************************************************************)
(* Parsing                                                                 *)
(***************************************************************************)
NoDate == -1000

To24HourAlways(h, half) == IF half = "PM" THEN h + 12 ELSE h
To24Hour(h, half) == CASE half = "PM" /\ h < 12 -> h + 12
                       [] half = "AM" /\ h = 12 -> 0
                       [] OTHER -> h

\* An instant, from a date as Moodle writes it; NoDate from anything else.
parseMoodleDate(cell) ==
    IF cell.dates = {} THEN NoDate
    ELSE LET d == CHOOSE x \in cell.dates : TRUE IN d.day * 24 + To24Hour(d.hour, d.half) - 7

\* A cell has a date or none, and may have the word without one.
DueCell(due) == [dates   |-> IF due \in {0, Lapsed} THEN {} ELSE {Written(due)},
                 overdue |-> due = Lapsed]

mapIndexSubmissionStatus(text) ==
    CASE text \in {"No submission", "Draft (not submitted)"} -> "not_submitted"
      [] text = "Graded" -> "graded"
      [] text = "Submitted for grading" -> "submitted"
      [] OTHER -> "unknown"

Parsed(cell) == LET due == parseMoodleDate(cell) IN IF due = NoDate THEN 0 ELSE due
Overdue(cell) == LET due == parseMoodleDate(cell) IN
    IF due = NoDate THEN cell.overdue ELSE due < hour

parseAssignmentIndex(id) ==
    LET cell == DueCell(work[id].due)
    IN  [id |-> id, module |-> "assign", duedate |-> Parsed(cell), overdue |-> Overdue(cell),
         submissionStatus |-> mapIndexSubmissionStatus(IndexText(work[id].status))]

parseQuizIndex(id) ==
    LET cell == DueCell(work[id].due)
    IN  [id |-> id, module |-> "quiz", duedate |-> Parsed(cell), overdue |-> Overdue(cell),
         submissionStatus |-> "unknown"]

parseSubmissionFromHtml(id) ==
    LET submission == SubmissionText(work[id].status)
    IN  IF GradingText(work[id].status) = "Graded" THEN "graded"
        ELSE CASE submission \in {"No submissions have been made yet", "Draft (not submitted)"}
                     -> "not_submitted"
               [] submission = "Submitted for grading" -> "submitted"
               [] OTHER -> "unknown"

(***************************************************************************)
(* The web client's views                                                  *)
(***************************************************************************)
isDone(a) == a.submissionStatus \in {"submitted", "graded"}
courseActive(a) == active[a.id]

matchesKulonFilter(key, a) ==
    CASE key = "all"  -> TRUE
      [] key = "done" -> isDone(a)
      [] key = "late" -> a.overdue /\ ~isDone(a)
      [] key = "need" -> ~isDone(a) /\ ~a.overdue /\ courseActive(a)

\* Which count of the dashboard an assignment adds to, if any.
TaskOfOverdueFirst(a) == CASE a.overdue -> "late"
                           [] ~a.overdue /\ isDone(a) -> "done"
                           [] ~a.overdue /\ ~isDone(a) /\ courseActive(a) -> "need"
                           [] OTHER -> "other"
TaskOf(a) == CASE isDone(a) -> "done"
               [] ~isDone(a) /\ a.overdue -> "late"
               [] ~isDone(a) /\ ~a.overdue /\ courseActive(a) -> "need"
               [] OTHER -> "other"

taskStats(list) ==
    [key \in {"need", "late", "done"} |->
        Cardinality({i \in DOMAIN list : TaskOf(list[i]) = key})]

assignStatus(overdue, duedate, now) ==
    IF duedate <= 0 THEN "onTrack"
    ELSE CASE overdue \/ duedate < now -> "overdue"
           [] ~overdue /\ duedate >= now /\ duedate - now <= DueSoon -> "dueSoon"
           [] OTHER -> "onTrack"

assignmentDisplayStatus(a) ==
    IF isDone(a) THEN "done"
    ELSE IF assignStatus(a.overdue, a.duedate, hour) = "overdue" THEN "overdue" ELSE "due"

\* The Kulon screen's list: what the filter keeps and is not hidden, nearest
\* deadline first in "need" (no deadline last), latest first, courses in
\* progress before, else.
KulonList(key) ==
    LET kept == {i \in DOMAIN assignments.list :
                    /\ assignments.list[i].id \notin hidden
                    /\ matchesKulonFilter(key, assignments.list[i])}
        At(i) == assignments.list[i]
        Far == LastHour + 100
        Due(i) == IF At(i).duedate = 0 THEN Far ELSE At(i).duedate
        Rank(i) == IF courseActive(At(i)) THEN 0 ELSE 1
        Before(i, j) ==
            IF key = "need" THEN Due(i) < Due(j) \/ (Due(i) = Due(j) /\ i < j)
            ELSE \/ Rank(i) < Rank(j)
                 \/ Rank(i) = Rank(j) /\ At(i).duedate > At(j).duedate
                 \/ Rank(i) = Rank(j) /\ At(i).duedate = At(j).duedate /\ i < j
        order == CHOOSE f \in [1..Cardinality(kept) -> kept] :
                    \A k, l \in DOMAIN f : k < l => Before(f[k], f[l])
    IN  [k \in DOMAIN order |-> At(order[k])]

(***************************************************************************)
(* Steps                                                                   *)
(***************************************************************************)
NoPage == [id |-> 0, status |-> "unknown"]

WorkInit ==
    /\ work \in [Works -> [quiz : BOOLEAN, due : DueHours \cup {Lapsed}, status : {"none"}]]
    /\ active \in [Works -> BOOLEAN]
    /\ hour \in {FirstHour}
    /\ assignments = [list |-> <<>>, at |-> FirstHour]
    /\ hidden = {}
    /\ detail = NoPage

\* The list is fetched anew: every page of every course.
fetchAllAssignments ==
    /\ assignments' =
          [at |-> hour,
           list |-> LET ids == SetToSeq(Works)
                    IN  [k \in DOMAIN ids |-> IF work[ids[k]].quiz THEN parseQuizIndex(ids[k])
                                              ELSE parseAssignmentIndex(ids[k])]]
    /\ UNCHANGED <<work, active, hour, hidden, detail>>

\* The panel of an assignment; a quiz has none.
fetchAssignmentDetail(id) ==
    /\ id \in {assignments.list[k].id : k \in DOMAIN assignments.list} /\ ~work[id].quiz
    /\ detail' = [id |-> id, status |-> parseSubmissionFromHtml(id)]
    /\ UNCHANGED <<work, active, hour, assignments, hidden>>

\* An assignment goes out of sight, or comes back.
hide(id) ==
    /\ id \in {assignments.list[k].id : k \in DOMAIN assignments.list} \ hidden
    /\ hidden' = hidden \cup {id}
    /\ UNCHANGED <<work, active, hour, assignments, detail>>

unhide(id) ==
    /\ id \in hidden
    /\ hidden' = hidden \ {id}
    /\ UNCHANGED <<work, active, hour, assignments, detail>>

\* The student hands work in, or the lecturer grades it.
StatusChanges(id) ==
    /\ ~work[id].quiz
    /\ \E status \in CASE work[id].status = "none"      -> {"draft", "submitted"}
                       [] work[id].status = "draft"     -> {"submitted"}
                       [] work[id].status = "submitted" -> {"graded"}
                       [] work[id].status = "graded"    -> {} :
          work' = [work EXCEPT ![id].status = status]
    /\ UNCHANGED <<active, hour, assignments, hidden, detail>>

HourPasses ==
    /\ hour < LastHour
    /\ hour' = hour + 1
    /\ UNCHANGED <<work, active, assignments, hidden, detail>>

WorkNext ==
    \/ fetchAllAssignments \/ HourPasses
    \/ \E id \in Works : fetchAssignmentDetail(id) \/ StatusChanges(id) \/ hide(id) \/ unhide(id)

(***************************************************************************)
(* Properties                                                              *)
(***************************************************************************)

\* The counts of the dashboard are the lengths of the Kulon screen's lists with
\* the assignments put out of sight, which the dashboard still counts: two
\* pieces of code decide each by itself (taskStats, matchesKulonFilter).
CountsAreFilters ==
    \A key \in {"need", "late", "done"} :
       LET unseen == {i \in DOMAIN assignments.list :
                         /\ assignments.list[i].id \in hidden
                         /\ matchesKulonFilter(key, assignments.list[i])}
       IN  taskStats(assignments.list)[key] = Len(KulonList(key)) + Cardinality(unseen)

\* The list has the deadlines of Moodle, whatever the hour of the day they are
\* written with, and says overdue of those that had passed when it was fetched,
\* and of those that Moodle says it of without a date (parseMoodleDate,
\* parseAssignmentIndex, parseQuizIndex).
DeadlinesAreMoodles ==
    \A a \in ToSet(assignments.list) :
       LET due == work[a.id].due
       IN  /\ a.duedate = IF due \in {0, Lapsed} THEN 0 ELSE due - 7
           /\ a.overdue <=> (due = Lapsed \/ (due # 0 /\ due - 7 < assignments.at))

=============================================================================
