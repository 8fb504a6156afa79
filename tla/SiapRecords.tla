---------------------------- MODULE SiapRecords ----------------------------
(***************************************************************************)
(* A student's records at SIAP as the backend assembles them, and what the *)
(* web client's charts make of them: the grades of every semester, with    *)
(* the ids of their details, the lecturers of every course, the shares of  *)
(* classes attended.  Months count from the August the student began in;   *)
(* SIAP's odd semesters are August to January, the even ones February to   *)
(* July.  A course code is a number, and a course may be taken again.      *)
(***************************************************************************)
EXTENDS Integers, Sequences, FiniteSets, SequencesExt, FiniteSetsExt

CONSTANTS Kodes,                 \* course codes, numbers
          Watched,               \* the courses whose classes are followed, among Kodes
          FirstMonth, LastMonth,
          MaxMeetings

ASSUME RecordsAssumption ==
    /\ IsFiniteSet(Kodes) /\ Kodes \subseteq Nat \ {0} /\ Watched \subseteq Kodes
    /\ FirstMonth \in Nat /\ LastMonth \in Nat /\ FirstMonth <= LastMonth

VARIABLES month,
          records,  \* semester -> course code -> where the student is with it
          meetings, \* the classes of a course: planned, held, attended
          schedules      \* how many planned classes the cached schedule has, 0 is no schedule

recordVars == <<month, records, meetings, schedules>>

Semesters == 1..((LastMonth \div 6) + 1)
Current == (month \div 6) + 1
Taken(smt) == {k \in Kodes : records[smt][k] # "absent"}
\* A grade is a letter that the chart of grades has a bar for, or another one.
Grades == {"barred", "other"}
Approved(smt) == {k \in Kodes : records[smt][k] \in {"approved"} \cup Grades}

(***************************************************************************)
(* Lecturers                                                               *)
(***************************************************************************)
\* The calendar: the years since the student began, and the month from January.
Years == (month + 7) \div 12
MonthOfYear == (month + 7) % 12

\* The number of semesters to ask for, from the label of the profile, which
\* names the academic year and the half of it, or from the calendar.
LabelCount == LET year == (month \div 12) + 1 IN
    year * 2 - (IF month % 12 < 6 THEN 1 ELSE 0)
CalendarCountLate == Years * 2 + (IF MonthOfYear > 7 THEN 1 ELSE 0)

CalendarCount == Years * 2 + (IF MonthOfYear >= 7 THEN 1 ELSE 0)

currentSemesterCount(labelled) == Max({1, IF labelled THEN LabelCount ELSE CalendarCount})

\* A semester's table has a row for each course once the plan is approved; who
\* teaches a course is told by the semester it is taught in.
parseIrsTable(smt) == IF smt \in Semesters THEN Approved(smt) ELSE {}

\* Course code -> the semester its lecturer is taken from: the first.
fetchLecturers(labelled) ==
    LET asked == 1..currentSemesterCount(labelled)
        known == UNION {parseIrsTable(smt) : smt \in asked}
    IN  [k \in known |-> Min({smt \in asked : k \in parseIrsTable(smt)})]

(***************************************************************************)
(* Grades                                                                  *)
(***************************************************************************)
NoId == 0
IdIrs(smt, k) == smt * 100 + k  \* SIAP's own id of a course taken in a semester

GradeOf(k, smt) == IF records[smt][k] \in Grades THEN records[smt][k] ELSE "none"

\* The rows of a semester, with SIAP's ids or without.
parseApiKhs(smt, identified) ==
    LET order == SetToSeq(Taken(smt)) IN
    [i \in DOMAIN order |->
        [id |-> IF identified THEN IdIrs(smt, order[i]) ELSE NoId,
         kode |-> order[i], sks |-> order[i],
         grade |-> GradeOf(order[i], smt), detailId |-> NoId]]

\* The ids on the page of a semester: of the courses with a grade.
parseKhsDetailIds(page) ==
    IF page = 0 THEN {}
    ELSE {[kode |-> k, detailId |-> IdIrs(page, k)] :
             k \in {j \in Taken(page) : records[page][j] \in Grades}}

OfCourse(ids, row) == {d \in ids : d.kode = row.kode}

mergeKhsDetailIdsByKode(nilai, ids, leads) ==
    [i \in DOMAIN nilai |->
        IF OfCourse(ids, nilai[i]) # {}
        THEN [nilai[i] EXCEPT !.detailId = (CHOOSE d \in OfCourse(ids, nilai[i]) : TRUE).detailId]
        ELSE nilai[i]]

\* An id that leads with another record than the row's is dropped.  It is not
\* looked at when it leads with none, or when the row has no id to compare.
mergeKhsDetailIds(nilai, ids, leads) ==
    [i \in DOMAIN nilai |->
        LET row  == nilai[i]
            kept == {d \in OfCourse(ids, row) : ~ leads \/ row.id \in {NoId, d.detailId}}
        IN  IF kept # {} THEN [row EXCEPT !.detailId = (CHOOSE d \in kept : TRUE).detailId]
            ELSE row]

\* The sums of the first numbers of a sequence, from none of them to all.
Sums(numbers) ==
    LET sum[n \in 0..Len(numbers)] == IF n = 0 THEN 0 ELSE sum[n - 1] + numbers[n]
    IN  sum

Credits(nilai) == Sums([i \in DOMAIN nilai |-> nilai[i].sks])[Len(nilai)]

\* The grades: every semester so far, whose page with the ids may be missing
\* (0) or, the web session being another than the API's, of another semester.
Nilai(smt, page, identified, leads) ==
    mergeKhsDetailIds(parseApiKhs(smt, identified), parseKhsDetailIds(page), leads)
Khs(smt, page) ==
    LET nilai == Nilai(smt, page, TRUE, TRUE)
    IN  [semester |-> smt, totalSks |-> Credits(nilai), nilai |-> nilai]
fetchKhs(pages) == [smt \in 1..Current |-> Khs(smt, pages[smt])]

(***************************************************************************)
(* The web client's charts                                                 *)
(***************************************************************************)
gradedSemesterBySks(s) == s.totalSks > 0

gradedSemester(s) == \E i \in DOMAIN s.nilai : s.nilai[i].grade # "none"

sksSemester(s) == s.totalSks > 0

\* A chart is a function from the semesters it shows: the first is only those,
\* the second counts the letters among its keys.
ipTrend(khs) == {smt \in DOMAIN khs : gradedSemester(khs[smt])}
gradeDistribution(khs) ==
    [smt \in {s \in DOMAIN khs : gradedSemester(khs[s])} |->
        Cardinality({i \in DOMAIN khs[smt].nilai : khs[smt].nilai[i].grade = "barred"})]
cumulativeSks(khs) ==
    LET counted == {smt \in DOMAIN khs : sksSemester(khs[smt])}
        running == Sums([smt \in DOMAIN khs |-> IF smt \in counted THEN khs[smt].totalSks ELSE 0])
    IN  [smt \in counted |-> running[smt]]

(***************************************************************************)
(* Attendance                                                              *)
(***************************************************************************)
\* One row for every class that was held; the total is that of the schedule,
\* and that of the rows when the schedule cannot be had or has no class of it.
parseApiAbsen(k) == [hadir |-> meetings[k].attended, total |-> meetings[k].held]
fetchAbsen(k, schedule) ==
    LET item == parseApiAbsen(k)
        total == IF schedule > 0 THEN schedule ELSE item.total
    IN  [hadir |-> item.hadir, total |-> total, hadirPct |-> (200 * item.hadir + total) \div (2 * total)]

(***************************************************************************)
(* Steps                                                                   *)
(***************************************************************************)
RecordsInit ==
    /\ month = FirstMonth
    /\ records = [smt \in Semesters |-> [k \in Kodes |-> "absent"]]
    /\ meetings = [k \in Watched |-> [planned |-> 0, held |-> 0, attended |-> 0]]
    /\ schedules = [k \in Watched |-> 0]

\* A course goes from the plan of a semester to an approved plan, with its
\* first class planned, and, when the semester is over, to a grade.
Progresses(k) ==
    /\ \/ /\ records[Current][k] = "absent"
          /\ records' = [records EXCEPT ![Current][k] = "plan"]
       \/ /\ records[Current][k] = "plan"
          /\ records' = [records EXCEPT ![Current][k] = "approved"]
       \/ \E smt \in 1..(Current - 1), grade \in Grades :
             /\ records[smt][k] = "approved"
             /\ records' = [records EXCEPT ![smt][k] = grade]
    /\ UNCHANGED <<month, meetings, schedules>>

\* A class is added to the plan, or the next of them is held.
ClassPlanned(k) ==
    /\ records[Current][k] = "approved" /\ meetings[k].planned < MaxMeetings
    /\ meetings' = [meetings EXCEPT ![k].planned = @ + 1]
    /\ UNCHANGED <<month, records, schedules>>
ClassHeld(k) ==
    /\ meetings[k].held < meetings[k].planned
    /\ \E hadir \in {0, 1} :
          meetings' = [meetings EXCEPT ![k].held = @ + 1, ![k].attended = @ + hadir]
    /\ UNCHANGED <<month, records, schedules>>

\* The schedule is fetched anew; until then its cached copy is used.
getJadwal ==
    /\ schedules' = [k \in Watched |-> meetings[k].planned]
    /\ UNCHANGED <<month, records, meetings>>

MonthPasses ==
    /\ month < LastMonth
    /\ month' = month + 1
    /\ meetings' = IF month' % 6 = 0
                   THEN [k \in Watched |-> [planned |-> 0, held |-> 0, attended |-> 0]] ELSE meetings
    /\ schedules' = IF month' % 6 = 0 THEN [k \in Watched |-> 0] ELSE schedules
    /\ UNCHANGED records

RecordsNext ==
    \/ getJadwal \/ MonthPasses
    \/ \E k \in Kodes : Progresses(k)
    \/ \E k \in Watched : ClassPlanned(k) \/ ClassHeld(k)

(***************************************************************************)
(* Properties                                                              *)
(***************************************************************************)

\* The detail offered with a grade is of the row's course, and of the row itself
\* where the two ids can be compared, whichever semester's page they came from,
\* also when a course was taken twice.  It is offered, and the right one, whenever
\* the semester's own page was had, with or without ids to compare.
DetailIsOfTheRow ==
    \A smt \in 1..Current, page \in 0..Current, identified \in BOOLEAN, leads \in BOOLEAN :
       \A row \in Range(Nilai(smt, page, identified, leads)) :
          LET own == IdIrs(smt, row.kode) IN
          /\ row.detailId # NoId => row.detailId = IdIrs(page, row.kode)
          /\ leads /\ identified => row.detailId \in {NoId, own}
          /\ row.grade # "none" /\ page = smt => row.detailId = own

\* The lecturer of every course of an approved plan is known, in every month
\* of the year and whether or not the profile has its label; that of a course
\* taken again is the first one's.
EveryLecturerIsKnown ==
    \A labelled \in BOOLEAN : \A smt \in 1..Current : \A k \in Approved(smt) :
       k \in DOMAIN fetchLecturers(labelled) /\ fetchLecturers(labelled)[k] <= smt

\* The charts agree with the records and with each other: the trend has the
\* semesters with a grade, the chart of grades a bar for those with a letter it
\* knows; both are in the chart of credits, which ends on the sum of all credits
\* and is the only one with the term under way.
ChartsAgree ==
    LET khs == fetchKhs([smt \in 1..Current |-> smt])
        credits == cumulativeSks(khs)
        all == Sums([smt \in 1..Current |-> Credits(khs[smt].nilai)])
        Has(smt, grades) == \E k \in Kodes : records[smt][k] \in grades
    IN  /\ \A smt \in 1..Current :
             /\ smt \in ipTrend(khs) <=> Has(smt, Grades)
             /\ (smt \in ipTrend(khs) /\ gradeDistribution(khs)[smt] > 0) <=> Has(smt, {"barred"})
        /\ ipTrend(khs) \subseteq DOMAIN credits \ {Current}
        /\ DOMAIN credits # {} => credits[Max(DOMAIN credits)] = all[Current]

\* No more classes are attended than there are, unless the cached schedule
\* misses some that were planned after it was fetched.
AttendanceFits ==
    \A k \in {j \in Watched : meetings[j].held > 0} : \A schedule \in {0, schedules[k]} :
       LET item == fetchAbsen(k, schedule) IN
       \/ item.hadir <= item.total /\ item.hadirPct <= 100
       \/ schedules[k] < meetings[k].planned

RecordsAddUp == DetailIsOfTheRow /\ EveryLecturerIsKnown /\ ChartsAgree /\ AttendanceFits

=============================================================================
