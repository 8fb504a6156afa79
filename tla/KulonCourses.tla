---------------------------- MODULE KulonCourses ----------------------------
(***************************************************************************)
(* The Courses screen: three timeline requests in parallel give the list,  *)
(* one batched request the state of every course, and a bounded pool of    *)
(* workers scrapes the courses the batch left open (JSON first, the HTML   *)
(* page second).  What a course is, and the day, are Moodle's; a student   *)
(* may hide a course, and days may pass, between any two answers.  A day   *)
(* is a number, a year has YearDays of them, and a section's title is      *)
(* Plain, a date range given by the day of the year it ends on, or Foreign *)
(* (it looks like a date range and its month has no English name).         *)
(***************************************************************************)
EXTENDS Integers, Sequences, FiniteSets, SequencesExt, FiniteSetsExt

CONSTANTS Courses,        \* course ids, numbers
          Contents,       \* what the page of a course may hold
          YearDays, LastDay, Plain, Foreign, NoProgress,
          Concurrency,    \* COURSE_PROGRESS_CONCURRENCY
          MaxLists, MaxHides

ASSUME CoursesAssumption ==
    IsFiniteSet(Courses) /\ Courses \subseteq Nat \ {0} /\ YearDays \in Nat \ {0}

VARIABLES course,   \* course id -> [kind, content, hidden], at Moodle
          today,
          listing,  \* the request for the list under way
          kept,     \* the courses whose content is in the cache
          shown     \* the last list the student was given

courseVars == <<course, today, listing, kept, shown>>

\* The elements of a sequence at some of its positions, in their order.
Picked(s, positions) ==
    LET ascending == CHOOSE f \in [1..Cardinality(positions) -> positions] :
                        \A k, l \in DOMAIN f : k < l => f[k] < f[l]
    IN  [k \in DOMAIN ascending |-> s[ascending[k]]]

(***************************************************************************)
(* The page of a course, and its two renderings at Moodle                  *)
(***************************************************************************)
\* A content has sections and course modules, each with its section's number;
\* a module its section of which is not shown is in no section of the list.
CourseContent(sections, cms) == [sections |-> sections, cms |-> cms]

In(content, number) == SelectSeq([i \in DOMAIN content.cms |-> i],
                                 LAMBDA i : content.cms[i].section = number)

\* The page: each section's header, followed by its activities; one the
\* student may not open is there without a link.
Page(content) ==
    FlattenSeq([k \in DOMAIN content.sections |->
        LET s == content.sections[k]  IN
        <<[tag |-> "section", id |-> s.number, title |-> s.title]>>
        \o [j \in DOMAIN In(content, s.number) |->
               LET i == In(content, s.number)[j] IN
               [tag |-> "activity", id |-> i, module |-> content.cms[i].module,
                linked |-> content.cms[i].visible]]])

(***************************************************************************)
(* Parsing                                                                 *)
(***************************************************************************)
moduleKind(module) == IF module = "resource" THEN "file" ELSE module

deriveSectionLabel(ordinal, title) ==
    LET dated == ordinal # 0 /\ title # Plain
    IN  [label |-> IF dated THEN [meeting |-> ordinal] ELSE [text |-> title],
         dateRange |-> IF dated THEN title ELSE Plain]

Section(id, ordinal, title, items) ==
    LET l == deriveSectionLabel(ordinal, title)
    IN  [id |-> id, label |-> l.label, dateRange |-> l.dateRange, items |-> items]

\* From the JSON state: a module is shown when the student may open it, and an
\* assignment or a quiz always.
mapCourseStateJson(content) ==
    [k \in DOMAIN content.sections |->
        LET s == content.sections[k]
            mine == SelectSeq(In(content, s.number), LAMBDA i :
                       content.cms[i].visible \/ content.cms[i].module \in {"assign", "quiz"})
        IN  Section(s.number, s.number, s.title,
                    [j \in DOMAIN mine |->
                        [cmid |-> mine[j], kind |-> moduleKind(content.cms[mine[j]].module)]])]

\* From the HTML page: an activity belongs to the last header before it.
OwnerIsNext(headers, p) == LET after == {h \in headers : h > p}
                           IN  IF after = {} THEN Max(headers) ELSE Min(after)
Owner(headers, p) == LET before == {h \in headers : h < p}
                     IN  IF before = {} THEN Min(headers) ELSE Max(before)

parseContentHtml(page) ==
    LET headers == {p \in DOMAIN page : page[p].tag = "section"}
        Ordinal(h) == IF page[h].id = 0 THEN 0
                      ELSE Cardinality({q \in headers : q <= h /\ page[q].id # 0})
        Under(h) == SelectSeq([p \in DOMAIN page |-> p], LAMBDA p :
                       page[p].tag = "activity" /\ page[p].linked /\ Owner(headers, p) = h)
        order == SetToSortSeq(headers, <)
    IN  [k \in DOMAIN order |->
            LET h == order[k]
            IN  Section(page[h].id, Ordinal(h), page[h].title,
                        [j \in DOMAIN Under(h) |->
                            [cmid |-> page[Under(h)[j]].id,
                             kind |-> moduleKind(page[Under(h)[j]].module)]])]

YearOf(day) == (day - 1) \div YearDays

\* A section has ended when its last day is over, this year or the next.
IsEnded(lastDay, day) ==
    \E year \in {YearOf(day), YearOf(day) + 1} : year * YearDays + lastDay < day

parseSectionProgress(sections, day, isPast) ==
    LET dated == {k \in DOMAIN sections : sections[k].dateRange # Plain}
        parseable == {k \in dated : sections[k].dateRange # Foreign}
        past == {k \in parseable : IsEnded(sections[k].dateRange, day)}
    IN  IF dated = {} THEN NoProgress
        ELSE IF isPast THEN 100
        ELSE IF parseable = {} THEN NoProgress
        ELSE (200 * Cardinality(past) + Cardinality(parseable)) \div (2 * Cardinality(parseable))

(***************************************************************************)
(* The list                                                                *)
(***************************************************************************)
Classes == {"all", "inprogress", "hidden"}
NoAnswer == <<0>> \* a timeline request that is not answered yet

\* Moodle's timeline: the hidden courses are in no other class.
Timeline(class) ==
    SetToSeq({c \in Courses :
        IF class = "hidden" THEN course[c].hidden
        ELSE ~course[c].hidden /\ (class = "all" \/ course[c].kind = "inprogress")})

MergedVisible(lists) ==
    [k \in DOMAIN lists["all"] |->
        [id |-> lists["all"][k],
         past |-> lists["all"][k] \notin ToSet(lists["inprogress"])]]

\* Hidden courses first, and each course once.
Merged(lists) ==
    LET both == lists["hidden"] \o lists["all"]
        once == Picked(both, {i \in DOMAIN both : \A j \in 1..(i - 1) : both[j] # both[i]})
    IN  [k \in DOMAIN once |->
            [id |-> once[k], past |-> once[k] \notin ToSet(lists["inprogress"])]]

Idle(n) == [phase |-> "idle", calls |-> n]

CoursesInit ==
    /\ course \in [Courses -> [kind : {"inprogress", "other"}, content : Contents,
                               hidden : BOOLEAN]]
    /\ today \in 1..YearDays
    /\ listing = Idle(0)
    /\ kept = {}
    /\ shown = [list |-> <<>>, began |-> 0, ended |-> 0, hid |-> {}, hidden |-> {}, failed |-> {},
                told |-> <<>>]

BeginList ==
    /\ listing.phase = "idle" /\ listing.calls < MaxLists
    /\ listing' = [phase |-> "timeline", calls |-> listing.calls + 1, began |-> today,
                   lists |-> [class \in Classes |-> NoAnswer], hid |-> {}]
    /\ UNCHANGED <<course, today, kept, shown>>

\* The student gets the list; `told` is every list of the behaviour.
Give(list, failed) ==
    /\ listing' = Idle(listing.calls)
    /\ shown' = [list |-> list, began |-> listing.began, ended |-> today, hid |-> listing.hid,
                 hidden |-> {c \in Courses : course[c].hidden}, failed |-> failed,
                 told |-> Append(shown.told, list)]

WithProgress(merged, progress) ==
    [k \in DOMAIN merged |-> [id |-> merged[k].id, past |-> merged[k].past,
                              progress |-> progress[merged[k].id]]]

TimelineAnswers(class) ==
    /\ listing.phase = "timeline" /\ listing.lists[class] = NoAnswer
    /\ LET lists == [listing.lists EXCEPT ![class] = Timeline(class)] IN
       CASE NoAnswer \in {lists[k] : k \in Classes} ->
               /\ listing' = [listing EXCEPT !.lists = lists]
               /\ UNCHANGED shown
         [] NoAnswer \notin {lists[k] : k \in Classes} /\ Merged(lists) = <<>> -> Give(<<>>, {})
         [] OTHER ->
               /\ listing' = [phase |-> "batch", calls |-> listing.calls, hid |-> listing.hid,
                              began |-> listing.began, merged |-> Merged(lists)]
               /\ UNCHANGED shown
    /\ UNCHANGED <<course, today, kept>>

\* One timeline request that fails fails the list.
TimelineFails ==
    /\ listing.phase = "timeline"
    /\ listing' = Idle(listing.calls)
    /\ UNCHANGED <<course, today, kept, shown>>

\* Leave `open` to the workers: the first of them start at once.
Scrape(open, progress) ==
    IF open = <<>> THEN Give(WithProgress(listing.merged, progress), {}) /\ UNCHANGED kept
    ELSE /\ listing' = [phase |-> "scrape", calls |-> listing.calls, began |-> listing.began,
                        hid |-> listing.hid, merged |-> listing.merged, open |-> open,
                        failed |-> {}, progress |-> progress,
                        step |-> [i \in DOMAIN open |-> IF i <= Concurrency THEN "cache"
                                                        ELSE "waiting"]]
         /\ UNCHANGED <<shown, kept>>

\* The entry of the i-th course in the answers, which may be cut short.
EntryOfGood(entries, i) == LET good == SelectSeq(entries, LAMBDA e : e.answer = "state")
                           IN  IF i \in DOMAIN good THEN {good[i]} ELSE {}
EntryOf(entries, i) == IF i \in DOMAIN entries THEN {entries[i]} ELSE {}

\* Some first entries of the batch are answered: each with the state of its
\* course, with an error or with what no state can be decoded from.
BatchAnswers ==
    /\ listing.phase = "batch"
    /\ \E n \in 0..Len(listing.merged) :
       \E answers \in [1..n -> {"state", "error", "malformed"}] :
          LET entries == [i \in 1..n |-> [answer |-> answers[i], of |-> listing.merged[i].id]]
              Good(i) == {e \in EntryOf(entries, i) : e.answer = "state"}
              Measured(i) == LET e == CHOOSE x \in Good(i) : TRUE IN
                             parseSectionProgress(mapCourseStateJson(course[e.of].content),
                                                  today, listing.merged[i].past)
              index == [c \in {m.id : m \in ToSet(listing.merged)} |->
                           CHOOSE i \in DOMAIN listing.merged : listing.merged[i].id = c]
          IN  Scrape(Picked(listing.merged, {i \in DOMAIN listing.merged : Good(i) = {}}),
                     [c \in Courses |-> IF c \in DOMAIN index /\ Good(index[c]) # {}
                                        THEN Measured(index[c]) ELSE NoProgress])
    /\ UNCHANGED <<course, today>>

BatchFails ==
    /\ listing.phase = "batch"
    /\ Scrape(listing.merged, [c \in Courses |-> NoProgress])
    /\ UNCHANGED <<course, today>>

\* The worker of the i-th open course is done with it, with `sections` or
\* without, and takes the next; the last worker gives the list.
WorkerDone(i, sections, failed) ==
    LET m == listing.open[i]
        waiting == {j \in DOMAIN listing.step : listing.step[j] = "waiting"}
        step == [j \in DOMAIN listing.step |->
                    CASE j = i -> "done"
                      [] j # i /\ waiting # {} /\ j = Min(waiting) -> "cache"
                      [] OTHER -> listing.step[j]]
        progress == IF m.id \in failed THEN listing.progress
                    ELSE [listing.progress EXCEPT ![m.id] =
                             parseSectionProgress(sections, today, m.past)]
    IN  IF \A j \in DOMAIN step : step[j] = "done"
        THEN Give(WithProgress(listing.merged, progress), listing.failed \cup failed)
        ELSE /\ listing' = [listing EXCEPT !.step = step, !.progress = progress,
                                           !.failed = @ \cup failed]
             /\ UNCHANGED shown

At(i, step) == listing.phase = "scrape" /\ i \in DOMAIN listing.step /\ listing.step[i] = step

\* getContent: from the cache, when the content is there.
ReadContent(i) ==
    /\ At(i, "cache")
    /\ LET c == listing.open[i].id IN
       IF c \in kept THEN WorkerDone(i, mapCourseStateJson(course[c].content), {})
       ELSE listing' = [listing EXCEPT !.step[i] = "json"] /\ UNCHANGED shown
    /\ UNCHANGED <<course, today, kept>>

ContentFromJson(i) ==
    /\ At(i, "json")
    /\ LET c == listing.open[i].id IN
       /\ WorkerDone(i, mapCourseStateJson(course[c].content), {})
       /\ kept' = kept \cup {c}
    /\ UNCHANGED <<course, today>>

JsonFails(i) ==
    /\ At(i, "json")
    /\ listing' = [listing EXCEPT !.step[i] = "html"]
    /\ UNCHANGED <<course, today, kept, shown>>

ContentFromHTML(i) ==
    /\ At(i, "html")
    /\ LET c == listing.open[i].id IN
       /\ WorkerDone(i, parseContentHtml(Page(course[c].content)), {})
       /\ kept' = kept \cup {c}
    /\ UNCHANGED <<course, today>>

HtmlFails(i) ==
    /\ At(i, "html")
    /\ WorkerDone(i, <<>>, {listing.open[i].id})
    /\ UNCHANGED <<course, today, kept>>


\* The student hides a course or brings it back, in Moodle, during a request.
Hide(c) ==
    /\ listing.phase # "idle" /\ Cardinality(listing.hid) < MaxHides
    /\ course' = [course EXCEPT ![c].hidden = ~@]
    /\ listing' = [listing EXCEPT !.hid = @ \cup {c}]
    /\ UNCHANGED <<today, kept, shown>>

NextDay ==
    /\ today < LastDay
    /\ today' = today + 1
    /\ UNCHANGED <<course, listing, kept, shown>>

\* The page of a course was opened, which leaves its content in the cache.
CourseOpened(c) ==
    /\ listing.phase = "idle" /\ c \notin kept
    /\ kept' = kept \cup {c}
    /\ UNCHANGED <<course, today, listing, shown>>

Expires(c) ==
    /\ c \in kept
    /\ kept' = kept \ {c}
    /\ UNCHANGED <<course, today, listing, shown>>

CoursesNext ==
    \/ BeginList \/ TimelineFails \/ BatchAnswers \/ BatchFails \/ NextDay
    \/ \E class \in Classes : TimelineAnswers(class)
    \/ \E i \in 1..Cardinality(Courses) :
          ReadContent(i) \/ ContentFromJson(i) \/ JsonFails(i) \/ ContentFromHTML(i) \/ HtmlFails(i)
    \/ \E c \in Courses : Hide(c) \/ CourseOpened(c) \/ Expires(c)

CoursesSpec == CoursesInit /\ [][CoursesNext]_courseVars

(***************************************************************************)
(* Properties                                                              *)
(***************************************************************************)

\* A course the student did not hide or bring back during the request is in
\* the list once, and is in progress there when it is for Moodle and is not
\* hidden, whatever happens to the other courses (fetchCourses,
\* fetchTimelineBase).
UntouchedAreListed ==
    shown.began # 0 => \A c \in Courses \ shown.hid :
       LET at == {k \in DOMAIN shown.list : shown.list[k].id = c}
       IN  /\ Cardinality(at) = 1
           /\ \A k \in at : shown.list[k].past
                              <=> (c \in shown.hidden \/ course[c].kind # "inprogress")

\* The progress shown for a course is that of its own page on a day of the
\* request, however the batch was cut short and in whatever order the workers
\* ended, and it is missing only where there is nothing to measure or no way
\* led to the page (mergeProgress, scrapeCourseProgress).
ProgressIsOwn ==
    \A e \in ToSet(shown.list) :
       LET On(day) == parseSectionProgress(mapCourseStateJson(course[e.id].content), day, e.past)
       IN  \/ \E day \in shown.began..shown.ended : e.progress = On(day)
           \/ e.progress = NoProgress /\ e.id \in shown.failed

\* The HTML page gives what the JSON state gives, with fewer items: the same
\* sections with the same dates, and in each the activities that may be opened;
\* the same labels, too, where no section number is skipped.
RenderingsAgree(content) ==
    LET json == mapCourseStateJson(content)
        html == parseContentHtml(Page(content))
        Openable(items) == SelectSeq(items, LAMBDA i : content.cms[i.cmid].visible)
        gapless == \A k \in DOMAIN content.sections :
                      content.sections[k].number = content.sections[1].number + k - 1
    IN  /\ DOMAIN html = DOMAIN json
        /\ \A k \in DOMAIN json :
              /\ html[k].id = json[k].id /\ html[k].dateRange = json[k].dateRange
              /\ html[k].items = Openable(json[k].items)
              /\ gapless /\ json[1].id \in {0, 1} => html[k].label = json[k].label

FallbackAgrees == \A c \in Courses : RenderingsAgree(course[c].content)

\* From one list to the next, the progress of a course that is in progress in
\* both does not fall: a section that has ended has ended.
ProgressNeverFalls ==
    \A j, k \in DOMAIN shown.told : j < k =>
       \A old \in ToSet(shown.told[j]), new \in ToSet(shown.told[k]) :
          old.id = new.id /\ ~old.past /\ ~new.past /\ NoProgress \notin {old.progress, new.progress}
          => old.progress <= new.progress

=============================================================================
