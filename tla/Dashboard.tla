----------------------------- MODULE Dashboard -----------------------------
(***************************************************************************)
(* The dashboard.  The backend's /api/dashboard runs six slices at once,   *)
(* waits for all and merges them; the web client asks for each slice by    *)
(* itself and shows every one as soon as it is there.  What a slice throws *)
(* is an exception: its status, the shape and the kind of its response and *)
(* its code.  The session may die while slices are under way.              *)
(***************************************************************************)
EXTENDS Integers, Sequences, FiniteSets, SequencesExt, FiniteSetsExt

CONSTANTS SliceOrder,  \* the slices, in the order of `runs`
          SourceOf,    \* slice -> the group of sections that spins for it
          MaxLoads

VARIABLES slices,  \* slice -> where its run is, at the backend
          answer,  \* the response to GET /api/dashboard
          alive,   \* whether the session lives
          asked,   \* slice -> the numbers of its requests under way
          pending, \* source -> a count of requests
          loads,   \* the number of loads so far
          value,   \* slice -> the load whose value is shown, 0 is none
          sliceErrors \* slice -> whether an error is shown

serverVars == <<slices, answer, alive>>
viewVars == <<asked, pending, loads, value, sliceErrors>>
dashVars == <<serverVars, viewVars>>

Slices == ToSet(SliceOrder)
Sources == {SourceOf[s] : s \in Slices}

ASSUME DashAssumption == SliceOrder \in Seq(Slices)

(***************************************************************************)
(* Exceptions, and what of them a client may see                           *)
(***************************************************************************)
Exception(status, shape, text, code) ==
    [status |-> status, shape |-> shape, text |-> text, code |-> code]

SessionDead == Exception(401, "object", "own", "SESSION_DEAD")
NotHttp == Exception(500, "none", "none", "none")

\* What the services, the framework and the code around them throw.
Exceptions ==
    {NotHttp,
     Exception(401, "object", "own", "UPSTREAM_SESSION"), Exception(401, "object", "default", "none"),
     Exception(403, "object", "own", "none"), Exception(409, "object", "own", "SESSION_DEAD"),
     Exception(400, "object", "list", "none"), Exception(404, "object", "route", "none"),
     Exception(429, "string", "throttler", "none"), Exception(502, "object", "own", "none"),
     Exception(503, "object", "blank", "UPSTREAM_DOWN"), Exception(502, "string", "own", "none")}

\* The canonical copy for a status.
messageForStatus(status) == <<"copy", status>>
Throttled == <<"copy", 429>>
RouteNotFound == <<"copy", "route">>
Validation == <<"copy", 400>>

errorCopy(e) ==
    [code |-> IF e.shape = "object" THEN e.code ELSE "none",
     message |->
        CASE e.shape = "string" /\ (e.status = 429 \/ e.text = "throttler") -> Throttled
          [] e.shape = "object" /\ e.text = "list" -> Validation
          [] e.shape = "object" /\ e.text # "list" /\ e.status = 429 -> Throttled
          [] e.status # 429 /\ e.status = 404 /\ e.text = "route" -> RouteNotFound
          [] e.status # 429 /\ e.text = "own" -> <<"own", e.status>>
          [] OTHER -> messageForStatus(e.status)]

sliceError(e) ==
    IF e = NotHttp THEN [status |-> 500, message |-> messageForStatus(500), code |-> "none"]
    ELSE [status |-> e.status, message |-> errorCopy(e).message, code |-> errorCopy(e).code]

isAuthenticatedFailureByCode(e) == e # NotHttp /\ e.shape = "object" /\ e.code = "SESSION_DEAD"
isAuthenticatedFailure(e) ==
    e # NotHttp /\ (e.status = 401 \/ (e.shape = "object" /\ e.code = "SESSION_DEAD"))

(***************************************************************************)
(* GET /api/dashboard                                                      *)
(***************************************************************************)
Running == [step |-> "running"]
Fulfilled == [step |-> "fulfilled"]
Rejected(e) == [step |-> "rejected", reason |-> e]
NoAnswerYet == [kind |-> "none"]

DashInit ==
    /\ slices = [s \in Slices |-> Running] /\ answer = NoAnswerYet /\ alive = TRUE
    /\ asked = [s \in Slices |-> {}] /\ pending = [src \in Sources |-> 0] /\ loads = 0
    /\ value = [s \in Slices |-> 0] /\ sliceErrors = [s \in Slices |-> FALSE]

\* All slices are settled: the first authenticated failure, in the order of the
\* runs, is the answer; every other failure leaves its slice empty.
getDashboard(settled) ==
    LET failed == {s \in Slices : settled[s].step = "rejected"}
        dead == {i \in DOMAIN SliceOrder :
                    SliceOrder[i] \in failed
                    /\ isAuthenticatedFailure(settled[SliceOrder[i]].reason)}
    IN  IF dead # {} THEN [kind |-> "rejection", reason |-> settled[SliceOrder[Min(dead)]].reason]
        ELSE [kind |-> "payload",
              filled |-> {s \in Slices : settled[s].step = "fulfilled"},
              errors |-> [s \in failed |-> sliceError(settled[s].reason)]]

\* A slice ends; one that looks for the session after its death throws.
SliceEnds(s) ==
    /\ slices[s].step = "running"
    /\ \E outcome \in (IF alive THEN {Fulfilled} ELSE {Rejected(SessionDead)})
                      \cup {Rejected(e) : e \in Exceptions} :
          LET settled == [slices EXCEPT ![s] = outcome] IN
          /\ slices' = settled
          /\ answer' = IF \A t \in Slices : settled[t].step # "running"
                       THEN getDashboard(settled) ELSE answer
    /\ UNCHANGED <<alive, viewVars>>

SessionDies ==
    /\ alive /\ answer = NoAnswerYet
    /\ alive' = FALSE
    /\ UNCHANGED <<slices, answer, viewVars>>

(***************************************************************************)
(* useDashboard                                                            *)
(***************************************************************************)

\* A load, of all the slices at once: the errors go, the values stay.
load ==
    /\ loads < MaxLoads
    /\ loads' = loads + 1
    /\ asked' = [s \in Slices |-> asked[s] \cup {loads'}]
    /\ pending' = [src \in Sources |->
                      pending[src] + Cardinality({s \in Slices : SourceOf[s] = src})]
    /\ sliceErrors' = [s \in Slices |-> FALSE]
    /\ UNCHANGED <<serverVars, value>>

SettleSourceAtOnce(src) == 0
SettleSource(src) == pending[src] - 1

\* A request of load n ends: with a value, which is shown, with a nullish one,
\* with a failure, which is silent for the schedule, or because of a logout.
runSlice(s, n) ==
    /\ n \in asked[s]
    /\ asked' = [asked EXCEPT ![s] = @ \ {n}]
    /\ pending' = [pending EXCEPT ![SourceOf[s]] = SettleSource(SourceOf[s])]
    /\ \E outcome \in {"value", "nullish", "failure", "logout"} :
          /\ value' = IF outcome = "value" THEN [value EXCEPT ![s] = n] ELSE value
          /\ sliceErrors' = [sliceErrors EXCEPT ![s] = @ \/ (outcome = "failure" /\ s # "jadwal")]
    /\ UNCHANGED <<serverVars, loads>>

\* The two share nothing: the web client does not use /api/dashboard.
ServerNext == SessionDies \/ \E s \in Slices : SliceEnds(s)
ViewNext == load \/ \E s \in Slices, n \in 1..MaxLoads : runSlice(s, n)

(***************************************************************************)
(* Properties                                                              *)
(***************************************************************************)

\* A payload comes only where every slice had its session: none of a session
\* that died on the way is passed off as an empty section, whichever slice saw
\* it and in whatever order they ended.  Of the rest, what is missing is told,
\* in words made for users.
NoDeadSessionInPayload ==
    answer.kind = "payload" =>
       /\ \A s \in Slices : slices[s].step = "rejected" =>
             slices[s].reason.status # 401 /\ slices[s].reason.code # "SESSION_DEAD"
       /\ DOMAIN answer.errors = Slices \ answer.filled
       /\ \A s \in DOMAIN answer.errors : answer.errors[s].message[1] \in {"copy", "own"}

\* The spinner of a group of sections turns exactly as long as one of its
\* requests is under way, however many loads overlap.
SpinnersTell ==
    \A src \in Sources :
       pending[src] > 0 <=> \E s \in Slices : SourceOf[s] = src /\ asked[s] # {}

DashboardIsHonest == NoDeadSessionInPayload /\ SpinnersTell

=============================================================================
