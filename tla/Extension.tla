----------------------------- MODULE Extension -----------------------------
(***************************************************************************)
(* The login flow of the browser extension: background.ts and the pure     *)
(* state machine of core/flow.ts it drives.                                *)
(*                                                                         *)
(* The web app sends handoff, logout and status messages.  Handoffs and    *)
(* logouts go through one serial queue; what they and the browser (cookie  *)
(* changes, page loads, alarms) tell the state machine goes through the    *)
(* flow runner, which works on one event at a time, parks ONE more while   *)
(* it does and wakes everyone who joined when it is through.  The state    *)
(* and the last result live in chrome.storage; the service worker, with    *)
(* its epoch, queue and runner, may be killed at any time.                 *)
(***************************************************************************)
EXTENDS Naturals, Sequences

CONSTANTS MaxRelogin,  \* MAX_RELOGIN
          MaxMessages, \* bound on the handoffs and logouts the app sends
          MaxTokens,   \* bound on the tokens the backend mints
          MaxEvents    \* bound on the browser's events

ASSUME ExtensionBounds ==
    MaxRelogin \in Nat /\ MaxMessages \in Nat /\ MaxTokens \in Nat /\ MaxEvents \in Nat

VARIABLES saved,     \* chrome.storage: the flow, the last result, the persisted epoch
          cookies,   \* the services whose session cookie the browser holds
          tabAlive,  \* the flow's login tab still exists
          alarm,     \* the timeout alarm is set
          epoch,     \* the coordinator's operation epoch
          restoring, \* the persisted epoch a fresh worker has still to adopt; 0 is none
          run,       \* the flow runner
          queue,     \* the coordinator's serial queue; its head is being worked on
          poll,      \* a status message being answered
          minted,    \* tokens the backend has minted; the last one revokes the others
          sent,      \* handoffs and logouts the app has sent
          happened,  \* events of the browser
          told,      \* the token the app was last answered with; 0 is none
          logouts    \* tokens minted when a logout was last answered ok, and when
                     \* the worker was last killed in one

extVars == <<saved, cookies, tabAlive, alarm, epoch, restoring, run, queue, poll,
             minted, sent, happened, told, logouts>>

Services == {"sso", "kulon", "siap"}

\* phasesToClear
Downstream(service) ==
    CASE service = "sso"   -> Services
      [] service = "kulon" -> {"kulon", "siap"}
      [] service = "siap"  -> {"siap"}

-----------------------------------------------------------------------------
(* The state machine                                                         *)

Flows == [core : {"idle", "authing", "handoff", "done", "error"},
          service : Services \cup {"none"}, tab : BOOLEAN, relogin : 0..MaxRelogin,
          settled : BOOLEAN, changed : BOOLEAN, overdue : BOOLEAN]

\* initialState
IdleFlow == [core |-> "idle", service |-> "none", tab |-> FALSE, relogin |-> 0,
             settled |-> FALSE, changed |-> FALSE, overdue |-> FALSE]

IsActive(flow) == flow.core \in {"authing", "handoff"}

\* normalizeState
Normalized(flow) ==
    IF \/ flow.core \in {"done", "error"} /\ ~ flow.tab
       \/ IsActive(flow) /\ flow.overdue
    THEN IdleFlow
    ELSE flow

\* isPhaseSatisfied
PhaseSatisfied(flow) == flow.core = "authing" /\ flow.service \in cookies

\* An event and its argument: the services whose cookie changed (none: the
\* poll alarm), whether a loaded page shows a login, the service a handoff
\* lacks, the token it brought.
FlowEvent(type, arg) == [type |-> type, arg |-> arg]

NoEvent == FlowEvent("none", 0)

\* What a transition leads to: the next flow and the effects, of which `tab`
\* is open, close, navigate or keep.
Outcome(flow) == [flow |-> flow, post |-> FALSE, result |-> "none", token |-> 0,
                  clear |-> {}, tab |-> "keep", timers |-> "keep"]

\* The flow gives up or is through: timers and tabs go, the app is told.
Terminal(flow, core, result, token) ==
    [Outcome([flow EXCEPT !.core = core, !.tab = FALSE]) EXCEPT
        !.result = result, !.token = token, !.tab = "close", !.timers = "clear"]

\* Towards the login page of a service, in the flow's tab if it has one.
Visit(flow, service) ==
    [Outcome([flow EXCEPT !.core = "authing", !.service = service, !.tab = TRUE,
                          !.settled = FALSE, !.changed = FALSE, !.overdue = FALSE])
     EXCEPT !.tab = IF flow.tab THEN "navigate" ELSE "open", !.timers = "set"]

\* advanceAuth
AdvanceAuth(flow) ==
    IF flow.service \notin cookies THEN Outcome(flow)
    ELSE IF flow.service = "sso" THEN Visit(flow, "kulon")
    ELSE IF flow.service = "kulon" /\ "siap" \notin cookies THEN Visit(flow, "siap")
    ELSE [Outcome([flow EXCEPT !.core = "handoff"]) EXCEPT !.post = TRUE]

\* sessionCookieChanged
SessionCookieChanged(event, service) ==
    IF event.arg = {} THEN service # "sso" ELSE service \in event.arg

\* TAB_LOADED while a login is under way
Loaded(flow, event) ==
    LET settled == [flow EXCEPT !.settled = TRUE] IN
    IF \/ flow.service = "sso" /\ event.arg /\ "sso" \in cookies
       \/ flow.service # "sso" /\ flow.changed /\ flow.service \in cookies
    THEN AdvanceAuth([settled EXCEPT !.changed = FALSE])
    ELSE Outcome(settled)

\* COOKIE_SET while a login is under way; `guarded` is whether the SSO page
\* settled less than SSO_GUARD_MS ago
CookieSet(flow, event, guarded) ==
    LET isPoll == event.arg = {}
        base   == IF isPoll THEN [flow EXCEPT !.settled = TRUE] ELSE flow IN
    CASE ~ base.settled ->
            Outcome([flow EXCEPT !.changed = @ \/ SessionCookieChanged(event, flow.service)])
      [] base.settled /\ (\/ flow.service = "sso" /\ (guarded \/ ~ flow.settled)
                          \/ ~ SessionCookieChanged(event, flow.service)) ->
            Outcome(base)
      [] OTHER -> AdvanceAuth([base EXCEPT !.changed = TRUE])

\* HANDOFF_STALE
HandoffStale(flow, service) ==
    IF flow.relogin < MaxRelogin
    THEN [Visit([flow EXCEPT !.relogin = @ + 1], service) EXCEPT
             !.clear = Downstream(service)]
    ELSE Terminal(flow, "error", "error", 0)

\* REQUEST when no flow is active
Requested ==
    IF "kulon" \notin cookies
    THEN Visit(IdleFlow, "sso")
    ELSE [Outcome([IdleFlow EXCEPT !.core = "handoff"]) EXCEPT !.post = TRUE]

\* advance
Advance(flow, event, guarded) ==
    CASE event.type = "LOGOUT" ->
            [Terminal(flow, "idle", "none", 0) EXCEPT !.flow = IdleFlow]
      [] event.type = "REQUEST" /\ ~ IsActive(flow) -> Requested
      [] event.type = "TIMEOUT" /\ IsActive(flow) -> Terminal(flow, "error", "error", 0)
      [] event.type = "TAB_LOADED" /\ flow.core = "authing" -> Loaded(flow, event)
      [] event.type = "COOKIE_SET" /\ flow.core = "authing" ->
            CookieSet(flow, event, guarded)
      [] event.type = "HANDOFF_OK" /\ flow.core = "handoff" ->
            Terminal(flow, "done", "ok", event.arg)
      [] event.type = "HANDOFF_NEEDS_SERVICE" /\ flow.core = "handoff" ->
            [Visit(flow, event.arg) EXCEPT !.clear = Downstream(event.arg)]
      [] event.type = "HANDOFF_STALE" /\ flow.core = "handoff" -> HandoffStale(flow, event.arg)
      [] event.type = "HANDOFF_ERROR" /\ flow.core = "handoff" ->
            Terminal(flow, "error", "error", 0)
      [] OTHER -> Outcome(flow)

-----------------------------------------------------------------------------
(* The flow runner: createSerializedFlowRunner and the pass it is given.     *)

Off == [pc |-> "off", event |-> NoEvent, parked |-> NoEvent, follow |-> NoEvent,
        out |-> Outcome(IdleFlow)]

Priority(event) == CASE event.type = "LOGOUT" -> 3 [] event.type = "REQUEST" -> 2
                     [] event.type = "none" -> 0 [] OTHER -> 1

\* runFlow: an event starts a run, or is parked if none that matters more is.
RunFlow(event) ==
    run' = IF run.pc = "off" THEN [Off EXCEPT !.pc = "step", !.event = event]
           ELSE IF Priority(event) >= Priority(run.parked)
           THEN [run EXCEPT !.parked = event]
           ELSE run

\* drainPendingEvent
Drain(event, flow, parked) ==
    IF event.type = "HANDOFF_OK" /\ flow.core = "done" /\ parked.type = "REQUEST"
    THEN NoEvent
    ELSE parked

\* The operation that waits for the run hears how it ended.
Wake(how) ==
    queue' = IF queue # <<>> /\ Head(queue).pc = "joined"
             THEN [queue EXCEPT ![1].pc = how]
             ELSE queue

\* The next event of the run, or its end.  The code also ends a run after its
\* twentieth step, with what is parked left for the next run; a run that long,
\* which takes an event parked during each of its steps, is not modelled.
NextEvent(flow) ==
    LET next == IF run.follow.type # "none" THEN run.follow
                ELSE Drain(run.event, flow, run.parked) IN
    IF next.type = "none"
    THEN run' = Off /\ Wake("ran")
    ELSE /\ run' = [Off EXCEPT !.pc = "step", !.event = next,
                       !.parked = IF run.follow.type # "none" THEN run.parked ELSE NoEvent]
         /\ UNCHANGED queue

\* The state and the cookies are read, and the state machine decides.
Step ==
    /\ run.pc = "step"
    /\ \E guarded \in BOOLEAN :
         LET out == Advance(Normalized(saved.flow), run.event, guarded) IN
         run' = [run EXCEPT !.out = out,
                            !.pc = IF out.post THEN "post"
                                   ELSE IF out.result # "none" THEN "send" ELSE "save"]
    /\ UNCHANGED <<saved, cookies, tabAlive, alarm, epoch, restoring, queue, poll,
                   minted, sent, happened, told, logouts>>

\* What the backend may answer a handoff of the cookies held now.
Answers ==
    {FlowEvent("HANDOFF_ERROR", 0)}
    \cup (IF "kulon" \notin cookies THEN {FlowEvent("HANDOFF_NEEDS_SERVICE", "kulon")}
          ELSE {FlowEvent("HANDOFF_STALE", s) : s \in {"kulon", "siap"}}
               \cup {FlowEvent("HANDOFF_NEEDS_SERVICE", s) : s \in {"sso", "siap"} \ cookies}
               \cup (IF cookies = Services /\ minted < MaxTokens
                     THEN {FlowEvent("HANDOFF_OK", minted + 1)} ELSE {}))

\* postHandoffDecision: the POST is answered or fails.
Post ==
    /\ run.pc = "post"
    /\ \E answer \in Answers :
         /\ run' = [run EXCEPT !.pc = "save", !.follow = answer]
         /\ minted' = IF answer.type = "HANDOFF_OK" THEN answer.arg ELSE minted
    /\ UNCHANGED <<saved, cookies, tabAlive, alarm, epoch, restoring, queue, poll, sent,
                   happened, told, logouts>>

\* sendToApp: the result is cached under the epoch of the moment, and pushed.
SendToApp ==
    /\ run.pc = "send"
    /\ saved' = [saved EXCEPT !.result = [status |-> run.out.result, token |-> run.out.token],
                              !.epoch = epoch]
    /\ run' = [run EXCEPT !.pc = "save"]
    /\ UNCHANGED <<cookies, tabAlive, alarm, epoch, restoring, queue, poll, minted, sent,
                   happened, told, logouts>>

\* clearCookies; that a browser fails to remove one is left to the logout.
ClearedCookies == cookies \ run.out.clear

\* The cookie, tab and timer effects, then setState.
Save ==
    /\ run.pc = "save"
    /\ saved' = [saved EXCEPT !.flow = run.out.flow]
    /\ cookies' = ClearedCookies
    /\ tabAlive' = CASE run.out.tab = "open" -> TRUE [] run.out.tab = "close" -> FALSE
                     [] OTHER -> tabAlive
    /\ alarm' = CASE run.out.timers = "set" -> TRUE [] run.out.timers = "clear" -> FALSE
                  [] OTHER -> alarm
    /\ NextEvent(run.out.flow)
    /\ UNCHANGED <<epoch, restoring, poll, minted, sent, happened, told, logouts>>

\* A mutation: the promise of a failed run never settles.
SaveFailsSilently ==
    /\ run.pc = "save" /\ run.out.tab = "open"
    /\ cookies' = ClearedCookies
    /\ run' = Off
    /\ UNCHANGED <<saved, tabAlive, alarm, epoch, restoring, queue, poll, minted, sent,
                   happened, told, logouts>>

\* The tab cannot be opened: the step throws before anything is saved.
SaveFails ==
    /\ run.pc = "save" /\ run.out.tab = "open"
    /\ cookies' = ClearedCookies
    /\ run' = Off
    /\ Wake("failed")
    /\ UNCHANGED <<saved, tabAlive, alarm, epoch, restoring, poll, minted, sent, happened,
                   told, logouts>>

-----------------------------------------------------------------------------
(* The queue: performHandoff and performLogout.                              *)

Operation(kind, opEpoch) ==
    [kind |-> kind, epoch |-> opEpoch,
     pc |-> IF kind = "logout" THEN "request" ELSE "read",
     flow |-> IdleFlow, clean |-> TRUE, since |-> logouts]

NoResult == [status |-> "none", token |-> 0]

\* onMessageExternal of a handoff: beginHandoff and the single flight per epoch.
SendHandoff ==
    LET joins  == \E i \in DOMAIN queue : queue[i].kind = "handoff" /\ queue[i].epoch = epoch
        opened == epoch + 1 IN
    /\ sent < MaxMessages
    /\ sent' = sent + 1
    /\ epoch' = IF joins THEN epoch ELSE opened
    /\ queue' = IF joins THEN queue ELSE Append(queue, Operation("handoff", opened))
    /\ saved' = [saved EXCEPT !.epoch = epoch']
    /\ UNCHANGED <<cookies, tabAlive, alarm, restoring, run, poll, minted, happened, told,
                   logouts>>

\* onMessageExternal of a logout: invalidate
SendLogout ==
    /\ sent < MaxMessages
    /\ sent' = sent + 1
    /\ epoch' = epoch + 1
    /\ queue' = Append(queue, Operation("logout", epoch'))
    /\ saved' = [saved EXCEPT !.epoch = epoch']
    /\ UNCHANGED <<cookies, tabAlive, alarm, restoring, run, poll, minted, happened, told,
                   logouts>>

AtHead(kind, pc) ==
    queue # <<>> /\ Head(queue).kind = kind /\ Head(queue).pc = pc

Cancelled == Head(queue).epoch # epoch

Goto(pc) == queue' = [queue EXCEPT ![1].pc = pc]

\* The head of the queue is answered, with a token or without.
AnswerApp(token) ==
    /\ queue' = Tail(queue)
    /\ told' = [token |-> token, since |-> Head(queue).since]

browserVars == <<cookies, tabAlive, alarm, happened>>

\* performHandoff: the state is read.
HandoffRead ==
    /\ AtHead("handoff", "read")
    /\ IF Cancelled THEN AnswerApp(0)
       ELSE /\ queue' = [queue EXCEPT ![1].pc = "remove", ![1].flow = Normalized(saved.flow)]
            /\ UNCHANGED told
    /\ UNCHANGED <<browserVars, saved, epoch, restoring, run, poll, minted, sent, logouts>>

\* removeResultForEpoch takes the result away whatever its epoch, or fails.
HandoffRemove ==
    /\ AtHead("handoff", "remove")
    /\ \/ Cancelled /\ AnswerApp(0) /\ UNCHANGED saved
       \/ /\ ~ Cancelled
          /\ saved' = [saved EXCEPT !.result = NoResult, !.epoch = 0]
          /\ Goto("decide")
          /\ UNCHANGED told
       \/ ~ Cancelled /\ AnswerApp(0) /\ UNCHANGED saved
    /\ UNCHANGED <<browserVars, epoch, restoring, run, poll, minted, sent, logouts>>

\* decideHandoffRequest on the state read, and the tab and cookies of now; then
\* setState
HandoffDecide ==
    LET flow    == Head(queue).flow
        started == IsActive(flow) /\ tabAlive /\ flow.tab /\ ~ PhaseSatisfied(flow) IN
    /\ AtHead("handoff", "decide")
    /\ IF Cancelled \/ started
       THEN AnswerApp(0) /\ UNCHANGED saved
       ELSE /\ saved' = [saved EXCEPT !.flow = IF IsActive(flow) THEN IdleFlow ELSE flow]
            /\ Goto("request")
            /\ UNCHANGED told
    /\ UNCHANGED <<browserVars, epoch, restoring, run, poll, minted, sent, logouts>>

HandoffRequest ==
    /\ AtHead("handoff", "request")
    /\ IF Cancelled THEN AnswerApp(0) /\ UNCHANGED run
       ELSE Goto("joined") /\ RunFlow(FlowEvent("REQUEST", 0)) /\ UNCHANGED told
    /\ UNCHANGED <<browserVars, saved, epoch, restoring, poll, minted, sent, logouts>>

\* handoffSyncResponse on the state and the result read after the run
HandoffRan ==
    LET after == Normalized(saved.flow) IN
    /\ AtHead("handoff", "ran") \/ AtHead("handoff", "failed")
    /\ AnswerApp(IF /\ Head(queue).pc = "ran" /\ ~ Cancelled /\ after.core = "done"
                    /\ saved.result.status = "ok"
                 THEN saved.result.token ELSE 0)
    /\ UNCHANGED <<browserVars, saved, epoch, restoring, run, poll, minted, sent, logouts>>

\* A mutation: the cached result is removed before the flow has stopped.
LogoutRequestEarly ==
    /\ AtHead("logout", "request")
    /\ RunFlow(FlowEvent("LOGOUT", 0))
    /\ saved' = [saved EXCEPT !.result = NoResult, !.epoch = 0]
    /\ IF run.pc = "off" THEN Goto("joined")
       ELSE queue' = [queue EXCEPT ![1].pc = "remove"]
    /\ UNCHANGED <<browserVars, epoch, restoring, poll, minted, sent, told, logouts>>

\* performLogout: the flow is ended first, whatever it is doing.
LogoutRequest ==
    /\ AtHead("logout", "request")
    /\ RunFlow(FlowEvent("LOGOUT", 0))
    /\ Goto("joined")
    /\ UNCHANGED <<browserVars, saved, epoch, restoring, poll, minted, sent, told, logouts>>

\* clearSessionCookies, completely or not
LogoutClear ==
    /\ AtHead("logout", "ran") \/ AtHead("logout", "failed")
    /\ \E complete \in BOOLEAN :
         /\ cookies' \in IF complete THEN {{}} ELSE SUBSET cookies
         /\ queue' = [queue EXCEPT ![1].pc = "remove",
                                   ![1].clean = complete /\ Head(queue).pc = "ran"]
    /\ UNCHANGED <<saved, tabAlive, alarm, happened, epoch, restoring, run, poll, minted,
                   sent, told, logouts>>

\* removeResult(0), and the answer
LogoutRemove ==
    /\ AtHead("logout", "remove")
    /\ AnswerApp(0)
    /\ \E removed \in BOOLEAN :
         /\ saved' = IF removed THEN [saved EXCEPT !.result = NoResult, !.epoch = 0] ELSE saved
         /\ logouts' = IF removed /\ Head(queue).clean
                       THEN [logouts EXCEPT !.answered = minted] ELSE logouts
    /\ UNCHANGED <<browserVars, epoch, restoring, run, poll, minted, sent>>

-----------------------------------------------------------------------------
(* Status messages                                                           *)

NoPoll == [pc |-> "none", epoch |-> 0, result |-> NoResult,
           since |-> [answered |-> 0, killed |-> 0]]

\* performStatus: the result is read, and then the state, if the epoch is
\* still the message's.
PollStart ==
    /\ poll = NoPoll
    /\ poll' = [pc |-> "read", epoch |-> epoch, result |-> saved.result, since |-> logouts]
    /\ saved' = [saved EXCEPT !.epoch = epoch]
    /\ UNCHANGED <<browserVars, epoch, restoring, run, queue, minted, sent, told, logouts>>

\* pollStatusForEpoch
PollAnswer ==
    /\ poll.pc = "read"
    /\ told' = [token |-> IF poll.epoch = epoch THEN poll.result.token ELSE 0,
               since |-> poll.since]
    /\ poll' = NoPoll
    /\ UNCHANGED <<browserVars, saved, epoch, restoring, run, queue, minted, sent, logouts>>

-----------------------------------------------------------------------------
(* The browser                                                               *)

workerVars == <<saved, epoch, restoring, queue, poll, minted, sent, told, logouts>>

\* A page of a service sets its session cookie; the debounced listener tells.
CookieAppears ==
    /\ happened < MaxEvents
    /\ happened' = happened + 1
    /\ \E s \in Services \ cookies :
         cookies' = cookies \cup {s} /\ RunFlow(FlowEvent("COOKIE_SET", {s}))
    /\ UNCHANGED <<workerVars, tabAlive, alarm>>

\* onUpdated of the flow's tab: the page shows a login or the form.
TabLoads ==
    /\ happened < MaxEvents /\ tabAlive /\ Normalized(saved.flow).core = "authing"
    /\ happened' = happened + 1
    /\ \E loggedIn \in BOOLEAN : RunFlow(FlowEvent("TAB_LOADED", loggedIn))
    /\ UNCHANGED <<workerVars, cookies, tabAlive, alarm>>

\* The two alarms.
PollAlarm ==
    /\ happened < MaxEvents /\ alarm
    /\ happened' = happened + 1
    /\ RunFlow(FlowEvent("COOKIE_SET", {}))
    /\ UNCHANGED <<workerVars, cookies, tabAlive, alarm>>

TimeoutAlarm ==
    /\ alarm /\ alarm' = FALSE
    /\ RunFlow(FlowEvent("TIMEOUT", 0))
    /\ UNCHANGED <<workerVars, cookies, tabAlive, happened>>

\* The phase's deadline passes.
DeadlinePasses ==
    /\ happened < MaxEvents /\ IsActive(saved.flow) /\ ~ saved.flow.overdue
    /\ happened' = happened + 1
    /\ saved' = [saved EXCEPT !.flow.overdue = TRUE]
    /\ UNCHANGED <<cookies, tabAlive, alarm, epoch, restoring, run, queue, poll, minted, sent, told, logouts>>

\* The user closes the login tab.
TabCloses ==
    /\ happened < MaxEvents /\ tabAlive
    /\ happened' = happened + 1
    /\ tabAlive' = FALSE
    /\ UNCHANGED <<workerVars, run, cookies, alarm>>

\* The worker is killed; the next message, event or alarm starts another one.
Restart ==
    /\ happened < MaxEvents
    /\ happened' = happened + 1
    /\ epoch' = 0 /\ restoring' = saved.epoch
    /\ run' = Off /\ queue' = <<>> /\ poll' = NoPoll
    /\ logouts' = IF \E i \in DOMAIN queue : queue[i].kind = "logout"
                  THEN [logouts EXCEPT !.killed = minted] ELSE logouts
    /\ UNCHANGED <<saved, cookies, tabAlive, alarm, minted, sent, told>>

\* restoreEpoch, once the persisted epoch has been read
RestoreEpoch ==
    /\ restoring # 0 /\ restoring' = 0
    /\ epoch' = IF restoring > epoch THEN restoring ELSE epoch
    /\ UNCHANGED <<browserVars, saved, run, queue, poll, minted, sent, told, logouts>>

ExtInit ==
    /\ saved = [flow |-> IdleFlow, result |-> NoResult, epoch |-> 0]
    /\ cookies \in {{}, Services}
    /\ tabAlive = FALSE /\ alarm = FALSE
    /\ epoch = 0 /\ restoring = 0
    /\ run = Off /\ queue = <<>> /\ poll = NoPoll
    /\ minted = 0 /\ sent = 0 /\ happened = 0
    /\ logouts = [answered |-> 0, killed |-> 0]
    /\ told = [token |-> 0, since |-> logouts]

RunnerStep == Step \/ Post \/ SendToApp \/ Save \/ SaveFails

QueueStep ==
    \/ HandoffRead \/ HandoffRemove \/ HandoffDecide \/ HandoffRequest \/ HandoffRan
    \/ LogoutRequest \/ LogoutClear \/ LogoutRemove

BrowserStep == CookieAppears \/ TabLoads \/ PollAlarm \/ TimeoutAlarm
               \/ DeadlinePasses \/ TabCloses \/ Restart

ExtNext ==
    \/ RunnerStep \/ QueueStep \/ SendHandoff \/ SendLogout
    \/ PollStart \/ PollAnswer \/ BrowserStep \/ RestoreEpoch

\* The worker's promises settle: every awaited browser call and the backend's
\* answer come, as long as the worker lives.
ExtFairness == WF_extVars(RunnerStep) /\ WF_extVars(QueueStep)

ExtSpec == ExtInit /\ [][ExtNext]_extVars /\ ExtFairness

-----------------------------------------------------------------------------
(* Properties                                                                *)

ExtTypeOK ==
    /\ saved.flow \in Flows /\ run.out.flow \in Flows
    /\ saved.result \in [status : {"none", "ok", "error"}, token : 0..MaxTokens]
    /\ saved.epoch \in 0..MaxMessages /\ epoch \in 0..MaxMessages
    /\ restoring \in 0..MaxMessages
    /\ cookies \subseteq Services /\ tabAlive \in BOOLEAN /\ alarm \in BOOLEAN
    /\ run.pc \in {"off", "step", "post", "send", "save"}
    /\ \A i \in DOMAIN queue :
          /\ queue[i].kind \in {"handoff", "logout"}
          /\ i > 1 => queue[i].pc \in {"read", "request"}
    /\ {minted, told.token, logouts.answered, logouts.killed} \subseteq 0..MaxTokens

\* Once a logout has been answered ok, no later message of the app is answered
\* with a token minted before: not a poll, not a handoff, not after the worker
\* was killed and restarted, in runs of fewer than the runner's twenty steps.
LogoutForgetsTokens == told.token # 0 => told.token > told.since.answered

\* Every handoff and every logout the app has sent is answered, unless the
\* worker is killed.
OperationsEnd == (queue # <<>>) ~> (queue = <<>>)

\* background.ts says of a restarted worker that "a cached result tagged with an
\* OLDER epoch is rejected by every poll": a logout the worker was killed in
\* leaves no token for a later message.
KilledLogoutForgetsTokens == told.token # 0 => told.token > told.since.killed

=============================================================================
