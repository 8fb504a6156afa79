------------------------- MODULE MCNotificationPoller -------------------------
(* NotificationPoller, remembering what has been pushed.                     *)
EXTENDS NotificationPoller, TLC

VARIABLES fresh,    \* fresh[u]: the events pushed by a worker that has not ended
          settled,  \* settled[u]: those of the workers that came to their end
          told,     \* told[u]: pushed "session expired", and no good fetch since
          dropped   \* dropped[u]: the new tasks no web push was left for

historyVars == <<fresh, settled, told, dropped>>

MCPollVars == <<pollVars, historyVars>>

None == [u \in Users |-> {}]

\* Nothing is saved yet, or an earlier process has seen a timetable and no task.
MCPollInit ==
    /\ \/ PollInit
       \/ \E slot \in Slots : SavedInit([u \in Users |-> {}], [u \in Users |-> slot])
    /\ fresh = None /\ settled = None /\ dropped = None
    /\ told = [u \in Users |-> FALSE]

Reaches(n, u) == work[n][u].fcm \/ SendsWeb(n, u)

\* A task that has left the snapshot is new when it is back.
Left(u, known) == {event \in known : event.kind = "new_task" /\ event.what \notin snapTasks'[u]}

MCWork(n, u) ==
    \/ \E event \in work[n][u].pending :
         /\ PushFcm(n, u, event)
         /\ fresh' = [fresh EXCEPT ![u] = IF Reaches(n, u) THEN @ \cup {event} ELSE @]
         /\ told' = [told EXCEPT ![u] = @ \/ (event = SessionExpired /\ Reaches(n, u))]
         /\ UNCHANGED <<settled, dropped>>
    \/ /\ PushWeb(n, u)
       /\ dropped' = [dropped EXCEPT ![u] =
             IF work[n][u].web /\ ~ SendsWeb(n, u)
                /\ work[n][u].event.kind = "new_task"
             THEN @ \cup {work[n][u].event} ELSE @]
       /\ UNCHANGED <<fresh, settled, told>>
    \/ /\ ResetFlag(n, u)
       /\ settled' = [settled EXCEPT ![u] = @ \ {SessionExpired}]
       /\ told' = [told EXCEPT ![u] = FALSE]
       /\ UNCHANGED <<fresh, dropped>>
    \/ /\ SaveTasks(n, u)
       /\ settled' = [settled EXCEPT ![u] = @ \ Left(u, @)]
       /\ dropped' = [dropped EXCEPT ![u] = {}]
       /\ UNCHANGED <<fresh, told>>
    \/ /\ WorkDone(n, u)
       /\ settled' = [settled EXCEPT ![u] = @ \cup fresh[u]]
       /\ fresh' = [fresh EXCEPT ![u] = {}]
       /\ UNCHANGED <<told, dropped>>
    \/ /\ UserSkipped(n, u) \/ CycleRejected(n, u)
       /\ fresh' = [fresh EXCEPT ![u] = {}] /\ dropped' = [dropped EXCEPT ![u] = {}]
       /\ UNCHANGED <<settled, told>>
    \/ /\ \/ Devices(n, u) \/ Fetched(n, u) \/ FetchStale(n, u) \/ Detect(n, u) \/ Pushed(n, u)
          \/ SaveTable(n, u) \/ SaveDeadline(n, u) \/ SavePrints(n, u) \/ Relogin(n, u)
          \/ SetFlag(n, u)
       /\ UNCHANGED historyVars

MCPollNext ==
    \/ \E n \in Cycles : CycleStep(n) /\ UNCHANGED historyVars
    \/ \E n \in Cycles, u \in Users : MCWork(n, u)
    \/ Tick /\ UNCHANGED historyVars
    \/ Restart /\ fresh' = None /\ dropped' = None /\ UNCHANGED <<settled, told>>

MCPollSpec == MCPollInit /\ [][MCPollNext]_MCPollVars

MCSymmetry == Permutations(Users) \cup Permutations(Tasks) \cup Permutations(Slots)

Pushes(n, u, event) ==
    /\ WorkerAt(n, u, "pushing") /\ WorkerAt(n, u, "web")' /\ work'[n][u].event = event
    /\ Reaches(n, u)

\* An event is pushed again only if the worker that pushed it did not come to
\* its end: what was fetched half, what moved and moved back, a deadline that is
\* seen in every cycle, a session that stays over, do not nag.
RepeatsOnlyAfterFailure ==
    [][\A n \in Cycles, u \in Users : \A event \in work[n][u].pending :
         Pushes(n, u, event) => event \notin settled[u] \cup fresh[u]]_MCPollVars

\* No assignment slips into the snapshot unseen: it was there when the first
\* snapshot was taken, or the user has been told, even if cycles failed half-way
\* or upstream left out half of the list for a while.
NothingIsSkipped ==
    [][\A u \in Users : snapTasks[u] # Null =>
         \A t \in snapTasks'[u] \ snapTasks[u] :
            Event("new_task", t) \in fresh[u] \cup settled[u] \cup dropped[u]]_MCPollVars

\* poller.service.ts:216, "Push 'sesi berakhir' maksimal sekali per episode
\* expired": at most once from one good fetch to the next.
ReloginOncePerEpisode ==
    [][\A n \in Cycles, u \in Users : Pushes(n, u, SessionExpired) => ~ told[u]]_MCPollVars

=============================================================================
