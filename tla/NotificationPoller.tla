-------------------------- MODULE NotificationPoller --------------------------
(***************************************************************************)
(* poller.service.ts over redis-notification.store.ts: every quarter of an *)
(* hour a cycle fetches what upstream has for each user, compares it with  *)
(* what the last cycle saved, pushes the differences and saves.  Users are *)
(* worked on a chunk at a time; a worker is processUser() for one of them, *)
(* or sendReloginOnce() if that met a dead session.                        *)
(*                                                                         *)
(* Of the assignments the ids matter (each with a due date that does not   *)
(* move), and which of them are due within the window; of the timetable one*)
(* course with one slot.  The order in which the events of one user are    *)
(* pushed is left open.  Lifetimes of 14 and 30 days are longer than any   *)
(* behaviour here.  What a worker has no more use for goes back to its value*)
(* in Off.                                                                 *)
(***************************************************************************)
EXTENDS Integers, FiniteSets, FiniteSetsExt

CONSTANTS Users, Tasks, Slots,
          NoSlot,      \* an empty timetable
          Null,        \* no snapshot under the key
          ChunkSize,   \* CHUNK_SIZE
          Budget,      \* WEB_PUSH_CYCLE_BUDGET
          LockTtl,     \* LOCK_TTL_S, in ticks
          MaxTime,     \* bound on the clock
          MaxCycles    \* bound on the calls of runCycle()

ASSUME PollerAssumption ==
    /\ ChunkSize \in Nat \ {0} /\ Budget \in Nat /\ LockTtl \in Nat \ {0}
    /\ MaxTime \in Nat /\ MaxCycles \in Nat
    /\ NoSlot \notin Slots /\ Null \notin Slots \cup {NoSlot}

VARIABLES now, lock,      \* lock: when notif:cycle-lock is dropped, or 0
          running,        \* the flag in the process
          cycle, work,    \* cycle[n]: the n-th call; work[n][u]: its worker for u
          snapTasks, snapTable, sentDeadline, sentPrints, relogin  \* Redis, by user

savedVars == <<snapTasks, snapTable, sentDeadline, sentPrints, relogin>>

pollVars == <<now, lock, running, cycle, work, savedVars>>

Cycles == 1..MaxCycles

CycleStates ==
    [at : {"unused", "locking", "listing", "working", "unlocking", "ended"},
     todo : SUBSET Users, budget : 0..Budget]

Unused == [at |-> "unused", todo |-> {}, budget |-> 0]

EndedCycle == [Unused EXCEPT !.at = "ended"]

Prints == Slots \X Slots

SessionExpired == [kind |-> "session_expired", what |-> <<>>]

Events ==
    [kind : {"new_task", "deadline_reached"}, what : Tasks]
    \cup [kind : {"reschedule"}, what : Prints] \cup {SessionExpired}

WorkStates ==
    [at : {"off", "devices", "fetching", "flag", "detecting", "relogin", "pushing", "web",
           "saveTasks", "saveTable", "saveDeadline", "savePrints", "flagging", "ending"},
     expired : BOOLEAN,              \* sendReloginOnce, not processUser
     fcm : BOOLEAN, web : BOOLEAN,   \* the user has device tokens, web subscriptions
     tasks : SUBSET Tasks, due : SUBSET Tasks, table : Slots \cup {NoSlot},
     pending : SUBSET Events, event : Events,
     validTasks : BOOLEAN, validTable : BOOLEAN,
     keys : SUBSET Tasks, prints : SUBSET Prints]

Off == [at |-> "off", expired |-> FALSE, fcm |-> FALSE, web |-> FALSE,
        tasks |-> {}, due |-> {}, table |-> NoSlot,
        pending |-> {}, event |-> SessionExpired,
        validTasks |-> FALSE, validTable |-> FALSE, keys |-> {}, prints |-> {}]

SavedInit(tasks, table) ==
    /\ now = 0 /\ lock = 0 /\ running = FALSE
    /\ cycle = [n \in Cycles |-> Unused]
    /\ work = [n \in Cycles |-> [u \in Users |-> Off]]
    /\ snapTasks = tasks
    /\ snapTable = table
    /\ sentDeadline = [u \in Users |-> {}]
    /\ sentPrints = [u \in Users |-> {}]
    /\ relogin = [u \in Users |-> FALSE]

PollInit == SavedInit([u \in Users |-> Null], [u \in Users |-> Null])

-----------------------------------------------------------------------------
(* runCycle                                                                  *)

IsNext(n) == cycle[n].at = "unused" /\ \A m \in Cycles : m < n => cycle[m].at # "unused"

\* tryLockCycle: SET NX EX, sent only while the flag is down.
Enter(n) ==
    /\ IsNext(n)
    /\ IF running \/ now < lock
       THEN cycle' = [cycle EXCEPT ![n] = EndedCycle] /\ UNCHANGED lock
       ELSE /\ cycle' = [cycle EXCEPT ![n].at = "locking"]
            /\ lock' = now + LockTtl
    /\ UNCHANGED <<now, running, work, savedVars>>

\* The reply to the SET is back, or it is lost.
Locked(n) ==
    /\ cycle[n].at = "locking"
    /\ \/ running' = TRUE /\ cycle' = [cycle EXCEPT ![n].at = "listing"]
       \/ UNCHANGED running /\ cycle' = [cycle EXCEPT ![n] = EndedCycle]
    /\ UNCHANGED <<now, lock, work, savedVars>>

List(n) ==
    /\ cycle[n].at = "listing"
    /\ \E subs \in SUBSET Users :
         cycle' = [cycle EXCEPT ![n] = [at |-> "working", todo |-> subs, budget |-> Budget]]
    /\ UNCHANGED <<now, lock, running, work, savedVars>>

Working(n) == {u \in Users : work[n][u].at # "off"}

\* The next chunk, once Promise.all has the whole of the last one.
Chunk(n) ==
    /\ cycle[n].at = "working" /\ Working(n) = {} /\ cycle[n].todo # {}
    /\ \E users \in kSubset(Min({ChunkSize, Cardinality(cycle[n].todo)}), cycle[n].todo) :
         /\ cycle' = [cycle EXCEPT ![n].todo = @ \ users]
         /\ work' = [work EXCEPT ![n] =
                       [u \in Users |-> IF u \in users THEN [Off EXCEPT !.at = "devices"]
                                        ELSE Off]]
    /\ UNCHANGED <<now, lock, running, savedVars>>

ChunksDone(n) ==
    /\ cycle[n].at = "working" /\ Working(n) = {} /\ cycle[n].todo = {}
    /\ cycle' = [cycle EXCEPT ![n].at = "unlocking"]
    /\ UNCHANGED <<now, lock, running, work, savedVars>>

\* `finally`
Finally(n) ==
    running' = FALSE /\ cycle' = [cycle EXCEPT ![n].at = "ended", ![n].todo = {}]

\* unlockCycle: an unconditional DEL
Unlock(n) ==
    /\ cycle[n].at = "unlocking"
    /\ lock' = 0
    /\ Finally(n)
    /\ UNCHANGED <<now, work, savedVars>>

\* smembers or the DEL rejects: the lock stays until it is dropped.
CycleFails(n) ==
    /\ cycle[n].at \in {"listing", "unlocking"}
    /\ Finally(n)
    /\ UNCHANGED <<now, lock, work, savedVars>>

-----------------------------------------------------------------------------
(* processUser                                                               *)

WorkerAt(n, u, place) == work[n][u].at = place

WorkerGoes(n, u, place) == work' = [work EXCEPT ![n][u].at = place]

Done(n, u) == work' = [work EXCEPT ![n][u] = Off]

\* getDeviceTokens and getWebSubscriptions
Devices(n, u) ==
    /\ WorkerAt(n, u, "devices")
    /\ \E fcm \in BOOLEAN, web \in BOOLEAN :
         IF fcm \/ web
         THEN work' = [work EXCEPT ![n][u].at = "fetching",
                                   ![n][u].fcm = fcm, ![n][u].web = web]
         ELSE Done(n, u)
    /\ UNCHANGED <<now, lock, running, cycle, savedVars>>

Fetched(n, u) ==
    /\ WorkerAt(n, u, "fetching")
    /\ \E tasks \in SUBSET Tasks, table \in Slots \cup {NoSlot} :
       \E due \in SUBSET tasks :
         work' = [work EXCEPT ![n][u].at = "flag", ![n][u].tasks = tasks,
                              ![n][u].due = due, ![n][u].table = table]
    /\ UNCHANGED <<now, lock, running, cycle, savedVars>>

\* isStaleUpstreamError; any other error skips the user.
FetchStale(n, u) ==
    /\ WorkerAt(n, u, "fetching")
    /\ work' = [work EXCEPT ![n][u] = [Off EXCEPT !.at = "relogin", !.expired = TRUE]]
    /\ UNCHANGED <<now, lock, running, cycle, savedVars>>

\* The session works: the next time it is over may be told again.
ResetFlag(n, u) ==
    /\ WorkerAt(n, u, "flag")
    /\ relogin' = [relogin EXCEPT ![u] = FALSE]
    /\ WorkerGoes(n, u, "detecting")
    /\ UNCHANGED <<now, lock, running, cycle, snapTasks, snapTable, sentDeadline, sentPrints>>

\* snapshotSuspect
Suspect(before, current) == before > 0 /\ current * 2 <= before

\* detectNewAssignments; without a snapshot what is there is the baseline.
TasksValid(u, tasks) ==
    snapTasks[u] # Null => ~ Suspect(Cardinality(snapTasks[u]), Cardinality(tasks))

NewTasks(u, tasks) ==
    IF snapTasks[u] # Null /\ TasksValid(u, tasks) THEN tasks \ snapTasks[u] ELSE {}

\* detectReschedules
TableValid(u, table) == snapTable[u] \in Slots => table # NoSlot

NewPrints(u, table) ==
    {print \in Prints : print = <<snapTable[u], table>> /\ snapTable[u] # table}
    \ sentPrints[u]

Event(kind, what) == [kind |-> kind, what |-> what]

\* A mutation: the new snapshot is saved before anything has been pushed.
DetectSaves(n, u) ==
    LET w == work[n][u] IN
    /\ WorkerAt(n, u, "detecting")
    /\ work' = [work EXCEPT ![n][u] =
          [w EXCEPT !.at = "pushing", !.due = {},
             !.validTasks = TasksValid(u, w.tasks),
             !.validTable = TableValid(u, w.table),
             !.keys = sentDeadline[u] \cup w.due,
             !.prints = sentPrints[u] \cup NewPrints(u, w.table),
             !.pending = {Event("new_task", t) : t \in NewTasks(u, w.tasks)}
                         \cup {Event("reschedule", p) : p \in NewPrints(u, w.table)}
                         \cup {Event("deadline_reached", t) : t \in w.due \ sentDeadline[u]}]]
    /\ snapTasks' = IF TasksValid(u, w.tasks) THEN [snapTasks EXCEPT ![u] = w.tasks]
                    ELSE snapTasks
    /\ UNCHANGED <<now, lock, running, cycle, snapTable, sentDeadline, sentPrints,
                   relogin>>

\* The reads and the comparison.  Nothing but another cycle writes these keys.
Detect(n, u) ==
    LET w == work[n][u] IN
    /\ WorkerAt(n, u, "detecting")
    /\ work' = [work EXCEPT ![n][u] =
          [w EXCEPT !.at = "pushing", !.due = {},
             !.validTasks = TasksValid(u, w.tasks),
             !.validTable = TableValid(u, w.table),
             !.keys = sentDeadline[u] \cup w.due,
             !.prints = sentPrints[u] \cup NewPrints(u, w.table),
             !.pending = {Event("new_task", t) : t \in NewTasks(u, w.tasks)}
                         \cup {Event("reschedule", p) : p \in NewPrints(u, w.table)}
                         \cup {Event("deadline_reached", t) : t \in w.due \ sentDeadline[u]}]]
    /\ UNCHANGED <<now, lock, running, cycle, savedVars>>

\* deliver: to the device tokens first, then to the web subscriptions.
PushFcm(n, u, event) ==
    /\ WorkerAt(n, u, "pushing") /\ event \in work[n][u].pending
    /\ work' = [work EXCEPT ![n][u].at = "web", ![n][u].event = event,
                            ![n][u].pending = @ \ {event}]
    /\ UNCHANGED <<now, lock, running, cycle, savedVars>>

\* A web push that finds the budget of the cycle used up is dropped.
SendsWeb(n, u) == work[n][u].web /\ cycle[n].budget > 0

PushWeb(n, u) ==
    /\ WorkerAt(n, u, "web")
    /\ cycle' = IF SendsWeb(n, u) THEN [cycle EXCEPT ![n].budget = @ - 1] ELSE cycle
    /\ work' = [work EXCEPT ![n][u].at = "pushing", ![n][u].event = SessionExpired]
    /\ UNCHANGED <<now, lock, running, savedVars>>

Pushed(n, u) ==
    /\ WorkerAt(n, u, "pushing") /\ work[n][u].pending = {}
    /\ work' = [work EXCEPT ![n][u].fcm = FALSE, ![n][u].web = FALSE, ![n][u].at =
                    IF work[n][u].expired THEN "flagging" ELSE "saveTasks"]
    /\ UNCHANGED <<now, lock, running, cycle, savedVars>>

SaveTasks(n, u) ==
    /\ WorkerAt(n, u, "saveTasks")
    /\ snapTasks' = IF work[n][u].validTasks
                    THEN [snapTasks EXCEPT ![u] = work[n][u].tasks] ELSE snapTasks
    /\ work' = [work EXCEPT ![n][u].at = "saveTable", ![n][u].tasks = {},
                            ![n][u].validTasks = FALSE]
    /\ UNCHANGED <<now, lock, running, cycle, snapTable, sentDeadline, sentPrints, relogin>>

SaveTable(n, u) ==
    /\ WorkerAt(n, u, "saveTable")
    /\ snapTable' = IF work[n][u].validTable
                    THEN [snapTable EXCEPT ![u] = work[n][u].table] ELSE snapTable
    /\ work' = [work EXCEPT ![n][u].at = "saveDeadline", ![n][u].table = NoSlot,
                            ![n][u].validTable = FALSE]
    /\ UNCHANGED <<now, lock, running, cycle, snapTasks, sentDeadline, sentPrints, relogin>>

\* A mutation: only the keys of this cycle are kept.
SaveDueOnly(n, u) ==
    /\ WorkerAt(n, u, "saveDeadline")
    /\ sentDeadline' = [sentDeadline EXCEPT ![u] = work[n][u].keys \ @]
    /\ work' = [work EXCEPT ![n][u].at = "savePrints", ![n][u].keys = {}]
    /\ UNCHANGED <<now, lock, running, cycle, snapTasks, snapTable, sentPrints, relogin>>

SaveDeadline(n, u) ==
    /\ WorkerAt(n, u, "saveDeadline")
    /\ sentDeadline' = [sentDeadline EXCEPT ![u] = work[n][u].keys]
    /\ work' = [work EXCEPT ![n][u].at = "savePrints", ![n][u].keys = {}]
    /\ UNCHANGED <<now, lock, running, cycle, snapTasks, snapTable, sentPrints, relogin>>

SavePrints(n, u) ==
    /\ WorkerAt(n, u, "savePrints")
    /\ sentPrints' = [sentPrints EXCEPT ![u] = work[n][u].prints]
    /\ work' = [work EXCEPT ![n][u].at = "ending", ![n][u].prints = {}]
    /\ UNCHANGED <<now, lock, running, cycle, snapTasks, snapTable, sentDeadline, relogin>>

-----------------------------------------------------------------------------
(* sendReloginOnce                                                           *)

Relogin(n, u) ==
    /\ WorkerAt(n, u, "relogin")
    /\ IF relogin[u]
       THEN Done(n, u)
       ELSE \E fcm \in BOOLEAN, web \in BOOLEAN :
              work' = [work EXCEPT ![n][u].at = "pushing",
                         ![n][u].fcm = fcm, ![n][u].web = web,
                         ![n][u].pending = IF fcm \/ web THEN {SessionExpired} ELSE {}]
    /\ UNCHANGED <<now, lock, running, cycle, savedVars>>

SetFlag(n, u) ==
    /\ WorkerAt(n, u, "flagging")
    /\ relogin' = [relogin EXCEPT ![u] = TRUE]
    /\ WorkerGoes(n, u, "ending")
    /\ UNCHANGED <<now, lock, running, cycle, snapTasks, snapTable, sentDeadline, sentPrints>>

-----------------------------------------------------------------------------
(* How a worker ends                                                         *)

WorkDone(n, u) ==
    /\ WorkerAt(n, u, "ending")
    /\ Done(n, u)
    /\ UNCHANGED <<now, lock, running, cycle, savedVars>>

\* A command or a push rejects, or its reply is lost (then this is the step
\* after it).  processUser()'s errors skip the user, and the cycle goes on.
UserSkipped(n, u) ==
    /\ work[n][u].at # "off" /\ ~ work[n][u].expired
    /\ Done(n, u)
    /\ UNCHANGED <<now, lock, running, cycle, savedVars>>

\* Nothing catches sendReloginOnce()'s: Promise.all rejects and the cycle ends
\* without unlocking, while the other workers of the chunk go on.
CycleRejected(n, u) ==
    /\ work[n][u].expired
    /\ Done(n, u)
    /\ IF cycle[n].at = "working" THEN Finally(n) ELSE UNCHANGED <<running, cycle>>
    /\ UNCHANGED <<now, lock, savedVars>>

-----------------------------------------------------------------------------

\* A round trip of the SET takes less than the lifetime it sets.
Tick ==
    /\ now < MaxTime
    /\ \A n \in Cycles : cycle[n].at # "locking"
    /\ now' = now + 1
    /\ UNCHANGED <<lock, running, cycle, work, savedVars>>

\* The process restarts.
Restart ==
    /\ running' = FALSE
    /\ cycle' = [n \in Cycles |-> IF cycle[n].at = "unused" THEN Unused ELSE EndedCycle]
    /\ work' = [n \in Cycles |-> [u \in Users |-> Off]]
    /\ UNCHANGED <<now, lock, savedVars>>

CycleStep(n) ==
    \/ Enter(n) \/ Locked(n) \/ List(n) \/ Chunk(n) \/ ChunksDone(n) \/ Unlock(n)
    \/ CycleFails(n)

WorkStep(n, u) ==
    \/ Devices(n, u) \/ Fetched(n, u) \/ FetchStale(n, u) \/ ResetFlag(n, u) \/ Detect(n, u)
    \/ (\E event \in work[n][u].pending : PushFcm(n, u, event))
    \/ PushWeb(n, u) \/ Pushed(n, u) \/ SaveTasks(n, u) \/ SaveTable(n, u)
    \/ SaveDeadline(n, u) \/ SavePrints(n, u) \/ Relogin(n, u) \/ SetFlag(n, u)
    \/ WorkDone(n, u) \/ UserSkipped(n, u) \/ CycleRejected(n, u)

PollNext ==
    \/ \E n \in Cycles : CycleStep(n) \/ \E u \in Users : WorkStep(n, u)
    \/ Tick \/ Restart

PollSpec == PollInit /\ [][PollNext]_pollVars

-----------------------------------------------------------------------------
(* Properties                                                                *)

PollTypeOK ==
    /\ now \in Nat /\ lock \in Nat /\ running \in BOOLEAN
    /\ cycle \in [Cycles -> CycleStates]
    /\ work \in [Cycles -> [Users -> WorkStates]]
    /\ snapTasks \in [Users -> (SUBSET Tasks) \cup {Null}]
    /\ snapTable \in [Users -> Slots \cup {NoSlot, Null}]
    /\ sentDeadline \in [Users -> SUBSET Tasks]
    /\ sentPrints \in [Users -> SUBSET Prints]
    /\ relogin \in [Users -> BOOLEAN]
    /\ running <=> \E n \in Cycles : cycle[n].at \in {"listing", "working", "unlocking"}

\* poller.service.ts:39, "Anti-overlap memakai lock NotificationStore + flag
\* in-process": whatever fails and however long a cycle takes, no user is worked
\* on by two cycles at once.
CyclesDoNotOverlap ==
    \A u \in Users, n, m \in Cycles :
        (work[n][u].at # "off" /\ work[m][u].at # "off") => n = m

=============================================================================
