---------------------------- MODULE PushRegistry ----------------------------
(***************************************************************************)
(* The registry of one user's push targets in RedisNotificationStore: the  *)
(* list of FCM device tokens and the list of web subscriptions, and the    *)
(* two sets of users the poller goes through.  Targets are registered and  *)
(* removed by requests of NotificationsController, and removed by the      *)
(* poller when a push is told that they are gone.  One step is one Redis   *)
(* command; the web list alone is extended by a script.                    *)
(***************************************************************************)
EXTENDS Naturals, FiniteSets

CONSTANTS Clients, \* requests and poller workers
          Targets, \* device tokens, or endpoints of subscriptions
          Cap      \* WEB_PUSH_MAX_SUBSCRIPTIONS

ASSUME PushBounds == Cap \in Nat \ {0}

VARIABLES list,    \* notif:tokens and notif:web of the user
          indexed, \* the user is in notif:subs, in notif:subs:web
          req      \* what each client is doing

pushVars == <<list, indexed, req>>

Channels == {"device", "web"}

NoReq == [pc |-> "idle", op |-> "none", channel |-> "device", target |-> "none", read |-> {}]

PushInit ==
    /\ list = [ch \in Channels |-> {}]
    /\ indexed = [ch \in Channels |-> FALSE]
    /\ req = [c \in Clients |-> NoReq]

Doing(c, op, pc) == req[c].op = op /\ req[c].pc = pc

Goes(c, pc) == req' = [req EXCEPT ![c].pc = pc]

\* register, unregister, registerWeb, removeWeb, and deliver's removals
BeginRequest(c) ==
    /\ req[c].pc \in {"idle", "ok"}
    /\ \E op \in {"add", "remove"}, ch \in Channels, t \in Targets :
         req' = [req EXCEPT ![c] = [NoReq EXCEPT !.op = op, !.channel = ch, !.target = t,
                    !.pc = IF op = "add" /\ ch = "web" THEN "script" ELSE "get"]]
    /\ UNCHANGED <<list, indexed>>

\* GET: nothing is removed from no list.
Get(c) ==
    LET mine == req[c] IN
    /\ mine.pc = "get"
    /\ req' = [req EXCEPT ![c].pc = IF mine.op = "remove" /\ list[mine.channel] = {}
                                    THEN "ok" ELSE "write",
                          ![c].read = list[mine.channel]]
    /\ UNCHANGED <<list, indexed>>

\* addDeviceToken writes the list it read with the token.
SetAdded(c) ==
    LET mine == req[c] IN
    /\ Doing(c, "add", "write")
    /\ list' = [list EXCEPT ![mine.channel] = mine.read \cup {mine.target}]
    /\ Goes(c, "sadd")
    /\ UNCHANGED indexed

\* A mutation: only a list longer than the cap is full.
ScriptOffByOne(c) ==
    LET mine == req[c] IN
    /\ Doing(c, "add", "script")
    /\ IF mine.target \in list["web"] \/ Cardinality(list["web"]) > Cap
       THEN Goes(c, "ok") /\ UNCHANGED list
       ELSE Goes(c, "sadd") /\ list' = [list EXCEPT !["web"] = @ \cup {mine.target}]
    /\ UNCHANGED indexed

\* ADD_WEB_SUBSCRIPTION_LUA: a duplicate and a full list end the request.
Script(c) ==
    LET mine == req[c] IN
    /\ Doing(c, "add", "script")
    /\ IF mine.target \in list["web"]
       THEN Goes(c, "ok") /\ UNCHANGED list
       ELSE IF Cardinality(list["web"]) >= Cap
       THEN Goes(c, "idle") /\ UNCHANGED list
       ELSE Goes(c, "sadd") /\ list' = [list EXCEPT !["web"] = @ \cup {mine.target}]
    /\ UNCHANGED indexed

Sadd(c) ==
    /\ Doing(c, "add", "sadd")
    /\ indexed' = [indexed EXCEPT ![req[c].channel] = TRUE]
    /\ Goes(c, "ok")
    /\ UNCHANGED list

\* removeDeviceToken, removeWebSubscription write what is left of the list
\* they read, or delete the key.
SetRest(c) ==
    LET mine == req[c]
        rest == mine.read \ {mine.target} IN
    /\ Doing(c, "remove", "write")
    /\ list' = [list EXCEPT ![mine.channel] = rest]
    /\ Goes(c, IF rest = {} THEN "srem" ELSE "ok")
    /\ UNCHANGED indexed

Srem(c) ==
    /\ Doing(c, "remove", "srem")
    /\ indexed' = [indexed EXCEPT ![req[c].channel] = FALSE]
    /\ Goes(c, "ok")
    /\ UNCHANGED list

\* A command fails, or the process stops: the client is through, unsuccessfully.
FailRequest(c) ==
    /\ req[c].pc \notin {"idle", "ok"}
    /\ Goes(c, "idle")
    /\ UNCHANGED <<list, indexed>>

PushNext ==
    \E c \in Clients :
       \/ BeginRequest(c) \/ Get(c) \/ SetAdded(c) \/ Script(c) \/ Sadd(c)
       \/ SetRest(c) \/ Srem(c) \/ FailRequest(c)

PushSpec == PushInit /\ [][PushNext]_pushVars

-----------------------------------------------------------------------------
(* Properties                                                                *)

PushTypeOK ==
    /\ list \in [Channels -> SUBSET Targets] /\ indexed \in [Channels -> BOOLEAN]
    /\ \A c \in Clients :
          /\ req[c].read \subseteq Targets
          /\ req[c].pc \in {"idle", "get", "script", "write", "sadd", "srem", "ok"}

\* However registrations and removals interleave, a user never has more web
\* subscriptions than the cap.
WebCapHolds == Cardinality(list["web"]) <= Cap

\* notifications.controller.ts says of a registration answered ok that "'added'
\* and 'duplicate' are both success": while nobody else is at work, a user with
\* a target just registered is one the poller goes through.
RegisteredIsPolled ==
    \A c \in Clients :
       (/\ Doing(c, "add", "ok") /\ req[c].target \in list[req[c].channel]
        /\ \A d \in Clients \ {c} : req[d].pc = "idle")
       => indexed[req[c].channel]

=============================================================================
