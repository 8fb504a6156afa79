---------------------------- MODULE MCKeepAlive ----------------------------
(***************************************************************************)
(* KeepAlive for TLC, with a history of the record during a cycle.         *)
(***************************************************************************)
EXTENDS KeepAlive

CONSTANTS fresh, other

MCCaptures == {[ssoCookie |-> fresh, kulonCookie |-> fresh, siapCookie |-> fresh,
                other |-> other]}

VARIABLES moved,  \* somebody else changed the record since the cycle listed it
          owed    \* owed[f]: the rotated cookie an ended cycle found and has not
                  \* written, although nobody else changed the record

mcVars == <<keepVars, moved, owed>>

NothingOwed == [f \in CookieFields |-> NoCookie]

MCInit == KeepInit /\ moved = FALSE /\ owed = NothingOwed

ByKeeper == client[Keeper].pc \in Commands /\ client'[Keeper].pc = "done"

Ending == cycle.at # "idle" /\ cycle'.at = "idle"

MCNext ==
    /\ KeepNext
    /\ moved' = /\ cycle'.at \notin {"idle", "listing"}
                /\ moved \/ (cycle.at = "listing" /\ Record # client[Keeper].read)
                         \/ (redis' # redis /\ ~ ByKeeper)
    /\ owed' = IF Ending /\ ~ moved /\ ~ KeepRestart
               THEN [f \in CookieFields |->
                       IF /\ cycle.found[f] = "rotated"
                          /\ Record # NoSession
                          /\ Record[f] # cycle.renewCookie[f]
                       THEN cycle.renewCookie[f] ELSE NoCookie]
               ELSE NothingOwed

MCSpec == MCInit /\ [][MCNext]_mcVars /\ WF_mcVars(MCNext /\ KeeperProgress)

\* A cycle that writes several cookies never gets in its own way: it gives up
\* half-way only after somebody else changed the record, or past its absolute cap.
OnlyOthersStopACycle ==
    (cycle.at = "replacing" /\ client[Keeper].pc = "done" /\ client[Keeper].result # "updated")
    => moved \/ AbsoluteDead(cycle.expected, now)

\* session-keepalive.service.ts:28, "A rotated cookie is written immediately": a
\* cycle over a session nobody else touches leaves no rotated cookie unwritten.
RotatedIsWritten == owed = NothingOwed

=============================================================================
