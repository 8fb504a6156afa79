------------------------ MODULE MCRedisSessionRaces ------------------------
(***************************************************************************)
(* RedisSessionStore with a history variable, for what the documentation   *)
(* says of a call whose session is live from its first step to its last.   *)
(***************************************************************************)
EXTENDS MCRedisSessionStore

VARIABLE held  \* held[c]: the record has been live under the generation c's
               \* call is qualified by, ever since the call began

LiveUnder(generation) ==
    /\ generation \in Generations
    /\ RecordGeneration = {generation}
    /\ ~ AbsoluteDead(Record, now)

Entering(c) == client[c].pc \in {"idle", "done"} /\ client[c].pc # client'[c].pc

RacesInit == StoreInit /\ held = [c \in Clients |-> FALSE]

RacesNext ==
    /\ StoreNext
    /\ held' = [c \in Clients |-> /\ held[c] \/ Entering(c)
                                  /\ LiveUnder(client[c].call.generation)']

RacesSpec == RacesInit /\ [][RacesNext]_<<storeVars, held>>

\* auth.service.ts:285, "valid token + live record with a MATCHING generation
\* -> cleared, ok": a logout whose record is live under the token's generation
\* when it begins and keeps that generation until it answers has cleared it.
LogoutClearsMatching ==
    \A c \in Clients :
        (/\ client[c].pc = "done"
         /\ client[c].call.op = "clearIfGeneration"
         /\ client[c].result = "false")
        => ~ held[c]

=============================================================================
