---------------------------- MODULE MCUpstream ----------------------------
(***************************************************************************)
(* The SIAP client, the Kulon client and the registry of push targets,     *)
(* which share no variable: a behaviour is one of a single of them.        *)
(***************************************************************************)
EXTENDS SiapClient, KulonClient, PushRegistry, TLC

VARIABLE machine \* which of the three runs

MCInit ==
    /\ machine \in {"siap", "kulon", "push"}
    /\ SiapInit /\ KulonInit /\ PushInit
    /\ session.cookie /\ (machine # "siap" => session.mail)

MCNext ==
    /\ UNCHANGED machine
    /\ \/ machine = "siap" /\ SiapNext /\ UNCHANGED <<kulonVars, pushVars>>
       \/ machine = "kulon" /\ KulonNext /\ UNCHANGED <<siapVars, pushVars>>
       \/ machine = "push" /\ PushNext /\ UNCHANGED <<siapVars, kulonVars>>

MCSpec == MCInit /\ [][MCNext]_<<machine, siapVars, kulonVars, pushVars>>

\* The callers of the Kulon client are alike, and so are the calls of the SIAP
\* client and the clients of the registry, of which the runs have as many.
Alike == Permutations(Callers)

\* The variables of the three machines have their types.
UpstreamTypeOK == SiapTypeOK /\ KulonTypeOK /\ PushTypeOK

=============================================================================
