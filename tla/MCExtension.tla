---------------------------- MODULE MCExtension ----------------------------
(***************************************************************************)
(* The extension's two machines side by side: a behaviour is one of the    *)
(* login flow or one of the renewals, whose variables are disjoint.        *)
(***************************************************************************)
EXTENDS Extension, ExtensionRenewal

VARIABLE part \* which of the two runs

extensionVars == <<part, extVars, renewalVars>>

ExtensionInit == part \in {"login", "renewal"} /\ ExtInit /\ RenewalInit

ExtensionNext ==
    /\ UNCHANGED part
    /\ \/ part = "login" /\ ExtNext /\ UNCHANGED renewalVars
       \/ part = "renewal" /\ RenewalNext /\ UNCHANGED extVars

\* ExtFairness of the login flow
ExtensionFairness ==
    /\ WF_extensionVars(part = "login" /\ RunnerStep /\ UNCHANGED <<part, renewalVars>>)
    /\ WF_extensionVars(part = "login" /\ QueueStep /\ UNCHANGED <<part, renewalVars>>)

ExtensionSpec == ExtensionInit /\ [][ExtensionNext]_extensionVars /\ ExtensionFairness

=============================================================================
