---------------------------- MODULE SessionLife ----------------------------
(***************************************************************************)
(* What a session store promises about the record of one identity,         *)
(* whatever adapter is behind it and however its clients interleave:       *)
(* a login establishes a session under a generation never used before,     *)
(* a renewal changes one cookie of the live session and nothing else, and  *)
(* a session that has ended (logout, replacement, expiry, absolute cap,    *)
(* a rotated encryption key) never comes back.                             *)
(***************************************************************************)
EXTENDS SessionRecord

CONSTANT NoSession

VARIABLES session,  \* the live session, or NoSession
          ended     \* the generations that were live once and are no more

lifeVars == <<session, ended>>

Live == session # NoSession

Ending == IF Live THEN ended \cup {session.sessionGeneration} ELSE ended

LifeInit ==
    /\ \/ session = NoSession
       \/ session \in Sessions /\ session.sessionGeneration = NoGeneration
    /\ ended = {}

Establish ==
    /\ session' \in Sessions
    /\ session'.sessionGeneration \in Generations \ Ending
    /\ ended' = Ending

Renew(field, cookie) ==
    /\ Live
    /\ cookie # session[field]
    /\ session' = [session EXCEPT ![field] = cookie]
    /\ UNCHANGED ended

End ==
    /\ Live
    /\ session' = NoSession
    /\ ended' = Ending

LifeNext ==
    \/ Establish
    \/ \E field \in CookieFields, cookie \in Cookies : Renew(field, cookie)
    \/ End

LifeSpec == LifeInit /\ [][LifeNext]_lifeVars

=============================================================================
