----------------------------- MODULE KeepAlive -----------------------------
(***************************************************************************)
(* session-keepalive.service.ts on top of RedisSessionStore: the cron job  *)
(* probes the three upstreams with the cookies of a stored session and     *)
(* writes the cookies they rotated.  Sessions of different identities have *)
(* different keys and are refreshed independently; this module follows one *)
(* identity.  The other clients of the store do whatever clients may do.   *)
(***************************************************************************)
EXTENDS RedisSessionStore

CONSTANT Keeper   \* the store client of the cycle

ASSUME KeeperAssumption == Keeper \in Clients

VARIABLE cycle    \* the cycle that is running, if any

keepVars == <<storeVars, cycle>>

\* What a probe finds: nothing valid (rejected, rate-limited, timed out, no
\* cookie), no new cookie, a cookie deleted, or a rotated one.
Findings == {"unprobed", "invalid", "kept", "cleared", "rotated"}

\* renewCookie[f] is the rotated cookie, when found[f] = "rotated".
Cycles ==
    [at : {"idle", "listing", "ssoCookie", "kulonCookie", "siapCookie", "judging",
           "renewing", "replacing", "sliding"},
     expected : Sessions \cup {NoSession},
     found : [CookieFields -> Findings],
     renewCookie : [CookieFields -> Cookies \cup {NoCookie}],
     field : CookieFields, rotated : BOOLEAN]

NotRunning ==
    [at |-> "idle", expected |-> NoSession,
     found |-> [f \in CookieFields |-> "unprobed"],
     renewCookie |-> [f \in CookieFields |-> NoCookie],
     field |-> "ssoCookie", rotated |-> FALSE]

KeepInit == StoreInit /\ cycle = NotRunning

Returned == client[Keeper].pc = "done"

\* `finally`: however the cycle ends, the next one may run.
EndCycle == cycle' = NotRunning

\* runCycle: not while one is running; SCAN and MGET list the sessions.
StartCycle ==
    /\ cycle.at = "idle" /\ nextIv <= MaxWrites
    /\ cycle' = [cycle EXCEPT !.at = "listing"]
    /\ CallRead(Keeper, "all")

\* Sessions past the absolute cap are left out, and so are all when the
\* deadline has come.
Listed ==
    LET session == client[Keeper].read IN
    /\ cycle.at = "listing" /\ Returned
    /\ \/ /\ session # NoSession
          /\ ~ AbsoluteDead(session, now)
          /\ cycle' = [cycle EXCEPT !.at = "ssoCookie", !.expected = session]
       \/ EndCycle
    /\ UNCHANGED storeVars

AfterProbe(f) ==
    CASE f = "ssoCookie"   -> "kulonCookie"
      [] f = "kulonCookie" -> "siapCookie"
      [] f = "siapCookie"  -> "judging"

\* The probes run one after the other, with the cookies that were listed.
Probe(f) ==
    /\ cycle.at = f
    /\ \E finding \in Findings \ {"unprobed"}, cookie \in Cookies \cup {NoCookie} :
         /\ cycle.expected[f] = NoCookie => finding = "invalid"
         /\ IF finding = "rotated"
            THEN cookie \notin {NoCookie, cycle.expected[f]}
            ELSE cookie = NoCookie
         /\ cycle' = [cycle EXCEPT !.at = AfterProbe(f), !.found[f] = finding,
                                   !.renewCookie[f] = cookie]
    /\ UNCHANGED storeVars

\* After the last probe: past the deadline, or without a valid probe, nothing is
\* written.
Judge ==
    /\ cycle.at = "judging"
    /\ \/ /\ \E f \in CookieFields : cycle.found[f] # "invalid"
          /\ cycle' = [cycle EXCEPT !.at = "renewing", !.field = "ssoCookie"]
       \/ EndCycle
    /\ UNCHANGED storeVars

NextField(f) == IF f = "ssoCookie" THEN "kulonCookie" ELSE "siapCookie"

\* What comes after renew() of the field is through: the next field, or the end.
\* A cycle that wrote nothing slides the session's lifetime.
AfterRenewal(changed) ==
    IF cycle.field # "siapCookie"
    THEN /\ cycle' = [changed EXCEPT !.at = "renewing", !.field = NextField(cycle.field)]
         /\ UNCHANGED storeVars
    ELSE IF changed.rotated
    THEN EndCycle /\ UNCHANGED storeVars
    ELSE /\ cycle' = [changed EXCEPT !.at = "sliding"]
         /\ CallQualified(Keeper, "getIfGeneration", changed.expected.sessionGeneration)

\* renew(): only a rotated cookie is written.
Renew ==
    LET f == cycle.field IN
    /\ cycle.at = "renewing"
    /\ IF cycle.found[f] = "rotated"
       THEN /\ cycle' = [cycle EXCEPT !.at = "replacing"]
            /\ CallReplace(Keeper, cycle.expected,
                           [cycle.expected EXCEPT ![f] = cycle.renewCookie[f]])
       ELSE AfterRenewal(cycle)

\* A mutation: the next renewal still expects the snapshot first listed.
ReplacedForgetful ==
    /\ cycle.at = "replacing" /\ Returned
    /\ IF client[Keeper].result = "updated"
       THEN AfterRenewal([cycle EXCEPT !.rotated = TRUE])
       ELSE EndCycle /\ UNCHANGED storeVars

\* A mutation: a lost renewal leaves the cycle marked as running.
ReplacedStuck ==
    /\ cycle.at = "replacing" /\ Returned
    /\ client[Keeper].result = "updated"
    /\ AfterRenewal([cycle EXCEPT !.rotated = TRUE,
           !.expected = [@ EXCEPT ![cycle.field] = cycle.renewCookie[cycle.field]]])

\* A renewal that lost to somebody else's write ends the refresh.
Replaced ==
    /\ cycle.at = "replacing" /\ Returned
    /\ IF client[Keeper].result = "updated"
       THEN AfterRenewal([cycle EXCEPT !.rotated = TRUE,
                !.expected = [@ EXCEPT ![cycle.field] = cycle.renewCookie[cycle.field]]])
       ELSE EndCycle /\ UNCHANGED storeVars

Slid ==
    /\ cycle.at = "sliding" /\ Returned
    /\ EndCycle
    /\ UNCHANGED storeVars

KeeperStep ==
    \/ StartCycle \/ Listed \/ (\E f \in CookieFields : Probe(f))
    \/ Judge \/ Renew \/ Replaced \/ Slid

\* The steps a running cycle is waiting for.
KeeperProgress == (KeeperStep /\ cycle.at # "idle") \/ (StoreStep(Keeper) /\ UNCHANGED cycle)

\* The store works on a call, time passes, the rest of the backend calls.
Background ==
    /\ \/ \E c \in Clients : StoreStep(c)
       \/ \E c \in Clients \ {Keeper} : Call(c) \/ Return(c)
       \/ Tick
    /\ UNCHANGED cycle

KeepRestart == (Restart \/ RotateKey) /\ cycle' = NotRunning

KeepNext == KeeperStep \/ Background \/ KeepRestart

KeepSpec == KeepInit /\ [][KeepNext]_keepVars /\ WF_keepVars(KeeperProgress)

-----------------------------------------------------------------------------
(* Properties                                                                *)

KeepTypeOK == StoreTypeOK /\ cycle \in Cycles

\* A cycle comes to an end, whatever the upstreams answer and whoever else
\* writes: the `running` flag never blocks the keep-alive for good.
CycleEnds == (cycle.at # "idle") ~> (cycle.at = "idle")

=============================================================================
