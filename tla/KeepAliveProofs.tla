-------------------------- MODULE KeepAliveProofs --------------------------
(***************************************************************************)
(* The keep-alive cycle, for any number of other clients, cookies and any  *)
(* lifetimes: a cycle that writes several cookies stops half-way only when *)
(* somebody else changed the record or its absolute cap has come.          *)
(***************************************************************************)
EXTENDS MCKeepAlive, RedisSessionStoreProofs

-----------------------------------------------------------------------------
(* What is known of the cycle x and of the store call cl of the Keeper       *)

\* The places before the first cookie is written.
Probing == CookieFields \cup {"judging"}

\* The places between two store calls, with a session in hand.
Holding == Probing \cup {"renewing"}

\* The fields still to be renewed from `field` on.
Ahead(field) ==
    {f \in CookieFields :
        \/ field = "ssoCookie"
        \/ field = "kulonCookie" /\ f # "ssoCookie"
        \/ f = "siapCookie"}

\* A rotated cookie is another than the one it will replace.
Fits(x, f) ==
    x.found[f] = "rotated" => x.renewCookie[f] \in Cookies /\ x.renewCookie[f] # x.expected[f]

\* The snapshot with the new cookie of the field at hand.
Written(x) == [x.expected EXCEPT ![x.field] = x.renewCookie[x.field]]

Carries(x, cl) ==
    /\ x.at \in {"idle", "listing"} => \A f \in CookieFields : x.found[f] = "unprobed"
    /\ x.at \in Holding \cup {"replacing"} => x.expected \in Sessions
    /\ x.at \in Probing => \A f \in CookieFields : Fits(x, f)
    /\ x.at \in {"renewing", "replacing"} => \A f \in Ahead(x.field) : Fits(x, f)
    /\ x.at \in Holding => cl.pc = "done"
    /\ x.at = "replacing" =>
          /\ x.found[x.field] = "rotated"
          /\ cl.call.op = "replaceIfUnchanged"
          /\ cl.call.generation = x.expected.sessionGeneration
          /\ cl.call.expected = x.expected /\ cl.call.replacement = Written(x)
          /\ cl.pc \in {"get", "decide", "delete", "replace", "done"}

\* While nobody else has changed the envelope e, the snapshot is what it holds.
Watched(x, cl, e, clock) ==
    /\ x.at \in Holding => SessionIn(e) = x.expected
    /\ x.at = "replacing" =>
          /\ cl.pc # "done" => SessionIn(e) = x.expected
          /\ cl.pc \in {"decide", "replace", "delete"} => cl.envelope = e /\ e # NoEnvelope
          /\ cl.pc = "delete" => AbsoluteDead(x.expected, clock)
          /\ (cl.pc = "done" /\ cl.result = "updated") => SessionIn(e) = Written(x)
          /\ (cl.pc = "done" /\ cl.result # "updated") => AbsoluteDead(x.expected, clock)

KeepInv ==
    /\ StoreInv
    /\ cycle \in Cycles
    /\ Carries(cycle, client[Keeper])
    /\ ~ moved => Watched(cycle, client[Keeper], redis, now)


-----------------------------------------------------------------------------
(* The steps of the cycle itself: none of them touches Redis.                *)

LEMMA CycleFields ==
    ASSUME NEW x \in Cycles
    PROVE  /\ x.at \in {"idle", "listing", "ssoCookie", "kulonCookie", "siapCookie", "judging",
                        "renewing", "replacing", "sliding"}
           /\ x.expected \in Sessions \cup {NoSession}
           /\ x.found \in [CookieFields -> Findings]
           /\ x.renewCookie \in [CookieFields -> Cookies \cup {NoCookie}]
           /\ x.field \in CookieFields /\ x.rotated \in BOOLEAN
BY DEF Cycles

LEMMA NoCycle ==
    ASSUME NEW cl
    PROVE  /\ NotRunning \in Cycles /\ Carries(NotRunning, cl)
           /\ \A e, clock : Watched(NotRunning, cl, e, clock)
BY DEF NotRunning, Cycles, Carries, Watched, Holding, Probing, CookieFields, Findings

\* A renewal leaves a session of the same generation and time of capture.
LEMMA RenewedSession ==
    ASSUME NEW session \in Sessions, NEW f \in CookieFields, NEW cookie \in Cookies
    PROVE  LET renewed == [session EXCEPT ![f] = cookie] IN
           /\ renewed \in Sessions /\ renewed[f] = cookie
           /\ renewed.sessionGeneration = session.sessionGeneration
           /\ \A g \in CookieFields \ {f} : renewed[g] = session[g]
           /\ cookie # session[f] => IsCookieRenewal(f, session.sessionGeneration, session, renewed)
<1> DEFINE renewed == [session EXCEPT ![f] = cookie]
<1>1. f \in {"ssoCookie", "kulonCookie", "siapCookie"}
  BY DEF CookieFields
<1>2. /\ renewed \in Sessions /\ renewed[f] = cookie
      /\ renewed.sessionGeneration = session.sessionGeneration
  BY <1>1 DEF Sessions
<1>3. \A g \in CookieFields \ {f} : renewed[g] = session[g]
  BY <1>1 DEF Sessions, CookieFields
<1>4. cookie # NoCookie
  BY CookiesAssumption
<1>5. renewed = [session EXCEPT ![f] = renewed[f]]
  BY <1>2
<1> HIDE DEF renewed
<1>6. cookie # session[f] => IsCookieRenewal(f, session.sessionGeneration, session, renewed)
  BY <1>2, <1>4, <1>5 DEF IsCookieRenewal
<1> QED
  BY <1>2, <1>3, <1>6 DEF renewed

\* What the history knows, once the cycle has a session in hand.
LEMMA NobodyElse ==
    ASSUME MCNext, ~ moved', cycle'.at \notin {"idle", "listing"}
    PROVE  /\ ~ moved
           /\ cycle.at = "listing" => Record = client[Keeper].read
           /\ redis' # redis => ByKeeper
BY DEF MCNext

LEMMA StartInv ==
    ASSUME KeepInv, StartCycle
    PROVE  KeepInv'
<1>1. cycle'.at = "listing" /\ cycle' \in Cycles /\ cycle'.found = cycle.found
  BY DEF StartCycle, KeepInv, Cycles
<1>2. StoreInv'
  BY CallReadInv, KeeperAssumption DEF StartCycle, KeepInv
<1>3. Carries(cycle', client'[Keeper])
  BY <1>1 DEF StartCycle, KeepInv, Carries, Holding, Probing, CookieFields
<1> QED
  BY <1>1, <1>2, <1>3 DEF KeepInv, Watched, Holding, Probing, CookieFields

LEMMA StoreStutters ==
    ASSUME StoreInv, UNCHANGED storeVars
    PROVE  StoreInv'
BY StoreNextInv

LEMMA ListedInv ==
    ASSUME KeepInv, MCNext, Listed
    PROVE  KeepInv'
<1> DEFINE cl == client[Keeper]
<1>1. StoreInv' /\ client' = client /\ redis' = redis
  BY StoreStutters DEF Listed, KeepInv, storeVars
<1>2. CASE EndCycle
  BY <1>1, <1>2, NoCycle DEF EndCycle, KeepInv
<1>3. CASE ~ EndCycle
  <2>1. /\ cl.read # NoSession /\ cl.pc = "done" /\ cycle.at = "listing"
        /\ cycle' = [cycle EXCEPT !.at = "ssoCookie", !.expected = cl.read]
    BY <1>3 DEF Listed, Returned
  <2>2. cl.read \in Sessions
    BY <2>1, CallTypes, KeeperAssumption DEF KeepInv, StoreInv
  <2>3. /\ cycle' \in Cycles /\ cycle'.at = "ssoCookie" /\ cycle'.expected = cl.read
        /\ cycle'.found = cycle.found
    BY <2>1, <2>2 DEF KeepInv, Cycles
  <2>4. \A f \in CookieFields : cycle.found[f] = "unprobed"
    BY <2>1 DEF KeepInv, Carries
  <2>5. Carries(cycle', client'[Keeper])
    BY <1>1, <2>1, <2>2, <2>3, <2>4 DEF Carries, Holding, Probing, CookieFields, Fits
  <2>6. ~ moved' => SessionIn(redis) = cl.read
    BY <2>1, <2>3, NobodyElse, RecordIn
  <2>7. ~ moved' => Watched(cycle', client'[Keeper], redis', now')
    BY <1>1, <2>3, <2>6 DEF Watched
  <2> QED
    BY <1>1, <2>3, <2>5, <2>7 DEF KeepInv
<1> QED
  BY <1>2, <1>3

LEMMA ProbeInv ==
    ASSUME KeepInv, MCNext, NEW f \in CookieFields, Probe(f)
    PROVE  KeepInv'
<1>1. StoreInv' /\ client' = client /\ redis' = redis
  BY StoreStutters DEF Probe, KeepInv, storeVars
<1>2. PICK finding \in Findings \ {"unprobed"}, cookie \in Cookies \cup {NoCookie} :
         /\ finding = "rotated" => cookie \notin {NoCookie, cycle.expected[f]}
         /\ cycle' = [cycle EXCEPT !.at = AfterProbe(f), !.found[f] = finding,
                                   !.renewCookie[f] = cookie]
  BY DEF Probe
<1>3. cycle.at = f /\ cycle.at \in Probing
  BY DEF Probe, Probing
<1>4. AfterProbe(f) \in {"kulonCookie", "siapCookie", "judging"}
  BY DEF AfterProbe, CookieFields
<1>5. /\ cycle'.at = AfterProbe(f) /\ cycle'.expected = cycle.expected
      /\ cycle'.found = [cycle.found EXCEPT ![f] = finding]
      /\ cycle'.renewCookie = [cycle.renewCookie EXCEPT ![f] = cookie]
      /\ cycle'.field = cycle.field /\ cycle'.rotated = cycle.rotated
      /\ cycle' \in Cycles
  BY <1>2, <1>4 DEF KeepInv, Cycles
<1>6. cycle'.at \in Probing /\ cycle'.at # "listing" /\ cycle'.at # "idle"
  BY <1>4, <1>5 DEF Probing, CookieFields
<1>7. \A g \in CookieFields : Fits(cycle', g)
  BY <1>2, <1>3, <1>5, CycleFields DEF KeepInv, Carries, Fits
<1>8. cycle.expected \in Sessions /\ client[Keeper].pc = "done"
  BY <1>3 DEF KeepInv, Carries, Holding
<1>9. Carries(cycle', client'[Keeper])
  BY <1>1, <1>5, <1>6, <1>7, <1>8 DEF Carries, Holding, Probing, CookieFields
<1>10. ~ moved' => Watched(cycle', client'[Keeper], redis', now')
  BY <1>1, <1>3, <1>5, <1>6, NobodyElse DEF KeepInv, Watched, Holding, Probing, CookieFields
<1> QED
  BY <1>1, <1>5, <1>9, <1>10 DEF KeepInv

LEMMA JudgeInv ==
    ASSUME KeepInv, MCNext, Judge
    PROVE  KeepInv'
<1>1. StoreInv' /\ client' = client /\ redis' = redis
  BY StoreStutters DEF Judge, KeepInv, storeVars
<1>2. CASE EndCycle
  BY <1>1, <1>2, NoCycle DEF EndCycle, KeepInv
<1>3. CASE cycle' = [cycle EXCEPT !.at = "renewing", !.field = "ssoCookie"]
  <2>1. /\ cycle'.at = "renewing" /\ cycle'.expected = cycle.expected
        /\ cycle'.found = cycle.found /\ cycle'.renewCookie = cycle.renewCookie
        /\ cycle' \in Cycles
    BY <1>3 DEF KeepInv, Cycles, CookieFields
  <2>2. cycle.at \in Probing
    BY DEF Judge, Probing
  <2>3. \A g \in CookieFields : Fits(cycle', g)
    BY <2>1, <2>2 DEF KeepInv, Carries, Fits
  <2>4. cycle.expected \in Sessions /\ client[Keeper].pc = "done"
    BY <2>2 DEF KeepInv, Carries, Holding
  <2>5. Carries(cycle', client'[Keeper])
    BY <1>1, <2>1, <2>3, <2>4 DEF Carries, Holding, Probing, CookieFields, Ahead
  <2>6. ~ moved' => Watched(cycle', client'[Keeper], redis', now')
    BY <1>1, <2>1, <2>2, NobodyElse DEF KeepInv, Watched, Holding
  <2> QED
    BY <1>1, <2>1, <2>5, <2>6 DEF KeepInv
<1> QED
  BY <1>2, <1>3 DEF Judge

LEMMA SlidInv ==
    ASSUME KeepInv, Slid
    PROVE  KeepInv'
BY NoCycle, StoreStutters DEF Slid, EndCycle, KeepInv

\* One field is through: the next one, the end, or the slide.
LEMMA AfterRenewalInv ==
    ASSUME KeepInv, MCNext, NEW changed \in Cycles, AfterRenewal(changed),
           cycle.at \in {"renewing", "replacing"}, client[Keeper].pc = "done",
           changed.expected \in Sessions, changed.found = cycle.found,
           changed.renewCookie = cycle.renewCookie, changed.field = cycle.field,
           \A f \in Ahead(cycle.field) \ {cycle.field} : Fits(changed, f),
           ~ moved => SessionIn(redis) = changed.expected
    PROVE  KeepInv'
<1>1. CASE cycle.field # "siapCookie"
  <2>1. /\ cycle'.at = "renewing" /\ cycle'.expected = changed.expected
        /\ cycle'.found = cycle.found /\ cycle'.renewCookie = cycle.renewCookie
        /\ cycle'.field = NextField(cycle.field) /\ cycle' \in Cycles
    BY ZenonT(60), <1>1 DEF AfterRenewal, Cycles, NextField, CookieFields
  <2>2. StoreInv' /\ client' = client /\ redis' = redis
    BY <1>1, StoreStutters DEF AfterRenewal, KeepInv, storeVars
  <2>3. Ahead(cycle'.field) \subseteq Ahead(cycle.field) \ {cycle.field}
    BY <1>1, <2>1, CycleFields DEF KeepInv, Ahead, NextField, CookieFields
  <2>4. \A f \in Ahead(cycle'.field) : Fits(cycle', f)
    BY <2>1, <2>3 DEF Fits
  <2>5. Carries(cycle', client'[Keeper])
    BY <2>1, <2>2, <2>4 DEF Carries, Holding, Probing, CookieFields
  <2>6. ~ moved' => Watched(cycle', client'[Keeper], redis', now')
    BY <2>1, <2>2, NobodyElse DEF Watched
  <2> QED
    BY <2>1, <2>2, <2>5, <2>6 DEF KeepInv
<1>2. CASE cycle.field = "siapCookie" /\ changed.rotated
  BY <1>2, NoCycle, StoreStutters DEF AfterRenewal, EndCycle, KeepInv
<1>3. CASE cycle.field = "siapCookie" /\ ~ changed.rotated
  <2>1. cycle'.at = "sliding" /\ cycle' \in Cycles
    BY <1>3 DEF AfterRenewal, Cycles
  <2>2. CallQualified(Keeper, "getIfGeneration", changed.expected.sessionGeneration)
    BY <1>3 DEF AfterRenewal
  <2>3. StoreInv'
    BY <2>2, CallQualifiedInv, KeeperAssumption DEF CallQualified, KeepInv
  <2> QED
    BY <2>1, <2>3 DEF KeepInv, Carries, Watched, Holding, Probing, CookieFields
<1> QED
  BY <1>1, <1>2, <1>3

LEMMA RenewInv ==
    ASSUME KeepInv, MCNext, Renew
    PROVE  KeepInv'
<1> DEFINE f == cycle.field
           cookie == cycle.renewCookie[f]
<1>1. /\ cycle.at = "renewing" /\ f \in CookieFields /\ cycle.expected \in Sessions
      /\ client[Keeper].pc = "done" /\ f \in Ahead(f)
      /\ \A g \in Ahead(f) : Fits(cycle, g)
  BY CycleFields DEF Renew, KeepInv, Carries, Holding, Ahead, CookieFields
<1>2. CASE cycle.found[f] # "rotated"
  <2>1. AfterRenewal(cycle)
    BY <1>2 DEF Renew
  <2>2. ~ moved => SessionIn(redis) = cycle.expected
    BY <1>1 DEF KeepInv, Watched, Holding
  <2> QED
    BY <1>1, <2>1, <2>2, AfterRenewalInv DEF KeepInv
<1>3. CASE cycle.found[f] = "rotated"
  <2>1. cookie \in Cookies /\ cookie # cycle.expected[f]
    BY <1>1, <1>3 DEF Fits
  <2>2. /\ cycle'.at = "replacing" /\ cycle'.expected = cycle.expected
        /\ cycle'.found = cycle.found /\ cycle'.renewCookie = cycle.renewCookie
        /\ cycle'.field = cycle.field /\ cycle' \in Cycles
    BY <1>3 DEF Renew, KeepInv, Cycles
  <2>3. /\ Written(cycle') = Written(cycle)
        /\ Written(cycle) = [cycle.expected EXCEPT ![f] = cookie]
    BY <2>2 DEF Written
  <2>4. Written(cycle) \in Sessions
    BY <1>1, <2>1, <2>3, RenewedSession
  <2>5. CallReplace(Keeper, cycle.expected, Written(cycle))
    BY <1>3 DEF Renew, Written
  <2>6. StoreInv'
    BY <1>1, <2>4, <2>5, CallReplaceInv, KeeperAssumption DEF KeepInv
  <2> DEFINE call == [NoCall EXCEPT !.op = "replaceIfUnchanged",
                               !.generation = cycle.expected.sessionGeneration,
                               !.expected = cycle.expected,
                               !.replacement = Written(cycle), !.iv = nextIv]
  <2>7. Enter(Keeper, call, "get")
    BY <2>5 DEF CallReplace
  <2>8. /\ call.op = "replaceIfUnchanged" /\ call.generation = cycle.expected.sessionGeneration
        /\ call.expected = cycle.expected /\ call.replacement = Written(cycle)
    BY DEF NoCall
  <2> HIDE DEF call
  <2>9. client'[Keeper].pc = "get" /\ client'[Keeper].call = call /\ redis' = redis
    BY <2>7, EnterEffect, KeeperAssumption DEF KeepInv
  <2>10. \A g \in Ahead(cycle'.field) : Fits(cycle', g)
    BY <1>1, <2>2 DEF Fits
  <2>11. Carries(cycle', client'[Keeper])
    BY <1>1, <1>3, <2>2, <2>3, <2>8, <2>9, <2>10 DEF Carries, Holding, Probing, CookieFields
  <2>12. ~ moved' => Watched(cycle', client'[Keeper], redis', now')
    BY <1>1, <2>2, <2>9, NobodyElse DEF KeepInv, Watched, Holding, Probing, CookieFields
  <2> QED
    BY <2>2, <2>6, <2>11, <2>12 DEF KeepInv
<1> QED
  BY <1>2, <1>3

LEMMA ReplacedInv ==
    ASSUME KeepInv, MCNext, Replaced
    PROVE  KeepInv'
<1> DEFINE f == cycle.field
           cookie == cycle.renewCookie[f]
<1>1. /\ cycle.at = "replacing" /\ client[Keeper].pc = "done"
      /\ f \in CookieFields /\ cycle.expected \in Sessions
      /\ cycle.found[f] = "rotated" /\ f \in Ahead(f)
      /\ \A g \in Ahead(f) : Fits(cycle, g)
  BY CycleFields DEF Replaced, Returned, KeepInv, Carries, Ahead, CookieFields
<1>2. CASE client[Keeper].result # "updated"
  BY <1>2, NoCycle, StoreStutters DEF Replaced, EndCycle, KeepInv
<1>3. CASE client[Keeper].result = "updated"
  <2> DEFINE changed == [cycle EXCEPT !.rotated = TRUE,
                !.expected = [@ EXCEPT ![cycle.field] = cycle.renewCookie[cycle.field]]]
  <2>1. AfterRenewal(changed)
    BY <1>3 DEF Replaced
  <2>2. cookie \in Cookies
    BY <1>1 DEF Fits
  <2>3. Written(cycle) \in Sessions /\ \A g \in CookieFields \ {f} : Written(cycle)[g] = cycle.expected[g]
    BY <1>1, <2>2, RenewedSession DEF Written
  <2>4. /\ changed \in Cycles /\ changed.expected = Written(cycle)
        /\ changed.found = cycle.found /\ changed.renewCookie = cycle.renewCookie
        /\ changed.field = cycle.field
    BY <2>3 DEF KeepInv, Cycles, Written
  <2>5. ~ moved => SessionIn(redis) = Written(cycle)
    BY <1>1, <1>3 DEF KeepInv, Watched
  <2> HIDE DEF changed
  <2>6. \A g \in Ahead(f) \ {f} : Fits(changed, g)
    BY <1>1, <2>3, <2>4 DEF Fits, Ahead
  <2> QED
    BY <1>1, <2>1, <2>3, <2>4, <2>5, <2>6, AfterRenewalInv
<1> QED
  BY <1>2, <1>3

-----------------------------------------------------------------------------
(* The store's work on the cycle's call, and everybody else.                 *)

LEMMA WorkInv ==
    ASSUME KeepInv, MCNext, StoreStep(Keeper), UNCHANGED cycle
    PROVE  KeepInv'
<1> DEFINE old == client[Keeper]
           new == client'[Keeper]
<1>0. StoreInv' /\ UNCHANGED now
  BY StoreNextInv, StoreStepIsOfOne, KeeperAssumption DEF StoreNext, KeepInv
<1>1. old.pc \notin {"idle", "done"}
  BY DEF StoreStep, Get, Decide, Set, Slide, CasExpire, CasDelete, CasReplace
<1>2. cycle.at \notin Holding
  BY <1>1 DEF KeepInv, Carries
<1>3. CASE cycle.at # "replacing"
  BY <1>0, <1>2, <1>3 DEF KeepInv, Carries, Watched, Holding
<1>4. CASE cycle.at = "replacing"
  <2> DEFINE f == cycle.field
             cookie == cycle.renewCookie[f]
             expected == cycle.expected
             generation == cycle.expected.sessionGeneration
             written == Written(cycle)
  <2>1. /\ f \in CookieFields /\ expected \in Sessions
        /\ cycle.found[f] = "rotated" /\ f \in Ahead(f)
        /\ \A g \in Ahead(f) : Fits(cycle, g)
    BY <1>4, CycleFields DEF KeepInv, Carries, Ahead, CookieFields
  <2>2. IsUpstreamCookieRenewal(generation, expected, written)
    BY <2>1, RenewedSession DEF Fits, Written, IsUpstreamCookieRenewal
  <2>3. /\ old.call.op = "replaceIfUnchanged" /\ old.call.generation = generation
        /\ old.call.expected = expected /\ old.call.replacement = written
        /\ old.pc \in {"get", "decide", "delete", "replace", "done"}
    BY <1>4 DEF KeepInv, Carries
  <2>4. old.call.iv \in Nat
    BY ClientFields, KeeperAssumption DEF KeepInv, Calls
  <2>5. StepsReplace(old, new)
    BY <2>3, ReplaceSteps, KeeperAssumption DEF KeepInv
  <2>6. new.call = old.call /\ new.pc \in {"decide", "delete", "replace", "done"}
    BY <2>5 DEF StepsReplace
  <2>7. Carries(cycle', new)
    BY <1>2, <1>4, <2>3, <2>6 DEF KeepInv, Carries, Holding
  <2>8. ASSUME ~ moved'
        PROVE  Watched(cycle', new, redis', now')
    <3>1. /\ SessionIn(redis) = expected
          /\ old.pc \in {"decide", "replace", "delete"} => old.envelope = redis /\ redis # NoEnvelope
          /\ old.pc = "delete" => AbsoluteDead(expected, now)
      BY <1>1, <1>2, <1>4, <2>8, NobodyElse DEF KeepInv, Watched, Holding
    <3>2. /\ redis # NoEnvelope /\ Decrypt(redis) = expected /\ expected # NoSession
          /\ GenerationMatches(expected, generation)
      BY <2>1, <3>1, NullsAssumption DEF SessionIn, GenerationMatches
    <3>3. Envelope(old.call.iv, written) # NoEnvelope
          /\ SessionIn(Envelope(old.call.iv, written)) = written
      <4>1. written \in Sessions
        BY <2>3, KeeperAssumption DEF KeepInv, StoreInv, Sound
      <4> DEFINE e == Envelope(old.call.iv, written)
      <4>2. e \in [iv : Nat, readable : BOOLEAN, session : Sessions] /\ e.readable /\ e.session = written
        BY <2>4, <4>1 DEF Envelope
      <4> HIDE DEF e
      <4>3. e # NoEnvelope
        BY <4>2, NullsAssumption
      <4>4. SessionIn(e) = written
        BY <4>2, <4>3 DEF SessionIn, Decrypt
      <4> QED
        BY <4>3, <4>4 DEF e
    <3>4. \/ old.pc = "get" /\ new.pc = "decide" /\ new.envelope = redis /\ redis' = redis
          \/ /\ old.pc = "decide" /\ new.pc = "delete" /\ new.envelope = redis /\ redis' = redis
             /\ AbsoluteDead(expected, now)
          \/ old.pc = "decide" /\ new.pc = "replace" /\ new.envelope = redis /\ redis' = redis
          \/ old.pc = "delete" /\ new.pc = "done" /\ new.result = "dead"
          \/ /\ old.pc = "replace" /\ new.pc = "done" /\ new.result = "updated"
             /\ redis' = Envelope(old.call.iv, written)
      BY <2>2, <2>3, <2>5, <3>1, <3>2 DEF StepsReplace
    <3>5. cycle' = cycle /\ Written(cycle') = written /\ now' = now
      BY <1>0
    <3> HIDE DEF expected, written, generation, f, cookie, old, new
    <3>6. cycle.expected = expected
      BY DEF expected
    <3>7. CASE new.pc # "done"
      BY <1>2, <1>4, <3>1, <3>2, <3>4, <3>5, <3>6, <3>7 DEF Watched
    <3>8. CASE new.pc = "done"
      BY <1>2, <1>4, <3>1, <3>3, <3>4, <3>5, <3>6, <3>8 DEF Watched
    <3> QED
      BY <3>7, <3>8
  <2> QED
    BY <1>0, <2>7, <2>8 DEF KeepInv
<1> QED
  BY <1>3, <1>4

\* A session that is past the absolute cap stays past it.
LEMMA DeadStaysDead ==
    ASSUME NEW session \in Sessions, NEW before \in Int, NEW after \in Int, before <= after,
           AbsoluteDead(session, before)
    PROVE  AbsoluteDead(session, after)
BY LifetimesAssumption DEF AbsoluteDead, Sessions

LEMMA OthersInv ==
    ASSUME KeepInv, MCNext, UNCHANGED cycle,
           \/ \E c \in Clients \ {Keeper} : Call(c) \/ StoreStep(c) \/ Return(c)
           \/ Tick
    PROVE  KeepInv'
<1>0. StoreInv'
  BY StoreNextInv DEF StoreNext, KeepInv
<1>1. now \in Int /\ now' \in Int /\ now <= now'
  <2>1. now \in Nat
    BY DEF KeepInv, StoreInv, StoreTypeOK
  <2>2. \A c \in Clients : Call(c) \/ StoreStep(c) \/ Return(c) => now' = now
    BY StoreStepIsOfOne DEF KeepInv, Call, CallSet, CallRead, CallQualified, CallReplace,
       Enter, Return
  <2>3. Tick => now' = now + 1
    BY DEF Tick
  <2> QED
    BY <2>1, <2>2, <2>3
<1>2. client'[Keeper] = client[Keeper]
  <2>1. CASE Tick
    BY <2>1 DEF Tick
  <2>2. ASSUME NEW c \in Clients \ {Keeper}, Call(c) \/ StoreStep(c) \/ Return(c)
        PROVE  client'[Keeper] = client[Keeper]
    <3>1. ASSUME NEW call, NEW pc, Enter(c, call, pc)
          PROVE  client'[Keeper] = client[Keeper]
      BY <3>1, EnterEffect, KeeperAssumption DEF KeepInv
    <3>2. Call(c) => client'[Keeper] = client[Keeper]
      BY <3>1 DEF Call, CallSet, CallRead, CallQualified, CallReplace
    <3>3. StoreStep(c) => client'[Keeper] = client[Keeper]
      BY StoreStepIsOfOne, KeeperAssumption DEF KeepInv
    <3>4. Return(c) => client'[Keeper] = client[Keeper]
      BY KeeperAssumption DEF Return, KeepInv, StoreInv, StoreTypeOK
    <3> QED
      BY <2>2, <3>2, <3>3, <3>4
  <2> QED
    BY <2>1, <2>2
<1>3. ~ ByKeeper
  BY <1>2 DEF ByKeeper, Commands
<1>4. Carries(cycle', client'[Keeper])
  BY <1>2 DEF KeepInv
<1>5. CASE cycle.at \in Holding \cup {"replacing"}
  <2>1. ASSUME ~ moved'
        PROVE  Watched(cycle', client'[Keeper], redis', now')
    <3>1. cycle.at \notin {"idle", "listing"}
      BY <1>5 DEF Holding, Probing, CookieFields
    <3>2. ~ moved /\ redis' = redis
      BY <1>3, <2>1, <3>1, NobodyElse
    <3>3. Watched(cycle, client[Keeper], redis, now)
      BY <3>2 DEF KeepInv
    <3>4. AbsoluteDead(cycle.expected, now) => AbsoluteDead(cycle.expected, now')
      BY <1>1, <1>5, DeadStaysDead DEF KeepInv, Carries
    <3> QED
      BY <1>2, <3>2, <3>3, <3>4 DEF Watched
  <2> QED
    BY <1>0, <1>4, <2>1 DEF KeepInv
<1>6. CASE cycle.at \notin Holding \cup {"replacing"}
  BY <1>0, <1>4, <1>6 DEF KeepInv, Watched
<1> QED
  BY <1>5, <1>6

THEOREM KeepNextInv == KeepInv /\ [MCNext]_mcVars => KeepInv'
<1> SUFFICES ASSUME KeepInv, [MCNext]_mcVars PROVE KeepInv'
  OBVIOUS
<1>1. CASE MCNext
  <2>1. CASE KeeperStep
    BY <1>1, <2>1, StartInv, ListedInv, ProbeInv, JudgeInv, RenewInv, ReplacedInv, SlidInv
       DEF KeeperStep
  <2>2. CASE Background
    BY <1>1, <2>2, WorkInv, OthersInv DEF Background
  <2>3. CASE KeepRestart
    BY <2>3, NoCycle, RestartInv DEF KeepRestart, KeepInv
  <2> QED
    BY <1>1, <2>1, <2>2, <2>3 DEF MCNext, KeepNext
<1>2. CASE UNCHANGED mcVars
  BY <1>2, StoreStutters DEF mcVars, keepVars, storeVars, KeepInv
<1> QED
  BY <1>1, <1>2

\* While nobody else touches the record, the snapshot a running cycle expects is what
\* the record holds, at every one of its steps.
THEOREM KeepInvariant == MCSpec => []KeepInv
<1>1. MCInit => KeepInv
  BY StoreInitInv, NoCycle DEF MCInit, KeepInit, KeepInv
<1> QED
  BY <1>1, KeepNextInv, PTL DEF MCSpec

\* OnlyOthersStopACycle (session-keepalive.service.ts, renew): a cycle that writes
\* several cookies never gets in its own way.
THEOREM CyclesStopForOthers == MCSpec => []OnlyOthersStopACycle
<1>1. KeepInv => OnlyOthersStopACycle
  BY DEF KeepInv, Watched, OnlyOthersStopACycle
<1> QED
  BY <1>1, KeepInvariant, PTL

=============================================================================
