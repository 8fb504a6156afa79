--------------------------- MODULE PairingProofs ---------------------------
(***************************************************************************)
(* A pairing code is worth one token, for any number of devices, requests  *)
(* and codes, although a code's keys are written and read one command at a *)
(* time and the reply to the command that takes it may be lost.            *)
(*                                                                         *)
(* CodeIsTakenOnce is not inductive: a code that was taken must not be set *)
(* again.  The strengthening says where a code is on its way: the requests *)
(* that still write its keys have drawn different codes, none of which     *)
(* was shown, and what is redeemed was shown before.                       *)
(*                                                                         *)
(* The second invariant, BookInv, is about what MCPairing remembers: whose *)
(* session a code stands for at every place it passes through, and that    *)
(* the mark of a redeemed code lasts.                                      *)
(***************************************************************************)
EXTENDS MCPairing, TLAPS

Writing == {"setting", "setting-exp"}

Holding == {"marking", "issuer"}

Redeeming == {"taking", "retaking", "missing"} \cup Holding

\* Where a request x may be, given the codes drawn and shown.
Placed(x, codes, known) ==
    /\ x.at \in Writing => x.code \in codes \ known
    /\ x.at \in Redeeming => x.kind = "consume" /\ x.code \in known

WritersDiffer ==
    \A r \in Requests : \A other \in Requests \ {r} :
        (req[r].at \in Writing /\ req[other].at \in Writing)
        => req[r].code # req[other].code

\* Nobody else holds the code that x holds, and it cannot be redeemed again.
HeldOnce ==
    \A r \in Requests :
        req[r].at \in Holding
        => /\ ~ Present(pair[req[r].code])
           /\ \A other \in Requests \ {r} :
                req[other].at \in Holding => req[other].code # req[r].code

PairInv ==
    /\ PairTypeOK
    /\ \A r \in Requests : Placed(req[r], drawn, shown)
    /\ WritersDiffer
    /\ HeldOnce

LEMMA NoKeyType == NoKey \in Keys /\ \A t \in Nat : ~ (t < NoKey.until)
BY DEF NoKey, Keys

LEMMA FreeType == Free \in RequestStates /\ Free.at = "free"
BY DEF Free, RequestStates

LEMMA RequestTypes ==
    ASSUME PairInv, NEW r \in Requests
    PROVE  /\ req[r] \in RequestStates
           /\ Placed(req[r], drawn, shown)
           /\ req[r].at \in Writing \cup Redeeming => req[r].code \in Codes
BY DEF PairInv, PairTypeOK, Placed

LEMMA PairInitially == PairInit => PairInv
<1> SUFFICES ASSUME PairInit PROVE PairInv
  OBVIOUS
<1>1. \A r \in Requests : req[r].at = "free"
  BY FreeType DEF PairInit
<1>2. PairTypeOK
  BY NoKeyType, FreeType DEF PairInit, PairTypeOK
<1> QED
  BY <1>1, <1>2 DEF PairInv, Placed, WritersDiffer, HeldOnce, Writing, Redeeming, Holding

\* A request moves to where it writes no key of a code.  The keys of codes may be
\* deleted meanwhile; a request that comes to hold a code has taken its key.
LEMMA RequestMoves ==
    ASSUME PairInv, NEW r \in Requests, NEW x \in RequestStates,
           req' = [req EXCEPT ![r] = x],
           Placed(x, drawn, shown), x.at \notin Writing,
           x.at \in Holding =>
               \/ req[r].at \in Holding /\ req[r].code = x.code
               \/ Present(pair[x.code]) /\ pair'[x.code] = NoKey,
           UNCHANGED <<now, live, logins, drawn, shown>>,
           pair' \in [Codes -> Keys],
           \A code \in Codes : pair'[code] \in {pair[code], NoKey},
           pairExp' \in [Codes -> Nat], pairUsed' \in [Codes -> Keys]
    PROVE  PairInv'
<1>1. \A other \in Requests : req'[other] = IF other = r THEN x ELSE req[other]
  BY DEF PairInv, PairTypeOK
<1>2. PairTypeOK'
  BY DEF PairInv, PairTypeOK
<1>3. \A other \in Requests : Placed(req'[other], drawn', shown')
  BY <1>1 DEF PairInv
<1>4. WritersDiffer'
  BY <1>1 DEF PairInv, WritersDiffer
<1>5. \A other \in Requests : req'[other].at \in Holding => req'[other].code \in Codes
  BY <1>1, <1>3 DEF PairInv, PairTypeOK, Placed, Redeeming
<1>6. \A code \in Codes : ~ Present(pair[code]) => ~ Present(pair[code])'
  BY NoKeyType DEF Present, PairInv, PairTypeOK
<1>7. ~ Present(NoKey)'
  BY NoKeyType DEF Present, PairInv, PairTypeOK
<1>8. x.at \in Holding =>
        \A other \in Requests \ {r} : req[other].at \in Holding => req[other].code # x.code
  BY DEF PairInv, HeldOnce
<1>9. \A other \in Requests :
        req'[other].at \in Holding => ~ (now' < pair'[req'[other].code].until)
  <2> SUFFICES ASSUME NEW other \in Requests, req'[other].at \in Holding
               PROVE  ~ (now' < pair'[req'[other].code].until)
    OBVIOUS
  <2>1. CASE req[other].at \in Holding /\ req[other].code = req'[other].code
    BY <1>5, <1>6, <2>1 DEF PairInv, HeldOnce, Present
  <2>2. CASE pair'[req'[other].code] = NoKey
    BY <1>7, <2>2 DEF Present
  <2> QED
    BY <1>1, <2>1, <2>2
<1>10. HeldOnce'
  BY <1>1, <1>8, <1>9 DEF PairInv, HeldOnce, Present
<1> QED
  BY <1>2, <1>3, <1>4, <1>10 DEF PairInv

\* Only the place and the answer of a request change.
LEMMA AnswerMoves ==
    ASSUME PairInv, NEW r \in Requests,
           NEW answer \in {"token", "pending", "consumed", "invalid", "expired", "dead", "error"},
           Answer(r, answer), UNCHANGED <<now, live, logins, keyVars, drawn, shown>>
    PROVE  PairInv'
<1> DEFINE x == [req[r] EXCEPT !.at = "answered", !.answer = answer]
<1>1. x \in RequestStates /\ x.at = "answered"
  BY RequestTypes DEF RequestStates
<1>2. Placed(x, drawn, shown) /\ x.at \notin Writing /\ x.at \notin Holding
  BY <1>1 DEF Placed, Writing, Redeeming, Holding
<1>3. req' = [req EXCEPT ![r] = x]
  BY DEF Answer, PairInv, PairTypeOK
<1> HIDE DEF x
<1> QED
  BY <1>1, <1>2, <1>3, RequestMoves DEF PairInv, PairTypeOK, keyVars

LEMMA GotoMoves ==
    ASSUME PairInv, NEW r \in Requests,
           NEW place \in {"reading", "status", "used", "retaking", "missing", "issuer"},
           Goto(r, place),
           place \in {"retaking", "missing"} => req[r].at \in Redeeming,
           place = "issuer" => req[r].at = "marking",
           UNCHANGED <<now, live, logins, drawn, shown>>,
           pair' \in [Codes -> Keys],
           \A code \in Codes : pair'[code] \in {pair[code], NoKey},
           pairExp' \in [Codes -> Nat], pairUsed' \in [Codes -> Keys]
    PROVE  PairInv'
<1> DEFINE x == [req[r] EXCEPT !.at = place]
<1>1. /\ x \in RequestStates
      /\ x.at = place /\ x.kind = req[r].kind /\ x.code = req[r].code
  BY RequestTypes DEF RequestStates
<1>2. Placed(x, drawn, shown) /\ x.at \notin Writing
  BY <1>1, RequestTypes DEF Placed, Writing, Redeeming, Holding
<1>3. x.at \in Holding => req[r].at \in Holding /\ req[r].code = x.code
  BY <1>1 DEF Holding
<1>4. req' = [req EXCEPT ![r] = x]
  BY DEF Goto, PairInv, PairTypeOK
<1> HIDE DEF x
<1> QED
  BY <1>1, <1>2, <1>3, <1>4, RequestMoves

-----------------------------------------------------------------------------
(* The steps of a request                                                    *)

LEMMA StartKeeps ==
    ASSUME PairInv, NEW r \in Requests,
           \/ \E login \in logins : RequestStart(r, login)
           \/ \E login \in logins, code \in shown : StatusStart(r, login, code)
           \/ \E code \in shown : ConsumeStart(r, code)
           \/ ConsumeEmpty(r)
           \/ Respond(r)
    PROVE  PairInv'
<1>1. PICK x \in RequestStates :
        /\ req' = [req EXCEPT ![r] = x]
        /\ x.at \in {"guard", "taking", "answered", "free"}
        /\ x.at = "taking" => x.kind = "consume" /\ x.code \in shown
  <2>0. logins \subseteq Logins /\ shown \subseteq Codes
    BY DEF PairInv, PairTypeOK
  <2>1. ASSUME NEW login \in logins, RequestStart(r, login)
        PROVE  [Free EXCEPT !.at = "guard", !.kind = "request", !.login = login,
                            !.code = NoCode] \in RequestStates
    BY <2>0 DEF Free, RequestStates
  <2>2. ASSUME NEW login \in logins, NEW code \in shown, StatusStart(r, login, code)
        PROVE  [Free EXCEPT !.at = "guard", !.kind = "status", !.login = login,
                            !.code = code] \in RequestStates
    BY <2>0 DEF Free, RequestStates
  <2>3. ASSUME NEW code \in shown
        PROVE  [Free EXCEPT !.at = "taking", !.kind = "consume", !.login = NoLogin,
                            !.code = code] \in RequestStates
    BY <2>0 DEF Free, RequestStates
  <2>4. [Free EXCEPT !.at = "answered", !.kind = "consume", !.answer = "invalid"]
          \in RequestStates
    BY DEF Free, RequestStates
  <2>5. CASE \E login \in logins : RequestStart(r, login)
    BY <2>1, <2>5 DEF RequestStart, Start, Free
  <2>6. CASE \E login \in logins, code \in shown : StatusStart(r, login, code)
    BY <2>2, <2>6 DEF StatusStart, Start, Free
  <2>7. CASE \E code \in shown : ConsumeStart(r, code)
    BY <2>3, <2>7 DEF ConsumeStart, Start, Free
  <2>8. CASE ConsumeEmpty(r)
    BY <2>4, <2>8 DEF ConsumeEmpty, Free
  <2>9. CASE Respond(r)
    BY <2>9, FreeType DEF Respond
  <2> QED
    BY <2>5, <2>6, <2>7, <2>8, <2>9
<1>2. UNCHANGED <<now, live, logins, keyVars, drawn, shown>>
  BY DEF RequestStart, StatusStart, ConsumeStart, Start, ConsumeEmpty, Respond
<1>3. Placed(x, drawn, shown) /\ x.at \notin Writing /\ x.at \notin Holding
  BY <1>1 DEF Placed, Writing, Redeeming, Holding
<1> QED
  BY <1>1, <1>2, <1>3, RequestMoves DEF PairInv, PairTypeOK, keyVars

LEMMA AnsweringKeeps ==
    ASSUME PairInv, NEW r \in Requests,
           \/ Guard(r) \/ ReadExp(r) \/ ReadIssuer(r) \/ StatusGet(r) \/ FindConsumed(r)
           \/ Fail(r)
    PROVE  PairInv'
<1>1. UNCHANGED <<now, live, logins, keyVars, drawn, shown>>
  BY DEF Guard, ReadExp, ReadIssuer, StatusGet, FindConsumed, Fail
<1>2. \/ \E place \in {"reading", "status", "used"} : Goto(r, place)
      \/ \E answer \in {"token", "pending", "consumed", "invalid", "expired", "dead", "error"} :
            Answer(r, answer)
  BY DEF Guard, ReadExp, ReadIssuer, StatusGet, FindConsumed, Fail
<1> QED
  BY <1>1, <1>2, AnswerMoves, GotoMoves DEF PairInv, PairTypeOK, keyVars

LEMMA SetUsedKeeps ==
    ASSUME PairInv, NEW r \in Requests, SetUsed(r)
    PROVE  PairInv'
<1>1. req[r] \in RequestStates /\ req[r].at = "marking" /\ req[r].code \in Codes
  BY RequestTypes DEF SetUsed, At, Redeeming, Holding
<1>2. [login |-> req[r].login, until |-> now + UsedTtl] \in Keys
  BY <1>1, PairLifetimesAssumption DEF Keys, RequestStates, PairInv, PairTypeOK
<1>3. pairUsed' \in [Codes -> Keys]
  BY <1>2 DEF SetUsed, PairInv, PairTypeOK
<1> QED
  BY <1>1, <1>3, GotoMoves DEF SetUsed, PairInv, PairTypeOK

\* Whoever takes the key finds it there: so nobody holds the code yet.
LEMMA TakeKeeps ==
    ASSUME PairInv, NEW r \in Requests, Take(r)
    PROVE  PairInv'
<1> DEFINE code == req[r].code
<1>1. /\ req[r] \in RequestStates /\ Placed(req[r], drawn, shown)
      /\ req[r].at \in Redeeming /\ code \in Codes
  BY RequestTypes DEF Take, At, Redeeming
<1>2. /\ pair' \in [Codes -> Keys]
      /\ pair'[code] = NoKey
      /\ \A other \in Codes : pair'[other] \in {pair[other], NoKey}
      /\ UNCHANGED <<now, live, logins, drawn, shown>>
      /\ pairExp' \in [Codes -> Nat] /\ pairUsed' \in [Codes -> Keys]
  BY <1>1, NoKeyType DEF Take, TakePair, PairInv, PairTypeOK
<1>3. CASE Present(pair[code])
  <2> DEFINE x == [req[r] EXCEPT !.at = "marking", !.login = pair[code].login]
  <2>1. pair[code].login \in Logins \cup {NoLogin}
    BY <1>1 DEF PairInv, PairTypeOK, Keys
  <2>2. /\ x \in RequestStates
        /\ x.at = "marking" /\ x.kind = req[r].kind /\ x.code = code
    BY <1>1, <2>1 DEF RequestStates
  <2>3. Placed(x, drawn, shown) /\ x.at \notin Writing
    BY <1>1, <2>2 DEF Placed, Writing, Redeeming, Holding
  <2>4. req' = [req EXCEPT ![r] = x]
    BY <1>3 DEF Take, TakePair, PairInv, PairTypeOK
  <2> HIDE DEF x
  <2> QED
    BY <1>2, <1>3, <2>2, <2>3, <2>4, RequestMoves
<1>4. CASE ~ Present(pair[code])
  <2>1. Goto(r, "missing")
    BY <1>4 DEF Take, TakePair
  <2> QED
    BY <1>1, <1>2, <2>1, GotoMoves
<1> QED
  BY <1>3, <1>4

LEMMA TakeRejectedKeeps ==
    ASSUME PairInv, NEW r \in Requests, TakeRejected(r)
    PROVE  PairInv'
<1>1. req[r].at \in Redeeming /\ req[r].code \in Codes /\ Goto(r, "retaking")
  BY RequestTypes DEF TakeRejected, At, Redeeming
<1>2. /\ pair' \in [Codes -> Keys]
      /\ \A other \in Codes : pair'[other] \in {pair[other], NoKey}
      /\ UNCHANGED <<now, live, logins, drawn, shown>>
      /\ pairExp' \in [Codes -> Nat] /\ pairUsed' \in [Codes -> Keys]
  BY <1>1, NoKeyType DEF TakeRejected, PairInv, PairTypeOK
<1> QED
  BY <1>1, <1>2, GotoMoves

\* A code that is drawn was not drawn before: nobody else writes or redeems it.
LEMMA RequestReadKeeps ==
    ASSUME PairInv, NEW r \in Requests, RequestRead(r)
    PROVE  PairInv'
<1>0. UNCHANGED <<now, live, logins, keyVars, shown>>
  BY DEF RequestRead
<1>1. CASE Answer(r, "dead") /\ UNCHANGED drawn
  BY <1>0, <1>1, AnswerMoves
<1>2. CASE \E code \in Codes \ drawn :
             /\ drawn' = drawn \cup {code}
             /\ req' = [req EXCEPT ![r].at = "setting", ![r].code = code]
  <2>1. PICK code \in Codes \ drawn :
             /\ drawn' = drawn \cup {code}
             /\ req' = [req EXCEPT ![r].at = "setting", ![r].code = code]
    BY <1>2
  <2> DEFINE x == [req[r] EXCEPT !.at = "setting", !.code = code]
  <2>2. x \in RequestStates /\ x.at = "setting" /\ x.code = code
    BY RequestTypes DEF RequestStates
  <2>3. \A other \in Requests : req'[other] = IF other = r THEN x ELSE req[other]
    BY <2>1 DEF PairInv, PairTypeOK
  <2>4. req' \in [Requests -> RequestStates]
    BY <2>1, <2>2 DEF PairInv, PairTypeOK
  <2>5. PairTypeOK'
    BY <1>0, <2>1, <2>4 DEF PairInv, PairTypeOK, keyVars
  <2> HIDE DEF x
  <2>6. code \notin drawn /\ code \notin shown
    BY DEF PairInv, PairTypeOK
  <2>7. \A other \in Requests : Placed(req'[other], drawn', shown')
    <3>1. Placed(x, drawn', shown')
      BY <1>0, <2>1, <2>2, <2>6 DEF Placed, Redeeming, Holding
    <3>2. \A other \in Requests : Placed(req[other], drawn', shown')
      BY <1>0, <2>1 DEF PairInv, Placed
    <3> QED
      BY <2>3, <3>1, <3>2
  <2>8. WritersDiffer'
    BY <2>2, <2>3, <2>6 DEF PairInv, WritersDiffer, Placed
  <2>9. HeldOnce'
    BY <1>0, <2>2, <2>3 DEF PairInv, HeldOnce, Holding, Present, keyVars
  <2> QED
    BY <2>5, <2>7, <2>8, <2>9 DEF PairInv
<1> QED
  BY <1>1, <1>2 DEF RequestRead

\* The key that is set is of a code nobody was shown: nobody holds it.
LEMMA SetPairKeeps ==
    ASSUME PairInv, NEW r \in Requests, SetPair(r)
    PROVE  PairInv'
<1> DEFINE x == [req[r] EXCEPT !.at = "setting-exp"]
           code == req[r].code
<1>1. /\ req[r] \in RequestStates /\ req[r].at = "setting"
      /\ code \in Codes /\ code \in drawn \ shown
  BY RequestTypes DEF SetPair, At, Placed, Writing
<1>2. x \in RequestStates /\ x.at = "setting-exp" /\ x.code = code
  BY <1>1 DEF RequestStates
<1>3. \A other \in Requests : req'[other] = IF other = r THEN x ELSE req[other]
  BY DEF SetPair, Goto, PairInv, PairTypeOK
<1>4. [login |-> req[r].login, until |-> now + PairTtl] \in Keys
  BY <1>1, PairLifetimesAssumption DEF Keys, RequestStates, PairInv, PairTypeOK
<1>5. /\ pair' \in [Codes -> Keys]
      /\ \A other \in Codes \ {code} : pair'[other] = pair[other]
      /\ UNCHANGED <<now, live, logins, pairExp, pairUsed, drawn, shown>>
  BY <1>4 DEF SetPair, PairInv, PairTypeOK
<1>6. req' \in [Requests -> RequestStates]
  BY <1>2 DEF SetPair, Goto, PairInv, PairTypeOK
<1> HIDE DEF x
<1>7. PairTypeOK'
  BY <1>5, <1>6 DEF PairInv, PairTypeOK
<1>8. \A other \in Requests : Placed(req'[other], drawn', shown')
  BY <1>1, <1>2, <1>3, <1>5 DEF PairInv, Placed, Writing, Redeeming, Holding
<1>9. WritersDiffer'
  BY <1>1, <1>2, <1>3 DEF PairInv, WritersDiffer, Writing
<1>10. \A other \in Requests :
         req'[other].at \in Holding => /\ req'[other] = req[other]
                                       /\ req[other].code \in Codes \ {code}
  BY <1>1, <1>2, <1>3 DEF PairInv, PairTypeOK, Placed, Redeeming, Holding
<1>11. HeldOnce'
  BY <1>5, <1>10 DEF PairInv, HeldOnce, Present
<1> QED
  BY <1>7, <1>8, <1>9, <1>11 DEF PairInv

\* The code is shown when its keys are there: nobody else still writes them.
LEMMA SetExpKeeps ==
    ASSUME PairInv, NEW r \in Requests, SetExp(r)
    PROVE  PairInv'
<1> DEFINE x == [req[r] EXCEPT !.at = "answered", !.answer = "code"]
           code == req[r].code
<1>1. /\ req[r] \in RequestStates /\ req[r].at = "setting-exp"
      /\ code \in Codes /\ code \in drawn \ shown
  BY RequestTypes DEF SetExp, At, Placed, Writing
<1>2. x \in RequestStates /\ x.at = "answered"
  BY <1>1 DEF RequestStates
<1>3. \A other \in Requests : req'[other] = IF other = r THEN x ELSE req[other]
  BY DEF SetExp, Answer, PairInv, PairTypeOK
<1>4. /\ pairExp' \in [Codes -> Nat]
      /\ shown' = shown \cup {code}
      /\ UNCHANGED <<now, live, logins, pair, pairUsed, drawn>>
  <2>1. now + PairTtl + Grace \in Nat
    BY PairLifetimesAssumption DEF PairInv, PairTypeOK
  <2> QED
    BY <1>1, <2>1 DEF SetExp, PairInv, PairTypeOK
<1>5. req' \in [Requests -> RequestStates]
  BY <1>2 DEF SetExp, Answer, PairInv, PairTypeOK
<1> HIDE DEF x
<1>6. PairTypeOK'
  BY <1>1, <1>4, <1>5 DEF PairInv, PairTypeOK
<1>7. \A other \in Requests \ {r} : req[other].at \in Writing => req[other].code # code
  BY <1>1 DEF PairInv, WritersDiffer, Writing
<1>8. \A other \in Requests : Placed(req'[other], drawn', shown')
  BY <1>2, <1>3, <1>4, <1>7 DEF PairInv, Placed, Writing, Redeeming, Holding
<1>9. WritersDiffer'
  BY <1>2, <1>3 DEF PairInv, WritersDiffer, Writing
<1>10. HeldOnce'
  BY <1>2, <1>3, <1>4 DEF PairInv, HeldOnce, Holding, Present
<1> QED
  BY <1>6, <1>8, <1>9, <1>10 DEF PairInv

\* The rest of the system moves no request; as time passes, keys are dropped.
LEMMA AroundKeeps ==
    ASSUME PairInv,
           \/ \E sub \in Subs : End(sub)
           \/ \E sub \in Subs, generation \in Generations : Login(sub, generation)
           \/ Tick
           \/ UNCHANGED pairVars
    PROVE  PairInv'
<1>1. UNCHANGED <<keyVars, drawn, shown, req>> /\ now' \in {now, now + 1}
  BY DEF End, Login, Tick, pairVars, keyVars
<1>2. live' \in [Subs -> Generations \cup {NoGeneration}] /\ logins' \subseteq Logins
  BY DEF End, Login, Tick, pairVars, PairInv, PairTypeOK, Logins
<1>3. PairTypeOK'
  BY <1>1, <1>2 DEF PairInv, PairTypeOK, keyVars
<1>4. \A code \in Codes : ~ Present(pair[code]) => ~ Present(pair[code])'
  BY <1>1 DEF Present, PairInv, PairTypeOK, Keys, keyVars
<1>5. \A r \in Requests : req[r].at \in Holding => req[r].code \in Codes
  BY DEF PairInv, PairTypeOK, Placed, Redeeming
<1>6. HeldOnce'
  BY <1>1, <1>4, <1>5 DEF PairInv, HeldOnce
<1>7. (\A r \in Requests : Placed(req'[r], drawn', shown')) /\ WritersDiffer'
  BY <1>1 DEF PairInv, WritersDiffer
<1> QED
  BY <1>3, <1>6, <1>7 DEF PairInv

LEMMA PairStepKeeps == PairInv /\ [PairNext]_pairVars => PairInv'
<1> SUFFICES ASSUME PairInv, [PairNext]_pairVars PROVE PairInv'
  OBVIOUS
<1>1. ASSUME NEW r \in Requests, RequestStep(r) PROVE PairInv'
  BY <1>1, StartKeeps, AnsweringKeeps, SetUsedKeeps, TakeKeeps, TakeRejectedKeeps,
     RequestReadKeeps, SetPairKeeps, SetExpKeeps DEF RequestStep
<1> QED
  BY <1>1, AroundKeeps DEF PairNext

THEOREM PairInvariant == PairSpec => []PairInv
BY PairInitially, PairStepKeeps, PTL DEF PairSpec

\* Every variable keeps its type: what was shown was drawn, and a request never
\* comes to a place, or to an answer, that pairing.service.ts does not have.
THEOREM PairTypeCorrect == PairSpec => []PairTypeOK
<1>1. PairInv => PairTypeOK
  BY DEF PairInv
<1> QED
  BY <1>1, PairInvariant, PTL

\* Of all devices that redeem a code at the same time, one gets a token at most,
\* also when the reply to its GETDEL is lost.
THEOREM CodesAreTakenOnce == PairSpec => []CodeIsTakenOnce
<1>1. PairInv => CodeIsTakenOnce
  BY DEF PairInv, HeldOnce, CodeIsTakenOnce, Holding
<1> QED
  BY <1>1, PairInvariant, PTL

-----------------------------------------------------------------------------
(* Whose session a code stands for                                           *)

\* The session of a login is the one its identity has.
Lives(login) == live[login.sub] = login.generation

\* pair-used:<code> names the owner and lasts long enough.
Marked(code) ==
    /\ pairUsed[code].login = owner[code]
    /\ pairUsed[code].until >= takenAt[code] + UsedTtl

CodeOK(code) ==
    /\ code \in drawn => owner[code] \in logins
    /\ pair[code] # NoKey => code \in drawn /\ pair[code].login = owner[code]
    /\ code \in paired => code \in shown /\ ~ Present(pair[code]) /\ Marked(code)

\* Which requests pass through which places.
KindOK(x) ==
    /\ x.at = "guard" => x.kind \in {"request", "status"}
    /\ x.at \in {"reading"} \cup Writing => x.kind = "request"
    /\ x.at \in {"status", "used"} => x.kind = "status"

\* The login a request carries is the owner's of its code.
LoginOK(x) ==
    /\ x.at \in {"guard", "reading"} => x.login \in logins
    /\ x.at \in Writing \cup Holding => x.login = owner[x.code]
    /\ x.at \in Holding => x.code \notin paired /\ takenAt[x.code] <= now
    /\ x.at = "issuer" => Marked(x.code)

\* What was over or redeemed when a request began still is.
StartOK(x, began) ==
    /\ x.at = "free" \/ x.kind = "request" => began = Unstarted
    /\ began.over => x.code \in shown /\ ~ Lives(owner[x.code])
    /\ began.redeemed => x.code \in paired

\* What a request is answered with.
Truly(x, began) ==
    /\ x.answer = "token" => x.code \in drawn /\ x.login = owner[x.code] /\ ~ began.over
    /\ (x.kind = "status" /\ began.redeemed /\ x.login.sub = owner[x.code].sub)
       => \/ x.answer \in {"consumed", "dead", "error"}
          \/ x.answer = "invalid" /\ now >= takenAt[x.code] + UsedTtl

RequestOK(r) ==
    /\ KindOK(req[r])
    /\ LoginOK(req[r])
    /\ StartOK(req[r], start[r])
    /\ req[r].at = "answered" => Truly(req[r], start[r])

BookTypes ==
    /\ owner \in [Codes -> Logins \cup {NoLogin}]
    /\ takenAt \in [Codes -> Nat]
    /\ paired \subseteq Codes
    /\ start \in [Requests -> [over : BOOLEAN, redeemed : BOOLEAN]]

BookInv ==
    /\ BookTypes
    /\ \A code \in Codes : CodeOK(code)
    /\ \A r \in Requests : RequestOK(r)

\* What one step of the request r, which makes it x, notes down.
Noted(r, x) ==
    /\ owner' = [code \in Codes |->
         IF req[r].at = "reading" /\ x.at = "setting" /\ x.code = code
         THEN x.login ELSE owner[code]]
    /\ takenAt' = [code \in Codes |->
         IF req[r].at # "marking" /\ x.at = "marking" /\ req[r].code = code
         THEN now ELSE takenAt[code]]
    /\ paired' = IF req[r].at # "answered" /\ x.at = "answered" /\ x.answer = "token"
                 THEN paired \cup {req[r].code} ELSE paired
    /\ start' = [other \in Requests |-> start'[other]]
    /\ \A other \in Requests \ {r} : start'[other] \in {start[other], Unstarted}
    /\ start'[r] = IF req[r].at = "free" /\ x.at # "free" /\ x.code # NoCode
                   THEN [over |-> ~ Lives(owner[x.code]), redeemed |-> x.code \in paired]
                   ELSE IF req[r].at = "answered" THEN Unstarted ELSE start[r]

LEMMA StepIsNoted ==
    ASSUME PairInv, MCNext, NEW r \in Requests, NEW x \in RequestStates,
           req' = [req EXCEPT ![r] = x]
    PROVE  Noted(r, x)
<1>1. /\ req'[r] = x
      /\ \A other \in Requests \ {r} : req'[other] = req[other]
  BY DEF PairInv, PairTypeOK
<1>2. \A other \in Requests \ {r} : /\ ~ Drawing(other) /\ ~ Takes(other)
                                    /\ ~ Pairs(other) /\ ~ Starts(other)
  BY <1>1 DEF Drawing, Takes, Pairs, Starts, At
<1>3. /\ Drawing(r) <=> req[r].at = "reading" /\ x.at = "setting"
      /\ Takes(r) <=> req[r].at # "marking" /\ x.at = "marking"
      /\ Pairs(r) <=> req[r].at # "answered" /\ x.at = "answered" /\ x.answer = "token"
      /\ Starts(r) <=> req[r].at = "free" /\ x.at # "free" /\ x.code # NoCode
  BY <1>1 DEF Drawing, Takes, Pairs, Starts, At
<1>4. ASSUME NEW code \in Codes
      PROVE  owner'[code] = IF Drawing(r) /\ x.code = code THEN x.login ELSE owner[code]
  <2>1. Drawing(r) => (CHOOSE other \in Requests : Drawing(other)) = r
    BY <1>2
  <2>2. (\E other \in Requests : Drawing(other) /\ req'[other].code = code)
        <=> Drawing(r) /\ x.code = code
    BY <1>1, <1>2
  <2>3. owner'[code] = IF \E other \in Requests : Drawing(other) /\ req'[other].code = code
                       THEN req'[CHOOSE other \in Requests : Drawing(other)].login
                       ELSE owner[code]
    BY DEF MCNext
  <2> QED
    BY <1>1, <2>1, <2>2, <2>3
<1>5. ASSUME NEW code \in Codes
      PROVE  takenAt'[code] = IF Takes(r) /\ req[r].code = code THEN now ELSE takenAt[code]
  <2>1. (\E other \in Requests : Takes(other) /\ req[other].code = code)
        <=> Takes(r) /\ req[r].code = code
    BY <1>2
  <2>2. takenAt'[code] = IF \E other \in Requests : Takes(other) /\ req[other].code = code
                         THEN now ELSE takenAt[code]
    BY DEF MCNext
  <2> QED
    BY <2>1, <2>2
<1>6. paired' = IF Pairs(r) THEN paired \cup {req[r].code} ELSE paired
  <2>1. {req[other].code : other \in {y \in Requests : Pairs(y)}}
        = IF Pairs(r) THEN {req[r].code} ELSE {}
    BY <1>2
  <2> QED
    BY <2>1 DEF MCNext
<1>7. \A other \in Requests \ {r} : start'[other] \in {start[other], Unstarted}
  BY <1>2 DEF MCNext
<1>8. start'[r] = IF Starts(r)
                  THEN [over |-> ~ Lives(owner[x.code]), redeemed |-> x.code \in paired]
                  ELSE IF At(r, "answered") THEN Unstarted ELSE start[r]
  BY <1>1 DEF MCNext, Lives
<1>9. /\ owner' = [code \in Codes |-> owner'[code]]
      /\ takenAt' = [code \in Codes |-> takenAt'[code]]
      /\ start' = [other \in Requests |-> start'[other]]
  BY DEF MCNext
<1>10. owner' = [code \in Codes |->
         IF req[r].at = "reading" /\ x.at = "setting" /\ x.code = code
         THEN x.login ELSE owner[code]]
  BY <1>3, <1>4, <1>9
<1>11. takenAt' = [code \in Codes |->
         IF req[r].at # "marking" /\ x.at = "marking" /\ req[r].code = code
         THEN now ELSE takenAt[code]]
  BY <1>3, <1>5, <1>9
<1> QED
  BY <1>3, <1>6, <1>7, <1>8, <1>9, <1>10, <1>11 DEF Noted, At

\* What a step leaves to the requests it does not move.
Forward ==
    /\ logins \subseteq logins' /\ drawn \subseteq drawn' /\ shown \subseteq shown'
    /\ paired \subseteq paired'
    /\ now <= now'
    /\ \A code \in drawn : /\ owner'[code] = owner[code]
                           /\ ~ Lives(owner[code]) => ~ Lives(owner[code])'
    /\ \A code \in paired : takenAt'[code] = takenAt[code]

LEMMA OtherKeeps ==
    ASSUME PairInv, BookInv, Forward, now' \in Nat, NEW r \in Requests,
           NEW x, x = req[r], x = req'[r],
           NEW began \in {start[r], Unstarted}, began = start'[r],
           x.at \in Holding =>
               /\ x.code \notin paired'
               /\ takenAt'[x.code] = takenAt[x.code]
               /\ pairUsed'[x.code] = pairUsed[x.code]
    PROVE  RequestOK(r)'
<1>1. /\ x \in RequestStates /\ Placed(x, drawn, shown)
      /\ now \in Nat /\ shown \subseteq drawn /\ drawn \subseteq Codes
      /\ takenAt \in [Codes -> Nat] /\ paired \subseteq Codes
  <2>1. req[r] \in RequestStates /\ Placed(req[r], drawn, shown)
    BY RequestTypes
  <2> QED
    BY <2>1 DEF PairInv, PairTypeOK, BookInv, BookTypes
<1>2. KindOK(x) /\ LoginOK(x) /\ StartOK(x, start[r])
      /\ (x.at = "answered" => Truly(x, start[r]))
  BY DEF BookInv, RequestOK
<1>3. \A code \in paired : code \in shown /\ code \in drawn
  BY <1>1 DEF BookInv, CodeOK
<1>4. KindOK(x)'
  BY <1>2 DEF KindOK
<1>5. LoginOK(x)'
  <2>1. x.at \in {"guard", "reading"} => x.login \in logins'
    BY <1>2 DEF LoginOK, Forward
  <2>2. x.at \in Writing \cup Holding => x.code \in drawn
    BY <1>1 DEF Placed, Redeeming
  <2>3. x.at \in Writing \cup Holding => x.login = owner'[x.code]
    BY <1>2, <2>2 DEF LoginOK, Forward
  <2>4. x.at \in Holding => x.code \notin paired' /\ takenAt'[x.code] <= now'
    BY <1>1, <1>2, <2>2 DEF LoginOK, Forward
  <2>5. x.at = "issuer" => Marked(x.code)'
    BY <1>2, <2>2 DEF LoginOK, Forward, Marked, Holding
  <2> QED
    BY <2>1, <2>3, <2>4, <2>5 DEF LoginOK
<1>6. StartOK(x, began)'
  <2>1. StartOK(x, Unstarted)
    BY DEF StartOK, Unstarted
  <2>3. StartOK(x, began)
    BY <1>2, <2>1
  <2>2. began.over => x.code \in shown' /\ ~ Lives(owner[x.code])'
    BY <1>1, <2>3 DEF StartOK, Forward
  <2> QED
    BY <2>2, <2>3 DEF StartOK, Forward
<1>7. ASSUME x.at = "answered" PROVE Truly(x, began)'
  <2>1. Truly(x, began)
    BY <1>2, <1>7 DEF Truly, Unstarted
  <2>2. x.answer = "token" => /\ x.code \in drawn' /\ x.login = owner'[x.code]
                              /\ ~ began.over
    BY <2>1 DEF Truly, Forward
  <2>3. began.redeemed => /\ owner'[x.code] = owner[x.code]
                          /\ takenAt'[x.code] = takenAt[x.code] /\ takenAt[x.code] \in Nat
    BY <1>1, <1>2, <1>3 DEF StartOK, Forward, Unstarted
  <2> QED
    BY <1>1, <2>1, <2>2, <2>3, PairLifetimesAssumption DEF Truly, Forward
<1> QED
  BY <1>4, <1>5, <1>6, <1>7 DEF RequestOK

\* A step of one request keeps the books when it does for that request.
LEMMA StepKeepsBooks ==
    ASSUME PairInv, PairInv', BookInv, NEW r \in Requests, NEW x \in RequestStates,
           req' = [req EXCEPT ![r] = x], Noted(r, x), UNCHANGED <<now, live, logins>>,
           drawn \subseteq drawn', shown \subseteq shown',
           x.at = "marking" /\ req[r].at # "marking" => Present(pair[req[r].code]),
           x.at = "setting" /\ req[r].at = "reading" => x.code \notin drawn,
           x.at = "answered" /\ req[r].at # "answered" /\ x.answer = "token" =>
               req[r].at = "issuer",
           \A code \in Codes : pairUsed'[code] # pairUsed[code] =>
               req[r].at = "marking" /\ req[r].code = code,
           \A code \in Codes : CodeOK(code)',
           RequestOK(r)'
    PROVE  BookInv'
<1>1. BookTypes /\ PairTypeOK /\ req[r] \in RequestStates
  BY DEF BookInv, PairInv, PairTypeOK
<1>2. req[r].at = "issuer" => req[r].code \in Codes /\ req[r].code \in shown
  BY RequestTypes DEF Placed, Redeeming, Holding
<1>3. BookTypes'
  <2>1. owner' \in [Codes -> Logins \cup {NoLogin}]
    BY <1>1 DEF BookTypes, Noted, RequestStates
  <2>2. takenAt' \in [Codes -> Nat]
    BY <1>1 DEF BookTypes, Noted, PairTypeOK
  <2>3. paired' \subseteq Codes
    BY <1>1, <1>2 DEF BookTypes, Noted
  <2>4. start'[r] \in [over : BOOLEAN, redeemed : BOOLEAN]
    BY <1>1 DEF BookTypes, Noted, Unstarted
  <2>5. start' \in [Requests -> [over : BOOLEAN, redeemed : BOOLEAN]]
    <3>1. \A other \in Requests \ {r} : start'[other] \in {start[other], Unstarted}
      BY DEF Noted
    <3>2. Unstarted \in [over : BOOLEAN, redeemed : BOOLEAN]
      BY DEF Unstarted
    <3>3. \A other \in Requests : start'[other] \in [over : BOOLEAN, redeemed : BOOLEAN]
      BY <1>1, <2>4, <3>1, <3>2 DEF BookTypes
    <3>4. start' = [other \in Requests |-> start'[other]]
      BY DEF Noted
    <3> QED
      BY <3>3, <3>4
  <2> QED
    BY <2>1, <2>2, <2>3, <2>5 DEF BookTypes
<1>4. \A code \in Codes : code \in paired => code \in drawn /\ ~ Present(pair[code])
  BY <1>1 DEF BookInv, CodeOK, PairTypeOK
<1>5. \A code \in drawn : code \in Codes /\ owner'[code] = owner[code]
  BY <1>1 DEF Noted, PairTypeOK
<1>6. \A code \in paired : takenAt'[code] = takenAt[code]
  BY <1>3, <1>4 DEF Noted, BookTypes
<1>7. Forward
  <2>1. paired \subseteq paired' /\ now <= now'
    BY <1>1 DEF Noted, PairTypeOK
  <2>2. \A code \in drawn : ~ Lives(owner[code]) => ~ Lives(owner[code])'
    BY <1>5 DEF Lives
  <2> QED
    BY <1>5, <1>6, <2>1, <2>2 DEF Forward
<1>8. ASSUME NEW other \in Requests, other # r PROVE RequestOK(other)'
  <2> DEFINE y == req[other]
  <2>1. y.at \in Holding =>
           /\ y.code \in Codes /\ y.code \notin paired /\ ~ Present(pair[y.code])
           /\ (req[r].at \in Holding => req[r].code # y.code)
    <3>1. RequestOK(other)
      BY DEF BookInv
    <3>2. y.at \in Holding => y.code \notin paired
      BY <3>1 DEF RequestOK, LoginOK
    <3>3. y.at \in Holding => y.code \in Codes
      BY RequestTypes DEF Redeeming
    <3>4. y.at \in Holding => /\ ~ Present(pair[y.code])
                             /\ (req[r].at \in Holding => req[r].code # y.code)
      BY <1>8 DEF PairInv, HeldOnce
    <3> QED
      BY <3>2, <3>3, <3>4
  <2>2. y.at \in Holding =>
           /\ y.code \notin paired'
           /\ takenAt'[y.code] = takenAt[y.code]
           /\ pairUsed'[y.code] = pairUsed[y.code]
    BY <2>1 DEF Noted, Holding
  <2>3. req'[other] = req[other] /\ now' \in Nat
    BY <1>1, <1>8 DEF PairTypeOK
  <2>4. start'[other] \in {start[other], Unstarted}
    BY <1>8 DEF Noted
  <2> QED
    BY <1>7, <2>2, <2>3, <2>4, OtherKeeps
<1> QED
  BY <1>3, <1>8 DEF BookInv

\* A step that touches no key, and neither draws nor takes a code nor ends in a
\* token, keeps the books when what it makes of its request agrees with them.
LEMMA QuietKeepsBooks ==
    ASSUME PairInv, PairInv', BookInv, MCNext, NEW r \in Requests, NEW x \in RequestStates,
           req' = [req EXCEPT ![r] = x],
           UNCHANGED <<now, live, logins, keyVars, drawn, shown>>,
           x.at \notin {"setting", "marking"},
           x.at = "answered" => (req[r].at = "answered" \/ x.answer # "token"),
           NEW began,
           began = IF req[r].at = "free" /\ x.at # "free" /\ x.code # NoCode
                   THEN [over |-> ~ Lives(owner[x.code]), redeemed |-> x.code \in paired]
                   ELSE IF req[r].at = "answered" THEN Unstarted ELSE start[r],
           KindOK(x), LoginOK(x), StartOK(x, began), x.at = "answered" => Truly(x, began)
    PROVE  BookInv'
<1>1. Noted(r, x)
  BY StepIsNoted
<1>2. UNCHANGED <<now, live, logins, pair, pairExp, pairUsed, drawn, shown>>
  BY DEF keyVars
<1>3. UNCHANGED <<owner, takenAt, paired>> /\ start'[r] = began
  BY <1>1 DEF Noted, BookInv, BookTypes
<1>4. req'[r] = x
  BY DEF PairInv, PairTypeOK
<1>5. \A code \in Codes : CodeOK(code)'
  BY <1>2, <1>3 DEF BookInv, CodeOK, Present, Marked
<1>6. KindOK(x)' /\ LoginOK(x)' /\ StartOK(x, began)'
  BY <1>2, <1>3 DEF KindOK, LoginOK, StartOK, Lives, Marked
<1>7. x.at = "answered" => Truly(x, began)'
  BY <1>2, <1>3 DEF Truly
<1>8. RequestOK(r)'
  BY <1>3, <1>4, <1>6, <1>7 DEF RequestOK
<1> QED
  BY <1>1, <1>2, <1>5, <1>8, StepKeepsBooks

LEMMA BookedTypes ==
    ASSUME PairInv, BookInv, NEW r \in Requests
    PROVE  /\ req[r] \in RequestStates /\ Placed(req[r], drawn, shown)
           /\ req' \in [Requests -> RequestStates] => req'[r] \in RequestStates
           /\ KindOK(req[r]) /\ LoginOK(req[r]) /\ StartOK(req[r], start[r])
           /\ logins \subseteq Logins /\ shown \subseteq drawn /\ drawn \subseteq Codes
BY RequestTypes DEF BookInv, RequestOK, PairInv, PairTypeOK

LEMMA StartIsBooked ==
    ASSUME PairInv, PairInv', BookInv, MCNext, NEW r \in Requests,
           \/ \E login \in logins : RequestStart(r, login)
           \/ \E login \in logins, code \in shown : StatusStart(r, login, code)
           \/ \E code \in shown : ConsumeStart(r, code)
           \/ ConsumeEmpty(r)
           \/ Respond(r)
    PROVE  BookInv'
<1>1. UNCHANGED <<now, live, logins, keyVars, drawn, shown>>
  BY DEF RequestStart, StatusStart, ConsumeStart, Start, ConsumeEmpty, Respond
<1> DEFINE Begins(x) ==
        /\ req' = [req EXCEPT ![r] = x]
        /\ x.at \in {"guard", "taking", "answered", "free"}
        /\ x.at \in {"guard", "taking", "answered"} => req[r].at = "free"
        /\ x.at = "free" => req[r].at = "answered" /\ x.code = NoCode
        /\ x.at = "guard" => /\ x.kind \in {"request", "status"} /\ x.login \in logins
                             /\ x.kind = "request" => x.code = NoCode
                             /\ x.kind = "status" => x.code \in shown
        /\ x.at = "taking" => x.kind = "consume" /\ x.code \in shown
        /\ x.at = "answered" => /\ x.kind = "consume" /\ x.code = NoCode
                                /\ x.answer = "invalid"
<1>2. PICK x : Begins(x)
  <2>1. ASSUME NEW login \in logins, RequestStart(r, login)
        PROVE  Begins([Free EXCEPT !.at = "guard", !.kind = "request", !.login = login,
                                   !.code = NoCode])
    BY <2>1 DEF RequestStart, Start, Free, At
  <2>2. ASSUME NEW login \in logins, NEW code \in shown, StatusStart(r, login, code)
        PROVE  Begins([Free EXCEPT !.at = "guard", !.kind = "status", !.login = login,
                                   !.code = code])
    BY <2>2 DEF StatusStart, Start, Free, At
  <2>3. ASSUME NEW code \in shown, ConsumeStart(r, code)
        PROVE  Begins([Free EXCEPT !.at = "taking", !.kind = "consume", !.login = NoLogin,
                                   !.code = code])
    BY <2>3 DEF ConsumeStart, Start, Free, At
  <2>4. ASSUME ConsumeEmpty(r)
        PROVE  Begins([Free EXCEPT !.at = "answered", !.kind = "consume",
                                   !.answer = "invalid"])
    BY <2>4 DEF ConsumeEmpty, Free, At
  <2>5. ASSUME Respond(r) PROVE Begins(Free)
    BY <2>5 DEF Respond, Free, At
  <2> HIDE DEF Begins
  <2> QED
    BY <2>1, <2>2, <2>3, <2>4, <2>5
<1>3. x \in RequestStates
  <2>1. req'[r] = x
    BY <1>2 DEF PairInv, PairTypeOK
  <2>2. req'[r] \in RequestStates
    BY DEF PairInv, PairTypeOK
  <2> QED
    BY <2>1, <2>2
<1> DEFINE new == [over |-> ~ Lives(owner[x.code]), redeemed |-> x.code \in paired]
           began == IF req[r].at = "free" /\ x.at # "free" /\ x.code # NoCode THEN new
                    ELSE IF req[r].at = "answered" THEN Unstarted ELSE start[r]
<1>4. req[r].at = "free" => start[r] = Unstarted
  BY BookedTypes DEF StartOK
<1>5. x.code \in shown => x.code # NoCode
  BY BookedTypes, PairNullsAssumption
<1>6. began = IF x.code \in shown /\ x.at # "free" THEN new ELSE Unstarted
  BY <1>2, <1>4, <1>5
<1>7. StartOK(x, began)
  <2>1. x.at = "free" \/ x.kind = "request" => x.code \notin shown
    BY <1>2, <1>5
  <2>2. CASE began = Unstarted
    BY <2>2 DEF StartOK, Unstarted
  <2>3. x.code \in shown /\ x.at # "free" => StartOK(x, new)
    BY <2>1 DEF StartOK
  <2> QED
    BY <1>6, <2>2, <2>3
<1>8. KindOK(x) /\ LoginOK(x)
  BY <1>2 DEF KindOK, LoginOK, Writing, Holding
<1>9. x.at = "answered" => Truly(x, began)
  BY <1>2, <1>5, <1>6 DEF Truly
<1> HIDE DEF began
<1>10. PICK old : old = began
  OBVIOUS
<1> QED
  BY <1>1, <1>2, <1>3, <1>7, <1>8, <1>9, <1>10, QuietKeepsBooks DEF began

LEMMA AnswerIsBooked ==
    ASSUME PairInv, PairInv', BookInv, MCNext, NEW r \in Requests,
           NEW answer \in {"pending", "consumed", "invalid", "expired", "dead", "error"},
           Answer(r, answer), UNCHANGED <<now, live, logins, keyVars, drawn, shown>>,
           req[r].at \notin {"free", "answered"},
           (req[r].kind = "status" /\ start[r].redeemed
            /\ req[r].login.sub = owner[req[r].code].sub)
           => \/ answer \in {"consumed", "dead", "error"}
              \/ answer = "invalid" /\ now >= takenAt[req[r].code] + UsedTtl
    PROVE  BookInv'
<1>1. PICK x : /\ x = [req[r] EXCEPT !.at = "answered", !.answer = answer]
               /\ req' = [req EXCEPT ![r] = x]
  BY DEF Answer, PairInv, PairTypeOK
<1>2. PICK began : began = start[r]
  OBVIOUS
<1>3. /\ x \in RequestStates /\ x.at = "answered" /\ x.answer = answer
      /\ x.kind = req[r].kind /\ x.code = req[r].code /\ x.login = req[r].login
  BY ZenonT(60), <1>1, BookedTypes DEF RequestStates
<1>4. KindOK(x) /\ LoginOK(x)
  BY <1>3 DEF KindOK, LoginOK, Writing, Holding
<1>5. StartOK(x, began)
  BY <1>2, <1>3, BookedTypes DEF StartOK
<1>6. Truly(x, began)
  BY <1>2, <1>3 DEF Truly
<1> QED
  BY <1>1, <1>2, <1>3, <1>4, <1>5, <1>6, QuietKeepsBooks

LEMMA GotoIsBooked ==
    ASSUME PairInv, PairInv', BookInv, MCNext, NEW r \in Requests,
           NEW place \in {"reading", "status", "used", "missing"},
           Goto(r, place), UNCHANGED <<now, live, logins, keyVars, drawn, shown>>,
           req[r].at \notin {"free", "answered"},
           place = "reading" => req[r].kind = "request" /\ req[r].login \in logins,
           place \in {"status", "used"} => req[r].kind = "status"
    PROVE  BookInv'
<1>1. PICK x : /\ x = [req[r] EXCEPT !.at = place]
               /\ req' = [req EXCEPT ![r] = x]
  BY DEF Goto, PairInv, PairTypeOK
<1>2. PICK began : began = start[r]
  OBVIOUS
<1>3. /\ x \in RequestStates /\ x.at = place
      /\ x.kind = req[r].kind /\ x.code = req[r].code /\ x.login = req[r].login
  BY <1>1, BookedTypes DEF RequestStates
<1>4. KindOK(x) /\ LoginOK(x)
  BY <1>3 DEF KindOK, LoginOK, Writing, Holding
<1>5. StartOK(x, began)
  BY <1>2, <1>3, BookedTypes DEF StartOK
<1> QED
  BY <1>1, <1>2, <1>3, <1>4, <1>5, QuietKeepsBooks

LEMMA AnsweringIsBooked ==
    ASSUME PairInv, PairInv', BookInv, MCNext, NEW r \in Requests,
           Guard(r) \/ ReadExp(r) \/ StatusGet(r) \/ FindConsumed(r) \/ Fail(r)
    PROVE  BookInv'
<1>1. UNCHANGED <<now, live, logins, keyVars, drawn, shown>>
  BY DEF Guard, ReadExp, StatusGet, FindConsumed, Fail
<1>2. CASE Guard(r)
  <2>1. req[r].at = "guard" /\ req[r].login \in logins /\ req[r].kind \in {"request", "status"}
    BY <1>2, BookedTypes DEF Guard, At, KindOK, LoginOK
  <2>2. \/ Answer(r, "dead")
        \/ Goto(r, IF req[r].kind = "request" THEN "reading" ELSE "status")
    BY <1>2 DEF Guard
  <2> QED
    BY <1>1, <2>1, <2>2, AnswerIsBooked, GotoIsBooked
<1>3. CASE ReadExp(r)
  <2>1. req[r].at = "missing" /\ req[r].kind = "consume"
    BY <1>3, BookedTypes DEF ReadExp, At, Placed, Redeeming
  <2>2. Answer(r, "expired") \/ Answer(r, "invalid")
    BY <1>3 DEF ReadExp
  <2> QED
    BY <1>1, <2>1, <2>2, AnswerIsBooked
<1>4. CASE StatusGet(r)
  <2>1. req[r].at = "status" /\ req[r].kind = "status"
    BY <1>4, BookedTypes DEF StatusGet, At, KindOK
  <2>2. Present(pair[req[r].code]) => ~ start[r].redeemed
    BY BookedTypes DEF BookInv, BookTypes, StartOK, CodeOK
  <2>3. \/ Goto(r, "used")
        \/ /\ Answer(r, "pending") \/ Answer(r, "invalid")
           /\ ~ start[r].redeemed
    BY <1>4, <2>2 DEF StatusGet
  <2> QED
    BY <1>1, <2>1, <2>3, AnswerIsBooked, GotoIsBooked
<1>5. CASE FindConsumed(r)
  <2> DEFINE code == req[r].code
  <2>1. req[r].at = "used" /\ req[r].kind = "status"
    BY <1>5, BookedTypes DEF FindConsumed, At, KindOK
  <2>2. start[r].redeemed => code \in Codes /\ Marked(code)
    BY BookedTypes DEF BookInv, BookTypes, StartOK, CodeOK
  <2>3. CASE Present(pairUsed[code]) /\ Owns(r, pairUsed[code])
    BY <1>1, <1>5, <2>1, <2>3, AnswerIsBooked DEF FindConsumed
  <2>4. CASE ~ (Present(pairUsed[code]) /\ Owns(r, pairUsed[code]))
    <3>1. Answer(r, "invalid")
      BY <1>5, <2>4 DEF FindConsumed
    <3>2. (start[r].redeemed /\ req[r].login.sub = owner[code].sub)
          => now >= takenAt[code] + UsedTtl
      <4> SUFFICES ASSUME start[r].redeemed, req[r].login.sub = owner[code].sub
                   PROVE  now >= takenAt[code] + UsedTtl
        OBVIOUS
      <4>1. ~ (now < pairUsed[code].until) /\ pairUsed[code].until >= takenAt[code] + UsedTtl
        BY <2>2, <2>4 DEF Marked, Owns, Present
      <4>2. /\ now \in Nat /\ pairUsed[code].until \in Nat /\ takenAt[code] \in Nat
            /\ UsedTtl \in Nat
        BY <2>2, PairLifetimesAssumption DEF PairInv, PairTypeOK, Keys, BookInv, BookTypes
      <4> QED
        BY <4>1, <4>2
    <3> QED
      BY <1>1, <2>1, <3>1, <3>2, AnswerIsBooked
  <2> QED
    BY <2>3, <2>4
<1>6. CASE Fail(r)
  BY <1>1, <1>6, AnswerIsBooked DEF Fail
<1> QED
  BY <1>2, <1>3, <1>4, <1>5, <1>6

\* A key that is gone vouches for nothing.
LEMMA GoneKeysKeepCodes ==
    ASSUME PairInv, BookInv, UNCHANGED <<now, live, logins, pairUsed, drawn, shown>>,
           UNCHANGED <<owner, paired>>,
           \A code \in Codes : pair'[code] \in {pair[code], NoKey},
           \A code \in paired : takenAt'[code] = takenAt[code]
    PROVE  \A code \in Codes : CodeOK(code)'
<1> SUFFICES ASSUME NEW code \in Codes PROVE CodeOK(code)'
  OBVIOUS
<1>1. CodeOK(code) /\ now \in Nat
  BY DEF BookInv, PairInv, PairTypeOK
<1>2. Present(pair[code])' => Present(pair[code])
  BY <1>1, NoKeyType DEF Present
<1>3. code \in paired => Marked(code)'
  BY <1>1 DEF CodeOK, Marked
<1> QED
  BY <1>1, <1>2, <1>3 DEF CodeOK

LEMMA TakeIsBooked ==
    ASSUME PairInv, PairInv', BookInv, MCNext, NEW r \in Requests,
           Take(r) \/ TakeRejected(r)
    PROVE  BookInv'
<1> DEFINE code == req[r].code
<1>1. /\ req[r] \in RequestStates /\ req[r].kind = "consume"
      /\ req[r].at \in {"taking", "retaking"} /\ code \in Codes /\ code \in shown
      /\ LoginOK(req[r]) /\ StartOK(req[r], start[r])
  BY BookedTypes, RequestTypes DEF Take, TakeRejected, At, Placed, Redeeming
<1>2. /\ UNCHANGED <<now, live, logins, pairUsed, drawn, shown>>
      /\ \A other \in Codes : pair'[other] \in {pair[other], NoKey}
  BY <1>1 DEF Take, TakeRejected, TakePair, PairInv, PairTypeOK
<1>3. CodeOK(code) /\ owner \in [Codes -> Logins \cup {NoLogin}] /\ takenAt \in [Codes -> Nat]
      /\ now \in Nat /\ paired \subseteq Codes
  BY <1>1 DEF BookInv, BookTypes, PairInv, PairTypeOK
<1>4. ASSUME Take(r), Present(pair[code])
      PROVE  BookInv'
  <2>1. PICK x : /\ x = [req[r] EXCEPT !.at = "marking", !.login = pair[code].login]
                 /\ req' = [req EXCEPT ![r] = x]
    BY <1>4 DEF Take, TakePair, PairInv, PairTypeOK
  <2>2. pair[code].login \in Logins \cup {NoLogin}
    BY <1>1 DEF PairInv, PairTypeOK, Keys
  <2>3. /\ x \in RequestStates /\ x.at = "marking" /\ x.kind = "consume"
        /\ x.code = code /\ x.login = pair[code].login
    BY <1>1, <2>1, <2>2 DEF RequestStates
  <2>4. Noted(r, x)
    BY <2>1, <2>3, StepIsNoted
  <2>5. UNCHANGED <<owner, paired>> /\ start'[r] = start[r]
    BY <1>1, <1>3, <2>3, <2>4 DEF Noted
  <2>6. /\ takenAt'[code] = now
        /\ \A other \in Codes \ {code} : takenAt'[other] = takenAt[other]
    BY <1>1, <1>3, <2>3, <2>4 DEF Noted
  <2>7. code \notin paired /\ pair[code].login = owner[code]
    BY <1>3, <1>4, NoKeyType DEF CodeOK, Present
  <2>8. \A other \in Codes : CodeOK(other)'
    BY <1>2, <1>3, <2>5, <2>6, <2>7, GoneKeysKeepCodes
  <2>9. req'[r] = x
    BY <2>1 DEF PairInv, PairTypeOK
  <2>10. LoginOK(x)'
    BY <1>2, <1>3, <2>3, <2>5, <2>6, <2>7 DEF LoginOK, Writing, Holding
  <2>11. KindOK(x)' /\ StartOK(x, start[r])
    BY <1>1, <2>3 DEF KindOK, StartOK, Writing
  <2>12. PICK began : began = start[r]
    OBVIOUS
  <2>13. StartOK(x, began)'
    BY <1>2, <2>5, <2>11, <2>12 DEF StartOK, Lives
  <2>14. RequestOK(r)'
    BY <2>3, <2>5, <2>9, <2>10, <2>11, <2>12, <2>13 DEF RequestOK
  <2> QED
    BY <1>1, <1>2, <1>4, <2>1, <2>3, <2>4, <2>8, <2>14, StepKeepsBooks
<1>5. ASSUME NEW place \in {"retaking", "missing"}, Goto(r, place)
      PROVE  BookInv'
  <2>1. PICK x : /\ x = [req[r] EXCEPT !.at = place]
                 /\ req' = [req EXCEPT ![r] = x]
    BY <1>5 DEF Goto, PairInv, PairTypeOK
  <2>2. /\ x \in RequestStates /\ x.at = place /\ x.kind = "consume"
        /\ x.code = code /\ x.login = req[r].login
    BY <1>1, <2>1 DEF RequestStates
  <2>3. Noted(r, x)
    BY <2>1, <2>2, StepIsNoted
  <2>4. UNCHANGED <<owner, takenAt, paired>> /\ start'[r] = start[r]
    BY <1>1, <1>3, <2>2, <2>3 DEF Noted
  <2>5. \A other \in Codes : CodeOK(other)'
    BY <1>2, <2>4, GoneKeysKeepCodes
  <2>6. req'[r] = x
    BY <2>1 DEF PairInv, PairTypeOK
  <2>7. LoginOK(x)' /\ KindOK(x)' /\ StartOK(x, start[r])
    BY <1>1, <2>2 DEF LoginOK, KindOK, StartOK, Writing, Holding
  <2>8. PICK began : began = start[r]
    OBVIOUS
  <2>9. StartOK(x, began)'
    BY <1>2, <2>4, <2>7, <2>8 DEF StartOK, Lives
  <2>10. RequestOK(r)'
    BY <2>2, <2>4, <2>6, <2>7, <2>8, <2>9 DEF RequestOK
  <2> QED
    BY <1>1, <1>2, <2>1, <2>2, <2>3, <2>5, <2>10, StepKeepsBooks
<1> QED
  BY <1>4, <1>5 DEF Take, TakeRejected, TakePair

LEMMA SetUsedIsBooked ==
    ASSUME PairInv, PairInv', BookInv, MCNext, NEW r \in Requests, SetUsed(r)
    PROVE  BookInv'
<1>0. PICK code : code = req[r].code
  OBVIOUS
<1>1. /\ req[r] \in RequestStates /\ req[r].kind = "consume"
      /\ req[r].at = "marking" /\ code \in Codes /\ code \in shown
      /\ LoginOK(req[r]) /\ StartOK(req[r], start[r])
  BY <1>0, BookedTypes, RequestTypes DEF SetUsed, At, Placed, Redeeming, Holding
<1>2. /\ UNCHANGED <<now, live, logins, pair, drawn, shown>>
      /\ pairUsed'[code] = [login |-> req[r].login, until |-> now + UsedTtl]
      /\ \A other \in Codes \ {code} : pairUsed'[other] = pairUsed[other]
  BY <1>0, <1>1 DEF SetUsed, PairInv, PairTypeOK
<1>3. owner \in [Codes -> Logins \cup {NoLogin}] /\ takenAt \in [Codes -> Nat]
      /\ now \in Nat /\ paired \subseteq Codes
  BY DEF BookInv, BookTypes, PairInv, PairTypeOK
<1>4. PICK x : /\ x = [req[r] EXCEPT !.at = "issuer"]
               /\ req' = [req EXCEPT ![r] = x]
  BY DEF SetUsed, Goto, PairInv, PairTypeOK
<1>5. /\ x \in RequestStates /\ x.at = "issuer" /\ x.kind = "consume"
      /\ x.code = code /\ x.login = req[r].login
  BY <1>0, <1>1, <1>4 DEF RequestStates
<1>6. Noted(r, x)
  BY <1>4, <1>5, StepIsNoted
<1>7. UNCHANGED <<owner, takenAt, paired>> /\ start'[r] = start[r]
  BY <1>0, <1>1, <1>3, <1>5, <1>6 DEF Noted
<1>8. code \notin paired /\ req[r].login = owner[code] /\ takenAt[code] <= now
  BY <1>0, <1>1 DEF LoginOK, Writing, Holding
<1>9. Marked(code)'
  <2>1. now + UsedTtl >= takenAt[code] + UsedTtl
    BY <1>0, <1>1, <1>3, <1>8, PairLifetimesAssumption
  <2> QED
    BY <1>2, <1>7, <1>8, <2>1 DEF Marked
<1>10. ASSUME NEW other \in Codes PROVE CodeOK(other)'
  <2>1. CodeOK(other)
    BY DEF BookInv
  <2> QED
    BY <1>2, <1>7, <1>8, <2>1 DEF CodeOK, Marked, Present
<1>11. req'[r] = x
  BY <1>4 DEF PairInv, PairTypeOK
<1>12. LoginOK(x)'
  BY <1>2, <1>5, <1>7, <1>8, <1>9 DEF LoginOK, Writing, Holding
<1>13. KindOK(x)' /\ StartOK(x, start[r])
  BY <1>0, <1>1, <1>5 DEF KindOK, StartOK, Writing
<1>14. PICK began : began = start[r]
  OBVIOUS
<1>15. StartOK(x, began)'
  BY <1>2, <1>7, <1>13, <1>14 DEF StartOK, Lives
<1>16. RequestOK(r)'
  BY <1>5, <1>7, <1>11, <1>12, <1>13, <1>14, <1>15 DEF RequestOK
<1> QED
  BY <1>0, <1>1, <1>2, <1>4, <1>5, <1>6, <1>10, <1>16, StepKeepsBooks

\* The token is of the owner's session, which is alive, so it was alive when the
\* redemption began: a session that is over is never signed in again.
LEMMA ReadIssuerIsBooked ==
    ASSUME PairInv, PairInv', BookInv, MCNext, NEW r \in Requests, ReadIssuer(r)
    PROVE  BookInv'
<1> DEFINE code == req[r].code
<1>1. /\ req[r] \in RequestStates /\ req[r].kind = "consume"
      /\ req[r].at = "issuer" /\ code \in Codes /\ code \in shown
      /\ LoginOK(req[r]) /\ StartOK(req[r], start[r])
  BY BookedTypes, RequestTypes DEF ReadIssuer, At, Placed, Redeeming, Holding
<1>2. /\ UNCHANGED <<now, live, logins, keyVars, drawn, shown>>
      /\ UNCHANGED <<pair, pairUsed>>
  BY DEF ReadIssuer, keyVars
<1>3. CASE Answer(r, "dead")
  BY <1>1, <1>2, <1>3, AnswerIsBooked
<1>4. ASSUME live[req[r].login.sub] = req[r].login.generation, Answer(r, "token")
      PROVE  BookInv'
  <2>1. PICK x : /\ x = [req[r] EXCEPT !.at = "answered", !.answer = "token"]
                 /\ req' = [req EXCEPT ![r] = x]
    BY <1>4 DEF Answer, PairInv, PairTypeOK
  <2>2. /\ x \in RequestStates /\ x.at = "answered" /\ x.kind = "consume"
        /\ x.code = code /\ x.login = req[r].login /\ x.answer = "token"
    BY <1>1, <2>1 DEF RequestStates
  <2>3. Noted(r, x)
    BY <2>1, <2>2, StepIsNoted
  <2>4. /\ UNCHANGED <<owner, takenAt>> /\ start'[r] = start[r]
        /\ paired' = paired \cup {code}
    BY <1>1, <2>2, <2>3 DEF Noted, BookInv, BookTypes
  <2>5. x.login = owner[code] /\ Marked(code) /\ ~ Present(pair[code])
    BY <1>1, <2>2 DEF LoginOK, Writing, Holding, PairInv, HeldOnce
  <2>6. ASSUME NEW other \in Codes PROVE CodeOK(other)'
    <3>1. CodeOK(other)
      BY DEF BookInv
    <3> QED
      BY <1>1, <1>2, <2>4, <2>5, <3>1 DEF CodeOK, Marked, Present
  <2>7. req'[r] = x
    BY <2>1 DEF PairInv, PairTypeOK
  <2>8. LoginOK(x)' /\ KindOK(x)'
    BY <2>2 DEF LoginOK, KindOK, Writing, Holding
  <2>9. PICK began : began = start[r]
    OBVIOUS
  <2>10. StartOK(x, began)
    BY <1>1, <2>2, <2>9 DEF StartOK
  <2>11. StartOK(x, began)'
    BY <1>2, <2>4, <2>10 DEF StartOK, Lives
  <2>12. x.code \in drawn' /\ x.login = owner'[x.code] /\ ~ began.over
    BY <1>1, <1>2, <1>4, <2>2, <2>4, <2>5, <2>10, BookedTypes DEF StartOK, Lives
  <2>13. Truly(x, began)'
    BY <2>2, <2>12 DEF Truly
  <2>14. RequestOK(r)'
    BY <2>4, <2>7, <2>8, <2>9, <2>11, <2>13 DEF RequestOK
  <2> QED
    BY <1>1, <1>2, <2>1, <2>2, <2>3, <2>6, <2>14, StepKeepsBooks
<1> QED
  BY <1>3, <1>4 DEF ReadIssuer, ReadsLive

LEMMA RequestReadIsBooked ==
    ASSUME PairInv, PairInv', BookInv, MCNext, NEW r \in Requests, RequestRead(r)
    PROVE  BookInv'
<1>1. /\ req[r] \in RequestStates /\ req[r].at = "reading" /\ req[r].kind = "request"
      /\ req[r].login \in logins /\ start[r] = Unstarted
  BY BookedTypes DEF RequestRead, At, KindOK, LoginOK, StartOK
<1>2. UNCHANGED <<now, live, logins, keyVars, shown>> /\ UNCHANGED <<pair, pairUsed>>
  BY DEF RequestRead, keyVars
<1>3. CASE Answer(r, "dead") /\ UNCHANGED drawn
  BY <1>1, <1>2, <1>3, AnswerIsBooked
<1>4. ASSUME NEW code \in Codes \ drawn, drawn' = drawn \cup {code},
             req' = [req EXCEPT ![r].at = "setting", ![r].code = code]
      PROVE  BookInv'
  <2>1. PICK x : /\ x = [req[r] EXCEPT !.at = "setting", !.code = code]
                 /\ req' = [req EXCEPT ![r] = x]
    BY <1>4 DEF PairInv, PairTypeOK
  <2>2. /\ x \in RequestStates /\ x.at = "setting" /\ x.kind = "request"
        /\ x.code = code /\ x.login = req[r].login
    BY <1>1, <2>1 DEF RequestStates
  <2>3. Noted(r, x)
    BY <2>1, <2>2, StepIsNoted
  <2>4. /\ UNCHANGED <<takenAt, paired>> /\ start'[r] = Unstarted
        /\ owner'[code] = x.login
        /\ \A other \in Codes \ {code} : owner'[other] = owner[other]
    BY <1>1, <2>2, <2>3 DEF Noted, BookInv, BookTypes
  <2>5. ASSUME NEW other \in Codes PROVE CodeOK(other)'
    <3>1. CodeOK(other) /\ (other \in shown => other \in drawn)
      BY BookedTypes DEF BookInv
    <3> QED
      BY <1>1, <1>2, <1>4, <2>2, <2>4, <3>1 DEF CodeOK, Marked, Present
  <2>6. req'[r] = x
    BY <2>1 DEF PairInv, PairTypeOK
  <2>7. LoginOK(x)' /\ KindOK(x)'
    BY <2>2, <2>4 DEF LoginOK, KindOK, Writing, Holding
  <2>8. StartOK(x, Unstarted)'
    BY DEF StartOK, Unstarted
  <2>9. RequestOK(r)'
    BY <2>2, <2>4, <2>6, <2>7, <2>8 DEF RequestOK
  <2> QED
    BY <1>1, <1>2, <1>4, <2>1, <2>2, <2>3, <2>5, <2>9, StepKeepsBooks
<1> QED
  BY <1>3, <1>4 DEF RequestRead

LEMMA WritingIsBooked ==
    ASSUME PairInv, PairInv', BookInv, MCNext, NEW r \in Requests, SetPair(r) \/ SetExp(r)
    PROVE  BookInv'
<1>0. PICK code : code = req[r].code
  OBVIOUS
<1>1. /\ req[r] \in RequestStates /\ req[r].at \in Writing /\ req[r].kind = "request"
      /\ code \in drawn /\ code \notin shown /\ code \in Codes
      /\ req[r].login = owner[code] /\ start[r] = Unstarted
  BY <1>0, BookedTypes, RequestTypes
     DEF SetPair, SetExp, At, KindOK, LoginOK, StartOK, Placed, Writing
<1>2. UNCHANGED <<now, live, logins, pairUsed, drawn>> /\ shown \subseteq shown'
  BY DEF SetPair, SetExp
<1>3. /\ \A other \in Codes \ {code} : pair'[other] = pair[other]
      /\ pair'[code] = pair[code] \/ pair'[code].login = req[r].login
  BY <1>0, <1>1 DEF SetPair, SetExp, PairInv, PairTypeOK
<1>4. PICK x : /\ \/ x = [req[r] EXCEPT !.at = "setting-exp"]
                  \/ x = [req[r] EXCEPT !.at = "answered", !.answer = "code"]
               /\ req' = [req EXCEPT ![r] = x]
  BY DEF SetPair, SetExp, Goto, Answer, PairInv, PairTypeOK
<1>5. /\ x \in RequestStates /\ x.kind = "request" /\ x.code = code
      /\ x.login = req[r].login
      /\ x.at = "setting-exp" \/ (x.at = "answered" /\ x.answer = "code")
  <2>1. CASE x = [req[r] EXCEPT !.at = "setting-exp"]
    BY <1>0, <1>1, <2>1 DEF RequestStates
  <2>2. CASE x = [req[r] EXCEPT !.at = "answered", !.answer = "code"]
    BY <1>0, <1>1, <2>2 DEF RequestStates
  <2> QED
    BY <1>4, <2>1, <2>2
<1>6. Noted(r, x)
  BY <1>4, <1>5, StepIsNoted
<1>7. UNCHANGED <<owner, takenAt, paired>> /\ start'[r] = Unstarted
  BY <1>1, <1>5, <1>6 DEF Noted, BookInv, BookTypes, Writing
<1>8. ASSUME NEW other \in Codes PROVE CodeOK(other)'
  <2>1. CodeOK(other)
    BY DEF BookInv
  <2> QED
    BY <1>1, <1>2, <1>3, <1>7, <2>1 DEF CodeOK, Marked, Present
<1>9. req'[r] = x
  BY <1>4 DEF PairInv, PairTypeOK
<1>10. LoginOK(x)' /\ KindOK(x)'
  BY <1>1, <1>5, <1>7 DEF LoginOK, KindOK, Writing, Holding
<1>11. StartOK(x, Unstarted)'
  BY DEF StartOK, Unstarted
<1>12. x.at = "answered" => Truly(x, Unstarted)'
  BY <1>5 DEF Truly, Unstarted
<1>13. RequestOK(r)'
  BY <1>7, <1>9, <1>10, <1>11, <1>12 DEF RequestOK
<1> QED
  BY <1>1, <1>2, <1>4, <1>5, <1>6, <1>8, <1>13, StepKeepsBooks DEF Writing

\* A login draws a generation that no login had, so what is over stays over.
LEMMA AroundIsBooked ==
    ASSUME PairInv, BookInv, MCNext,
           \/ \E sub \in Subs : End(sub)
           \/ \E sub \in Subs, generation \in Generations : Login(sub, generation)
           \/ Tick
    PROVE  BookInv'
<1>1. UNCHANGED <<keyVars, drawn, shown, req>> /\ UNCHANGED <<pair, pairUsed>>
      /\ now' \in {now, now + 1} /\ logins \subseteq logins'
  BY DEF End, Login, Tick, keyVars
<1>2. now \in Nat /\ drawn \subseteq Codes /\ logins \subseteq Logins
      /\ live \in [Subs -> Generations \cup {NoGeneration}]
      /\ pair \in [Codes -> Keys] /\ req \in [Requests -> RequestStates]
  BY DEF PairInv, PairTypeOK
<1>3. BookTypes /\ \A code \in Codes : CodeOK(code)
  BY DEF BookInv
<1>4. \A r \in Requests : ~ Drawing(r) /\ ~ Takes(r) /\ ~ Pairs(r) /\ ~ Starts(r)
  BY <1>1 DEF Drawing, Takes, Pairs, Starts, At
<1>5. UNCHANGED <<owner, takenAt, paired>>
  <2>1. owner' = [code \in Codes |-> owner[code]]
    BY <1>4 DEF MCNext
  <2>2. takenAt' = [code \in Codes |-> takenAt[code]]
    BY <1>4 DEF MCNext
  <2>3. {req[r].code : r \in {x \in Requests : Pairs(x)}} = {}
    BY <1>4
  <2>4. paired' = paired
    BY <2>3 DEF MCNext
  <2> QED
    BY <1>3, <2>1, <2>2, <2>4 DEF BookTypes
<1>6. start' = [r \in Requests |-> start'[r]]
      /\ \A r \in Requests : start'[r] \in {start[r], Unstarted}
  BY <1>4 DEF MCNext
<1>7. BookTypes'
  <2>1. Unstarted \in [over : BOOLEAN, redeemed : BOOLEAN]
    BY DEF Unstarted
  <2>2. \A r \in Requests : start'[r] \in [over : BOOLEAN, redeemed : BOOLEAN]
    BY <1>3, <1>6, <2>1 DEF BookTypes
  <2>3. start' \in [Requests -> [over : BOOLEAN, redeemed : BOOLEAN]]
    BY <1>6, <2>2
  <2> QED
    BY <1>3, <1>5, <2>3 DEF BookTypes
<1>8. ASSUME NEW code \in drawn, ~ Lives(owner[code]) PROVE ~ Lives(owner[code])'
  <2>1. owner[code] \in logins /\ owner[code] \in Logins
    BY <1>2, <1>3 DEF CodeOK
  <2>2. owner[code].sub \in Subs /\ owner[code].generation \in Generations
    BY <2>1 DEF Logins
  <2>3. CASE \E sub \in Subs : End(sub)
    BY <1>2, <1>5, <1>8, <2>2, <2>3, PairNullsAssumption DEF End, Lives
  <2>4. CASE \E sub \in Subs, generation \in Generations : Login(sub, generation)
    BY <1>2, <1>5, <1>8, <2>1, <2>2, <2>4 DEF Login, Lives
  <2>5. CASE Tick
    BY <1>5, <1>8, <2>5 DEF Tick, Lives
  <2> QED
    BY <2>3, <2>4, <2>5
<1>9. Forward
  BY <1>1, <1>2, <1>5, <1>8 DEF Forward
<1>10. \A code \in Codes : CodeOK(code)'
  BY <1>1, <1>2, <1>3, <1>5 DEF CodeOK, Present, Marked, Keys
<1>11. ASSUME NEW r \in Requests PROVE RequestOK(r)'
  <2>1. PICK x, began : x = req[r] /\ began = start'[r]
    OBVIOUS
  <2>2. LoginOK(x)
    BY <2>1 DEF BookInv, RequestOK
  <2>3. x.at \in Holding => x.code \notin paired'
    BY <1>5, <2>2 DEF LoginOK
  <2>4. x = req'[r] /\ began \in {start[r], Unstarted} /\ now' \in Nat
    BY <1>1, <1>2, <1>6, <2>1
  <2> QED
    BY <1>1, <1>5, <1>9, <2>1, <2>3, <2>4, OtherKeeps
<1> QED
  BY <1>7, <1>10, <1>11 DEF BookInv

LEMMA BooksInitially == MCInit => BookInv
<1> SUFFICES ASSUME MCInit PROVE BookInv
  OBVIOUS
<1>1. BookTypes
  BY DEF MCInit, BookTypes, Unstarted
<1>2. \A code \in Codes : CodeOK(code)
  BY DEF MCInit, PairInit, CodeOK
<1>3. \A r \in Requests : RequestOK(r)
  BY FreeType DEF MCInit, PairInit, RequestOK, KindOK, LoginOK, StartOK, Unstarted,
                  Writing, Holding
<1> QED
  BY <1>1, <1>2, <1>3 DEF BookInv

LEMMA BooksStepKeeps == PairInv /\ PairInv' /\ BookInv /\ [MCNext]_MCVars => BookInv'
<1> SUFFICES ASSUME PairInv, PairInv', BookInv, [MCNext]_MCVars PROVE BookInv'
  OBVIOUS
<1>1. CASE UNCHANGED MCVars
  BY <1>1 DEF MCVars, pairVars, keyVars, BookInv, BookTypes, CodeOK, RequestOK, KindOK,
              LoginOK, StartOK, Truly, Marked, Lives, Present
<1>2. CASE MCNext
  <2>1. ASSUME NEW r \in Requests, RequestStep(r) PROVE BookInv'
    BY <1>2, <2>1, StartIsBooked, AnsweringIsBooked, TakeIsBooked, SetUsedIsBooked,
       ReadIssuerIsBooked, RequestReadIsBooked, WritingIsBooked DEF RequestStep
  <2> QED
    BY <1>2, <2>1, AroundIsBooked DEF MCNext, PairNext
<1> QED
  BY <1>1, <1>2

\* Of every code and every request, what MCPairing remembers is true.
THEOREM BooksInvariant == MCSpec => [](PairInv /\ BookInv)
<1>1. MCInit => PairInv /\ BookInv
  BY PairInitially, BooksInitially DEF MCInit
<1>2. PairInv /\ BookInv /\ [MCNext]_MCVars => PairInv' /\ BookInv'
  <2>1. [MCNext]_MCVars => [PairNext]_pairVars
    BY DEF MCNext, MCVars
  <2> QED
    BY <2>1, PairStepKeeps, BooksStepKeeps
<1> QED
  BY <1>1, <1>2, PTL DEF MCSpec

\* A device gets a token of the session the code was asked for under, and of no
\* login that replaced it or session that was over when the code was sent, for
\* any identities, codes, requests and renewals that hide a live session.
THEOREM PairedWithTheIssuer == MCSpec => []PairsWithTheIssuingSession
<1>1. BookInv => PairsWithTheIssuingSession
  BY DEF BookInv, RequestOK, Truly, PairsWithTheIssuingSession, Answered, At
<1> QED
  BY <1>1, BooksInvariant, PTL

\* A poll of the owner that starts after a device was paired is answered
\* `consumed` as long as CONSUMED_TOMBSTONE_TTL_MS lasts, never `pending`.
THEOREM OwnersLearn == MCSpec => []OwnerLearnsOfPairing
<1>1. BookInv => OwnerLearnsOfPairing
  BY DEF BookInv, RequestOK, Truly, OwnerLearnsOfPairing, Answered, At
<1> QED
  BY <1>1, BooksInvariant, PTL

=============================================================================
