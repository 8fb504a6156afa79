----------------------------- MODULE MCPairing -----------------------------
(* Pairing, remembering who each code was drawn for, which tokens it was    *)
(* redeemed for, and how things stood when a request started.               *)
EXTENDS Pairing, TLC

VARIABLES owner,    \* owner[code]: the login it was drawn for
          takenAt,  \* takenAt[code]: when it was redeemed
          paired,   \* the codes that were redeemed for a token
          start     \* start[r]: was the owner's session over, the code redeemed?

MCVars == <<pairVars, owner, takenAt, paired, start>>

Unstarted == [over |-> FALSE, redeemed |-> FALSE]

MCInit ==
    /\ PairInit
    /\ owner = [code \in Codes |-> NoLogin]
    /\ takenAt = [code \in Codes |-> 0]
    /\ paired = {}
    /\ start = [r \in Requests |-> Unstarted]

Drawing(r) == At(r, "reading") /\ req'[r].at = "setting"
Takes(r) == ~ At(r, "marking") /\ req'[r].at = "marking"
Pairs(r) == ~ At(r, "answered") /\ req'[r].at = "answered" /\ req'[r].answer = "token"
Starts(r) == At(r, "free") /\ ~ At(r, "free")' /\ req'[r].code # NoCode

MCNext ==
    /\ PairNext
    /\ owner' = [code \in Codes |->
          IF \E r \in Requests : Drawing(r) /\ req'[r].code = code
          THEN req'[CHOOSE r \in Requests : Drawing(r)].login ELSE owner[code]]
    /\ takenAt' = [code \in Codes |->
          IF \E r \in Requests : Takes(r) /\ req[r].code = code THEN now ELSE takenAt[code]]
    /\ paired' = paired \cup {req[r].code : r \in {x \in Requests : Pairs(x)}}
    /\ start' = [r \in Requests |->
          IF Starts(r)
          THEN LET code == req'[r].code IN
               [over |-> live[owner[code].sub] # owner[code].generation,
                redeemed |-> code \in paired]
          ELSE IF At(r, "answered") THEN Unstarted ELSE start[r]]

MCSpec == MCInit /\ [][MCNext]_MCVars

MCSymmetry == Permutations(Codes) \cup Permutations(Requests)

Answered(r, kind) == At(r, "answered") /\ req[r].kind = kind

(* A code pairs a device with the session it was asked for under and with   *)
(* no other: not with the login that replaced it, and not with a session    *)
(* that was over when the device sent the code.                             *)
PairsWithTheIssuingSession ==
    \A r \in Requests :
        (Answered(r, "consume") /\ req[r].answer = "token")
        => req[r].login = owner[req[r].code] /\ ~ start[r].over

(* The web page polls for `consumed`: a poll of the owner that starts after *)
(* a device was paired never shows the code as pending again, and answers   *)
(* `consumed` for CONSUMED_TOMBSTONE_TTL_MS from its redemption.            *)
OwnerLearnsOfPairing ==
    \A r \in Requests :
        (Answered(r, "status") /\ start[r].redeemed
         /\ req[r].login.sub = owner[req[r].code].sub)
        => \/ req[r].answer \in {"consumed", "dead", "error"}
           \/ req[r].answer = "invalid" /\ now >= takenAt[req[r].code] + UsedTtl

(* What pairing.service.ts and its test say of a second redemption: an      *)
(* already used code is answered INVALID_CODE.                              *)
UsedCodeIsInvalid ==
    \A r \in Requests :
        (Answered(r, "consume") /\ start[r].redeemed)
        => req[r].answer \in {"invalid", "error"}

=============================================================================
