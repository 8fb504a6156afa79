--------------------------- MODULE MCAuthSessions ---------------------------
(***************************************************************************)
(* The two ways of signing in, for TLC: AuthSessions, with a history of    *)
(* what happened to the record while a request was being served, and, in   *)
(* behaviours of its own, the development sign-ins of LegacyAuth.          *)
(***************************************************************************)
EXTENDS AuthSessions, LegacyAuth, TLC

CONSTANTS fresh, other

MCCaptures == {[ssoCookie |-> fresh, kulonCookie |-> fresh, siapCookie |-> fresh,
                other |-> other]}

VARIABLES seen,   \* seen[h]: the record as it went by while h served its request
          signIns \* which of the two a behaviour is of: "handoff" or "legacy"

mcVars == <<authVars, legacyVars, seen, signIns>>

Symmetry == Permutations(Handlers) \cup Permutations(Generations)
                \cup Permutations(People) \cup Permutations(Windows)
                \cup Permutations(States) \cup Permutations(Callbacks)

\* began: the record was live under the token's generation when the request
\* began; moved: how often others changed it since (2: or more); foreign: one of
\* those changes was more than a new cookie of the other service; held: since
\* upstream validated the new cookie, the live record has had it; capped: the record
\* has been past its absolute cap since the request began.
Unseen == [began |-> FALSE, moved |-> 0, foreign |-> FALSE, held |-> FALSE,
           capped |-> FALSE]

MCInit ==
    /\ AuthInit /\ seen = [h \in Handlers |-> Unseen]
    /\ LegacyInit
    /\ signIns \in {"handoff", "legacy"}

Holds(h) ==
    /\ req[h].field \in Services
    /\ RecordGeneration = {req[h].generation}
    /\ Record[req[h].field] = req[h].cookie

OnlyOtherServiceChanged(h) ==
    /\ req[h].field \in Services
    /\ Record # NoSession
    /\ Record' # NoSession
    /\ LET o == OtherService(req[h].field) IN Record' = [Record EXCEPT ![o] = Record'[o]]

Saw(h) ==
    LET own == client[h].pc \in Commands /\ client'[h].pc = "done"
        byOthers == redis' # redis /\ ~ own IN
    IF req'[h].at = "free" THEN Unseen
    ELSE IF req[h].at = "free"
    THEN [Unseen EXCEPT !.began = (RecordGeneration = {req'[h].generation})]
    ELSE [began   |-> seen[h].began,
          moved   |-> IF byOthers /\ seen[h].moved < 2 THEN seen[h].moved + 1
                      ELSE seen[h].moved,
          foreign |-> seen[h].foreign \/ (byOthers /\ ~ OnlyOtherServiceChanged(h)),
          held    |-> /\ req[h].at # "validating"
                      /\ \/ seen[h].held
                         \/ /\ req[h].at \notin {"guarded", "reading"}
                            /\ Holds(h)'
                         \/ req[h].at = "free",
          capped  |-> seen[h].capped \/ (Record # NoSession /\ AbsoluteDead(Record, now))]

\* Of the two captures and the two callbacks, three happen.
MaxBegun == 3
Begun == Cardinality({c \in Windows : capture[c].step # "idle"})
         + Cardinality({b \in Callbacks : callback[b].step # "idle"})

\* The development server's sign-ins come to an end, the backend's do not.
MCNext ==
    /\ UNCHANGED signIns
    /\ \/ /\ signIns = "handoff"
          /\ AuthNext /\ seen' = [h \in Handlers |-> Saw(h)]
          /\ UNCHANGED legacyVars
       \/ /\ signIns = "legacy"
          /\ LegacyNext \/ UNCHANGED legacyVars
          /\ Begun' <= MaxBegun
          /\ UNCHANGED <<authVars, seen>>

MCSpec == MCInit /\ [][MCNext]_mcVars

\* A refusal has a cause: a token whose session was live when the request began
\* is told it is dead only if in the meantime somebody changed the record, or it came
\* past its absolute cap.
DeadHasACause ==
    \A h \in Handlers :
        (At(h, "answered") /\ req[h].answer = "dead")
        => (~ seen[h].began \/ seen[h].moved > 0 \/ seen[h].capped)

\* A renewal that meets nothing but one renewal of the other service is never
\* answered 409: it is merged.
OneOtherRenewalIsMerged ==
    \A h \in Handlers :
        (At(h, "answered") /\ req[h].answer = "conflict")
        => (seen[h].moved = 2 \/ seen[h].foreign)

\* What a renewal answers is true (renewCookie): `renewed`, only if at some moment
\* after upstream validated the cookie the live record of the token's session
\* held it; and it never asks the store for the replacement the store throws on.
RenewalAnswersTruly ==
    /\ \A h \in Handlers :
           (At(h, "answered") /\ req[h].answer = "renewed") => seen[h].held
    /\ RenewalNeverThrows

\* A development sign-in gives a token that names whose session it is for, and opens
\* no other session, however windows, stored sessions and callbacks cross.  Whoever
\* asks is given the token of the one stored session when reuse is on: it names the
\* session's owner, not the caller (captureSsoSession).
SignInsAreOwn ==
    StoredUnderItsOwner /\ TokensNameTheOwner /\ TokensFitTheirSession /\ SignInsStayApart

=============================================================================
