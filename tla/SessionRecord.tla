--------------------------- MODULE SessionRecord ---------------------------
(***************************************************************************)
(* A captured session, and the pure decisions both storage adapters take   *)
(* about one: the lifetime/generation policy (session-record-policy.ts)    *)
(* and the comparisons that guard an in-place renewal (session-store.ts).  *)
(*                                                                         *)
(* A cookie string is a member of Cookies, the empty string is NoCookie.   *)
(* The identity is the key a record is stored under; a module about one    *)
(* key leaves it out.  microsoftCookie and emailSso, which every renewal   *)
(* must leave alone and nothing else reads, are the one field `other`.     *)
(***************************************************************************)
EXTENDS Integers

CONSTANTS Generations,   \* the values generateSessionGeneration() may return
          NoGeneration,  \* undefined: a legacy record, or an unqualified read
          Cookies,       \* non-empty cookie values
          NoCookie,      \* ''
          Others,        \* values of the fields no renewal may change
          TtlMs,         \* sliding lifetime (SESSION_TTL_MS)
          AbsoluteMs     \* absolute lifetime; 0 or less disables the cap

ASSUME LifetimesAssumption == TtlMs \in Nat \ {0} /\ AbsoluteMs \in Int

ASSUME GenerationsAssumption == NoGeneration \notin Generations

ASSUME CookiesAssumption == NoCookie \notin Cookies

Sessions ==
    [sessionGeneration : Generations \cup {NoGeneration}, capturedAt : Int,
     ssoCookie : Cookies \cup {NoCookie}, kulonCookie : Cookies \cup {NoCookie},
     siapCookie : Cookies \cup {NoCookie}, other : Others]

CookieFields == {"ssoCookie", "kulonCookie", "siapCookie"}

-----------------------------------------------------------------------------
(* evaluateRecord, for a record that is present and within its sliding      *)
(* lifetime.  Only the Map adapter passes an expiresAt; Redis enforces the  *)
(* sliding lifetime itself.  The absolute cap is looked at before the       *)
(* generation.                                                              *)

AbsoluteDead(session, now) ==
    AbsoluteMs > 0 /\ now - session.capturedAt >= AbsoluteMs

GenerationMatches(session, generation) ==
    generation = NoGeneration \/ session.sessionGeneration = generation

EvaluateRecord(session, now, generation) ==
    IF AbsoluteDead(session, now) THEN "absolute-dead"
    ELSE IF ~ GenerationMatches(session, generation) THEN "generation-mismatch"
    ELSE "live"

-----------------------------------------------------------------------------
(* sameCapturedSession and isUpstreamCookieRenewal                          *)

\* A mutation: two snapshots of one login are taken for equal.
SameLogin(a, b) == a.sessionGeneration = b.sessionGeneration

SameCapturedSession(a, b) == a = b

\* isKulonCookieRenewal, isSiapCookieRenewal and isSsoCookieRenewal, which
\* differ only in the field that changes.
IsCookieRenewal(field, generation, expected, replacement) ==
    /\ expected.sessionGeneration = generation
    /\ replacement.sessionGeneration = generation
    /\ replacement[field] # NoCookie
    /\ replacement[field] # expected[field]
    /\ replacement = [expected EXCEPT ![field] = replacement[field]]

IsUpstreamCookieRenewal(generation, expected, replacement) ==
    \E field \in CookieFields :
        IsCookieRenewal(field, generation, expected, replacement)

=============================================================================
