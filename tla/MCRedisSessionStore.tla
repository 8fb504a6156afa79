------------------------ MODULE MCRedisSessionStore ------------------------
(* Instances of RedisSessionStore for TLC. *)
EXTENDS RedisSessionStore, TLC

CONSTANTS c1, c2, c3, g1, g2, fresh, rotated, other

\* A login hands over all three cookies as captured.
MCCaptures == {[ssoCookie |-> fresh, kulonCookie |-> fresh, siapCookie |-> fresh,
                other |-> other]}

Symmetry == Permutations({g1, g2}) \cup Permutations(Clients)

=============================================================================
