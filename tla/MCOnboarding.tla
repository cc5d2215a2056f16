----------------------------- MODULE MCOnboarding -----------------------------
(* Two addresses, two requests, two calls: two registrations of one address, *)
(* or a registration and a login, with a request claimed in between.         *)
EXTENDS Onboarding, TLC
CONSTANTS e1, e2, r1, r2, c1, c2
Symmetry == Permutations({e1, e2}) \cup Permutations({r1, r2})
            \cup Permutations({c1, c2})
=============================================================================
