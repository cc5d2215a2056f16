---------------------------- MODULE MCAssignments ----------------------------
(* Two requests, two accountants, two rows: a request can be assigned,   *)
(* cancelled, assigned anew and have its first assignment reopened.        *)
EXTENDS Assignments, TLC
CONSTANTS r1, r2, u1, u2, a1, a2, c1, c2
Symmetry == Permutations({r1, r2}) \cup Permutations({u1, u2})
            \cup Permutations({a1, a2})
=============================================================================
