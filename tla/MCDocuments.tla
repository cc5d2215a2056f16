----------------------------- MODULE MCDocuments -----------------------------
(* One request, one upload, and one person of each role, who may or may not  *)
(* be on the case: a stranger is one who is not on it yet.                   *)
EXTENDS Documents
CONSTANTS k1, a1, d1
=============================================================================
