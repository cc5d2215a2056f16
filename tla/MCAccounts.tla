----------------------------- MODULE MCAccounts -----------------------------
(* A small instance of Accounts.  The values of a set are interchangeable; *)
(* all properties are safety properties.                                   *)
EXTENDS Accounts, FiniteSets, TLC

CONSTANT PairLimit  \* the bound on the pairs that are issued

Symmetry == Permutations(User) \cup Permutations(Text) \cup Permutations(Call)

FewPairs == Cardinality(issued) <= PairLimit
=============================================================================
