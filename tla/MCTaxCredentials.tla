-------------------------- MODULE MCTaxCredentials --------------------------
(* A small instance of TaxCredentials.  The values of a set are            *)
(* interchangeable; all properties are safety properties.                  *)
EXTENDS TaxCredentials, FiniteSets, Integers, TLC

CONSTANT EditLimit  \* the bound on what one credential ever says

Symmetry == Permutations(Credential) \cup Permutations(Client) \cup Permutations(Username)
            \cup Permutations(Password) \cup Permutations(Key) \cup Permutations(Call)

FewEdits == \A d \in Credential : Cardinality(held[d]) <= EditLimit
=============================================================================
