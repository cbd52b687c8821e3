------------------------------ MODULE MCDevice ------------------------------
(***************************************************************************)
(* A small instance of Device for TLC: a nickname with and without blanks, *)
(* and one with a quotation mark whose HMAC starts with the same digits.   *)
(***************************************************************************)
EXTENDS Device, TLC

CONSTANTS alice, aliceBlank, quoted, wordA, wordQ

MCNorm == (alice :> wordA) @@ (aliceBlank :> wordA) @@ (quoted :> wordQ)
MCFold == [n \in Names |-> n]
MCPrefix == [w \in Words |-> 0]
Symmetry == Permutations(Processes) \cup Permutations(Identities)

=============================================================================
