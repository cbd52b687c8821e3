----------------------------- MODULE MCStorage -----------------------------
(***************************************************************************)
(* Small instances of Storage for TLC.                                     *)
(***************************************************************************)
EXTENDS Storage

\* Handlers and mailbox objects are interchangeable; so are messages, whose
\* order is kept by stamp and by the queues.
Symmetry == Permutations(Handlers) \cup Permutations(Boxes) \cup Permutations(Messages)

=============================================================================
