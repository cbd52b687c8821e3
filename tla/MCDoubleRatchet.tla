-------------------------- MODULE MCDoubleRatchet --------------------------
(***************************************************************************)
(* Small instances of DoubleRatchet for TLC.                               *)
(***************************************************************************)
EXTENDS DoubleRatchet

=============================================================================
