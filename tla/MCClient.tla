------------------------------ MODULE MCClient ------------------------------
(***************************************************************************)
(* A small instance of Client for TLC, with one filter that hides a chat.  *)
(***************************************************************************)
EXTENDS Client

MCFilters == {{CHOOSE d \in Peers : TRUE}}

=============================================================================
