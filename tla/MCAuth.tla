------------------------------- MODULE MCAuth -------------------------------
(***************************************************************************)
(* Small instances of Auth for TLC: the logins of one device, whose clock  *)
(* is a tick behind the server's.                                          *)
(***************************************************************************)
EXTENDS Auth

MCDeviceOf == [c \in Calls |-> CHOOSE d \in Devices : TRUE]
MCLag == [d \in Devices |-> 1]

=============================================================================
