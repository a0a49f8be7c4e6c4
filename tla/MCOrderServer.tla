--------------------------- MODULE MCOrderServer ---------------------------
(* Instances of OrderServer for TLC. *)
EXTENDS OrderServer

CONSTANTS c1, c2

AcceptOrder == <<c1, c2>>
=============================================================================
