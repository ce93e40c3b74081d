------------------------------ MODULE MCSockets ------------------------------
(* A small instance of Sockets for TLC. *)
EXTENDS Sockets, TLC

CONSTANTS s1, s2, i1, i2, u1
=============================================================================
