---------------------------- MODULE MCProcedures ----------------------------
(* A small instance of Procedures for TLC. *)
EXTENDS Procedures, TLC
=============================================================================
