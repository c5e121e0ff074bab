------------------------------ MODULE MCLogger ------------------------------
(* A small instance of Logger for TLC. *)
EXTENDS Logger, TLC

CONSTANTS t1, t2
=============================================================================
