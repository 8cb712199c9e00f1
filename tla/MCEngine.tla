------------------------------ MODULE MCEngine ------------------------------
(* Engine with two settings that differ in every field: ordinary priority  *)
(* without a log, and a lower one with it.                                 *)
EXTENDS Engine

MCSettings == {[nice |-> 0, logging |-> FALSE], [nice |-> 5, logging |-> TRUE]}
=============================================================================
