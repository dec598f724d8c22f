---------------------------- MODULE MCLogicalPorts ----------------------------
(***************************************************************************)
(* LogicalPorts with one child that has one UNI port, and two NNI ports.   *)
(***************************************************************************)
EXTENDS LogicalPorts

CONSTANTS c1

MCChildren == {c1}
MCNNI == {1, 2}
MCUNI == {11}
MCStored == {{1}, {1, 11}}
MCChildOf == [u \in MCUNI |-> c1]
===============================================================================
