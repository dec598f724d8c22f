---------------------------- MODULE MCLogicalFlows ----------------------------
(***************************************************************************)
(* LogicalFlows with flows to the controller, up, down and to a group, one *)
(* of them in two versions.                                                *)
(***************************************************************************)
EXTENDS LogicalFlows

Flow(id, table, in, out) ==
  [id |-> id, check |-> FALSE, table |-> table, in |-> in, match |-> "none", vid |-> 0,
   out |-> out, next |-> FALSE, group |-> 0, meter |-> 0, meta |-> FALSE, port |-> 0, tag |-> 0]

Trap == [Flow(1, 0, Uni, Controller) EXCEPT !.match = "eapol", !.vid = 7, !.meter = 1]
Up1 == Flow(5, 1, Uni, Nni)
Up1Metered == [Up1 EXCEPT !.meter = 1]
Down0 == [Flow(6, 0, Nni, 0) EXCEPT !.next = TRUE, !.meta = TRUE, !.port = Uni, !.tag = 9]
Down1 == [Flow(7, 1, Nni, Uni) EXCEPT !.meter = 1]
Multicast == [Flow(8, 0, 0, 0) EXCEPT !.group = 1, !.meter = 1]

MCFlows == {Trap, Up1, Up1Metered, Down0, Down1, Multicast}
MCNamed == {Trap}
MCWildcards == {[table |-> AnyTable, out |-> 0, group |-> 0]}
===============================================================================
