---------------------------- MODULE FlowDecomposer ----------------------------
(***************************************************************************)
(* rw_core/flowdecomposition/flow_decomposer.go: the flows of a logical    *)
(* device as flows of its devices.                                         *)
(*                                                                         *)
(* A logical flow is [id, check, table, in, match, vid | out, next, group, *)
(* meter, meta, port, tag]: before the bar is what FlowMatch compares (id  *)
(* stands for the priority and the cookie, check for the flag              *)
(* CHECK_OVERLAP), after it are the instructions.  Port 0, group 0 and     *)
(* meter 0 stand for none; next tells that it goes to a next table, meta   *)
(* that it writes metadata, with the egress port and the inner tag.        *)
(*                                                                         *)
(* A rule of a device is [kind, key, out, meter], for a flow or a group;   *)
(* key is what FindFlows and FindGroup look for, and an output to a group  *)
(* is its negative number.  The rules of devices are a function from       *)
(* device ids to sets of rules.  A net has what the agent of the logical   *)
(* device knows: [dr, nnis, root, ports, devices].                         *)
(* DecomposeFlow and DecomposeRules return the set of their possible       *)
(* results, as GetRoute does; the empty set is an error.                   *)
(***************************************************************************)
EXTENDS DeviceRoutes

Key(f) == <<f.id, f.check, f.table, f.in, f.match, f.vid>>

\* The match fields of a flow without its in-port; without its VLAN id as well;
\* and with the metadata that the root matches on.
Fields(f) == <<f.match, f.vid, 0>>
FieldsNoVid(f) == <<f.match, 0, 0>>
FieldsTagged(f) == <<f.match, f.vid, f.tag>>

Rule(f, in, tunnel, fields, meter, out) ==
  [kind |-> "flow", key |-> <<f.id, in, tunnel, fields>>, out |-> out, meter |-> meter]

GroupRule(g, buckets) == [kind |-> "group", key |-> <<g>>, out |-> buckets, meter |-> 0]

NoRules == << >>
On(d, rules) == [x \in {d} |-> rules]

GetWildcardInputPorts(net, exclude) == Only(net.ports, Range(net.ports) \ {exclude})

(***************************************************************************)
(* AddFlowsAndGroup replaces what was there for the device, so of several  *)
(* input ports the last one counts.  When the child is the device of both  *)
(* hops its rule is the one that stays.                                    *)
(***************************************************************************)
\* Mutant: the rule of the parent matches on its port to the network.
ProcessControllerBoundFlowEgress(net, path, in, f) ==
  IF in \in net.dr.rootPorts
    THEN On(path[2].dev, {Rule(f, path[2].out, 0, Fields(f), 0, f.out)})
    ELSE Put(On(path[2].dev, {Rule(f, path[2].out, in, Fields(f), f.meter, path[2].out)}),
             On(path[1].dev, {Rule(f, path[1].in, in, FieldsNoVid(f), f.meter, path[1].out)}))

ProcessControllerBoundFlow(net, path, in, f) ==
  LET inPorts == IF in = 0 THEN GetWildcardInputPorts(net, path[2].out) ELSE <<in>>
      last == inPorts[Len(inPorts)]
      parent == Rule(f, path[2].in, last, Fields(f), f.meter, path[2].out)
      child == Rule(f, path[1].in, last, IF f.vid # 0 THEN FieldsNoVid(f) ELSE Fields(f),
                    f.meter, path[1].out)
  IN IF in \in net.dr.rootPorts
       THEN On(path[2].dev, {Rule(f, path[2].out, 0, Fields(f), 0, f.out)})
     ELSE IF inPorts = << >> THEN NoRules
     ELSE Put(On(path[2].dev, {parent}), On(path[1].dev, {child}))

\* The first of two tables is the child's, the second the root's.
ProcessUpstreamNonControllerBoundFlow(path, in, out, f) ==
  IF f.table = 0 /\ f.next
    THEN IF out # 0 THEN NoRules
         ELSE On(path[1].dev, {Rule(f, path[1].in, in, Fields(f), f.meter, path[1].out)})
  ELSE IF f.table = 1 /\ out # 0
    THEN On(path[2].dev, {Rule(f, path[2].in, in, Fields(f), f.meter, path[2].out)})
  ELSE NoRules

ProcessDownstreamFlowWithNextTable(net, path, in, out, f) ==
  LET routes == GetRoute(net.dr, net.nnis, net.root, in, f.port)
      Tagged(hop) == On(hop.dev, {Rule(f, hop.in, f.port, FieldsTagged(f), f.meter, hop.out)})
  IN IF out # 0 \/ f.table # 0 THEN {NoRules}
     ELSE IF ~f.meta THEN {On(path[1].dev, {Rule(f, path[1].in, in, Fields(f), f.meter, path[1].out)})}
     ELSE IF f.port # 0 /\ routes = {} THEN {NoRules}
     ELSE IF f.tag = 0 THEN {NoRules}
     ELSE IF f.port = 0 THEN {Tagged(path[1])}
     ELSE {Tagged(r[1]) : r \in routes}

ProcessUnicastFlow(path, f) ==
  On(path[2].dev, {Rule(f, path[2].in, 0, Fields(f), f.meter, path[2].out)})

\* The flow as it is, when its group is there.
ProcessMulticastFlow(path, f, groups) ==
  IF f.group \notin groups THEN NoRules
  ELSE On(path[1].dev, {Rule(f, f.in, 0, Fields(f), f.meter, -f.group)})

\* A flow of the root that traps EAPOL, IGMP or UDP packets goes to the controller.
Traps == {"eapol", "igmp", "udp"}

UpdateOutputPortForControllerBoundFlowForParentDevice(net, rules) ==
  [d \in DOMAIN rules |->
     IF d # net.root THEN rules[d]
     ELSE {IF r.key[4][1] \in Traps /\ r.out > 0 THEN [r EXCEPT !.out = Controller] ELSE r : r \in rules[d]}]

\* A device that is not there is an error, which a path with an empty first hop
\* always is unless the flow goes to the controller.
DecomposeDownstream(net, path, in, f, groups) ==
  IF f.next /\ f.table = 0 THEN ProcessDownstreamFlowWithNextTable(net, path, in, f.out, f)
  ELSE IF f.table = 1 /\ f.out # 0 THEN {ProcessUnicastFlow(path, f)}
  ELSE IF f.group # 0 /\ f.table = 0 THEN {ProcessMulticastFlow(path, f, groups)}
  ELSE {}

DecomposeFlow(net, f, groups) ==
  LET ins == IF f.group # 0 /\ f.in = 0 /\ net.nnis # {} THEN net.nnis ELSE {f.in}
      Along(in, path) ==
        IF f.out = Controller THEN {ProcessControllerBoundFlow(net, path, in, f)}
        ELSE IF path[1].dev \notin DOMAIN net.devices THEN {}
        ELSE IF ~net.devices[path[1].dev].root
          THEN {ProcessUpstreamNonControllerBoundFlow(path, in, f.out, f)}
        ELSE DecomposeDownstream(net, path, in, f, groups)
      results == UNION {UNION {Along(in, path) : path \in GetRoute(net.dr, net.nnis, net.root, in, f.out)} : in \in ins}
  IN {UpdateOutputPortForControllerBoundFlowForParentDevice(net, r) : r \in results}

\* The rules of both, device by device.
AddFrom(a, b) ==
  [d \in DOMAIN a \cup DOMAIN b |->
     (IF d \in DOMAIN a THEN a[d] ELSE {}) \cup (IF d \in DOMAIN b THEN b[d] ELSE {})]

DecomposeRules(net, flows, groups) ==
  LET Merge[i \in 0..Len(flows)] ==
        IF i = 0 THEN {NoRules}
        ELSE {AddFrom(a, b) : a \in Merge[i - 1], b \in DecomposeFlow(net, flows[i], groups)}
  IN Merge[Len(flows)]
===============================================================================
