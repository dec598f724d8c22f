----------------------------- MODULE LogicalFlows -----------------------------
(***************************************************************************)
(* The flow, group and meter tables of a logical device, and how changes   *)
(* of them reach the records of its devices and the adapters: the flow     *)
(* part of LogicalDeviceAgent and DeviceAgent.                             *)
(*                                                                         *)
(* An operation holds the lock of the logical device until it returns.  It *)
(* is a plan of stages: to store the tables, or to call the agents of some *)
(* devices, each in a goroutine, and wait for all of them or the timeout.  *)
(* A call that is left behind still runs.  In a call the agent of the      *)
(* device computes the change under the lock of the device, starts the     *)
(* request to the adapter, and stores the record; then it waits for the    *)
(* adapter, or its own timeout.  No stage is taken back when a later one   *)
(* fails.                                                                  *)
(*                                                                         *)
(* The ports do not change here (LogicalPorts): net has the routes that    *)
(* generateDeviceRoutesIfNeeded builds.  flowModify and flowModifyStrict   *)
(* only return an error, and an operation that changes nothing is no step. *)
(***************************************************************************)
EXTENDS FlowDecomposer, TLC

CONSTANTS
  Root, Child,  \* the root device and its child
  Nni, Uni,     \* the NNI port of the root and the UNI port of the child
  Pon,          \* the number of the PON port on either
  Incremental,  \* the devices of a type with AcceptsAddRemoveFlowUpdates
  Flows,        \* the flows the controller may add or delete strictly
  Named,        \* the flows whose match a flowDelete may have
  Wildcards,    \* what a flowDelete with an empty match selects: [table, out, group]
  Meters,       \* meter ids
  Installed,    \* the meters that are there at the beginning
  Groups,       \* group ids
  Values,       \* the values of a meter's bands and of a group's buckets
  CountRange,   \* the number of values of FlowCount: 2^32 in the code
  MaxOps,       \* operations (a bound)
  MaxLeft,      \* calls left behind when another operation begins (a bound)
  MaxFaults     \* failures of stores and requests, and restarts (a bound; Timeout is free)

ASSUME FlowsAssumption ==
  /\ Root # Child /\ Incremental \subseteq {Root, Child}
  /\ Installed \subseteq Meters /\ 0 \notin Meters /\ Named \subseteq Flows
  /\ MaxOps \in Nat /\ MaxLeft \in Nat /\ CountRange \in Nat \ {0} /\ MaxFaults \in Nat
  /\ \A f \in Flows : f.meter \in Meters \cup {0} /\ f.group \in Groups \cup {0}

AnyTable == 2
AllGroups == 0
Devices == {Root, Child}

Port(no, type, peers) == [no |-> no, type |-> type, peers |-> peers]
LPort(d, no) == [dev |-> d, devNo |-> no, no |-> no, root |-> d = Root]

net ==
  LET devices == (Root :> [root |-> TRUE, ports |-> <<Port(Nni, "NNI", << >>),
                             Port(Pon, "PON_OLT", <<[dev |-> Child, no |-> Pon]>>)>>]) @@
                 (Child :> [root |-> FALSE, ports |-> <<Port(Uni, "UNI", << >>),
                             Port(Pon, "PON_ONU", <<[dev |-> Root, no |-> Pon]>>)>>])
      lps == <<LPort(Root, Nni), LPort(Child, Uni)>>
  IN [dr |-> ComputeRoutes(NewDeviceRoutes, lps, devices).dr, nnis |-> {Nni}, root |-> Root,
      ports |-> <<Nni, Uni>>, devices |-> devices]

VARIABLES
  tables,  \* the logical device: [flows, meters, groups]
  rec,     \* the rules in the record of each device
  hw,      \* the rules that the adapter of each device was told
  op,      \* the operation that holds the lock: [plan, started, err, risk]
  calls,   \* calls of device agents, those left behind as well
  exempt,  \* what the properties leave out: see Exempt
  ops,     \* the number of operations begun
  faults   \* the number of failures

vars == <<tables, rec, hw, op, calls, exempt, ops, faults>>

(***************************************************************************)
(* What the code leaves inconsistent, and the properties leave out.  holes *)
(* has the keys of flows that may lack their rules, loose rules that may   *)
(* be on a device without a flow, miscounted meters with a wrong           *)
(* FlowCount, dangling meters that flows may refer to in vain, unsure the  *)
(* devices whose adapter was not heard or told to remove what stays, and   *)
(* late the devices on which a call was left behind before it ran.         *)
(***************************************************************************)
Exempt == [holes |-> {}, loose |-> {}, miscounted |-> {}, dangling |-> {}, unsure |-> {}, late |-> {}]
Join(a, b) == [x \in DOMAIN a |-> a[x] \cup b[x]]

Idle == [plan |-> << >>, started |-> FALSE, err |-> FALSE, risk |-> Exempt]

Store(t) == [do |-> "store", rules |-> NoRules, to |-> t]
Call(kind, rules) == [do |-> kind, rules |-> rules, to |-> << >>]

Init ==
  /\ \E v \in Values :
       tables = [flows |-> << >>, meters |-> [m \in Installed |-> [bands |-> v, count |-> 0]],
                 groups |-> << >>]
  /\ rec = [d \in Devices |-> {}]
  /\ hw = [d \in Devices |-> {}]
  /\ op = Idle
  /\ calls = {}
  /\ exempt = Exempt
  /\ ops = 0
  /\ faults = 0

Fault == faults < MaxFaults /\ faults' = faults + 1

\* No operation holds the lock of the logical device, within the bounds.
Unlocked == op.plan = << >> /\ ops < MaxOps /\ Cardinality(calls) <= MaxLeft

\* An operation takes the lock with a plan; done is what it leaves inconsistent,
\* risk what it leaves so when it does not complete.
Begin(plan, done, risk) ==
  /\ Unlocked /\ plan # << >>
  /\ op' = [plan |-> plan, started |-> FALSE, err |-> FALSE, risk |-> risk]
  /\ exempt' = Join(exempt, done)
  /\ ops' = ops + 1
  /\ UNCHANGED <<tables, rec, hw, calls, faults>>

\* DecomposeFlow, tabulated; the rules a flow has on the devices now.
Decomposition == [p \in Flows \X SUBSET Groups |-> DecomposeFlow(net, p[1], p[2])]
RulesFor(f) == Decomposition[<<f, DOMAIN tables.groups>>]
RulesOf(fs) == UNION {UNION {UNION Range(r) : r \in RulesFor(f)} : f \in fs}
HasRuleOn(f, d) == \E r \in RulesFor(f) : d \in DOMAIN r
RuleKeys(rules) == {r.key : r \in rules}
KeysOf(fs) == {Key(f) : f \in fs}
\* The flows whose rules have the key of one of the given rules: with the flag
\* CHECK_OVERLAP a second flow with the same match is added.
Sharing(fs, rules) ==
  KeysOf({f \in fs : RuleKeys(RulesOf({f})) \cap RuleKeys(UNION Range(rules)) # {}})
MetersOf(fs) == {f.meter : f \in fs} \ {0}
Dropping(f, k) == [x \in DOMAIN f \ {k} |-> f[x]]

(***************************************************************************)
(* The meters.  The devices are told of a meter with its flows only.       *)
(***************************************************************************)
MeterAdd(m, v) ==
  /\ m \notin DOMAIN tables.meters
  /\ Begin(<<Store([tables EXCEPT !.meters = Put(@, [x \in {m} |-> [bands |-> v, count |-> 0]])])>>,
           Exempt, Exempt)

\* Mutant: the flow count begins again.
MeterModifyReset(m, v) ==
  /\ m \in DOMAIN tables.meters
  /\ Begin(<<Store([tables EXCEPT !.meters[m] = [bands |-> v, count |-> 0]])>>, Exempt, Exempt)

MeterModify(m, v) ==
  /\ m \in DOMAIN tables.meters
  /\ Begin(<<Store([tables EXCEPT !.meters[m].bands = v])>>, Exempt, Exempt)

GetUpdatedFlowsAfterDeletebyMeterID(flows, m) == Only(flows, {f \in Flows : f.meter # m})

\* Mutant: the flows of the meter stay.
MeterDeleteOnly(m) ==
  /\ m \in DOMAIN tables.meters
  /\ Begin(<<Store([tables EXCEPT !.meters = Dropping(@, m)])>>, Exempt, Exempt)

\* The meters are stored before the flows.  No device is told.
MeterDelete(m) ==
  LET kept == GetUpdatedFlowsAfterDeletebyMeterID(tables.flows, m)
      gone == {f \in Range(tables.flows) : f.meter = m}
      without == [tables EXCEPT !.meters = Dropping(@, m)]
  IN /\ m \in DOMAIN tables.meters
     /\ Begin(IF gone = {} THEN <<Store(without)>>
              ELSE <<Store(without), Store([without EXCEPT !.flows = kept])>>,
              [Exempt EXCEPT !.loose = RulesOf(gone)],
              [Exempt EXCEPT !.dangling = {m}, !.miscounted = {m}])

UpdateFlowCountOfMeterStats(t, m, by) ==
  [t EXCEPT !.meters[m].count = (@ + by) % CountRange]

GetMeterConfig(fs) == MetersOf(fs) \subseteq DOMAIN tables.meters

(***************************************************************************)
(* The flows.  FlowMatch compares keys; fu.FindOverlappingFlows finds      *)
(* none, so a flow with CHECK_OVERLAP is always appended.                  *)
(***************************************************************************)
FindFlows(flows, f) ==
  LET found == {i \in DOMAIN flows : Key(flows[i]) = Key(f)}
  IN IF found = {} THEN 0 ELSE CHOOSE i \in found : \A j \in found : i <= j

\* Mutant: the flow is stored before the devices are told.
FlowAddStoreFirst(f) ==
  LET added == [tables EXCEPT !.flows = Append(@, f)]
  IN /\ FindFlows(tables.flows, f) = 0 /\ GetMeterConfig({f})
     /\ \E rules \in RulesFor(f) :
          Begin(<<Store(added), Call("add", rules)>>
                  \o IF f.meter = 0 THEN << >> ELSE <<Store(UpdateFlowCountOfMeterStats(added, f.meter, 1))>>,
                Exempt, [Exempt EXCEPT !.loose = UNION Range(rules), !.miscounted = {f.meter}])

FlowAdd(f) ==
  LET i == FindFlows(tables.flows, f)
      updated == i # 0 /\ ~f.check
      old == IF updated THEN {tables.flows[i]} ELSE {}
      stored == [tables EXCEPT !.flows = IF updated THEN [@ EXCEPT ![i] = f] ELSE Append(@, f)]
      counted == IF updated \/ f.meter = 0 THEN << >>
                 ELSE <<Store(UpdateFlowCountOfMeterStats(stored, f.meter, 1))>>
      remetered == IF updated /\ MetersOf(old) # MetersOf({f}) THEN MetersOf(old \cup {f}) ELSE {}
  IN /\ f \notin old /\ GetMeterConfig({f})
     /\ \E rules \in RulesFor(f) :
          Begin(<<Call("add", rules), Store(stored)>> \o counted,
                [Exempt EXCEPT !.loose = {r \in RulesOf(old) : r.key \notin RuleKeys(UNION Range(rules))},
                               !.miscounted = remetered,
                               !.holes = Sharing(Range(tables.flows) \ ({f} \cup old), rules)
                                  \cup IF f.group \in DOMAIN tables.groups \cup {0} THEN {} ELSE {Key(f)}],
                [Exempt EXCEPT !.loose = UNION Range(rules), !.miscounted = MetersOf({f}),
                               !.holes = KeysOf(old)])

\* A flow mod to delete names the key of a flow, or has an empty match.
FlowMatchesMod(f, w) ==
  /\ w.table \in {f.table, AnyTable}
  /\ w.out \in {f.out, 0}
  /\ w.group \in {f.group, 0}

\* The devices are told first.  The counts of the meters stay as they were.
FlowDelete(matched) ==
  LET toDelete == Only(tables.flows, matched)
      toKeep == Only(tables.flows, Flows \ matched)
  IN /\ toDelete # << >> /\ GetMeterConfig(Range(toDelete))
     /\ \E rules \in DecomposeRules(net, toDelete, DOMAIN tables.groups) :
          Begin(<<Call("delete", rules), Store([tables EXCEPT !.flows = toKeep])>>,
                [Exempt EXCEPT !.miscounted = MetersOf(Range(toDelete)),
                               !.holes = Sharing(Range(toKeep), rules)],
                [Exempt EXCEPT !.holes = KeysOf(Range(toDelete))])

FlowDeleteExact(g) == FlowDelete({f \in Flows : Key(f) = Key(g)})
FlowDeleteWild(w) == FlowDelete({f \in Flows : FlowMatchesMod(f, w)})

RemoveAt(s, i) == SubSeq(s, 1, i - 1) \o SubSeq(s, i + 1, Len(s))

\* Mutant: the devices are not told.
FlowDeleteStrictSilent(f) ==
  LET i == FindFlows(tables.flows, f)
  IN i # 0 /\ Begin(<<Store([tables EXCEPT !.flows = RemoveAt(@, i)])>>,
                    [Exempt EXCEPT !.miscounted = MetersOf({tables.flows[i]})], Exempt)

\* The count is stored first, and stays so when the rest fails.
FlowDeleteStrict(f) ==
  LET i == FindFlows(tables.flows, f)
      flow == tables.flows[i]
      counted == IF flow.meter \in DOMAIN tables.meters
                   THEN UpdateFlowCountOfMeterStats(tables, flow.meter, -1) ELSE tables
      first == IF flow.meter \in DOMAIN tables.meters THEN <<Store(counted)>> ELSE << >>
      all == IF GetMeterConfig({flow}) THEN RulesFor(flow) ELSE {}
      kept == RemoveAt(tables.flows, i)
  IN /\ i # 0
     /\ \/ all = {} /\ Begin(first, [Exempt EXCEPT !.miscounted = MetersOf({flow})], Exempt)
        \/ \E rules \in all :
             Begin(first \o <<Call("delete", rules), Store([counted EXCEPT !.flows = kept])>>,
                   [Exempt EXCEPT !.holes = Sharing(Range(kept), rules)],
                   [Exempt EXCEPT !.holes = {Key(f)}, !.miscounted = MetersOf({flow})])

(***************************************************************************)
(* The groups.  A change of a group is sent to the root alone, as the only *)
(* thing the root is to have.  The rules of devices that are left without  *)
(* any are not replaced when a group is deleted.                           *)
(***************************************************************************)
GroupAdd(g, v) ==
  /\ g \notin DOMAIN tables.groups
  /\ Begin(<<Call("add", On(Root, {GroupRule(g, v)})),
             Store([tables EXCEPT !.groups = Put(@, [x \in {g} |-> v])])>>, Exempt, Exempt)

GroupModify(g, v) ==
  /\ g \in DOMAIN tables.groups
  /\ Begin(<<Call("update", On(Root, {GroupRule(g, v)})), Store([tables EXCEPT !.groups[g] = v])>>,
           [Exempt EXCEPT !.holes = KeysOf({f \in Range(tables.flows) : HasRuleOn(f, Root)}),
                          !.unsure = Incremental],
           Exempt)

GroupDelete(g) ==
  LET groups == IF g = AllGroups THEN << >> ELSE Dropping(tables.groups, g)
      members == {f \in Range(tables.flows) : f.group # 0 /\ g \in {f.group, AllGroups}}
      kept == IF g = AllGroups THEN tables.flows ELSE Only(tables.flows, {f \in Flows : f.group # g})
      stored == [tables EXCEPT !.groups = groups]
  IN /\ g \in DOMAIN tables.groups \cup {AllGroups}
     /\ \E rules \in DecomposeRules(net, kept, DOMAIN groups) :
          Begin(<<Call("update", rules), Store(stored)>>
                  \o IF kept = tables.flows THEN << >> ELSE <<Store([stored EXCEPT !.flows = kept])>>,
                [Exempt EXCEPT !.loose = RulesOf(members), !.unsure = Incremental,
                               !.holes = IF g = AllGroups THEN KeysOf(members) ELSE {},
                               !.miscounted = IF g = AllGroups THEN {} ELSE MetersOf(members)],
                [Exempt EXCEPT !.holes = KeysOf(members)])

(***************************************************************************)
(* The operation goes on to its next stage, or returns with an error.      *)
(***************************************************************************)
Advance == op' = IF Len(op.plan) = 1 THEN Idle ELSE [op EXCEPT !.plan = Tail(@), !.started = FALSE]
Abort(more) == op' = Idle /\ exempt' = Join(exempt, Join(op.risk, more))

UpdateLogicalDeviceWithoutLock ==
  /\ op.plan # << >> /\ Head(op.plan).do = "store"
  /\ \/ tables' = Head(op.plan).to /\ Advance /\ UNCHANGED <<exempt, faults>>
     \/ Fault /\ Abort(Exempt) /\ UNCHANGED tables
  /\ UNCHANGED <<rec, hw, calls, ops>>

\* A goroutine per device; one whose device has no agent fails.
StartCalls ==
  /\ op.plan # << >> /\ Head(op.plan).do # "store" /\ ~op.started
  /\ LET rules == Head(op.plan).rules
     IN /\ calls' = calls \cup {[n |-> ops, dev |-> d, do |-> Head(op.plan).do, rules |-> rules[d],
                                 st |-> "wait", open |-> TRUE, msg |-> NoRules] : d \in DOMAIN rules \cap Devices}
        /\ op' = [op EXCEPT !.started = TRUE, !.err = DOMAIN rules \ Devices # {}]
  /\ UNCHANGED <<tables, rec, hw, exempt, ops, faults>>

Open == {c \in calls : c.open}

\* WaitForNilOrErrorResponses, when all have answered and when it times out.
Collect ==
  /\ op.started /\ Open = {}
  /\ IF op.err THEN Abort(Exempt) ELSE Advance /\ UNCHANGED exempt
  /\ UNCHANGED <<tables, rec, hw, calls, ops, faults>>

\* Mutant: it waits for as long as it takes.
TimeoutNever == FALSE

Timeout ==
  /\ op.started /\ Open # {}
  /\ Abort([Exempt EXCEPT !.late = {c.dev : c \in {x \in Open : x.st = "wait"}},
                          !.unsure = {c.dev : c \in Open}])
  /\ calls' = {[c EXCEPT !.open = FALSE] : c \in calls}
  /\ UNCHANGED <<tables, rec, hw, ops, faults>>

(***************************************************************************)
(* What the agent of a device does under the lock of the device: whether   *)
(* it sends a request, the record that it stores then, and the request.    *)
(* A bulk request has all rules, an incremental one the changes.           *)
(***************************************************************************)
OfKind(rules, kind) == {r \in rules : r.kind = kind}
Same(rules, others) ==
  rules = others /\ OfKind(rules, "flow") # {} /\ OfKind(rules, "group") # {}

\* The two requests of the adapter proxy.
UpdateFlowsBulk(all) == [all |-> all, add |-> {}, remove |-> {}, update |-> {}]
UpdateFlowsIncremental(add, remove, update) ==
  [all |-> {}, add |-> add, remove |-> remove, update |-> update]

Request(d, send, keep, add, remove, update) ==
  [send |-> send, keep |-> keep,
   msg |-> IF d \in Incremental THEN UpdateFlowsIncremental(add, remove, update) ELSE UpdateFlowsBulk(keep)]

\* flowsToUpdateToDelete, groupsToUpdateToDelete: a rule that is there as it is is not
\* sent again, one with the same key is removed.
ToUpdateToDelete(new, existing) ==
  LET updated == new \ existing
      delete == {r \in existing : r.key \in RuleKeys(updated)}
  IN [new |-> updated, delete |-> delete, all |-> (existing \ delete) \cup new]

\* Mutant: a rule that changes is not removed first.
AddFlowsAndGroupsToAdapterKeepOld(d, new) ==
  LET rules == ToUpdateToDelete(new, rec[d])
  IN Request(d, TRUE, rules.all, rules.new, {}, {})

AddFlowsAndGroupsToAdapter(d, new) ==
  LET rules == ToUpdateToDelete(new, rec[d])
  IN Request(d, d \in Incremental \/ ~Same(rules.all, rec[d]), rules.all, rules.new, rules.delete, {})

DeleteFlowsAndGroupsFromAdapter(d, del) ==
  LET keep == {r \in rec[d] : r.key \notin RuleKeys(del)}
  IN Request(d, d \in Incremental \/ ~Same(keep, rec[d]), keep, {}, del, {})

\* An incremental request removes what is in both.
UpdateFlowsAndGroupsToAdapter(d, new) ==
  LET added == {r \in new : r.key \notin RuleKeys(rec[d])}
      removed == {r \in rec[d] : r.key \in RuleKeys(new)}
      groups == OfKind(new, "group")
  IN Request(d,
             /\ ~Same(new, rec[d])
             /\ d \in Incremental => added \cup removed \cup groups # {},
             new, added, removed, groups)

RequestOf(c) ==
  CASE c.do = "add" -> AddFlowsAndGroupsToAdapter(c.dev, c.rules)
    [] c.do = "delete" -> DeleteFlowsAndGroupsFromAdapter(c.dev, c.rules)
    [] c.do = "update" -> UpdateFlowsAndGroupsToAdapter(c.dev, c.rules)

\* The response of a call reaches the operation only while that waits for it.
Respond(c, ok) == op' = IF c.open /\ ~ok THEN [op EXCEPT !.err = TRUE] ELSE op
Replace(c, new) == calls' = (calls \ {c}) \cup new
Unsure(d) == exempt' = [exempt EXCEPT !.unsure = @ \cup {d}]

\* The section under the lock of the device.  The request is under way when the
\* store fails; a device type that is not known fails the call before that.
RunCall(c) ==
  LET req == RequestOf(c)
      sent == [c EXCEPT !.st = "sent", !.msg = req.msg]
  IN /\ c.st = "wait"
     /\ \/ ~req.send /\ Respond(c, TRUE) /\ Replace(c, {}) /\ UNCHANGED <<rec, exempt, faults>>
        \/ /\ req.send /\ rec' = [rec EXCEPT ![c.dev] = req.keep]
           /\ Replace(c, {sent}) /\ UNCHANGED <<op, exempt, faults>>
        \/ /\ Fault /\ req.send /\ Respond(c, FALSE)
           /\ Replace(c, {[sent EXCEPT !.open = FALSE]}) /\ Unsure(c.dev) /\ UNCHANGED rec
        \/ Fault /\ Respond(c, FALSE) /\ Replace(c, {}) /\ UNCHANGED <<rec, exempt>>
     /\ UNCHANGED <<tables, hw, ops>>

\* The adapter takes a request as a whole: it removes, adds and updates rules, which
\* it knows by their keys.
Told(d, msg) ==
  IF d \notin Incremental THEN msg.all
  ELSE {r \in hw[d] : r.key \notin RuleKeys(msg.remove \cup msg.update)} \cup msg.add \cup msg.update

\* The adapter answers; its answer, or the request, may be lost, or be an error.
Answer(c) ==
  /\ c.st = "sent"
  /\ \/ hw' = [hw EXCEPT ![c.dev] = Told(c.dev, c.msg)] /\ Respond(c, TRUE) /\ UNCHANGED <<exempt, faults>>
     \/ /\ Fault /\ Respond(c, FALSE) /\ Unsure(c.dev)
        /\ hw' \in {hw, [hw EXCEPT ![c.dev] = Told(c.dev, c.msg)]}
  /\ Replace(c, {})
  /\ UNCHANGED <<tables, rec, ops>>

\* The agent of the device stops waiting.
CallTimeout(c) ==
  /\ Fault /\ c.st = "sent" /\ c.open
  /\ Respond(c, FALSE) /\ Replace(c, {[c EXCEPT !.open = FALSE]}) /\ Unsure(c.dev)
  /\ UNCHANGED <<tables, rec, hw, ops>>

\* The core stops and starts again: what is stored, and requests that are on
\* their way, stay.
Restart ==
  /\ Fault /\ (op # Idle \/ calls # {})
  /\ Abort([Exempt EXCEPT !.unsure = {c.dev : c \in {x \in calls : x.st = "sent"}}])
  /\ \E sent \in SUBSET {c \in calls : c.st = "sent"} : calls' = {[c EXCEPT !.open = FALSE] : c \in sent}
  /\ UNCHANGED <<tables, rec, hw, ops>>

UpdateMeterTable ==
  \E m \in Meters : MeterDelete(m) \/ \E v \in Values : MeterAdd(m, v) \/ MeterModify(m, v)
UpdateGroupTable ==
  \/ \E g \in Groups \cup {AllGroups} : GroupDelete(g)
  \/ \E g \in Groups, v \in Values : GroupAdd(g, v) \/ GroupModify(g, v)
UpdateFlowTable ==
  \/ \E f \in Flows : FlowAdd(f) \/ FlowDeleteStrict(f)
  \/ \E f \in Named : FlowDeleteExact(f)
  \/ \E w \in Wildcards : FlowDeleteWild(w)

Next ==
  \/ Unlocked /\ (UpdateMeterTable \/ UpdateGroupTable \/ UpdateFlowTable)
  \/ UpdateLogicalDeviceWithoutLock \/ StartCalls \/ Collect \/ Timeout
  \/ \E c \in calls : RunCall(c) \/ Answer(c) \/ CallTimeout(c)
  \/ Restart

Spec == Init /\ [][Next]_vars

\* The goroutine of the operation runs, the store answers and the timer fires.
\* Nothing is asked of the devices' agents, which may be held up by their lock.
FairSpec ==
  Spec /\ WF_vars(UpdateLogicalDeviceWithoutLock) /\ WF_vars(StartCalls)
       /\ WF_vars(Collect) /\ WF_vars(Timeout)

\* Between operations a flow of the logical device has its rules in the record of
\* every device: flowAdd stores the flow last, and the deletions remove it last.
DevicesFollowFlows ==
  op = Idle =>
    \A f \in Range(tables.flows) : Key(f) \notin exempt.holes =>
      \A r \in RulesFor(f), d \in Devices \ exempt.late :
        d \in DOMAIN r => r[d] \subseteq rec[d]

\* Between operations the record of a device has no flow that no flow of the logical
\* device stands for, whatever was added, changed and deleted before.
NoStrayRule ==
  op = Idle => \A d \in Devices \ exempt.late :
                 OfKind(rec[d], "flow") \subseteq RulesOf(Range(tables.flows)) \cup exempt.loose

\* An adapter that answered every request has the rules in the record of its device,
\* whether it is told all of them or the changes.
HardwareFollows ==
  \A d \in Devices \ exempt.unsure : (\A c \in calls : c.dev # d) => hw[d] = rec[d]

\* Between operations the meter of a flow exists, which GetMeterConfig relies on:
\* "This should never happen", says flowDelete.
FlowsHaveMeters ==
  op = Idle => MetersOf(Range(tables.flows)) \subseteq DOMAIN tables.meters \cup exempt.dangling

\* Between operations the FlowCount of a meter is the number of flows that use it.
FlowCountExact ==
  op = Idle => \A m \in DOMAIN tables.meters \ exempt.miscounted :
    tables.meters[m].count = Cardinality({i \in DOMAIN tables.flows : tables.flows[i].meter = m}) % CountRange

\* Where a packet that enters device d by port p goes with the rules of the flows ids:
\* over the PON to the other device, once, or out.
Outs(ids, d, p) == {r.out : r \in {q \in OfKind(rec[d], "flow") : q.key[1] \in ids /\ q.key[2] = p}}
Ends(ids, d, p) ==
  UNION {IF out # Pon THEN {<<d, out>>}
         ELSE LET peer == CHOOSE x \in Devices : x # d
              IN {<<peer, o>> : o \in Outs(ids, peer, Pon)} : out \in Outs(ids, d, p)}

\* Between operations the rules of the two devices join: what a UNI port sends is
\* trapped to the controller by a trap flow, and what the NNI port receives is carried
\* to the UNI port by the two downstream flows, one per table.
RulesJoin ==
  op = Idle /\ exempt.late = {} =>
    LET sound == {f \in Range(tables.flows) : Key(f) \notin exempt.holes}
    IN \A f, g \in sound :
         /\ f.out = Controller /\ f.in = Uni /\ f.match \in Traps
              => Ends({f.id}, Child, Uni) = {<<Root, Controller>>}
         /\ f.table = 0 /\ f.next /\ f.in = Nni /\ g.table = 1 /\ g.in = Nni /\ g.out = Uni
              => <<Child, Uni>> \in Ends({f.id, g.id}, Root, Nni)

\* An operation returns, and so the lock of the logical device is released, whether
\* or not the devices and the adapters answer.
OperationsEnd == []<>(op = Idle)
===============================================================================
