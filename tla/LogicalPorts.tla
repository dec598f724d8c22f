----------------------------- MODULE LogicalPorts -----------------------------
(***************************************************************************)
(* The ports of a logical device: how the ports that the adapters report   *)
(* on the root device and its children become logical ports, the map of    *)
(* port numbers and the routes that are kept beside them, and what the     *)
(* controller is told.  It is the port part of DeviceManager,              *)
(* LogicalDeviceManager and LogicalDeviceAgent, with their goroutines.     *)
(*                                                                         *)
(* A goroutine holds the logical device's lock from the read of the ports  *)
(* to the store, so that is one step; the call of getPortCapability before *)
(* it, and the entry in the port map after it, are outside the lock.       *)
(* A port is its number, which the adapters make unique; it is labelled    *)
(* with the id of its logical port.  A loop over the ports of a device may *)
(* take them in any order.                                                 *)
(***************************************************************************)
EXTENDS DeviceRoutes

CONSTANTS
  Root,        \* the root device
  Children,    \* its child devices
  NNI,         \* the numbers of the root's NNI ports
  UNI,         \* the numbers of the children's UNI ports
  Pon,         \* the number of the root's PON port, and of the children's
  ChildOf,     \* the child each UNI port is on
  Stored,      \* the sets of NNI and UNI ports that may be on the devices at the beginning
  MaxTasks,    \* goroutines alive when another request is taken (a bound)
  MaxRequests, \* requests of adapters and of the northbound API (a bound)
  MayFail      \* whether calls to the adapters and updates of the model can fail

ASSUME PortsAssumption ==
  /\ NNI \cap UNI = {} /\ Stored \subseteq SUBSET (NNI \cup UNI) /\ Pon \notin NNI \cup UNI
  /\ NNI \cup UNI \cup {Pon} \subseteq 1..(Controller - 1)
ASSUME DevicesAssumption ==
  Root \notin Children /\ IsFiniteSet(Children) /\ ChildOf \in [UNI -> Children]
ASSUME BoundsAssumption == MaxTasks \in Nat /\ MaxRequests \in Nat /\ MayFail \in BOOLEAN

Devices == {Root} \cup Children
PortNo == NNI \cup UNI
DeviceOf(p) == IF p \in NNI THEN Root ELSE ChildOf[p]
PortsOf(d) == {p \in PortNo : DeviceOf(p) = d}

VARIABLES
  ready,      \* the devices that are enabled and ACTIVE
  starting,   \* the devices that are enabled and ACTIVATING (a child also DISCOVERED):
              \* the states from which becoming ACTIVE runs a handler
  devPorts,   \* the NNI, UNI and PON ports stored on each device
  peers,      \* the children that are peers of the root's PON port
  removed,    \* the children that were deleted
  ldevice,    \* the logical device: "none", "starting" (its agent is in the map
              \* and the root's ParentId set) or "ready" (its data set as well)
  watched,    \* whether its portUpdated callback is registered
  ports,      \* its ports, in order: [no, up, live], for Config and State
  portsNo,    \* logicalPortsNo: the port numbers known, TRUE for an NNI port
  created,    \* whether deviceRoutes was created
  dr,         \* deviceRoutes
  tasks,      \* the bag of goroutines
  told,       \* what the last event about a port said: <<up, live>>, << >> when deleted
  missed,     \* the ports changed last when the callback was not registered
  disturbed,  \* the devices whose logical ports were deleted, or not added because
              \* a call failed, the core stopped or no handler ran as they became ACTIVE
  requests    \* the number of requests made

vars == <<ready, starting, devPorts, peers, removed, ldevice, watched, ports, portsNo, created, dr, tasks, told, missed, disturbed, requests>>
device == <<ready, starting, devPorts, peers, removed>>
logical == <<ldevice, watched, ports, portsNo, created, dr, told, missed>>

Numbers(s) == {s[i].no : i \in DOMAIN s}
PortExist(p) == p \in Numbers(ports)

(***************************************************************************)
(* A goroutine: op is the function it runs, dev the device that was handed *)
(* to it, ready whether that copy of the device was enabled and active, ld *)
(* whether it had a ParentId, todo the ports left, port the one in hand,   *)
(* at the step of it, up the state to give to it, and failed the error of  *)
(* the last port.                                                          *)
(***************************************************************************)
Go(op, d, s) ==
  [op |-> op, dev |-> d, ready |-> d \in ready, ld |-> d # Root \/ ldevice # "none",
   todo |-> s, port |-> 0, at |-> "check", up |-> FALSE, failed |-> FALSE]

\* tasks is a bag: it has the number of goroutines that are alike.
Alive == DOMAIN tasks
Alike(t) == IF t \in Alive THEN tasks[t] ELSE 0

Spawn(new) == tasks' = [t \in Alive \cup new |-> Alike(t) + (IF t \in new THEN 1 ELSE 0)]
Becomes(t, new) ==
  LET Left(u) == Alike(u) - (IF u = t THEN 1 ELSE 0) + (IF u \in new THEN 1 ELSE 0)
  IN tasks' = [u \in {v \in Alive \cup new : Left(v) > 0} |-> Left(u)]
Ends(t) == Becomes(t, {})

Request ==
  /\ requests < MaxRequests
  /\ SumFunction(tasks) < MaxTasks
  /\ requests' = requests + 1

\* The children were found, and some ports reported, before the root is active.
Init ==
  /\ ready = {}
  /\ starting = Devices
  /\ \E s \in Stored : devPorts = [d \in Devices |-> {Pon} \cup (PortsOf(d) \cap s)]
  /\ peers = Children
  /\ removed = {}
  /\ ldevice = "none"
  /\ ports = << >>
  /\ portsNo = << >>
  /\ created = FALSE
  /\ dr = NewDeviceRoutes
  /\ tasks = << >>
  /\ told = [p \in PortNo |-> << >>]
  /\ watched = FALSE
  /\ missed = {}
  /\ disturbed = {}
  /\ requests = 0

\* The members of a set in an order, the same each time they are asked for.
Listing(S) == CHOOSE s \in [1..Cardinality(S) -> S] : Range(s) = S

\* The devices as the data model gives them to the route computation.
Model ==
  LET Wire(d) == IF d = Root THEN Listing({[dev |-> c, no |-> Pon] : c \in peers})
                             ELSE <<[dev |-> Root, no |-> Pon]>>
      Port(d, p) ==
        IF p = Pon THEN [no |-> p, type |-> IF d = Root THEN "PON_OLT" ELSE "PON_ONU", peers |-> Wire(d)]
        ELSE [no |-> p, type |-> IF p \in NNI THEN "NNI" ELSE "UNI", peers |-> << >>]
  IN [d \in Devices \ removed |->
        [root |-> d = Root, ports |-> Listing({Port(d, p) : p \in devPorts[d]})]]

LogicalPort(p) == [dev |-> DeviceOf(p), devNo |-> p, no |-> p, root |-> p \in NNI]
LogicalPortsOf(s) == [i \in DOMAIN s |-> LogicalPort(s[i].no)]

(***************************************************************************)
(* updateLogicalDeviceWithoutLock stores new ports.  The callback of the   *)
(* update, portUpdated, takes the difference of the two lists and tells    *)
(* the controller of every port that is new, changed or deleted.  An event *)
(* is sent by a goroutine of its own: told is the last event issued, not   *)
(* the last one delivered.  The callback is registered by start after the  *)
(* goroutine that adds the first ports was begun; missed has the ports     *)
(* that were changed before that.                                          *)
(***************************************************************************)
StateOf(s, p) == LET lp == s[CHOOSE i \in DOMAIN s : s[i].no = p] IN <<lp.up, lp.live>>

\* Mutant: a port that changed is not reported.
DiffWithoutChanges(old, new) ==
  [new |-> Numbers(new) \ Numbers(old), changed |-> {}, deleted |-> Numbers(old) \ Numbers(new)]

Diff(old, new) ==
  [new |-> Numbers(new) \ Numbers(old),
   changed |-> {p \in Numbers(new) \cap Numbers(old) : StateOf(new, p) # StateOf(old, p)},
   deleted |-> Numbers(old) \ Numbers(new)]

PortUpdated(old, new) ==
  LET d == Diff(old, new)
      all == d.new \cup d.changed \cup d.deleted
  IN /\ told' = [p \in PortNo |-> IF ~watched \/ p \notin all THEN told[p]
                                  ELSE IF p \in d.deleted THEN << >> ELSE StateOf(new, p)]
     /\ missed' = IF watched THEN missed \ all ELSE missed \cup all

UpdateLogicalDevice(new) == ports' = new /\ PortUpdated(ports, new)

\* The ports with the state of those in a set changed, and without a device's.
WithState(set, up) ==
  [i \in DOMAIN ports |-> IF ports[i].no \in set THEN [ports[i] EXCEPT !.up = up, !.live = up] ELSE ports[i]]
Without(d) == Only(ports, {lp \in Range(ports) : DeviceOf(lp.no) # d})

-----------------------------------------------------------------------------
(***************************************************************************)
(* Requests of the adapters and of the northbound API.                     *)
(***************************************************************************)
\* A port that exists already is not stored again, but its goroutine runs.
\* addPeerPort finds the root's port by the number of the child's.
AddDevicePort(d, p) ==
  /\ Request
  /\ d \notin removed
  /\ p \in PortsOf(d) \cup {Pon}
  /\ devPorts' = [devPorts EXCEPT ![d] = @ \cup {p}]
  /\ peers' = IF d # Root /\ p = Pon /\ Pon \in devPorts[Root] THEN peers \cup {d} ELSE peers
  /\ Spawn({Go("updateLogicalPort", d, {p})})
  /\ UNCHANGED <<ready, starting, removed, logical, disturbed>>

\* A child that is being deleted: ChildDeviceLost, DeleteLogicalPorts and
\* RunPostDeviceDelete run one after the other in a goroutine.
Deleting(c) == \E t \in Alive :
  t.dev = c /\ t.op \in {"ChildDeviceLost", "DeleteLogicalPorts", "RunPostDeviceDelete"}

\* enableDevice, and updateDeviceStatus to ACTIVATING or DISCOVERED.
Enable(d) ==
  /\ Request
  /\ d \notin starting \cup removed /\ ~Deleting(d)
  /\ ready' = ready \ {d}
  /\ starting' = starting \cup {d}
  /\ UNCHANGED <<devPorts, peers, removed, logical, tasks, disturbed>>

\* updateDeviceStatus to ACTIVE, and the handler that the transition from ACTIVATING or
\* DISCOVERED runs with the device as it is then stored.  From any other state no
\* handler runs, and a UNI port that has no logical port by then gets none.
Activate(d) ==
  /\ Request
  /\ d \notin ready \cup removed /\ ~Deleting(d)
  /\ ready' = ready \cup {d}
  /\ starting' = starting \ {d}
  /\ \/ /\ d \in starting
        /\ Spawn({[Go(IF d = Root THEN "CreateLogicalDevice" ELSE "SetupUNILogicalPorts", d,
                      devPorts[d] \cap UNI) EXCEPT !.ready = TRUE]})
        /\ UNCHANGED disturbed
     \/ /\ d \notin starting
        /\ disturbed' = IF ldevice = "ready" /\ ~(devPorts[d] \cap UNI \subseteq Numbers(ports))
                          THEN disturbed \cup {d} ELSE disturbed
        /\ UNCHANGED tasks
  /\ UNCHANGED <<devPorts, peers, removed, logical>>

\* disableDevice, and updateDeviceStatus to a state other than those.
Deactivate(d) ==
  /\ Request
  /\ d \in ready \cup starting
  /\ ready' = ready \ {d}
  /\ starting' = starting \ {d}
  /\ UNCHANGED <<devPorts, peers, removed, logical, tasks, disturbed>>

\* updatePortState: the logical port is changed by a goroutine.
UpdateDevicePortState(p, up) ==
  /\ Request
  /\ p \in devPorts[DeviceOf(p)]
  /\ Spawn({[Go("updatePortState", DeviceOf(p), {p}) EXCEPT !.up = up, !.ld = TRUE]})
  /\ UNCHANGED <<device, logical, disturbed>>

\* updatePortsState of all ports of a device, in the call itself.
UpdateDevicePortsState(d, up) ==
  /\ Request
  /\ d \notin removed
  /\ UpdateLogicalDevice(WithState(PortsOf(d), up))
  /\ UNCHANGED <<device, ldevice, watched, portsNo, created, dr, tasks, disturbed>>

\* deleteAllPorts, of a device that is disabled.
DeleteAllPorts(d) ==
  /\ Request
  /\ d \notin ready \cup starting \cup removed
  /\ devPorts' = [devPorts EXCEPT ![d] = {}]
  /\ peers' = IF d = Root THEN {} ELSE peers
  /\ Spawn({Go("deleteAllLogicalPorts", d, {})})
  /\ disturbed' = IF d = Root THEN Devices ELSE disturbed \cup {d}
  /\ UNCHANGED <<ready, starting, removed, logical>>

\* A child is deleted.
DeleteChild(c) ==
  /\ Request
  /\ c \notin removed /\ ~Deleting(c)
  /\ ready' = ready \ {c}
  /\ starting' = starting \ {c}
  /\ Spawn({Go("ChildDeviceLost", c, {})})
  /\ disturbed' = disturbed \cup {c}
  /\ UNCHANGED <<devPorts, peers, removed, logical>>

\* enableLogicalPort and disableLogicalPort.
SetLogicalPort(p, up) ==
  /\ Request
  /\ PortExist(p)
  /\ UpdateLogicalDevice([i \in DOMAIN ports |-> IF ports[i].no = p THEN [ports[i] EXCEPT !.up = up] ELSE ports[i]])
  /\ UNCHANGED <<device, ldevice, watched, portsNo, created, dr, tasks, disturbed>>

\* What every change of the flow, group and meter tables does first.
GenerateDeviceRoutesIfNeeded ==
  /\ Request
  /\ ldevice = "ready"
  /\ ~(created /\ IsUpToDate(dr, ports))
  /\ created' = TRUE
  /\ dr' = ComputeRoutes(dr, LogicalPortsOf(ports), Model).dr
  /\ UNCHANGED <<device, ldevice, watched, ports, portsNo, told, missed, tasks, disturbed>>

\* The core stops, and starts again from what is stored: start with loadFromdB.
\* A logical device that was not stored is not created again, for the root has
\* its ParentId.
Restart ==
  /\ Request
  /\ tasks' = IF ldevice = "ready"
                THEN [t \in {Go("RegisterCallback", Root, {}), Go("buildRoutes", Root, {})} |-> 1]
                ELSE << >>
  /\ watched' = FALSE
  /\ portsNo' = [p \in Numbers(ports) |-> p \in NNI]
  /\ created' = FALSE
  /\ dr' = NewDeviceRoutes
  /\ disturbed' = Devices
  /\ UNCHANGED <<device, ldevice, ports, told, missed>>

-----------------------------------------------------------------------------
(***************************************************************************)
(* Steps of the goroutines.                                                *)
(***************************************************************************)
Has(t, ops) == t.op \in ops

\* createLogicalDevice puts the agent into the map, sets the root's ParentId
\* and starts the agent in a goroutine.
CreateLogicalDevice(t) ==
  /\ Has(t, {"CreateLogicalDevice"})
  /\ IF ldevice = "none"
       THEN ldevice' = "starting" /\ Becomes(t, {Go("start", Root, {})})
       ELSE ldevice' = ldevice /\ Ends(t)
  /\ UNCHANGED <<device, watched, ports, portsNo, created, dr, told, missed, disturbed>>

\* start asks the adapter for the switch capability and stores the logical
\* device; the ports are set up in a goroutine while start goes on.
StartLogicalDevice(t) ==
  /\ Has(t, {"start"})
  /\ \/ /\ MayFail
        /\ Ends(t)
        /\ ldevice' = ldevice
     \/ /\ ldevice' = "ready"
        /\ Becomes(t, {Go("setupLogicalPorts", Root, {}), Go("RegisterCallback", Root, {})})
  /\ UNCHANGED <<device, watched, ports, portsNo, created, dr, told, missed, disturbed>>

RegisterCallback(t) ==
  /\ Has(t, {"RegisterCallback"})
  /\ watched' = TRUE
  /\ Ends(t)
  /\ UNCHANGED <<device, ldevice, ports, portsNo, created, dr, told, missed, disturbed>>

\* The logical device's agent, when the call finds one that is ready.
FindsAgent(t) == t.ld /\ ldevice = "ready"

SetupLogicalPorts(t) ==
  /\ Has(t, {"setupLogicalPorts"})
  /\ Becomes(t, {Go("setupNNILogicalPorts", Root, devPorts[Root] \cap NNI)})
  /\ UNCHANGED <<device, logical, disturbed>>

\* updateLogicalPort and setupUNILogicalPorts look up the agent.
LookUpAgent(t) ==
  /\ Has(t, {"updateLogicalPort", "SetupUNILogicalPorts"})
  /\ \/ ~FindsAgent(t) /\ Ends(t)
     \/ /\ FindsAgent(t)
        /\ Becomes(t, {IF Pon \in t.todo THEN Go("buildRoutes", Root, {})
                       ELSE [t EXCEPT !.op = IF @ = "updateLogicalPort" THEN "addPort"
                                             ELSE "setupUNILogicalPorts"]})
  /\ UNCHANGED <<device, logical, disturbed>>

\* Loops that call addNNILogicalPort or addUNILogicalPort for each port in todo.
Loops == {"addPort", "setupNNILogicalPorts", "setupUNILogicalPorts"}

\* What a loop does next about a port when the call added nothing: only
\* setupUNILogicalPorts then makes no entry in the map.
NotAdded(t, p) ==
  IF t.op = "setupUNILogicalPorts" THEN [t EXCEPT !.todo = @ \ {p}, !.at = "check"]
  ELSE [t EXCEPT !.port = p, !.at = "map", !.failed = FALSE]

\* The device must be ready and the port not there; then its capability is
\* asked for, without the lock.
CheckPort(t) ==
  /\ Has(t, Loops) /\ t.at = "check"
  /\ \E p \in t.todo :
       Becomes(t, {IF ~t.ready \/ PortExist(p) THEN NotAdded(t, p)
                   ELSE [t EXCEPT !.port = p, !.at = "add"]})
  /\ UNCHANGED <<device, logical, disturbed>>

\* Mutant: the second look for the port is left out.
AddLogicalPortUnchecked(t) ==
  /\ Has(t, Loops) /\ t.at = "add"
  /\ UpdateLogicalDevice(Append(ports, [no |-> t.port, up |-> TRUE, live |-> TRUE]))
  /\ Becomes(t, {[t EXCEPT !.at = "map", !.failed = FALSE], Go("updateRoutes", t.dev, {t.port})})
  /\ UNCHANGED <<device, ldevice, watched, portsNo, created, dr, disturbed>>

\* The capability is there: under the lock the port is looked for again, and
\* stored.  updateLogicalPort returns on an error, the other two go on.
AddLogicalPort(t) ==
  /\ Has(t, Loops) /\ t.at = "add"
  /\ \/ /\ MayFail
        /\ IF t.op = "addPort" THEN Ends(t)
           ELSE Becomes(t, {[NotAdded(t, t.port) EXCEPT !.failed = TRUE]})
        /\ disturbed' = IF t.op = "setupNNILogicalPorts" THEN Devices ELSE disturbed \cup {t.dev}
        /\ UNCHANGED <<ports, told, missed>>
     \/ /\ PortExist(t.port)
        /\ Becomes(t, {NotAdded(t, t.port)})
        /\ UNCHANGED <<ports, told, missed, disturbed>>
     \/ /\ ~PortExist(t.port)
        /\ UpdateLogicalDevice(Append(ports, [no |-> t.port, up |-> TRUE, live |-> TRUE]))
        /\ Becomes(t, {[t EXCEPT !.at = "map", !.failed = FALSE], Go("updateRoutes", t.dev, {t.port})})
        /\ UNCHANGED disturbed
  /\ UNCHANGED <<device, ldevice, watched, portsNo, created, dr>>

\* Mutant: only NNI ports are put into the map.
MapPortNNIOnly(t) ==
  /\ Has(t, Loops) /\ t.at = "map"
  /\ portsNo' = IF t.port \in NNI THEN Put(portsNo, [p \in {t.port} |-> TRUE]) ELSE portsNo
  /\ Becomes(t, {[t EXCEPT !.todo = @ \ {t.port}, !.port = 0, !.at = "check"]})
  /\ UNCHANGED <<device, ldevice, watched, ports, created, dr, told, missed, disturbed>>

\* addLogicalPortToMap
MapPort(t) ==
  /\ Has(t, Loops) /\ t.at = "map"
  /\ portsNo' = Put(portsNo, [p \in {t.port} |-> p \in NNI])
  /\ Becomes(t, {[t EXCEPT !.todo = @ \ {t.port}, !.port = 0, !.at = "check"]})
  /\ UNCHANGED <<device, ldevice, watched, ports, created, dr, told, missed, disturbed>>

\* Mutant: the children are left to the reports of their own ports.
EndLoopNNIOnly(t) ==
  /\ Has(t, Loops) /\ t.at = "check" /\ t.todo = {}
  /\ Ends(t)
  /\ UNCHANGED <<device, logical, disturbed>>

\* After the NNI ports, unless the last of them failed, setupLogicalPorts reads
\* the children and sets up the ports of each in a goroutine.
EndLoop(t) ==
  /\ Has(t, Loops) /\ t.at = "check" /\ t.todo = {}
  /\ Becomes(t, IF t.op # "setupNNILogicalPorts" \/ t.failed THEN {}
                ELSE {Go("setupUNILogicalPorts", c, devPorts[c] \cap UNI) : c \in peers \ removed})
  /\ UNCHANGED <<device, logical, disturbed>>

BuildRoutes(t) ==
  /\ Has(t, {"buildRoutes"})
  /\ created' = TRUE
  /\ dr' = ComputeRoutes(dr, LogicalPortsOf(ports), Model).dr
  /\ Ends(t)
  /\ UNCHANGED <<device, ldevice, watched, ports, portsNo, told, missed, disturbed>>

UpdateRoutes(t) ==
  /\ Has(t, {"updateRoutes"})
  /\ created' = TRUE
  /\ \E p \in t.todo :
       dr' = AddPort(dr, LogicalPort(p), LogicalPortsOf(ports), Model).dr
  /\ Ends(t)
  /\ UNCHANGED <<device, ldevice, watched, ports, portsNo, told, missed, disturbed>>

UpdatePortState(t) ==
  /\ Has(t, {"updatePortState"})
  /\ UpdateLogicalDevice(IF FindsAgent(t) /\ t.dev \notin removed THEN WithState(t.todo, t.up) ELSE ports)
  /\ Ends(t)
  /\ UNCHANGED <<device, ldevice, watched, portsNo, created, dr, disturbed>>

\* The ports go; the map of numbers and the routes stay.
DeleteAllLogicalPorts(t) ==
  /\ Has(t, {"deleteAllLogicalPorts"})
  /\ UpdateLogicalDevice(IF FindsAgent(t) THEN Without(t.dev) ELSE ports)
  /\ Ends(t)
  /\ UNCHANGED <<device, ldevice, watched, portsNo, created, dr, disturbed>>

\* The three handlers of a child's deletion.
ChildDeviceLost(t) ==
  /\ Has(t, {"ChildDeviceLost"})
  /\ peers' = peers \ {t.dev}
  /\ Becomes(t, {[t EXCEPT !.op = "DeleteLogicalPorts"]})
  /\ UNCHANGED <<ready, starting, devPorts, removed, logical, disturbed>>

DeleteLogicalPorts(t) ==
  /\ Has(t, {"DeleteLogicalPorts"})
  /\ IF ~FindsAgent(t)
       THEN Becomes(t, {[t EXCEPT !.op = "RunPostDeviceDelete"]}) /\ UNCHANGED <<ports, portsNo, told, missed>>
       ELSE /\ UpdateLogicalDevice(Without(t.dev))
            /\ portsNo' = Restrict(portsNo, DOMAIN portsNo \ (PortsOf(t.dev) \cap Numbers(ports)))
            /\ Becomes(t, {[t EXCEPT !.op = "RunPostDeviceDelete"], Go("buildRoutes", Root, {})})
  /\ UNCHANGED <<device, ldevice, watched, created, dr, disturbed>>

RunPostDeviceDelete(t) ==
  /\ Has(t, {"RunPostDeviceDelete"})
  /\ removed' = removed \cup {t.dev}
  /\ devPorts' = [devPorts EXCEPT ![t.dev] = {}]
  /\ Ends(t)
  /\ UNCHANGED <<ready, starting, peers, logical, disturbed>>

Step(t) ==
  \/ CreateLogicalDevice(t)
  \/ StartLogicalDevice(t)
  \/ RegisterCallback(t)
  \/ SetupLogicalPorts(t)
  \/ LookUpAgent(t)
  \/ CheckPort(t)
  \/ AddLogicalPort(t)
  \/ MapPort(t)
  \/ EndLoop(t)
  \/ BuildRoutes(t)
  \/ UpdateRoutes(t)
  \/ UpdatePortState(t)
  \/ DeleteAllLogicalPorts(t)
  \/ ChildDeviceLost(t)
  \/ DeleteLogicalPorts(t)
  \/ RunPostDeviceDelete(t)

Goroutine == (\E t \in Alive : Step(t)) /\ UNCHANGED requests

Requests ==
  \/ \E d \in Devices, p \in PortNo \cup {Pon} : AddDevicePort(d, p)
  \/ \E d \in Devices : Enable(d)
  \/ \E d \in Devices : Activate(d)
  \/ \E d \in Devices : Deactivate(d)
  \/ \E p \in PortNo, up \in BOOLEAN : UpdateDevicePortState(p, up)
  \/ \E d \in Devices, up \in BOOLEAN : UpdateDevicePortsState(d, up)
  \/ \E d \in Devices : DeleteAllPorts(d)
  \/ \E c \in Children : DeleteChild(c)
  \/ \E p \in PortNo, up \in BOOLEAN : SetLogicalPort(p, up)
  \/ GenerateDeviceRoutesIfNeeded
  \/ Restart

Next == Requests \/ Goroutine

Spec == Init /\ [][Next]_vars

-----------------------------------------------------------------------------
\* A device port has at most one logical port, however many goroutines were told
\* of it: a report of the adapter, the activation of its device and the creation
\* of the logical device all try to add it.
NoDuplicatePort == Cardinality(Numbers(ports)) = Len(ports)

\* The controller was told what is stored: the last event about a port gives its
\* state, or its deletion, unless the change was made before start registered
\* the callback.
Announced ==
  \A p \in PortNo \ missed :
    told[p] = IF PortExist(p) THEN StateOf(ports, p) ELSE << >>

\* A route enters at its ingress port, leaves at its egress port, and passes from
\* the one device to the other through the PON ports that join them, in both
\* directions, whichever of ComputeRoutes, AddPort and the copying of an NNI
\* port's routes has made it.
RoutesFollowWires ==
  \A k \in DOMAIN dr.routes :
    /\ {k[1], k[2]} \cap NNI # {} /\ {k[1], k[2]} \cap UNI # {}
    /\ dr.routes[k] = <<Hop(DeviceOf(k[1]), k[1], Pon), Hop(DeviceOf(k[2]), Pon, k[2])>>

Pending(ops) == \E t \in Alive : t.op \in ops

\* When IsUpToDate, which compares numbers only, says that nothing is to be done,
\* and no goroutine has routes left to compute, then the routes are those of the
\* ports that are there: one in each direction between each NNI and each UNI.
UpToDateMeansCurrent ==
  (created /\ ~Pending({"updateRoutes", "buildRoutes"})) =>
    (IsUpToDate(dr, ports) =>
       DOMAIN dr.routes = {k \in Numbers(ports) \X Numbers(ports) : (k[1] \in NNI) # (k[2] \in NNI)})

\* A logical port is in the map of port numbers, as an NNI port if it is one, or the
\* goroutine that stored it is about to put it there.
MapKnowsPorts ==
  \A p \in Numbers(ports) :
    \/ p \in DOMAIN portsNo /\ portsNo[p] = (p \in NNI)
    \/ \E t \in Alive : t.at = "map" /\ t.port = p

\* Once all goroutines are done, a UNI port of a child that is active has its
\* logical port, in whichever order the port was reported, the child and the
\* root became active and the logical device was created; calls that failed, a
\* crash, the deletion of ports and a child that came back to ACTIVE without a
\* handler while a port of it was missing aside.
UNIPortsSettle ==
  (ldevice = "ready" /\ Alive = {}) =>
    \A u \in UNI : (DeviceOf(u) \in ready \ disturbed /\ u \in devPorts[DeviceOf(u)]) => PortExist(u)
===============================================================================
