--------------------------- MODULE DeviceLifecycle ---------------------------
(***************************************************************************)
(* The life of a root device (an OLT), of its child devices (ONUs) and of  *)
(* the logical device that stands for them, in one core: the operations of *)
(* DeviceManager and DeviceAgent that the northbound API and the adapters  *)
(* call, and the goroutines that run the handlers of the state machine.    *)
(*                                                                         *)
(* An operation of an agent holds the agent's lock from its first read to  *)
(* its last store, the call to the adapter included, so it is one step.    *)
(* What a handler does to several agents takes one step for each of them.  *)
(* An agent caches what it stored, so store[d] stands for both copies.     *)
(* The data model ignores an update of a device it does not have, so a     *)
(* request or report for an agent whose record is gone, or was never       *)
(* stored, changes nothing but that cache, and is no step.  A write that   *)
(* fails, or that the adapter refuses first, is no step either.            *)
(*                                                                         *)
(* Logical ports and flows are not in this module.  Of the images it has   *)
(* the adapters' reports: downloadImage stores nothing in a record without *)
(* images, so no record ever gets one, and DOWNLOADING_IMAGE cannot occur. *)
(***************************************************************************)
EXTENDS DeviceTransitions

CONSTANTS
  Root,            \* the root device's id
  Children,        \* the ids the core can give to the child devices
  Routines,        \* goroutines that can be alive at the same time (a bound)
  OperReports,     \* the operational states the adapters report
  CallsMayFail,    \* whether calls to the adapters and the KV store can fail
  CoreMayRestart,  \* whether the core can restart
  ImageReports     \* the devices on whose images the adapters report

Devices == {Root} \cup Children

ASSUME RootAssumption == Root \notin Children
ASSUME RoutinesAssumption == Routines \cap {"none", "failed", "ready", "stopped"} = {}
ASSUME OperReportsAssumption == OperReports \subseteq OperStatus
ASSUME ImageReportsAssumption == ImageReports \subseteq Devices
ASSUME FlagsAssumption == CallsMayFail \in BOOLEAN /\ CoreMayRestart \in BOOLEAN

VARIABLES
  store,     \* the admin and oper state of each device in the data model
  agents,    \* deviceAgents: what each device's agent in the map is
  peers,     \* the children among the peers of the root device's ports
  parentId,  \* whether the root's ParentId names the logical device
  ldAgent,   \* the logical device's agent: "none", the goroutine that starts
             \* it, "failed" (in the map, never started), "ready" or "stopped"
  ldStored,  \* whether the logical device is in the data model
  adopted,   \* the devices the core has told an adapter of, which can report on them
  task,      \* what each goroutine is doing
  revived    \* history: the devices that a report took out of DELETED

vars == <<store, agents, peers, parentId, ldAgent, ldStored, adopted, task, revived>>
logical == <<parentId, ldAgent, ldStored>>

(***************************************************************************)
(* An agent is "new" from addDeviceAgentToMap until its start has stored   *)
(* the record; "failed" when that store failed, which leaves it in the     *)
(* map; "deaf" when its start failed after the store, or its stop could    *)
(* not remove the record: processUpdate is not registered; "stopped" once  *)
(* stop has removed the record and filled exitChannel, which nobody reads. *)
(***************************************************************************)
AgentState == {"none", "new", "failed", "deaf", "ready", "stopped"}

\* A device that does not exist yet is "NONE", one that was taken out "REMOVED".
LiveAdmin == {"PREPROVISIONED", "ENABLED", "DISABLED", "DELETED"}
Record == [admin : LiveAdmin \cup {"NONE", "REMOVED"}, oper : OperStatus]

Rec(admin, oper) == [admin |-> admin, oper |-> oper]

Live(d) == store[d].admin \in LiveAdmin

\* The agent is in the map and serves a record.
Managed(d) == agents[d] \in {"deaf", "ready"}

\* The handlers that clean up a deleted device and the steps they take;
\* "Blocked" is a goroutine that sends on a full exitChannel.
CleanupOp == {"DisableAllChildDevices", "DeleteAllChildDevices", "DeleteLogicalDevice",
              "ForgetLogicalDevice", "ChildDeviceLost", "DeleteLogicalPorts",
              "RunPostDeviceDelete", "StopAgent", "ForgetAgent", "Blocked"}

\* A goroutine that starts the agent of a new device.
StartOp == {"StartDevice", "StartChild"}

LogicalOp == {"CreateLogicalDevice", "StartLogicalDevice", "AddLogicalDevice"}

Op == CleanupOp \cup StartOp \cup LogicalOp \cup
        {"idle", "EnableChild", "childDevicesLost", "childDevicesDetected",
         "deletePeerPorts"}

(***************************************************************************)
(* A goroutine: the step it is at, the device it is about, the part of the *)
(* device that was handed to it (its peers, whether it has a ParentId) and *)
(* for a loop over children the ones left and the last call's error.  In   *)
(* "ForgetLogicalDevice", ld tells deleteLogicalDevice from the stop of    *)
(* stopManagingDevice.                                                     *)
(***************************************************************************)
Task == [op : Op, dev : Devices, peers : SUBSET Children, ld : BOOLEAN,
         todo : SUBSET Children, failed : BOOLEAN]

Routine(op, d) ==
  [op |-> op, dev |-> d, peers |-> {}, ld |-> FALSE, todo |-> {}, failed |-> FALSE]

Idle == Routine("idle", Root)

Init ==
  /\ store = [d \in Devices |-> Rec("NONE", "UNKNOWN")]
  /\ agents = [d \in Devices |-> "none"]
  /\ peers = {}
  /\ parentId = FALSE
  /\ ldAgent = "none"
  /\ ldStored = FALSE
  /\ adopted = {}
  /\ task = [r \in Routines |-> Idle]
  /\ revived = {}

\* Whether a call to an adapter returns an error.
Error == IF CallsMayFail THEN BOOLEAN ELSE {FALSE}

Agent(d, state) == [agents EXCEPT ![d] = state]

\* Goroutine r goes on with the task t, or ends when t is Idle.
Goes(r, t) == [task EXCEPT ![r] = t]

\* go func(): some goroutine that is not alive in tasks starts with t.
Spawn(tasks, t) ==
  \E s \in Routines : tasks[s].op = "idle" /\ task' = [tasks EXCEPT ![s] = t]

(***************************************************************************)
(* updateDeviceInStoreWithoutLock: the store, and the goroutine in which   *)
(* processUpdate, when it is registered, runs the handlers that the change *)
(* selects.  The handlers that only report, or only set up logical ports,  *)
(* change nothing here.                                                    *)
(***************************************************************************)
Selected(d, rec) == Handlers(d = Root, store[d], rec)

RunsHandlers(h) ==
  h # << >> /\ h[1] \notin {"NotifyInvalidTransition", "SetupUNILogicalPorts"}

Update(d, rec, tasks) ==
  /\ store' = [store EXCEPT ![d] = rec]
  /\ LET h == Selected(d, rec)
     IN IF agents[d] = "ready" /\ RunsHandlers(h)
          THEN Spawn(tasks, [Routine(h[1], d) EXCEPT !.peers = IF d = Root THEN peers ELSE {},
                                                     !.ld = d = Root /\ parentId,
                                                     !.todo = IF d = Root THEN peers ELSE {}])
          ELSE task' = tasks

-----------------------------------------------------------------------------
(***************************************************************************)
(* Requests of the northbound API.  A request for a device that has no     *)
(* agent in memory loads it first (LoadDevice below); a refused request    *)
(* stores nothing and is no step.                                          *)
(***************************************************************************)
CreateDevice ==
  /\ store[Root].admin = "NONE"
  /\ agents[Root] = "none"
  /\ agents' = Agent(Root, "new")
  /\ Spawn(task, Routine("StartDevice", Root))
  /\ UNCHANGED <<store, peers, logical, adopted, revived>>

\* agent.start of a new device, followed by the task t.  An error leaves the
\* agent in the map: before the record is stored, or after it.
Start(r, t) ==
  LET d == task[r].dev
  IN /\ \/ /\ store' = [store EXCEPT ![d] = Rec("PREPROVISIONED", "UNKNOWN")]
           /\ \/ agents' = Agent(d, "ready") /\ task' = Goes(r, t)
              \/ CallsMayFail /\ agents' = Agent(d, "deaf") /\ task' = Goes(r, Idle)
        \/ /\ CallsMayFail
           /\ agents' = Agent(d, "failed")
           /\ task' = Goes(r, Idle)
           /\ UNCHANGED store
     /\ UNCHANGED <<peers, logical, adopted, revived>>

StartDevice(r) == task[r].op = "StartDevice" /\ Start(r, Idle)

\* Mutant of EnableWith: a deleted device is not refused.
EnableWithDeleted(d, tasks) ==
  /\ store[d].admin # "ENABLED"
  /\ Update(d, Rec("ENABLED", "ACTIVATING"), tasks)
  /\ adopted' = adopted \cup {d}
  /\ UNCHANGED <<agents, peers, logical, revived>>

\* The device is stored before the adapter is called: whether the call fails
\* changes nothing.
EnableWith(d, tasks) ==
  /\ store[d].admin \notin {"ENABLED", "DELETED"}
  /\ Update(d, Rec("ENABLED", "ACTIVATING"), tasks)
  /\ adopted' = adopted \cup {d}
  /\ UNCHANGED <<agents, peers, logical, revived>>

EnableDevice(d) == Managed(d) /\ EnableWith(d, task)

\* Mutant of DisableWith: a preprovisioned device is not refused.
DisableWithPreprovisioned(d, tasks) ==
  /\ store[d].admin \in {"ENABLED", "PREPROVISIONED"}
  /\ Update(d, Rec("DISABLED", "UNKNOWN"), tasks)
  /\ UNCHANGED <<agents, peers, logical, adopted, revived>>

DisableWith(d, tasks) ==
  /\ store[d].admin = "ENABLED"
  /\ Update(d, Rec("DISABLED", "UNKNOWN"), tasks)
  /\ UNCHANGED <<agents, peers, logical, adopted, revived>>

DisableDevice(d) == Managed(d) /\ DisableWith(d, task)

\* A device that was enabled before is stored as deleted once the adapter agreed.
DeleteWith(d, tasks) ==
  /\ store[d].admin # "DELETED"
  /\ Update(d, Rec("DELETED", store[d].oper), tasks)
  /\ UNCHANGED <<agents, peers, logical, adopted, revived>>

DeleteDevice(d) == Managed(d) /\ DeleteWith(d, task)

-----------------------------------------------------------------------------
(***************************************************************************)
(* Requests of the adapters, on the devices they were told of.             *)
(***************************************************************************)
Reported(d) == Managed(d) /\ d \in adopted

\* updateDeviceStatus does not look at the administrative state.
UpdateDeviceStatus(d, oper) ==
  /\ Reported(d)
  /\ oper # store[d].oper
  /\ Update(d, Rec(store[d].admin, oper), task)
  /\ UNCHANGED <<agents, peers, logical, adopted, revived>>

\* Neither does updateImageDownload, which enables the device unless the image
\* is being downloaded or activated.
UpdateImageDownload(d) ==
  /\ Reported(d)
  /\ store[d].admin # "ENABLED"
  /\ Update(d, Rec("ENABLED", store[d].oper), task)
  /\ revived' = IF store[d].admin = "DELETED" THEN revived \cup {d} ELSE revived
  /\ UNCHANGED <<agents, peers, logical, adopted>>

\* childDeviceDetected finds the parent, then creates the child with a new id.
ChildDeviceDetected(c) ==
  /\ Reported(Root)
  /\ store[c].admin = "NONE"
  /\ agents[c] = "none"
  /\ agents' = Agent(c, "new")
  /\ Spawn(task, Routine("StartChild", c))
  /\ UNCHANGED <<store, peers, logical, adopted, revived>>

StartChild(r) ==
  task[r].op = "StartChild" /\ Start(r, Routine("EnableChild", task[r].dev))

EnableChild(r) ==
  LET c == task[r].dev
  IN /\ task[r].op = "EnableChild"
     /\ \/ Managed(c) /\ EnableWith(c, Goes(r, Idle))
        \/ /\ ~Managed(c) \/ store[c].admin \in {"ENABLED", "DELETED"} \/ CallsMayFail
           /\ task' = Goes(r, Idle)
           /\ UNCHANGED <<store, agents, peers, logical, adopted, revived>>

\* Mutant of AddPort: the root is made its own peer.
AddPortSwapped(c) ==
  /\ Reported(c)
  /\ Managed(Root)
  /\ peers' = peers \cup {Root}
  /\ UNCHANGED <<store, agents, logical, adopted, task, revived>>

\* addPort of the child's PON port, addPeerPort on the root's port of that number.
AddPort(c) ==
  /\ Reported(c)
  /\ Managed(Root)
  /\ peers' = peers \cup {c}
  /\ UNCHANGED <<store, agents, logical, adopted, task, revived>>

DeleteAllPorts ==
  /\ Reported(Root)
  /\ store[Root].admin \in {"DISABLED", "DELETED"}
  /\ peers' = {}
  /\ UNCHANGED <<store, agents, logical, adopted, task, revived>>

\* The loops over the children run on the peers the root has at this moment.
ChildDevices(op) ==
  /\ Reported(Root)
  /\ peers # {}
  /\ Spawn(task, [Routine(op, Root) EXCEPT !.todo = peers])
  /\ UNCHANGED <<store, agents, peers, logical, adopted, revived>>

-----------------------------------------------------------------------------
(***************************************************************************)
(* A restart of the core loses the agents and the goroutines.  A device or *)
(* logical device is loaded again when a request or a handler needs it.  A *)
(* load that fails in agent.start goes on to agent.stop, which calls a nil *)
(* deviceProxy: the core ends, so that is a restart, too.                  *)
(***************************************************************************)
Restart ==
  /\ CoreMayRestart
  /\ agents' = [d \in Devices |-> "none"]
  /\ ldAgent' = "none"
  /\ task' = [r \in Routines |-> Idle]
  /\ UNCHANGED <<store, peers, parentId, ldStored, adopted, revived>>

LoadDevice(d) ==
  /\ agents[d] = "none"
  /\ Live(d)
  /\ agents' = Agent(d, "ready")
  /\ UNCHANGED <<store, peers, logical, adopted, task, revived>>

LoadLogicalDevice ==
  /\ ldAgent = "none"
  /\ ldStored
  /\ ldAgent' = "ready"
  /\ UNCHANGED <<store, agents, peers, parentId, ldStored, adopted, task, revived>>

\* load returns an error when a device that goes with d is not in the data model.
LoadError(d) ==
  /\ store[d].admin \in {"ENABLED", "DISABLED"}
  /\ \/ ~Live(Root)
     \/ store[Root].admin \in {"ENABLED", "DISABLED"} /\ \E c \in peers : ~Live(c)

\* getDeviceAgent returns nil, or an agent.
NoAgent(d) == agents[d] = "none" /\ (~Live(d) \/ LoadError(d))

HasAgent(d) == agents[d] # "none"

\* A goroutine that is blocked in stop holds the agent's lock.
Locked(d) == \E s \in Routines : task[s].op = "Blocked" /\ task[s].dev = d

-----------------------------------------------------------------------------
(***************************************************************************)
(* The handlers of a deleted device, each followed by the next one unless  *)
(* it returns an error.                                                    *)
(*                                                                         *)
(* DisableAllChildDevices and childDevicesLost: the error returned is the  *)
(* one of the last child that has an agent.  What an agent that was        *)
(* stopped, and is still in the map, answers depends on its cache.         *)
(***************************************************************************)
DisableChild(r) ==
  LET t == task[r]
  IN /\ t.op \in {"DisableAllChildDevices", "childDevicesLost"}
     /\ \E c \in t.todo :
          LET Then(failed) == Goes(r, [t EXCEPT !.todo = @ \ {c}, !.failed = failed])
          IN \/ Managed(c) /\ \E err \in Error : DisableWith(c, Then(err))
             \/ /\ \/ NoAgent(c) /\ task' = Then(t.failed)
                   \/ Managed(c) /\ store[c].admin = "DISABLED" /\ task' = Then(FALSE)
                   \/ /\ Managed(c)
                      /\ store[c].admin \in {"PREPROVISIONED", "DELETED"} \/ CallsMayFail
                      /\ task' = Then(TRUE)
                   \/ /\ agents[c] = "stopped" /\ ~Locked(c)
                      /\ \E err \in BOOLEAN : task' = Then(err)
                /\ UNCHANGED <<store, agents, peers, logical, adopted, revived>>

DeleteOneChild(r) ==
  LET t == task[r]
  IN /\ t.op = "DeleteAllChildDevices"
     /\ \E c \in t.todo :
          LET Then(failed) == Goes(r, [t EXCEPT !.todo = @ \ {c}, !.failed = failed])
          IN \/ Managed(c) /\ DeleteWith(c, Then(FALSE))
             \/ /\ \/ NoAgent(c) /\ task' = Then(t.failed)
                   \/ Managed(c) /\ store[c].admin = "DELETED" /\ task' = Then(FALSE)
                   \/ /\ Managed(c) /\ store[c].admin # "DELETED" /\ CallsMayFail
                      /\ task' = Then(TRUE)
                   \/ /\ agents[c] = "stopped" /\ ~Locked(c)
                      /\ \E err \in BOOLEAN : task' = Then(err)
                /\ UNCHANGED <<store, agents, peers, logical, adopted, revived>>

\* childDevicesDetected starts the enabling of every child; each is a step here.
EnableChildren(r) ==
  LET t == task[r]
  IN /\ t.op = "childDevicesDetected"
     /\ \E c \in t.todo :
          LET rest == Goes(r, [t EXCEPT !.todo = @ \ {c}])
          IN \/ Managed(c) /\ EnableWith(c, rest)
             \/ /\ \/ NoAgent(c) \/ agents[c] = "stopped"
                   \/ Managed(c) /\ (store[c].admin \in {"ENABLED", "DELETED"} \/ CallsMayFail)
                /\ task' = rest
                /\ UNCHANGED <<store, agents, peers, logical, adopted, revived>>

LoopDone(r) ==
  LET t == task[r]
  IN /\ t.op \in {"DisableAllChildDevices", "DeleteAllChildDevices", "childDevicesLost",
                   "childDevicesDetected"}
     /\ t.todo = {}
     /\ task' = Goes(r, IF t.op = "DisableAllChildDevices" /\ ~t.failed
                          THEN [t EXCEPT !.op = "DeleteAllChildDevices", !.todo = t.peers]
                        ELSE IF t.op = "DeleteAllChildDevices" /\ ~t.failed
                          THEN [Routine("DeleteLogicalDevice", t.dev) EXCEPT !.ld = t.ld]
                        ELSE Idle)
     /\ UNCHANGED <<store, agents, peers, logical, adopted, revived>>

(***************************************************************************)
(* DeleteLogicalDevice stops the logical device's agent when the device    *)
(* that was deleted had a ParentId and the agent was started, takes it out *)
(* of the map and clears the root's ParentId.  An agent that another       *)
(* goroutine stopped has its exitChannel full.                             *)
(***************************************************************************)
\* The rest of DeleteLogicalDevice: the root's ParentId.
ClearParentId(r) ==
  /\ parentId' \in IF Managed(Root) THEN {FALSE} \cup (IF CallsMayFail THEN {parentId} ELSE {})
                    ELSE {parentId}
  /\ task' = Goes(r, Routine("RunPostDeviceDelete", task[r].dev))

DeleteLogicalDevice(r) ==
  LET found == task[r].ld /\ (ldAgent = "ready" \/ (ldAgent = "none" /\ ldStored))
  IN /\ task[r].op = "DeleteLogicalDevice"
     /\ \/ /\ found
           /\ ldStored' = FALSE
           /\ ldAgent' = "stopped"
           /\ task' = Goes(r, [Routine("ForgetLogicalDevice", task[r].dev) EXCEPT !.ld = TRUE])
           /\ UNCHANGED parentId
        \/ /\ found /\ CallsMayFail
           /\ task' = Goes(r, Idle)
           /\ UNCHANGED logical
        \/ /\ task[r].ld /\ ldAgent = "stopped"
           /\ task' = Goes(r, Routine("Blocked", task[r].dev))
           /\ UNCHANGED logical
        \/ ~found /\ ClearParentId(r) /\ UNCHANGED <<ldAgent, ldStored>>
     /\ UNCHANGED <<store, agents, peers, adopted, revived>>

\* Mutant of ForgetLogicalDevice: the stopped agent stays in the map.
ForgetLogicalDeviceKeeps(r) ==
  /\ task[r].op = "ForgetLogicalDevice"
  /\ \/ task[r].ld /\ ClearParentId(r)
     \/ ~task[r].ld /\ task' = Goes(r, Routine("StopAgent", Root)) /\ UNCHANGED parentId
  /\ UNCHANGED <<store, agents, peers, ldAgent, ldStored, adopted, revived>>

\* The stopped agent of the logical device leaves the map.
ForgetLogicalDevice(r) ==
  /\ task[r].op = "ForgetLogicalDevice"
  /\ ldAgent' = "none"
  /\ \/ task[r].ld /\ ClearParentId(r)
     \/ ~task[r].ld /\ task' = Goes(r, Routine("StopAgent", Root)) /\ UNCHANGED parentId
  /\ UNCHANGED <<store, agents, peers, ldStored, adopted, revived>>

\* The parent's adapter is told first; the peers go in a goroutine of their own.
ChildDeviceLost(r) ==
  LET c == task[r].dev
  IN /\ task[r].op = "ChildDeviceLost"
     /\ \/ /\ NoAgent(Root) \/ (HasAgent(Root) /\ CallsMayFail)
           /\ task' = Goes(r, Idle)
        \/ /\ HasAgent(Root)
           /\ Spawn(Goes(r, Routine("DeleteLogicalPorts", c)), Routine("deletePeerPorts", c))
     /\ UNCHANGED <<store, agents, peers, logical, adopted, revived>>

DeletePeerPorts(r) ==
  /\ task[r].op = "deletePeerPorts"
  /\ \/ HasAgent(Root) /\ ~Locked(Root) /\ peers' = peers \ {task[r].dev}
     \/ (NoAgent(Root) \/ (HasAgent(Root) /\ CallsMayFail)) /\ UNCHANGED peers
  /\ task' = Goes(r, Idle)
  /\ UNCHANGED <<store, agents, logical, adopted, revived>>

\* Mutant of DeleteLogicalPorts: a missing logical device is an error.
DeleteLogicalPortsStrict(r) ==
  /\ task[r].op = "DeleteLogicalPorts"
  /\ \/ /\ HasAgent(Root) /\ ldAgent = "ready"
        /\ task' = Goes(r, Routine("RunPostDeviceDelete", task[r].dev))
     \/ (NoAgent(Root) \/ ldAgent # "ready") /\ task' = Goes(r, Idle)
  /\ UNCHANGED <<store, agents, peers, logical, adopted, revived>>

\* The ports are found through the parent's ParentId: no parent is an error, a
\* logical device that is not there is none.
DeleteLogicalPorts(r) ==
  /\ task[r].op = "DeleteLogicalPorts"
  /\ \/ HasAgent(Root) /\ task' = Goes(r, Routine("RunPostDeviceDelete", task[r].dev))
     \/ (NoAgent(Root) \/ (HasAgent(Root) /\ CallsMayFail)) /\ task' = Goes(r, Idle)
  /\ UNCHANGED <<store, agents, peers, logical, adopted, revived>>

(***************************************************************************)
(* RunPostDeviceDelete, stopManagingDevice: nothing for a device without   *)
(* an agent; for a root first the logical device, whatever its agent's     *)
(* state, ...                                                              *)
(***************************************************************************)
StopLogicalDevice(r) ==
  /\ task[r].op = "RunPostDeviceDelete"
  /\ task[r].dev = Root
  /\ HasAgent(Root)
  /\ \/ /\ ldAgent = "none" \/ CallsMayFail
        /\ task' = Goes(r, Routine("StopAgent", Root))
        /\ UNCHANGED <<ldAgent, ldStored>>
     \/ /\ ldAgent \notin {"none", "stopped"}
        /\ ldAgent' = "stopped"
        /\ ldStored' = FALSE
        /\ task' = Goes(r, Routine("ForgetLogicalDevice", Root))
     \/ /\ ldAgent = "stopped"
        /\ task' = Goes(r, Routine("Blocked", Root))
        /\ UNCHANGED <<ldAgent, ldStored>>
  /\ UNCHANGED <<store, agents, peers, parentId, adopted, revived>>

(***************************************************************************)
(* ... then the device's own agent, which removes the record and sends on  *)
(* exitChannel.  When the record cannot be removed stop returns early, and *)
(* stopManagingDevice goes on all the same.                                *)
(***************************************************************************)
StopAgent(r) ==
  LET d == task[r].dev
  IN /\ \/ task[r].op = "StopAgent"
        \/ task[r].op = "RunPostDeviceDelete" /\ d # Root
     /\ HasAgent(d)
     /\ \/ /\ Managed(d)
           /\ store' = [store EXCEPT ![d] = Rec("REMOVED", "UNKNOWN")]
           /\ agents' = Agent(d, "stopped")
           /\ adopted' = adopted \ {d}
           /\ peers' = IF d = Root THEN {} ELSE peers
           /\ parentId' = (parentId /\ d # Root)
           /\ task' = Goes(r, Routine("ForgetAgent", d))
        \/ /\ Managed(d) /\ CallsMayFail
           /\ agents' = Agent(d, "deaf")
           /\ task' = Goes(r, Routine("ForgetAgent", d))
           /\ UNCHANGED <<store, peers, parentId, adopted>>
        \/ /\ agents[d] = "stopped"
           /\ task' = Goes(r, Routine("Blocked", d))
           /\ UNCHANGED <<store, agents, peers, parentId, adopted>>
     /\ UNCHANGED <<ldAgent, ldStored, revived>>

\* Mutant of ForgetAgent: the stopped agent stays in the map.
ForgetAgentKeeps(r) ==
  /\ task[r].op = "ForgetAgent"
  /\ task' = Goes(r, Idle)
  /\ UNCHANGED <<store, agents, peers, logical, adopted, revived>>

\* deleteDeviceAgentFromMap.
ForgetAgent(r) ==
  /\ task[r].op = "ForgetAgent"
  /\ agents' = Agent(task[r].dev, "none")
  /\ task' = Goes(r, Idle)
  /\ UNCHANGED <<store, peers, logical, adopted, revived>>

\* The device is not in the cache, or cannot be loaded again.
NothingToStop(r) ==
  /\ \/ task[r].op = "RunPostDeviceDelete" /\ ~HasAgent(task[r].dev)
     \/ task[r].op = "StopAgent" /\ NoAgent(task[r].dev)
  /\ task' = Goes(r, Idle)
  /\ UNCHANGED <<store, agents, peers, logical, adopted, revived>>

-----------------------------------------------------------------------------
(***************************************************************************)
(* CreateLogicalDevice, on the root's first ACTIVE: the agent is put in    *)
(* the map if there is none, the root gets its ParentId, and a goroutine   *)
(* starts the agent: it asks the adapter for the switch's capabilities and *)
(* then stores the logical device.  Without a MAC address from the adapter *)
(* nothing is created.                                                     *)
(***************************************************************************)
CreateLogicalDevice(r) ==
  LET added == ldAgent = "none"
  IN /\ task[r].op = "CreateLogicalDevice"
     /\ \/ /\ task[r].ld \/ CallsMayFail
           /\ task' = Goes(r, Idle)
           /\ UNCHANGED <<parentId, ldAgent>>
        \/ /\ ~task[r].ld
           /\ HasAgent(Root) /\ ~Locked(Root)
           /\ parentId' = (parentId \/ Managed(Root))
           /\ ldAgent' = IF added THEN r ELSE ldAgent
           /\ task' = Goes(r, Routine("StartLogicalDevice", Root))
        \/ /\ ~task[r].ld
           /\ NoAgent(Root) \/ (HasAgent(Root) /\ CallsMayFail)
           /\ ldAgent' = IF added THEN "failed" ELSE ldAgent
           /\ task' = Goes(r, Idle)
           /\ UNCHANGED parentId
     /\ UNCHANGED <<store, agents, peers, ldStored, adopted, revived>>

\* The goroutine ends without the logical device.
StartFails(r) ==
  /\ task' = Goes(r, Idle)
  /\ ldAgent' = IF ldAgent = r THEN "failed" ELSE ldAgent
  /\ UNCHANGED ldStored

StartLogicalDevice(r) ==
  /\ task[r].op = "StartLogicalDevice"
  /\ \/ /\ HasAgent(Root)
        /\ task' = Goes(r, Routine("AddLogicalDevice", Root))
        /\ UNCHANGED <<ldAgent, ldStored>>
     \/ (NoAgent(Root) \/ (HasAgent(Root) /\ CallsMayFail)) /\ StartFails(r)
  /\ UNCHANGED <<store, agents, peers, parentId, adopted, revived>>

AddLogicalDevice(r) ==
  /\ task[r].op = "AddLogicalDevice"
  /\ \/ /\ ldStored' = TRUE
        /\ ldAgent' = IF ldAgent = r THEN "ready" ELSE ldAgent
        /\ task' = Goes(r, Idle)
     \/ CallsMayFail /\ StartFails(r)
  /\ UNCHANGED <<store, agents, peers, parentId, adopted, revived>>

-----------------------------------------------------------------------------
\* A step of goroutine r.
Step(r) ==
  \/ StartDevice(r) \/ StartChild(r) \/ EnableChild(r)
  \/ DisableChild(r) \/ DeleteOneChild(r) \/ EnableChildren(r) \/ LoopDone(r)
  \/ ChildDeviceLost(r) \/ DeletePeerPorts(r) \/ DeleteLogicalPorts(r)
  \/ DeleteLogicalDevice(r) \/ ForgetLogicalDevice(r)
  \/ StopLogicalDevice(r) \/ StopAgent(r) \/ ForgetAgent(r) \/ NothingToStop(r)
  \/ CreateLogicalDevice(r) \/ StartLogicalDevice(r) \/ AddLogicalDevice(r)

Next ==
  \/ CreateDevice
  \/ \E d \in Devices : EnableDevice(d) \/ DisableDevice(d) \/ DeleteDevice(d)
  \/ \E d \in Devices, oper \in OperReports : UpdateDeviceStatus(d, oper)
  \/ \E d \in ImageReports : UpdateImageDownload(d)
  \/ \E c \in Children : ChildDeviceDetected(c) \/ AddPort(c)
  \/ DeleteAllPorts
  \/ \E op \in {"childDevicesLost", "childDevicesDetected"} : ChildDevices(op)
  \/ Restart
  \/ \E d \in Devices : LoadDevice(d)
  \/ LoadLogicalDevice
  \/ \E r \in Routines : Step(r)

Spec == Init /\ [][Next]_vars

(***************************************************************************)
(* Go schedules every goroutine, and a handler that needs a device loads   *)
(* it.  A go statement never blocks in the code: where it waits here for a *)
(* free member of Routines, strong fairness makes up for that bound.       *)
(***************************************************************************)
FairSpec ==
  /\ Spec
  /\ \A r \in Routines : SF_vars(Step(r))
  /\ \A d \in Devices : WF_vars(LoadDevice(d))

-----------------------------------------------------------------------------
\* Every variable stays in its type.  A peer of the root's ports is a child, and
\* a goroutine's snapshot holds children only.
TypeOK ==
  /\ store \in [Devices -> Record]
  /\ agents \in [Devices -> AgentState]
  /\ peers \subseteq Children
  /\ parentId \in BOOLEAN
  /\ ldAgent \in {"none", "failed", "ready", "stopped"} \cup Routines
  /\ ldStored \in BOOLEAN
  /\ adopted \subseteq Devices
  /\ task \in [Routines -> Task]
  /\ revived \subseteq Devices

\* The cleanup handlers of a device run once, on a device that stays DELETED and
\* keeps its agent until they stop it: no other goroutine cleans the same device,
\* no request or restart takes the device from under them, and no goroutine
\* blocks on the exitChannel of an agent that was stopped before it.  The one
\* exception are the devices that an image report has taken out of DELETED: they
\* can be deleted, and cleaned up, again.
CleanupOwnsDevice ==
  \A r \in Routines : task[r].op \in CleanupOp =>
    \/ task[r].dev \in revived
    \/ /\ task[r].op # "Blocked"
       /\ HasAgent(task[r].dev)
       /\ \/ store[task[r].dev].admin = "DELETED"
          \/ task[r].op = "ForgetAgent" /\ store[task[r].dev].admin = "REMOVED"
       /\ \A s \in Routines :
            task[s].op \in CleanupOp /\ task[s].dev = task[r].dev => s = r

\* An agent in the map whose device is not in the data model is one that a live
\* goroutine is starting, and alone; one whose start failed, before anybody was
\* told its id; or one that a live goroutine is about to take out of the map.  So
\* the agent of a removed device never stays, whatever fails, and no device is
\* started a second time.
AgentsHaveRecords ==
  \A d \in Devices :
    LET At(r, ops) == task[r].op \in ops /\ task[r].dev = d
    IN /\ HasAgent(d) /\ ~Live(d) =>
            \/ agents[d] = "new" /\ \E r \in Routines : At(r, StartOp)
            \/ agents[d] = "failed" /\ d \notin adopted
            \/ agents[d] = "stopped" /\ \E r \in Routines : At(r, {"ForgetAgent"})
       /\ \A r \in Routines : At(r, StartOp) =>
            /\ agents[d] = "new"
            /\ store[d].admin = "NONE"
            /\ \A s \in Routines : At(s, StartOp) => s = r

\* The logical device's agent in the map is the one a live goroutine is starting,
\* or its start failed, or the logical device it serves is in the data model, or
\* the goroutine that stopped it is about to take it out of the map.
LogicalAgentIsServed ==
  /\ ldAgent = "ready" => ldStored
  /\ ldAgent \in Routines => task[ldAgent].op \in {"StartLogicalDevice", "AddLogicalDevice"}
  /\ ldAgent = "stopped" => \E r \in Routines : task[r].op = "ForgetLogicalDevice"

\* Every device lives the life DeviceLife promises, whatever the goroutines, the
\* adapters, failing calls and restarts do.
Life == INSTANCE DeviceLife WITH admin <- [d \in Devices |-> store[d].admin]
LifeSpec == Life!Spec

\* Every goroutine comes to an end: the loops over children end, and no cleanup
\* blocks on the exitChannel of an agent that was stopped before, of the device
\* or of its logical device, unless an image report has brought a deleted device
\* back.
RoutinesEnd ==
  \A r \in Routines : task[r].op # "idle" ~> (task[r].op = "idle" \/ revived # {})

\* While its root device is not deleted, the adapters and the KV store answer and
\* no image report brings a deleted device back, a child that was deleted is
\* removed from the data model.
ChildIsRemoved ==
  \A c \in Children : store[c].admin = "DELETED" ~>
    \/ store[c].admin = "REMOVED"
    \/ store[Root].admin \in {"DELETED", "REMOVED"}
    \/ revived # {}

-----------------------------------------------------------------------------
Quiet == \A r \in Routines : task[r].op = "idle"

\* "RunPostDeviceDelete removes any reference of this device" (RunPostDeviceDelete):
\* once no goroutine is left, a removed child is no peer of a port of its root, and
\* a removed root has neither a logical device nor a child that names it.
NoReferenceLeft ==
  Quiet => /\ \A c \in peers : store[c].admin # "REMOVED"
           /\ store[Root].admin = "REMOVED" => ~ldStored /\ \A c \in Children : ~Live(c)
=============================================================================
