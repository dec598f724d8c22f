------------------------ MODULE DeviceLifecycleProofs ------------------------
(***************************************************************************)
(* The safety properties of DeviceLifecycle, for any number of children    *)
(* and goroutines, with failing calls, image reports and restarts.         *)
(***************************************************************************)
EXTENDS DeviceLifecycle, TLAPS

(***************************************************************************)
(* The inductive invariant.  That a cleanup owns its device rests on what  *)
(* an agent's state says of the record (an agent that serves has one, a    *)
(* stopped one has none), on a device being started once, and on the       *)
(* logical device being the business of the root's cleanup only.           *)
(***************************************************************************)
AgentStates ==
  \A d \in Devices :
    /\ agents[d] \in {"new", "failed"} => store[d].admin = "NONE"
    /\ agents[d] = "stopped" => store[d].admin = "REMOVED"
    /\ store[d].admin = "NONE" => d \notin adopted
    /\ d \in revived => store[d].admin \notin {"NONE", "PREPROVISIONED"}

RootOp == {"DisableAllChildDevices", "DeleteAllChildDevices", "DeleteLogicalDevice",
           "ForgetLogicalDevice"}

RootCleanups == \A r \in Routines : task[r].op \in RootOp => task[r].dev = Root

IInv == TypeOK /\ CleanupOwnsDevice /\ AgentsHaveRecords /\ AgentStates /\ RootCleanups

USE RootAssumption, RoutinesAssumption, OperReportsAssumption, FlagsAssumption,
    ImageReportsAssumption

\* A new goroutine is a Task.
LEMMA RoutineType ==
  ASSUME NEW op \in Op, NEW d \in Devices
  PROVE  /\ Routine(op, d) \in Task
         /\ Routine(op, d).op = op
         /\ Routine(op, d).dev = d
BY Zenon DEF Routine, Task

\* The slot of a goroutine that has ended is a Task.
LEMMA IdleType == Idle \in Task /\ Idle.op = "idle"
BY Zenon DEF Idle, Routine, Task, Op, Devices

\* The device of a managed agent is in the data model, and of no goroutine that
\* starts it.
LEMMA ManagedLive ==
  ASSUME IInv, NEW d \in Devices, Managed(d)
  PROVE  /\ store[d].admin \in LiveAdmin
         /\ HasAgent(d)
         /\ \A q \in Routines : task[q].op \in StartOp => task[q].dev # d
BY Zenon DEF IInv, AgentsHaveRecords, Managed, HasAgent, Live

\* The first handler the state machine selects: cleanup handlers only when the
\* device becomes DELETED, and those of a root only for a root.
LEMMA SelectedHandler ==
  ASSUME NEW root \in BOOLEAN, NEW p \in Record, NEW c \in Record,
         RunsHandlers(Handlers(root, p, c))
  PROVE  \/ Handlers(root, p, c)[1] = "CreateLogicalDevice"
         \/ /\ Handlers(root, p, c)[1] \in CleanupOp \ {"ForgetAgent", "Blocked"}
            /\ Handlers(root, p, c)[1] \in RootOp => root
            /\ p.admin # "DELETED"
            /\ c.admin = "DELETED"
<1> DEFINE h == Handlers(root, p, c)
<1>1. \/ h = <<"RunPostDeviceDelete">> /\ p.admin = "PREPROVISIONED" /\ c.admin = "DELETED"
      \/ h = DeleteParent /\ root /\ p.admin = "DISABLED" /\ c.admin = "DELETED"
      \/ h = DeleteChild /\ p.admin \in {"ENABLED", "DISABLED"} /\ c.admin = "DELETED"
      \/ h = <<"CreateLogicalDevice">>
      \/ h = <<"SetupUNILogicalPorts">>
      \/ h = Notify
      \/ h = << >>
  BY Zenon DEF Handlers
<1>2. h # << >> /\ h[1] \notin {"NotifyInvalidTransition", "SetupUNILogicalPorts"}
  BY Zenon DEF RunsHandlers
<1> QED
  BY <1>1, <1>2 DEF DeleteParent, DeleteChild, Notify, CleanupOp, RootOp

\* What updateDeviceInStoreWithoutLock does to the goroutines.
LEMMA UpdateEffect ==
  ASSUME TypeOK, NEW d \in Devices, NEW rec \in Record, NEW tasks \in [Routines -> Task],
         Update(d, rec, tasks)
  PROVE  /\ store' = [store EXCEPT ![d] = rec]
         /\ \/ task' = tasks
            \/ \E s \in Routines, t \in Task :
                 /\ tasks[s].op = "idle"
                 /\ task' = [tasks EXCEPT ![s] = t]
                 /\ t.dev = d
                 /\ \/ t.op = "CreateLogicalDevice"
                    \/ /\ t.op \in CleanupOp \ {"ForgetAgent", "Blocked"}
                       /\ t.op \in RootOp => d = Root
                       /\ store[d].admin # "DELETED"
                       /\ rec.admin = "DELETED"
<1> DEFINE h == Selected(d, rec)
           t == [Routine(h[1], d) EXCEPT !.peers = IF d = Root THEN peers ELSE {},
                                         !.ld = d = Root /\ parentId,
                                         !.todo = IF d = Root THEN peers ELSE {}]
<1>1. store' = [store EXCEPT ![d] = rec]
  BY Zenon DEF Update
<1>2. CASE ~(agents[d] = "ready" /\ RunsHandlers(h))
  BY <1>1, <1>2, Zenon DEF Update
<1>3. CASE agents[d] = "ready" /\ RunsHandlers(h)
  <2>1. \/ h[1] = "CreateLogicalDevice"
        \/ /\ h[1] \in CleanupOp \ {"ForgetAgent", "Blocked"}
           /\ h[1] \in RootOp => d = Root
           /\ store[d].admin # "DELETED"
           /\ rec.admin = "DELETED"
    BY <1>3, SelectedHandler, Zenon DEF Selected, TypeOK
  <2>2. PICK s \in Routines : tasks[s].op = "idle" /\ task' = [tasks EXCEPT ![s] = t]
    BY <1>3, Zenon DEF Update, Spawn
  <2>3. t \in Task /\ t.dev = d /\ t.op = h[1]
    BY <2>1, Zenon DEF Routine, Task, TypeOK, Op, LogicalOp
  <2> QED
    BY <1>1, <2>1, <2>2, <2>3, Zenon
<1> QED
  BY <1>2, <1>3, Zenon

-----------------------------------------------------------------------------
(***************************************************************************)
(* Two lemmas cover most steps.  In the first only the goroutines change,  *)
(* each going on with a cleanup of the same device, or with something that *)
(* neither cleans up nor starts a device.  A goroutine that starts an      *)
(* agent, or is about to take it out of the map, does not stop short.      *)
(***************************************************************************)
GoesOn(before, after) ==
  \/ after.op = before.op /\ after.dev = before.dev
  \/ /\ after.op \in CleanupOp \ {"Blocked"}
     /\ before.op \in CleanupOp \ {"ForgetAgent", "Blocked"}
     /\ after.dev = before.dev
     /\ after.op \in RootOp => after.dev = Root
  \/ /\ after.op = "Blocked"
     /\ before.op \in CleanupOp \ {"ForgetAgent"}
     /\ after.dev = before.dev /\ after.dev \in revived
  \/ /\ after.op \notin CleanupOp \cup StartOp
     /\ before.op \notin StartOp \cup {"ForgetAgent"}

\* A step that stores nothing, in which goroutines go on or end, preserves the
\* invariant.
LEMMA RoutineStep ==
  ASSUME IInv, TypeOK', UNCHANGED <<store, agents, adopted, revived>>,
         \A q \in Routines : GoesOn(task[q], task'[q])
  PROVE  IInv'
<1> USE DEF IInv
<1>0. \A q \in Routines : task[q].dev \in Devices /\ task'[q].dev \in Devices
  BY Zenon DEF TypeOK, Task
<1>1. \A q \in Routines : task'[q].op \in CleanupOp =>
        /\ task[q].op \in CleanupOp
        /\ task'[q].dev = task[q].dev
        /\ task'[q].op = "Blocked" => task[q].op = "Blocked" \/ task[q].dev \in revived
        /\ task[q].op = "ForgetAgent" => task'[q].op = "ForgetAgent"
  BY DEF GoesOn, CleanupOp
<1>2. CleanupOwnsDevice'
  BY <1>0, <1>1 DEF CleanupOwnsDevice, HasAgent
<1>3. \A q \in Routines :
        /\ task'[q].op \in StartOp \/ task[q].op \in StartOp =>
             task'[q].op = task[q].op /\ task'[q].dev = task[q].dev
        /\ task[q].op = "ForgetAgent" => task'[q].op = "ForgetAgent" /\ task'[q].dev = task[q].dev
  BY DEF GoesOn, CleanupOp, StartOp
<1>4. AgentsHaveRecords'
  BY <1>3 DEF AgentsHaveRecords, Live, HasAgent
<1>5. AgentStates'
  BY Zenon DEF AgentStates
<1>6. RootCleanups'
  BY DEF RootCleanups, GoesOn, RootOp, CleanupOp, StartOp
<1> QED
  BY <1>2, <1>4, <1>5, <1>6, Zenon

\* In the second one device that has an agent is stored: it stays in the data
\* model, DELETED if it was unless the step revives it, and the goroutines that
\* were alive go on or end.
LEMMA UpdateStep ==
  ASSUME IInv, NEW d \in Devices, Managed(d), NEW rec \in Record,
         NEW tasks \in [Routines -> Task],
         Update(d, rec, tasks),
         rec.admin \in LiveAdmin,
         revived' = revived \/ revived' = revived \cup {d},
         store[d].admin = "DELETED" => rec.admin = "DELETED" \/ d \in revived',
         rec.admin = "PREPROVISIONED" => store[d].admin = rec.admin /\ revived' = revived,
         \A q \in Routines : \/ tasks[q].op = task[q].op /\ tasks[q].dev = task[q].dev
                             \/ tasks[q].op = "idle" /\ task[q].op \notin StartOp \cup {"ForgetAgent"},
         UNCHANGED <<agents, peers, logical>>,
         adopted' \subseteq adopted \cup {d}
  PROVE  IInv'
<1> USE DEF IInv
<1>1. store' = [store EXCEPT ![d] = rec]
  BY UpdateEffect
<1>2. /\ \A e \in Devices : e # d => store'[e] = store[e]
      /\ store'[d] = rec
  BY <1>1, Zenon DEF TypeOK
<1>4. /\ store[d].admin \in LiveAdmin /\ HasAgent(d)
      /\ \A q \in Routines : task[q].op \in StartOp => task[q].dev # d
  BY ManagedLive, Zenon
<1>5. AgentStates'
  BY <1>2, <1>4 DEF AgentStates, LiveAdmin, Managed
<1>6. \A q \in Routines : task[q].dev \in Devices
  BY Zenon DEF TypeOK, Task
<1>7. revived \subseteq revived' /\ revived' \subseteq Devices /\ adopted' \subseteq Devices
      /\ \A e \in Devices : e # d => (e \in revived' <=> e \in revived) /\ (e \in adopted' => e \in adopted)
  BY Zenon DEF TypeOK
<1>8. \A q \in Routines : task[q].op \in CleanupOp /\ task[q].dev \notin revived' =>
        /\ task[q].dev \notin revived
        /\ task[q].op # "Blocked"
        /\ task[q].dev = d => store[d].admin = "DELETED" /\ rec.admin = "DELETED"
  BY <1>4, <1>7 DEF CleanupOwnsDevice, LiveAdmin
<1>9. CASE task' = tasks
  <2>1. TypeOK'
    BY <1>1, <1>7, <1>9, Zenon DEF TypeOK, logical
  <2>2. CleanupOwnsDevice'
    <3>1. \A q \in Routines : task'[q].op \in CleanupOp =>
            task[q].op = task'[q].op /\ task'[q].dev = task[q].dev
      BY <1>9, Zenon DEF CleanupOp
    <3> QED
      BY <1>2, <1>6, <1>7, <1>8, <3>1 DEF CleanupOwnsDevice, HasAgent
  <2>3. \A q \in Routines :
          /\ task'[q].op \in StartOp \/ task[q].op \in StartOp =>
               task'[q].op = task[q].op /\ task'[q].dev = task[q].dev
          /\ task[q].op = "ForgetAgent" => task'[q].op = "ForgetAgent" /\ task'[q].dev = task[q].dev
    BY <1>9 DEF StartOp
  <2>4. AgentsHaveRecords'
    BY <1>2, <1>4, <1>7, <2>3 DEF AgentsHaveRecords, Live, HasAgent
  <2>5. RootCleanups'
    BY <1>9, Zenon DEF RootCleanups, RootOp
  <2> QED
    BY <1>5, <2>1, <2>2, <2>4, <2>5, Zenon
<1>10. ASSUME NEW s \in Routines, NEW t \in Task,
             tasks[s].op = "idle", task' = [tasks EXCEPT ![s] = t], t.dev = d,
             \/ t.op = "CreateLogicalDevice"
             \/ /\ t.op \in CleanupOp \ {"ForgetAgent", "Blocked"}
                /\ t.op \in RootOp => d = Root
                /\ store[d].admin # "DELETED"
                /\ rec.admin = "DELETED"
      PROVE  IInv'
  <2>1. TypeOK'
    BY <1>1, <1>7, <1>10, Zenon DEF TypeOK, logical
  <2>2. \A q \in Routines : q # s => task'[q] = tasks[q]
    BY <1>10, Zenon
  <2>3. task'[s] = t
    BY <1>10, Zenon
  <2>4. \A q \in Routines : q # s /\ task'[q].op \in CleanupOp =>
          task[q].op = task'[q].op /\ task'[q].dev = task[q].dev
    BY <2>2, Zenon DEF CleanupOp
  <2>5. CleanupOwnsDevice'
    <3>1. CASE t.op = "CreateLogicalDevice"
      BY <1>2, <1>6, <1>7, <1>8, <2>3, <2>4, <3>1 DEF CleanupOwnsDevice, HasAgent, CleanupOp
    <3>2. CASE t.op # "CreateLogicalDevice"
      <4>1. d \notin revived' => \A q \in Routines : task[q].op \in CleanupOp => task[q].dev # d
        BY <1>8, <1>10, <3>2
      <4> QED
        BY <1>2, <1>4, <1>6, <1>7, <1>8, <1>10, <2>3, <2>4, <3>2, <4>1 DEF CleanupOwnsDevice, HasAgent
    <3> QED BY <3>1, <3>2
  <2>6. \A q \in Routines :
          /\ task'[q].op \in StartOp \/ task[q].op \in StartOp =>
               task'[q].op = task[q].op /\ task'[q].dev = task[q].dev
          /\ task[q].op = "ForgetAgent" => task'[q].op = "ForgetAgent" /\ task'[q].dev = task[q].dev
    BY <1>10, <2>2, <2>3 DEF StartOp, CleanupOp
  <2>7. AgentsHaveRecords'
    BY <1>2, <1>4, <1>7, <2>6 DEF AgentsHaveRecords, Live, HasAgent
  <2>8. RootCleanups'
    BY <1>10, <2>2, <2>3 DEF RootCleanups, RootOp
  <2> QED
    BY <1>5, <2>1, <2>5, <2>7, <2>8, Zenon
<1> QED
  BY <1>9, <1>10, UpdateEffect

-----------------------------------------------------------------------------
\* A device that is put in the map and started by a new goroutine: nothing else
\* changes.
LEMMA CreateStep ==
  ASSUME IInv, NEW d \in Devices, NEW op \in StartOp,
         store[d].admin = "NONE", agents[d] = "none",
         agents' = Agent(d, "new"), Spawn(task, Routine(op, d)),
         UNCHANGED <<store, peers, logical, adopted, revived>>
  PROVE  IInv'
<1> USE DEF IInv
<1> DEFINE t == Routine(op, d)
<1>1. t \in Task /\ t.op = op /\ t.dev = d
  BY RoutineType, Zenon DEF Op
<1> HIDE DEF t
<1>2. PICK s \in Routines : task[s].op = "idle" /\ task' = [task EXCEPT ![s] = t]
  BY Zenon DEF Spawn, t
<1>3. /\ task'[s] = t
      /\ \A q \in Routines : q # s => task'[q] = task[q]
      /\ task' \in [Routines -> Task]
  BY <1>1, <1>2, Zenon DEF TypeOK
<1>4. /\ agents'[d] = "new"
      /\ \A e \in Devices : e # d => agents'[e] = agents[e]
      /\ agents' \in [Devices -> AgentState]
  BY Zenon DEF TypeOK, Agent, AgentState
<1>5. TypeOK'
  BY <1>3, <1>4, Zenon DEF TypeOK, logical
<1>6. \A q \in Routines : task[q].dev \in Devices
  BY Zenon DEF TypeOK, Task
<1>7. op \notin CleanupOp /\ op \notin RootOp /\ op # "ForgetAgent"
  BY Zenon DEF StartOp, CleanupOp, RootOp
<1>8. CleanupOwnsDevice'
  BY <1>1, <1>3, <1>4, <1>6, <1>7 DEF CleanupOwnsDevice, HasAgent
<1>9. \A q \in Routines : task[q].op \in StartOp => task[q].dev # d
  BY Zenon DEF AgentsHaveRecords
<1>10. AgentsHaveRecords'
  BY <1>1, <1>2, <1>3, <1>4, <1>9 DEF AgentsHaveRecords, HasAgent, Live, StartOp
<1>11. AgentStates'
  BY <1>4 DEF AgentStates
<1>12. RootCleanups'
  BY <1>1, <1>3, <1>7 DEF RootCleanups
<1> QED
  BY <1>5, <1>8, <1>10, <1>11, <1>12, Zenon

\* Requests of the northbound API preserve the invariant.
LEMMA RequestsKeepIInv ==
  ASSUME IInv,
         \/ CreateDevice
         \/ \E d \in Devices : EnableDevice(d) \/ DisableDevice(d) \/ DeleteDevice(d)
  PROVE  IInv'
<1> USE DEF IInv
<1>0. task \in [Routines -> Task]
  BY Zenon DEF TypeOK
<1>1. CASE CreateDevice
  BY <1>1, CreateStep, Zenon DEF CreateDevice, StartOp, Devices
<1>2. ASSUME NEW d \in Devices, EnableDevice(d) PROVE IInv'
  <2>1. /\ Rec("ENABLED", "ACTIVATING") \in Record
        /\ Rec("ENABLED", "ACTIVATING").admin \in LiveAdmin
        /\ Rec("ENABLED", "ACTIVATING").admin # "PREPROVISIONED"
    BY Zenon DEF Rec, Record, LiveAdmin, OperStatus
  <2> QED
    BY <1>0, <1>2, <2>1, UpdateStep, Zenon DEF EnableDevice, EnableWith
<1>3. ASSUME NEW d \in Devices, DisableDevice(d) PROVE IInv'
  <2>1. /\ Rec("DISABLED", "UNKNOWN") \in Record
        /\ Rec("DISABLED", "UNKNOWN").admin \in LiveAdmin
        /\ Rec("DISABLED", "UNKNOWN").admin # "PREPROVISIONED"
    BY Zenon DEF Rec, Record, LiveAdmin, OperStatus
  <2> QED
    BY <1>0, <1>3, <2>1, UpdateStep, Zenon DEF DisableDevice, DisableWith
<1>4. ASSUME NEW d \in Devices, DeleteDevice(d) PROVE IInv'
  <2>1. /\ Rec("DELETED", store[d].oper) \in Record
        /\ Rec("DELETED", store[d].oper).admin \in LiveAdmin
        /\ Rec("DELETED", store[d].oper).admin = "DELETED"
    BY Zenon DEF Rec, Record, LiveAdmin, TypeOK
  <2> QED
    BY <1>0, <1>4, <2>1, UpdateStep, Zenon DEF DeleteDevice, DeleteWith
<1> QED
  BY <1>1, <1>2, <1>3, <1>4, Zenon

\* Requests of the adapters that change a device or its ports preserve it.
LEMMA ReportsKeepIInv ==
  ASSUME IInv,
         \/ \E d \in Devices, oper \in OperReports : UpdateDeviceStatus(d, oper)
         \/ \E d \in ImageReports : UpdateImageDownload(d)
         \/ \E c \in Children : ChildDeviceDetected(c) \/ AddPort(c)
         \/ DeleteAllPorts
         \/ \E op \in {"childDevicesLost", "childDevicesDetected"} : ChildDevices(op)
  PROVE  IInv'
<1> USE DEF IInv
<1>0. task \in [Routines -> Task]
  BY Zenon DEF TypeOK
<1>1. ASSUME NEW d \in Devices, NEW oper \in OperReports, UpdateDeviceStatus(d, oper)
      PROVE  IInv'
  <2>1. Managed(d)
    BY <1>1, Zenon DEF UpdateDeviceStatus, Reported
  <2>2. /\ Rec(store[d].admin, oper) \in Record
        /\ Rec(store[d].admin, oper).admin = store[d].admin
        /\ store[d].admin \in LiveAdmin
    BY <2>1, ManagedLive, Zenon DEF Rec, Record, TypeOK
  <2> QED
    BY <1>0, <1>1, <2>1, <2>2, UpdateStep, Zenon DEF UpdateDeviceStatus
<1>2. ASSUME NEW d \in Devices, UpdateImageDownload(d) PROVE IInv'
  <2>1. Managed(d)
    BY <1>2, Zenon DEF UpdateImageDownload, Reported
  <2>2. /\ Rec("ENABLED", store[d].oper) \in Record
        /\ Rec("ENABLED", store[d].oper).admin = "ENABLED"
        /\ "ENABLED" \in LiveAdmin
    BY Zenon DEF Rec, Record, LiveAdmin, TypeOK
  <2>3. /\ revived' = revived \/ revived' = revived \cup {d}
        /\ store[d].admin = "DELETED" => d \in revived'
    BY <1>2, Zenon DEF UpdateImageDownload
  <2>4. Update(d, Rec("ENABLED", store[d].oper), task)
        /\ UNCHANGED <<agents, peers, logical, adopted>>
    BY <1>2, Zenon DEF UpdateImageDownload
  <2> QED
    BY <1>0, <2>1, <2>2, <2>3, <2>4, UpdateStep, Zenon
<1>3. ASSUME NEW c \in Children, AddPort(c) PROVE IInv'
  BY <1>3, RoutineStep, Zenon DEF AddPort, GoesOn, TypeOK, logical
<1>4. CASE DeleteAllPorts
  BY <1>4, RoutineStep, Zenon DEF DeleteAllPorts, GoesOn, TypeOK, logical
<1>5. ASSUME NEW op \in {"childDevicesLost", "childDevicesDetected"}, ChildDevices(op)
      PROVE  IInv'
  <2> DEFINE t == [Routine(op, Root) EXCEPT !.todo = peers]
  <2>1. t \in Task /\ t.op = op
    BY Zenon DEF Routine, Task, Op, TypeOK, Devices
  <2>2. PICK s \in Routines : task[s].op = "idle" /\ task' = [task EXCEPT ![s] = t]
    BY <1>5, Zenon DEF ChildDevices, Spawn
  <2>3. TypeOK'
    BY <1>5, <2>1, <2>2, Zenon DEF ChildDevices, TypeOK, logical
  <2>4. \A q \in Routines : GoesOn(task[q], task'[q])
    BY <1>0, <2>1, <2>2, Zenon DEF GoesOn, CleanupOp, StartOp
  <2> QED
    BY <1>5, <2>3, <2>4, RoutineStep, Zenon DEF ChildDevices
<1>6. ASSUME NEW c \in Children, ChildDeviceDetected(c) PROVE IInv'
  BY <1>6, CreateStep, Zenon DEF ChildDeviceDetected, StartOp, Devices
<1> QED
  BY <1>1, <1>2, <1>3, <1>4, <1>5, <1>6, Zenon

-----------------------------------------------------------------------------
\* A restart and the loading of devices preserve the invariant.
LEMMA RestartKeepsIInv ==
  ASSUME IInv,
         Restart \/ LoadLogicalDevice \/ \E d \in Devices : LoadDevice(d)
  PROVE  IInv'
<1> USE DEF IInv
<1>1. CASE Restart
  <2>1. TypeOK'
    BY <1>1, IdleType, Zenon DEF Restart, TypeOK, AgentState
  <2>2. \A q \in Routines : task'[q].op = "idle"
    BY <1>1, IdleType, Zenon DEF Restart
  <2>3. \A d \in Devices : agents'[d] = "none"
    BY <1>1, Zenon DEF Restart
  <2>4. CleanupOwnsDevice' /\ RootCleanups'
    BY <2>2, Zenon DEF CleanupOwnsDevice, RootCleanups, RootOp, CleanupOp
  <2>5. AgentsHaveRecords'
    BY <2>2, <2>3, Zenon DEF AgentsHaveRecords, HasAgent, StartOp
  <2>6. AgentStates'
    BY <1>1, <2>3 DEF AgentStates, Restart
  <2> QED
    BY <2>1, <2>4, <2>5, <2>6, Zenon
<1>2. CASE LoadLogicalDevice
  BY <1>2, RoutineStep, Zenon DEF LoadLogicalDevice, GoesOn, TypeOK
<1>3. ASSUME NEW d \in Devices, LoadDevice(d) PROVE IInv'
  <2>1. /\ agents'[d] = "ready"
        /\ \A e \in Devices : e # d => agents'[e] = agents[e]
        /\ agents' \in [Devices -> AgentState]
    BY <1>3, Zenon DEF LoadDevice, TypeOK, Agent, AgentState
  <2>2. TypeOK'
    BY <1>3, <2>1, Zenon DEF LoadDevice, TypeOK, logical
  <2>3. \A q \in Routines : task[q].dev \in Devices
    BY Zenon DEF TypeOK, Task
  <2>4. CleanupOwnsDevice' /\ RootCleanups'
    BY <1>3, <2>1, <2>3 DEF LoadDevice, CleanupOwnsDevice, RootCleanups, HasAgent
  <2>5. AgentsHaveRecords'
    BY <1>3, <2>1, <2>3 DEF LoadDevice, AgentsHaveRecords, HasAgent, Live
  <2>6. AgentStates'
    BY <1>3, <2>1 DEF AgentStates, LoadDevice
  <2> QED
    BY <2>2, <2>4, <2>5, <2>6, Zenon
<1> QED
  BY <1>1, <1>2, <1>3, Zenon

\* A goroutine that goes on with t leaves the others alone.
LEMMA GoesEffect ==
  ASSUME TypeOK, NEW r \in Routines, NEW t \in Task
  PROVE  /\ Goes(r, t) \in [Routines -> Task]
         /\ Goes(r, t)[r] = t
         /\ \A q \in Routines : q # r => Goes(r, t)[q] = task[q]
BY Zenon DEF Goes, TypeOK

\* The step in which goroutine r goes on with t, and nothing but the peers and
\* the logical device's state changes.
LEMMA GoesStep ==
  ASSUME IInv, NEW r \in Routines, NEW t \in Task,
         task' = Goes(r, t), GoesOn(task[r], t),
         UNCHANGED <<store, agents, adopted, revived>>,
         peers' \subseteq Children, parentId' \in BOOLEAN, ldStored' \in BOOLEAN,
         ldAgent' \in {"none", "failed", "ready", "stopped"} \cup Routines
  PROVE  IInv'
<1>1. TypeOK'
  BY GoesEffect, Zenon DEF IInv, TypeOK
<1>2. task'[r] = t /\ \A q \in Routines : q # r => task'[q] = task[q]
  BY GoesEffect DEF IInv
<1>3. \A q \in Routines : GoesOn(task[q], task'[q])
  BY <1>2, Zenon DEF GoesOn
<1> QED
  BY <1>1, <1>3, RoutineStep, Zenon

\* The step of a loop over children, or of the enabling of a new child, in which
\* child c is stored.
LEMMA ChildUpdateStep ==
  ASSUME IInv, NEW r \in Routines, NEW c \in Devices, Managed(c), NEW t \in Task,
         \/ t.op = "idle" /\ task[r].op \notin StartOp \cup {"ForgetAgent"}
         \/ t.op = task[r].op /\ t.dev = task[r].dev,
         EnableWith(c, Goes(r, t)) \/ DisableWith(c, Goes(r, t)) \/ DeleteWith(c, Goes(r, t))
  PROVE  IInv'
<1> USE DEF IInv
<1> DEFINE tasks == Goes(r, t)
<1>0. /\ tasks \in [Routines -> Task]
      /\ tasks[r] = t
      /\ \A q \in Routines : q # r => tasks[q] = task[q]
  BY GoesEffect
<1>1. \A q \in Routines : \/ tasks[q].op = task[q].op /\ tasks[q].dev = task[q].dev
                          \/ tasks[q].op = "idle" /\ task[q].op \notin StartOp \cup {"ForgetAgent"}
  BY <1>0, Zenon
<1> HIDE DEF tasks
<1>3. CASE EnableWith(c, tasks)
  <2>1. /\ Rec("ENABLED", "ACTIVATING") \in Record
        /\ Rec("ENABLED", "ACTIVATING").admin \in LiveAdmin
        /\ Rec("ENABLED", "ACTIVATING").admin # "PREPROVISIONED"
    BY Zenon DEF Rec, Record, LiveAdmin, OperStatus
  <2> QED
    BY <1>0, <1>1, <1>3, <2>1, UpdateStep, Zenon DEF EnableWith
<1>4. CASE DisableWith(c, tasks)
  <2>1. /\ Rec("DISABLED", "UNKNOWN") \in Record
        /\ Rec("DISABLED", "UNKNOWN").admin \in LiveAdmin
        /\ Rec("DISABLED", "UNKNOWN").admin # "PREPROVISIONED"
    BY Zenon DEF Rec, Record, LiveAdmin, OperStatus
  <2> QED
    BY <1>0, <1>1, <1>4, <2>1, UpdateStep, Zenon DEF DisableWith
<1>5. CASE DeleteWith(c, tasks)
  <2>1. /\ Rec("DELETED", store[c].oper) \in Record
        /\ Rec("DELETED", store[c].oper).admin \in LiveAdmin
        /\ Rec("DELETED", store[c].oper).admin = "DELETED"
    BY Zenon DEF Rec, Record, LiveAdmin, TypeOK
  <2> QED
    BY <1>0, <1>1, <1>5, <2>1, UpdateStep, Zenon DEF DeleteWith
<1> QED
  BY <1>3, <1>4, <1>5, Zenon DEF tasks

\* agent.start of a new device preserves the invariant, whether it fails or not.
LEMMA StartStep ==
  ASSUME IInv, NEW r \in Routines, task[r].op \in StartOp,
         NEW t \in Task, t.op \notin CleanupOp \cup StartOp, Start(r, t)
  PROVE  IInv'
<1> USE DEF IInv
<1> DEFINE d == task[r].dev
<1>1. d \in Devices /\ agents[d] = "new" /\ store[d].admin = "NONE"
      /\ \A q \in Routines : q # r /\ task[q].op \in StartOp => task[q].dev # d
  <2>1. d \in Devices
    BY Zenon DEF TypeOK, Task
  <2> QED
    BY <2>1 DEF AgentsHaveRecords
<1>2. PICK u \in Task, state \in {"ready", "deaf", "failed"} :
        /\ u = t \/ u = Idle
        /\ task' = Goes(r, u)
        /\ agents' = Agent(d, state)
        /\ \/ state = "failed" /\ store' = store
           \/ state # "failed" /\ store' = [store EXCEPT ![d] = Rec("PREPROVISIONED", "UNKNOWN")]
        /\ UNCHANGED <<peers, logical, adopted, revived>>
  <2>1. UNCHANGED <<peers, logical, adopted, revived>>
    BY Zenon DEF Start
  <2>2. CASE /\ store' = [store EXCEPT ![d] = Rec("PREPROVISIONED", "UNKNOWN")]
             /\ agents' = Agent(d, "ready") /\ task' = Goes(r, t)
    BY <2>1, <2>2, Zenon
  <2>3. CASE /\ store' = [store EXCEPT ![d] = Rec("PREPROVISIONED", "UNKNOWN")]
             /\ agents' = Agent(d, "deaf") /\ task' = Goes(r, Idle)
    BY <2>1, <2>3, IdleType, Zenon
  <2>4. CASE store' = store /\ agents' = Agent(d, "failed") /\ task' = Goes(r, Idle)
    BY <2>1, <2>4, IdleType, Zenon
  <2> QED
    BY <2>2, <2>3, <2>4, Zenon DEF Start
<1>3. u.op \notin CleanupOp \cup StartOp
  BY <1>2, IdleType, Zenon DEF CleanupOp, StartOp
<1>4. /\ task'[r] = u /\ task' \in [Routines -> Task]
      /\ \A q \in Routines : q # r => task'[q] = task[q]
  BY <1>2, GoesEffect
<1>5. /\ agents'[d] = state
      /\ \A e \in Devices : e # d => agents'[e] = agents[e]
      /\ agents' \in [Devices -> AgentState]
  BY <1>1, <1>2, Zenon DEF TypeOK, Agent, AgentState
<1>6. /\ Rec("PREPROVISIONED", "UNKNOWN") \in Record
      /\ Rec("PREPROVISIONED", "UNKNOWN").admin = "PREPROVISIONED"
      /\ "PREPROVISIONED" \in LiveAdmin
  BY Zenon DEF Rec, Record, LiveAdmin, OperStatus
<1>7. /\ store' \in [Devices -> Record]
      /\ \A e \in Devices : e # d => store'[e] = store[e]
      /\ store'[d].admin = IF state = "failed" THEN "NONE" ELSE "PREPROVISIONED"
  BY <1>1, <1>2, <1>6 DEF TypeOK
<1> HIDE DEF d
<1>8. TypeOK'
  BY <1>2, <1>4, <1>5, <1>7, Zenon DEF TypeOK, logical
<1>9. \A q \in Routines : task[q].dev \in Devices
  BY Zenon DEF TypeOK, Task
<1>10. d \notin revived /\ d \notin adopted
  BY <1>1, Zenon DEF AgentStates
<1>11. \A q \in Routines : task[q].op \in CleanupOp => task[q].dev # d
  BY <1>1, <1>10, Zenon DEF CleanupOwnsDevice
<1>12. CleanupOwnsDevice'
  BY <1>2, <1>3, <1>4, <1>5, <1>7, <1>9, <1>11 DEF CleanupOwnsDevice, HasAgent
<1>13. task[r].dev = d /\ task[r].op # "ForgetAgent"
  BY Zenon DEF d, StartOp
<1>14. AgentsHaveRecords'
  BY <1>1, <1>2, <1>3, <1>4, <1>5, <1>6, <1>7, <1>10, <1>13 DEF AgentsHaveRecords, HasAgent, Live
<1>15. AgentStates'
  BY <1>2, <1>5, <1>7, <1>10 DEF AgentStates
<1>16. RootCleanups'
  BY <1>3, <1>4 DEF RootCleanups, RootOp, CleanupOp
<1> QED
  BY <1>8, <1>12, <1>14, <1>15, <1>16, Zenon

\* The steps of the goroutines that create and enable devices, and of the loops
\* over children, preserve the invariant.
LEMMA LoopsKeepIInv ==
  ASSUME IInv, NEW r \in Routines,
         \/ StartDevice(r) \/ StartChild(r) \/ EnableChild(r)
         \/ DisableChild(r) \/ DeleteOneChild(r) \/ EnableChildren(r) \/ LoopDone(r)
  PROVE  IInv'
<1> USE DEF IInv
<1>0. /\ task \in [Routines -> Task]
      /\ task[r] \in Task /\ task[r].dev \in Devices
      /\ task[r].todo \subseteq Children /\ Children \subseteq Devices
      /\ peers \subseteq Children /\ parentId \in BOOLEAN /\ ldStored \in BOOLEAN
      /\ ldAgent \in {"none", "failed", "ready", "stopped"} \cup Routines
  BY Zenon DEF TypeOK, Task, Devices
<1>i. Idle \in Task /\ Idle.op = "idle"
      /\ (task[r].op \notin StartOp \cup {"ForgetAgent"} => GoesOn(task[r], Idle))
  BY IdleType, Zenon DEF GoesOn, CleanupOp, StartOp
<1>1. CASE StartDevice(r) \/ StartChild(r)
  <2>1. CASE StartDevice(r)
    BY <1>i, <2>1, StartStep, Zenon DEF StartDevice, StartOp, CleanupOp
  <2>2. CASE StartChild(r)
    <3> DEFINE t == Routine("EnableChild", task[r].dev)
    <3>1. t \in Task /\ t.op = "EnableChild"
      BY <1>0, RoutineType, Zenon DEF Op
    <3>2. Start(r, t) /\ task[r].op \in StartOp
      BY <2>2, Zenon DEF StartChild, StartOp
    <3> HIDE DEF t
    <3> QED
      BY <3>1, <3>2, StartStep, Zenon DEF StartOp, CleanupOp
  <2> QED
    BY <1>1, <2>1, <2>2
<1>2. CASE EnableChild(r)
  <2>0. task[r].op \notin StartOp \cup {"ForgetAgent"}
    BY <1>2, Zenon DEF EnableChild, StartOp
  <2>1. CASE Managed(task[r].dev) /\ EnableWith(task[r].dev, Goes(r, Idle))
    BY <1>0, <1>i, <2>0, <2>1, ChildUpdateStep, Zenon
  <2>2. CASE task' = Goes(r, Idle) /\ UNCHANGED <<store, agents, peers, logical, adopted, revived>>
    BY <1>0, <1>i, <2>0, <2>2, GoesStep, Zenon DEF logical
  <2> QED
    BY <1>2, <2>1, <2>2, Zenon DEF EnableChild
<1>3. CASE DisableChild(r)
  <2>1. PICK c \in task[r].todo, failed \in BOOLEAN :
          LET t == [task[r] EXCEPT !.todo = @ \ {c}, !.failed = failed]
          IN \/ task' = Goes(r, t) /\ UNCHANGED <<store, agents, peers, logical, adopted, revived>>
             \/ Managed(c) /\ DisableWith(c, Goes(r, t))
    <3>1. Error \subseteq BOOLEAN
      BY Zenon DEF Error
    <3>2. task[r].failed \in BOOLEAN
      BY <1>0, Zenon DEF Task
    <3> QED
      BY <1>3, <3>1, <3>2, Zenon DEF DisableChild
  <2> DEFINE t == [task[r] EXCEPT !.todo = @ \ {c}, !.failed = failed]
  <2>2. t \in Task /\ t.op = task[r].op /\ t.dev = task[r].dev
    BY <1>0, Zenon DEF Task
  <2> HIDE DEF t
  <2>3. CASE task' = Goes(r, t) /\ UNCHANGED <<store, agents, peers, logical, adopted, revived>>
    <3>1. GoesOn(task[r], t)
      BY <2>2, Zenon DEF GoesOn
    <3> QED
      BY <1>0, <2>2, <2>3, <3>1, GoesStep, Zenon DEF logical
  <2>4. CASE Managed(c) /\ DisableWith(c, Goes(r, t))
    BY <1>0, <2>2, <2>4, ChildUpdateStep, Zenon
  <2> QED
    BY <2>1, <2>3, <2>4, Zenon DEF t
<1>4. CASE DeleteOneChild(r)
  <2>1. PICK c \in task[r].todo, failed \in BOOLEAN :
          LET t == [task[r] EXCEPT !.todo = @ \ {c}, !.failed = failed]
          IN \/ task' = Goes(r, t) /\ UNCHANGED <<store, agents, peers, logical, adopted, revived>>
             \/ Managed(c) /\ DeleteWith(c, Goes(r, t))
    <3>2. task[r].failed \in BOOLEAN
      BY <1>0 DEF Task
    <3> QED
      BY <1>4, <3>2, Zenon DEF DeleteOneChild
  <2> DEFINE t == [task[r] EXCEPT !.todo = @ \ {c}, !.failed = failed]
  <2>2. t \in Task /\ t.op = task[r].op /\ t.dev = task[r].dev
    BY <1>0, Zenon DEF Task
  <2> HIDE DEF t
  <2>3. CASE task' = Goes(r, t) /\ UNCHANGED <<store, agents, peers, logical, adopted, revived>>
    <3>1. GoesOn(task[r], t)
      BY <2>2 DEF GoesOn
    <3> QED
      BY <1>0, <2>2, <2>3, <3>1, GoesStep, Zenon DEF logical
  <2>4. CASE Managed(c) /\ DeleteWith(c, Goes(r, t))
    BY <1>0, <2>2, <2>4, ChildUpdateStep, Zenon
  <2> QED
    BY <2>1, <2>3, <2>4, Zenon DEF t
<1>5. CASE EnableChildren(r)
  <2>1. PICK c \in task[r].todo :
          LET t == [task[r] EXCEPT !.todo = @ \ {c}]
          IN \/ task' = Goes(r, t) /\ UNCHANGED <<store, agents, peers, logical, adopted, revived>>
             \/ Managed(c) /\ EnableWith(c, Goes(r, t))
    BY <1>5, Zenon DEF EnableChildren
  <2> DEFINE t == [task[r] EXCEPT !.todo = @ \ {c}]
  <2>2. t \in Task /\ t.op = task[r].op /\ t.dev = task[r].dev
    BY <1>0, Zenon DEF Task
  <2> HIDE DEF t
  <2>3. CASE task' = Goes(r, t) /\ UNCHANGED <<store, agents, peers, logical, adopted, revived>>
    <3>1. GoesOn(task[r], t)
      BY <2>2, Zenon DEF GoesOn
    <3> QED
      BY <1>0, <2>2, <2>3, <3>1, GoesStep, Zenon DEF logical
  <2>4. CASE Managed(c) /\ EnableWith(c, Goes(r, t))
    BY <1>0, <2>2, <2>4, ChildUpdateStep, Zenon
  <2> QED
    BY <2>1, <2>3, <2>4, Zenon DEF t
<1>6. CASE LoopDone(r)
  <2> DEFINE t == task[r]
             t1 == [t EXCEPT !.op = "DeleteAllChildDevices", !.todo = t.peers]
             t2 == [Routine("DeleteLogicalDevice", t.dev) EXCEPT !.ld = t.ld]
  <2>0. t.op \in RootOp => t.dev = Root
    BY Zenon DEF RootCleanups
  <2>1. UNCHANGED <<store, agents, peers, logical, adopted, revived>>
    BY <1>6, Zenon DEF LoopDone
  <2>2. CASE t.op = "DisableAllChildDevices" /\ task' = Goes(r, t1)
    <3>1. t1 \in Task /\ GoesOn(t, t1)
      BY <1>0, <2>0, <2>2, Zenon DEF Task, GoesOn, CleanupOp, RootOp, Op
    <3> HIDE DEF t1
    <3> QED
      BY <1>0, <2>1, <2>2, <3>1, GoesStep, Zenon DEF logical
  <2>3. CASE t.op = "DeleteAllChildDevices" /\ task' = Goes(r, t2)
    <3>1. t2 \in Task /\ GoesOn(t, t2)
      BY <1>0, <2>0, <2>3, Zenon DEF Task, GoesOn, CleanupOp, RootOp, Op, Routine
    <3> HIDE DEF t2
    <3> QED
      BY <1>0, <2>1, <2>3, <3>1, GoesStep, Zenon DEF logical
  <2>4. CASE task' = Goes(r, Idle)
    <3>1. task[r].op \notin StartOp \cup {"ForgetAgent"}
      BY <1>6, Zenon DEF LoopDone, StartOp
    <3> QED
      BY <1>0, <1>i, <2>1, <2>4, <3>1, GoesStep, Zenon DEF logical
  <2> QED
    BY <1>6, <2>2, <2>3, <2>4, Zenon DEF LoopDone
<1> QED
  BY <1>1, <1>2, <1>3, <1>4, <1>5, <1>6, Zenon

\* agent.stop, and the removal of the agent from the map, preserve the invariant.
LEMMA StopKeepsIInv ==
  ASSUME IInv, NEW r \in Routines, StopAgent(r) \/ ForgetAgent(r)
  PROVE  IInv'
<1> USE DEF IInv
<1> DEFINE d == task[r].dev
<1>0. /\ d \in Devices /\ \A q \in Routines : task[q].dev \in Devices
      /\ peers \subseteq Children /\ parentId \in BOOLEAN /\ ldStored \in BOOLEAN
      /\ ldAgent \in {"none", "failed", "ready", "stopped"} \cup Routines
  BY Zenon DEF TypeOK, Task
<1>1. CASE ForgetAgent(r)
  <2>1. /\ task[r].op = "ForgetAgent" /\ agents' = Agent(d, "none") /\ task' = Goes(r, Idle)
        /\ UNCHANGED <<store, peers, logical, adopted, revived>>
    BY <1>1, Zenon DEF ForgetAgent
  <2>2. /\ task'[r].op = "idle" /\ task' \in [Routines -> Task]
        /\ \A q \in Routines : q # r => task'[q] = task[q]
    BY <2>1, IdleType, GoesEffect
  <2>3. /\ agents'[d] = "none"
        /\ \A e \in Devices : e # d => agents'[e] = agents[e]
        /\ agents' \in [Devices -> AgentState]
    BY <1>0, <2>1, Zenon DEF TypeOK, Agent, AgentState
  <2>4. TypeOK'
    BY <2>1, <2>2, <2>3, Zenon DEF TypeOK, logical
  <2>5. d \notin revived => \A q \in Routines : q # r /\ task[q].op \in CleanupOp => task[q].dev # d
    BY <2>1, Zenon DEF CleanupOwnsDevice, CleanupOp
  <2>6. CleanupOwnsDevice'
    BY <1>0, <2>1, <2>2, <2>3, <2>5 DEF CleanupOwnsDevice, HasAgent, CleanupOp
  <2>7. \A q \in Routines : task[q].op \in StartOp => task[q].dev # d
    <3>1. store[d].admin # "NONE"
      BY <1>0, <2>1 DEF CleanupOwnsDevice, CleanupOp, AgentStates
    <3> QED
      BY <1>0, <3>1, Zenon DEF AgentsHaveRecords
  <2>8. AgentsHaveRecords'
    BY <1>0, <2>1, <2>2, <2>3, <2>7 DEF AgentsHaveRecords, HasAgent, Live, StartOp
  <2>9. AgentStates'
    BY <2>1, <2>3 DEF AgentStates
  <2>10. RootCleanups'
    BY <2>2 DEF RootCleanups, RootOp
  <2> QED
    BY <2>4, <2>6, <2>8, <2>9, <2>10, Zenon
<1>2. CASE StopAgent(r) /\ Managed(d)
  <2> DEFINE t == Routine("ForgetAgent", d)
  <2>1. t \in Task /\ t.op = "ForgetAgent" /\ t.dev = d
    BY <1>0, RoutineType, Zenon DEF Op, CleanupOp
  <2>2. /\ task[r].op \in CleanupOp \ {"ForgetAgent", "Blocked"}
        /\ task' = Goes(r, t)
        /\ UNCHANGED <<ldAgent, ldStored, revived>>
        /\ \/ /\ store' = [store EXCEPT ![d] = Rec("REMOVED", "UNKNOWN")]
              /\ agents' = Agent(d, "stopped")
              /\ adopted' = adopted \ {d}
              /\ peers' = IF d = Root THEN {} ELSE peers
              /\ parentId' = (parentId /\ d # Root)
           \/ agents' = Agent(d, "deaf") /\ UNCHANGED <<store, peers, parentId, adopted>>
    <3>1. task[r].op \in {"StopAgent", "RunPostDeviceDelete"} /\ agents[d] # "stopped"
      BY <1>2, Zenon DEF StopAgent, Managed
    <3> QED
      BY <1>2, <3>1, Zenon DEF StopAgent, CleanupOp
  <2> HIDE DEF t
  <2>3. /\ task'[r] = t /\ task' \in [Routines -> Task]
        /\ \A q \in Routines : q # r => task'[q] = task[q]
    BY <2>1, <2>2, GoesEffect
  <2>4. PICK state \in {"stopped", "deaf"} :
          /\ agents'[d] = state
          /\ \A e \in Devices : e # d => agents'[e] = agents[e]
          /\ agents' \in [Devices -> AgentState]
          /\ state = "deaf" => store' = store /\ adopted' = adopted
          /\ state = "stopped" => /\ store' = [store EXCEPT ![d] = Rec("REMOVED", "UNKNOWN")]
                                  /\ adopted' = adopted \ {d}
    <3>1. CASE agents' = Agent(d, "stopped")
      BY <1>0, <2>2, <3>1, Zenon DEF TypeOK, Agent, AgentState
    <3>2. CASE agents' = Agent(d, "deaf")
      BY <1>0, <2>2, <3>2, Zenon DEF TypeOK, Agent, AgentState
    <3> QED
      BY <2>2, <3>1, <3>2, Zenon
  <2>5. Rec("REMOVED", "UNKNOWN") \in Record /\ Rec("REMOVED", "UNKNOWN").admin = "REMOVED"
    BY Zenon DEF Rec, Record, OperStatus
  <2>6. /\ store' \in [Devices -> Record] /\ adopted' \subseteq adopted
        /\ \A e \in Devices : e # d => store'[e] = store[e]
        /\ store'[d].admin = IF state = "stopped" THEN "REMOVED" ELSE store[d].admin
    BY <1>0, <2>4, <2>5 DEF TypeOK
  <2>7. TypeOK'
    BY <1>0, <2>2, <2>3, <2>4, <2>6, Zenon DEF TypeOK
  <2>8. /\ d \notin revived => /\ store[d].admin = "DELETED"
                               /\ \A q \in Routines : q # r /\ task[q].op \in CleanupOp => task[q].dev # d
        /\ store[d].admin \in LiveAdmin
        /\ \A q \in Routines : task[q].op \in StartOp => task[q].dev # d
    BY <1>0, <1>2, <2>2, ManagedLive, Zenon DEF CleanupOwnsDevice
  <2>9. CleanupOwnsDevice'
    BY <1>0, <2>1, <2>2, <2>3, <2>4, <2>6, <2>8 DEF CleanupOwnsDevice, HasAgent
  <2>10. AgentsHaveRecords'
    <3>1. \A q \in Routines : task'[q].op \in StartOp =>
            q # r /\ task'[q] = task[q] /\ task[q].dev # d
      BY <2>1, <2>3, <2>8 DEF StartOp
    <3>2. \A q \in Routines : task[q].op \in StartOp => task'[q] = task[q]
      BY <2>2, <2>3 DEF StartOp, CleanupOp
    <3>3. \A q \in Routines : task[q].op = "ForgetAgent" => task'[q] = task[q]
      BY <2>2, <2>3
    <3> QED
      BY <1>0, <2>1, <2>3, <2>4, <2>6, <2>8, <3>1, <3>2, <3>3 DEF AgentsHaveRecords, HasAgent, Live
  <2>11. AgentStates'
    BY <1>0, <2>2, <2>4, <2>6, <2>8 DEF AgentStates, LiveAdmin
  <2>12. RootCleanups'
    BY <2>1, <2>3 DEF RootCleanups, RootOp
  <2> QED
    BY <2>7, <2>9, <2>10, <2>11, <2>12, Zenon
<1>3. CASE StopAgent(r) /\ ~Managed(d)
  <2> DEFINE t == Routine("Blocked", d)
  <2>1. t \in Task /\ t.op = "Blocked" /\ t.dev = d
    BY <1>0, RoutineType, Zenon DEF Op, CleanupOp
  <2>2. /\ task[r].op \in {"StopAgent", "RunPostDeviceDelete"} /\ agents[d] = "stopped"
        /\ task' = Goes(r, t)
        /\ UNCHANGED <<store, agents, peers, parentId, adopted, ldAgent, ldStored, revived>>
    BY <1>3, Zenon DEF StopAgent
  <2>3. d \in revived
    BY <1>0, <2>2 DEF CleanupOwnsDevice, CleanupOp, AgentStates
  <2>4. GoesOn(task[r], t)
    BY <2>1, <2>2, <2>3, Zenon DEF GoesOn, CleanupOp
  <2> HIDE DEF t
  <2> QED
    BY <1>0, <2>1, <2>2, <2>4, GoesStep, Zenon
<1> QED
  BY <1>1, <1>2, <1>3, Zenon

\* Only the root's cleanup deletes the logical device: another goroutine that
\* stopped its agent is a cleanup of a root that was revived.
LEMMA StoppedMeansRevived ==
  ASSUME IInv, LogicalAgentIsServed, ldAgent = "stopped",
         NEW r \in Routines, task[r].op \in CleanupOp \ {"ForgetLogicalDevice"}, task[r].dev = Root
  PROVE  Root \in revived
<1>1. PICK q \in Routines : task[q].op = "ForgetLogicalDevice"
  BY Zenon DEF LogicalAgentIsServed
<1>2. task[q].dev = Root /\ q # r
  BY <1>1, Zenon DEF IInv, RootCleanups, RootOp
<1> QED
  BY <1>1, <1>2 DEF IInv, CleanupOwnsDevice, CleanupOp

\* The other handlers preserve the invariant.
LEMMA HandlersKeepIInv ==
  ASSUME IInv, LogicalAgentIsServed, NEW r \in Routines,
         \/ ChildDeviceLost(r) \/ DeletePeerPorts(r) \/ DeleteLogicalPorts(r)
         \/ DeleteLogicalDevice(r) \/ ForgetLogicalDevice(r) \/ StopLogicalDevice(r)
         \/ NothingToStop(r)
         \/ CreateLogicalDevice(r) \/ StartLogicalDevice(r) \/ AddLogicalDevice(r)
  PROVE  IInv'
<1> USE DEF IInv
<1>0. /\ task \in [Routines -> Task]
      /\ task[r] \in Task /\ task[r].dev \in Devices /\ Root \in Devices
      /\ peers \subseteq Children /\ parentId \in BOOLEAN /\ ldStored \in BOOLEAN
      /\ ldAgent \in {"none", "failed", "ready", "stopped"} \cup Routines
  BY Zenon DEF TypeOK, Task, Devices
<1>i. /\ Idle \in Task
      /\ task[r].op \notin StartOp \cup {"ForgetAgent"} => GoesOn(task[r], Idle)
  BY IdleType, Zenon DEF GoesOn, CleanupOp, StartOp
<1>t. \A op \in CleanupOp \ {"Blocked"} :
        /\ Routine(op, task[r].dev) \in Task
        /\ Routine(op, task[r].dev).op = op
        /\ /\ task[r].op \in CleanupOp \ {"ForgetAgent", "Blocked"}
           /\ op \in RootOp => task[r].dev = Root
           => GoesOn(task[r], Routine(op, task[r].dev))
  BY <1>0, RoutineType DEF GoesOn, Op
<1>b. /\ Routine("Blocked", task[r].dev) \in Task
      /\ task[r].op \in CleanupOp \ {"ForgetAgent"} /\ task[r].dev \in revived
         => GoesOn(task[r], Routine("Blocked", task[r].dev))
  BY <1>0, RoutineType DEF GoesOn, Op, CleanupOp
<1>1. CASE ChildDeviceLost(r)
  <2>0. task[r].op = "ChildDeviceLost" /\ UNCHANGED <<store, agents, peers, logical, adopted, revived>>
    BY <1>1, Zenon DEF ChildDeviceLost
  <2>1. CASE task' = Goes(r, Idle)
    BY <1>0, <1>i, <2>0, <2>1, GoesStep, Zenon DEF logical, StartOp
  <2>2. CASE Spawn(Goes(r, Routine("DeleteLogicalPorts", task[r].dev)),
                   Routine("deletePeerPorts", task[r].dev))
    <3> DEFINE t == Routine("DeleteLogicalPorts", task[r].dev)
               u == Routine("deletePeerPorts", task[r].dev)
               tasks == Goes(r, t)
    <3>1. t \in Task /\ GoesOn(task[r], t) /\ t.op = "DeleteLogicalPorts"
      BY <2>0, <1>t DEF CleanupOp, RootOp
    <3>2. u \in Task /\ u.op = "deletePeerPorts"
      BY <1>0, RoutineType, Zenon DEF Op
    <3>3. /\ tasks \in [Routines -> Task] /\ tasks[r] = t
          /\ \A q \in Routines : q # r => tasks[q] = task[q]
      BY <3>1, GoesEffect
    <3> HIDE DEF t, u, tasks
    <3>4. PICK s \in Routines : tasks[s].op = "idle" /\ task' = [tasks EXCEPT ![s] = u]
      BY <2>2, Zenon DEF Spawn, t, u, tasks
    <3>5. s # r
      BY <3>1, <3>3, <3>4, Zenon
    <3>7. TypeOK'
      BY <2>0, <3>2, <3>3, <3>4, Zenon DEF TypeOK, logical
    <3>8. /\ task'[s] = u /\ task'[r] = t
          /\ \A q \in Routines : q # r /\ q # s => task'[q] = task[q]
          /\ task[s].op = "idle"
      BY <3>3, <3>4, <3>5, Zenon
    <3>9. \A q \in Routines : GoesOn(task[q], task'[q])
      BY <3>1, <3>2, <3>8, Zenon DEF GoesOn, CleanupOp, StartOp
    <3> QED
      BY <2>0, <3>7, <3>9, RoutineStep, Zenon
  <2> QED
    BY <1>1, <2>1, <2>2, Zenon DEF ChildDeviceLost
<1>2. CASE DeletePeerPorts(r)
  BY <1>0, <1>2, <1>i, GoesStep, Zenon DEF DeletePeerPorts, logical, StartOp
<1>3. CASE DeleteLogicalPorts(r)
  <2> DEFINE t == Routine("RunPostDeviceDelete", task[r].dev)
  <2>1. t \in Task /\ GoesOn(task[r], t) /\ GoesOn(task[r], Idle)
    BY <1>3, <1>t, <1>i, Zenon DEF DeleteLogicalPorts, CleanupOp, RootOp, StartOp
  <2>2. task' = Goes(r, t) \/ task' = Goes(r, Idle)
    BY <1>3, Zenon DEF DeleteLogicalPorts
  <2>3. UNCHANGED <<store, agents, peers, logical, adopted, revived>>
    BY <1>3, Zenon DEF DeleteLogicalPorts
  <2> HIDE DEF t
  <2> QED
    BY <1>0, <1>i, <2>1, <2>2, <2>3, GoesStep, Zenon DEF logical
<1>4. CASE DeleteLogicalDevice(r)
  <2> DEFINE t == Routine("RunPostDeviceDelete", task[r].dev)
             u == Routine("ForgetLogicalDevice", task[r].dev)
             v == [u EXCEPT !.ld = TRUE]
             b == Routine("Blocked", task[r].dev)
  <2>0. task[r].op = "DeleteLogicalDevice" /\ task[r].dev = Root
    BY <1>4, Zenon DEF DeleteLogicalDevice, RootCleanups, RootOp
  <2>1. t \in Task /\ GoesOn(task[r], t) /\ GoesOn(task[r], Idle) /\ u \in Task /\ GoesOn(task[r], u)
    BY <2>0, <1>t, <1>i, Zenon DEF CleanupOp, RootOp, StartOp
  <2>2. v \in Task /\ v.op = u.op /\ v.dev = u.dev
    BY <2>1, Zenon DEF Task
  <2>3. GoesOn(task[r], v)
    BY <2>1, <2>2, Zenon DEF GoesOn
  <2>4. ldAgent = "stopped" => b \in Task /\ GoesOn(task[r], b)
    BY <2>0, <1>b, StoppedMeansRevived, Zenon DEF CleanupOp
  <2>5. /\ UNCHANGED <<store, agents, peers, adopted, revived>>
        /\ ldAgent' \in {"stopped", ldAgent}
        /\ ldStored' \in BOOLEAN /\ parentId' \in BOOLEAN
        /\ \/ task' = Goes(r, t) \/ task' = Goes(r, v) \/ task' = Goes(r, Idle)
           \/ ldAgent = "stopped" /\ task' = Goes(r, b)
    BY <1>0, <1>4, Zenon DEF DeleteLogicalDevice, ClearParentId, logical
  <2> HIDE DEF t, v, b
  <2> QED
    BY <1>0, <1>i, <2>1, <2>2, <2>3, <2>4, <2>5, GoesStep, Zenon
<1>5. CASE ForgetLogicalDevice(r)
  <2> DEFINE t == Routine("RunPostDeviceDelete", task[r].dev)
             u == Routine("StopAgent", task[r].dev)
  <2>0. task[r].op = "ForgetLogicalDevice" /\ task[r].dev = Root
    BY <1>5, Zenon DEF ForgetLogicalDevice, RootCleanups, RootOp
  <2>1. t \in Task /\ GoesOn(task[r], t) /\ u \in Task /\ GoesOn(task[r], u)
    BY <2>0, <1>t, Zenon DEF CleanupOp, RootOp
  <2>2. /\ UNCHANGED <<store, agents, peers, ldStored, adopted, revived>>
        /\ ldAgent' = "none" /\ parentId' \in BOOLEAN
        /\ task' = Goes(r, t) \/ task' = Goes(r, u)
    BY <1>0, <1>5, <2>0, Zenon DEF ForgetLogicalDevice, ClearParentId
  <2> HIDE DEF t, u
  <2> QED
    BY <1>0, <2>1, <2>2, GoesStep, Zenon
<1>6. CASE StopLogicalDevice(r)
  <2> DEFINE t == Routine("StopAgent", task[r].dev)
             u == Routine("ForgetLogicalDevice", task[r].dev)
             b == Routine("Blocked", task[r].dev)
  <2>0. task[r].op = "RunPostDeviceDelete" /\ task[r].dev = Root
    BY <1>6, Zenon DEF StopLogicalDevice
  <2>1. t \in Task /\ GoesOn(task[r], t) /\ u \in Task /\ GoesOn(task[r], u)
    BY <2>0, <1>t, Zenon DEF CleanupOp, RootOp
  <2>2. ldAgent = "stopped" => b \in Task /\ GoesOn(task[r], b)
    BY <2>0, <1>b, StoppedMeansRevived, Zenon DEF CleanupOp
  <2>3. /\ UNCHANGED <<store, agents, peers, parentId, adopted, revived>>
        /\ ldAgent' \in {"stopped", ldAgent} /\ ldStored' \in BOOLEAN
        /\ \/ task' = Goes(r, t) \/ task' = Goes(r, u)
           \/ ldAgent = "stopped" /\ task' = Goes(r, b)
    BY <1>0, <1>6, <2>0, Zenon DEF StopLogicalDevice
  <2> HIDE DEF t, u, b
  <2> QED
    BY <1>0, <2>1, <2>2, <2>3, GoesStep, Zenon
<1>7. CASE NothingToStop(r)
  BY <1>0, <1>7, <1>i, GoesStep, Zenon DEF NothingToStop, logical, StartOp
<1>8. CASE CreateLogicalDevice(r)
  <2> DEFINE t == Routine("StartLogicalDevice", Root)
  <2>0. task[r].op = "CreateLogicalDevice"
    BY <1>8, Zenon DEF CreateLogicalDevice
  <2>1. t \in Task /\ GoesOn(task[r], t) /\ GoesOn(task[r], Idle)
    BY <1>0, <1>i, <2>0, RoutineType DEF GoesOn, CleanupOp, StartOp, Op, LogicalOp
  <2>2. /\ task' = Goes(r, t) \/ task' = Goes(r, Idle)
        /\ ldAgent' \in {r, "failed", ldAgent} /\ parentId' \in BOOLEAN
        /\ UNCHANGED <<store, agents, peers, ldStored, adopted, revived>>
    BY <1>0, <1>8, Zenon DEF CreateLogicalDevice
  <2> HIDE DEF t
  <2> QED
    BY <1>0, <1>i, <2>1, <2>2, GoesStep, Zenon
<1>9. CASE StartLogicalDevice(r)
  <2> DEFINE t == Routine("AddLogicalDevice", Root)
  <2>0. task[r].op = "StartLogicalDevice"
    BY <1>9, Zenon DEF StartLogicalDevice
  <2>1. t \in Task /\ GoesOn(task[r], t) /\ GoesOn(task[r], Idle)
    BY <1>0, <1>i, <2>0, RoutineType DEF GoesOn, CleanupOp, StartOp, Op, LogicalOp
  <2>2. /\ task' = Goes(r, t) \/ task' = Goes(r, Idle)
        /\ ldAgent' \in {"failed", ldAgent}
        /\ UNCHANGED <<store, agents, peers, parentId, ldStored, adopted, revived>>
    BY <1>0, <1>9, Zenon DEF StartLogicalDevice, StartFails
  <2> HIDE DEF t
  <2> QED
    BY <1>0, <1>i, <2>1, <2>2, GoesStep, Zenon
<1>10. CASE AddLogicalDevice(r)
  <2>1. /\ ldAgent' \in {"ready", "failed", ldAgent} /\ ldStored' \in BOOLEAN
        /\ task[r].op = "AddLogicalDevice" /\ task' = Goes(r, Idle)
        /\ UNCHANGED <<store, agents, peers, parentId, adopted, revived>>
    BY <1>0, <1>10, Zenon DEF AddLogicalDevice, StartFails
  <2> QED
    BY <1>0, <1>i, <2>1, GoesStep, Zenon DEF StartOp
<1> QED
  BY <1>1, <1>2, <1>3, <1>4, <1>5, <1>6, <1>7, <1>8, <1>9, <1>10, Zenon

-----------------------------------------------------------------------------
(***************************************************************************)
(* The logical device's agent.  A goroutine that is starting it, or has    *)
(* stopped it, goes on by its own steps only: the others change their own  *)
(* task, or a free one.                                                    *)
(***************************************************************************)
Serving == {"StartLogicalDevice", "AddLogicalDevice", "ForgetLogicalDevice"}

\* A new goroutine does not take the place of one that serves the agent.
LEMMA SpawnKeepsServing ==
  ASSUME NEW tasks \in [Routines -> Task], NEW t, Spawn(tasks, t) \/ task' = tasks,
         NEW q \in Routines, tasks[q].op \in Serving
  PROVE  task'[q] = tasks[q]
BY Zenon DEF Spawn, Serving

\* Nor does the goroutine that runs the handlers of an update.
LEMMA UpdateKeepsServing ==
  ASSUME NEW d, NEW rec, NEW tasks \in [Routines -> Task], Update(d, rec, tasks),
         NEW q \in Routines, tasks[q].op \in Serving
  PROVE  task'[q] = tasks[q]
BY SpawnKeepsServing, Zenon DEF Update

\* A step that leaves the logical device alone, and the goroutines that serve its
\* agent, leaves the agent served.
LEMMA LogicalQuiet ==
  ASSUME LogicalAgentIsServed, UNCHANGED <<ldAgent, ldStored>>,
         \A q \in Routines : task[q].op \in Serving => task'[q] = task[q]
  PROVE  LogicalAgentIsServed'
BY Zenon DEF LogicalAgentIsServed, Serving

\* A step of a goroutine that does something else leaves the agent served.
LEMMA OtherStep ==
  ASSUME IInv, LogicalAgentIsServed, NEW r \in Routines, task[r].op \notin Serving, NEW t,
         UNCHANGED <<ldAgent, ldStored>>,
         \/ task' = Goes(r, t)
         \/ \E u : Spawn(Goes(r, t), u)
         \/ \E d, rec : Update(d, rec, Goes(r, t))
  PROVE  LogicalAgentIsServed'
<1>0. task \in [Routines -> Task]
  BY Zenon DEF IInv, TypeOK
<1>1. task' = Goes(r, t) \/ \E u : Spawn(Goes(r, t), u)
  BY Zenon DEF Update
<1>2. ASSUME NEW q \in Routines, task[q].op \in Serving
      PROVE  Goes(r, t)[q] = task[q] /\ Goes(r, t)[q].op # "idle"
  BY <1>0, <1>2, Zenon DEF Goes, Serving
<1>3. ASSUME NEW u, Spawn(Goes(r, t), u), NEW q \in Routines, task[q].op \in Serving
      PROVE  task'[q] = task[q]
  <2>1. PICK s \in Routines : Goes(r, t)[s].op = "idle" /\ task' = [Goes(r, t) EXCEPT ![s] = u]
    BY <1>3, Zenon DEF Spawn
  <2>2. q # s
    BY <1>2, <1>3, <2>1, Zenon
  <2> QED BY <1>0, <1>2, <1>3, <2>1, <2>2, Zenon DEF Goes
<1> QED BY <1>1, <1>2, <1>3, LogicalQuiet, Zenon

\* The agent is stored before it serves, a goroutine that fails to start it leaves
\* it marked as failed, and the one that stops it takes it out of the map next.
LEMMA NextKeepsServed ==
  ASSUME IInv, LogicalAgentIsServed, [Next]_vars
  PROVE  LogicalAgentIsServed'
<1>0. /\ task \in [Routines -> Task] /\ ldStored \in BOOLEAN
      /\ ldAgent \in {"none", "failed", "ready", "stopped"} \cup Routines
  BY Zenon DEF IInv, TypeOK
<1>1. CASE UNCHANGED vars
  BY <1>1, Zenon DEF vars, LogicalAgentIsServed
<1>2. CASE DeleteAllPorts \/ \E c \in Children : AddPort(c)
  BY <1>2, LogicalQuiet, Zenon DEF DeleteAllPorts, AddPort, logical
<1>3. ASSUME NEW d \in Devices,
             \/ EnableDevice(d) \/ DisableDevice(d) \/ DeleteDevice(d) \/ UpdateImageDownload(d)
             \/ \E oper \in OperReports : UpdateDeviceStatus(d, oper)
      PROVE  LogicalAgentIsServed'
  BY <1>0, <1>3, UpdateKeepsServing, LogicalQuiet
  DEF EnableDevice, EnableWith, DisableDevice, DisableWith, DeleteDevice, DeleteWith,
      UpdateDeviceStatus, UpdateImageDownload, logical
<1>4. CASE \/ CreateDevice
           \/ \E c \in Children : ChildDeviceDetected(c)
           \/ \E op \in {"childDevicesLost", "childDevicesDetected"} : ChildDevices(op)
  BY <1>0, <1>4, SpawnKeepsServing, LogicalQuiet, Zenon
  DEF CreateDevice, ChildDeviceDetected, ChildDevices, logical
<1>5. CASE Restart
  BY <1>5, Zenon DEF Restart, LogicalAgentIsServed
<1>6. CASE LoadLogicalDevice \/ \E d \in Devices : LoadDevice(d)
  BY <1>6, Zenon DEF LoadLogicalDevice, LoadDevice, LogicalAgentIsServed, logical
<1>7. ASSUME NEW r \in Routines, Step(r)
      PROVE  LogicalAgentIsServed'
  <2>0. r \notin {"none", "failed", "ready", "stopped"}
    OBVIOUS
  <2>1. CASE StartDevice(r) \/ StartChild(r)
    <3>1. task[r].op \notin Serving /\ UNCHANGED <<ldAgent, ldStored>> /\ \E t : task' = Goes(r, t)
      BY <2>1, Zenon DEF StartDevice, StartChild, Start, Serving, logical
    <3> QED
      BY <3>1, OtherStep, Zenon
  <2>2. CASE EnableChild(r)
    BY <2>2, OtherStep, Zenon DEF EnableChild, EnableWith, Serving, logical
  <2>3. CASE DisableChild(r)
    BY <2>3, OtherStep, Zenon DEF DisableChild, DisableWith, Serving, logical
  <2>4. CASE DeleteOneChild(r)
    BY <2>4, OtherStep, Zenon DEF DeleteOneChild, DeleteWith, Serving, logical
  <2>5. CASE EnableChildren(r)
    BY <2>5, OtherStep, Zenon DEF EnableChildren, EnableWith, Serving, logical
  <2>6. CASE LoopDone(r)
    BY <2>6, OtherStep, Zenon DEF LoopDone, Serving, logical
  <2>7. CASE ChildDeviceLost(r)
    BY <2>7, OtherStep, Zenon DEF ChildDeviceLost, Serving, logical
  <2>8. CASE DeletePeerPorts(r) \/ DeleteLogicalPorts(r) \/ NothingToStop(r) \/ ForgetAgent(r)
    BY <2>8, OtherStep, Zenon
    DEF DeletePeerPorts, DeleteLogicalPorts, NothingToStop, ForgetAgent, Serving, logical
  <2>9. CASE StopAgent(r)
    BY <2>9, OtherStep, Zenon DEF StopAgent, Serving
  <2>10. CASE DeleteLogicalDevice(r)
    <3>1. task[r].op = "DeleteLogicalDevice"
      BY <2>10, Zenon DEF DeleteLogicalDevice
    <3>2. CASE UNCHANGED <<ldAgent, ldStored>>
      <4>1. \E t : task' = Goes(r, t)
        BY <2>10, Zenon DEF DeleteLogicalDevice, ClearParentId
      <4> QED
        BY <3>1, <3>2, <4>1, OtherStep, Zenon DEF Serving
    <3>3. CASE ldAgent' = "stopped" /\ task' = Goes(r, [Routine("ForgetLogicalDevice", task[r].dev) EXCEPT !.ld = TRUE])
      <4>1. task'[r].op = "ForgetLogicalDevice"
        BY <1>0, <3>3 DEF Goes, Routine
      <4> QED
        BY <2>0, <3>3, <4>1 DEF LogicalAgentIsServed
    <3> QED
      BY <2>10, <3>2, <3>3, Zenon DEF DeleteLogicalDevice, logical
  <2>11. CASE ForgetLogicalDevice(r)
    BY <2>11, Zenon DEF ForgetLogicalDevice, LogicalAgentIsServed
  <2>12. CASE StopLogicalDevice(r)
    <3>1. task[r].op = "RunPostDeviceDelete"
      BY <2>12, Zenon DEF StopLogicalDevice
    <3>2. CASE UNCHANGED <<ldAgent, ldStored>>
      BY <2>12, <3>1, <3>2, OtherStep, Zenon DEF StopLogicalDevice, Serving
    <3>3. CASE ldAgent' = "stopped" /\ task' = Goes(r, Routine("ForgetLogicalDevice", Root))
      <4>1. task'[r].op = "ForgetLogicalDevice"
        BY <1>0, <3>3 DEF Goes, Routine
      <4> QED
        BY <2>0, <3>3, <4>1 DEF LogicalAgentIsServed
    <3> QED
      BY <2>12, <3>2, <3>3, Zenon DEF StopLogicalDevice
  <2>13. CASE CreateLogicalDevice(r) \/ StartLogicalDevice(r) \/ AddLogicalDevice(r)
    <3>1. /\ task[r].op \in LogicalOp
          /\ \E t : task' = Goes(r, t)
      BY <2>13, Zenon DEF CreateLogicalDevice, StartLogicalDevice, AddLogicalDevice, StartFails, LogicalOp
    <3>2. \A q \in Routines : q # r => task'[q] = task[q]
      BY <1>0, <3>1, Zenon DEF Goes
    <3>3. \/ ldAgent' = ldAgent /\ ldAgent # r
          \/ ldAgent' = ldAgent /\ ldAgent = r /\ task'[r].op = "AddLogicalDevice"
          \/ ldAgent' = r /\ task'[r].op = "StartLogicalDevice"
          \/ ldAgent' = "ready" /\ ldStored' = TRUE
          \/ ldAgent' = "failed"
      <4>1. CASE CreateLogicalDevice(r)
        <5>1. task[r].op = "CreateLogicalDevice" /\ ldAgent # r
          BY <4>1 DEF CreateLogicalDevice, LogicalAgentIsServed
        <5>2. task' = Goes(r, Routine("StartLogicalDevice", Root)) => task'[r].op = "StartLogicalDevice"
          BY <1>0 DEF Goes, Routine
        <5> QED
          BY <4>1, <5>1, <5>2, Zenon DEF CreateLogicalDevice
      <4>2. CASE StartLogicalDevice(r)
        <5>1. task' = Goes(r, Routine("AddLogicalDevice", Root)) => task'[r].op = "AddLogicalDevice"
          BY <1>0 DEF Goes, Routine
        <5> QED
          BY <4>2, <5>1, Zenon DEF StartLogicalDevice, StartFails
      <4>3. CASE AddLogicalDevice(r)
        BY <4>3, Zenon DEF AddLogicalDevice, StartFails
      <4> QED
        BY <2>13, <4>1, <4>2, <4>3
    <3>4. ldStored => ldStored'
      BY <2>13, Zenon DEF CreateLogicalDevice, StartLogicalDevice, AddLogicalDevice, StartFails
    <3> QED
      BY <1>0, <2>0, <3>1, <3>2, <3>3, <3>4 DEF LogicalAgentIsServed, LogicalOp
  <2> QED
    BY <1>7, <2>1, <2>2, <2>3, <2>4, <2>5, <2>6, <2>7, <2>8, <2>9, <2>10, <2>11, <2>12, <2>13, Zenon
    DEF Step
<1> QED
  BY <1>1, <1>2, <1>3, <1>4, <1>5, <1>6, <1>7, Zenon DEF Next

-----------------------------------------------------------------------------
\* The initial state satisfies the invariant.
LEMMA InitIInv == Init => IInv /\ LogicalAgentIsServed
<1> SUFFICES ASSUME Init PROVE IInv /\ LogicalAgentIsServed
  OBVIOUS
<1>1. Rec("NONE", "UNKNOWN") \in Record /\ Rec("NONE", "UNKNOWN").admin = "NONE"
  BY Zenon DEF Rec, Record, OperStatus
<1>2. TypeOK
  BY <1>1, IdleType, Zenon DEF Init, TypeOK, AgentState
<1>3. LogicalAgentIsServed
  BY Zenon DEF Init, LogicalAgentIsServed
<1>4. AgentStates
  BY <1>1, Zenon DEF Init, AgentStates
<1>5. \A r \in Routines : task[r].op = "idle"
  BY IdleType, Zenon DEF Init
<1>6. CleanupOwnsDevice /\ RootCleanups
  BY <1>5, Zenon DEF CleanupOwnsDevice, RootCleanups, RootOp, CleanupOp
<1>7. AgentsHaveRecords
  BY <1>5, Zenon DEF Init, AgentsHaveRecords, HasAgent, StartOp
<1> QED
  BY <1>2, <1>3, <1>4, <1>6, <1>7, Zenon DEF IInv

\* Every step preserves the invariant.
LEMMA NextIInv == IInv /\ LogicalAgentIsServed /\ [Next]_vars => IInv'
<1> SUFFICES ASSUME IInv, LogicalAgentIsServed, [Next]_vars PROVE IInv'
  OBVIOUS
<1>1. CASE UNCHANGED vars
  <2>1. TypeOK'
    BY <1>1, Zenon DEF vars, IInv, TypeOK
  <2> QED
    BY <1>1, <2>1, RoutineStep, Zenon DEF vars, GoesOn
<1>2. CASE Next
  BY <1>2, RequestsKeepIInv, ReportsKeepIInv, RestartKeepsIInv, LoopsKeepIInv, StopKeepsIInv,
     HandlersKeepIInv, Zenon
  DEF Next, Step
<1> QED
  BY <1>1, <1>2, Zenon

\* The inductive invariant holds in every reachable state.
THEOREM Invariance == Spec => [](IInv /\ LogicalAgentIsServed)
<1>1. IInv /\ LogicalAgentIsServed /\ [Next]_vars => (IInv /\ LogicalAgentIsServed)'
  BY NextIInv, NextKeepsServed, Zenon
<1> QED
  BY <1>1, InitIInv, PTL DEF Spec

\* Whatever the number of children and goroutines, every variable stays in its
\* type, although goroutines store devices from snapshots that may be stale.
THEOREM TypeCorrect == Spec => []TypeOK
<1>1. IInv => TypeOK
  BY Zenon DEF IInv
<1> QED
  BY <1>1, Invariance, PTL

\* A deleted device that no image report has revived is cleaned by one goroutine
\* only, stays DELETED and keeps its agent until that goroutine has stopped it:
\* agent.stop, whose second call blocks on exitChannel while holding the agent's
\* lock, is called once, and so is the stop of the logical device's agent.
THEOREM OneCleanup == Spec => []CleanupOwnsDevice
<1>1. IInv => CleanupOwnsDevice
  BY Zenon DEF IInv
<1> QED
  BY <1>1, Invariance, PTL

\* An agent whose device is not in the data model is being started, or failed to
\* start, or is about to leave the map.
THEOREM AgentsRecorded == Spec => []AgentsHaveRecords
<1>1. IInv => AgentsHaveRecords
  BY Zenon DEF IInv
<1> QED
  BY <1>1, Invariance, PTL

\* The logical device's agent that is in the map serves a logical device in the data
\* model, or is being started by a live goroutine, or failed to start, or is about
\* to leave the map.
THEOREM LogicalAgentServed == Spec => []LogicalAgentIsServed
BY Invariance, PTL

-----------------------------------------------------------------------------
(***************************************************************************)
(* DeviceLifecycle implements DeviceLife.  A step stores at most one       *)
(* device, and moves it along an edge of the abstract life.                *)
(***************************************************************************)
Edge ==
  {<<"NONE", "PREPROVISIONED">>, <<"PREPROVISIONED", "ENABLED">>, <<"DISABLED", "ENABLED">>,
   <<"ENABLED", "DISABLED">>, <<"PREPROVISIONED", "DELETED">>, <<"ENABLED", "DELETED">>,
   <<"DISABLED", "DELETED">>, <<"DELETED", "REMOVED">>}

\* The edge back from DELETED, and those that only a revived device takes.
Moved(d, from, to) ==
  \/ UNCHANGED revived /\ (to = from \/ <<from, to>> \in Edge)
  \/ from = "DELETED" /\ to = "ENABLED" /\ revived' = revived \cup {d}
  \/ UNCHANGED revived /\ d \in revived /\ from \in {"ENABLED", "DISABLED"} /\ to = "REMOVED"

Stores(d, rec) ==
  /\ store' = [store EXCEPT ![d] = rec]
  /\ Moved(d, store[d].admin, rec.admin)

\* What enableDevice stores is a step of the device's life.
LEMMA EnableStores ==
  ASSUME IInv, NEW d \in Devices, Managed(d), NEW tasks, EnableWith(d, tasks)
  PROVE  Stores(d, Rec("ENABLED", "ACTIVATING"))
BY ManagedLive, Zenon DEF EnableWith, Update, Stores, Moved, Edge, Rec, LiveAdmin

\* What disableDevice stores is a step of the device's life.
LEMMA DisableStores ==
  ASSUME NEW d, NEW tasks, DisableWith(d, tasks)
  PROVE  Stores(d, Rec("DISABLED", "UNKNOWN"))
BY Zenon DEF DisableWith, Update, Stores, Moved, Edge, Rec

\* What deleteDevice stores is a step of the device's life.
LEMMA DeleteStores ==
  ASSUME IInv, NEW d \in Devices, Managed(d), NEW tasks, DeleteWith(d, tasks)
  PROVE  Stores(d, Rec("DELETED", store[d].oper))
BY ManagedLive, Zenon DEF DeleteWith, Update, Stores, Moved, Edge, Rec, LiveAdmin

\* A step stores at most one device, along an edge of its life.
LEMMA NextStores ==
  ASSUME IInv, Next
  PROVE  UNCHANGED <<store, revived>> \/ \E d \in Devices : \E rec : Stores(d, rec)
<1> USE DEF IInv
<1>2. ASSUME NEW d \in Devices, EnableDevice(d) \/ DisableDevice(d) \/ DeleteDevice(d)
      PROVE  \E rec : Stores(d, rec)
  BY <1>2, EnableStores, DisableStores, DeleteStores, Zenon
  DEF EnableDevice, DisableDevice, DeleteDevice
<1>3. ASSUME NEW d \in Devices, NEW oper \in OperReports, UpdateDeviceStatus(d, oper)
      PROVE  \E rec : Stores(d, rec)
  <2>1. Stores(d, Rec(store[d].admin, oper))
    BY <1>3, Zenon DEF UpdateDeviceStatus, Update, Stores, Moved, Rec
  <2> QED
    BY <2>1, Zenon
<1>4. ASSUME NEW d \in Devices, UpdateImageDownload(d)
      PROVE  \E rec : Stores(d, rec)
  <2>1. store[d].admin \in LiveAdmin /\ d \in adopted
    BY <1>4, ManagedLive, Zenon DEF UpdateImageDownload, Reported
  <2>2. Stores(d, Rec("ENABLED", store[d].oper))
    BY <1>4, <2>1, Zenon DEF UpdateImageDownload, Update, Stores, Moved, Edge, Rec, LiveAdmin
  <2> QED
    BY <2>2, Zenon
<1>5. ASSUME NEW r \in Routines, Step(r)
      PROVE  UNCHANGED <<store, revived>> \/ \E d \in Devices : \E rec : Stores(d, rec)
  <2>0. /\ task[r].dev \in Devices /\ task[r].todo \subseteq Devices
    BY Zenon DEF TypeOK, Task, Devices
  <2>1. CASE StartDevice(r) \/ StartChild(r)
    <3>1. store[task[r].dev].admin = "NONE"
      BY <2>0, <2>1 DEF StartDevice, StartChild, StartOp, AgentsHaveRecords
    <3>2. \/ UNCHANGED <<store, revived>>
          \/ Stores(task[r].dev, Rec("PREPROVISIONED", "UNKNOWN"))
      BY <2>1, <3>1, Zenon DEF StartDevice, StartChild, Start, Stores, Moved, Edge, Rec
    <3> QED
      BY <2>0, <3>2, Zenon
  <2>2. CASE EnableChild(r)
    BY <2>0, <2>2, EnableStores, Zenon DEF EnableChild
  <2>3. CASE DisableChild(r)
    BY <2>0, <2>3, DisableStores, Zenon DEF DisableChild
  <2>4. CASE DeleteOneChild(r)
    BY <2>0, <2>4, DeleteStores, Zenon DEF DeleteOneChild
  <2>5. CASE EnableChildren(r)
    BY <2>0, <2>5, EnableStores, Zenon DEF EnableChildren
  <2>6. CASE StopAgent(r)
    <3> DEFINE d == task[r].dev
    <3>1. CASE UNCHANGED store
      BY <2>6, <3>1, Zenon DEF StopAgent
    <3>2. CASE Managed(d) /\ store' = [store EXCEPT ![d] = Rec("REMOVED", "UNKNOWN")]
      <4>1. store[d].admin \in LiveAdmin
        BY <2>0, <3>2, ManagedLive, Zenon
      <4>2. store[d].admin = "DELETED" \/ d \in revived
        BY <2>6, <4>1 DEF StopAgent, CleanupOwnsDevice, CleanupOp, LiveAdmin
      <4>3. Moved(d, store[d].admin, "REMOVED")
        BY <2>0, <2>6, <4>1, <4>2, Zenon DEF StopAgent, Moved, Edge, AgentStates, LiveAdmin
      <4>4. Stores(d, Rec("REMOVED", "UNKNOWN"))
        BY <3>2, <4>3, Zenon DEF Stores, Rec
      <4> QED
        BY <2>0, <4>4, Zenon
    <3> QED
      BY <2>6, <3>1, <3>2, Zenon DEF StopAgent
  <2>7. CASE \/ LoopDone(r) \/ ChildDeviceLost(r) \/ DeletePeerPorts(r) \/ DeleteLogicalPorts(r)
             \/ DeleteLogicalDevice(r) \/ ForgetLogicalDevice(r) \/ StopLogicalDevice(r)
             \/ ForgetAgent(r) \/ NothingToStop(r)
             \/ CreateLogicalDevice(r) \/ StartLogicalDevice(r) \/ AddLogicalDevice(r)
    BY <2>7, Zenon DEF LoopDone, ChildDeviceLost, DeletePeerPorts, DeleteLogicalPorts,
                DeleteLogicalDevice, ForgetLogicalDevice, StopLogicalDevice, ForgetAgent,
                NothingToStop, CreateLogicalDevice, StartLogicalDevice, AddLogicalDevice
  <2> QED
    BY <1>5, <2>1, <2>2, <2>3, <2>4, <2>5, <2>6, <2>7, Zenon DEF Step
<1>6. CASE \/ CreateDevice
           \/ \E c \in Children : ChildDeviceDetected(c) \/ AddPort(c)
           \/ DeleteAllPorts
           \/ \E op \in {"childDevicesLost", "childDevicesDetected"} : ChildDevices(op)
           \/ Restart
           \/ \E d \in Devices : LoadDevice(d)
           \/ LoadLogicalDevice
  BY <1>6, Zenon DEF CreateDevice, ChildDeviceDetected, AddPort, DeleteAllPorts, ChildDevices,
              Restart, LoadDevice, LoadLogicalDevice
<1> QED
  BY <1>2, <1>3, <1>4, <1>5, <1>6, Zenon DEF Next

\* Every device lives the life that DeviceLife promises: it is provisioned once,
\* comes back from DELETED by an image report only, and is removed for good, only
\* after it was deleted.
THEOREM Refinement == Spec => LifeSpec
<1> DEFINE admins == [d \in Devices |-> store[d].admin]
<1>1. Init => Life!Init
  BY DEF Init, Life!Init, Rec
<1>2. IInv /\ [Next]_vars => [Life!Next]_<<admins, revived>>
  <2> SUFFICES ASSUME IInv, [Next]_vars PROVE [Life!Next]_<<admins, revived>>
    OBVIOUS
  <2>1. CASE UNCHANGED <<store, revived>>
    BY <2>1, Zenon
  <2>2. ASSUME NEW d \in Devices, NEW rec, Stores(d, rec)
        PROVE  [Life!Next]_<<admins, revived>>
    <3>1. admins' = [admins EXCEPT ![d] = rec.admin] /\ admins[d] = store[d].admin
      BY <2>2, Zenon DEF Stores, IInv, TypeOK
    <3>2. CASE rec.admin = store[d].admin /\ UNCHANGED revived
      BY <3>1, <3>2, Zenon
    <3>3. CASE <<store[d].admin, rec.admin>> \in Edge /\ UNCHANGED revived
      BY <3>1, <3>3, Zenon
      DEF Edge, Life!Next, Life!Provision, Life!Enable, Life!Disable, Life!Delete, Life!Remove,
          Life!Moves
    <3>4. CASE store[d].admin = "DELETED" /\ rec.admin = "ENABLED" /\ revived' = revived \cup {d}
      BY <3>1, <3>4, Zenon DEF Life!Next, Life!Revive, Life!Moves
    <3>5. CASE /\ UNCHANGED revived /\ d \in revived
               /\ store[d].admin \in {"ENABLED", "DISABLED"} /\ rec.admin = "REMOVED"
      BY <3>1, <3>5, Zenon DEF Life!Next, Life!Remove, Life!Moves
    <3> QED
      BY <2>2, <3>2, <3>3, <3>4, <3>5, Zenon DEF Stores, Moved
  <2> QED
    BY <2>1, <2>2, NextStores, Zenon DEF vars
<1> QED
  BY <1>1, <1>2, Invariance, PTL DEF Spec, LifeSpec, Life!Spec
=============================================================================
