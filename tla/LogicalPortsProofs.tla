-------------------------- MODULE LogicalPortsProofs --------------------------
(***************************************************************************)
(* Proofs about LogicalPorts, for every set of devices and ports and every *)
(* bound: no port has two logical ports, the controller is told what is    *)
(* stored, the map of port numbers knows every port, the UNI ports of the  *)
(* active children settle, and the routes follow the wires between the     *)
(* devices.                                                                *)
(***************************************************************************)
EXTENDS LogicalPorts, FiniteSetTheorems, TLAPS

-----------------------------------------------------------------------------
(***************************************************************************)
(* Sequences.                                                              *)
(***************************************************************************)
Unique(s) == \A i, j \in DOMAIN s : s[i].no = s[j].no => i = j

\* What Only keeps of a sequence are elements of it at different positions, all
\* of them in the set, so what was unique stays so: it stands for the loops of
\* logical_device_agent.go and device_route.go that collect some elements of a list.
LEMMA OnlyKeeps ==
  ASSUME NEW S, NEW s \in Seq(S), NEW T
  PROVE  /\ Only(s, T) \in Seq(S \cap T)
         /\ Range(Only(s, T)) = Range(s) \cap T
         /\ Unique(s) => Unique(Only(s, T))
<1>b. PICK I : I = {i \in DOMAIN s : s[i] \in T}
  BY Zenon
<1> DEFINE Rank(i) == Cardinality({j \in I : j <= i})
           r == [i \in I |-> Rank(i)]
           f == [k \in 1..Cardinality(I) |-> CHOOSE i \in I : Rank(i) = k]
<1>a. Only(s, T) = [k \in 1..Cardinality(I) |-> s[CHOOSE i \in I : Rank(i) = k]]
  BY <1>b DEF Only
<1>0. I \in SUBSET (1..Len(s)) /\ \A i \in I : i \in Int
  BY <1>b
<1>1. IsFiniteSet(I) /\ Cardinality(I) \in Nat
  <2>1. IsFiniteSet(1..Len(s))
    BY FS_Interval
  <2>2. IsFiniteSet(I)
    BY <1>0, <2>1, FS_Subset, Zenon
  <2> QED BY <2>2, FS_CardinalityType, Zenon
<1>2. \A i \in I : Rank(i) \in 1..Cardinality(I)
  <2> TAKE i \in I
  <2>1. {j \in I : j <= i} \in SUBSET I /\ i \in {j \in I : j <= i}
    BY <1>0
  <2>2. IsFiniteSet({j \in I : j <= i}) /\ Rank(i) <= Cardinality(I) /\ Rank(i) \in Nat
    BY <1>1, <2>1, FS_Subset, FS_CardinalityType, Zenon
  <2>3. Rank(i) # 0
    BY <2>1, <2>2, FS_EmptySet, Zenon
  <2> QED BY <1>1, <2>2, <2>3
<1>3. \A i, j \in I : i < j => Rank(i) # Rank(j)
  <2> TAKE i, j \in I
  <2> HAVE i < j
  <2> DEFINE A == {k \in I : k <= i}
             B == {k \in I : k <= j}
  <2>1. i \in Int /\ j \in Int
    BY <1>0, Zenon
  <2>2. A \subseteq B
    <3> SUFFICES ASSUME NEW k \in A PROVE k \in B
      OBVIOUS
    <3>1. k \in I /\ k <= i /\ k \in Int
      BY <1>0, Zenon
    <3> QED BY <3>1, <2>1
  <2>3. A \in SUBSET B /\ j \in B /\ j \notin A
    BY <2>1, <2>2
  <2>4. IsFiniteSet(B)
    BY <1>1, FS_Subset, Zenon
  <2> HIDE DEF A, B
  <2>5. Cardinality(A) # Cardinality(B)
    BY <2>3, <2>4, FS_Subset, Zenon
  <2> QED BY <2>5, Zenon DEF A, B
<1> HIDE DEF Rank
<1>e. \A i, j \in I : Rank(i) = Rank(j) => i = j
  BY <1>0, <1>3
<1>4. r \in Injection(I, 1..Cardinality(I))
  BY <1>2, <1>e, Zenon DEF Injection, IsInjective
<1>5. r \in Surjection(I, 1..Cardinality(I))
  <2>1. IsFiniteSet(1..Cardinality(I)) /\ Cardinality(1..Cardinality(I)) = Cardinality(I)
    BY <1>1, FS_Interval
  <2> HIDE DEF r
  <2> QED BY <1>4, <2>1, FS_Injection, Zenon
<1>6. \A k \in 1..Cardinality(I) : \E i \in I : Rank(i) = k
  BY <1>5, Zenon DEF Surjection
<1>7. /\ f \in [1..Cardinality(I) -> I]
      /\ \A k, l \in 1..Cardinality(I) : f[k] = f[l] => k = l
  BY <1>6, Zenon
<1>f. \A i \in I : f[Rank(i)] = i
  <2> TAKE i \in I
  <2>1. Rank(i) \in 1..Cardinality(I) /\ \A j \in I : Rank(j) = Rank(i) => j = i
    BY <1>2, <1>e, Zenon
  <2> QED BY <2>1, Zenon
<1>c. Only(s, T) = [k \in 1..Cardinality(I) |-> s[f[k]]]
  BY <1>a, Zenon
<1> HIDE DEF f
<1>d. \A i \in I : i \in DOMAIN s /\ s[i] \in S \cap T
  BY <1>b
<1>8. /\ Only(s, T) = [k \in 1..Cardinality(I) |-> s[f[k]]]
      /\ \A k \in 1..Cardinality(I) : f[k] \in DOMAIN s /\ s[f[k]] \in S \cap T
  BY <1>c, <1>d, <1>7, Zenon
<1>9. Only(s, T) \in Seq(S \cap T)
  <2>1. Only(s, T) \in [1..Cardinality(I) -> S \cap T]
    BY <1>8, Zenon
  <2> QED BY <1>1, <2>1
<1>10. Range(Only(s, T)) = Range(s) \cap T
  <2>1. Range(Only(s, T)) \subseteq Range(s) \cap T
    BY <1>8 DEF Range
  <2>2. ASSUME NEW x \in Range(s) \cap T PROVE x \in Range(Only(s, T))
    <3>1. PICK i \in I : x = s[i]
      BY <1>b, Zenon DEF Range
    <3>2. Rank(i) \in 1..Cardinality(I) /\ f[Rank(i)] = i
      BY <1>2, <1>f, Zenon
    <3> QED BY <1>8, <3>1, <3>2, Zenon DEF Range
  <2> QED BY <2>1, <2>2, Zenon
<1>11. ASSUME Unique(s) PROVE Unique(Only(s, T))
  BY <1>7, <1>8, <1>11 DEF Unique
<1> QED BY <1>9, <1>10, <1>11, Zenon

-----------------------------------------------------------------------------
(***************************************************************************)
(* The goroutines and the types.                                           *)
(***************************************************************************)
LogicalPortState == [no : PortNo, up : BOOLEAN, live : BOOLEAN]

Ops ==
  Loops \cup {"updateLogicalPort", "CreateLogicalDevice", "SetupUNILogicalPorts", "updatePortState",
              "deleteAllLogicalPorts", "ChildDeviceLost", "DeleteLogicalPorts", "RunPostDeviceDelete",
              "RegisterCallback", "buildRoutes", "start", "setupLogicalPorts", "updateRoutes"}

Task ==
  [op : Ops, dev : Devices, ready : BOOLEAN, ld : BOOLEAN, todo : SUBSET (PortNo \cup {Pon}),
   port : PortNo \cup {0}, at : {"check", "add", "map"}, up : BOOLEAN, failed : BOOLEAN]

\* A goroutine that adds logical ports or routes has NNI and UNI ports before it,
\* and it has a port in hand from its check to its entry in the map.
Sound(t) ==
  /\ t \in Task
  /\ t.op \in Loops \cup {"SetupUNILogicalPorts", "updateRoutes"} => t.todo \subseteq PortNo
  /\ t.at # "check" => t.op \in Loops /\ t.port \in PortNo

Counted == tasks \in [Alive -> Nat \ {0}]
SoundTasks == Counted /\ \A t \in Alive : Sound(t)

TypeInv ==
  /\ ports \in Seq(LogicalPortState)
  /\ SoundTasks
  /\ devPorts \in [Devices -> SUBSET (PortNo \cup {Pon})]
  /\ peers \subseteq Children

\* A step that starts, moves and ends no goroutine leaves them sound.
LEMMA SameTasks == UNCHANGED tasks => Alive' = Alive /\ (Counted => Counted') /\ (SoundTasks => SoundTasks')
BY Zenon DEF Alive, Counted, SoundTasks

\* What a goroutine that goes on, or ends, leaves in the bag.
LEMMA BecomesTasks ==
  ASSUME Counted, NEW t \in Alive, NEW new, Becomes(t, new)
  PROVE  /\ Counted'
         /\ new \subseteq Alive'
         /\ Alive' \subseteq Alive \cup new
         /\ Alive \ {t} \subseteq Alive'
BY DEF Counted, Becomes, Alive, Alike

\* What go func() adds to the bag.
LEMMA SpawnTasks ==
  ASSUME Counted, NEW new, Spawn(new)
  PROVE  /\ Counted'
         /\ Alive' = Alive \cup new
BY DEF Counted, Spawn, Alive, Alike

\* The goroutines stay sound when sound ones are added or take the place of one.
LEMMA StaySound ==
  ASSUME SoundTasks, NEW new, \A u \in new : Sound(u),
         Spawn(new) \/ \E t \in Alive : Becomes(t, new)
  PROVE  SoundTasks'
<1> USE DEF SoundTasks
<1>1. CASE Spawn(new)
  BY <1>1, SpawnTasks, Zenon DEF Sound
<1>2. ASSUME NEW t \in Alive, Becomes(t, new) PROVE SoundTasks'
  BY <1>2, BecomesTasks, Zenon DEF Sound
<1> QED BY <1>1, <1>2, Zenon

\* The same for the one goroutine, or the two, that most steps leave.
LEMMA StaySoundFew ==
  ASSUME SoundTasks, NEW u, Sound(u), NEW v, Sound(v),
         \/ Spawn({u})
         \/ \E t \in Alive : Becomes(t, {u}) \/ Becomes(t, {u, v})
  PROVE  SoundTasks'
<1>1. CASE Spawn({u})
  BY <1>1, StaySound
<1>2. ASSUME NEW t \in Alive, Becomes(t, {u}) PROVE SoundTasks'
  BY <1>2, StaySound
<1>3. ASSUME NEW t \in Alive, Becomes(t, {u, v}) PROVE SoundTasks'
  BY <1>3, StaySound
<1> QED BY <1>1, <1>2, <1>3, Zenon

\* A goroutine begins soundly with the ports it is given.
LEMMA GoSound ==
  ASSUME NEW o \in Ops, NEW d \in Devices, NEW s \in SUBSET (PortNo \cup {Pon}),
         o \in Loops \cup {"SetupUNILogicalPorts", "updateRoutes"} => s \subseteq PortNo
  PROVE  Sound(Go(o, d, s)) /\ Go(o, d, s).todo = s
BY DEF Sound, Task, Go

\* Port numbers and devices, for the lemmas below.
LEMMA Numbering ==
  /\ PortNo = NNI \cup UNI /\ NNI \cap UNI = {} /\ Pon \notin PortNo /\ 0 \notin PortNo
  /\ \A p \in PortNo : DeviceOf(p) \in Devices
  /\ \A d : PortsOf(d) \subseteq PortNo
<1>1. PortNo = NNI \cup UNI /\ NNI \cap UNI = {} /\ Pon \notin PortNo
  BY PortsAssumption, Zenon DEF PortNo
<1>2. 0 \notin PortNo
  <2>1. 0 \notin 1..(Controller - 1)
    BY DEF Controller
  <2> QED BY <1>1, <2>1, PortsAssumption, Zenon
<1>3. ASSUME NEW p \in PortNo PROVE DeviceOf(p) \in Devices
  BY <1>1, DevicesAssumption, Zenon DEF DeviceOf, Devices
<1>4. \A d : PortsOf(d) \subseteq PortNo
  BY Zenon DEF PortsOf
<1> QED BY <1>1, <1>2, <1>3, <1>4, Zenon

\* The ports that WithState, SetLogicalPort, Append and Without make of the ports.
LEMMA NewPorts ==
  ASSUME ports \in Seq(LogicalPortState)
  PROVE  /\ \A set, up : up \in BOOLEAN => WithState(set, up) \in Seq(LogicalPortState)
         /\ \A d : Without(d) \in Seq(LogicalPortState)
         /\ \A p \in PortNo :
              Append(ports, [no |-> p, up |-> TRUE, live |-> TRUE]) \in Seq(LogicalPortState)
<1>1. \A set, up : up \in BOOLEAN => WithState(set, up) \in Seq(LogicalPortState)
  <2> TAKE set, up
  <2> HAVE up \in BOOLEAN
  <2>1. \A lp \in LogicalPortState : [lp EXCEPT !.up = up, !.live = up] \in LogicalPortState
    BY Zenon DEF LogicalPortState
  <2>2. \A i \in DOMAIN ports : ports[i] \in LogicalPortState
    OBVIOUS
  <2> DEFINE new(i) == IF ports[i].no \in set THEN [ports[i] EXCEPT !.up = up, !.live = up] ELSE ports[i]
  <2>3. \A i \in DOMAIN ports : new(i) \in LogicalPortState
    BY <2>1, <2>2, Zenon
  <2>4. WithState(set, up) = [i \in DOMAIN ports |-> new(i)]
    BY Zenon DEF WithState
  <2> HIDE DEF new
  <2>5. WithState(set, up) \in [1..Len(ports) -> LogicalPortState]
    BY <2>3, <2>4
  <2> QED BY <2>5
<1>2. \A d : Without(d) \in Seq(LogicalPortState)
  <2> TAKE d
  <2> DEFINE T == {lp \in Range(ports) : DeviceOf(lp.no) # d}
  <2>1. Only(ports, T) \in Seq(LogicalPortState \cap T)
    BY OnlyKeeps, Zenon
  <2> HIDE DEF T
  <2>2. Only(ports, T) \in Seq(LogicalPortState)
    BY <2>1
  <2> QED BY <2>2, Zenon DEF Without, T
<1>3. \A p \in PortNo :
        Append(ports, [no |-> p, up |-> TRUE, live |-> TRUE]) \in Seq(LogicalPortState)
  BY DEF LogicalPortState
<1> QED BY <1>1, <1>2, <1>3, Zenon

\* The types hold at the beginning: start of the devices' agents.
LEMMA InitTypes == Init => TypeInv
<1> SUFFICES ASSUME Init PROVE TypeInv
  OBVIOUS
<1>1. ports \in Seq(LogicalPortState) /\ peers \subseteq Children
  BY DEF Init
<1>2. SoundTasks
  BY DEF Init, SoundTasks, Counted, Alive
<1>3. devPorts \in [Devices -> SUBSET (PortNo \cup {Pon})]
  BY Numbering, Zenon DEF Init
<1> QED BY <1>1, <1>2, <1>3, Zenon DEF TypeInv

\* The requests of adapters and of the northbound API keep the types.
LEMMA RequestsKeepTypes == TypeInv /\ Requests => TypeInv'
<1> SUFFICES ASSUME TypeInv, Requests PROVE TypeInv'
  OBVIOUS
<1> USE DEF TypeInv
<1>1. ASSUME NEW d \in Devices, NEW p \in PortNo \cup {Pon}, AddDevicePort(d, p) PROVE TypeInv'
  <2>1. Sound(Go("updateLogicalPort", d, {p}))
    BY GoSound, Zenon DEF Loops, Ops
  <2>2. SoundTasks'
    <3>1. Spawn({Go("updateLogicalPort", d, {p})})
      BY <1>1, Zenon DEF AddDevicePort
    <3> QED BY <2>1, <3>1, StaySoundFew, Zenon
  <2>3. devPorts' \in [Devices -> SUBSET (PortNo \cup {Pon})] /\ peers' \subseteq Children
    BY <1>1, Zenon DEF AddDevicePort, Devices
  <2> QED BY <1>1, <2>2, <2>3, Zenon DEF AddDevicePort, logical
<1>2. ASSUME NEW d \in Devices, Activate(d) PROVE TypeInv'
  <2> DEFINE o == IF d = Root THEN "CreateLogicalDevice" ELSE "SetupUNILogicalPorts"
             g == Go(o, d, devPorts[d] \cap UNI)
  <2>1. o \in Ops /\ o \notin Loops \cup {"updateRoutes"} /\ devPorts[d] \cap UNI \subseteq PortNo
    BY Zenon DEF Loops, Ops, PortNo
  <2>2. Sound(g)
    BY <2>1, GoSound, Zenon
  <2>3. Sound([g EXCEPT !.ready = TRUE])
    BY <2>2, Zenon DEF Sound, Task
  <2>4. SoundTasks'
    <3>1. UNCHANGED tasks \/ Spawn({[g EXCEPT !.ready = TRUE]})
      BY <1>2, Zenon DEF Activate
    <3> HIDE DEF g
    <3> QED BY <2>3, <3>1, SameTasks, StaySoundFew, Zenon
  <2> QED BY <1>2, <2>4, Zenon DEF Activate, logical
<1>3. ASSUME NEW d \in Devices, Enable(d) \/ Deactivate(d) PROVE TypeInv'
  BY <1>3, SameTasks, Zenon DEF Enable, Deactivate, logical
<1>4. ASSUME NEW p \in PortNo, NEW up \in BOOLEAN, UpdateDevicePortState(p, up) PROVE TypeInv'
  <2> DEFINE g == Go("updatePortState", DeviceOf(p), {p})
  <2>1. Sound(g)
    BY Numbering, GoSound, Zenon DEF Loops, Ops
  <2>2. Sound([g EXCEPT !.up = up, !.ld = TRUE])
    BY <2>1, Zenon DEF Sound, Task
  <2>3. SoundTasks'
    BY <1>4, <2>2, StaySound DEF UpdateDevicePortState
  <2> QED BY <1>4, <2>3, Zenon DEF UpdateDevicePortState, logical, device
<1>5. ASSUME NEW d \in Devices, NEW up \in BOOLEAN, UpdateDevicePortsState(d, up) PROVE TypeInv'
  <2>1. UNCHANGED <<devPorts, peers, tasks>>
    BY <1>5, Zenon DEF UpdateDevicePortsState, device
  <2>2. ports' \in Seq(LogicalPortState)
    BY <1>5, NewPorts, Zenon DEF UpdateDevicePortsState, UpdateLogicalDevice
  <2> QED BY <2>1, <2>2, SameTasks, Zenon
<1>6. ASSUME NEW d \in Devices, DeleteAllPorts(d) PROVE TypeInv'
  <2>1. Sound(Go("deleteAllLogicalPorts", d, {}))
    BY GoSound, Zenon DEF Loops, Ops
  <2>2. SoundTasks'
    BY <1>6, <2>1, StaySound DEF DeleteAllPorts
  <2> QED BY <1>6, <2>2, Zenon DEF DeleteAllPorts, logical
<1>7. ASSUME NEW c \in Children, DeleteChild(c) PROVE TypeInv'
  <2>1. Sound(Go("ChildDeviceLost", c, {}))
    BY GoSound, Zenon DEF Loops, Ops, Devices
  <2>2. SoundTasks'
    BY <1>7, <2>1, StaySound DEF DeleteChild
  <2> QED BY <1>7, <2>2, Zenon DEF DeleteChild, logical
<1>8. ASSUME NEW p \in PortNo, NEW up \in BOOLEAN, SetLogicalPort(p, up) PROVE TypeInv'
  <2> DEFINE new(i) == IF ports[i].no = p THEN [ports[i] EXCEPT !.up = up] ELSE ports[i]
  <2>1. \A i \in DOMAIN ports : new(i) \in LogicalPortState
    <3>1. \A lp \in LogicalPortState : [lp EXCEPT !.up = up] \in LogicalPortState
      BY Zenon DEF LogicalPortState
    <3>2. \A i \in DOMAIN ports : ports[i] \in LogicalPortState
      OBVIOUS
    <3> QED BY <3>1, <3>2, Zenon
  <2>2. ports' = [i \in DOMAIN ports |-> new(i)]
    BY <1>8, Zenon DEF SetLogicalPort, UpdateLogicalDevice
  <2> HIDE DEF new
  <2>3. ports' \in [1..Len(ports) -> LogicalPortState]
    BY <2>1, <2>2
  <2> QED BY <1>8, <2>3, SameTasks DEF SetLogicalPort, device
<1>9. CASE GenerateDeviceRoutesIfNeeded
  BY <1>9, SameTasks, Zenon DEF GenerateDeviceRoutesIfNeeded, device
<1>10. CASE Restart
  <2>1. Sound(Go("RegisterCallback", Root, {})) /\ Sound(Go("buildRoutes", Root, {}))
    BY GoSound, Zenon DEF Loops, Ops, Devices
  <2>2. SoundTasks'
    BY <1>10, <2>1 DEF Restart, SoundTasks, Counted, Alive
  <2> QED BY <1>10, <2>2, Zenon DEF Restart, device
<1> QED
  BY <1>1, <1>2, <1>3, <1>4, <1>5, <1>6, <1>7, <1>8, <1>9, <1>10, Zenon DEF Requests

\* The steps of the goroutines keep the types.
LEMMA StepKeepsTypes == ASSUME TypeInv, NEW t \in Alive, Step(t) PROVE TypeInv'
<1> USE DEF TypeInv
<1>a. Sound(t)
  BY Zenon DEF SoundTasks
<1>b. ASSUME NEW new, Becomes(t, new), \A u \in new : Sound(u) PROVE SoundTasks'
  BY <1>b, StaySound, Zenon
<1>c. ASSUME Ends(t) PROVE SoundTasks'
  BY <1>b, <1>c DEF Ends
<1>d. \A o \in Ops : o \notin Loops \cup {"SetupUNILogicalPorts", "updateRoutes"} => Sound(Go(o, Root, {}))
  BY GoSound, Zenon DEF Devices
<1>1. CASE CreateLogicalDevice(t)
  <2>1. SoundTasks'
    BY <1>1, <1>b, <1>c, <1>d DEF CreateLogicalDevice, Loops, Ops
  <2> QED BY <1>1, <2>1, Zenon DEF CreateLogicalDevice, device
<1>2. CASE StartLogicalDevice(t)
  <2>1. SoundTasks'
    <3>1. Sound(Go("setupLogicalPorts", Root, {})) /\ Sound(Go("RegisterCallback", Root, {}))
      BY <1>d, Zenon DEF Loops, Ops
    <3>2. CASE Ends(t)
      BY <3>2, <1>c, Zenon
    <3>3. CASE Becomes(t, {Go("setupLogicalPorts", Root, {}), Go("RegisterCallback", Root, {})})
      BY <3>1, <3>3, <1>b
    <3> QED BY <1>2, <3>2, <3>3, Zenon DEF StartLogicalDevice
  <2> QED BY <1>2, <2>1, Zenon DEF StartLogicalDevice, device
<1>3. CASE RegisterCallback(t)
  BY <1>3, <1>c, Zenon DEF RegisterCallback, device
<1>4. CASE SetupLogicalPorts(t)
  <2>1. Sound(Go("setupNNILogicalPorts", Root, devPorts[Root] \cap NNI))
    BY GoSound, Zenon DEF Devices, PortNo, Loops, Ops
  <2>2. SoundTasks'
    BY <1>4, <2>1, StaySoundFew, Zenon DEF SetupLogicalPorts
  <2> QED BY <1>4, <2>2, Zenon DEF SetupLogicalPorts, device, logical
<1>5. CASE LookUpAgent(t)
  <2> DEFINE u == [t EXCEPT !.op = IF @ = "updateLogicalPort" THEN "addPort" ELSE "setupUNILogicalPorts"]
  <2>1. Pon \notin t.todo => Sound(u)
    BY <1>5, <1>a, Zenon DEF LookUpAgent, Has, Sound, Task, Loops, Ops
  <2>2. Sound(Go("buildRoutes", Root, {}))
    BY <1>d, Zenon DEF Loops, Ops
  <2>3. SoundTasks'
    BY <1>5, <1>b, <1>c, <2>1, <2>2 DEF LookUpAgent
  <2> QED BY <1>5, <2>3, Zenon DEF LookUpAgent, device, logical
<1>6. ASSUME NEW p \in PortNo, Has(t, Loops)
      PROVE  Sound(NotAdded(t, p)) /\ Sound([NotAdded(t, p) EXCEPT !.failed = TRUE])
             /\ Sound([t EXCEPT !.port = p, !.at = "add"])
             /\ Sound([t EXCEPT !.at = "map", !.port = p, !.failed = FALSE])
  BY <1>6, <1>a, Numbering, ZenonT(60) DEF NotAdded, Sound, Task, Has
<1>7. CASE CheckPort(t)
  <2>1. PICK p \in t.todo :
          Becomes(t, {IF ~t.ready \/ PortExist(p) THEN NotAdded(t, p) ELSE [t EXCEPT !.port = p, !.at = "add"]})
    BY <1>7, Zenon DEF CheckPort
  <2>2. p \in PortNo /\ Has(t, Loops)
    BY <1>7, <1>a, Zenon DEF CheckPort, Has, Sound
  <2>3. SoundTasks'
    BY <1>6, <2>1, <2>2, StaySoundFew, Zenon
  <2> QED BY <1>7, <2>3, Zenon DEF CheckPort, device, logical
<1>8. CASE AddLogicalPort(t)
  <2>1. t.port \in PortNo /\ Has(t, Loops) /\ t.dev \in Devices /\ t \in Task
    BY <1>8, <1>a, Zenon DEF AddLogicalPort, Sound, Task
  <2>2. Sound([t EXCEPT !.at = "map", !.failed = FALSE])
    BY <1>a, <2>1, Zenon DEF Sound, Has, Task
  <2>3. Sound(Go("updateRoutes", t.dev, {t.port}))
    BY <2>1, GoSound DEF Loops, Ops
  <2>4. SoundTasks'
    <3>1. CASE Ends(t)
      BY <3>1, <1>c
    <3>2. CASE Becomes(t, {[NotAdded(t, t.port) EXCEPT !.failed = TRUE]}) \/ Becomes(t, {NotAdded(t, t.port)})
      BY <3>2, <1>6, <2>1, StaySoundFew, Zenon
    <3>3. CASE Becomes(t, {[t EXCEPT !.at = "map", !.failed = FALSE], Go("updateRoutes", t.dev, {t.port})})
      BY <3>3, <2>2, <2>3, StaySoundFew, Zenon
    <3> QED BY <1>8, <3>1, <3>2, <3>3, Zenon DEF AddLogicalPort
  <2>5. ports' \in Seq(LogicalPortState)
    BY <1>8, <2>1, NewPorts, Zenon DEF AddLogicalPort, UpdateLogicalDevice
  <2> QED BY <1>8, <2>4, <2>5, Zenon DEF AddLogicalPort, device
<1>9. CASE MapPort(t)
  <2>1. Sound([t EXCEPT !.todo = @ \ {t.port}, !.port = 0, !.at = "check"])
    BY <1>a, Zenon DEF Sound, Task
  <2>2. SoundTasks'
    BY <1>9, <1>b, <2>1 DEF MapPort
  <2> QED BY <1>9, <2>2, Zenon DEF MapPort, device
<1>10. CASE EndLoop(t)
  <2>1. \A c \in peers : Sound(Go("setupUNILogicalPorts", c, devPorts[c] \cap UNI))
    BY GoSound, Zenon DEF Devices, PortNo, Loops, Ops
  <2>2. SoundTasks'
    BY <1>10, <1>b, <2>1, ZenonT(60) DEF EndLoop
  <2> QED BY <1>10, <2>2, Zenon DEF EndLoop, device, logical
<1>11. CASE BuildRoutes(t)
  BY <1>11, <1>c, Zenon DEF BuildRoutes, device
<1>12. CASE UpdateRoutes(t)
  BY <1>12, <1>c, Zenon DEF UpdateRoutes, device
<1>13. CASE UpdatePortState(t)
  <2>1. t.up \in BOOLEAN
    BY <1>a, Zenon DEF Sound, Task
  <2>2. ports' \in Seq(LogicalPortState)
    BY <1>13, <2>1, NewPorts, Zenon DEF UpdatePortState, UpdateLogicalDevice
  <2> QED BY <1>13, <1>c, <2>2, Zenon DEF UpdatePortState, device
<1>14. CASE DeleteAllLogicalPorts(t)
  <2>1. ports' \in Seq(LogicalPortState)
    BY <1>14, NewPorts, Zenon DEF DeleteAllLogicalPorts, UpdateLogicalDevice
  <2> QED BY <1>14, <1>c, <2>1, Zenon DEF DeleteAllLogicalPorts, device
<1>15. CASE ChildDeviceLost(t)
  <2>1. Sound([t EXCEPT !.op = "DeleteLogicalPorts"])
    BY <1>15, <1>a, Zenon DEF ChildDeviceLost, Has, Sound, Task, Loops, Ops
  <2>2. SoundTasks'
    BY <1>15, <1>b, <2>1 DEF ChildDeviceLost
  <2> QED BY <1>15, <2>2, Zenon DEF ChildDeviceLost, logical
<1>16. CASE DeleteLogicalPorts(t)
  <2>1. Sound([t EXCEPT !.op = "RunPostDeviceDelete"]) /\ Sound(Go("buildRoutes", Root, {}))
    BY <1>16, <1>a, <1>d, Zenon DEF DeleteLogicalPorts, Has, Sound, Task, Loops, Ops
  <2>2. SoundTasks'
    BY <1>16, <1>b, <2>1 DEF DeleteLogicalPorts
  <2>3. ports' \in Seq(LogicalPortState)
    BY <1>16, NewPorts, Zenon DEF DeleteLogicalPorts, UpdateLogicalDevice
  <2> QED BY <1>16, <2>2, <2>3, Zenon DEF DeleteLogicalPorts, device
<1>17. CASE RunPostDeviceDelete(t)
  BY <1>17, <1>c, Zenon DEF RunPostDeviceDelete, logical
<1> QED
  BY <1>1, <1>2, <1>3, <1>4, <1>5, <1>7, <1>8, <1>9, <1>10, <1>11, <1>12, <1>13, <1>14, <1>15, <1>16, <1>17, Zenon
     DEF Step

\* The types hold of every step.
LEMMA NextKeepsTypes == TypeInv /\ [Next]_vars => TypeInv'
<1> SUFFICES ASSUME TypeInv, [Next]_vars PROVE TypeInv'
  OBVIOUS
<1>1. CASE UNCHANGED vars
  BY <1>1, SameTasks, Zenon DEF TypeInv, vars
<1>2. CASE Next
  BY <1>2, RequestsKeepTypes, StepKeepsTypes, Zenon DEF Next, Goroutine
<1> QED BY <1>1, <1>2, Zenon

-----------------------------------------------------------------------------
(***************************************************************************)
(* No port has two logical ports, and the controller is told what is       *)
(* stored: both follow from how a step may change the list of ports.       *)
(***************************************************************************)
\* The numbers of the ports that are left, changed or added.
LEMMA NewNumbers ==
  ASSUME ports \in Seq(LogicalPortState)
  PROVE  /\ \A set, up : Numbers(WithState(set, up)) = Numbers(ports)
                         /\ (Unique(ports) => Unique(WithState(set, up)))
         /\ \A d : /\ \A p \in Numbers(Without(d)) : p \in Numbers(ports) /\ DeviceOf(p) # d
                   /\ Unique(ports) => Unique(Without(d))
         /\ \A p : LET new == Append(ports, [no |-> p, up |-> TRUE, live |-> TRUE])
                   IN /\ Numbers(new) = Numbers(ports) \cup {p}
                      /\ Unique(ports) /\ p \notin Numbers(ports) => Unique(new)
<1>0. DOMAIN ports = 1..Len(ports) /\ Len(ports) \in Nat /\ \A i \in DOMAIN ports : ports[i] \in LogicalPortState
  OBVIOUS
<1>1. ASSUME NEW set, NEW up
      PROVE  /\ Numbers(WithState(set, up)) = Numbers(ports)
             /\ Unique(ports) => Unique(WithState(set, up))
  <2>1. DOMAIN WithState(set, up) = DOMAIN ports
    BY Zenon DEF WithState
  <2>2. \A i \in DOMAIN ports : WithState(set, up)[i].no = ports[i].no
    BY <1>0, Zenon DEF WithState, LogicalPortState
  <2> QED BY <2>1, <2>2, Zenon DEF Numbers, Unique
<1>2. ASSUME NEW d
      PROVE  /\ \A p \in Numbers(Without(d)) : p \in Numbers(ports) /\ DeviceOf(p) # d
             /\ Unique(ports) => Unique(Without(d))
  <2>1. PICK T : T = {lp \in Range(ports) : DeviceOf(lp.no) # d}
    BY Zenon
  <2>2. Without(d) = Only(ports, T)
    BY <2>1, Zenon DEF Without
  <2>3. Without(d) \in Seq(LogicalPortState \cap T) /\ Range(Without(d)) \subseteq Range(ports) \cap T
    BY <2>2, OnlyKeeps
  <2>4. ASSUME NEW p \in Numbers(Without(d)) PROVE p \in Numbers(ports) /\ DeviceOf(p) # d
    <3>1. PICK lp \in Range(Without(d)) : p = lp.no
      BY Zenon DEF Numbers, Range
    <3> QED BY <2>1, <2>3, <3>1, Zenon DEF Numbers, Range
  <2>5. Unique(ports) => Unique(Only(ports, T))
    BY OnlyKeeps, Zenon
  <2> QED BY <2>2, <2>4, <2>5, Zenon
<1>3. ASSUME NEW p
      PROVE  LET new == Append(ports, [no |-> p, up |-> TRUE, live |-> TRUE])
             IN /\ Numbers(new) = Numbers(ports) \cup {p}
                /\ Unique(ports) /\ p \notin Numbers(ports) => Unique(new)
  <2> DEFINE new == Append(ports, [no |-> p, up |-> TRUE, live |-> TRUE])
             n == Len(ports)
  <2>a. DOMAIN new = 1..(n + 1) /\ new[n + 1].no = p
    BY <1>0
  <2>b. \A i \in DOMAIN ports : new[i].no = ports[i].no
    BY <1>0
  <2>c. 1..(n + 1) = (1..n) \cup {n + 1} /\ n + 1 \notin 1..n
    BY <1>0
  <2>1. /\ DOMAIN new = DOMAIN ports \cup {n + 1} /\ n + 1 \notin DOMAIN ports /\ new[n + 1].no = p
        /\ \A i \in DOMAIN ports : new[i].no = ports[i].no
    BY <1>0, <2>a, <2>b, <2>c, Zenon
  <2> HIDE DEF new, n
  <2>2. Numbers(new) = Numbers(ports) \cup {p}
    BY <2>1 DEF Numbers
  <2>3. ASSUME Unique(ports), p \notin Numbers(ports) PROVE Unique(new)
    BY <2>1, <2>3 DEF Numbers, Unique
  <2> QED BY <2>2, <2>3, Zenon DEF new
<1> QED BY <1>1, <1>2, <1>3, Zenon

\* A list whose port numbers differ has as many numbers as ports.
LEMMA UniqueCount ==
  ASSUME NEW s \in Seq(LogicalPortState), Unique(s)
  PROVE  Cardinality(Numbers(s)) = Len(s)
<1> DEFINE f == [i \in 1..Len(s) |-> s[i].no]
<1>1. DOMAIN s = 1..Len(s) /\ Len(s) \in Nat
  OBVIOUS
<1>2. f \in Surjection(1..Len(s), Numbers(s))
  BY <1>1, Zenon DEF Surjection, Numbers
<1>3. f \in Injection(1..Len(s), Numbers(s))
  BY <1>1, Zenon DEF Injection, IsInjective, Numbers, Unique
<1>4. IsFiniteSet(1..Len(s)) /\ Cardinality(1..Len(s)) = Len(s)
  BY <1>1, FS_Interval, SMTT(30)
<1> HIDE DEF f
<1> QED BY <1>2, <1>3, <1>4, FS_Surjection, Zenon

\* Every step leaves the ports alone or stores them with updateLogicalDevice, and
\* every list that is stored has no number twice if the one before had none: the
\* only one that adds a port looks for it under the lock.
LEMMA PortsEffect ==
  ASSUME TypeInv, [Next]_vars
  PROVE  \/ UNCHANGED <<ports, told, missed>>
         \/ \E new : UpdateLogicalDevice(new) /\ (Unique(ports) => Unique(new))
<1> DEFINE Effect == \/ UNCHANGED <<ports, told, missed>>
                     \/ \E new : UpdateLogicalDevice(new) /\ (Unique(ports) => Unique(new))
<1>a. ports \in Seq(LogicalPortState)
  BY Zenon DEF TypeInv
<1>b. ASSUME NEW set, NEW up, UpdateLogicalDevice(WithState(set, up)) PROVE Effect
  BY <1>a, <1>b, NewNumbers, Zenon
<1>c. ASSUME NEW d, UpdateLogicalDevice(Without(d)) PROVE Effect
  BY <1>a, <1>c, NewNumbers, Zenon
<1>d. ASSUME UpdateLogicalDevice(ports) PROVE Effect
  BY <1>d, Zenon
<1>1. CASE UNCHANGED vars
  BY <1>1, Zenon DEF vars
<1>2. ASSUME NEW d, NEW up, UpdateDevicePortsState(d, up) PROVE Effect
  BY <1>2, <1>b, Zenon DEF UpdateDevicePortsState
<1>3. ASSUME NEW p, NEW up, SetLogicalPort(p, up) PROVE Effect
  <2>1. PICK new : new = [i \in DOMAIN ports |-> IF ports[i].no = p THEN [ports[i] EXCEPT !.up = up] ELSE ports[i]]
    BY Zenon
  <2>2. DOMAIN new = DOMAIN ports /\ \A i \in DOMAIN ports : new[i].no = ports[i].no
    BY <1>a, <2>1 DEF LogicalPortState
  <2>3. Unique(ports) => Unique(new)
    BY <2>2, Zenon DEF Unique
  <2> QED BY <1>3, <2>1, <2>3, Zenon DEF SetLogicalPort
<1>4. ASSUME NEW t, AddLogicalPort(t) PROVE Effect
  <2>1. CASE ~PortExist(t.port) /\ UpdateLogicalDevice(Append(ports, [no |-> t.port, up |-> TRUE, live |-> TRUE]))
    <3>1. Unique(ports) => Unique(Append(ports, [no |-> t.port, up |-> TRUE, live |-> TRUE]))
      BY <1>a, <2>1, NewNumbers, Zenon DEF PortExist
    <3> QED BY <2>1, <3>1, Zenon
  <2> QED BY <1>4, <2>1, Zenon DEF AddLogicalPort
<1>5. ASSUME NEW t, UpdatePortState(t) PROVE Effect
  BY <1>5, <1>b, <1>d, Zenon DEF UpdatePortState
<1>6. ASSUME NEW t, DeleteAllLogicalPorts(t) PROVE Effect
  BY <1>6, <1>c, <1>d, Zenon DEF DeleteAllLogicalPorts
<1>7. ASSUME NEW t, DeleteLogicalPorts(t) PROVE Effect
  BY <1>7, <1>c, Zenon DEF DeleteLogicalPorts
<1>8. CASE Requests
  BY <1>2, <1>3, <1>8, Zenon DEF Requests, AddDevicePort, Enable, Activate, Deactivate, UpdateDevicePortState, DeleteAllPorts,
     DeleteChild, GenerateDeviceRoutesIfNeeded, Restart, logical
<1>9. CASE Goroutine
  BY <1>4, <1>5, <1>6, <1>7, <1>9, ZenonT(60) DEF Goroutine, Step, CreateLogicalDevice, StartLogicalDevice, RegisterCallback,
     SetupLogicalPorts, LookUpAgent, CheckPort, MapPort, EndLoop, BuildRoutes, UpdateRoutes, ChildDeviceLost,
     RunPostDeviceDelete, logical
<1> QED BY <1>1, <1>8, <1>9, Zenon DEF Next

\* A device port never has two logical ports, in whichever order the goroutines of
\* addNNILogicalPort, addUNILogicalPort and deleteLogicalPorts take the lock.
THEOREM PortsUnique == Spec => []NoDuplicatePort
<1> DEFINE Inv == TypeInv /\ Unique(ports)
<1>1. Init => Inv
  BY InitTypes DEF Init, Unique
<1>2. Inv /\ [Next]_vars => Inv'
  <2> SUFFICES ASSUME Inv, [Next]_vars PROVE Unique(ports)' /\ TypeInv'
    OBVIOUS
  <2>1. TypeInv'
    BY NextKeepsTypes, Zenon
  <2>2. Unique(ports)'
    BY PortsEffect, Zenon DEF UpdateLogicalDevice, Unique
  <2> QED BY <2>1, <2>2, Zenon
<1>3. Inv => NoDuplicatePort
  BY UniqueCount, Zenon DEF TypeInv, NoDuplicatePort
<1> QED BY <1>1, <1>2, <1>3, PTL DEF Spec

\* What portUpdated sends makes up for what updateLogicalDeviceWithoutLock changes.
LEMMA UpdateAnnounces == ASSUME Announced, NEW new, UpdateLogicalDevice(new) PROVE Announced'
<1> DEFINE d == Diff(ports, new)
           all == d.new \cup d.changed \cup d.deleted
<1> SUFFICES ASSUME NEW p \in PortNo, p \notin missed'
             PROVE  told'[p] = IF p \in Numbers(new) THEN StateOf(new, p) ELSE << >>
  BY Zenon DEF Announced, UpdateLogicalDevice, PortExist
<1>1. told'[p] = IF ~watched \/ p \notin all THEN told[p]
                 ELSE IF p \in d.deleted THEN << >> ELSE StateOf(new, p)
  BY Zenon DEF UpdateLogicalDevice, PortUpdated
<1>2. missed' = IF watched THEN missed \ all ELSE missed \cup all
  BY Zenon DEF UpdateLogicalDevice, PortUpdated
<1>3. /\ d.new = Numbers(new) \ Numbers(ports)
      /\ d.changed = {q \in Numbers(new) \cap Numbers(ports) : StateOf(new, q) # StateOf(ports, q)}
      /\ d.deleted = Numbers(ports) \ Numbers(new)
  BY Zenon DEF Diff
<1> HIDE DEF d
<1>4. CASE p \in all
  BY <1>1, <1>2, <1>3, <1>4, Zenon
<1>5. CASE p \notin all
  <2>1. p \notin missed
    BY <1>2, <1>5, Zenon
  <2>2. told[p] = IF p \in Numbers(ports) THEN StateOf(ports, p) ELSE << >>
    BY <2>1, Zenon DEF Announced, PortExist
  <2>3. /\ p \in Numbers(new) <=> p \in Numbers(ports)
        /\ p \in Numbers(new) => StateOf(new, p) = StateOf(ports, p)
    BY <1>3, <1>5, Zenon
  <2> QED BY <1>1, <1>5, <2>2, <2>3, Zenon
<1> QED BY <1>4, <1>5, Zenon

\* The controller has been told the state of every port that is stored, and the
\* deletion of every other, but for changes made before the callback was registered.
THEOREM ControllerTold == Spec => []Announced
<1>1. Init => TypeInv /\ Announced
  BY InitTypes DEF Init, Announced, PortExist, Numbers
<1>2. TypeInv /\ Announced /\ [Next]_vars => (TypeInv /\ Announced)'
  <2> SUFFICES ASSUME TypeInv, Announced, [Next]_vars PROVE Announced'
    BY NextKeepsTypes, Zenon
  <2>1. CASE UNCHANGED <<ports, told, missed>>
    BY <2>1, Zenon DEF Announced, PortExist
  <2>2. ASSUME NEW new, UpdateLogicalDevice(new) PROVE Announced'
    BY <2>2, UpdateAnnounces, Zenon
  <2> QED BY <2>1, <2>2, PortsEffect, Zenon
<1> QED BY <1>1, <1>2, PTL DEF Spec

-----------------------------------------------------------------------------
(***************************************************************************)
(* The map of port numbers.                                                *)
(***************************************************************************)
Mapping == {t \in Alive : t.at = "map"}

\* A step that stores no new port, leaves the map and the goroutines that are about
\* to make an entry in it, keeps the map right.
LEMMA KeepsMapping ==
  ASSUME MapKnowsPorts, Numbers(ports)' \subseteq Numbers(ports), portsNo' = portsNo, Mapping \subseteq Mapping'
  PROVE  MapKnowsPorts'
BY Zenon DEF MapKnowsPorts, Mapping

\* Requests: those that store ports change the state of ports only.
LEMMA RequestsKeepMapping == TypeInv /\ MapKnowsPorts /\ Requests => MapKnowsPorts'
<1> SUFFICES ASSUME TypeInv, MapKnowsPorts, Requests PROVE MapKnowsPorts'
  OBVIOUS
<1>a. ports \in Seq(LogicalPortState) /\ Counted
  BY Zenon DEF TypeInv, SoundTasks
<1>b. ASSUME NEW new, Spawn(new), UNCHANGED <<ports, portsNo>> PROVE MapKnowsPorts'
  <2>1. Mapping \subseteq Mapping'
    BY <1>a, <1>b, SpawnTasks, Zenon DEF Mapping
  <2> QED BY <1>b, <2>1, KeepsMapping, Zenon DEF Numbers
<1>c. ASSUME UNCHANGED <<portsNo, tasks>>, Numbers(ports)' \subseteq Numbers(ports) PROVE MapKnowsPorts'
  <2>1. Mapping' = Mapping
    BY <1>c, SameTasks, Zenon DEF Mapping
  <2> QED BY <1>c, <2>1, KeepsMapping, Zenon
<1>1. ASSUME NEW d, NEW p, AddDevicePort(d, p) PROVE MapKnowsPorts'
  BY <1>1, <1>b, Zenon DEF AddDevicePort, logical
<1>2. ASSUME NEW d, Activate(d) PROVE MapKnowsPorts'
  BY <1>2, <1>b, <1>c, Zenon DEF Activate, logical, Numbers
<1>3. ASSUME NEW d, Enable(d) \/ Deactivate(d) PROVE MapKnowsPorts'
  BY <1>3, <1>c, Zenon DEF Enable, Deactivate, logical, Numbers
<1>4. ASSUME NEW p, NEW up, UpdateDevicePortState(p, up) PROVE MapKnowsPorts'
  BY <1>4, <1>b, Zenon DEF UpdateDevicePortState, logical
<1>5. ASSUME NEW d, NEW up, UpdateDevicePortsState(d, up) PROVE MapKnowsPorts'
  <2>1. Numbers(ports)' = Numbers(ports)
    BY <1>5, <1>a, NewNumbers DEF UpdateDevicePortsState, UpdateLogicalDevice, Numbers
  <2> QED BY <1>5, <1>c, <2>1, Zenon DEF UpdateDevicePortsState
<1>6. ASSUME NEW d, DeleteAllPorts(d) PROVE MapKnowsPorts'
  BY <1>6, <1>b, Zenon DEF DeleteAllPorts, logical
<1>7. ASSUME NEW c, DeleteChild(c) PROVE MapKnowsPorts'
  BY <1>7, <1>b, Zenon DEF DeleteChild, logical
<1>8. ASSUME NEW p, NEW up, SetLogicalPort(p, up) PROVE MapKnowsPorts'
  <2>1. DOMAIN ports' = DOMAIN ports /\ \A i \in DOMAIN ports : ports'[i].no = ports[i].no
    BY <1>a, <1>8 DEF SetLogicalPort, UpdateLogicalDevice, LogicalPortState
  <2>2. Numbers(ports)' = Numbers(ports)
    BY <2>1, Zenon DEF Numbers
  <2> QED BY <1>8, <1>c, <2>2, Zenon DEF SetLogicalPort
<1>9. CASE GenerateDeviceRoutesIfNeeded
  BY <1>9, <1>c, Zenon DEF GenerateDeviceRoutesIfNeeded, Numbers
<1>10. CASE Restart
  <2>1. Numbers(ports)' = Numbers(ports)
    BY <1>10, Zenon DEF Restart, Numbers
  <2>2. portsNo' = [p \in Numbers(ports) |-> p \in NNI]
    BY <1>10, Zenon DEF Restart
  <2> QED BY <2>1, <2>2, Zenon DEF MapKnowsPorts
<1> QED
  BY <1>1, <1>2, <1>3, <1>4, <1>5, <1>6, <1>7, <1>8, <1>9, <1>10, Zenon DEF Requests

\* Goroutines: the one that stores a port goes on to its entry, and the entries that
\* deleteLogicalPorts drops are those of ports it deletes.
LEMMA StepKeepsMapping ==
  ASSUME TypeInv, MapKnowsPorts, NEW t \in Alive, Step(t) PROVE MapKnowsPorts'
<1>a. ports \in Seq(LogicalPortState) /\ Counted /\ Sound(t)
  BY Zenon DEF TypeInv, SoundTasks
<1>b. ASSUME NEW new, Becomes(t, new), t.at # "map"
      PROVE  Mapping \subseteq Mapping' /\ new \subseteq Alive'
  BY <1>a, <1>b, BecomesTasks, Zenon DEF Mapping
<1>c. ASSUME NEW new, Becomes(t, new), t.at # "map", portsNo' = portsNo,
             Numbers(ports)' \subseteq Numbers(ports)
      PROVE  MapKnowsPorts'
  BY <1>b, <1>c, KeepsMapping, Zenon
<1>d. t.op \notin Loops => t.at # "map"
  BY <1>a, Zenon DEF Sound
<1>e. ports' = ports => Numbers(ports)' \subseteq Numbers(ports)
  BY Zenon DEF Numbers
<1>f. ASSUME NEW new, UpdateLogicalDevice(new), Numbers(new) \subseteq Numbers(ports)
      PROVE  Numbers(ports)' \subseteq Numbers(ports)
  BY <1>f, Zenon DEF UpdateLogicalDevice, Numbers
<1>1. CASE CreateLogicalDevice(t)
  BY <1>1, <1>c, <1>d, <1>e, Zenon DEF CreateLogicalDevice, Ends, Has, Loops
<1>2. CASE StartLogicalDevice(t)
  BY <1>2, <1>c, <1>d, <1>e, Zenon DEF StartLogicalDevice, Ends, Has, Loops
<1>3. CASE RegisterCallback(t)
  BY <1>3, <1>c, <1>d, <1>e, Zenon DEF RegisterCallback, Ends, Has, Loops
<1>4. CASE SetupLogicalPorts(t)
  BY <1>4, <1>c, <1>d, <1>e, Zenon DEF SetupLogicalPorts, Has, Loops, logical
<1>5. CASE LookUpAgent(t)
  BY <1>5, <1>c, <1>d, <1>e, Zenon DEF LookUpAgent, Ends, Has, Loops, logical
<1>6. CASE CheckPort(t)
  BY <1>6, <1>c, <1>e, Zenon DEF CheckPort, logical
<1>7. CASE AddLogicalPort(t)
  <2>1. portsNo' = portsNo /\ t.at = "add"
    BY <1>7, Zenon DEF AddLogicalPort
  <2>2. ASSUME UNCHANGED ports, NEW new, Becomes(t, new) PROVE MapKnowsPorts'
    BY <1>c, <1>e, <2>1, <2>2, Zenon
  <2>3. ASSUME UpdateLogicalDevice(Append(ports, [no |-> t.port, up |-> TRUE, live |-> TRUE])),
               Becomes(t, {[t EXCEPT !.at = "map", !.failed = FALSE], Go("updateRoutes", t.dev, {t.port})})
        PROVE  MapKnowsPorts'
    <3>1. Numbers(ports)' = Numbers(ports) \cup {t.port}
      BY <2>3, <1>a, NewNumbers, SMTT(30) DEF UpdateLogicalDevice, Numbers
    <3>2. PICK u : u = [t EXCEPT !.at = "map", !.failed = FALSE]
      OBVIOUS
    <3>3. u.at = "map" /\ u.port = t.port
      BY <3>2, <1>a, Zenon DEF Sound, Task
    <3>4. Mapping \subseteq Mapping' /\ u \in Alive'
      BY <1>b, <2>1, <2>3, <3>2, Zenon
    <3> QED BY <2>1, <3>1, <3>3, <3>4, Zenon DEF MapKnowsPorts, Mapping
  <2> QED BY <1>7, <2>2, <2>3, Zenon DEF AddLogicalPort, Ends
<1>8. CASE MapPort(t)
  <2>1. /\ portsNo' = Put(portsNo, [p \in {t.port} |-> p \in NNI])
        /\ Numbers(ports)' = Numbers(ports)
    BY <1>8, Zenon DEF MapPort, Numbers
  <2>2. Mapping \ {t} \subseteq Mapping'
    BY <1>a, <1>8, BecomesTasks, Zenon DEF MapPort, Mapping
  <2>3. /\ t.port \in DOMAIN portsNo' /\ portsNo'[t.port] = (t.port \in NNI)
        /\ \A p \in DOMAIN portsNo : p # t.port => p \in DOMAIN portsNo' /\ portsNo'[p] = portsNo[p]
    BY <2>1, Zenon DEF Put
  <2> SUFFICES ASSUME NEW p \in Numbers(ports)
               PROVE  \/ p \in DOMAIN portsNo' /\ portsNo'[p] = (p \in NNI)
                      \/ \E u \in Mapping' : u.port = p
    BY <2>1, Zenon DEF MapKnowsPorts, Mapping
  <2>4. CASE p = t.port
    BY <2>3, <2>4, Zenon
  <2>5. CASE p # t.port
    BY <2>2, <2>3, <2>5, Zenon DEF MapKnowsPorts, Mapping
  <2> QED BY <2>4, <2>5, Zenon
<1>9. CASE EndLoop(t)
  BY <1>9, <1>c, <1>e, Zenon DEF EndLoop, logical
<1>10. CASE BuildRoutes(t)
  BY <1>10, <1>c, <1>d, <1>e, Zenon DEF BuildRoutes, Ends, Has, Loops
<1>11. CASE UpdateRoutes(t)
  BY <1>11, <1>c, <1>d, <1>e, Zenon DEF UpdateRoutes, Ends, Has, Loops
<1>12. CASE UpdatePortState(t)
  <2>1. Numbers(ports)' \subseteq Numbers(ports)
    BY <1>a, <1>f, <1>12, NewNumbers, Zenon DEF UpdatePortState
  <2> QED BY <1>12, <1>c, <1>d, <2>1, Zenon DEF UpdatePortState, Ends, Has, Loops
<1>13. CASE DeleteAllLogicalPorts(t)
  <2>1. Numbers(ports)' \subseteq Numbers(ports)
    BY <1>a, <1>f, <1>13, NewNumbers, Zenon DEF DeleteAllLogicalPorts
  <2> QED BY <1>13, <1>c, <1>d, <2>1, Zenon DEF DeleteAllLogicalPorts, Ends, Has, Loops
<1>14. CASE ChildDeviceLost(t)
  BY <1>14, <1>c, <1>d, <1>e, Zenon DEF ChildDeviceLost, Has, Loops, logical
<1>15. CASE DeleteLogicalPorts(t)
  <2>0. t.at # "map"
    BY <1>15, <1>d, Zenon DEF DeleteLogicalPorts, Has, Loops
  <2>1. CASE ~FindsAgent(t)
    BY <1>15, <1>c, <1>e, <2>0, <2>1, Zenon DEF DeleteLogicalPorts
  <2>2. CASE FindsAgent(t)
    <3>a. \E new : Becomes(t, new)
      BY <1>15, Zenon DEF DeleteLogicalPorts
    <3>b. /\ portsNo' = Restrict(portsNo, DOMAIN portsNo \ (PortsOf(t.dev) \cap Numbers(ports)))
          /\ UpdateLogicalDevice(Without(t.dev))
      BY <1>15, <2>2, Zenon DEF DeleteLogicalPorts
    <3>1. /\ Mapping \subseteq Mapping'
          /\ portsNo' = Restrict(portsNo, DOMAIN portsNo \ (PortsOf(t.dev) \cap Numbers(ports)))
          /\ UpdateLogicalDevice(Without(t.dev))
      BY <1>b, <2>0, <3>a, <3>b, ZenonT(60)
    <3>2. \A p \in Numbers(ports)' : p \in Numbers(ports) /\ DeviceOf(p) # t.dev
      BY <1>a, <3>1, NewNumbers DEF UpdateLogicalDevice, Numbers
    <3>3. \A p \in DOMAIN portsNo : p \notin PortsOf(t.dev) => p \in DOMAIN portsNo' /\ portsNo'[p] = portsNo[p]
      BY <3>1, Zenon DEF Restrict
    <3>4. \A p \in Numbers(ports)' : p \notin PortsOf(t.dev)
      BY <3>2, Zenon DEF PortsOf
    <3> QED BY <3>1, <3>2, <3>3, <3>4, Zenon DEF MapKnowsPorts, Mapping
  <2> QED BY <2>1, <2>2, Zenon
<1>16. CASE RunPostDeviceDelete(t)
  BY <1>16, <1>c, <1>d, <1>e, Zenon DEF RunPostDeviceDelete, Ends, Has, Loops, logical
<1> QED
  BY <1>1, <1>2, <1>3, <1>4, <1>5, <1>6, <1>7, <1>8, <1>9, <1>10, <1>11, <1>12, <1>13, <1>14, <1>15, <1>16
     DEF Step

\* A logical port is in the map of port numbers, or the goroutine that stored it is
\* about to put it there: entries are made after the lock is released, and dropped
\* with the ports of a child only.
THEOREM MapComplete == Spec => []MapKnowsPorts
<1>1. Init => TypeInv /\ MapKnowsPorts
  BY InitTypes DEF Init, MapKnowsPorts, Numbers
<1>2. TypeInv /\ MapKnowsPorts /\ [Next]_vars => (TypeInv /\ MapKnowsPorts)'
  <2> SUFFICES ASSUME TypeInv, MapKnowsPorts, [Next]_vars PROVE MapKnowsPorts'
    BY NextKeepsTypes
  <2>1. CASE UNCHANGED vars
    BY <2>1, SameTasks, Zenon DEF vars, MapKnowsPorts, Numbers
  <2>2. CASE Next
    BY <2>2, RequestsKeepMapping, StepKeepsMapping, Zenon DEF Next, Goroutine
  <2> QED BY <2>1, <2>2, Zenon
<1> QED BY <1>1, <1>2, PTL DEF Spec

-----------------------------------------------------------------------------
(***************************************************************************)
(* The routes.  A route is right when it passes from the device of its     *)
(* first port over the PON ports to the device of the other.               *)
(***************************************************************************)
Keys == (NNI \X UNI) \cup (UNI \X NNI)
Route(k) == <<Hop(DeviceOf(k[1]), k[1], Pon), Hop(DeviceOf(k[2]), Pon, k[2])>>
Follow(routes) == \A k \in DOMAIN routes : k \in Keys /\ routes[k] = Route(k)

LogicalPortSet == {LogicalPort(p) : p \in PortNo}
CachedPort == [no : {Pon}, type : {"PON_OLT", "PON_ONU"}, peers : Seq([dev : Devices, no : {Pon}])]
DevicePort == CachedPort \cup [no : NNI, type : {"NNI"}, peers : {<< >>}]
                         \cup [no : UNI, type : {"UNI"}, peers : {<< >>}]

GoodDevices(devices) == \A d \in DOMAIN devices : devices[d].ports \in Seq(DevicePort)
GoodCache(c) == \A d \in DOMAIN c : c[d] \in Seq(CachedPort)

\* What the routes are computed from: the logical ports and PON ports that are kept
\* in the DeviceRoutes object are those of the devices.
GoodRoutes(r) ==
  /\ r = [logicalPorts |-> r.logicalPorts, rootPorts |-> r.rootPorts, routes |-> r.routes, ponPorts |-> r.ponPorts]
  /\ r.logicalPorts \in Seq(LogicalPortSet)
  /\ Follow(r.routes)
  /\ GoodCache(r.ponPorts)

\* A list of elements of a set is one of elements of a larger set.
LEMMA SeqMonotone == ASSUME NEW S, NEW T, S \subseteq T, NEW s \in Seq(S) PROVE s \in Seq(T)
OBVIOUS

\* A finite set as a list has the elements of the set.
LEMMA ListingIn == ASSUME NEW S, IsFiniteSet(S) PROVE Listing(S) \in Seq(S)
<1>1. Cardinality(S) \in Nat /\ ExistsBijection(1..Cardinality(S), S)
  BY FS_CardinalityType, Zenon
<1>2. \E f \in [1..Cardinality(S) -> S] : Range(f) = S
  BY <1>1 DEF ExistsBijection, Bijection, Surjection, Range
<1>3. Listing(S) \in [1..Cardinality(S) -> S]
  BY <1>2, Zenon DEF Listing
<1> QED BY <1>1, <1>3

\* The devices that the data model gives to the computation have NNI, UNI and PON
\* ports, and a PON port names the PON ports of other devices as its peers.
LEMMA ModelGood == TypeInv => GoodDevices(Model)
<1> SUFFICES ASSUME TypeInv, NEW d \in DOMAIN Model PROVE Model[d].ports \in Seq(DevicePort)
  BY Zenon DEF GoodDevices
<1> DEFINE Wire(x) == IF x = Root THEN Listing({[dev |-> c, no |-> Pon] : c \in peers})
                                  ELSE <<[dev |-> Root, no |-> Pon]>>
           Port(x, p) ==
             IF p = Pon THEN [no |-> p, type |-> IF x = Root THEN "PON_OLT" ELSE "PON_ONU", peers |-> Wire(x)]
             ELSE [no |-> p, type |-> IF p \in NNI THEN "NNI" ELSE "UNI", peers |-> << >>]
           S == {Port(d, p) : p \in devPorts[d]}
<1>1. d \in Devices /\ Model[d].ports = Listing(S)
  BY Zenon DEF Model
<1>2. Wire(d) \in Seq([dev : Devices, no : {Pon}])
  <2> DEFINE P == {[dev |-> c, no |-> Pon] : c \in peers}
  <2>1. IsFiniteSet(P)
    <3>1. IsFiniteSet(peers)
      BY DevicesAssumption, FS_Subset, Zenon DEF TypeInv
    <3> DEFINE f == [c \in peers |-> [dev |-> c, no |-> Pon]]
    <3>2. f \in Surjection(peers, P)
      BY Zenon DEF Surjection
    <3> HIDE DEF f, P
    <3> QED BY <3>1, <3>2, FS_Surjection, Zenon
  <2>2. P \subseteq [dev : Devices, no : {Pon}]
    BY DEF TypeInv, Devices
  <2>3. Listing(P) \in Seq(P)
    BY <2>1, ListingIn, Zenon
  <2> HIDE DEF P
  <2>4. Listing(P) \in Seq([dev : Devices, no : {Pon}])
    BY <2>2, <2>3, SeqMonotone, Zenon
  <2>5. <<[dev |-> Root, no |-> Pon]>> \in Seq([dev : Devices, no : {Pon}])
    <3>1. [dev |-> Root, no |-> Pon] \in [dev : Devices, no : {Pon}]
      BY Zenon DEF Devices
    <3> QED BY <3>1
  <2> QED BY <2>4, <2>5, Zenon DEF P
<1>3. S \subseteq DevicePort
  <2> HIDE DEF Wire
  <2> SUFFICES ASSUME NEW p \in devPorts[d] PROVE Port(d, p) \in DevicePort
    BY Zenon
  <2>1. p \in NNI \cup UNI \cup {Pon}
    BY <1>1, Zenon DEF TypeInv, PortNo
  <2> QED BY <1>2, <2>1, Zenon DEF DevicePort, CachedPort
<1>4. IsFiniteSet(S)
  <2>1. devPorts[d] \subseteq 1..(Controller - 1)
    BY <1>1, PortsAssumption, Zenon DEF TypeInv, PortNo
  <2>a. IsFiniteSet(1..(Controller - 1))
    <3>1. Controller - 1 \in Int
      BY DEF Controller
    <3> QED BY <3>1, FS_Interval
  <2>2. IsFiniteSet(devPorts[d])
    BY <2>1, <2>a, FS_Subset, Zenon
  <2> DEFINE f == [p \in devPorts[d] |-> Port(d, p)]
  <2>3. f \in Surjection(devPorts[d], S)
    <3> HIDE DEF Port
    <3> QED BY Zenon DEF Surjection
  <2> HIDE DEF f, S
  <2> QED BY <2>2, <2>3, FS_Surjection, Zenon
<1> HIDE DEF S
<1>5. Listing(S) \in Seq(DevicePort)
  BY <1>3, <1>4, ListingIn
<1> QED BY <1>1, <1>5, Zenon

\* getDevice caches PON ports.
LEMMA CacheGood ==
  ASSUME NEW c, GoodCache(c), NEW devices, GoodDevices(devices), NEW ids \in SUBSET DOMAIN devices
  PROVE  GoodCache(CachePonPorts(c, devices, ids))
<1>1. ASSUME NEW d \in ids PROVE Only(devices[d].ports, PonPorts(devices[d])) \in Seq(CachedPort)
  <2>1. PICK T : T = PonPorts(devices[d])
    OBVIOUS
  <2>2. devices[d].ports \in Seq(DevicePort)
    BY Zenon DEF GoodDevices
  <2>3. Only(devices[d].ports, T) \in Seq(DevicePort \cap T)
    BY <2>2, OnlyKeeps, Zenon
  <2>4. DevicePort \cap T \subseteq CachedPort
    BY <2>1, Zenon DEF PonPorts, DevicePort
  <2> QED BY <2>1, <2>3, <2>4, SeqMonotone, Zenon
<1> DEFINE Cached(d) == IF d \in DOMAIN c THEN c[d] ELSE << >>
           new(d) == Cached(d) \o Only(devices[d].ports, PonPorts(devices[d]))
<1>2. \A d : Cached(d) \in Seq(CachedPort)
  BY DEF GoodCache
<1> HIDE DEF Cached
<1>3. \A d \in ids : new(d) \in Seq(CachedPort)
  BY <1>1, <1>2
<1>4. CachePonPorts(c, devices, ids) = Put(c, [d \in ids |-> new(d)])
  BY Zenon DEF CachePonPorts, Cached
<1> HIDE DEF new
<1> QED BY <1>3, <1>4, Zenon DEF GoodCache, Put

\* The first of the PON ports that getDevicePonPorts finds has a peer, and both ends
\* of that wire have the number of the PON ports.
LEMMA FirstPonPort ==
  ASSUME NEW c, GoodCache(c), NEW d, NEW peer, GetDevicePonPorts(c, d, peer) # << >>
  PROVE  /\ GetDevicePonPorts(c, d, peer)[1].no = Pon
         /\ GetDevicePonPorts(c, d, peer)[1].peers[1].no = Pon
<1>1. d \in DOMAIN c /\ c[d] \in Seq(CachedPort)
  BY Zenon DEF GetDevicePonPorts, GoodCache
<1>2. PICK T : T = {port \in Range(c[d]) : \E q \in Range(port.peers) : q.dev = peer}
  BY Zenon
<1>3. GetDevicePonPorts(c, d, peer) = Only(c[d], T)
  BY <1>1, <1>2, Zenon DEF GetDevicePonPorts
<1>4. Only(c[d], T) \in Seq(CachedPort \cap T)
  BY <1>1, OnlyKeeps, Zenon
<1>5. PICK port : port = Only(c[d], T)[1]
  OBVIOUS
<1>6. port \in CachedPort \cap T
  BY <1>3, <1>4, <1>5
<1>7. port.no = Pon /\ port.peers \in Seq([dev : Devices, no : {Pon}])
  BY <1>6, Zenon DEF CachedPort
<1>8. \E q \in Range(port.peers) : q.dev = peer
  BY <1>2, <1>6, Zenon
<1>9. port.peers[1] \in [dev : Devices, no : {Pon}]
  <2>1. PICK s : s = port.peers
    OBVIOUS
  <2>2. DOMAIN s # {} /\ s \in Seq([dev : Devices, no : {Pon}])
    BY <1>7, <1>8, <2>1, Zenon DEF Range
  <2>3. s[1] \in [dev : Devices, no : {Pon}]
    <3> DEFINE P == [dev : Devices, no : {Pon}]
    <3> HIDE DEF P
    <3>1. s \in Seq(P)
      BY <2>2, Zenon DEF P
    <3>2. 1 \in DOMAIN s
      BY <2>2, <3>1
    <3>3. s[1] \in P
      BY <3>1, <3>2
    <3> QED BY <3>3, Zenon DEF P
  <2> QED BY <2>1, <2>3, Zenon
<1> QED BY <1>3, <1>5, <1>7, <1>9, Zenon

\* The logical ports and what they say of the devices.
LEMMA LogicalPortFacts ==
  ASSUME NEW lp \in LogicalPortSet
  PROVE  /\ lp.no \in PortNo /\ lp.devNo = lp.no /\ lp.dev = DeviceOf(lp.no)
         /\ lp.root = (lp.no \in NNI) /\ lp = LogicalPort(lp.no)
         /\ ~lp.root => lp.no \in UNI
<1>1. PICK p \in PortNo : lp = LogicalPort(p)
  BY Zenon DEF LogicalPortSet
<1>2. lp.no = p /\ lp.devNo = p /\ lp.dev = DeviceOf(p)
  BY <1>1, Zenon DEF LogicalPort
<1>3. lp.root = (p \in NNI)
  BY <1>1, Zenon DEF LogicalPort
<1> QED BY <1>1, <1>2, <1>3, Zenon DEF PortNo

\* Both directions of a right route are right.
LEMMA BothWaysFollow ==
  ASSUME NEW n \in NNI, NEW u \in UNI, NEW path, path = Route(<<n, u>>),
         NEW k \in {<<n, u>>, <<u, n>>}
  PROVE  k \in Keys /\ BothWays(n, u, path)[k] = Route(k)
<1>1. n # u /\ <<n, u>> # <<u, n>>
  BY PortsAssumption, Zenon
<1>2. k \in Keys
  BY DEF Keys
<1>3. CASE k = <<n, u>>
  BY <1>2, <1>3, Zenon DEF BothWays
<1>4. CASE k = <<u, n>>
  <2>1. BothWays(n, u, path)[k] = GetReverseRoute(path)
    BY <1>1, <1>4, Zenon DEF BothWays
  <2>2. /\ path[1] = Hop(DeviceOf(n), n, Pon) /\ path[2] = Hop(DeviceOf(u), Pon, u)
        /\ Route(k) = <<Hop(DeviceOf(u), u, Pon), Hop(DeviceOf(n), Pon, n)>>
    BY <1>4, Zenon DEF Route
  <2>3. GetReverseRoute(path) = [i \in 1..2 |-> IF i = 1 THEN Hop(path[2].dev, path[2].out, path[2].in)
                                                ELSE Hop(path[1].dev, path[1].out, path[1].in)]
    BY DEF GetReverseRoute
  <2>4. /\ Hop(path[2].dev, path[2].out, path[2].in) = Hop(DeviceOf(u), u, Pon)
        /\ Hop(path[1].dev, path[1].out, path[1].in) = Hop(DeviceOf(n), Pon, n)
    BY <2>2 DEF Hop
  <2>5. GetReverseRoute(path) = <<Hop(DeviceOf(u), u, Pon), Hop(DeviceOf(n), Pon, n)>>
    BY <2>3, <2>4
  <2> QED BY <1>2, <2>1, <2>2, <2>5, Zenon
<1> QED BY <1>3, <1>4, Zenon

\* Entries for right routes may be added to right routes.
LEMMA PutFollow == ASSUME NEW a, Follow(a), NEW b, Follow(b) PROVE Follow(Put(a, b))
BY Zenon DEF Follow, Put

\* The routes that ComputeRoutes makes for one NNI port are right.
LEMMA LegRoutesFollow ==
  ASSUME NEW nni \in LogicalPortSet, nni.root, NEW c, GoodCache(c), NEW legs,
         \A leg \in legs : /\ leg[1].no = Pon
                           /\ leg[4] \in LogicalPortSet /\ leg[4].no \in UNI
                           /\ leg[2] = leg[4].dev /\ leg[3].no = leg[4].no
                           /\ GetDevicePonPorts(c, leg[2], nni.dev) # << >>
  PROVE  Follow(LegRoutes(nni, legs, c))
<1> DEFINE n == nni.no
           Path(leg) == <<Hop(nni.dev, nni.devNo, leg[1].no),
                          Hop(leg[2], GetDevicePonPorts(c, leg[2], nni.dev)[1].no, leg[3].no)>>
           keys == {<<nni.no, leg[4].no>> : leg \in legs} \cup {<<leg[4].no, nni.no>> : leg \in legs}
           LegOf(k) == CHOOSE leg \in legs : leg[4].no \in {k[1], k[2]}
<1>1. LegRoutes(nni, legs, c) = [k \in keys |-> BothWays(n, LegOf(k)[4].no, Path(LegOf(k)))[k]]
  BY Zenon DEF LegRoutes
<1>2. n \in NNI /\ n \notin UNI /\ nni.dev = DeviceOf(n) /\ nni.devNo = n
  BY LogicalPortFacts, PortsAssumption, Zenon
<1>3. ASSUME NEW k \in keys
      PROVE  k \in Keys /\ BothWays(n, LegOf(k)[4].no, Path(LegOf(k)))[k] = Route(k)
  <2>1. PICK leg \in legs : k \in {<<n, leg[4].no>>, <<leg[4].no, n>>}
    OBVIOUS
  <2>2. LegOf(k) \in legs /\ LegOf(k)[4].no \in {k[1], k[2]}
    BY <2>1
  <2>3. PICK x \in legs : x = LegOf(k)
    BY <2>2, Zenon
  <2> HIDE DEF LegOf
  <2>4. x[4].no \in UNI /\ k \in {<<n, x[4].no>>, <<x[4].no, n>>}
    BY <1>2, <2>1, <2>2, <2>3, SMTT(30)
  <2>5. x[2] = DeviceOf(x[4].no) /\ x[3].no = x[4].no /\ x[1].no = Pon
    BY LogicalPortFacts, Zenon
  <2>6. GetDevicePonPorts(c, x[2], nni.dev)[1].no = Pon
    BY FirstPonPort, SMTT(30)
  <2>7. Path(x) = Route(<<n, x[4].no>>)
    <3>1. Path(x) = <<Hop(DeviceOf(n), n, Pon), Hop(DeviceOf(x[4].no), Pon, x[4].no)>>
      BY <1>2, <2>5, <2>6, Zenon
    <3> QED BY <3>1, Zenon DEF Route
  <2> HIDE DEF n, Path
  <2>8. k \in Keys /\ BothWays(n, x[4].no, Path(x))[k] = Route(k)
    <3>1. PICK u \in UNI : u = x[4].no
      BY <2>4, Zenon
    <3>2. PICK path : path = Path(x)
      BY Zenon
    <3>3. n \in NNI /\ k \in {<<n, u>>, <<u, n>>} /\ path = Route(<<n, u>>)
      BY <1>2, <2>4, <2>7, <3>1, <3>2, Zenon
    <3>4. k \in Keys /\ BothWays(n, u, path)[k] = Route(k)
      BY <3>3, BothWaysFollow, Zenon
    <3> QED BY <3>1, <3>2, <3>4, Zenon
  <2> QED BY <2>3, <2>8, Zenon
<1> HIDE DEF keys, LegOf, Path, n
<1> QED BY <1>1, <1>3, Zenon DEF Follow

\* The routes that an NNI port takes over from another one are right.
LEMMA CopyFollow ==
  ASSUME NEW routes, Follow(routes), NEW new \in LogicalPortSet, new.root,
         NEW from \in LogicalPortSet, from.root
  PROVE  Follow(CopyFromExistingNNIRoutes(routes, new, from))
<1> DEFINE Copied == {k \in DOMAIN routes : from.no \in {k[1], k[2]}}
           Key(k) == IF k[1] = from.no THEN <<new.no, k[2]>> ELSE <<k[1], new.no>>
           Path(k) == IF k[1] = from.no
                        THEN <<Hop(new.dev, new.devNo, routes[k][1].out), routes[k][2]>>
                        ELSE <<routes[k][1], Hop(new.dev, routes[k][2].in, new.devNo)>>
           Src(n) == CHOOSE k \in Copied : Key(k) = n
           copies == [n \in {Key(k) : k \in Copied} |-> Path(Src(n))]
<1>1. CopyFromExistingNNIRoutes(routes, new, from) = Put(routes, copies)
  BY Zenon DEF CopyFromExistingNNIRoutes
<1>2. /\ new.no \in NNI /\ new.dev = DeviceOf(new.no) /\ new.devNo = new.no
      /\ from.no \in NNI /\ from.no \notin UNI
  BY LogicalPortFacts, PortsAssumption, Zenon
<1>3. ASSUME NEW k \in Copied PROVE Key(k) \in Keys /\ Path(k) = Route(Key(k))
  <2>1. k \in Keys /\ from.no \in {k[1], k[2]} /\ routes[k] = Route(k)
    BY Zenon DEF Follow
  <2>2. CASE k[1] = from.no
    <3>1. k[2] \in UNI /\ Key(k) = <<new.no, k[2]>>
      BY <1>2, <2>1, <2>2, PortsAssumption, Zenon DEF Keys
    <3>2. Path(k) = <<Hop(new.dev, new.devNo, Pon), Hop(DeviceOf(k[2]), Pon, k[2])>>
      BY <2>1, <2>2 DEF Route, Hop
    <3> QED BY <1>2, <3>1, <3>2, Zenon DEF Keys, Route
  <2>3. CASE k[1] # from.no
    <3>1. k[1] \in UNI /\ Key(k) = <<k[1], new.no>>
      BY <1>2, <2>1, <2>3, PortsAssumption, Zenon DEF Keys
    <3>2. Path(k) = <<Hop(DeviceOf(k[1]), k[1], Pon), Hop(new.dev, Pon, new.devNo)>>
      BY <2>1, <2>3 DEF Route, Hop
    <3> QED BY <1>2, <3>1, <3>2, Zenon DEF Keys, Route
  <2> QED BY <2>2, <2>3, Zenon
<1> HIDE DEF Copied, Key, Path
<1>4. ASSUME NEW n \in DOMAIN copies PROVE n \in Keys /\ copies[n] = Route(n)
  <2>1. n \in {Key(k) : k \in Copied}
    OBVIOUS
  <2>2. Src(n) \in Copied /\ Key(Src(n)) = n
    BY <2>1, Zenon
  <2>3. copies[n] = Path(Src(n))
    BY <2>1, Zenon
  <2> HIDE DEF Src, copies
  <2> QED BY <1>3, <2>2, <2>3, Zenon
<1> HIDE DEF copies
<1>5. Follow(copies)
  BY <1>4, Zenon DEF Follow
<1> QED BY <1>1, <1>5, PutFollow, Zenon

\* The NNI ports of a list of logical ports.
LEMMA NNIPortsIn ==
  ASSUME NEW lps \in Seq(LogicalPortSet)
  PROVE  NNIPorts(lps) \in Seq({lp \in LogicalPortSet : lp.root})
<1>1. PICK T : T = {lp \in Range(lps) : lp.root}
  BY Zenon
<1>2. Only(lps, T) \in Seq(LogicalPortSet \cap T)
  BY OnlyKeeps, Zenon
<1>3. LogicalPortSet \cap T \subseteq {lp \in LogicalPortSet : lp.root}
  BY <1>1, Zenon
<1>4. NNIPorts(lps) = Only(lps, T)
  BY <1>1, Zenon DEF NNIPorts
<1> QED BY <1>2, <1>3, <1>4, SeqMonotone, Zenon

\* The legs below the root are UNI ports of children, with their logical ports.
LEMMA LegsGood ==
  ASSUME NEW lps \in Seq(LogicalPortSet), NEW devices, GoodDevices(devices),
         NEW d \in DOMAIN devices, Peers(devices[d]) \subseteq DOMAIN devices,
         NEW leg \in Legs(devices[d], lps, devices)
  PROVE  /\ leg[1].no = Pon
         /\ leg[4] \in LogicalPortSet /\ leg[4].no \in UNI
         /\ leg[2] = leg[4].dev /\ leg[3].no = leg[4].no
         /\ leg[2] \in Peers(devices[d])
<1> DEFINE Of(peer, uni) == {l \in Range(lps) : l.dev = peer.dev /\ l.devNo = uni.no}
           Unis(peer) == {u \in Range(devices[peer.dev].ports) : u.type = "UNI"}
<1>a. PICK pon \in {p \in Range(devices[d].ports) : p.type = "PON_OLT"} :
        \E peer \in Range(pon.peers) : \E uni \in Unis(peer) : \E lp \in Of(peer, uni) :
          leg = <<pon, peer.dev, uni, lp>>
  BY DEF Legs
<1>b. PICK peer \in Range(pon.peers) : \E uni \in Unis(peer) : \E lp \in Of(peer, uni) :
        leg = <<pon, peer.dev, uni, lp>>
  BY <1>a, Zenon
<1>1. PICK uni \in Unis(peer), lp \in Range(lps) :
        lp \in Of(peer, uni) /\ leg = <<pon, peer.dev, uni, lp>>
  BY <1>b, Zenon
<1>2. pon \in DevicePort /\ pon.type = "PON_OLT"
  BY DEF GoodDevices, Range
<1>3. pon.no = Pon
  BY <1>2, Zenon DEF DevicePort, CachedPort
<1>4. peer.dev \in Peers(devices[d])
  BY SMTT(30) DEF Peers
<1>5. uni \in DevicePort /\ uni.type = "UNI"
  BY <1>4 DEF GoodDevices, Range
<1>6. uni.no \in UNI
  BY <1>5, Zenon DEF DevicePort, CachedPort
<1>7. lp \in LogicalPortSet /\ lp.dev = peer.dev /\ lp.devNo = uni.no
  BY <1>1 DEF Range
<1>8. lp.no = uni.no
  BY <1>7, LogicalPortFacts, Zenon
<1>9. leg[1] = pon /\ leg[2] = peer.dev /\ leg[3] = uni /\ leg[4] = lp
  BY <1>1, Zenon
<1> QED BY <1>3, <1>4, <1>6, <1>7, <1>8, <1>9, Zenon

\* An empty DeviceRoutes object, as reset leaves it.
LEMMA NewGood == GoodRoutes(NewDeviceRoutes)
BY DEF GoodRoutes, NewDeviceRoutes, Follow, GoodCache

\* What getDevicePonPorts finds of a device in the cache that ComputeRoutes fills is
\* what it finds when the device alone was read.
LEMMA CacheOfOne ==
  ASSUME NEW devices, NEW ids, NEW c \in ids, NEW peer
  PROVE  GetDevicePonPorts(CachePonPorts(<< >>, devices, ids), c, peer)
           = GetDevicePonPorts(CachePonPorts(<< >>, devices, {c}), c, peer)
<1> DEFINE of(d) == << >> \o Only(devices[d].ports, PonPorts(devices[d]))
<1>1. ASSUME NEW S PROVE CachePonPorts(<< >>, devices, S) = [d \in S |-> of(d)]
  BY DEF CachePonPorts, Put
<1> HIDE DEF of
<1>2. /\ c \in DOMAIN CachePonPorts(<< >>, devices, ids)
      /\ c \in DOMAIN CachePonPorts(<< >>, devices, {c})
      /\ CachePonPorts(<< >>, devices, ids)[c] = CachePonPorts(<< >>, devices, {c})[c]
  BY <1>1
<1> QED BY <1>2, Zenon DEF GetDevicePonPorts

\* ComputeRoutes leaves right routes, from whatever it found before.
LEMMA ComputeGood ==
  ASSUME NEW r, GoodRoutes(r), NEW lps \in Seq(LogicalPortSet), NEW devices, GoodDevices(devices)
  PROVE  GoodRoutes(ComputeRoutes(r, lps, devices).dr)
<1> DEFINE nniPorts == NNIPorts(lps)
           first == nniPorts[1]
           children == Peers(devices[first.dev])
           ponPorts == CachePonPorts(<< >>, devices, {first.dev} \cup children)
           routes == LegRoutes(first, Legs(devices[first.dev], lps, devices), ponPorts)
           failed == \/ first.dev \notin DOMAIN devices
                     \/ devices[first.dev].ports = << >>
                     \/ \E c \in children :
                          \/ c \notin DOMAIN devices
                          \/ GetDevicePonPorts(CachePonPorts(<< >>, devices, {c}), c, first.dev) = << >>
           copied == IF Len(nniPorts) > 1 /\ routes # << >>
                       THEN CopyFromExistingNNIRoutes(routes, nniPorts[2], first) ELSE routes
           new == [logicalPorts |-> lps, rootPorts |-> {lp.no : lp \in Range(nniPorts)},
                   routes |-> copied, ponPorts |-> ponPorts]
<1>1. \/ ComputeRoutes(r, lps, devices).dr = r
      \/ ComputeRoutes(r, lps, devices).dr = NewDeviceRoutes
      \/ nniPorts # << >> /\ ~failed /\ ComputeRoutes(r, lps, devices).dr = new
  <2>1. CASE Len(lps) < 2
    BY <2>1 DEF ComputeRoutes
  <2>2. CASE Len(lps) >= 2 /\ nniPorts = << >>
    BY <2>2 DEF ComputeRoutes, Reset
  <2>3. CASE ~(Len(lps) < 2) /\ ~(Len(lps) >= 2 /\ nniPorts = << >>)
    <3>1. nniPorts # << >>
      BY <2>3
    <3>2. ComputeRoutes(r, lps, devices) = IF failed THEN Reset ELSE [dr |-> new, ok |-> TRUE]
      BY <2>3, Zenon DEF ComputeRoutes
    <3> HIDE DEF failed, new, nniPorts
    <3> QED BY <3>1, <3>2 DEF Reset
  <2> QED BY <2>1, <2>2, <2>3, Zenon
<1>2. ASSUME nniPorts # << >>, ~failed PROVE GoodRoutes(new)
  <2>1. nniPorts \in Seq({lp \in LogicalPortSet : lp.root})
    BY NNIPortsIn, Zenon
  <2> HIDE DEF nniPorts
  <2>2. first \in LogicalPortSet /\ first.root
    BY <1>2, <2>1
  <2>3. /\ first.dev \in DOMAIN devices
        /\ children \subseteq DOMAIN devices
        /\ \A c \in children : GetDevicePonPorts(CachePonPorts(<< >>, devices, {c}), c, first.dev) # << >>
    BY <1>2, Zenon
  <2> HIDE DEF first, children, failed
  <2>4. GoodCache(ponPorts)
    <3>1. GoodCache(<< >>)
      BY DEF GoodCache
    <3>2. {first.dev} \cup children \in SUBSET DOMAIN devices
      BY <2>3, Zenon
    <3> QED BY <3>1, <3>2, CacheGood, Zenon
  <2>5. ASSUME NEW c \in children PROVE GetDevicePonPorts(ponPorts, c, first.dev) # << >>
    <3>1. PICK ids : ids = {first.dev} \cup children
      BY Zenon
    <3>2. PICK peer : peer = first.dev
      OBVIOUS
    <3>3. c \in ids
      BY <3>1, Zenon
    <3>4. GetDevicePonPorts(CachePonPorts(<< >>, devices, ids), c, peer)
            = GetDevicePonPorts(CachePonPorts(<< >>, devices, {c}), c, peer)
      BY <3>3, CacheOfOne
    <3> QED BY <2>3, <3>1, <3>2, <3>4, Zenon
  <2> HIDE DEF ponPorts
  <2>6. Follow(routes)
    <3> DEFINE legs == Legs(devices[first.dev], lps, devices)
    <3>1. \A leg \in legs : /\ leg[1].no = Pon
                            /\ leg[4] \in LogicalPortSet /\ leg[4].no \in UNI
                            /\ leg[2] = leg[4].dev /\ leg[3].no = leg[4].no
                            /\ leg[2] \in children
      BY <2>3, LegsGood, Zenon DEF children
    <3> HIDE DEF legs
    <3>2. \A leg \in legs : GetDevicePonPorts(ponPorts, leg[2], first.dev) # << >>
      BY <2>5, <3>1, Zenon
    <3>3. Follow(LegRoutes(first, legs, ponPorts))
      BY <2>2, <2>4, <3>1, <3>2, LegRoutesFollow, Zenon
    <3> QED BY <3>3, Zenon DEF legs
  <2> HIDE DEF routes
  <2>7. Follow(copied)
    <3>1. Len(nniPorts) > 1 => nniPorts[2] \in LogicalPortSet /\ nniPorts[2].root
      BY <2>1
    <3> QED BY <2>2, <2>6, <3>1, CopyFollow, Zenon
  <2> HIDE DEF copied
  <2> QED BY <2>4, <2>7, Zenon DEF GoodRoutes
<1> HIDE DEF new, failed, nniPorts
<1> QED BY <1>1, <1>2, NewGood, Zenon

\* The routes that AddPort makes from a UNI port to every NNI port are right.
LEMMA AddUNIFollow ==
  ASSUME NEW routes, Follow(routes), NEW nniPorts \in Seq({l \in LogicalPortSet : l.root}),
         NEW lp \in LogicalPortSet, ~lp.root, NEW c, GoodCache(c),
         GetDevicePonPorts(c, lp.dev, Root) # << >>
  PROVE  Follow(AddUNIRoutes(routes, nniPorts, lp, c))
<1> DEFINE Path(nni) == LET pon == GetDevicePonPorts(c, lp.dev, nni.dev)[1]
                        IN <<Hop(nni.dev, nni.devNo, pon.peers[1].no), Hop(lp.dev, pon.no, lp.devNo)>>
           keys == {<<nni.no, lp.no>> : nni \in Range(nniPorts)} \cup {<<lp.no, nni.no>> : nni \in Range(nniPorts)}
           NniOf(k) == CHOOSE nni \in Range(nniPorts) : nni.no \in {k[1], k[2]}
           added == [k \in keys |-> BothWays(NniOf(k).no, lp.no, Path(NniOf(k)))[k]]
<1>1. AddUNIRoutes(routes, nniPorts, lp, c) = Put(routes, added)
  BY Zenon DEF AddUNIRoutes
<1>2. lp.no \in UNI /\ lp.no \notin NNI /\ lp.dev = DeviceOf(lp.no) /\ lp.devNo = lp.no
  BY LogicalPortFacts, PortsAssumption, Zenon
<1>3. \A nni \in Range(nniPorts) : nni \in LogicalPortSet /\ nni.root
  BY DEF Range
<1>4. \A nni \in Range(nniPorts) : nni.no \in NNI /\ nni.dev = Root /\ nni.dev = DeviceOf(nni.no) /\ nni.devNo = nni.no
  BY <1>3, LogicalPortFacts, Zenon DEF DeviceOf
<1>5. ASSUME NEW k \in keys
      PROVE  k \in Keys /\ BothWays(NniOf(k).no, lp.no, Path(NniOf(k)))[k] = Route(k)
  <2>1. PICK m \in Range(nniPorts) : k \in {<<m.no, lp.no>>, <<lp.no, m.no>>}
    OBVIOUS
  <2>2. NniOf(k) \in Range(nniPorts) /\ NniOf(k).no \in {k[1], k[2]}
    BY <2>1
  <2>3. PICK nni \in Range(nniPorts) : nni = NniOf(k)
    BY <2>2, Zenon
  <2> HIDE DEF NniOf
  <2>4. PICK n \in NNI : n = nni.no
    BY <1>4, Zenon
  <2>5. PICK u \in UNI : u = lp.no
    BY <1>2, Zenon
  <2>6. k \in {<<n, u>>, <<u, n>>}
    BY <1>2, <1>4, <2>1, <2>2, <2>3, <2>4, <2>5
  <2>7. PICK path : path = Path(nni)
    BY Zenon
  <2>8. path = <<Hop(DeviceOf(n), n, Pon), Hop(DeviceOf(u), Pon, u)>>
    <3>1. nni.dev = Root /\ nni.dev = DeviceOf(n) /\ nni.devNo = n
      BY <1>4, <2>4, Zenon
    <3>2. PICK pon : pon = GetDevicePonPorts(c, lp.dev, nni.dev)[1]
      BY Zenon
    <3>3. pon.no = Pon /\ pon.peers[1].no = Pon
      BY <3>1, <3>2, FirstPonPort, SMTT(30)
    <3>4. path = <<Hop(nni.dev, nni.devNo, pon.peers[1].no), Hop(lp.dev, pon.no, lp.devNo)>>
      BY <2>7, <3>2, Zenon
    <3> QED BY <1>2, <2>5, <3>1, <3>3, <3>4, ZenonT(60)
  <2>9. path = Route(<<n, u>>)
    BY <2>8, Zenon DEF Route
  <2>10. k \in Keys /\ BothWays(n, u, path)[k] = Route(k)
    BY <2>6, <2>9, BothWaysFollow, Zenon
  <2> HIDE DEF Path
  <2> QED BY <2>3, <2>4, <2>5, <2>7, <2>10, Zenon
<1> HIDE DEF keys, NniOf, Path
<1>6. Follow(added)
  BY <1>5, Zenon DEF Follow
<1> HIDE DEF added
<1> QED BY <1>1, <1>6, PutFollow, Zenon

\* The two updates of the DeviceRoutes object in AddPort.
LEMMA UpdatesOfRoutes ==
  ASSUME NEW a, NEW b, NEW c, NEW d, NEW x, NEW y, NEW n, NEW lp, NEW z
  PROVE  LET r == [logicalPorts |-> a, rootPorts |-> b, routes |-> c, ponPorts |-> d]
         IN /\ [r EXCEPT !.logicalPorts = x, !.rootPorts = @ \cup y]
                 = [logicalPorts |-> x, rootPorts |-> b \cup y, routes |-> c, ponPorts |-> d]
            /\ [r EXCEPT !.routes = AddUNIRoutes(@, n, lp, z), !.ponPorts = z]
                 = [logicalPorts |-> a, rootPorts |-> b, routes |-> AddUNIRoutes(c, n, lp, z), ponPorts |-> z]
<1> DEFINE r == [logicalPorts |-> a, rootPorts |-> b, routes |-> c, ponPorts |-> d]
           r1 == [r EXCEPT !.logicalPorts = x, !.rootPorts = @ \cup y]
           r2 == [r EXCEPT !.routes = AddUNIRoutes(@, n, lp, z), !.ponPorts = z]
<1>1. PICK u, v : u = b \cup y /\ v = AddUNIRoutes(c, n, lp, z)
  BY Zenon
<1>2. r1 = [logicalPorts |-> x, rootPorts |-> u, routes |-> c, ponPorts |-> d]
  <2>1. PICK m : m = [r EXCEPT !.logicalPorts = x]
    BY Zenon
  <2>2. m = [logicalPorts |-> x, rootPorts |-> b, routes |-> c, ponPorts |-> d]
    BY <2>1, Zenon
  <2>3. [m EXCEPT !.rootPorts = u] = [logicalPorts |-> x, rootPorts |-> u, routes |-> c, ponPorts |-> d]
    BY <2>2
  <2>4. u = m.rootPorts \cup y
    BY <1>1, <2>2, Zenon
  <2>5. r1 = [m EXCEPT !.rootPorts = @ \cup y]
    BY <2>1, Zenon
  <2>6. [m EXCEPT !.rootPorts = @ \cup y] = [m EXCEPT !.rootPorts = u]
    BY <2>4, Zenon
  <2> QED BY <2>3, <2>5, <2>6, Zenon
<1>3. r2 = [logicalPorts |-> a, rootPorts |-> b, routes |-> v, ponPorts |-> z]
  <2>1. PICK m : m = [r EXCEPT !.routes = v]
    BY Zenon
  <2>2. m = [logicalPorts |-> a, rootPorts |-> b, routes |-> v, ponPorts |-> d]
    BY <2>1, Zenon
  <2>3. [m EXCEPT !.ponPorts = z] = [logicalPorts |-> a, rootPorts |-> b, routes |-> v, ponPorts |-> z]
    BY <2>2
  <2>4. [r EXCEPT !.routes = AddUNIRoutes(@, n, lp, z)] = m
    <3>1. r.routes = c
      OBVIOUS
    <3> HIDE DEF r
    <3> QED BY <1>1, <2>1, <3>1, Zenon
  <2>5. r2 = [m EXCEPT !.ponPorts = z]
    <3> HIDE DEF r
    <3> QED BY <2>4, Zenon
  <2> QED BY <2>3, <2>5, Zenon
<1> QED BY <1>1, <1>2, <1>3, Zenon

\* AddPort leaves right routes.
LEMMA AddPortGood ==
  ASSUME NEW r, GoodRoutes(r), NEW lp \in LogicalPortSet, NEW lps \in Seq(LogicalPortSet),
         NEW devices, GoodDevices(devices)
  PROVE  GoodRoutes(AddPort(r, lp, lps, devices).dr)
<1> DEFINE all == AddPortAndVerifyPrecondition(r.logicalPorts, lp)
           nniPorts == NNIPorts(all)
           Other == {l \in Range(nniPorts) : l.no # lp.no}
           others == Only(nniPorts, Other)
           ponPorts == IF GetDevicePonPorts(r.ponPorts, lp.dev, nniPorts[1].dev) # << >> THEN r.ponPorts
                       ELSE CachePonPorts(r.ponPorts, devices, {lp.dev})
           failed == \/ /\ GetDevicePonPorts(r.ponPorts, lp.dev, nniPorts[1].dev) = << >>
                        /\ lp.dev \notin DOMAIN devices
                     \/ GetDevicePonPorts(ponPorts, lp.dev, nniPorts[1].dev) = << >>
           added == [r EXCEPT !.logicalPorts = all, !.rootPorts = @ \cup (IF lp.root THEN {lp.no} ELSE {})]
           copied == [added EXCEPT !.routes = CopyFromExistingNNIRoutes(@, lp, others[1])]
           extended == [added EXCEPT !.routes = AddUNIRoutes(@, nniPorts, lp, ponPorts), !.ponPorts = ponPorts]
<1>1. /\ r = [logicalPorts |-> r.logicalPorts, rootPorts |-> r.rootPorts, routes |-> r.routes, ponPorts |-> r.ponPorts]
      /\ r.logicalPorts \in Seq(LogicalPortSet) /\ Follow(r.routes) /\ GoodCache(r.ponPorts)
  BY Zenon DEF GoodRoutes
<1>2. all \in Seq(LogicalPortSet)
  BY <1>1 DEF AddPortAndVerifyPrecondition
<1>3. nniPorts \in Seq({l \in LogicalPortSet : l.root})
  BY <1>2, NNIPortsIn, Zenon
<1>4. \/ AddPort(r, lp, lps, devices) = ComputeRoutes(r, lps, devices)
      \/ AddPort(r, lp, lps, devices).dr = NewDeviceRoutes
      \/ AddPort(r, lp, lps, devices).dr = added
      \/ others # << >> /\ lp.root /\ AddPort(r, lp, lps, devices).dr = copied
      \/ nniPorts # << >> /\ ~lp.root /\ ~failed /\ AddPort(r, lp, lps, devices).dr = extended
  <2>1. AddPort(r, lp, lps, devices) =
          IF r.routes = << >> THEN ComputeRoutes(r, lps, devices)
          ELSE IF nniPorts = << >> \/ Len(nniPorts) = Len(all) THEN Reset
          ELSE IF others = << >> THEN [dr |-> added, ok |-> TRUE]
          ELSE IF lp.root THEN [dr |-> copied, ok |-> TRUE]
          ELSE IF failed THEN Reset
          ELSE [dr |-> extended, ok |-> TRUE]
    BY Zenon DEF AddPort
  <2> HIDE DEF all, nniPorts, others, failed, added, copied, extended
  <2>2. Reset.dr = NewDeviceRoutes /\ \A x : [dr |-> x, ok |-> TRUE].dr = x
    BY Zenon DEF Reset
  <2> QED BY <2>1, <2>2, Zenon
<1> HIDE DEF all
<1>5. /\ added = [logicalPorts |-> all, rootPorts |-> added.rootPorts, routes |-> r.routes, ponPorts |-> r.ponPorts]
      /\ GoodRoutes(added)
  <2>a. PICK a, b, c, d : a = r.logicalPorts /\ b = r.rootPorts /\ c = r.routes /\ d = r.ponPorts
    OBVIOUS
  <2>b. r = [logicalPorts |-> a, rootPorts |-> b, routes |-> c, ponPorts |-> d]
    BY <1>1, <2>a, Zenon
  <2>c. PICK x, y : x = all /\ y = (IF lp.root THEN {lp.no} ELSE {})
    BY Zenon
  <2>1. PICK roots : roots = b \cup y
    BY Zenon
  <2>d. added = [r EXCEPT !.logicalPorts = x, !.rootPorts = @ \cup y]
    BY <2>c, Zenon
  <2>2. added = [logicalPorts |-> all, rootPorts |-> roots, routes |-> r.routes, ponPorts |-> r.ponPorts]
    <3> HIDE DEF added
    <3>1. added = [logicalPorts |-> x, rootPorts |-> b \cup y, routes |-> c, ponPorts |-> d]
      BY <2>b, <2>d, UpdatesOfRoutes, Zenon
    <3> QED BY <2>a, <2>c, <2>1, <3>1, Zenon
  <2> HIDE DEF added
  <2> QED BY <1>1, <1>2, <2>2, Zenon DEF GoodRoutes
<1> HIDE DEF added, nniPorts
<1>6. ASSUME others # << >>, lp.root PROVE GoodRoutes(copied)
  <2>1. PICK T : T = Other
    BY Zenon
  <2>2. PICK S : S = {l \in LogicalPortSet : l.root}
    BY Zenon
  <2>3. Only(nniPorts, T) \in Seq(S \cap T)
    BY <1>3, <2>2, OnlyKeeps, Zenon
  <2>4. others[1] \in LogicalPortSet /\ others[1].root
    BY <1>6, <2>1, <2>2, <2>3
  <2> HIDE DEF others
  <2>5. PICK new : new = CopyFromExistingNNIRoutes(r.routes, lp, others[1])
    OBVIOUS
  <2>6. Follow(new)
    BY <1>1, <1>6, <2>4, <2>5, CopyFollow, Zenon
  <2>7. copied = [logicalPorts |-> all, rootPorts |-> added.rootPorts, routes |-> new, ponPorts |-> r.ponPorts]
    BY <1>5, <2>5
  <2> HIDE DEF copied
  <2> QED BY <1>1, <1>2, <2>6, <2>7, Zenon DEF GoodRoutes
<1>7. ASSUME nniPorts # << >>, ~lp.root, ~failed PROVE GoodRoutes(extended)
  <2>1. nniPorts[1] \in LogicalPortSet /\ nniPorts[1].root
    BY <1>3, <1>7
  <2>2. nniPorts[1].dev = Root
    BY <2>1, LogicalPortFacts, Zenon DEF DeviceOf
  <2>3. GoodCache(ponPorts) /\ GetDevicePonPorts(ponPorts, lp.dev, Root) # << >>
    <3>1. GetDevicePonPorts(ponPorts, lp.dev, Root) # << >>
      BY <1>7, <2>2, Zenon
    <3>2. CASE GetDevicePonPorts(r.ponPorts, lp.dev, Root) # << >>
      BY <1>1, <2>2, <3>1, <3>2, Zenon
    <3>3. CASE GetDevicePonPorts(r.ponPorts, lp.dev, Root) = << >>
      <4>1. PICK ids : ids = {lp.dev}
        BY Zenon
      <4>2. ids \in SUBSET DOMAIN devices
        BY <1>7, <2>2, <3>3, <4>1, Zenon
      <4>3. PICK c : c = r.ponPorts
        OBVIOUS
      <4>4. GoodCache(c)
        BY <1>1, <4>3, Zenon
      <4>5. GoodCache(CachePonPorts(c, devices, ids))
        BY <4>2, <4>4, CacheGood, Zenon
      <4> QED BY <2>2, <3>1, <3>3, <4>1, <4>3, <4>5, Zenon
    <3> QED BY <3>2, <3>3, Zenon
  <2> HIDE DEF ponPorts
  <2>4. PICK c, routes : c = ponPorts /\ routes = r.routes
    OBVIOUS
  <2>5. PICK new : new = AddUNIRoutes(routes, nniPorts, lp, c)
    OBVIOUS
  <2>6. Follow(new)
    <3>1. Follow(routes) /\ GoodCache(c) /\ GetDevicePonPorts(c, lp.dev, Root) # << >>
      BY <1>1, <2>3, <2>4, Zenon
    <3>2. Follow(AddUNIRoutes(routes, nniPorts, lp, c))
      BY <1>3, <1>7, <3>1, AddUNIFollow, Zenon
    <3> QED BY <2>5, <3>2, Zenon
  <2>7. extended = [logicalPorts |-> all, rootPorts |-> added.rootPorts, routes |-> new, ponPorts |-> c]
    <3>1. PICK old, roots : old = r.ponPorts /\ roots = added.rootPorts
      OBVIOUS
    <3>2. added = [logicalPorts |-> all, rootPorts |-> roots, routes |-> routes, ponPorts |-> old]
      BY <1>5, <2>4, <3>1, Zenon
    <3>3. extended = [added EXCEPT !.routes = AddUNIRoutes(@, nniPorts, lp, c), !.ponPorts = c]
      BY <2>4, Zenon
    <3> HIDE DEF extended
    <3>4. extended = [logicalPorts |-> all, rootPorts |-> roots, routes |-> AddUNIRoutes(routes, nniPorts, lp, c), ponPorts |-> c]
      BY <3>2, <3>3, UpdatesOfRoutes, Zenon
    <3> QED BY <2>5, <3>1, <3>4, Zenon
  <2> HIDE DEF extended
  <2> QED BY <1>2, <2>3, <2>4, <2>6, <2>7, Zenon DEF GoodRoutes
<1> HIDE DEF others, failed, copied, extended
<1> QED BY <1>4, <1>5, <1>6, <1>7, ComputeGood, NewGood, Zenon

\* A step leaves the routes alone, or computes them, or adds those of one port.
LEMMA RoutesEffect ==
  ASSUME TypeInv, [Next]_vars
  PROVE  \/ dr' \in {dr, NewDeviceRoutes}
         \/ dr' = ComputeRoutes(dr, LogicalPortsOf(ports), Model).dr
         \/ \E p \in PortNo : dr' = AddPort(dr, LogicalPort(p), LogicalPortsOf(ports), Model).dr
<1> DEFINE Effect == \/ dr' \in {dr, NewDeviceRoutes}
                     \/ dr' = ComputeRoutes(dr, LogicalPortsOf(ports), Model).dr
                     \/ \E p \in PortNo : dr' = AddPort(dr, LogicalPort(p), LogicalPortsOf(ports), Model).dr
<1>1. CASE UNCHANGED vars
  BY <1>1, Zenon DEF vars
<1>2. CASE Requests
  BY <1>2, ZenonT(60) DEF Requests, AddDevicePort, Enable, Activate, Deactivate, UpdateDevicePortState, UpdateDevicePortsState,
              DeleteAllPorts, DeleteChild, SetLogicalPort, GenerateDeviceRoutesIfNeeded, Restart, logical
<1>3. ASSUME NEW t \in Alive, Step(t) PROVE Effect
  <2>1. CASE UpdateRoutes(t)
    <3>1. t.todo \subseteq PortNo
      BY <2>1, Zenon DEF TypeInv, SoundTasks, Sound, UpdateRoutes, Has
    <3> HIDE DEF PortNo
    <3>2. PICK p \in t.todo : dr' = AddPort(dr, LogicalPort(p), LogicalPortsOf(ports), Model).dr
      BY <2>1, Zenon DEF UpdateRoutes
    <3> QED BY <3>1, <3>2, ZenonT(60)
  <2>2. CASE BuildRoutes(t)
    BY <2>2, Zenon DEF BuildRoutes
  <2>3. CASE ~UpdateRoutes(t) /\ ~BuildRoutes(t)
    <3>1. UNCHANGED dr
      BY <1>3, <2>3, Zenon
         DEF Step, CreateLogicalDevice, StartLogicalDevice, RegisterCallback, SetupLogicalPorts, LookUpAgent,
             CheckPort, AddLogicalPort, MapPort, EndLoop, UpdatePortState, DeleteAllLogicalPorts,
             ChildDeviceLost, DeleteLogicalPorts, RunPostDeviceDelete, logical
    <3> QED BY <3>1, Zenon
  <2> QED BY <2>1, <2>2, <2>3, Zenon
<1> QED BY <1>1, <1>2, <1>3, Zenon DEF Next, Goroutine

\* Every route runs from the device of one end over the PON ports to the device of
\* the other, whichever of ComputeRoutes, AddPort and the copying between NNI ports
\* has made it, and whatever ports were added, deleted or reset in between.
THEOREM RoutesRight == Spec => []RoutesFollowWires
<1> DEFINE IInv == TypeInv /\ GoodRoutes(dr)
<1>1. Init => IInv
  BY InitTypes, NewGood, Zenon DEF Init
<1>2. IInv /\ [Next]_vars => IInv'
  <2> SUFFICES ASSUME TypeInv, GoodRoutes(dr), [Next]_vars PROVE GoodRoutes(dr')
    BY NextKeepsTypes, Zenon DEF GoodRoutes
  <2>1. PICK lps : lps = LogicalPortsOf(ports)
    OBVIOUS
  <2>2. lps \in Seq(LogicalPortSet)
    <3>1. ports \in Seq(LogicalPortState)
      BY Zenon DEF TypeInv
    <3>2. ASSUME NEW i \in DOMAIN ports PROVE ports[i].no \in PortNo
      <4>1. ports[i] \in LogicalPortState
        BY <3>1
      <4> QED BY <4>1, Zenon DEF LogicalPortState
    <3>3. \A i \in 1..Len(ports) : LogicalPort(ports[i].no) \in LogicalPortSet
      BY <3>1, <3>2 DEF LogicalPortSet
    <3>4. lps = [i \in 1..Len(ports) |-> LogicalPort(ports[i].no)]
      BY <2>1, <3>1 DEF LogicalPortsOf
    <3> QED BY <3>1, <3>3, <3>4
  <2>3. PICK devices : devices = Model
    OBVIOUS
  <2>4. GoodDevices(devices)
    BY <2>3, ModelGood, Zenon
  <2>5. PICK r : r = dr
    OBVIOUS
  <2>6. GoodRoutes(r)
    BY <2>5, Zenon
  <2>7. CASE dr' \in {dr, NewDeviceRoutes}
    BY <2>7, NewGood, Zenon
  <2>8. CASE dr' = ComputeRoutes(r, lps, devices).dr
    <3>1. GoodRoutes(ComputeRoutes(r, lps, devices).dr)
      BY <2>2, <2>4, <2>6, ComputeGood, Zenon
    <3> QED BY <2>8, <3>1, Zenon
  <2>9. ASSUME NEW p \in PortNo, dr' = AddPort(r, LogicalPort(p), lps, devices).dr PROVE GoodRoutes(dr')
    <3>1. PICK lp \in LogicalPortSet : lp = LogicalPort(p)
      BY Zenon DEF LogicalPortSet
    <3>2. GoodRoutes(AddPort(r, lp, lps, devices).dr)
      BY <2>2, <2>4, <2>6, AddPortGood, Zenon
    <3> QED BY <2>9, <3>1, <3>2, Zenon
  <2> QED BY <2>1, <2>3, <2>5, <2>7, <2>8, <2>9, RoutesEffect, Zenon
<1>3. IInv => RoutesFollowWires
  BY Zenon DEF GoodRoutes, Follow, Keys, Route, RoutesFollowWires
<1> QED BY <1>1, <1>2, <1>3, PTL DEF Spec

-----------------------------------------------------------------------------
(***************************************************************************)
(* The UNI ports.  While a UNI port of an active child has no logical port *)
(* some goroutine is on its way to add it; calm is what the deletions and  *)
(* the failures leave of that to the devices that are not disturbed.       *)
(***************************************************************************)
Deletions == {"deleteAllLogicalPorts", "ChildDeviceLost", "DeleteLogicalPorts", "RunPostDeviceDelete"}

CalmTask(t, set) ==
  /\ t.op \in Deletions => t.dev \in set
  /\ t.op = "setupNNILogicalPorts" /\ t.failed => Devices \subseteq set

Calm ==
  /\ \A t \in Alive : CalmTask(t, disturbed)
  /\ Children \ disturbed \subseteq peers \ removed

\* The goroutine t adds UNI port u, or starts the one that does: the set-up of the
\* logical device covers all children, the others the ports they were handed.
Carries(t, u) ==
  \/ t.op \in {"setupLogicalPorts", "setupNNILogicalPorts"}
  \/ /\ t.dev = DeviceOf(u) /\ t.ready /\ u \in t.todo
     /\ \/ t.op \in {"updateLogicalPort", "SetupUNILogicalPorts"} /\ Pon \notin t.todo /\ t.ld
        \/ t.op \in {"addPort", "setupUNILogicalPorts"} /\ ~(t.at = "map" /\ t.port = u)

Awaited(u) == DeviceOf(u) \in ready \ disturbed /\ u \in devPorts[DeviceOf(u)]

Settled ==
  ldevice = "ready" =>
    \A u \in UNI : Awaited(u) => u \in Numbers(ports) \/ \E t \in Alive : Carries(t, u)

\* UNI ports are ports of children.
LEMMA UNIFacts == \A u \in UNI : DeviceOf(u) \in Children /\ DeviceOf(u) # Root /\ u \in PortNo /\ u # Pon
BY Numbering, DevicesAssumption, Zenon DEF DeviceOf

\* What keeps the calm: the devices that are disturbed stay so, and a goroutine that
\* is new was started, and a child dropped, by a step that disturbs the device.
LEMMA CalmKept ==
  ASSUME Calm, disturbed \subseteq disturbed',
         \A t \in Alive' : t \in Alive \/ CalmTask(t, disturbed'),
         Children \ disturbed' \subseteq (peers \ removed) => Children \ disturbed' \subseteq (peers \ removed)'
  PROVE  Calm'
<1>1. \A t \in Alive' : CalmTask(t, disturbed')
  BY Zenon DEF Calm, CalmTask
<1>2. Children \ disturbed' \subseteq (peers \ removed)
  BY Zenon DEF Calm
<1> QED BY <1>1, <1>2, Zenon DEF Calm

\* A step that makes no UNI port awaited, deletes none of a device that is not
\* disturbed, and ends no goroutine that carries one before the port is there.
LEMMA SettledKept ==
  ASSUME Settled, ldevice' = "ready" => ldevice = "ready",
         \A u \in UNI : Awaited(u)' =>
           /\ Awaited(u)
           /\ u \in Numbers(ports) => u \in Numbers(ports)'
           /\ \A t \in Alive : Carries(t, u) => u \in Numbers(ports)' \/ \E v \in Alive' : Carries(v, u)
  PROVE  Settled'
BY Zenon DEF Settled, Awaited

\* Goroutines that carry nothing.
LEMMA CarriesNot ==
  ASSUME NEW t, t.op \notin Loops \cup {"setupLogicalPorts", "updateLogicalPort", "SetupUNILogicalPorts"}, NEW u
  PROVE  ~Carries(t, u)
BY Zenon DEF Carries, Loops

\* Requests keep the calm: those that delete ports or a child disturb the device.
LEMMA RequestsKeepCalm == TypeInv /\ Calm /\ Requests => Calm'
<1> SUFFICES ASSUME TypeInv, Calm, Requests PROVE Calm'
  OBVIOUS
<1>a. Counted
  BY Zenon DEF TypeInv, SoundTasks
<1>b. ASSUME NEW g, CalmTask(g, disturbed'), Spawn({g}) PROVE \A t \in Alive' : t \in Alive \/ CalmTask(t, disturbed')
  BY <1>a, <1>b, SpawnTasks
<1>c. ASSUME UNCHANGED <<tasks, peers, removed, disturbed>> PROVE Calm'
  BY <1>c, SameTasks, Zenon DEF Calm
<1>1. ASSUME NEW d \in Devices, NEW p \in PortNo \cup {Pon}, AddDevicePort(d, p) PROVE Calm'
  <2>1. PICK g : g = Go("updateLogicalPort", d, {p})
    BY Zenon
  <2>2. CalmTask(g, disturbed')
    BY <2>1, Zenon DEF CalmTask, Go, Deletions
  <2>3. Spawn({g}) /\ disturbed' = disturbed /\ removed' = removed /\ peers \subseteq peers'
    BY <1>1, <2>1, Zenon DEF AddDevicePort
  <2> QED BY <1>b, <2>2, <2>3, CalmKept, Zenon
<1>2. ASSUME NEW d \in Devices, Activate(d) PROVE Calm'
  <2>1. PICK g : g = [Go(IF d = Root THEN "CreateLogicalDevice" ELSE "SetupUNILogicalPorts", d,
                         devPorts[d] \cap UNI) EXCEPT !.ready = TRUE]
    BY Zenon
  <2>2. CalmTask(g, disturbed')
    BY <2>1, Zenon DEF CalmTask, Go, Deletions
  <2>3. /\ Spawn({g}) \/ UNCHANGED tasks
        /\ disturbed \subseteq disturbed' /\ UNCHANGED <<removed, peers>>
    BY <1>2, <2>1, Zenon DEF Activate
  <2>4. \A t \in Alive' : t \in Alive \/ CalmTask(t, disturbed')
    BY <1>b, <2>2, <2>3, SameTasks, Zenon
  <2> QED BY <2>3, <2>4, CalmKept, Zenon
<1>3. ASSUME NEW d \in Devices, Enable(d) \/ Deactivate(d) PROVE Calm'
  BY <1>3, <1>c, Zenon DEF Enable, Deactivate
<1>4. ASSUME NEW p \in PortNo, NEW up \in BOOLEAN, UpdateDevicePortState(p, up) PROVE Calm'
  <2>1. PICK g : g = [Go("updatePortState", DeviceOf(p), {p}) EXCEPT !.up = up, !.ld = TRUE]
    BY Zenon
  <2>2. CalmTask(g, disturbed')
    BY <2>1, Zenon DEF CalmTask, Go, Deletions
  <2>3. Spawn({g}) /\ UNCHANGED <<disturbed, removed, peers>>
    BY <1>4, <2>1, Zenon DEF UpdateDevicePortState, device
  <2> QED BY <1>b, <2>2, <2>3, CalmKept, Zenon
<1>5. ASSUME NEW d \in Devices, NEW up \in BOOLEAN, UpdateDevicePortsState(d, up) PROVE Calm'
  BY <1>5, <1>c, Zenon DEF UpdateDevicePortsState, device
<1>6. ASSUME NEW d \in Devices, DeleteAllPorts(d) PROVE Calm'
  <2>1. PICK g : g = Go("deleteAllLogicalPorts", d, {})
    BY Zenon
  <2>2. /\ Spawn({g}) /\ removed' = removed
        /\ peers' = IF d = Root THEN {} ELSE peers
        /\ disturbed' = IF d = Root THEN Devices ELSE disturbed \cup {d}
    BY <1>6, <2>1, Zenon DEF DeleteAllPorts
  <2>3. g.op = "deleteAllLogicalPorts" /\ g.dev = d
    BY <2>1, Zenon DEF Go
  <2>4. CalmTask(g, disturbed')
    BY <2>2, <2>3, Zenon DEF CalmTask
  <2>5. \A t \in Alive' : CalmTask(t, disturbed')
    <3>1. CASE d = Root
      <4>1. disturbed' = Devices
        BY <2>2, <3>1, Zenon
      <4>2. \A t \in Alive' : t.dev \in Devices
        <5>1. \A t \in Alive' : t = g \/ t \in Alive
          BY <1>a, <2>2, SpawnTasks
        <5> QED BY <2>3, <5>1, Zenon DEF TypeInv, SoundTasks, Sound, Task
      <4> QED BY <4>1, <4>2, Zenon DEF CalmTask
    <3>2. CASE d # Root
      BY <1>b, <2>2, <2>4, <3>2, Zenon DEF Calm, CalmTask
    <3> QED BY <3>1, <3>2, Zenon
  <2>6. Children \ disturbed' \subseteq (peers \ removed)'
    BY <2>2, Zenon DEF Calm, Devices
  <2> QED BY <2>5, <2>6, Zenon DEF Calm
<1>7. ASSUME NEW c \in Children, DeleteChild(c) PROVE Calm'
  <2>1. PICK g : g = Go("ChildDeviceLost", c, {})
    BY Zenon
  <2>2. Spawn({g}) /\ UNCHANGED <<removed, peers>> /\ disturbed' = disturbed \cup {c}
    BY <1>7, <2>1, Zenon DEF DeleteChild
  <2>3. CalmTask(g, disturbed')
    BY <2>1, <2>2, Zenon DEF CalmTask, Go
  <2> QED BY <1>b, <2>2, <2>3, CalmKept, Zenon
<1>8. ASSUME NEW p \in PortNo, NEW up \in BOOLEAN, SetLogicalPort(p, up) PROVE Calm'
  BY <1>8, <1>c, Zenon DEF SetLogicalPort, device
<1>9. CASE GenerateDeviceRoutesIfNeeded
  BY <1>9, <1>c, Zenon DEF GenerateDeviceRoutesIfNeeded, device
<1>10. CASE Restart
  <2>1. /\ disturbed' = Devices
        /\ Alive' \subseteq {Go("RegisterCallback", Root, {}), Go("buildRoutes", Root, {})}
    BY <1>10 DEF Restart, Alive
  <2>2. \A t \in Alive' : t.op \in {"RegisterCallback", "buildRoutes"}
    BY <2>1 DEF Go
  <2> QED BY <2>1, <2>2, Zenon DEF Calm, CalmTask, Devices, Deletions
<1> QED
  BY <1>1, <1>2, <1>3, <1>4, <1>5, <1>6, <1>7, <1>8, <1>9, <1>10, Zenon DEF Requests

\* Goroutines keep the calm: only those of a deletion drop a child, and the loop over
\* the NNI ports of setupLogicalPorts fails only when the devices are disturbed.
LEMMA StepKeepsCalm ==
  ASSUME TypeInv, Calm, NEW t \in Alive, Step(t) PROVE Calm'
<1>a. Counted /\ Sound(t) /\ t \in Task /\ CalmTask(t, disturbed)
  BY Zenon DEF TypeInv, SoundTasks, Sound, Calm
<1>b. ASSUME NEW new, Becomes(t, new), \A g \in new : CalmTask(g, disturbed'), disturbed \subseteq disturbed',
             Children \ disturbed' \subseteq (peers \ removed) => Children \ disturbed' \subseteq (peers \ removed)'
      PROVE  Calm'
  <2>1. \A g \in Alive' : g \in Alive \/ CalmTask(g, disturbed')
    BY <1>a, <1>b, BecomesTasks, Zenon
  <2> QED BY <1>b, <2>1, CalmKept, Zenon
<1>c. ASSUME NEW new, Becomes(t, new), \A g \in new : CalmTask(g, disturbed), UNCHANGED <<disturbed, peers, removed>>
      PROVE  Calm'
  BY <1>b, <1>c, Zenon
<1>d. ASSUME Ends(t), UNCHANGED <<disturbed, peers, removed>> PROVE Calm'
  <2>1. PICK new : new = {}
    BY Zenon
  <2> QED BY <1>c, <1>d, <2>1 DEF Ends
<1>e. \A o, d, s, set : o \notin Deletions => CalmTask(Go(o, d, s), set)
  BY DEF CalmTask, Go
<1>1. CASE CreateLogicalDevice(t)
  <2>1. PICK new : new = {Go("start", Root, {})}
    BY Zenon
  <2>2. \A g \in new : CalmTask(g, disturbed)
    BY <1>e, <2>1 DEF Deletions
  <2>3. Becomes(t, new) \/ Ends(t)
    BY <1>1, <2>1, Zenon DEF CreateLogicalDevice
  <2>4. UNCHANGED <<disturbed, peers, removed>>
    BY <1>1, Zenon DEF CreateLogicalDevice, device
  <2> QED BY <1>c, <1>d, <2>2, <2>3, <2>4, Zenon
<1>2. CASE StartLogicalDevice(t)
  <2>1. PICK new : new = {Go("setupLogicalPorts", Root, {}), Go("RegisterCallback", Root, {})}
    BY Zenon
  <2>2. \A g \in new : CalmTask(g, disturbed)
    BY <1>e, <2>1 DEF Deletions
  <2>3. Becomes(t, new) \/ Ends(t)
    BY <1>2, <2>1, Zenon DEF StartLogicalDevice
  <2>4. UNCHANGED <<disturbed, peers, removed>>
    BY <1>2, Zenon DEF StartLogicalDevice, device
  <2> QED BY <1>c, <1>d, <2>2, <2>3, <2>4
<1>3. CASE RegisterCallback(t)
  BY <1>3, <1>d, Zenon DEF RegisterCallback, device
<1>4. CASE SetupLogicalPorts(t)
  <2>1. PICK new : new = {Go("setupNNILogicalPorts", Root, devPorts[Root] \cap NNI)}
    BY Zenon
  <2>2. \A g \in new : CalmTask(g, disturbed)
    BY <1>e, <2>1 DEF Deletions
  <2>3. Becomes(t, new) /\ UNCHANGED <<disturbed, peers, removed>>
    BY <1>4, <2>1, Zenon DEF SetupLogicalPorts, device
  <2> QED BY <1>c, <2>2, <2>3, Zenon
<1>5. CASE LookUpAgent(t)
  <2>1. PICK g : g = IF Pon \in t.todo THEN Go("buildRoutes", Root, {})
                     ELSE [t EXCEPT !.op = IF @ = "updateLogicalPort" THEN "addPort" ELSE "setupUNILogicalPorts"]
    BY Zenon
  <2>2. g.op \in {"buildRoutes", "addPort", "setupUNILogicalPorts"}
    BY <1>a, <2>1, Zenon DEF Go, Task
  <2>3. CalmTask(g, disturbed)
    BY <2>2, Zenon DEF CalmTask, Deletions
  <2>4. Becomes(t, {g}) \/ Ends(t)
    BY <1>5, <2>1, Zenon DEF LookUpAgent
  <2>5. UNCHANGED <<disturbed, peers, removed>>
    BY <1>5, Zenon DEF LookUpAgent, device
  <2>6. PICK new : new = {g}
    BY Zenon
  <2> QED BY <1>c, <1>d, <2>3, <2>4, <2>5, <2>6
<1>f. ASSUME t.op \in Loops, NEW p \in PortNo PROVE CalmTask(NotAdded(t, p), disturbed)
  <2>1. NotAdded(t, p).op = t.op /\ NotAdded(t, p).failed \in {t.failed, FALSE}
    BY <1>a, Zenon DEF NotAdded, Task
  <2> QED BY <1>a, <1>f, <2>1, Zenon DEF CalmTask, Loops, Deletions
<1>6. CASE CheckPort(t)
  <2>1. t.op \in Loops /\ UNCHANGED <<disturbed, peers, removed>>
    BY <1>6, Zenon DEF CheckPort, Has, device
  <2>2. PICK p \in t.todo : Becomes(t, {IF ~t.ready \/ PortExist(p) THEN NotAdded(t, p)
                                        ELSE [t EXCEPT !.port = p, !.at = "add"]})
    BY <1>6, Zenon DEF CheckPort
  <2>3. p \in PortNo
    BY <1>a, <2>1, Zenon DEF Sound
  <2>4. CalmTask([t EXCEPT !.port = p, !.at = "add"], disturbed)
    BY <1>a, Zenon DEF CalmTask, Task
  <2>5. PICK new : new = {IF ~t.ready \/ PortExist(p) THEN NotAdded(t, p) ELSE [t EXCEPT !.port = p, !.at = "add"]}
    BY Zenon
  <2>6. \A g \in new : CalmTask(g, disturbed)
    BY <1>f, <2>1, <2>3, <2>4, <2>5, Zenon
  <2> QED BY <1>c, <2>1, <2>2, <2>5, <2>6, Zenon
<1>7. CASE AddLogicalPort(t)
  <2>1. t.op \in Loops /\ t.at = "add" /\ UNCHANGED <<peers, removed>>
    BY <1>7, Zenon DEF AddLogicalPort, Has, device
  <2>2. t.port \in PortNo
    BY <1>a, <2>1, Zenon DEF Sound
  <2>3. ASSUME IF t.op = "addPort" THEN Ends(t) ELSE Becomes(t, {[NotAdded(t, t.port) EXCEPT !.failed = TRUE]}),
               disturbed' = IF t.op = "setupNNILogicalPorts" THEN Devices ELSE disturbed \cup {t.dev}
        PROVE  Calm'
    <3>1. PICK new : new = IF t.op = "addPort" THEN {} ELSE {[NotAdded(t, t.port) EXCEPT !.failed = TRUE]}
      BY Zenon
    <3>2. Becomes(t, new)
      BY <2>3, <3>1, Zenon DEF Ends
    <3>3. \A g \in new : g.op = t.op
      BY <1>a, <3>1, Zenon DEF NotAdded, Task
    <3>4. \A g \in new : CalmTask(g, disturbed')
      BY <2>1, <2>3, <3>3, Zenon DEF CalmTask, Loops, Deletions
    <3>5. \A g \in Alive : CalmTask(g, disturbed')
      <4>1. \A g \in Alive : g.dev \in Devices
        BY Zenon DEF TypeInv, SoundTasks, Sound, Task
      <4> QED BY <2>3, <4>1, Zenon DEF Calm, CalmTask
    <3>6. \A g \in Alive' : CalmTask(g, disturbed')
      BY <1>a, <3>2, <3>4, <3>5, BecomesTasks, Zenon
    <3>7. Children \ disturbed' \subseteq (peers \ removed)'
      BY <2>1, <2>3, Zenon DEF Calm, Devices
    <3> QED BY <3>6, <3>7, Zenon DEF Calm
  <2>4. ASSUME Becomes(t, {NotAdded(t, t.port)}), UNCHANGED disturbed PROVE Calm'
    <3>1. PICK new : new = {NotAdded(t, t.port)}
      BY Zenon
    <3> QED BY <1>c, <1>f, <2>1, <2>2, <2>4, <3>1
  <2>5. ASSUME Becomes(t, {[t EXCEPT !.at = "map", !.failed = FALSE], Go("updateRoutes", t.dev, {t.port})}),
               UNCHANGED disturbed
        PROVE  Calm'
    <3>1. PICK g : g = [t EXCEPT !.at = "map", !.failed = FALSE]
      BY Zenon
    <3>2. CalmTask(g, disturbed)
      BY <1>a, <2>1, <3>1, Zenon DEF CalmTask, Task
    <3>3. PICK new : new = {g, Go("updateRoutes", t.dev, {t.port})}
      BY Zenon
    <3>4. \A x \in new : CalmTask(x, disturbed)
      BY <1>e, <3>2, <3>3 DEF Deletions
    <3> QED BY <1>c, <2>1, <2>5, <3>1, <3>3, <3>4
  <2> QED BY <1>7, <2>3, <2>4, <2>5, Zenon DEF AddLogicalPort
<1>8. CASE MapPort(t)
  <2>1. PICK g : g = [t EXCEPT !.todo = @ \ {t.port}, !.port = 0, !.at = "check"]
    BY Zenon
  <2>2. CalmTask(g, disturbed)
    BY <1>a, <2>1, Zenon DEF CalmTask, Task
  <2>3. Becomes(t, {g}) /\ UNCHANGED <<disturbed, peers, removed>>
    BY <1>8, <2>1, Zenon DEF MapPort, device
  <2>4. PICK new : new = {g}
    BY Zenon
  <2> QED BY <1>c, <2>2, <2>3, <2>4
<1>9. CASE EndLoop(t)
  <2>1. PICK new : new = IF t.op # "setupNNILogicalPorts" \/ t.failed THEN {}
                         ELSE {Go("setupUNILogicalPorts", c, devPorts[c] \cap UNI) : c \in peers \ removed}
    BY Zenon
  <2>a. \A g \in new : \E c : g = Go("setupUNILogicalPorts", c, devPorts[c] \cap UNI)
    BY <2>1, Zenon
  <2>2. \A g \in new : CalmTask(g, disturbed)
    <3> TAKE g \in new
    <3>1. PICK c, s : g = Go("setupUNILogicalPorts", c, s)
      BY <2>a, Zenon
    <3> QED BY <1>e, <3>1 DEF Deletions
  <2>3. Becomes(t, new) /\ UNCHANGED <<disturbed, peers, removed>>
    BY <1>9, <2>1, Zenon DEF EndLoop, device
  <2> QED BY <1>c, <2>2, <2>3
<1>10. CASE BuildRoutes(t)
  BY <1>10, <1>d, Zenon DEF BuildRoutes, device
<1>11. CASE UpdateRoutes(t)
  BY <1>11, <1>d, Zenon DEF UpdateRoutes, device
<1>12. CASE UpdatePortState(t)
  BY <1>12, <1>d, Zenon DEF UpdatePortState, device
<1>13. CASE DeleteAllLogicalPorts(t)
  BY <1>13, <1>d, Zenon DEF DeleteAllLogicalPorts, device
<1>g. ASSUME t.op \in Deletions, NEW o \in Deletions PROVE CalmTask([t EXCEPT !.op = o], disturbed)
  BY <1>a, <1>g, Zenon DEF CalmTask, Task, Deletions
<1>14. CASE ChildDeviceLost(t)
  <2>1. t.dev \in disturbed
    BY <1>a, <1>14, Zenon DEF ChildDeviceLost, Has, CalmTask, Deletions
  <2>2. PICK new : new = {[t EXCEPT !.op = "DeleteLogicalPorts"]}
    BY Zenon
  <2>3. \A g \in new : CalmTask(g, disturbed)
    BY <1>g, <1>14, <2>2, Zenon DEF ChildDeviceLost, Has, Deletions
  <2>4. Becomes(t, new) /\ UNCHANGED <<disturbed, removed>> /\ peers' = peers \ {t.dev}
    BY <1>14, <2>2, Zenon DEF ChildDeviceLost
  <2> QED BY <1>b, <2>1, <2>3, <2>4, Zenon
<1>15. CASE DeleteLogicalPorts(t)
  <2>1. PICK g : g = [t EXCEPT !.op = "RunPostDeviceDelete"]
    BY Zenon
  <2>2. CalmTask(g, disturbed) /\ CalmTask(Go("buildRoutes", Root, {}), disturbed)
    BY <1>e, <1>g, <1>15, <2>1 DEF DeleteLogicalPorts, Has, Deletions
  <2>3. Becomes(t, {g}) \/ Becomes(t, {g, Go("buildRoutes", Root, {})})
    BY <1>15, <2>1, Zenon DEF DeleteLogicalPorts
  <2>4. UNCHANGED <<disturbed, peers, removed>>
    BY <1>15, Zenon DEF DeleteLogicalPorts, device
  <2>5. PICK one, two : one = {g} /\ two = {g, Go("buildRoutes", Root, {})}
    BY Zenon
  <2> QED BY <1>c, <2>2, <2>3, <2>4, <2>5
<1>16. CASE RunPostDeviceDelete(t)
  <2>1. t.dev \in disturbed
    BY <1>a, <1>16, Zenon DEF RunPostDeviceDelete, Has, CalmTask, Deletions
  <2>2. PICK new : new = {}
    BY Zenon
  <2>3. Becomes(t, new) /\ UNCHANGED <<disturbed, peers>> /\ removed' = removed \cup {t.dev}
    BY <1>16, <2>2, Zenon DEF RunPostDeviceDelete, Ends
  <2> QED BY <1>b, <2>1, <2>2, <2>3
<1> QED
  BY <1>1, <1>2, <1>3, <1>4, <1>5, <1>6, <1>7, <1>8, <1>9, <1>10, <1>11, <1>12, <1>13, <1>14, <1>15, <1>16, Zenon
     DEF Step

\* Requests: a port that is reported, or a child that becomes active, has a goroutine
\* of its own, which was handed the child as active and the port.
LEMMA RequestsKeepSettled == TypeInv /\ Settled /\ Requests => Settled'
<1> SUFFICES ASSUME TypeInv, Settled, Requests PROVE Settled'
  OBVIOUS
<1>a. ports \in Seq(LogicalPortState) /\ Counted /\ devPorts \in [Devices -> SUBSET (PortNo \cup {Pon})]
  BY Zenon DEF TypeInv, SoundTasks
<1>b. ASSUME Alive \subseteq Alive', ldevice' = ldevice, Numbers(ports)' = Numbers(ports),
             \A u \in UNI : Awaited(u)' => Awaited(u)
      PROVE  Settled'
  BY <1>b, SettledKept, Zenon
<1>c. ports' = ports => Numbers(ports)' = Numbers(ports)
  BY Zenon DEF Numbers
<1>d. \A new : Spawn(new) => Alive' = Alive \cup new
  BY <1>a, SpawnTasks, Zenon
<1>e. tasks' = tasks => Alive' = Alive
  BY Zenon DEF Alive
<1>f. \A u \in UNI : DeviceOf(u) \in Devices
  BY UNIFacts, Zenon DEF Devices
<1>1. ASSUME NEW d \in Devices, NEW p \in PortNo \cup {Pon}, AddDevicePort(d, p) PROVE Settled'
  <2>1. PICK g : g = Go("updateLogicalPort", d, {p})
    BY Zenon
  <2>2. /\ Alive' = Alive \cup {g}
        /\ UNCHANGED <<ready, disturbed, ldevice, ports>>
        /\ devPorts' = [devPorts EXCEPT ![d] = @ \cup {p}]
    BY <1>1, <1>d, <2>1, Zenon DEF AddDevicePort, logical
  <2> SUFFICES ASSUME ldevice = "ready", NEW u \in UNI, Awaited(u)', u \notin Numbers(ports)
               PROVE  \E t \in Alive' : Carries(t, u)
    BY <1>c, <2>2, Zenon DEF Settled
  <2>3. CASE u \in devPorts[DeviceOf(u)]
    BY <2>2, <2>3, Zenon DEF Settled, Awaited
  <2>4. CASE u \notin devPorts[DeviceOf(u)]
    <3>1. d = DeviceOf(u) /\ p = u /\ d \in ready
      BY <1>a, <1>f, <2>2, <2>4, Zenon DEF Awaited
    <3>2. d # Root /\ Pon # u
      BY <3>1, UNIFacts, Zenon
    <3>3. Carries(g, u)
      BY <2>1, <3>1, <3>2, Zenon DEF Go, Carries
    <3> QED BY <2>2, <3>3, Zenon
  <2> QED BY <2>3, <2>4, Zenon
<1>2. ASSUME NEW d \in Devices, Activate(d) PROVE Settled'
  <2>1. PICK g : g = [Go(IF d = Root THEN "CreateLogicalDevice" ELSE "SetupUNILogicalPorts", d,
                         devPorts[d] \cap UNI) EXCEPT !.ready = TRUE]
    BY Zenon
  <2>2. /\ ready' = ready \cup {d} /\ UNCHANGED <<ldevice, ports, devPorts>>
        /\ Alive \subseteq Alive' /\ disturbed \subseteq disturbed'
    BY <1>2, <1>d, <1>e, <2>1, Zenon DEF Activate, logical
  <2> SUFFICES ASSUME ldevice = "ready", NEW u \in UNI, Awaited(u)', u \notin Numbers(ports)
               PROVE  \E t \in Alive' : Carries(t, u)
    BY <1>c, <2>2, Zenon DEF Settled
  <2>3. CASE DeviceOf(u) \in ready
    BY <2>2, <2>3, Zenon DEF Settled, Awaited
  <2>4. CASE DeviceOf(u) \notin ready
    <3>1. d = DeviceOf(u) /\ u \in devPorts[d] /\ d \notin disturbed'
      BY <2>2, <2>4, Zenon DEF Awaited
    <3>5. g \in Alive'
      BY <1>2, <1>d, <2>1, <3>1, Zenon DEF Activate
    <3>2. d # Root /\ Pon \notin UNI
      BY <3>1, UNIFacts, Zenon
    <3>3. g.op = "SetupUNILogicalPorts" /\ g.dev = d /\ g.ready /\ g.ld /\ g.todo = devPorts[d] \cap UNI
      BY <2>1, <3>2, Zenon DEF Go
    <3>4. Carries(g, u)
      BY <3>1, <3>2, <3>3, Zenon DEF Carries
    <3> QED BY <3>4, <3>5, Zenon
  <2> QED BY <2>3, <2>4, Zenon
<1>3. ASSUME NEW d \in Devices, Enable(d) \/ Deactivate(d) PROVE Settled'
  BY <1>3, <1>b, <1>c, <1>e, Zenon DEF Enable, Deactivate, logical, Awaited
<1>4. ASSUME NEW p \in PortNo, NEW up \in BOOLEAN, UpdateDevicePortState(p, up) PROVE Settled'
  BY <1>4, <1>b, <1>c, <1>d, Zenon DEF UpdateDevicePortState, logical, device, Awaited
<1>5. ASSUME NEW d \in Devices, NEW up \in BOOLEAN, UpdateDevicePortsState(d, up) PROVE Settled'
  <2>a. PICK set : set = PortsOf(d)
    BY Zenon
  <2>b. ports' = WithState(set, up)
    BY <1>5, <2>a, Zenon DEF UpdateDevicePortsState, UpdateLogicalDevice
  <2>c. Numbers(WithState(set, up)) = Numbers(ports)
    BY <1>a, NewNumbers, Zenon
  <2>1. Numbers(ports)' = Numbers(ports)
    BY <2>b, <2>c, Zenon DEF Numbers
  <2>2. UNCHANGED <<tasks, ldevice, ready, disturbed, devPorts>>
    BY <1>5, Zenon DEF UpdateDevicePortsState, device
  <2> QED BY <1>b, <1>e, <2>1, <2>2, Zenon DEF Awaited
<1>6. ASSUME NEW d \in Devices, DeleteAllPorts(d) PROVE Settled'
  <2>1. /\ Alive \subseteq Alive' /\ UNCHANGED <<ldevice, ports, ready>>
        /\ devPorts' = [devPorts EXCEPT ![d] = {}]
        /\ disturbed' = IF d = Root THEN Devices ELSE disturbed \cup {d}
    BY <1>6, <1>d, Zenon DEF DeleteAllPorts, logical
  <2>2. \A u \in UNI : Awaited(u)' => Awaited(u)
    <3> SUFFICES ASSUME NEW u \in UNI, Awaited(u)' PROVE Awaited(u)
      OBVIOUS
    <3>1. d # Root /\ DeviceOf(u) # d /\ DeviceOf(u) \notin disturbed
      BY <1>f, <2>1, Zenon DEF Awaited
    <3> QED BY <1>a, <1>f, <2>1, <3>1, Zenon DEF Awaited
  <2> QED BY <1>b, <1>c, <2>1, <2>2, Zenon
<1>7. ASSUME NEW c \in Children, DeleteChild(c) PROVE Settled'
  <2>1. /\ Alive \subseteq Alive' /\ UNCHANGED <<ldevice, ports, devPorts>>
        /\ ready' = ready \ {c} /\ disturbed' = disturbed \cup {c}
    BY <1>7, <1>d, Zenon DEF DeleteChild, logical
  <2> QED BY <1>b, <1>c, <2>1, Zenon DEF Awaited
<1>8. ASSUME NEW p \in PortNo, NEW up \in BOOLEAN, SetLogicalPort(p, up) PROVE Settled'
  <2>1. DOMAIN ports' = DOMAIN ports /\ \A i \in DOMAIN ports : ports'[i].no = ports[i].no
    BY <1>a, <1>8 DEF SetLogicalPort, UpdateLogicalDevice, LogicalPortState
  <2>2. Numbers(ports)' = Numbers(ports)
    BY <2>1, Zenon DEF Numbers
  <2>3. UNCHANGED <<tasks, ldevice, ready, disturbed, devPorts>>
    BY <1>8, Zenon DEF SetLogicalPort, device
  <2> QED BY <1>b, <1>e, <2>2, <2>3 DEF Awaited
<1>9. CASE GenerateDeviceRoutesIfNeeded
  BY <1>9, <1>b, <1>c, <1>e, Zenon DEF GenerateDeviceRoutesIfNeeded, device, Awaited
<1>10. CASE Restart
  BY <1>10, <1>f, Zenon DEF Restart, Settled, Awaited
<1> QED
  BY <1>1, <1>2, <1>3, <1>4, <1>5, <1>6, <1>7, <1>8, <1>9, <1>10 DEF Requests

\* Without, which stands for the loops of deleteLogicalPorts and deleteAllLogicalPorts,
\* keeps the ports of the other devices.
LEMMA WithoutKeeps ==
  ASSUME ports \in Seq(LogicalPortState), NEW d, NEW p \in Numbers(ports), DeviceOf(p) # d
  PROVE  p \in Numbers(Without(d))
<1>1. PICK T : T = {lp \in Range(ports) : DeviceOf(lp.no) # d}
  BY Zenon
<1>2. Range(Only(ports, T)) = Range(ports) \cap T
  BY OnlyKeeps, Zenon
<1>3. PICK i \in DOMAIN ports : p = ports[i].no
  BY Zenon DEF Numbers
<1>4. ports[i] \in Range(Without(d))
  BY <1>1, <1>2, <1>3, Zenon DEF Without, Range
<1> QED BY <1>3, <1>4, Zenon DEF Numbers, Range

\* Goroutines: one that carries a UNI port hands it on, to itself with a port less or
\* to those it starts, until the port is there, and a port that goes is one of a
\* device that is disturbed.
LEMMA StepKeepsSettled ==
  ASSUME TypeInv, Calm, Settled, NEW t \in Alive, Step(t) PROVE Settled'
<1>a. /\ ports \in Seq(LogicalPortState) /\ Counted /\ Sound(t) /\ t \in Task /\ CalmTask(t, disturbed)
      /\ devPorts \in [Devices -> SUBSET (PortNo \cup {Pon})]
  BY Zenon DEF TypeInv, SoundTasks, Sound, Calm
<1>b. ASSUME NEW new, Becomes(t, new), disturbed \subseteq disturbed', UNCHANGED <<ldevice, ready, devPorts>>,
             \A u \in UNI : Awaited(u)' => /\ u \in Numbers(ports) => u \in Numbers(ports)'
                                           /\ Carries(t, u) => u \in Numbers(ports)' \/ \E v \in new : Carries(v, u)
      PROVE  Settled'
  <2>1. new \subseteq Alive' /\ Alive \ {t} \subseteq Alive'
    BY <1>a, <1>b, BecomesTasks, Zenon
  <2>2. \A u \in UNI : Awaited(u)' => Awaited(u)
    BY <1>b, Zenon DEF Awaited
  <2> QED BY <1>b, <2>1, <2>2, SettledKept, Zenon
<1>c. ports' = ports => Numbers(ports)' = Numbers(ports)
  BY Zenon DEF Numbers
<1>d. ASSUME NEW new, Becomes(t, new), UNCHANGED <<ldevice, ready, devPorts, disturbed>>,
             \A u \in UNI : Awaited(u) /\ u \in Numbers(ports) => u \in Numbers(ports)',
             t.op \notin Loops \cup {"setupLogicalPorts", "updateLogicalPort", "SetupUNILogicalPorts"}
      PROVE  Settled'
  <2>1. \A u \in UNI : Awaited(u)' => Awaited(u)
    BY <1>d, Zenon DEF Awaited
  <2>2. \A u : ~Carries(t, u)
    BY <1>d, CarriesNot, Zenon
  <2> QED BY <1>b, <1>d, <2>1, <2>2, Zenon
<1>e. ASSUME NEW new, Becomes(t, new), UNCHANGED <<ldevice, ready, devPorts, disturbed, ports>>,
             t.op \notin Loops \cup {"setupLogicalPorts", "updateLogicalPort", "SetupUNILogicalPorts"}
      PROVE  Settled'
  BY <1>c, <1>d, <1>e, Zenon
<1>f. ASSUME NEW d, d \in disturbed, UpdateLogicalDevice(Without(d)) \/ UpdateLogicalDevice(ports), NEW u \in UNI,
             Awaited(u), u \in Numbers(ports)
      PROVE  u \in Numbers(ports)'
  <2>1. DeviceOf(u) # d
    BY <1>f, Zenon DEF Awaited
  <2>2. CASE UpdateLogicalDevice(ports)
    BY <1>c, <1>f, <2>2, Zenon DEF UpdateLogicalDevice
  <2>3. CASE UpdateLogicalDevice(Without(d))
    <3>1. u \in Numbers(Without(d))
      BY <1>a, <1>f, <2>1, WithoutKeeps, Zenon
    <3> QED BY <2>3, <3>1, Zenon DEF UpdateLogicalDevice, Numbers
  <2> QED BY <1>f, <2>2, <2>3, Zenon
<1>1. CASE CreateLogicalDevice(t)
  <2>1. CASE ldevice = "none"
    BY <1>1, <2>1, Zenon DEF CreateLogicalDevice, Settled
  <2>2. CASE ldevice # "none"
    BY <1>1, <1>e, <2>2, Zenon DEF CreateLogicalDevice, Has, Loops, Ends, device
  <2> QED BY <2>1, <2>2, Zenon
<1>2. CASE StartLogicalDevice(t)
  <2>1. CASE Ends(t) /\ ldevice' = ldevice
    BY <1>2, <1>e, <2>1, Zenon DEF StartLogicalDevice, Has, Loops, Ends, device
  <2>2. CASE Becomes(t, {Go("setupLogicalPorts", Root, {}), Go("RegisterCallback", Root, {})})
    <3>1. PICK g : g = Go("setupLogicalPorts", Root, {})
      BY Zenon
    <3>2. PICK new : new = {g, Go("RegisterCallback", Root, {})}
      BY Zenon
    <3>3. g \in Alive'
      BY <1>a, <2>2, <3>1, <3>2, BecomesTasks
    <3>4. \A u : Carries(g, u)
      BY <3>1, Zenon DEF Carries, Go
    <3> QED BY <3>3, <3>4, Zenon DEF Settled
  <2> QED BY <1>2, <2>1, <2>2, Zenon DEF StartLogicalDevice
<1>3. CASE RegisterCallback(t)
  BY <1>3, <1>e, Zenon DEF RegisterCallback, Has, Loops, Ends, device
<1>4. CASE SetupLogicalPorts(t)
  <2>1. PICK g : g = Go("setupNNILogicalPorts", Root, devPorts[Root] \cap NNI)
    BY Zenon
  <2>2. \A u : Carries(g, u)
    BY <2>1, Zenon DEF Carries, Go
  <2>3. PICK new : new = {g}
    BY Zenon
  <2>4. Becomes(t, new) /\ UNCHANGED <<ldevice, ready, devPorts, disturbed, ports>>
    BY <1>4, <2>1, <2>3, Zenon DEF SetupLogicalPorts, device, logical
  <2> QED BY <1>b, <1>c, <2>2, <2>3, <2>4, Zenon
<1>5. CASE LookUpAgent(t)
  <2>1. UNCHANGED <<ldevice, ready, devPorts, disturbed, ports>> /\ t.op \in {"updateLogicalPort", "SetupUNILogicalPorts"}
    BY <1>5, Zenon DEF LookUpAgent, device, logical, Has
  <2>2. CASE ldevice # "ready"
    BY <2>1, <2>2, Zenon DEF Settled
  <2>3. CASE ~t.ld \/ Pon \in t.todo
    <3>1. \A u : ~Carries(t, u)
      BY <2>1, <2>3, Zenon DEF Carries
    <3>2. \E new : Becomes(t, new)
      BY <1>5, Zenon DEF LookUpAgent, Ends
    <3> QED BY <1>b, <1>c, <2>1, <3>1, <3>2, Zenon
  <2>4. CASE FindsAgent(t) /\ Pon \notin t.todo
    <3>1. PICK g : g = [t EXCEPT !.op = IF @ = "updateLogicalPort" THEN "addPort" ELSE "setupUNILogicalPorts"]
      BY Zenon
    <3>2. PICK new : new = {g}
      BY Zenon
    <3>3. Becomes(t, new)
      BY <1>5, <2>4, <3>1, <3>2, Zenon DEF LookUpAgent
    <3>4. /\ g.op \in {"addPort", "setupUNILogicalPorts"} /\ g.dev = t.dev /\ g.ready = t.ready
          /\ g.todo = t.todo /\ g.at = t.at
      BY <1>a, <3>1, Zenon DEF Task
    <3>5. t.at = "check"
      BY <1>a, <2>1, Zenon DEF Sound, Task, Loops
    <3>6. \A u : Carries(t, u) => Carries(g, u)
      BY <2>1, <3>4, <3>5, Zenon DEF Carries
    <3> QED BY <1>b, <1>c, <2>1, <3>2, <3>3, <3>6, Zenon
  <2> QED BY <2>2, <2>3, <2>4, Zenon DEF FindsAgent
<1>g. ASSUME t.op \in Loops, NEW p \in PortNo, p \in Numbers(ports) \/ ~t.ready, NEW u, Carries(t, u)
      PROVE  u \in Numbers(ports) \/ Carries(NotAdded(t, p), u)
  <2>1. CASE t.op = "setupNNILogicalPorts"
    <3>1. NotAdded(t, p).op = t.op
      BY <1>a, Zenon DEF NotAdded, Task
    <3> QED BY <2>1, <3>1, Zenon DEF Carries
  <2>2. CASE t.op # "setupNNILogicalPorts"
    <3>1. t.op \in {"addPort", "setupUNILogicalPorts"} /\ t.dev = DeviceOf(u) /\ t.ready /\ u \in t.todo
      BY <1>g, <2>2, Zenon DEF Carries, Loops
    <3>2. CASE u = p
      BY <1>g, <3>1, <3>2, Zenon
    <3>3. CASE u # p
      <4>1. /\ NotAdded(t, p).op = t.op /\ NotAdded(t, p).dev = t.dev /\ NotAdded(t, p).ready = t.ready
            /\ u \in NotAdded(t, p).todo
            /\ NotAdded(t, p).at = "map" => NotAdded(t, p).port = p
        BY <1>a, <3>1, <3>3, Zenon DEF NotAdded, Task
      <4> QED BY <3>1, <3>3, <4>1, Zenon DEF Carries
    <3> QED BY <3>2, <3>3, Zenon
  <2> QED BY <2>1, <2>2, Zenon
<1>6. CASE CheckPort(t)
  <2>1. t.op \in Loops /\ UNCHANGED <<ldevice, ready, devPorts, disturbed, ports>>
    BY <1>6, Zenon DEF CheckPort, Has, device, logical
  <2>2. PICK p \in t.todo : Becomes(t, {IF ~t.ready \/ PortExist(p) THEN NotAdded(t, p)
                                        ELSE [t EXCEPT !.port = p, !.at = "add"]})
    BY <1>6, Zenon DEF CheckPort
  <2>3. p \in PortNo
    BY <1>a, <2>1, Zenon DEF Sound
  <2>4. PICK g : g = IF ~t.ready \/ PortExist(p) THEN NotAdded(t, p) ELSE [t EXCEPT !.port = p, !.at = "add"]
    BY Zenon
  <2>5. PICK new : new = {g}
    BY Zenon
  <2>6. \A u \in UNI : Carries(t, u) => u \in Numbers(ports) \/ Carries(g, u)
    <3> SUFFICES ASSUME NEW u \in UNI, Carries(t, u) PROVE u \in Numbers(ports) \/ Carries(g, u)
      OBVIOUS
    <3>1. CASE ~t.ready \/ PortExist(p)
      BY <1>g, <2>1, <2>3, <2>4, <3>1, Zenon DEF PortExist
    <3>2. CASE ~(~t.ready \/ PortExist(p))
      <4>1. /\ g.op = t.op /\ g.dev = t.dev /\ g.ready = t.ready /\ g.todo = t.todo
            /\ g.at = "add"
        BY <1>a, <2>4, <3>2, Zenon DEF Task
      <4> QED BY <2>1, <4>1, Zenon DEF Carries, Loops
    <3> QED BY <3>1, <3>2, Zenon
  <2>7. Becomes(t, new)
    BY <2>2, <2>4, <2>5, Zenon
  <2> QED BY <1>b, <1>c, <2>1, <2>5, <2>6, <2>7, Zenon
<1>7. CASE AddLogicalPort(t)
  <2>1. t.op \in Loops /\ t.at = "add" /\ UNCHANGED <<ldevice, ready, devPorts>> /\ t.port \in PortNo
    BY <1>a, <1>7, Zenon DEF AddLogicalPort, Has, device, Sound
  <2>2. ASSUME IF t.op = "addPort" THEN Ends(t) ELSE Becomes(t, {[NotAdded(t, t.port) EXCEPT !.failed = TRUE]}),
               disturbed' = IF t.op = "setupNNILogicalPorts" THEN Devices ELSE disturbed \cup {t.dev},
               UNCHANGED ports
        PROVE  Settled'
    <3>1. CASE t.op = "setupNNILogicalPorts"
      <4>1. \A u \in UNI : ~Awaited(u)'
        BY <2>2, <3>1, UNIFacts, Zenon DEF Awaited, Devices
      <4> QED BY <4>1, Zenon DEF Settled
    <3>2. CASE t.op # "setupNNILogicalPorts"
      <4>1. disturbed' = disturbed \cup {t.dev}
        BY <2>2, <3>2, Zenon
      <4>2. \A u \in UNI : Awaited(u)' => ~Carries(t, u)
        BY <2>1, <3>2, <4>1, Zenon DEF Awaited, Carries, Loops
      <4>3. \E new : Becomes(t, new)
        BY <2>2, Zenon DEF Ends
      <4> QED BY <1>b, <1>c, <2>1, <2>2, <4>1, <4>2, <4>3, Zenon
    <3> QED BY <3>1, <3>2, Zenon
  <2>3. ASSUME PortExist(t.port), Becomes(t, {NotAdded(t, t.port)}), UNCHANGED <<ports, disturbed>> PROVE Settled'
    <3>1. PICK new : new = {NotAdded(t, t.port)}
      BY Zenon
    <3>2. \A u \in UNI : Carries(t, u) => u \in Numbers(ports) \/ \E v \in new : Carries(v, u)
      BY <1>g, <2>1, <2>3, <3>1, Zenon DEF PortExist
    <3>3. Becomes(t, new) /\ disturbed \subseteq disturbed'
      BY <2>3, <3>1, Zenon
    <3>4. Numbers(ports)' = Numbers(ports)
      BY <1>c, <2>3, Zenon
    <3> QED BY <1>b, <2>1, <3>2, <3>3, <3>4, Zenon
  <2>4. ASSUME UpdateLogicalDevice(Append(ports, [no |-> t.port, up |-> TRUE, live |-> TRUE])), UNCHANGED disturbed,
               Becomes(t, {[t EXCEPT !.at = "map", !.failed = FALSE], Go("updateRoutes", t.dev, {t.port})})
        PROVE  Settled'
    <3>1. Numbers(ports)' = Numbers(ports) \cup {t.port}
      BY <2>4, <1>a, NewNumbers, SMTT(30) DEF UpdateLogicalDevice, Numbers
    <3>2. PICK g : g = [t EXCEPT !.at = "map", !.failed = FALSE]
      BY Zenon
    <3>3. g.op = t.op /\ g.dev = t.dev /\ g.ready = t.ready /\ g.todo = t.todo /\ g.port = t.port
      BY <1>a, <3>2, Zenon DEF Task
    <3>4. PICK new : new = {g, Go("updateRoutes", t.dev, {t.port})}
      BY Zenon
    <3>5. \A u \in UNI : Carries(t, u) => u \in Numbers(ports)' \/ Carries(g, u)
      BY <2>1, <3>1, <3>3, Zenon DEF Carries, Loops
    <3>6. Becomes(t, new) /\ g \in new
      BY <2>4, <3>2, <3>4, Zenon
    <3> QED BY <1>b, <2>1, <2>4, <3>1, <3>5, <3>6, Zenon
  <2> QED BY <1>7, <2>2, <2>3, <2>4, Zenon DEF AddLogicalPort
<1>8. CASE MapPort(t)
  <2>1. PICK g : g = [t EXCEPT !.todo = @ \ {t.port}, !.port = 0, !.at = "check"]
    BY Zenon
  <2>2. g.op = t.op /\ g.dev = t.dev /\ g.ready = t.ready /\ g.todo = t.todo \ {t.port} /\ g.at = "check"
    BY <1>a, <2>1, Zenon DEF Task
  <2>3. t.op \in Loops /\ t.at = "map" /\ UNCHANGED <<ldevice, ready, devPorts, disturbed, ports>>
    BY <1>8, Zenon DEF MapPort, Has, device
  <2>4. PICK new : new = {g}
    BY Zenon
  <2>5. \A u : Carries(t, u) => Carries(g, u)
    BY <2>2, <2>3, Zenon DEF Carries, Loops
  <2>6. Becomes(t, new) /\ Numbers(ports)' = Numbers(ports)
    BY <1>8, <1>c, <2>1, <2>3, <2>4, Zenon DEF MapPort
  <2> QED BY <1>b, <2>3, <2>4, <2>5, <2>6, Zenon
<1>9. CASE EndLoop(t)
  <2>1. PICK new : new = IF t.op # "setupNNILogicalPorts" \/ t.failed THEN {}
                         ELSE {Go("setupUNILogicalPorts", c, devPorts[c] \cap UNI) : c \in peers \ removed}
    BY Zenon
  <2>2. /\ Becomes(t, new) /\ t.op \in Loops /\ t.todo = {}
        /\ UNCHANGED <<ldevice, ready, devPorts, disturbed, ports>>
    BY <1>9, <2>1, Zenon DEF EndLoop, Has, device, logical
  <2>3. ASSUME NEW u \in UNI, Awaited(u), Carries(t, u) PROVE \E v \in new : Carries(v, u)
    <3>1. t.op = "setupNNILogicalPorts"
      BY <2>2, <2>3, Zenon DEF Carries, Loops
    <3>2. PICK c : c = DeviceOf(u)
      BY Zenon
    <3>3. c \in Children /\ c \in Devices /\ c \notin disturbed /\ c \in ready /\ u \in devPorts[c]
      BY <2>3, <3>2, UNIFacts, Zenon DEF Awaited, Devices
    <3>4. ~t.failed
      BY <1>a, <3>1, <3>3, Zenon DEF CalmTask
    <3>5. c \in peers \ removed
      BY <3>3, Zenon DEF Calm
    <3>6. PICK g : g = Go("setupUNILogicalPorts", c, devPorts[c] \cap UNI)
      BY Zenon
    <3>7. g \in new
      BY <2>1, <3>1, <3>4, <3>5, <3>6, Zenon
    <3>8. Carries(g, u)
      BY <3>2, <3>3, <3>6, Zenon DEF Carries, Go
    <3> QED BY <3>7, <3>8, Zenon
  <2>4. \A u \in UNI : Awaited(u)' => Awaited(u)
    BY <2>2, Zenon DEF Awaited
  <2> QED BY <1>b, <1>c, <2>2, <2>3, <2>4, Zenon
<1>10. CASE BuildRoutes(t)
  BY <1>10, <1>e, Zenon DEF BuildRoutes, Has, Loops, Ends, device
<1>11. CASE UpdateRoutes(t)
  BY <1>11, <1>e, Zenon DEF UpdateRoutes, Has, Loops, Ends, device
<1>12. CASE UpdatePortState(t)
  <2>1. UpdateLogicalDevice(WithState(t.todo, t.up)) \/ UpdateLogicalDevice(ports)
    BY <1>12, Zenon DEF UpdatePortState
  <2>2. Numbers(WithState(t.todo, t.up)) = Numbers(ports)
    BY <1>a, NewNumbers, Zenon
  <2>3. Numbers(ports)' = Numbers(ports)
    BY <2>1, <2>2, Zenon DEF UpdateLogicalDevice, Numbers
  <2>4. /\ Becomes(t, {}) /\ t.op = "updatePortState"
        /\ UNCHANGED <<ldevice, ready, devPorts, disturbed>>
    BY <1>12, Zenon DEF UpdatePortState, Has, Ends, device
  <2>5. PICK new : new = {}
    BY Zenon
  <2> QED BY <1>d, <2>3, <2>4, <2>5, Zenon DEF Loops
<1>13. CASE DeleteAllLogicalPorts(t)
  <2>1. t.dev \in disturbed
    BY <1>a, <1>13, Zenon DEF DeleteAllLogicalPorts, Has, CalmTask, Deletions
  <2>2. UpdateLogicalDevice(Without(t.dev)) \/ UpdateLogicalDevice(ports)
    BY <1>13, Zenon DEF DeleteAllLogicalPorts
  <2>3. \A u \in UNI : Awaited(u) /\ u \in Numbers(ports) => u \in Numbers(ports)'
    BY <1>f, <2>1, <2>2, Zenon
  <2> QED BY <1>13, <1>d, <2>3, Zenon DEF DeleteAllLogicalPorts, Has, Loops, Ends, device
<1>14. CASE ChildDeviceLost(t)
  BY <1>14, <1>e, Zenon DEF ChildDeviceLost, Has, Loops, logical
<1>15. CASE DeleteLogicalPorts(t)
  <2>1. t.dev \in disturbed /\ t.op = "DeleteLogicalPorts" /\ UNCHANGED <<ldevice, ready, devPorts, disturbed>>
    BY <1>a, <1>15, Zenon DEF DeleteLogicalPorts, Has, CalmTask, Deletions, device
  <2>2. UpdateLogicalDevice(Without(t.dev)) \/ ports' = ports
    BY <1>15, Zenon DEF DeleteLogicalPorts
  <2>3. \A u \in UNI : Awaited(u) /\ u \in Numbers(ports) => u \in Numbers(ports)'
    BY <1>c, <1>f, <2>1, <2>2, Zenon
  <2>4. \E new : Becomes(t, new)
    BY <1>15, Zenon DEF DeleteLogicalPorts
  <2> QED BY <1>d, <2>1, <2>3, <2>4, Zenon DEF Loops
<1>16. CASE RunPostDeviceDelete(t)
  <2>1. t.dev \in disturbed /\ t.op = "RunPostDeviceDelete"
    BY <1>a, <1>16, Zenon DEF RunPostDeviceDelete, Has, CalmTask, Deletions
  <2>2. /\ Ends(t) /\ UNCHANGED <<ldevice, ready, disturbed, ports>>
        /\ devPorts' = [devPorts EXCEPT ![t.dev] = {}]
    BY <1>16, Zenon DEF RunPostDeviceDelete, logical
  <2>3. \A u \in UNI : Awaited(u)' => Awaited(u)
    <3> SUFFICES ASSUME NEW u \in UNI, Awaited(u)' PROVE Awaited(u)
      OBVIOUS
    <3>1. DeviceOf(u) # t.dev /\ DeviceOf(u) \in Devices
      BY <2>1, <2>2, UNIFacts, Zenon DEF Awaited, Devices
    <3> QED BY <1>a, <2>2, <3>1, Zenon DEF Awaited
  <2>4. \A u : ~Carries(t, u)
    BY <2>1, CarriesNot, Zenon DEF Loops
  <2>5. Alive \ {t} \subseteq Alive'
    BY <1>a, <2>2, BecomesTasks, Zenon DEF Ends
  <2>6. ldevice' = ldevice /\ Numbers(ports)' = Numbers(ports)
    BY <1>c, <2>2, Zenon
  <2> QED BY <2>3, <2>4, <2>5, <2>6, SettledKept, Zenon
<1> QED
  BY <1>1, <1>2, <1>3, <1>4, <1>5, <1>6, <1>7, <1>8, <1>9, <1>10, <1>11, <1>12, <1>13, <1>14, <1>15, <1>16
     DEF Step

\* Once all goroutines are done, the UNI ports of the active children have their
\* logical ports, for every number of children, ports and reports and every order of
\* AddPort, the activations and the creation of the logical device: until a port is
\* there, a goroutine that was handed it, or that will read it, is under way.  Failed
\* calls, a crash, deletions and a child that came back to ACTIVE without a handler
\* while a port of it was missing are excepted (disturbed).
THEOREM PortsSettle == Spec => []UNIPortsSettle
<1> DEFINE Inv == TypeInv /\ Calm /\ Settled
<1>1. Init => Inv
  BY InitTypes DEF Init, Calm, Settled, Alive
<1>2. Inv /\ [Next]_vars => Inv'
  <2> SUFFICES ASSUME Inv, [Next]_vars PROVE Calm' /\ Settled'
    BY NextKeepsTypes, Zenon
  <2>1. CASE UNCHANGED vars
    BY <2>1, SameTasks, Zenon DEF vars, Calm, Settled, Awaited, Numbers
  <2>2. CASE Next
    BY <2>2, RequestsKeepCalm, RequestsKeepSettled, StepKeepsCalm, StepKeepsSettled, Zenon DEF Next, Goroutine
  <2> QED BY <2>1, <2>2, Zenon
<1>3. Inv => UNIPortsSettle
  BY Zenon DEF Settled, Awaited, UNIPortsSettle, PortExist
<1> QED BY <1>1, <1>2, <1>3, PTL DEF Spec
===============================================================================
