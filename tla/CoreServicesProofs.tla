-------------------------- MODULE CoreServicesProofs --------------------------
(***************************************************************************)
(* What a core knows of the adapters, and what it reports of itself, for   *)
(* any number of adapters, device types, outages and registrations.        *)
(***************************************************************************)
EXTENDS CoreServices, TLAPS

Types == {Sentinel} \cup UNION {TypesOf[x] : x \in Adapters}
Stages == {"idle", "sent", "other", "lost", "adding", "typing"}

TypeInv ==
  /\ store \in [adapters : SUBSET (Adapters \cup {Sentinel}), types : SUBSET Types]
  /\ reg \in [Adapters -> Stages]
  /\ past \in [half : SUBSET Adapters, missed : SUBSET Adapters, early : SUBSET Adapters, ok : SUBSET Adapters]
  /\ agents \subseteq Adapters \cup {Sentinel}
  /\ probe \in [Services -> {"unknown", "prepared", "running", "notready"}]
  /\ events \in [Monitors -> SUBSET BOOLEAN] /\ alive \in [Monitors -> BOOLEAN]
  /\ kv \in BOOLEAN /\ bus \in BOOLEAN

\* An adapter all of whose registrations were saved in full: the KV store has all of its
\* device types, or none while the registration is between the two; an agent of it
\* means that it is stored; and one made in between is known as such.
StoredWell(x) ==
  /\ x \in store.adapters /\ reg[x] \notin {"other", "typing"} => TypesOf[x] \subseteq store.types
  /\ reg[x] \in {"other", "typing"} => x \in store.adapters
  /\ reg[x] = "other" => TypesOf[x] \cap store.types = {}
  /\ TypesOf[x] \cap store.types # {} => x \in store.adapters
  /\ x \in agents => x \in store.adapters
  /\ reg[x] = "other" /\ x \in agents => x \in past.early

StoreInv == \A x \in Adapters \ past.half : StoredWell(x)

\* An adapter of which the core missed nothing has an agent from the first half of the
\* load on, and its device types an adapter from the second half on.
Known(x) ==
  /\ x \in store.adapters /\ reg[x] \in {"idle", "sent", "typing"} => x \in agents
  /\ x \in agents /\ loading = "done" /\ reg[x] # "typing" => TypesOf[x] \subseteq names

LoadInv ==
  loading \in {"types", "done"} =>
    \A x \in Adapters \ (past.half \cup past.missed \cup past.early) : Known(x)

\* The status of the bus is the report of a monitor, which has begun after the core has
\* subscribed; the status of the adapter manager is that of the load.
ReadyInv ==
  /\ probe["message-bus"] = "running" => kafka = "live" /\ "bus" \in watching
  /\ probe["adapter-manager"] = "running" => loading = "done"
  /\ \A m \in Monitors : events[m] # {} => m \in watching
  /\ "bus" \in watching => kafka = "live"
  /\ main = "connecting" => kafka = "off" /\ loading = "off" /\ watching = {}

IInv == TypeInv /\ StoreInv /\ LoadInv /\ ReadyInv /\ MapsAgree /\ RegisteredIsStored

\* The steps that concern neither the store nor the adapters.
ServiceStep ==
  \/ Outage \/ Recovery \/ WaitUntilKVStoreReachableOrMaxTries \/ SetDeviceOwnership
  \/ StartKafkaManager \/ StartManagers \/ MonitorKvstoreLiveness
  \/ \E m \in Monitors : Used(m) \/ Monitor(m)

-----------------------------------------------------------------------------
\* The adapter of a device type of x is x.
LEMMA AdapterOfType ==
  ASSUME NEW x \in Adapters, NEW t \in TypesOf[x]
  PROVE  AdapterOf(t) = x
<1>1. t # Sentinel
  BY TypesAssumption, Zenon
<1>2. \A y \in Adapters : t \in TypesOf[y] => y = x
  BY TypesAssumption, Zenon
<1> QED BY <1>1, <1>2, Zenon DEF AdapterOf

\* The adapter of a device type is an adapter that has it, or the sentinel.
LEMMA AdapterOfTypes ==
  ASSUME NEW t \in Types
  PROVE  \/ t = Sentinel /\ AdapterOf(t) = Sentinel
         \/ AdapterOf(t) \in Adapters /\ t \in TypesOf[AdapterOf(t)]
<1>1. CASE t = Sentinel
  BY <1>1, Zenon DEF AdapterOf
<1>2. CASE t # Sentinel
  <2>1. PICK x \in Adapters : t \in TypesOf[x]
    BY <1>2, Zenon DEF Types
  <2> QED BY <2>1, AdapterOfType, Zenon
<1> QED BY <1>1, <1>2, Zenon

\* The initial state satisfies the invariant.
LEMMA InitIInv == Init => IInv
<1> SUFFICES ASSUME Init PROVE IInv
  OBVIOUS
<1>1. PICK X \in SUBSET Adapters : store = [adapters |-> {}, types |-> {}] \/ store = Stored(X)
  BY Zenon DEF Init
<1>2. TypeInv
  BY <1>1 DEF Init, TypeInv, Stored, Types, Stages, Begins
<1>3. StoreInv
  <2>1. \A x \in Adapters : x \in store.adapters => TypesOf[x] \subseteq store.types
    BY <1>1, ServicesAssumption DEF Stored
  <2>2. \A x \in Adapters : TypesOf[x] \cap store.types # {} => x \in store.adapters
    BY <1>1, TypesAssumption DEF Stored
  <2> QED BY <2>1, <2>2, Zenon DEF Init, StoreInv, StoredWell
<1>4. LoadInv /\ ReadyInv /\ MapsAgree /\ RegisteredIsStored
  BY Zenon DEF Init, LoadInv, ReadyInv, MapsAgree, RegisteredIsStored, Begins, Services, Monitors
<1> QED BY <1>2, <1>3, <1>4, Zenon DEF IInv

\* Steps that leave the store, the maps and the registrations, and the load in so far as
\* it matters to what is known, keep what is known of the adapters.
LEMMA QuietStep ==
  ASSUME IInv, UNCHANGED <<store, agents, served, names, reg, past>>,
         loading' \in {"types", "done"} => loading = loading'
  PROVE  StoreInv' /\ LoadInv' /\ MapsAgree' /\ RegisteredIsStored'
<1>1. StoreInv'
  BY Zenon DEF IInv, StoreInv, StoredWell
<1>2. LoadInv'
  BY Zenon DEF IInv, LoadInv, Known
<1>3. MapsAgree' /\ RegisteredIsStored'
  BY Zenon DEF IInv, MapsAgree, RegisteredIsStored
<1> QED BY <1>1, <1>2, <1>3, Zenon

\* A core that dies and starts again knows nothing; a registration that it was saving the device
\* types of has failed half way.
LEMMA DiesKeepsIInv ==
  ASSUME IInv, Dies
  PROVE  IInv'
<1> USE DEF IInv
<1>1. /\ reg' = [x \in Adapters |-> IF reg[x] \in {"sent", "other"} THEN reg[x] ELSE "idle"]
      /\ past' = [past EXCEPT !.missed = {}, !.early = {}, !.half = @ \cup {x \in Adapters : reg[x] = "typing"}]
      /\ agents' = {} /\ names' = {} /\ UNCHANGED world /\ main' = "connecting" /\ loading' = "off"
  BY Zenon DEF Dies, Begins
<1>2. /\ past'.half = past.half \cup {x \in Adapters : reg[x] = "typing"} /\ past'.ok = past.ok
      /\ past'.missed = {} /\ past'.early = {}
      /\ past' \in [half : SUBSET Adapters, missed : SUBSET Adapters, early : SUBSET Adapters, ok : SUBSET Adapters]
  BY <1>1, Zenon DEF TypeInv
<1>3. TypeInv'
  <2>1. reg' \in [Adapters -> Stages]
    BY <1>1, Zenon DEF TypeInv, Stages
  <2>2. /\ probe' = [s \in Services |-> "unknown"] /\ events' = [m \in Monitors |-> {}]
        /\ alive' = [m \in Monitors |-> FALSE]
    BY Zenon DEF Dies, Begins
  <2> QED BY <1>1, <1>2, <2>1, <2>2, Zenon DEF TypeInv, world
<1>4. StoreInv'
  BY <1>1, <1>2, Zenon DEF TypeInv, StoreInv, StoredWell, world, Stages
<1>5. LoadInv' /\ MapsAgree'
  BY <1>1, Zenon DEF LoadInv, MapsAgree
<1>6. ReadyInv'
  BY <1>1, Zenon DEF Dies, Begins, ReadyInv, Services, Monitors
<1>7. RegisteredIsStored'
  BY <1>1, <1>2, Zenon DEF RegisteredIsStored, world
<1> QED BY <1>3, <1>4, <1>5, <1>6, <1>7, Zenon

\* The services start and are watched: what the probe says of the bus and of the adapter
\* manager stays justified.
LEMMA ServiceStepKeepsIInv ==
  ASSUME IInv, ServiceStep, ~Dies
  PROVE  IInv'
<1> USE DEF IInv
<1>1. /\ UNCHANGED <<store, agents, served, names, reg, past>>
      /\ loading' \in {"types", "done"} => loading = loading'
  <2>1. CASE WaitUntilKVStoreReachableOrMaxTries
    BY <2>1, Zenon DEF WaitUntilKVStoreReachableOrMaxTries, Launches, world, registry
  <2>2. CASE Outage \/ Recovery \/ SetDeviceOwnership \/ StartKafkaManager \/ StartManagers \/ MonitorKvstoreLiveness
    BY <2>2, Zenon DEF Outage, Recovery, SetDeviceOwnership, StartKafkaManager, StartManagers, MonitorKvstoreLiveness,
                world, services, monitors, registry
  <2>3. ASSUME NEW m \in Monitors, Used(m) \/ Monitor(m)
        PROVE  UNCHANGED <<store, agents, served, names, reg, past>> /\ UNCHANGED <<main, loading>>
    BY <2>3, Zenon DEF Used, Monitor, LivenessEvent, LivenessTimeout, LivenessCheck, PerformLivenessCheck,
                      world, services, registry
  <2> QED BY <2>1, <2>2, <2>3, Zenon DEF ServiceStep
<1>2. TypeInv' /\ ReadyInv'
  <2> USE DEF world
  <2>1. CASE WaitUntilKVStoreReachableOrMaxTries
    BY <1>1, <2>1 DEF WaitUntilKVStoreReachableOrMaxTries, Launches, InitKafkaManager, TypeInv, ReadyInv,
                      Services, Monitors, monitors
  <2>2. CASE Outage \/ Recovery \/ SetDeviceOwnership
    BY <1>1, <2>2, Zenon DEF Outage, Recovery, SetDeviceOwnership, TypeInv, ReadyInv, services, monitors
  <2>3. CASE StartKafkaManager
    BY <1>1, <2>3 DEF StartKafkaManager, RegisterAdapterRequestHandlers, EnableLivenessChannel, Status,
                      TypeInv, ReadyInv, Services, Monitors
  <2>4. CASE StartManagers
    BY <1>1, <2>4, Zenon DEF StartManagers, StartDeviceManager, StartLogicalDeviceManager, StartGRPCService,
                      TypeInv, ReadyInv, Services, services
  <2>5. CASE MonitorKvstoreLiveness
    BY <1>1, <2>5, Zenon DEF MonitorKvstoreLiveness, EnableLivenessChannel, TypeInv, ReadyInv, Monitors, services
  <2>6. ASSUME NEW m \in Monitors, Used(m) PROVE TypeInv' /\ ReadyInv'
    BY <1>1, <2>6 DEF Used, UpdateLiveness, TypeInv, ReadyInv, services, Up
  <2>7. ASSUME NEW m \in Monitors, LivenessEvent(m) PROVE TypeInv' /\ ReadyInv'
    BY <1>1, <2>7 DEF LivenessEvent, Status, ServiceOf, TypeInv, ReadyInv, Services, Monitors, services
  <2>8. ASSUME NEW m \in Monitors, LivenessTimeout(m) PROVE TypeInv' /\ ReadyInv'
    BY <1>1, <2>8, Zenon DEF LivenessTimeout, TypeInv, ReadyInv, services
  <2>9. ASSUME NEW m \in Monitors, LivenessCheck(m) PROVE TypeInv' /\ ReadyInv'
    <3>1. PICK live \in BOOLEAN : UpdateLiveness(m, live)
      BY <2>9, Zenon DEF LivenessCheck
    <3> QED BY <1>1, <2>9, <3>1 DEF LivenessCheck, UpdateLiveness, TypeInv, ReadyInv, services
  <2>10. CASE PerformLivenessCheck
    <3>1. CASE kv /\ UpdateLiveness("kv", TRUE)
      <4>1. alive' \in [Monitors -> BOOLEAN]
        BY <3>1, Zenon DEF UpdateLiveness, TypeInv
      <4>2. events' = events \/ ("kv" \in watching /\ events' = [events EXCEPT !["kv"] = {TRUE}])
        BY <3>1, Zenon DEF UpdateLiveness
      <4>3. events' \in [Monitors -> SUBSET BOOLEAN] /\ \A m \in Monitors : events'[m] # {} => m \in watching
        <5>1. CASE events' = events
          BY <5>1, Zenon DEF TypeInv, ReadyInv
        <5>2. CASE "kv" \in watching /\ events' = [events EXCEPT !["kv"] = {TRUE}]
          <6>1. {TRUE} \in SUBSET BOOLEAN
            OBVIOUS
          <6>2. \A m \in Monitors : m # "kv" => events'[m] = events[m]
            BY <5>2, Zenon DEF TypeInv
          <6> QED BY <5>2, <6>1, <6>2, Zenon DEF TypeInv, ReadyInv
        <5> QED BY <4>2, <5>1, <5>2, Zenon
      <4> QED BY <1>1, <2>10, <4>1, <4>3, Zenon DEF PerformLivenessCheck, TypeInv, ReadyInv, services
    <3>2. CASE UNCHANGED <<alive, events>>
      BY <1>1, <2>10, <3>2, Zenon DEF PerformLivenessCheck, TypeInv, ReadyInv, services
    <3> QED BY <2>10, <3>1, <3>2, Zenon DEF PerformLivenessCheck
  <2> QED BY <2>1, <2>2, <2>3, <2>4, <2>5, <2>6, <2>7, <2>8, <2>9, <2>10, Zenon DEF ServiceStep, Monitor
<1> QED BY <1>1, <1>2, QuietStep, Zenon

\* A registration does not touch the services and their monitors.
LEMMA RegistrationKeepsReady ==
  ASSUME ReadyInv, UNCHANGED <<main, kafka, loading, monitors>>
  PROVE  ReadyInv'
BY Zenon DEF ReadyInv, monitors

\* An adapter broadcasts its registration.
LEMMA RegisterKeepsIInv ==
  ASSUME IInv, NEW x \in Adapters, Register(x)
  PROVE  IInv'
<1> USE DEF IInv
<1>1. TypeInv'
  BY Zenon DEF Register, At, TypeInv, Stages, monitors, maps
<1>2. ReadyInv'
  BY RegistrationKeepsReady, Zenon DEF Register, services
<1>3. StoreInv' /\ LoadInv'
  BY DEF Register, At, TypeInv, StoreInv, StoredWell, LoadInv, Known, services, maps
<1>4. MapsAgree' /\ RegisteredIsStored'
  BY Zenon DEF Register, MapsAgree, RegisteredIsStored, maps
<1> QED BY <1>1, <1>2, <1>3, <1>4, Zenon

\* What the other core does to the history: a core that has not subscribed misses the
\* answer.
LEMMA OtherCoreDoneEffect ==
  ASSUME TypeInv, NEW x \in Adapters, NEW from \in Stages, NEW failed \in BOOLEAN,
         OtherCoreDone(x, from, failed)
  PROVE  /\ reg[x] = from /\ reg'[x] \in {"lost", "idle"} /\ reg' \in [Adapters -> Stages]
         /\ \A y \in Adapters \ {x} : reg'[y] = reg[y]
         /\ past' \in [half : SUBSET Adapters, missed : SUBSET Adapters, early : SUBSET Adapters, ok : SUBSET Adapters]
         /\ past.half \subseteq past'.half /\ (failed => x \in past'.half)
         /\ past.missed \subseteq past'.missed 
         /\ reg'[x] = "idle" /\ loading \in {"types", "done"} => x \in past'.missed
         /\ past'.early = past.early /\ past'.ok = past.ok
BY ZenonT(60) DEF OtherCoreDone, At, TypeInv, Stages

\* The other core registers an adapter: what it saves is in the store before it answers.
LEMMA OtherCoreKeepsIInv ==
  ASSUME IInv, NEW x \in Adapters,
         OtherCoreKnowsAdapter(x) \/ OtherCoreAddsAdapter(x) \/ OtherCoreAddsDeviceTypes(x)
  PROVE  IInv'
<1> USE DEF IInv
<1>0. UNCHANGED <<services, monitors, maps, kv, bus>>
  BY Zenon DEF OtherCoreKnowsAdapter, OtherCoreAddsAdapter, OtherCoreAddsDeviceTypes, world
<1>1. ReadyInv' /\ MapsAgree'
  BY <1>0, RegistrationKeepsReady, Zenon DEF services, maps, MapsAgree
<1>2. CASE store' = store /\ \E failed \in BOOLEAN : OtherCoreDone(x, "sent", failed)
  <2>1. PICK failed \in BOOLEAN : OtherCoreDone(x, "sent", failed)
    BY <1>2, Zenon
  <2>2. store' = store
    BY <1>2, Zenon
  <2> HIDE DEF OtherCoreDone
  <2>3. TypeInv'
    BY <1>0, <2>1, <2>2, OtherCoreDoneEffect DEF TypeInv, Stages, monitors, maps
  <2>4. StoreInv'
    BY <1>0, <2>1, <2>2, OtherCoreDoneEffect DEF StoreInv, StoredWell, Stages, maps
  <2>5. LoadInv'
    BY <1>0, <2>1, <2>2, OtherCoreDoneEffect DEF LoadInv, Known, Stages, maps, services
  <2>6. RegisteredIsStored'
    BY <2>1, <2>2, OtherCoreDoneEffect, Zenon DEF RegisteredIsStored, Stages
  <2> QED BY <1>1, <2>3, <2>4, <2>5, <2>6, Zenon
<1>3. CASE /\ kv /\ reg[x] = "sent" /\ reg' = [reg EXCEPT ![x] = "other"] /\ past' = past /\ x \notin store.adapters
           /\ store' = [store EXCEPT !.adapters = @ \cup {x}]
  <2>1. /\ reg[x] = "sent" /\ reg' = [reg EXCEPT ![x] = "other"] /\ past' = past /\ x \notin store.adapters
        /\ store' = [store EXCEPT !.adapters = @ \cup {x}]
    BY <1>3, Zenon
  <2>2. TypeInv'
    BY <1>0, <2>1 DEF TypeInv, Stages, monitors, maps
  <2>3. StoreInv'
    BY <1>0, <2>1 DEF TypeInv, StoreInv, StoredWell, maps
  <2>4. LoadInv'
    BY <1>0, <2>1 DEF TypeInv, LoadInv, Known, maps, services
  <2>5. RegisteredIsStored'
    BY <2>1, Zenon DEF TypeInv, RegisteredIsStored
  <2> QED BY <1>1, <2>2, <2>3, <2>4, <2>5, Zenon
<1>4. CASE /\ reg[x] = "sent" /\ reg' = [reg EXCEPT ![x] = "other"] /\ store' = store
           /\ past' = [past EXCEPT !.half = @ \cup {x}]
  <2>1. TypeInv'
    BY <1>0, <1>4, Zenon DEF TypeInv, Stages, monitors, maps
  <2>2. StoreInv'
    BY <1>0, <1>4, Zenon DEF TypeInv, StoreInv, StoredWell, maps
  <2>3. LoadInv'
    BY <1>0, <1>4, Zenon DEF TypeInv, LoadInv, Known, maps, services
  <2>4. RegisteredIsStored'
    BY <1>4, Zenon DEF TypeInv, RegisteredIsStored
  <2> QED BY <1>1, <2>1, <2>2, <2>3, <2>4, Zenon
<1>5. CASE OtherCoreAddsDeviceTypes(x)
  <2>1. OtherCoreDone(x, "other", ~kv)
    BY <1>5, Zenon DEF OtherCoreAddsDeviceTypes
  <2>2. PICK saved \in SUBSET TypesOf[x] :
          /\ saved = TypesOf[x] <=> kv
          /\ store' = [store EXCEPT !.types = @ \cup saved]
          /\ store'.adapters = store.adapters /\ store'.types = store.types \cup saved
    BY <1>5, Zenon DEF OtherCoreAddsDeviceTypes, SaveTypes, TypeInv
  <2>3. \A y \in Adapters \ {x} : TypesOf[y] \cap store'.types = TypesOf[y] \cap store.types
    BY <2>2, TypesAssumption, Zenon
  <2>4. TypeInv'
    <3>1. store' \in [adapters : SUBSET (Adapters \cup {Sentinel}), types : SUBSET Types]
      BY <2>2 DEF TypeInv, Types
    <3> QED BY <1>0, <2>1, <3>1, OtherCoreDoneEffect, Zenon DEF TypeInv, Stages, monitors, maps
  <2>5. StoreInv'
    <3> SUFFICES ASSUME NEW y \in Adapters \ past'.half PROVE StoredWell(y)'
      BY Zenon DEF StoreInv
    <3>1. y \notin past.half /\ StoredWell(y) /\ (y = x => kv)
      BY <2>1, OtherCoreDoneEffect, ZenonT(60) DEF StoreInv, Stages, TypeInv
    <3>2. CASE y = x
      BY <1>0, <2>1, <2>2, <3>1, <3>2, OtherCoreDoneEffect, Zenon DEF StoredWell, Stages, maps
    <3>3. CASE y # x
      BY <1>0, <2>1, <2>2, <2>3, <3>1, <3>3, OtherCoreDoneEffect, Zenon DEF StoredWell, Stages, maps
    <3> QED BY <3>2, <3>3, Zenon
  <2>6. LoadInv'
    <3> SUFFICES ASSUME loading \in {"types", "done"},
                        NEW y \in Adapters \ (past'.half \cup past'.missed \cup past'.early)
                 PROVE  Known(y)'
      BY <1>0, Zenon DEF LoadInv, services
    <3>1. Known(y) /\ (y # x => reg'[y] = reg[y]) /\ (y = x => reg[x] = "other" /\ reg'[x] = "lost")
      BY <2>1, OtherCoreDoneEffect, ZenonT(60) DEF LoadInv, Stages
    <3> QED BY <1>0, <2>2, <3>1, Zenon DEF Known, maps, services
  <2>7. RegisteredIsStored'
    BY <2>1, <2>2, OtherCoreDoneEffect, Zenon DEF RegisteredIsStored, Stages, TypeInv
  <2> QED BY <1>1, <2>4, <2>5, <2>6, <2>7
<1>6. \/ store' = store /\ \E failed \in BOOLEAN : OtherCoreDone(x, "sent", failed)
      \/ /\ kv /\ reg[x] = "sent" /\ reg' = [reg EXCEPT ![x] = "other"] /\ past' = past /\ x \notin store.adapters
         /\ store' = [store EXCEPT !.adapters = @ \cup {x}]
      \/ /\ reg[x] = "sent" /\ reg' = [reg EXCEPT ![x] = "other"] /\ store' = store
         /\ past' = [past EXCEPT !.half = @ \cup {x}]
      \/ OtherCoreAddsDeviceTypes(x)
  BY Zenon DEF OtherCoreKnowsAdapter, OtherCoreAddsAdapter, At, world
<1> QED BY <1>2, <1>3, <1>4, <1>5, <1>6, Zenon

\* This core takes a registration: one of an adapter that it knows is answered at once,
\* because what it knows is stored.
LEMMA RegisterAdapterKeepsIInv ==
  ASSUME IInv, NEW x \in Adapters, RegisterAdapter(x)
  PROVE  IInv'
<1> USE DEF IInv
<1>0. UNCHANGED <<world, services, monitors, maps>> /\ reg[x] = "sent"
  BY Zenon DEF RegisterAdapter, At
<1>1. ReadyInv' /\ MapsAgree'
  BY <1>0, RegistrationKeepsReady, Zenon DEF services, maps, MapsAgree
<1>2. /\ past'.half = past.half /\ past'.missed = past.missed /\ past'.early = past.early
      /\ past' \in [half : SUBSET Adapters, missed : SUBSET Adapters, early : SUBSET Adapters, ok : SUBSET Adapters]
      /\ past'.ok = past.ok \cup (IF x \in agents THEN {x} ELSE {})
  BY DEF RegisterAdapter, TypeInv
<1>3. /\ reg' \in [Adapters -> Stages] /\ \A y \in Adapters \ {x} : reg'[y] = reg[y]
      /\ reg'[x] = IF x \in agents THEN "idle" ELSE "adding"
  BY DEF RegisterAdapter, At, TypeInv, Stages
<1>4. TypeInv'
  BY <1>0, <1>2, <1>3, Zenon DEF TypeInv, world, monitors, maps
<1>5. StoreInv'
  BY <1>0, <1>2, <1>3, Zenon DEF StoreInv, StoredWell, world, maps
<1>6. LoadInv'
  BY <1>0, <1>2, <1>3, Zenon DEF LoadInv, Known, world, maps, services
<1>7. RegisteredIsStored'
  BY <1>0, <1>2 DEF RegisteredIsStored, StoreInv, StoredWell, TypeInv, world
<1> QED BY <1>1, <1>4, <1>5, <1>6, <1>7, Zenon

\* This core adds an adapter: the agent comes first, then the store.
LEMMA AddAdapterKeepsIInv ==
  ASSUME IInv, NEW x \in Adapters, AddAdapter(x)
  PROVE  IInv'
<1> USE DEF IInv
<1>0. UNCHANGED <<kv, bus, services, monitors, served, names>> /\ reg[x] = "adding" /\ agents' = agents \cup {x}
  BY Zenon DEF AddAdapter, At, WithAdapters
<1>1. ReadyInv' /\ MapsAgree'
  BY <1>0, RegistrationKeepsReady, Zenon DEF services, MapsAgree
<1>2. CASE x \in agents \/ kv
  <2>1. /\ reg' = [reg EXCEPT ![x] = "typing"] /\ past' = past
        /\ store' = [store EXCEPT !.adapters = IF x \in agents THEN @ ELSE @ \cup {x}]
    BY <1>2, Zenon DEF AddAdapter, At
  <2>2. TypeInv'
    BY <1>0, <2>1, Zenon DEF TypeInv, Stages, monitors
  <2>3. StoreInv'
    BY <1>0, <2>1 DEF TypeInv, StoreInv, StoredWell
  <2>4. LoadInv'
    BY <1>0, <2>1 DEF TypeInv, LoadInv, Known, services
  <2>5. RegisteredIsStored'
    BY <2>1, Zenon DEF TypeInv, RegisteredIsStored
  <2> QED BY <1>1, <2>2, <2>3, <2>4, <2>5
<1>3. CASE ~(x \in agents \/ kv)
  <2>1. PICK stage \in {"idle", "typing"} :
          /\ reg' = [reg EXCEPT ![x] = stage] /\ past' = [past EXCEPT !.half = @ \cup {x}]
          /\ store' = store
    BY <1>3, Zenon DEF AddAdapter, At
  <2>2. TypeInv'
    BY <1>0, <2>1, Zenon DEF TypeInv, Stages, monitors
  <2>3. StoreInv'
    BY <1>0, <2>1, Zenon DEF TypeInv, StoreInv, StoredWell
  <2>4. LoadInv'
    BY <1>0, <2>1, Zenon DEF TypeInv, LoadInv, Known, services
  <2>5. RegisteredIsStored'
    BY <2>1, Zenon DEF TypeInv, RegisteredIsStored
  <2> QED BY <1>1, <2>2, <2>3, <2>4, <2>5
<1> QED BY <1>2, <1>3, Zenon

\* This core adds the device types of an adapter: the maps come first, then the store; the
\* adapter is told that all went well when all the types are saved.
LEMMA AddDeviceTypesKeepsIInv ==
  ASSUME IInv, NEW x \in Adapters, AddDeviceTypes(x)
  PROVE  IInv'
<1> USE DEF IInv
<1>0. /\ UNCHANGED <<kv, bus, services, monitors>>
      /\ reg[x] = "typing" /\ reg' = [reg EXCEPT ![x] = "idle"]
  BY Zenon DEF AddDeviceTypes, At
<1>1. /\ agents \subseteq agents' /\ agents' \subseteq agents \cup {x}
      /\ names' = names \cup TypesOf[x] /\ served' = served \cup TypesOf[x]
      /\ \A t \in TypesOf[x] : AdapterOf(t) \in agents'
  BY AdapterOfType, Zenon DEF AddDeviceTypes, WithTypes
<1>2. ReadyInv' /\ MapsAgree'
  BY <1>0, <1>1, RegistrationKeepsReady, Zenon DEF services, MapsAgree
<1>3. PICK saved \in SUBSET TypesOf[x] :
        /\ store'.adapters = store.adapters /\ store'.types = store.types \cup saved
        /\ store' \in [adapters : SUBSET (Adapters \cup {Sentinel}), types : SUBSET Types]
        /\ past' \in [half : SUBSET Adapters, missed : SUBSET Adapters, early : SUBSET Adapters, ok : SUBSET Adapters]
        /\ past'.missed = past.missed /\ past'.early = past.early
        /\ \/ saved = TypesOf[x] /\ past'.half = past.half /\ past'.ok = past.ok \cup {x}
           \/ past'.half = past.half \cup {x} /\ past'.ok \in {past.ok, past.ok \cup {x}}
  <2>1. PICK saved \in SUBSET TypesOf[x] :
          (saved = TypesOf[x] <=> kv) /\ store' = [store EXCEPT !.types = @ \cup saved]
    BY Zenon DEF AddDeviceTypes, SaveTypes
  <2>2. /\ store'.adapters = store.adapters /\ store'.types = store.types \cup saved
        /\ store' \in [adapters : SUBSET (Adapters \cup {Sentinel}), types : SUBSET Types]
    BY <2>1 DEF TypeInv, Types
  <2>3. CASE kv
    <3>1. past' = [past EXCEPT !.ok = @ \cup {x}]
      BY <2>3, Zenon DEF AddDeviceTypes
    <3> WITNESS saved \in SUBSET TypesOf[x]
    <3> QED BY <2>1, <2>2, <2>3, <3>1 DEF TypeInv
  <2>4. CASE ~kv
    <3>1. PICK told \in {{}, {x}} : past' = [past EXCEPT !.half = @ \cup {x}, !.ok = @ \cup told]
      BY <2>4, Zenon DEF AddDeviceTypes
    <3> WITNESS saved \in SUBSET TypesOf[x]
    <3> QED BY <2>1, <2>2, <3>1 DEF TypeInv
  <2> QED BY <2>3, <2>4, Zenon
<1>4. \A y \in Adapters \ {x} : TypesOf[y] \cap store'.types = TypesOf[y] \cap store.types
  BY <1>3, TypesAssumption, Zenon
<1>5. TypeInv'
  BY <1>0, <1>1, <1>3, Zenon DEF TypeInv, Stages, monitors
<1>6. StoreInv'
  <2> SUFFICES ASSUME NEW y \in Adapters \ past'.half PROVE StoredWell(y)'
    BY Zenon DEF StoreInv
  <2>1. y \notin past.half /\ StoredWell(y)
    BY <1>3, Zenon DEF StoreInv
  <2>2. CASE y = x
    BY <1>0, <1>1, <1>3, <2>1, <2>2 DEF StoredWell, TypeInv
  <2>3. CASE y # x
    <3>1. reg'[y] = reg[y] /\ (y \in agents' <=> y \in agents)
      BY <1>0, <1>1, <2>3, Zenon DEF TypeInv
    <3> QED BY <1>3, <1>4, <2>1, <2>3, <3>1, Zenon DEF StoredWell
  <2> QED BY <2>2, <2>3, Zenon
<1>7. LoadInv'
  <2> SUFFICES ASSUME loading \in {"types", "done"},
                      NEW y \in Adapters \ (past'.half \cup past'.missed \cup past'.early)
               PROVE  Known(y)'
    BY <1>0, Zenon DEF LoadInv, services
  <2>1. Known(y) /\ StoredWell(y)
    BY <1>3, Zenon DEF LoadInv, StoreInv
  <2> QED BY <1>0, <1>1, <1>3, <2>1 DEF Known, StoredWell, TypeInv, services
<1>8. RegisteredIsStored'
  BY <1>0, <1>3 DEF RegisteredIsStored, StoreInv, StoredWell, TypeInv
<1> QED BY <1>2, <1>5, <1>6, <1>7, <1>8, Zenon

\* The agents that the device types in the store make are those of adapters that are
\* stored, and are not between their adapter and their types.
LEMMA StoredTypes ==
  ASSUME TypeInv, StoreInv, NEW t \in store.types
  PROVE  AdapterOf(t) = Sentinel \/ AdapterOf(t) \in past.half
         \/ (AdapterOf(t) \in store.adapters \cap Adapters /\ reg[AdapterOf(t)] # "other")
<1>1. t \in Types
  BY Zenon DEF TypeInv
<1>2. CASE AdapterOf(t) \in Adapters /\ t \in TypesOf[AdapterOf(t)]
  BY <1>2, Zenon DEF StoreInv, StoredWell
<1> QED BY <1>1, <1>2, AdapterOfTypes, Zenon

\* What a core knows after it has read all the device types: every stored adapter whose
\* types are stored has them in the map.
LEMMA TypesRead ==
  ASSUME TypeInv, StoreInv, store.types \subseteq names', NEW x \in Adapters \ past.half,
         x \in store.adapters, reg[x] \notin {"other", "typing"}
  PROVE  TypesOf[x] \subseteq names'
BY Zenon DEF StoreInv, StoredWell

\* This core is told that the other one has served the registration: it reads the
\* adapters and the device types again.
LEMMA UpdateKeepsIInv ==
  ASSUME IInv, NEW x \in Adapters, UpdateAdaptersAndDevicetypesInMemory(x)
  PROVE  IInv'
<1> USE DEF IInv
<1>0. UNCHANGED <<world, services, monitors>> /\ reg[x] = "lost" /\ reg' = [reg EXCEPT ![x] = "idle"]
  BY Zenon DEF UpdateAdaptersAndDevicetypesInMemory, At
<1>1. ReadyInv'
  BY <1>0, RegistrationKeepsReady, Zenon DEF services
<1>2. CASE UNCHANGED maps /\ past' = [past EXCEPT !.missed = past'.missed]
           /\ past'.missed \in {past.missed, past.missed \cup {x}} /\ (x \in agents \/ x \in past'.missed)
  <2>1. TypeInv'
    BY <1>0, <1>2, Zenon DEF TypeInv, Stages, world, monitors, maps
  <2>2. StoreInv'
    BY <1>0, <1>2, Zenon DEF TypeInv, StoreInv, StoredWell, world, maps
  <2>3. LoadInv'
    BY <1>0, <1>2 DEF TypeInv, LoadInv, Known, services, world, maps
  <2>4. RegisteredIsStored' /\ MapsAgree'
    BY <1>0, <1>2, Zenon DEF TypeInv, RegisteredIsStored, MapsAgree, world, maps
  <2> QED BY <1>1, <2>1, <2>2, <2>3, <2>4, Zenon
<1>3. CASE /\ agents' = agents \cup store.adapters \cup {AdapterOf(t) : t \in store.types}
           /\ served' = served \cup store.types /\ names' = names \cup store.types
           /\ past' = [past EXCEPT !.early = @ \cup HalfSaved]
  <2>1. \A y \in agents' : y = Sentinel \/ y \in agents \/ y \in past.half \/ y \in store.adapters \cap Adapters
    BY <1>3, StoredTypes DEF TypeInv
  <2>2. TypeInv'
    BY <1>0, <1>3, <2>1, Zenon DEF TypeInv, Stages, world, monitors, HalfSaved
  <2>3. StoreInv'
    BY <1>0, <1>3, <2>1, ServicesAssumption DEF TypeInv, StoreInv, StoredWell, HalfSaved, world
  <2>4. LoadInv'
    <3> SUFFICES ASSUME loading \in {"types", "done"},
                        NEW y \in Adapters \ (past'.half \cup past'.missed \cup past'.early)
                 PROVE  Known(y)'
      BY <1>0, Zenon DEF LoadInv, services
    <3>1. y \notin past.half /\ y \notin HalfSaved /\ Known(y) /\ StoredWell(y)
      BY <1>3, Zenon DEF TypeInv, LoadInv, StoreInv
    <3>2. y \in agents' => y \in agents \/ y \in store.adapters
      BY <2>1, <3>1, ServicesAssumption, Zenon
    <3>3. y \in store.adapters /\ reg[y] \notin {"other", "typing"} => TypesOf[y] \subseteq names'
      BY <1>3, <3>1, TypesRead, Zenon
    <3>4. y \in store.adapters => reg[y] # "other"
      BY <3>1, Zenon DEF HalfSaved
    <3> QED BY <1>0, <1>3, <3>1, <3>2, <3>3, <3>4 DEF Known, StoredWell, TypeInv, services, world
  <2>5. MapsAgree'
    BY <1>3, Zenon DEF MapsAgree
  <2>6. RegisteredIsStored'
    BY <1>0, <1>3, Zenon DEF TypeInv, RegisteredIsStored, world
  <2> QED BY <1>1, <2>2, <2>3, <2>4, <2>5, <2>6, Zenon
<1>4. ASSUME NEW read \in {{}, store.adapters},
             agents' = agents \cup read, UNCHANGED <<served, names>>,
             past' = [past EXCEPT !.missed = @ \cup {x} \cup (read \cap Adapters),
                                  !.early = @ \cup (read \cap HalfSaved)]
      PROVE  IInv'
  <2>1. /\ past'.half = past.half /\ past'.ok = past.ok
        /\ past'.missed = past.missed \cup {x} \cup (read \cap Adapters)
        /\ past'.early = past.early \cup (read \cap HalfSaved)
        /\ past' \in [half : SUBSET Adapters, missed : SUBSET Adapters, early : SUBSET Adapters, ok : SUBSET Adapters]
        /\ read \subseteq store.adapters
    BY <1>4 DEF TypeInv, HalfSaved
  <2>2. TypeInv'
    BY <1>0, <1>4, <2>1, Zenon DEF TypeInv, Stages, world, monitors
  <2>3. StoreInv'
    BY <1>0, <1>4, <2>1 DEF TypeInv, StoreInv, StoredWell, HalfSaved, world
  <2>4. LoadInv'
    BY <1>0, <1>4, <2>1 DEF TypeInv, LoadInv, Known, services, world
  <2>5. RegisteredIsStored' /\ MapsAgree'
    BY <1>0, <1>4, <2>1, Zenon DEF RegisteredIsStored, MapsAgree, world
  <2> QED BY <1>1, <2>2, <2>3, <2>4, <2>5, Zenon
<1>5. CASE x \in agents
  BY <1>2, <1>5 DEF UpdateAdaptersAndDevicetypesInMemory, TypeInv
<1>6. CASE x \notin agents
  BY <1>3, <1>4, <1>6, Zenon DEF UpdateAdaptersAndDevicetypesInMemory, WithAdapters
<1> QED BY <1>5, <1>6

\* The load of the adapters at the start of the adapter manager.
LEMMA LoadAdaptersKeepsIInv ==
  ASSUME IInv, LoadAdapters, ~Dies
  PROVE  IInv'
<1> USE DEF IInv
<1>0. loading = "adapters" /\ UNCHANGED <<kv, bus, kafka, alive, watching, events, reg, restarting>>
  BY Zenon DEF LoadAdapters
<1>2. CASE kv /\ store.adapters # {}
  <2>1. /\ agents' = agents \cup store.adapters /\ loading' = "types"
        /\ past' = [past EXCEPT !.early = @ \cup HalfSaved]
        /\ UNCHANGED <<served, names, main, store, probe>>
    BY <1>2, Zenon DEF LoadAdapters, WithAdapters
  <2>2. TypeInv'
    BY <1>0, <2>1, Zenon DEF TypeInv, HalfSaved
  <2>3. StoreInv'
    BY <1>0, <2>1, Zenon DEF TypeInv, StoreInv, StoredWell, HalfSaved
  <2>4. LoadInv'
    BY <1>0, <2>1, Zenon DEF TypeInv, LoadInv, Known
  <2>5. ReadyInv'
    BY <1>0, <2>1, Zenon DEF ReadyInv
  <2>6. MapsAgree' /\ RegisteredIsStored'
    BY <2>1, Zenon DEF TypeInv, MapsAgree, RegisteredIsStored
  <2> QED BY <2>2, <2>3, <2>4, <2>5, <2>6, Zenon
<1>3. CASE store.adapters = {}
  <2>1. /\ agents' = agents \cup {Sentinel} /\ loading' = "done"
        /\ store' = [store EXCEPT !.adapters = IF kv THEN {Sentinel} ELSE @]
        /\ probe' = [probe EXCEPT !["adapter-manager"] = "running"]
        /\ UNCHANGED <<served, names, main, past>>
    BY <1>3, Zenon DEF LoadAdapters, WithAdapters, Loads, Status
  <2>2. TypeInv'
    BY <1>0, <2>1, Zenon DEF TypeInv
  <2>0. store'.types = store.types /\ \A y \in Adapters : y \notin store'.adapters
    BY <1>3, <2>1, ServicesAssumption DEF TypeInv
  <2>3. StoreInv'
    BY <1>0, <1>3, <2>0, <2>1, ServicesAssumption, Zenon DEF StoreInv, StoredWell
  <2>4. LoadInv'
    BY <1>0, <1>3, <2>0, <2>1, ServicesAssumption, Zenon DEF LoadInv, Known, StoreInv, StoredWell
  <2>5. ReadyInv'
    BY <1>0, <2>1, Zenon DEF ReadyInv, TypeInv, Services
  <2>6. MapsAgree' /\ RegisteredIsStored'
    BY <1>3, <2>0, <2>1, Zenon DEF TypeInv, MapsAgree, RegisteredIsStored
  <2> QED BY <2>2, <2>3, <2>4, <2>5, <2>6
<1> QED BY <1>2, <1>3, Zenon DEF LoadAdapters

\* The load of the device types: with it the adapter manager has started.
LEMMA LoadDeviceTypesKeepsIInv ==
  ASSUME IInv, LoadDeviceTypes, ~Dies
  PROVE  IInv'
<1> USE DEF IInv
<1>0. /\ loading = "types"
      /\ UNCHANGED <<kv, bus, kafka, alive, watching, events, reg, restarting, past>>
  BY Zenon DEF LoadDeviceTypes
<1>1. PICK read \in {store.types, {Sentinel}} :
        /\ store.types # {} => read = store.types /\ store' = store
        /\ store.types = {} => read = {Sentinel} /\ store' = [store EXCEPT !.types = IF kv THEN {Sentinel} ELSE @]
        /\ agents' = agents \cup {AdapterOf(t) : t \in read}
        /\ served' = served \cup read /\ names' = names \cup read
        /\ loading' = "done" /\ probe' = [probe EXCEPT !["adapter-manager"] = "running"] /\ main' = main
  BY Zenon DEF LoadDeviceTypes, WithTypes, Loads, Status
<1>2. /\ store' \in [adapters : SUBSET (Adapters \cup {Sentinel}), types : SUBSET Types]
      /\ store'.adapters = store.adapters /\ store.types \subseteq store'.types
      /\ store'.types \subseteq store.types \cup {Sentinel}
  BY <1>1, Zenon DEF TypeInv, Types
<1>3. \A y \in Adapters : TypesOf[y] \cap store'.types = TypesOf[y] \cap store.types
  BY <1>2, TypesAssumption, Zenon
<1>4. \A y \in agents' : y = Sentinel \/ y \in agents \/ y \in past.half
                         \/ (y \in store.adapters \cap Adapters /\ reg[y] # "other")
  <2>1. AdapterOf(Sentinel) = Sentinel
    BY Zenon DEF AdapterOf
  <2> QED BY <1>1, <1>2, <2>1, StoredTypes
<1>5. TypeInv'
  BY <1>0, <1>1, <1>2, <1>4, Zenon DEF TypeInv
<1>6. StoreInv'
  BY <1>0, <1>2, <1>3, <1>4, ServicesAssumption, Zenon DEF StoreInv, StoredWell
<1>7. LoadInv'
  <2> SUFFICES ASSUME NEW y \in Adapters \ (past.half \cup past.missed \cup past.early)
               PROVE  Known(y)'
    BY <1>0, Zenon DEF LoadInv
  <2>1. Known(y) /\ StoredWell(y)
    BY <1>0, Zenon DEF LoadInv, StoreInv
  <2>2. y \in agents' => y \in store.adapters /\ reg[y] # "other"
    BY <1>4, <2>1, ServicesAssumption, Zenon DEF StoredWell
  <2>3. y \in store.adapters /\ reg[y] \notin {"other", "typing"} => TypesOf[y] \subseteq names'
    BY <1>1, <1>2, <2>1, TypesRead, Zenon
  <2> QED BY <1>0, <1>1, <1>2, <2>1, <2>2, <2>3, Zenon DEF Known
<1>8. ReadyInv'
  BY <1>0, <1>1, Zenon DEF ReadyInv, TypeInv, Services
<1>9. MapsAgree' /\ RegisteredIsStored'
  BY <1>0, <1>1, <1>2, Zenon DEF MapsAgree, RegisteredIsStored
<1> QED BY <1>5, <1>6, <1>7, <1>8, <1>9

\* The reconciliation that follows a restart of the adapter.
LEMMA AdapterRestartedKeepsIInv ==
  ASSUME IInv, NEW x \in Adapters, AdapterRestarted(x), ~Dies
  PROVE  IInv'
<1>1. UNCHANGED <<world, main, kafka, loading, monitors, maps, reg, past>>
  BY Zenon DEF AdapterRestarted, services
<1>2. ReadyInv'
  BY <1>1, RegistrationKeepsReady, Zenon DEF IInv
<1>3. TypeInv'
  BY <1>1, Zenon DEF IInv, TypeInv, world, monitors, maps
<1> QED BY <1>1, <1>2, <1>3, QuietStep, Zenon DEF IInv, world, maps

\* Every step keeps the invariant.
THEOREM Invariance == Spec => []IInv
<1>1. IInv /\ [Next]_vars => IInv'
  <2> SUFFICES ASSUME IInv, [Next]_vars PROVE IInv'
    OBVIOUS
  <2>1. CASE UNCHANGED vars
    BY <2>1, QuietStep, Zenon DEF vars, world, services, monitors, registry, IInv, TypeInv, ReadyInv
  <2>0. CASE Dies
    BY <2>0, DiesKeepsIInv, Zenon
  <2>2. CASE ServiceStep /\ ~Dies
    BY <2>2, ServiceStepKeepsIInv, Zenon
  <2>3. CASE (LoadAdapters \/ LoadDeviceTypes) /\ ~Dies
    BY <2>3, LoadAdaptersKeepsIInv, LoadDeviceTypesKeepsIInv, Zenon
  <2>4. ASSUME NEW x \in Adapters, Register(x) \/ Registration(x), ~Dies PROVE IInv'
    BY <2>4, RegisterKeepsIInv, OtherCoreKeepsIInv, RegisterAdapterKeepsIInv, AddAdapterKeepsIInv,
       AddDeviceTypesKeepsIInv, UpdateKeepsIInv, AdapterRestartedKeepsIInv, Zenon DEF Registration
  <2> QED BY <2>0, <2>1, <2>2, <2>3, <2>4, Zenon DEF Next, Start, ServiceStep
<1> QED BY InitIInv, <1>1, PTL DEF Spec

\* getAdapterName and getDeviceType agree: a device type that has an adapter in the map is
\* a type of the agent of that adapter, for any adapters and device types.
THEOREM TwoMaps == Spec => []MapsAgree
<1>1. IInv => MapsAgree
  BY Zenon DEF IInv
<1> QED BY <1>1, Invariance, PTL

\* An adapter that was told that it is registered is in the KV store with its device types,
\* unless a registration of it was not saved in full (an error ended it, or a write failed, which
\* is only logged).
THEOREM AnswersAreStored == Spec => []RegisteredIsStored
<1>1. IInv => RegisteredIsStored
  BY Zenon DEF IInv
<1> QED BY <1>1, Invariance, PTL

\* A core whose adapter manager has started knows the stored adapters and their device
\* types, whichever core served their registration and however many adapters register at
\* the same time, with the exceptions that KnowsStoredAdapters lists.
THEOREM KnowsAdapters == Spec => []KnowsStoredAdapters
<1>1. IInv => KnowsStoredAdapters
  BY Zenon DEF IInv, TypeInv, LoadInv, Known, KnowsStoredAdapters
<1> QED BY <1>1, Invariance, PTL

\* A core that reports that it is ready has subscribed to its topics, loaded its adapters
\* and listens for the liveness of the bus.
THEOREM ReadyIsStarted == Spec => []ReadyMeansStarted
<1>1. IInv => ReadyMeansStarted
  BY Zenon DEF IInv, ReadyInv, ReadyMeansStarted, Ready, Services
<1> QED BY <1>1, Invariance, PTL
=============================================================================
