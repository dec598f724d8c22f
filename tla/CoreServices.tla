------------------------------ MODULE CoreServices ------------------------------
(***************************************************************************)
(* The services of one core (rw_core/core/core.go) and its adapter manager *)
(* (rw_core/core/adapter_manager.go): Start brings the services up in      *)
(* goroutines of their own, two monitors report the liveness of the KV     *)
(* store and of the message bus to the readiness probe, and adapters       *)
(* register while all this goes on.  The other core of the pair is present *)
(* in what it stores: it may win the competition for a registration.       *)
(***************************************************************************)
EXTENDS Integers, FiniteSets

CONSTANTS
  Adapters,         \* the adapters
  TypesOf,          \* TypesOf[x]: the device types of adapter x
  Sentinel,         \* SentinelAdapterID, and its device type
  MaxRetries,       \* MaxConnectionRetries: -1 for ever
  MaxChecks,        \* MaxChecks[m]: the checks of monitor m under way that are told apart
  MaxDisturbances   \* the registrations, and the times that the KV store or the bus goes down

ASSUME ServicesAssumption ==
  /\ Sentinel \notin Adapters /\ DOMAIN TypesOf = Adapters
  /\ MaxRetries \in Nat \cup {-1}

\* A device type names its adapter (DeviceType.Adapter), and has one.
ASSUME TypesAssumption ==
  \A x \in Adapters : Sentinel \notin TypesOf[x] /\ \A y \in Adapters \ {x} : TypesOf[x] \cap TypesOf[y] = {}

VARIABLES
  kv, bus,      \* the KV store, the message bus: can they be reached
  store,        \* the adapters and the device types in the KV store
  disturbances, \* what the environment did so far
  main,         \* Start: "connecting", "launched", "started"
  tries,        \* the attempts to reach the KV store, while Start makes them
  kafka,        \* startKafkaManager: "off", "starting", "live"
  loading,      \* adapterMgr.start: "off", "adapters", "types", "done"
  probe,        \* the status of each service
  alive,        \* what the two clients last knew of the store and the bus
  watching,     \* the monitors that have enabled their liveness channel
  events,       \* what a liveness channel holds: nothing, or one report
  checks,       \* the checks that a monitor has started: "pending", or what they found
  agents,       \* adapterAgents: the adapters that have an agent
  served,       \* the device types that an agent has
  names,        \* deviceTypeToAdapterMap: the device types that have an adapter
  reg,          \* how far the registration of an adapter is
  restarting,   \* the goroutines of adapterRestarted
  past          \* what happened before (history)

world == <<kv, bus, store, disturbances>>
services == <<main, tries, kafka, loading>>
monitors == <<probe, alive, watching, events, checks>>
maps == <<agents, served, names>>
registry == <<agents, served, names, reg, restarting, past>>
vars == <<world, services, monitors, registry>>

Services == {"message-bus", "kv-store", "device-manager", "logical-device-manager",
             "adapter-manager", "grpc-service"}

Monitors == {"kv", "bus"}
AdapterOf(t) == IF t = Sentinel THEN Sentinel ELSE CHOOSE x \in Adapters : t \in TypesOf[x]

Ready == \A s \in Services : probe[s] = "running"

\* The memory of a core that begins.
Begins ==
  [main |-> "connecting", kafka |-> "off", loading |-> "off",
   probe |-> [s \in Services |-> "unknown"],
   alive |-> [m \in Monitors |-> FALSE],
   events |-> [m \in Monitors |-> {}]]

Stored(X) == [adapters |-> {Sentinel} \cup X,
              types |-> {Sentinel} \cup UNION {TypesOf[x] : x \in X}]

Init ==
  /\ kv \in BOOLEAN /\ bus = TRUE /\ disturbances = 0
  /\ store \in {[adapters |-> {}, types |-> {}]} \cup {Stored(X) : X \in SUBSET Adapters}
  /\ main = Begins.main /\ tries = 0 /\ kafka = Begins.kafka /\ loading = Begins.loading
  /\ probe = Begins.probe /\ alive = Begins.alive /\ events = Begins.events
  /\ watching = {} /\ checks = {}
  /\ agents = {} /\ served = {} /\ names = {}
  /\ reg = [x \in Adapters |-> "idle"]
  /\ restarting = {}
  /\ past = [half |-> {}, missed |-> {}, early |-> {}, ok |-> {}]

\* What the environment may do a bounded number of times.
Disturbs == disturbances < MaxDisturbances /\ disturbances' = disturbances + 1

\* The KV store or the bus goes down, or comes back.
Outage ==
  /\ Disturbs
  /\ \/ kv' = FALSE /\ kv /\ UNCHANGED bus
     \/ bus' = FALSE /\ bus /\ UNCHANGED kv
  /\ UNCHANGED <<store, services, monitors, registry>>

Recovery ==
  /\ \/ kv' = TRUE /\ ~kv /\ UNCHANGED bus
     \/ bus' = TRUE /\ ~bus /\ UNCHANGED kv
  /\ UNCHANGED <<store, disturbances, services, monitors, registry>>

Status(s, to) == probe' = [probe EXCEPT ![s] = to]

\* log.Fatal, or a panic: the process ends and another one begins (external).  What it had in
\* memory is gone, and so are the requests that it had received.
Dies ==
  /\ main' = Begins.main /\ tries' = 0 /\ kafka' = Begins.kafka /\ loading' = Begins.loading
  /\ probe' = Begins.probe /\ alive' = Begins.alive /\ events' = Begins.events
  /\ watching' = {} /\ checks' = {} /\ agents' = {} /\ served' = {} /\ names' = {}
  /\ reg' = [x \in Adapters |-> IF reg[x] \in {"sent", "other"} THEN reg[x] ELSE "idle"]
  /\ restarting' = {}
  /\ past' = [past EXCEPT !.missed = {}, !.early = {}, !.half = @ \cup {x \in Adapters : reg[x] = "typing"}]
  /\ UNCHANGED world

(***************************************************************************)
(* Start.                                                                  *)
(***************************************************************************)
\* Mutant: the message bus is running as soon as its manager is made.
InitKafkaManagerRunning(status) == [status EXCEPT !["message-bus"] = "running"]

\* initKafkaManager makes the proxy of the bus, which is started later.
InitKafkaManager(status) == [status EXCEPT !["message-bus"] = "prepared"]

\* The rest of Start: the proxies and the managers are made, and the goroutines of the
\* services started.  A proxy reserves a key in the store: when this fails Start returns an
\* error, which is fatal.
Launches ==
  /\ main' = "launched" /\ kafka' = "starting" /\ loading' = "adapters"
  /\ probe' = InitKafkaManager([probe EXCEPT !["kv-store"] = "running"])
  /\ tries' = 0
  /\ UNCHANGED <<world, alive, watching, events, checks, registry>>

\* waitUntilKVStoreReachableOrMaxTries, and log.Fatal when it gives up.  The context has no
\* deadline: an attempt waits for the store, and fails only when its connection breaks.
WaitUntilKVStoreReachableOrMaxTries ==
  /\ main = "connecting"
  /\ \/ /\ ~kv /\ (MaxRetries = -1 \/ tries < MaxRetries)
        /\ tries' = IF MaxRetries = -1 THEN tries ELSE tries + 1
        /\ UNCHANGED <<world, main, kafka, loading, monitors, registry>>
     \/ ~kv /\ MaxRetries # -1 /\ tries >= MaxRetries /\ Dies
     \/ kv /\ (Launches \/ Dies)

\* The last statement of Start sets the device ownership, after the goroutines.
SetDeviceOwnership ==
  /\ main = "launched"
  /\ main' = "started"
  /\ UNCHANGED <<world, tries, kafka, loading, monitors, registry>>

StartDeviceManager(status) == [status EXCEPT !["device-manager"] = "running"]
StartLogicalDeviceManager(status) == [status EXCEPT !["logical-device-manager"] = "running"]
StartGRPCService(status) == [status EXCEPT !["grpc-service"] = "running"]

\* Nothing here tells apart the order in which the three report.
StartManagers ==
  /\ main \in {"launched", "started"}
  /\ probe["grpc-service"] = "unknown"
  /\ probe' = StartDeviceManager(StartLogicalDeviceManager(StartGRPCService(probe)))
  /\ UNCHANGED <<world, services, alive, watching, events, checks, registry>>

\* A liveness channel is enabled: it starts with what the client last knew.
EnableLivenessChannel(m) ==
  /\ watching' = watching \cup {m}
  /\ events' = [events EXCEPT ![m] = {alive[m]}]

\* registerAdapterRequestHandlers: from here on the core receives requests.
RegisterAdapterRequestHandlers == kafka' = "live"

\* startKafkaManager, up to its loop: the request handlers can be registered only once the
\* proxy of the bus has started; a subscription that fails, the bus having gone away since, is
\* fatal.
StartKafkaManager ==
  /\ kafka = "starting"
  /\ \/ /\ \/ bus /\ RegisterAdapterRequestHandlers /\ EnableLivenessChannel("bus") /\ UNCHANGED probe
           \/ ~bus /\ Status("message-bus", "notready") /\ UNCHANGED <<kafka, watching, events>>
        /\ UNCHANGED <<world, main, tries, loading, alive, checks, registry>>
     \/ ~bus /\ Dies

(***************************************************************************)
(* The monitors: monitorKvstoreLiveness, and the loop of startKafkaManager.*)
(***************************************************************************)
ServiceOf(m) == IF m = "kv" THEN "kv-store" ELSE "message-bus"
Up(m) == IF m = "kv" THEN kv ELSE bus

\* updateLiveness of the two clients: a change is reported, and so is what has
\* not been reported for an interval; a full channel makes the caller wait.
UpdateLiveness(m, live) ==
  /\ alive' = [alive EXCEPT ![m] = live]
  /\ \/ m \notin watching /\ UNCHANGED events
     \/ m \in watching /\ live = alive[m] /\ UNCHANGED events
     \/ m \in watching /\ events[m] = {} /\ events' = [events EXCEPT ![m] = {live}]

\* An operation on the store, a message on the bus, tells its client how it went (external).
Used(m) ==
  /\ main # "connecting" /\ (m = "bus" => kafka = "live")
  /\ Up(m) # alive[m] /\ UpdateLiveness(m, Up(m))
  /\ UNCHANGED <<world, services, probe, watching, checks, registry>>

\* monitorKvstoreLiveness, up to its loop.
MonitorKvstoreLiveness ==
  /\ main # "connecting" /\ "kv" \notin watching
  /\ EnableLivenessChannel("kv")
  /\ UNCHANGED <<world, services, probe, alive, checks, registry>>

\* Mutant: the report that a service is back leaves its status.
LivenessEventSticky(m) ==
  /\ \E live \in events[m] :
        Status(ServiceOf(m), IF live /\ probe[ServiceOf(m)] # "notready" THEN "running" ELSE "notready")
  /\ events' = [events EXCEPT ![m] = {}]
  /\ UNCHANGED <<world, services, alive, watching, checks, registry>>

\* The loop of a monitor receives a report.
LivenessEvent(m) ==
  /\ \E live \in events[m] : Status(ServiceOf(m), IF live THEN "running" ELSE "notready")
  /\ events' = [events EXCEPT ![m] = {}]
  /\ UNCHANGED <<world, services, alive, watching, checks, registry>>

\* A check of the bus finds out at once.  One of the KV store waits for its answer: the context
\* has no deadline, so that it waits while the store is away, and others are started meanwhile.
Begun(m) == <<m, IF m = "kv" THEN "pending" ELSE IF bus THEN "up" ELSE "down">>

MayCheck(m) ==
  /\ m \in watching /\ events[m] = {}
  /\ Cardinality({c \in checks : c[1] = m}) < MaxChecks[m]

\* Mutant: a monitor checks only what it knows to be down.
LivenessTimeoutWhenDown(m) ==
  /\ MayCheck(m)
  /\ checks' = IF probe[ServiceOf(m)] = "notready" THEN checks \cup {Begun(m)} ELSE checks
  /\ UNCHANGED <<world, services, probe, alive, watching, events, registry>>

\* No report came in time: the monitor starts a check in a goroutine of its own.
LivenessTimeout(m) ==
  /\ MayCheck(m)
  /\ checks' = checks \cup {Begun(m)}
  /\ UNCHANGED <<world, services, probe, alive, watching, events, registry>>

\* PerformLivenessCheck: the call of IsConnectionUp ends, with the answer of the store, which is
\* reported, or because its connection breaks.
PerformLivenessCheck ==
  /\ <<"kv", "pending">> \in checks
  /\ \/ /\ kv
        /\ checks' = checks \ {<<"kv", "pending">>}
        /\ UpdateLiveness("kv", TRUE)
     \/ /\ ~kv
        /\ checks' = (checks \ {<<"kv", "pending">>}) \cup {<<"kv", "down">>}
        /\ UNCHANGED <<alive, events>>
  /\ UNCHANGED <<world, services, probe, watching, registry>>

\* PerformLivenessCheck that failed, and SendLiveness, report what they found, which may no
\* longer be so.
LivenessCheck(m) ==
  /\ \E found \in {"up", "down"} :
        /\ <<m, found>> \in checks /\ checks' = checks \ {<<m, found>>}
        /\ UpdateLiveness(m, found = "up")
  /\ UNCHANGED <<world, services, probe, watching, registry>>

(***************************************************************************)
(* The adapter manager.                                                    *)
(***************************************************************************)
\* addAdapter in memory, and addDeviceTypes in memory: a type whose adapter has no agent
\* makes one.
WithAdapters(X) == agents' = agents \cup X /\ UNCHANGED <<served, names>>

\* Mutant: the agent that a device type makes does not get the type.
WithTypesBare(T) ==
  /\ agents' = agents \cup {AdapterOf(t) : t \in T}
  /\ served' = served \cup {t \in T : AdapterOf(t) \in agents}
  /\ names' = names \cup T

WithTypes(T) ==
  /\ agents' = agents \cup {AdapterOf(t) : t \in T}
  /\ served' = served \cup T
  /\ names' = names \cup T

\* The adapters that the other core has saved and whose device types it has not: an agent
\* made of one of these does not get the types later.
HalfSaved == {x \in Adapters \cap store.adapters : reg[x] = "other"}

\* start of the adapter manager, once it has loaded what is stored: the callbacks, the status.
Loads == loading' = "done" /\ Status("adapter-manager", "running")

\* loadAdaptersAndDevicetypesInMemory: the adapters.  Without any, the sentinel is stored and
\* the device types are not looked at.  An error is fatal (startAdapterManager), but that the
\* sentinel could not be written is only logged.
LoadAdapters ==
  /\ loading = "adapters"
  /\ \/ ~kv /\ Dies
     \/ /\ \/ /\ kv /\ store.adapters # {}
              /\ WithAdapters(store.adapters)
              /\ loading' = "types"
              /\ past' = [past EXCEPT !.early = @ \cup HalfSaved]
              /\ UNCHANGED <<store, probe>>
           \/ /\ store.adapters = {}
              /\ WithAdapters({Sentinel})
              /\ store' = [store EXCEPT !.adapters = IF kv THEN {Sentinel} ELSE @]
              /\ Loads
              /\ UNCHANGED past
        /\ UNCHANGED <<kv, bus, disturbances, main, tries, kafka, alive, watching, events, checks,
                       reg, restarting>>

\* The device types, or a sentinel.
LoadDeviceTypes ==
  /\ loading = "types"
  /\ \/ ~kv /\ Dies
     \/ /\ \/ kv /\ store.types # {} /\ WithTypes(store.types) /\ UNCHANGED store
           \/ /\ store.types = {}
              /\ WithTypes({Sentinel})
              /\ store' = [store EXCEPT !.types = IF kv THEN {Sentinel} ELSE @]
        /\ Loads
        /\ UNCHANGED <<kv, bus, disturbances, main, tries, kafka, alive, watching, events, checks,
                       reg, restarting, past>>

At(x, from, to) == reg[x] = from /\ reg' = [reg EXCEPT ![x] = to]

\* An adapter starts, or starts again, and broadcasts its registration (external).
Register(x) ==
  /\ Disturbs
  /\ At(x, "idle", "sent")
  /\ UNCHANGED <<kv, bus, store, services, monitors, maps, restarting, past>>

\* The other core acquires the transaction and answers: this core, if it has subscribed, is
\* told that it did not acquire it.  One that has not, and has read the adapters, misses it.
OtherCoreDone(x, from, failed) ==
  /\ At(x, from, IF kafka = "live" THEN "lost" ELSE "idle")
  /\ past' = [past EXCEPT !.missed = IF kafka # "live" /\ loading \in {"types", "done"} THEN @ \cup {x} ELSE @,
                          !.half = IF failed THEN @ \cup {x} ELSE @]

\* The other core takes an adapter in its memory, saved or not, to have restarted.
OtherCoreKnowsAdapter(x) ==
  /\ x \in store.adapters \cup past.half
  /\ OtherCoreDone(x, "sent", FALSE)
  /\ UNCHANGED <<world, services, monitors, maps, restarting>>

\* The adapter is stored, or an error ends the registration, or the write fails, which is
\* only logged (the revision's store): the registration goes on.
OtherCoreAddsAdapter(x) ==
  /\ x \notin store.adapters
  /\ \/ /\ kv /\ At(x, "sent", "other")
        /\ store' = [store EXCEPT !.adapters = @ \cup {x}]
        /\ UNCHANGED past
     \/ ~kv /\ OtherCoreDone(x, "sent", TRUE) /\ UNCHANGED store
     \/ /\ ~kv /\ At(x, "sent", "other")
        /\ past' = [past EXCEPT !.half = @ \cup {x}]
        /\ UNCHANGED store
  /\ UNCHANGED <<kv, bus, disturbances, services, monitors, maps, restarting>>

\* The device types are saved one by one: while the store is away some are not.
SaveTypes(x) ==
  \E saved \in SUBSET TypesOf[x] :
     /\ saved = TypesOf[x] <=> kv
     /\ store' = [store EXCEPT !.types = @ \cup saved]

OtherCoreAddsDeviceTypes(x) ==
  /\ OtherCoreDone(x, "other", ~kv)
  /\ SaveTypes(x)
  /\ UNCHANGED <<kv, bus, disturbances, services, monitors, maps, restarting>>

\* This core acquires the transaction, also when the watch runs out because the store cannot
\* be reached: registerAdapter.  A known adapter has restarted.
RegisterAdapter(x) ==
  /\ kafka = "live"
  /\ \/ /\ x \in agents
        /\ At(x, "sent", "idle")
        /\ restarting' = restarting \cup {x}
        /\ past' = [past EXCEPT !.ok = @ \cup {x}]
     \/ /\ x \notin agents
        /\ At(x, "sent", "adding")
        /\ UNCHANGED <<restarting, past>>
  /\ UNCHANGED <<world, services, monitors, maps>>

\* addAdapter with saveToDb: the agent comes first; an error of Get or of the reservation ends
\* the registration, a write that fails is only logged.
AddAdapter(x) ==
  /\ WithAdapters({x})
  /\ \/ /\ x \in agents \/ kv
        /\ At(x, "adding", "typing")
        /\ store' = [store EXCEPT !.adapters = IF x \in agents THEN @ ELSE @ \cup {x}]
        /\ UNCHANGED past
     \/ /\ x \notin agents /\ ~kv
        /\ At(x, "adding", "idle") \/ At(x, "adding", "typing")
        /\ past' = [past EXCEPT !.half = @ \cup {x}]
        /\ UNCHANGED store
  /\ UNCHANGED <<kv, bus, disturbances, services, monitors, restarting>>

\* Mutant: the device types are put in the maps and not saved.
AddDeviceTypesUnsaved(x) ==
  /\ WithTypes(TypesOf[x])
  /\ At(x, "typing", "idle")
  /\ past' = [past EXCEPT !.ok = @ \cup {x}]
  /\ UNCHANGED <<world, services, monitors, restarting>>

\* addDeviceTypes with saveToDb: the maps come first, then the types are saved.  When one is
\* not, an error tells the adapter (Get, the reservation), or nothing does (the write).
AddDeviceTypes(x) ==
  /\ WithTypes(TypesOf[x])
  /\ At(x, "typing", "idle")
  /\ SaveTypes(x)
  /\ \/ kv /\ past' = [past EXCEPT !.ok = @ \cup {x}]
     \/ ~kv /\ \E told \in {{}, {x}} : past' = [past EXCEPT !.half = @ \cup {x}, !.ok = @ \cup told]
  /\ UNCHANGED <<kv, bus, disturbances, services, monitors, restarting>>

\* Mutant: only the adapters are read again.
UpdateAdaptersInMemoryOnly(x) ==
  /\ At(x, "lost", "idle")
  /\ \/ x \in agents /\ restarting' = restarting \cup {x} /\ UNCHANGED <<maps, past>>
     \/ x \notin agents /\ kv /\ WithAdapters(store.adapters) /\ UNCHANGED <<restarting, past>>
     \/ x \notin agents /\ ~kv /\ past' = [past EXCEPT !.missed = @ \cup {x}] /\ UNCHANGED <<maps, restarting>>
  /\ UNCHANGED <<world, services, monitors>>

\* updateAdaptersAndDevicetypesInMemory, after the other core registered the adapter.  When
\* only the adapters can be read, those that get an agent now get no device types later.
UpdateAdaptersAndDevicetypesInMemory(x) ==
  /\ At(x, "lost", "idle")
  /\ \/ /\ x \in agents
        /\ restarting' = restarting \cup {x}
        /\ UNCHANGED <<maps, past>>
     \/ /\ x \notin agents /\ kv
        /\ agents' = agents \cup store.adapters \cup {AdapterOf(t) : t \in store.types}
        /\ served' = served \cup store.types
        /\ names' = names \cup store.types
        /\ past' = [past EXCEPT !.early = @ \cup HalfSaved]
        /\ UNCHANGED restarting
     \/ /\ x \notin agents /\ ~kv
        /\ \E read \in {{}, store.adapters} :
              /\ WithAdapters(read)
              /\ past' = [past EXCEPT !.missed = @ \cup {x} \cup (read \cap Adapters),
                                      !.early = @ \cup (read \cap HalfSaved)]
        /\ UNCHANGED restarting
  /\ UNCHANGED <<world, services, monitors>>

\* adapterRestarted asks the device ownership which devices to reconcile: it is set last.
AdapterRestarted(x) ==
  /\ x \in restarting
  /\ \/ main = "started" /\ restarting' = restarting \ {x} /\ UNCHANGED <<world, services, monitors, maps, reg, past>>
     \/ main # "started" /\ Dies

Monitor(m) == LivenessEvent(m) \/ LivenessTimeout(m) \/ LivenessCheck(m) \/ (m = "kv" /\ PerformLivenessCheck)

Registration(x) ==
  \/ OtherCoreKnowsAdapter(x) \/ OtherCoreAddsAdapter(x) \/ OtherCoreAddsDeviceTypes(x)
  \/ RegisterAdapter(x) \/ AddAdapter(x) \/ AddDeviceTypes(x)
  \/ UpdateAdaptersAndDevicetypesInMemory(x) \/ AdapterRestarted(x)

Start ==
  \/ WaitUntilKVStoreReachableOrMaxTries \/ SetDeviceOwnership \/ StartKafkaManager
  \/ LoadAdapters \/ LoadDeviceTypes

Next ==
  \/ Outage \/ Recovery \/ Start \/ StartManagers \/ MonitorKvstoreLiveness
  \/ \E m \in Monitors : Used(m) \/ Monitor(m)
  \/ \E x \in Adapters : Register(x) \/ Registration(x)

Spec == Init /\ [][Next]_vars

\* Goroutines run, timers of the monitors fire, a call to the store ends while it answers.
Starts ==
  \/ SetDeviceOwnership \/ StartKafkaManager
  \/ kv /\ (WaitUntilKVStoreReachableOrMaxTries \/ LoadAdapters \/ LoadDeviceTypes)

Fairness ==
  /\ WF_vars(Starts)
  /\ WF_vars(StartManagers) /\ WF_vars(MonitorKvstoreLiveness) /\ WF_vars(kv /\ PerformLivenessCheck)
  /\ \A m \in Monitors :
        /\ WF_vars(LivenessEvent(m)) /\ WF_vars(LivenessTimeout(m)) /\ WF_vars(LivenessCheck(m))

FairSpec == Spec /\ Fairness

(***************************************************************************)
(* Properties.                                                             *)
(***************************************************************************)
\* getAdapterName and getDeviceType agree: a device type that has an adapter is a type of
\* the agent of that adapter, however the load at start, the registrations that this core
\* serves and those that the other core serves are interleaved.
MapsAgree == \A t \in names : AdapterOf(t) \in agents /\ t \in served

\* An adapter that this core told it is registered is in the KV store with its device types,
\* unless a registration of it was not saved in full: registerAdapter keeps the agent of one
\* that ended in an error, and takes the next for a restart; and of a write that fails after its
\* reservation the store of the revision only logs the error, so that the adapter is told that
\* all went well.
RegisteredIsStored ==
  \A x \in past.ok \ past.half : x \in store.adapters /\ TypesOf[x] \subseteq store.types

\* A core whose adapter manager has started knows the adapters in the KV store and their
\* device types once it has dealt with their registrations, whichever core served them.  The
\* exceptions: the registration came before this core had subscribed, or the store could not
\* be read (missed); it was not saved in full (half); the other core was between the adapter and its
\* device types while this one read the adapters, at its start or for the registration of
\* another adapter (early: the agent is found and the device types are not read again).
KnowsStoredAdapters ==
  loading = "done" =>
    \A x \in store.adapters \ ({Sentinel} \cup past.half \cup past.missed \cup past.early) :
       reg[x] = "idle" => x \in agents /\ TypesOf[x] \subseteq names

\* A core that reports that it is ready has subscribed to its topics, loaded its adapters
\* and listens for the liveness of the bus.
ReadyMeansStarted == Ready => kafka = "live" /\ loading = "done" /\ "bus" \in watching

\* A core that stays up while the KV store and the bus can be reached ends up ready, after any
\* outage: the monitors check by themselves.
ReadinessReturns == <>[](main = "started" /\ kv /\ bus) => <>[]Ready

\* When the bus stays away the core ends up not ready, even if it sends nothing: the checks on
\* a timeout find out.  This is not so of the KV store: monitorKvstoreLiveness starts its checks
\* with a context that has no deadline, so that they wait until the store is back.
OutageReported == <>[](main = "started" /\ ~bus) => <>[](probe["message-bus"] # "running")
=============================================================================
