# Verification of the VOLTHA read-write core

TLA+ models of `rw_core`, the process that manages access devices (OLTs and ONUs)
for VOLTHA: TLC runs on small instances, and TLAPS proofs for every value of the
constants. `PROJECT.json` lists the components, the runs, the source lines behind
every definition, the findings, the hazards and the theorems.

## The system

Two cores form a pair. Both receive every northbound (gRPC) request and every
request of the adapters (Kafka); they share one KV store (etcd).

| Part | Source | State it keeps | Model |
|---|---|---|---|
| Device state machine | `device_state_transitions.go` | the ordered table of transitions | `DeviceTransitions`, `DeviceRecord` |
| Device agent | `device_agent.go` | one device: its states, ports, peers, images, flows | `DeviceRecord`, `DeviceLifecycle`, `LogicalPorts`, `LogicalFlows`, `Requests` |
| Device manager | `device_manager.go` | the map of agents | `DeviceLifecycle`, `DeviceLife`, `LogicalPorts`, `Requests` |
| Logical device manager, agent | `logical_device_manager.go`, `logical_device_agent.go` | the logical device: ports, flows, meters, groups, routes | `DeviceLifecycle` (its life), `LogicalPorts`, `LogicalFlows` |
| Device ownership | `device_ownership.go` | which core owns a device | `DeviceOwnership` |
| Request transactions | `transaction.go` | which core serves a request | `KVTransaction` |
| Northbound API | `grpc_nbi_api_handler.go` | streams of packets and change events | `NorthboundRequests`, `Requests` (no streams) |
| Adapter requests | `adapter_request_handler.go` | none | `AdapterRequests`, `Requests` |
| Adapter proxy | `adapter_proxy.go` | none | `AdapterProxy`, `Requests`, `LogicalFlows` |
| Adapter manager | `adapter_manager.go` | adapters and device types | `CoreServices` |
| Core, liveness monitors | `core.go`, `main.go` | probe status | `CoreServices` |
| Device routes | `route/device_route.go` | routes between logical ports | `DeviceRoutes` |
| Flow decomposition | `flowdecomposition/flow_decomposer.go` | none | `FlowDecomposer` |
| Responses | `utils/core_utils.go` | one response | `LogicalFlows` (`Respond`, `Collect`, `Timeout`) |
| Data model | `db/model/*.go` | revisions, proxies, callbacks | not modelled; its callbacks are the goroutines of `DeviceLifecycle` and `LogicalPorts` |
| Identifiers, configuration, mocks | `id.go`, `config.go`, `mocks/` | none | not modelled: no state to check |

A request goes to the transaction (which core serves it), then to the device
manager, which finds or loads the device's agent. The agent changes its device
under its lock and stores it. The data model calls back `processUpdate`, which, in
a goroutine of its own, lets the state machine select handlers of the device
manager and runs them one after the other. The handlers create the logical device,
walk over the children and clean up deleted devices. Most of what is hard to test
lies in these goroutines, and in the leases behind ownership and transactions.

## Modules

**DeviceTransitions** has the table of `NewTransitionMap` entry by entry, the
matching of one entry (`getHandler`) and the ordered scan (`GetTransitionHandler`).
`Handlers` states what the scan is meant to select without the table's order. The
composed model uses `Handlers`, and the run `record` shows that the scan returns it.

**DeviceRecord** is one agent's device over the operations that change its admin,
operational or connection state, image downloads included. Each operation holds
the agent's lock, so it is one step. `images` abstracts the list of images to
what tells the code's paths apart.

**DeviceLifecycle** is a root, its children and their logical device in one core.
The actions are the requests of the northbound API and of the adapters, loading,
restarts of the core, and one step of a goroutine for every agent that a handler
touches. `task` holds the goroutines. Each carries the snapshot of the device
that its transition announced (`peers`, `ld`), as the code's handlers do.
`agents` says what a device's agent in the map is: put there and not started
(`"new"`), left there by a start that failed before or after it stored the record
(`"failed"`, `"deaf"`: no callback is registered), serving (`"ready"`), or stopped
and not yet taken out (`"stopped"`). A start, and a stop, is therefore two steps, with
everything else in between. A second stop of a stopped agent sends on an
`exitChannel` that is full and that nobody reads: the goroutine is at `"Blocked"`
for good, with the agent's lock (`Locked`). `CallsMayFail` lets every call of an
adapter, and the store or removal of a record, fail. An image report
(`UpdateImageDownload`) sets ENABLED whatever the state; `revived` keeps the devices
that it took out of DELETED.

**DeviceLife** is what the core promises of a device: provisioned once, deleted
once, removed only when deleted, and out of DELETED by nothing but an image report
(`Revive`). `DeviceLifecycle` implements it through
`admin <- [d \in Devices |-> store[d].admin]`.

**DeviceOwnership** is one device, the KV key that names its owner, and the cores
that reserve it. `OwnedByMe` is two steps (`FindKey` reads the device without the
lock, `OwnedByMe` reserves), the monitor goroutine renews or tries to reserve once
a period. A lease is an integer time to live that `Tick` lowers. A reservation by a
restarted core registers a lease that the key is not attached to (`attached`).

**KVTransaction** is one request received by the cores: reserve, or watch the key
until the transaction completes, its owner crashes or the watch times out; the
holder renews its lease until `Close`. With `MayLapse` the context of the request may
have ended by then: the Put at `transaction.go:323` is refused, and the key is left to
expire (`lapsed`). `events` is each watch's queue. `Duration`,
`TTL` and `RenewInterval` are computed from `RequestTimeout` as in the code,
integer divisions included.

**DeviceRoutes** has the routes as pure operators: `ComputeRoutes` for all logical
ports, `AddPort` for one more, the copies for a further NNI port, `IsUpToDate`, and
the lookups of `GetRoute`. **FlowDecomposer** turns one flow of the logical device
into rules of the devices on its route, one operator per function of the source. A
flow is a record of the fields that the code's branches look at.

**LogicalPorts** is one logical device with the ports of its devices. `tasks` is the
bag of goroutines. Adding a port is three steps, as in the code: look whether it
exists (and ask the adapter for its capability), look again and store it under the
lock, enter it in the map of port numbers. `dr` holds the routes, computed with
`DeviceRoutes`. `told` is what the controller was last told of each port. A device is
enabled (`starting`) before it becomes active (`ready`): the table of transitions has
a handler for ACTIVATING to ACTIVE, and none for a device that was unreachable, say,
and comes back. `PortExist` compares port numbers. The code compares the device's id
and port number for an NNI port, and the port's label for a UNI port; the labels of
different ports differ.

**LogicalFlows** is the flow, group and meter tables of a logical device. An
operation is a plan of stages, store the tables or call the devices' agents in
goroutines, under the logical device's lock. `calls` holds the calls, those that a
timeout left behind as well; `rec` is the rules in the devices' records and `hw`
what the adapters were told, all at once or as changes. The rules of a flow are
those of `FlowDecomposer` over routes of `DeviceRoutes`.

**AdapterRequests**, **NorthboundRequests** and **AdapterProxy** are catalogues: one
definition per handler. A handler of a request is abstracted to the id it competes
for, how it runs (waits for its operation, leaves it to a goroutine, or replies
first) and the operation of the device agent that it calls; a function of the proxy
to what the adapter makes of the device. Decoding of arguments and building of
messages, most of the lines of these handlers, is left out: a handler that cannot
decode its arguments answers without any effect.

**Requests** composes them. Both cores receive each request and compete for it; the
one that gets the transaction runs the operation of its agent, a sequence of steps
that store the record and call the adapter, and answers; the other watches and may
take over. Transaction and ownership are taken at the level of what `KVTransaction`
and `DeviceOwnership` establish; the completion is written only while the request's
context lasts. Each core has its own copy of the record (`mem`). Storing a new device
and removing a record may fail. What an agent that failed to start leaves in the map
is in `DeviceLifecycle`.

**CoreServices** is the start of one core with its goroutines, the two liveness
monitors, and the adapter manager with its maps, while adapters register with this
core or with the other. A fatal error (`Dies`) ends the process and begins the next
one in the same step; what is in the KV store, and what the adapters wait for, stays.
While the KV store is down a call of it fails, or does not return: the contexts have no
deadline, and the client waits for the connection. So the check of the KV store
(`PerformLivenessCheck`) may stay pending through an outage, and its answer be stale
when it is reported. Its positive answer is reported in the step that finds it. A
write may also fail after the path was reserved, which the revision only logs
(`persisted_revision.go:113`): the adapter is told that all went well.

Each component with theorems has a module `...Proofs` that extends it: `DeviceRecord`,
`DeviceLifecycle`, `DeviceOwnership`, `KVTransaction`, `LogicalPorts`, `LogicalFlows`,
`Requests` and `CoreServices`. The `MC` modules hold the symmetry set and the small
sets of ports, flows, requests and device types for TLC. Operators marked "Mutant" are
plausible bugs; the properties are shown to catch them.

Some helpers that the community modules have are defined here in a form about which
the provers can reason: `Only` (in `DeviceRoutes`) for `SelectSeq`, which is recursive,
`Listing` for a set as a sequence, and the bag of goroutines of `LogicalPorts` as a
function from goroutines to their number.

## Runs

Passing runs:

| Run | Instance | Shows |
|---|---|---|
| `record` | one device, every reported state | the scan selects what changed calls for; covered deletions end with the removal of the agent, after the handlers that need it |
| `lifecycle` | 1 child, 2 goroutines, failing calls, restarts, image reports on the child | type correctness; one cleanup per device, which never blocks; an agent without a record is starting, failed, or about to go; the logical device's agent is served; `DeviceLife` is implemented |
| `lifecycle_liveness` | 1 child, 2 goroutines, image reports on the root | handlers end, none of them blocked; a deleted child of a root that stays is removed |
| `ownership` | 2 cores, which stop and come back once their lease has expired | one owner; its lease never runs out; a core that is left takes over |
| `transaction` | 2 cores, crashes, contexts that end early | one core serves; it holds the key; the request is served; the key is freed |
| `ports` | 2 NNI ports, 1 child with 1 UNI port, logical devices loaded with the NNI port only or with both, 4 requests, failing calls, a restart | no port is added twice; the controller is told what is stored; routes follow the wires, and are those of the ports when they count as up to date; the map of numbers and the UNI ports settle |
| `flows` | 6 flows (trap, up, up with a meter, the two tables down, multicast with a meter), 1 meter, 1 group, 3 operations, 1 failure, any timeout | devices have the rules of the flows and no others; adapters have what the records say; meters and their counts; the rules of the two devices join to a path; operations end |
| `requests` | every request alone, enable and delete against disable, delete against a status report, 2 cores, 1 fault | one core serves; store and adapter agree; done means done; every request is answered |
| `services` | 1 adapter with 1 device type, 1 retry, 2 disturbances | the maps agree with each other and with the store; a ready core has started; readiness returns after any outage, and an outage of the bus is reported |

Runs that show a disagreement between the code and what it says of itself (the
quoted line is in `PROJECT.json` under `findings`):

| Run | What happens |
|---|---|
| `lifecycle_references` | a child created around the root's deletion outlives the root that its ParentId names |
| `ownership_restart` | a core that restarts early renews a lease the key is not attached to; two owners |
| `requests_delete` | a device is enabled; the call by which a core asks the adapter to delete it times out, and the core answers with the error; the other core, which does not own the device, removes the record from the store |

`NoReferenceLeft` fails in two more ways: a starting agent stores the logical device
after the root's cleanup (`logical_device_agent.go:118`), and a late port puts a
removed child back among the peers (`device_manager.go:719`). TLC stops at the
shortest one.

### Known departures

The code leaves some states inconsistent on paths its authors accept or overlooked.
The properties say what holds apart from them. The modules record a departure in a
history variable when it happens, so that nothing else is excused: `revived` in
`DeviceLifecycle`, `lapsed` in `KVTransaction`, `missed` and `disturbed` in
`LogicalPorts`, `exempt` in `LogicalFlows`, `past` in `Requests` and `CoreServices`.

*Deletion*:

- a root deleted while ENABLED selects no handler and stays DELETED;
- an image report takes a device from DELETED to ENABLED (`revived`). It can then be
  deleted, and cleaned up, a second time, beside the first: the two meet on the agent,
  and one blocks on its `exitChannel`;
- an agent whose start failed stays in the map, with an id that nobody was told
  (`device_manager.go:177`, `device_manager.go:1009`);
- a child that is DELETED but still a peer makes `DisableAllChildDevices` fail, and
  the root stays DELETED;
- a call of `OwnedByMe` that overlaps `AbandonDevice` monitors the removed device.

*Transactions*: a core whose renewals are late (`MayStall = TRUE`) goes on serving
without the transaction. A core whose context has ended when it closes the transaction
cannot write the completion (`lapsed`): the key expires, the watcher takes that for a
crash and serves the request again. The comment at `transaction.go:198` counts a timed
out request among the successes.

*Ports*: a child that goes from ENABLED and unreachable, say, back to ACTIVE selects no
handler, so a UNI port reported in between gets no logical port (`disturbed`).

*Flows* (`exempt` in `LogicalFlows`): `flowDelete`, and `groupDelete` for the flows that
it removes, do not lower the flow count of a meter; an update that changes a flow's meter lowers the count of a meter that
never counted it, below zero; `meterDelete` and `groupDelete` leave the rules on the
devices; `groupModify` replaces the flows of the root by none; a deletion that fails
half way leaves flows without rules; an incremental update is told to add and to
remove the opposite of what changed; a call left behind by a timeout runs later,
against tables that have changed.

*Requests* (`past.torn`, `past.loose` in `Requests`): the adapter fails, or the core
crashes, after the record was stored; an operation starts from the copy of a core
that has not seen the other core's update; two cores work on one request after a
context ended before the transaction was closed, or when ownership moves while a
core watches; `updateImageDownload` and `cancelImageDownload` set ENABLED without
asking the adapter; the core that did not serve a deletion removes the record. A
send on a channel that its handler has closed ends the core (`Panic`): `sendResponse`
looks at the context, but the context may end between the look and the send.

*Services* (`past.half`, `past.missed`, `past.early` in `CoreServices`): a registration
that fails between the adapter and its device types leaves the agent, and the next
one is taken for a restart; a write that fails after its reservation is only logged;
a registration that comes before the core has subscribed, or while the store cannot be
read, is missed;
one that the other core serves while this core loads its adapters is taken for
complete. An adapter that restarts before `deviceOwnership` is set ends the core. An
outage of the KV store need not be reported: the comment at `core.go:431` says that the
monitor finds it out by a check of its own, but the check has no deadline
(`core.go:485`) and waits for the store. `OutageReported` is therefore about the bus,
whose producer reports the failure to send.

### Bounds

- `Routines` bounds the goroutines alive at once. Two let a root's cleanup overlap a
  child's, two cleanups of one device meet, and each overlap a creation or a loop over
  the children; requests and reports are steps of their own beside them. The invariants
  and the refinement are proved for any number. `ImageReports` names the devices with
  image reports.
- A device id is used once, as in the code, where ids are random: `Children`
  bounds how many children are ever created. One is enough for every step to
  happen; the invariants and the refinement are proved for any number.
- `OperReports = {"ACTIVE"}`: the only report that selects a handler which changes
  the modelled state.
- Ownership: `TTL = 10`, `Period = 3`, the code's defaults in seconds.
- Transactions: `RequestTimeout = 5200` ms is rounded up to a duration of 6 s, above the
  minimum of 5 s that hides the rounding of shorter timeouts; the lease is 12 s, renewed
  every 6 s. `Skew` bounds how much
  later the second core receives the request. With `Skew` as long as the duration both cores serve it, which the
  comment at `transaction.go:302` admits.

- Ports: two NNI ports make the copy of routes happen, and one UNI port is enough
  for a route in each direction. `MaxTasks` limits the goroutines alive when another
  request is taken, not those that a request starts. The invariants also hold with
  five requests (4.3 million states) and with `MaxTasks = 3` (7.8 million), which take
  too long to be run every time.
- Flows: `CountRange = 3` stands for the 2^32 values of a flow count, so that it
  wraps. Three operations let a flow be added, changed and deleted, or a failed
  deletion be repeated; the timeouts are not counted as faults. Meter 0 stands for a
  flow without a meter, so that it is no member of `Meters`.
- Requests: a pair of cores. A request alone meets each single fault; the pairs are
  those where the operations on one device exclude each other.
- Services: `MaxDisturbances` counts registrations and outages together. Two let an
  adapter register during an outage, or register again. `MaxChecks` bounds the checks of
  a monitor that are under way and differ, two for the KV store: one that is pending and
  one that found it down. `MaxRetries = -1`, the code's default, retries for ever; one
  retry lets the core die as well.

### Fairness

- `DeviceLifecycle`: each goroutine's step is strongly fair. Go schedules every
  goroutine, and a `go` statement never blocks; the bound `Routines` makes it wait
  for a free member here, which strong instead of weak fairness makes up for.
  Loading is weakly fair: the handler that needs a device loads it itself.
- `DeviceOwnership`: time passes, monitors run when their ticker fires and calls of
  `OwnedByMe` end; all weakly fair.
- `KVTransaction`: time passes, watches deliver, holders renew and requests end;
  all weakly fair. A request ends because each call the handler makes has a
  timeout.

- `LogicalFlows`: the goroutine of the operation, the store and the timer; nothing
  is asked of the devices' agents or of the adapters, so operations end without them.
- `Requests`: while some goroutine, or an adapter with a call, can take a step, one
  does. That is weaker than fairness of each.
- `CoreServices`: the goroutines of the start and of the monitors and their timers,
  weakly fair; a call of the KV store ends only while the store answers. The services themselves and the adapters are not fair: the liveness
  properties say what follows if a service stays up, or stays down.
- `LogicalPorts` has no liveness property; `UNIPortsSettle` is about the states in
  which all goroutines have ended.

`MayStall = FALSE` means that a timer's step is taken before time moves on;
`MayStall = TRUE` lets it be late by any amount.

## Proofs

Every theorem is about every value of the constants that satisfies the `ASSUME`s of
its module; the column on the right has what is assumed beyond that.

| Module | Theorem | Statement | Assumed |
|---|---|---|---|
| `DeviceRecordProofs` | `ScanIsHandlers` | `GetTransitionHandler(...) = Handlers(...)` for all device states | |
| | `ScanSelects` | `Spec => []ScanSelectsHandlers` | |
| | `CleanupOrder` | `Spec => []CleanupFollowsUnlinking` | |
| `DeviceLifecycleProofs` | `TypeCorrect` | `Spec => []TypeOK` | |
| | `OneCleanup` | `Spec => []CleanupOwnsDevice` | |
| | `AgentsRecorded` | `Spec => []AgentsHaveRecords` | |
| | `LogicalAgentServed` | `Spec => []LogicalAgentIsServed` | |
| | `Refinement` | `Spec => LifeSpec` | |
| `DeviceOwnershipProofs` | `Exclusive` | `Spec => []AtMostOneOwner` | `~MayStall`, `~MayRestart` |
| | `OwnerRenewsInTime` | `Spec => []OwnerHoldsReservation` | `~MayStall`, `~MayRestart` |
| `KVTransactionProofs` | `TypeCorrect` | `Spec => []TypeOK` | |
| | `Holds` | `Spec => []HoldsTransaction` | `~MayStall`, `Pair` |
| | `ServedByOne` | `Spec => []OneServer` | `~MayStall`, `Pair`, `Skew < Duration` |
| `LogicalPortsProofs` | `PortsUnique` | `Spec => []NoDuplicatePort` | |
| | `ControllerTold` | `Spec => []Announced` | |
| | `MapComplete` | `Spec => []MapKnowsPorts` | |
| | `RoutesRight` | `Spec => []RoutesFollowWires` | |
| | `PortsSettle` | `Spec => []UNIPortsSettle` | |
| `LogicalFlowsProofs` | `MetersExist` | `Spec => []FlowsHaveMeters` | |
| | `AdaptersFollow` | `Spec => []HardwareFollows` | |
| `RequestsProofs` | `OneCoreServes` | `Spec => []ServedOnce` | `Pair` |
| | `StoreAgrees` | `Spec => []StoreAndAdapterAgree` | |
| | `WellDone` | `Spec => DoneMeansDone` | |
| `CoreServicesProofs` | `TwoMaps` | `Spec => []MapsAgree` | |
| | `AnswersAreStored` | `Spec => []RegisteredIsStored` | |
| | `KnowsAdapters` | `Spec => []KnowsStoredAdapters` | |
| | `ReadyIsStarted` | `Spec => []ReadyMeansStarted` | |

`Pair` says that there are two cores at most, as the system deploys them. `~MayRestart`
means that a core comes back only once its reservation has expired.

- *Transition table.* The entries that match an update all have the same handlers, so
  neither their order nor the rules on exact and partial matches change what the scan
  returns. The scan is a function over the 18 positions of the table; `ScanUnfolds`
  constructs its values one by one, as there is no induction to be had.
- *Lifecycle.* `IInv` is the conjunction of type correctness and two invariants. None is
  inductive alone: that a cleanup owns its device needs the agent to exist and the
  handlers of DELETED to be selected only once, and that an agent without a record is
  about to go needs only one cleanup to take the record out. Devices in `revived` are
  outside of the first. Two lemmas carry the proof: `UpdateStep` (one
  device is stored, which may start handlers) and `RoutineStep` (nothing is stored,
  goroutines go on). `LogicalAgentIsServed` is inductive given `IInv`. The refinement
  shows that each step stores at most one device and moves it along an edge of
  `DeviceLife`.
- *Ownership.* The invariant ties each owner to the key: the key names it, its lease
  is attached, and the time left exceeds the time to its monitor's next tick. Type
  correctness is a conjunct of it. Two
  owners would need the key to name both. Without `~MayRestart` the run
  `ownership_restart` violates the property. Without `~MayStall` an owner whose
  renewals come late keeps its `owned` field while the key goes to another core.
- *Transactions.* For `Holds` the invariant says the same of the core that holds the
  transaction, and that no watcher is told of a completion while a core holds it:
  the watcher deletes the key when it is told. With a third core the key may have
  been reserved again by then, so the theorem is about a pair. `ServedByOne` adds, for
  either core, what the other may be doing while it waits (`Waits`) and before it has
  received the request (`ComesLate`): a watch outlasts the arrival of the request at the
  other core, and a key outlasts the arrival after a completion. Both are where
  `Skew < Duration` is needed.
- *Ports.* `TypeInv` is shared by all five theorems. `NoDuplicatePort` and `Announced` are
  inductive with it; `MapKnowsPorts` too, as the goroutine that stored a port is in the
  bag until it has entered the port. For the routes, `GoodRoutes` also says that the
  logical ports and PON ports kept from an earlier computation are ports of the devices,
  since `AddPort` computes from them. For the UNI ports the invariant is `Calm /\
  Settled`: a port that is awaited has its logical port, or a goroutine that `Carries` it
  is alive; and deletions and failures touch disturbed devices only.
- *Flows.* `MetersInv` follows the plan of the operation: each table it will store has the
  meters of its flows, but for those the operation puts at risk, and the last one has
  them all. `CallsInv` says of a device that is not `unsure` that one call at most is on
  its way, that the operation waits for it, and that the adapter has the rules of the
  record before the request is sent and will have them once it is taken.
- *Requests.* For `ServedOnce` the invariant follows a request by the state of its
  transaction (`HeldInv`, `FreeInv`): when nobody has reserved it, the core that a watcher
  waits for is going to. For the other two, `AgreeInv`: unless the two were torn apart,
  either no agent is at work and record and adapter agree (`Resting`), or one agent of
  one core is (`Solo`), and what is left of its plan leads from where they are now to
  where they agree. That the plans do is shown for the operation of every handler of the
  catalogues (`PlansRight`).
- *Services.* The invariant joins the store, the load and the registrations: an adapter
  none of whose registrations failed half way is stored with all its types or is being
  registered. The proof needs the half-saved adapters that a load may meet
  (`HalfSaved`), a case that an instance with one adapter does not tell apart, and that
  two adapters share no device type (`TypesAssumption`).

Only model-checked:

- liveness (`RoutinesEnd`, `ChildIsRemoved`, `TakesOver`, `Served`, `KeyIsFreed`,
  `OperationsEnd`, `RequestsAnswered`, `ReadinessReturns`, `OutageReported`), which is out
  of the prover's reach;
- `DevicesFollowFlows`, `NoStrayRule` and `RulesJoin`, which depend on what the decomposer
  computes for a flow in every state of the tables, and on rules of different flows
  having different keys;
- `FlowCountExact`, the cardinality of a set of positions modulo the range of the counter;
- `UpToDateMeansCurrent`, which needs a comparison of lengths to tell that two lists of
  ports are the same, through every interleaving of the updates of the routes.

## What is not modelled

- Errors of the KV store in `DeviceOwnership` and `KVTransaction`. Reserve, Get and
  Put succeed, except where a lease has expired or the context has ended; `KVTransaction` starts with the
  resource owned by one of the cores or open to both, as a request that neither core
  reserves is served by both after the timeout.
- `abandonAllDevices` and the stop of a core: nothing calls the `Stop` that runs them.
- The packet and event streams of the northbound API, packet-in and packet-out: the
  order of what they carry is the business of channels and gRPC. The order in which
  goroutines deliver port events is left out for the same reason.
- The data model (`db/model`): revisions, branches, path reservations and watches are
  a library with concurrency of its own; the models take an update as one step. The
  proxy's operation that a watch sets and does not reset (`persisted_revision.go:238`)
  is there.
- In `DeviceLifecycle`: updates of a record that fail, which return without an effect,
  but also those that fail after the reservation of the path and are only logged;
  DOWNLOADING_IMAGE, which `DeviceRecord` has.
- Concurrent loads of one device, and an operation that waits for the lock of an
  agent which is being stopped. The lock that a failed load of a logical device keeps.
- The handlers of a device that is DELETED when its core restarts: nothing runs them
  again (`device_manager.go:1053`), and `Restart` drops the goroutines likewise.
- Reconciliation of devices after an adapter restarts, beyond the call itself.
- In the adapter manager: the callbacks on updates, and readers of a map that hold the
  lock of another one (`adapter_manager.go:451`).
- PM configurations, alarms and image lists as data. A second report on an image walks
  over nil entries (`device_agent.go:963`), a panic that `DeviceRecord` has as a step
  not taken. `initPmConfigs` stores a record
  that the agent's own copy does not get (hazard at `device_agent.go:766`).
- Formatting of keys and messages, logging, flag parsing, random identifiers, mocks.

In the map, definitions of vendored libraries (the etcd client, the liveness channels,
the flow utilities) name the vendored source; `UpdateLiveness` and
`EnableLivenessChannel` stand for the same functions of `sarama_client.go` as well. A few
definitions of `Requests`, `LogicalPorts` and `CoreServices` stand
for code that is repeated in many functions (a lookup that fails, a lock that is taken,
an error that is returned). They name one of these functions.

## Plan

1. Proofs: `FlowCountExact`, `DevicesFollowFlows` and `NoStrayRule` of `LogicalFlows`,
   `UpToDateMeansCurrent` of `LogicalPorts`.
2. Concurrent loads with their waiters, and the lock kept on an error.
3. The packet streams; duplicate detection of children by serial number.
4. The data model: path reservations, watches, callbacks out of order.
