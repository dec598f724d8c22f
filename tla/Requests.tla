-------------------------------- MODULE Requests --------------------------------
(***************************************************************************)
(* A core pair serving the requests of adapters and of northbound clients  *)
(* about one root device.  Every request reaches both cores; they compete  *)
(* for it (takeRequestOwnership), one of them serves it and the other      *)
(* watches until it is completed or abandoned.  Serving runs an operation  *)
(* of the device agent, which updates the record in the KV store and calls *)
(* the adapter, each core from its own copy of the record.                 *)
(*                                                                         *)
(* The transaction and the ownership of the device are taken at the level  *)
(* of what KVTransaction and DeviceOwnership promise: a request has one    *)
(* holder at a time, and a device one owner.  Requests are well formed; a  *)
(* handler that cannot decode its arguments answers without any effect.    *)
(***************************************************************************)
EXTENDS Naturals, Sequences, FiniteSets

CONSTANTS
  Cores,       \* the cores of the pair
  Requests,    \* the requests of a behaviour
  Workloads,   \* which handlers they may call, together
  MaxFaults    \* the calls that fail or time out, the contexts that expire, the crashes

ASSUME CoresAssumption ==
  /\ Cores # {} /\ Cores \cap {"none", "abandoned", "complete"} = {}
  /\ "none" \notin Requests

Proxy == INSTANCE AdapterProxy

VARIABLES
  db,        \* the AdminState of the device in the KV store: "preprov", "enabled",
             \* "disabled", "deleted" or "downloading"; "none" without record
  hw,        \* what the adapter makes of the device: "none", "on" or "off"
  up,        \* the cores that run
  mem,       \* the AdminState in the device agent of a core, or "none" without agent
  keys,      \* the ids in the ownership cache of a core (deviceToKeyMap)
  tracked,   \* the cores that monitor the ownership of the device (deviceMap)
  owner,     \* the core with the reservation of the device, or "none"
  loose,     \* the requests that both cores may serve (history): see Loosens, ContextDone
  sent,      \* the request: the handler that it calls, or NoRequest
  txn,       \* its transaction: "none", the core that holds it, "abandoned", "complete"
  pc,        \* how far the handler of a core is with a request
  live,      \* the requests of a core whose context is not done
  work,      \* what is left of the operation that serves a request
  lock,      \* the request that holds the lock of a core's device agent
  calls,     \* the remote call of an operation: "none", "out", "ok" or "error", and its effect
  answers,   \* the answers to a request of the cores that served it or refused it
  cleaning,  \* the cores that have yet to clean up after the deletion of the device
  past,      \* what happened before (history)
  faults

device == <<db, hw>>
core == <<up, mem, keys, tracked, owner, loose>>
handling == <<sent, txn, pc, live, answers>>
serving == <<work, lock, calls, cleaning>>
vars == <<db, hw, up, mem, keys, tracked, owner, loose, sent, txn, pc, live, work, lock, calls,
          answers, cleaning, past, faults>>

\* An operation: its state, the steps that are left and its result so far.
Work(at, todo, result) == [at |-> at, todo |-> todo, result |-> result]
NoWork == Work("none", << >>, "ok")
NoCall == [at |-> "none", to |-> "same"]
NoRequest == [id |-> "none", as |-> "none", run |-> "none", op |-> "none"]

Init ==
  /\ \/ db = "none" /\ hw = "none"
     \/ db = "preprov" /\ hw = "none"
     \/ db = "enabled" /\ hw = "on"
  /\ up = Cores
  /\ mem = [c \in Cores |-> "none"]
  /\ keys = [c \in Cores |-> {}]
  /\ tracked = {}
  /\ owner = "none"
  /\ loose = {}
  /\ sent = [r \in Requests |-> NoRequest]
  /\ txn = [r \in Requests |-> "none"]
  /\ pc = [c \in Cores |-> [r \in Requests |-> "idle"]]
  /\ live = [c \in Cores |-> {}]
  /\ work = [c \in Cores |-> [r \in Requests |-> NoWork]]
  /\ lock = [c \in Cores |-> "none"]
  /\ calls = [c \in Cores |-> [r \in Requests |-> NoCall]]
  /\ cleaning = {}
  /\ answers = [r \in Requests |-> {}]
  /\ past = [served |-> {}, torn |-> FALSE, removable |-> FALSE]
  /\ faults = 0

Go(c, r, where) == pc' = [pc EXCEPT ![c][r] = where]
Works(c, r, w) == work' = [work EXCEPT ![c][r] = w]
Answer(r, what) == answers' = [answers EXCEPT ![r] = @ \cup {what}]
Fault == faults < MaxFaults /\ faults' = faults + 1

\* A client or an adapter sends a request of the workload, and the cores that run receive
\* it.  An adapter reports on a device that it manages.
Send(r) ==
  /\ sent[r] = NoRequest
  /\ \E load \in Workloads :
       /\ r \in DOMAIN load
       /\ \A q \in Requests : sent[q] = NoRequest \/ (q \in DOMAIN load /\ sent[q] = load[q])
       /\ load[r].run = "later" => hw # "none"
       /\ sent' = [sent EXCEPT ![r] = load[r]]
  /\ pc' = [c \in Cores |-> IF c \in up THEN [pc[c] EXCEPT ![r] = "received"] ELSE pc[c]]
  /\ live' = [c \in Cores |-> IF c \in up THEN live[c] \cup {r} ELSE live[c]]
  /\ UNCHANGED <<device, core, txn, answers, serving, past, faults>>

(***************************************************************************)
(* The ownership of the device.                                            *)
(***************************************************************************)
\* getDeviceAgent: the agent of the device, loaded from the store when there is none.
Loaded(c) == IF mem[c] = "none" THEN db ELSE mem[c]

\* getOwnershipKey finds the device: its id is in the cache, or is that of a device,
\* or of a logical device, that can be loaded.
GetOwnershipKey(c, h) == h.id \in keys[c] \/ (h.as = h.id /\ Loaded(c) # "none")

\* A core that becomes the owner while it watches a request that nobody has reserved: the
\* other core may come to watch the request as well.
Loosens(c) ==
  loose' = loose \cup {r \in Requests : owner # c /\ owner' = c /\ pc[c][r] = "watching" /\ txn[r] = "none"}

\* OwnedByMe: the first time, the core tries to reserve the device and monitors it.
OwnedByMe(c, id) ==
  /\ keys' = [keys EXCEPT ![c] = @ \cup {id}]
  /\ tracked' = tracked \cup {c}
  /\ owner' = IF c \notin tracked /\ owner = "none" THEN c ELSE owner
  /\ Loosens(c)
  /\ mem' = IF id = "device" /\ id \notin keys[c] THEN [mem EXCEPT ![c] = Loaded(c)] ELSE mem

Owns(c) == owner' = c

\* The goroutine that getDeviceAgent starts once it has loaded the device.
RegisterDevice(c) ==
  /\ mem[c] # "none"
  /\ c \notin tracked
  /\ OwnedByMe(c, "device")
  /\ UNCHANGED <<device, up, handling, serving, past, faults>>

\* monitorOwnership: a core that monitors the device tries to reserve it.
MonitorOwnership(c) ==
  /\ c \in tracked
  /\ owner = "none"
  /\ owner' = c
  /\ Loosens(c)
  /\ UNCHANGED <<device, up, mem, keys, tracked, handling, serving, past, faults>>

\* The KV store drops the reservation of a core that no longer renews it: it has
\* crashed, or it has abandoned the device.
ReservationExpires ==
  /\ owner # "none"
  /\ owner \notin tracked
  /\ owner' = "none"
  /\ UNCHANGED <<device, up, mem, keys, tracked, loose, handling, serving, past, faults>>

(***************************************************************************)
(* The handlers, up to the operation that serves the request.              *)
(***************************************************************************)
Serve(c, r) ==
  /\ Go(c, r, "serving")
  /\ Works(c, r, Work("lock", << >>, "ok"))
  /\ past' = [past EXCEPT !.served = @ \cup {<<c, r>>}]

\* Mutant: a core that does not own the device serves the request when it is free.
AcquiredByAll(c, r, mine) ==
  \/ txn[r] = "none" /\ Serve(c, r) /\ UNCHANGED txn
  \/ txn[r] # "none" /\ Go(c, r, "watching") /\ UNCHANGED <<txn, work, past>>

\* Acquired: the owner reserves the transaction and serves, another core watches.
Acquired(c, r, mine) ==
  \/ mine /\ txn[r] = "none" /\ Serve(c, r) /\ txn' = [txn EXCEPT ![r] = c]
  \/ ~(mine /\ txn[r] = "none") /\ Go(c, r, "watching") /\ UNCHANGED <<txn, work, past>>

TakeRequestOwnership(c, r) ==
  LET h == sent[r] IN
  /\ pc[c][r] = "received"
  /\ \/ /\ h.as = "unkeyed"
        /\ Serve(c, r)
        /\ UNCHANGED <<core, txn, answers>>
     \/ /\ h.as = "nil"
        /\ Acquired(c, r, TRUE)
        /\ UNCHANGED <<core, answers>>
     \/ /\ h.as \in {"device", "logical"} /\ GetOwnershipKey(c, h)
        /\ OwnedByMe(c, h.id)
        /\ Acquired(c, r, Owns(c))
        /\ UNCHANGED <<up, answers>>
     \/ /\ h.as \in {"device", "logical"} /\ ~GetOwnershipKey(c, h)
        /\ Go(c, r, "answered")
        /\ Answer(r, "notfound")
        /\ UNCHANGED <<core, txn, work, past>>
  /\ UNCHANGED <<device, sent, live, lock, calls, cleaning, faults>>

\* stopManagingDevice: stopping the agent, under its lock, also removes the record from
\* the store; when that fails the agent goes all the same.  The reservation of an
\* abandoned device is left to expire.
StopManagingDevice(c) ==
  /\ lock[c] = "none"
  /\ mem' = [mem EXCEPT ![c] = "none"]
  /\ \/ db' = "none" /\ UNCHANGED faults
     \/ Fault /\ UNCHANGED db
  /\ keys' = [keys EXCEPT ![c] = {}]
  /\ tracked' = tracked \ {c}
  /\ UNCHANGED <<owner, loose>>

\* DeleteDevice, when the other core has served it: a core that does not own the device
\* stops managing it.
DeletedByOther(c, h) ==
  LET mine == owner = c \/ (c \notin tracked /\ owner = "none")
      cached == (IF h.id \in keys[c] THEN mem[c] ELSE Loaded(c)) # "none"
  IN \/ ~GetOwnershipKey(c, h) /\ UNCHANGED <<db, mem, keys, tracked, owner, loose, faults>>
     \/ GetOwnershipKey(c, h) /\ (mine \/ ~cached) /\ OwnedByMe(c, h.id) /\ UNCHANGED <<db, faults>>
     \/ GetOwnershipKey(c, h) /\ ~mine /\ cached /\ StopManagingDevice(c)

\* The record is removed while the adapter has the device, or an agent is at work on it.
TakenAway == db # db' /\ (hw # "none" \/ \E d \in Cores : lock[d] # "none")

\* The other core has completed the request.
NotAcquired(c, r) ==
  /\ pc[c][r] = "watching"
  /\ txn[r] = "complete"
  /\ Go(c, r, "answered")
  /\ \/ sent[r].op = "delete" /\ DeletedByOther(c, sent[r])
     \/ sent[r].op # "delete" /\ UNCHANGED <<db, mem, keys, tracked, owner, loose, faults>>
  /\ past' = [past EXCEPT !.torn = @ \/ TakenAway]
  /\ UNCHANGED <<hw, up, sent, txn, live, answers, serving>>

\* Mutant: only a transaction that was reserved and then abandoned is taken over.
TakeOverAbandoned(c, r) ==
  /\ pc[c][r] = "watching"
  /\ txn[r] = "abandoned"
  /\ Serve(c, r)
  /\ UNCHANGED <<device, core, sent, txn, live, answers, lock, calls, cleaning, faults>>

\* The transaction was abandoned, or nobody has reserved it within the time that the core
\* watches it: the owner has crashed before it did, or the other core watches as well.
TakeOver(c, r) ==
  /\ pc[c][r] = "watching"
  /\ \/ txn[r] = "abandoned"
     \/ txn[r] = "none" /\ \A d \in Cores : pc[d][r] # "received"
  /\ Serve(c, r)
  /\ UNCHANGED <<device, core, sent, txn, live, answers, lock, calls, cleaning, faults>>

(***************************************************************************)
(* The operations of the device agent: the steps of each, from the state   *)
(* that the agent has in memory, and whether it succeeds.  What depends on *)
(* the images and the ports of the device is left open.                    *)
(***************************************************************************)
Store(admin) == [step |-> "store", to |-> admin]
Ok(steps) == [result |-> "ok", steps |-> steps]
Failed == [result |-> "error", steps |-> << >>]

EnableDevice(admin) ==
  CASE admin = "enabled" -> {Ok(<< >>)}
    [] admin = "deleted" -> {Failed}
    [] admin = "preprov" -> {Ok(<<Store("enabled"), Proxy!AdoptDevice>>)}
    [] OTHER -> {Ok(<<Store("enabled"), Proxy!ReEnableDevice>>)}

\* Mutant: a device that was never enabled counts as disabled.
DisableDeviceLenient(admin) ==
  CASE admin \in {"disabled", "preprov"} -> {Ok(<< >>)}
    [] admin = "deleted" -> {Failed}
    [] OTHER -> {Ok(<<Store("disabled"), Proxy!DisableDevice>>)}

DisableDevice(admin) ==
  CASE admin = "disabled" -> {Ok(<< >>)}
    [] admin \in {"preprov", "deleted"} -> {Failed}
    [] OTHER -> {Ok(<<Store("disabled"), Proxy!DisableDevice>>)}

DeleteDevice(admin) ==
  CASE admin = "deleted" -> {Ok(<< >>)}
    [] admin = "preprov" -> {Ok(<<Store("deleted")>>)}
    [] OTHER -> {Ok(<<Proxy!DeleteDevice, Store("deleted")>>)}

RebootDevice(admin) == {Ok(<<Proxy!RebootDevice>>)}

UpdatePmConfigs(admin) == {Ok(<<Store(admin), Proxy!UpdatePmConfigs>>)}

ConfigurePort(admin) ==
  {Failed} \cup {Ok(<<Store(admin), call>>) : call \in {Proxy!EnablePort, Proxy!DisablePort}}

DownloadImage(admin) ==
  IF admin # "enabled" THEN {Failed}
  ELSE {Ok(<< >>), Ok(<<Store("downloading"), Proxy!DownloadImage>>)}

CancelImageDownload(admin) ==
  {Failed} \cup (IF admin = "downloading"
                   THEN {Ok(<<Store("enabled"), Proxy!CancelImageDownload>>)} ELSE {Ok(<< >>)})

ActivateImage(admin) ==
  {Failed} \cup (IF admin \in {"preprov", "downloading"} THEN {}
                 ELSE {Ok(<<Store("downloading"), Proxy!ActivateImageUpdate>>)})

RevertImage(admin) ==
  {Failed} \cup (IF admin = "enabled"
                   THEN {Ok(<<Store(admin), Proxy!RevertImageUpdate>>)} ELSE {})

UpdateImageDownload(admin) == {Ok(<<Store(admin)>>), Ok(<<Store("enabled")>>)}

GetImageDownloadStatus(admin) == {Ok(<<Proxy!GetImageDownloadStatus>>)}
SimulateAlarm(admin) == {Ok(<<Proxy!SimulateAlarm>>)}

\* What an adapter reports: the record is stored with it, and keeps its AdminState.
UpdateDeviceUsingAdapterData(admin) == {Ok(<<Store(admin)>>)}
UpdateDeviceStatus(admin) == {Ok(<<Store(admin)>>)}
UpdateDeviceReason(admin) == {Ok(<<Store(admin)>>)}
InitPmConfigs(admin) == {Ok(<<Store(admin)>>)}
UpdatePortsOperState(admin) == {Ok(<<Store(admin)>>)}
UpdatePortState(admin) == {Failed, Ok(<<Store(admin)>>)}
AddPort(admin) == {Ok(<< >>), Ok(<<Store(admin)>>)}
DeleteAllPorts(admin) ==
  IF admin \in {"disabled", "deleted"} THEN {Ok(<< >>), Ok(<<Store(admin)>>)} ELSE {Failed}

Plans(op, admin) ==
  CASE op = "enable" -> EnableDevice(admin)
    [] op = "disable" -> DisableDevice(admin)
    [] op = "delete" -> DeleteDevice(admin)
    [] op = "reboot" -> RebootDevice(admin)
    [] op = "configure" -> UpdatePmConfigs(admin)
    [] op = "configurePort" -> ConfigurePort(admin)
    [] op = "download" -> DownloadImage(admin)
    [] op = "cancel" -> CancelImageDownload(admin)
    [] op = "activate" -> ActivateImage(admin)
    [] op = "revert" -> RevertImage(admin)
    [] op = "imageStatus" -> GetImageDownloadStatus(admin)
    [] op = "alarm" -> SimulateAlarm(admin)
    [] op = "data" -> UpdateDeviceUsingAdapterData(admin)
    [] op = "status" -> UpdateDeviceStatus(admin)
    [] op = "reason" -> UpdateDeviceReason(admin)
    [] op = "initPm" -> InitPmConfigs(admin)
    [] op = "ports" -> UpdatePortsOperState(admin)
    [] op = "port" -> UpdatePortState(admin)
    [] op = "addPort" -> AddPort(admin)
    [] op = "deletePorts" -> DeleteAllPorts(admin)
    [] op = "updateImage" -> UpdateImageDownload(admin)
    [] OTHER -> {Ok(<< >>)}

(***************************************************************************)
(* Serving a request.                                                      *)
(***************************************************************************)
Report(result) == Work("report", << >>, result)
Ends(c, r, result) == Works(c, r, Report(result)) /\ lock' = [lock EXCEPT ![c] = "none"]

\* A step fails within the fault budget, or because the context of its request is done.
Fails(c, r) == IF r \in live[c] THEN Fault ELSE UNCHANGED faults

\* Nothing is known of the device.
Fresh == hw = "none" /\ tracked = {} /\ \A c \in Cores : mem[c] = "none"

\* createDevice: the record and the agent of a device that is not there yet.  The device
\* that is created in the place of one that was deleted has another id, and so has the
\* agent that stays in the map without a record when its start fails.
CreateDevice(c, r) ==
  /\ work[c][r].at = "lock" /\ sent[r].op = "create"
  /\ \/ db # "none" /\ Works(c, r, Report("error")) /\ UNCHANGED <<db, mem, faults>>
     \/ db = "none" /\ Fails(c, r) /\ Works(c, r, Report("error")) /\ UNCHANGED <<db, mem>>
     \/ /\ db = "none" /\ Works(c, r, Report("ok"))
        /\ db' = IF Fresh THEN "preprov" ELSE "none"
        /\ mem' = IF Fresh THEN [mem EXCEPT ![c] = "preprov"] ELSE mem
        /\ UNCHANGED faults
  /\ UNCHANGED <<hw, up, keys, tracked, owner, loose, handling, lock, calls, cleaning, past>>

\* A request that has nothing to do with the record, or a device that cannot be loaded.
NoDevice(c, r) ==
  /\ work[c][r].at = "lock" /\ sent[r].op # "create"
  /\ \/ sent[r].op = "elsewhere" /\ Works(c, r, Report("ok"))
     \/ sent[r].op # "elsewhere" /\ Loaded(c) = "none" /\ Works(c, r, Report("error"))
  /\ UNCHANGED <<device, core, handling, lock, calls, cleaning, past, faults>>

\* The operation takes the lock of the agent, and keeps it while it has steps to do.
\* What it does is torn when the agent has an old copy of the record, when the agent of
\* the other core is still at work, or when it makes the device ENABLED again without the
\* adapter (cancelled and updated images).
LockDevice(c, r) ==
  /\ work[c][r].at = "lock" /\ sent[r].op \notin {"create", "elsewhere"}
  /\ Loaded(c) # "none"
  /\ lock[c] = "none"
  /\ mem' = [mem EXCEPT ![c] = Loaded(c)]
  /\ \E plan \in Plans(sent[r].op, Loaded(c)) :
        IF plan.steps = << >>
          THEN Works(c, r, Report(plan.result)) /\ UNCHANGED lock
          ELSE Works(c, r, Work("busy", plan.steps, "ok")) /\ lock' = [lock EXCEPT ![c] = r]
  /\ past' = [past EXCEPT !.torn = \/ @
                                   \/ Loaded(c) # db /\ sent[r].op # "read"
                                   \/ \E d \in Cores \ {c} : lock[d] # "none"
                                   \/ sent[r].op \in {"cancel", "updateImage"} /\ hw # "on"]
  /\ UNCHANGED <<device, up, keys, tracked, owner, loose, handling, calls, cleaning, faults>>

Next1(c, r) == Head(work[c][r].todo)

\* The operation goes on after a step: it releases the lock once there is none left.
Continues(c, r) ==
  LET rest == Tail(work[c][r].todo) IN
  IF rest = << >> THEN Ends(c, r, "ok")
  ELSE Works(c, r, Work("busy", rest, "ok")) /\ UNCHANGED lock

\* updateDeviceInStoreWithoutLock.  A record that the other core has removed is written
\* again, or not at all when this core knows that it is gone.  The transition of a root
\* from DISABLED or PREPROVISIONED to DELETED has a handler, RunPostDeviceDelete.
UpdateDeviceInStoreWithoutLock(c, r) ==
  LET to == Next1(c, r).to IN
  /\ work[c][r].at = "busy" /\ Next1(c, r).step = "store"
  /\ \/ /\ db' \in IF db = "none" THEN {"none", to} ELSE {to}
        /\ mem' = [mem EXCEPT ![c] = to]
        /\ Continues(c, r)
        /\ cleaning' = IF to = "deleted" /\ db \in {"disabled", "preprov"} THEN cleaning \cup {c} ELSE cleaning
        /\ past' = [past EXCEPT !.removable = @ \/ to = "deleted"]
        /\ UNCHANGED faults
     \/ /\ Fails(c, r)
        /\ Ends(c, r, "error")
        /\ past' = [past EXCEPT !.torn = @ \/ to = "deleted"]
        /\ UNCHANGED <<db, mem, cleaning>>
  /\ UNCHANGED <<hw, up, keys, tracked, owner, loose, handling, calls>>

\* Mutant: the lock of the agent is released before the adapter is called.
InvokeUnlocked(c, r) ==
  /\ work[c][r].at = "busy" /\ Next1(c, r).step = "rpc"
  /\ calls[c][r].at = "none"
  /\ calls' = [calls EXCEPT ![c][r] = [at |-> "out", to |-> Next1(c, r).to]]
  /\ lock' = [lock EXCEPT ![c] = "none"]
  /\ UNCHANGED <<device, core, handling, work, cleaning, past, faults>>

\* The call of the adapter proxy goes out.
Invoke(c, r) ==
  /\ work[c][r].at = "busy" /\ Next1(c, r).step = "rpc"
  /\ calls[c][r].at = "none"
  /\ calls' = [calls EXCEPT ![c][r] = [at |-> "out", to |-> Next1(c, r).to]]
  /\ UNCHANGED <<device, core, handling, work, lock, cleaning, past, faults>>

\* The adapter does what a call asks for, or refuses it.
AdapterHandles(c, r) ==
  LET to == calls[c][r].to IN
  /\ calls[c][r].at = "out"
  /\ \/ /\ hw' = IF to = "same" THEN hw ELSE to
        /\ calls' = [calls EXCEPT ![c][r].at = "ok"]
        /\ UNCHANGED faults
     \/ /\ Fault
        /\ calls' = [calls EXCEPT ![c][r].at = "error"]
        /\ UNCHANGED hw
  /\ UNCHANGED <<db, core, handling, work, lock, cleaning, past>>

\* unPackResponse: the answer of the adapter as an error or nil.
UnPackResponse(c, r) == calls[c][r].at

\* The call returns: with the answer of the adapter, or because it has timed out, when
\* the adapter may still do what it asks for.
Returns(c, r) ==
  /\ work[c][r].at = "busy" /\ Next1(c, r).step = "rpc"
  /\ \/ /\ calls[c][r].at \in {"ok", "error"}
        /\ IF UnPackResponse(c, r) = "ok" THEN Continues(c, r) ELSE Ends(c, r, "error")
        /\ calls' = [calls EXCEPT ![c][r] = NoCall]
        /\ past' = [past EXCEPT !.torn = \/ @
                                         \/ UnPackResponse(c, r) = "error" /\ Next1(c, r).to \in {"on", "off"}]
        /\ UNCHANGED faults
     \/ /\ calls[c][r].at = "out"
        /\ Fails(c, r)
        /\ Ends(c, r, "error")
        /\ past' = [past EXCEPT !.torn = TRUE]
        /\ UNCHANGED calls
  /\ UNCHANGED <<device, core, handling, cleaning>>

\* The operation is over.  The goroutine of a northbound request sends its result on the
\* channel of the handler (sendResponse), unless the context of the request is done.
SendResponse(c, r) ==
  LET sends == sent[r].run \in {"await", "detach"} /\ r \in live[c] IN
  /\ work[c][r].at = "report"
  /\ Works(c, r, CASE sends -> Work("sending", << >>, work[c][r].result)
                   [] ~sends /\ sent[r].run = "sync" -> Work("over", << >>, work[c][r].result)
                   [] OTHER -> NoWork)
  /\ UNCHANGED <<device, core, handling, lock, calls, cleaning, past, faults>>

\* Close: the holder marks the transaction as complete, which fails once the context is
\* done; the transaction then expires, as if the core had abandoned it.
Close(c, r) ==
  IF txn[r] # c THEN UNCHANGED txn
  ELSE txn' = [txn EXCEPT ![r] = IF r \in live[c] THEN "complete" ELSE "abandoned"]

\* The handler returns, and what it has deferred runs: the transaction is closed.
Return(c, r, result) ==
  /\ pc[c][r] = "serving"
  /\ Go(c, r, "answered")
  /\ Answer(r, result)
  /\ Close(c, r)
  /\ UNCHANGED <<device, up, sent, live, lock, calls, cleaning, past, faults>>

\* A handler that calls the manager itself, or leaves the call to a goroutine.
ReturnSync(c, r) ==
  /\ \/ /\ sent[r].run = "sync" /\ work[c][r].at = "over"
        /\ Return(c, r, work[c][r].result)
        /\ Works(c, r, NoWork)
     \/ /\ sent[r].run \in {"later", "detach"}
        /\ Return(c, r, "ok")
        /\ UNCHANGED work
  /\ UNCHANGED <<mem, keys, tracked, owner, loose>>

\* waitForNilResponseOnSuccess: the result of the goroutine, or the end of the context.
\* CreateDevice also registers the device.
WaitForNilResponseOnSuccess(c, r) ==
  /\ sent[r].run = "await"
  /\ \/ /\ work[c][r].at = "sending"
        /\ Return(c, r, work[c][r].result)
        /\ Works(c, r, NoWork)
        /\ IF sent[r].op = "create" /\ work[c][r].result = "ok" /\ mem[c] # "none"
             THEN OwnedByMe(c, "device") ELSE UNCHANGED <<mem, keys, tracked, owner, loose>>
     \/ /\ r \notin live[c]
        /\ Return(c, r, "error")
        /\ UNCHANGED <<mem, keys, tracked, owner, loose, work>>

\* The context of a northbound request is done: its deadline has passed or the client
\* has gone while it is served, or its handler has returned (which matters only to a
\* goroutine that outlives the handler).
ContextDone(c, r) ==
  /\ r \in live[c]
  /\ \/ sent[r].run = "await" /\ pc[c][r] = "serving" /\ Fault
     \/ sent[r].run = "detach" /\ pc[c][r] = "answered" /\ UNCHANGED faults
  /\ live' = [live EXCEPT ![c] = @ \ {r}]
  /\ loose' = IF pc[c][r] = "serving" THEN loose \cup {r} ELSE loose
  /\ UNCHANGED <<device, up, mem, keys, tracked, owner, sent, txn, pc, answers, serving, past>>

\* RunPostDeviceDelete, once the record is in the state DELETED.
RunPostDeviceDelete(c) ==
  /\ c \in cleaning
  /\ cleaning' = cleaning \ {c}
  /\ IF mem[c] = "none" THEN UNCHANGED <<db, mem, keys, tracked, owner, loose, faults>> ELSE StopManagingDevice(c)
  /\ past' = [past EXCEPT !.torn = @ \/ TakenAway]
  /\ UNCHANGED <<hw, up, handling, work, lock, calls>>

(***************************************************************************)
(* Crashes.                                                                *)
(***************************************************************************)
\* The memory of the core is lost, and the transactions that it holds expire.
Down(c) ==
  /\ up' = up \ {c}
  /\ mem' = [mem EXCEPT ![c] = "none"]
  /\ keys' = [keys EXCEPT ![c] = {}]
  /\ tracked' = tracked \ {c}
  /\ txn' = [r \in Requests |-> IF txn[r] = c THEN "abandoned" ELSE txn[r]]
  /\ pc' = [pc EXCEPT ![c] = [r \in Requests |-> IF @[r] \in {"idle", "answered"} THEN @[r] ELSE "lost"]]
  /\ live' = [live EXCEPT ![c] = {}]
  /\ work' = [work EXCEPT ![c] = [r \in Requests |-> NoWork]]
  /\ lock' = [lock EXCEPT ![c] = "none"]
  /\ cleaning' = cleaning \ {c}
  /\ UNCHANGED <<device, owner, loose, sent, calls, answers>>

Crash(c) ==
  /\ c \in up
  /\ Fault
  /\ past' = [past EXCEPT !.served = @ \ ({c} \X Requests),
                          !.torn = @ \/ lock[c] # "none"]
  /\ Down(c)

\* A goroutine sends on the channel of a handler that has returned and closed it.
Panic(c, r) ==
  /\ work[c][r].at = "sending"
  /\ pc[c][r] = "answered"
  /\ past' = [past EXCEPT !.served = @ \ ({c} \X Requests),
                          !.torn = @ \/ lock[c] # "none"]
  /\ UNCHANGED faults
  /\ Down(c)

Restart(c) ==
  /\ c \notin up
  /\ up' = up \cup {c}
  /\ UNCHANGED <<device, mem, keys, tracked, owner, loose, handling, serving, past, faults>>

\* A step of the pair on a request, without faults.
Step(c, r) ==
  \/ TakeRequestOwnership(c, r)
  \/ NotAcquired(c, r)
  \/ TakeOver(c, r)
  \/ CreateDevice(c, r)
  \/ NoDevice(c, r)
  \/ LockDevice(c, r)
  \/ UpdateDeviceInStoreWithoutLock(c, r)
  \/ Invoke(c, r)
  \/ AdapterHandles(c, r)
  \/ Returns(c, r)
  \/ SendResponse(c, r)
  \/ ReturnSync(c, r)
  \/ WaitForNilResponseOnSuccess(c, r)

Next ==
  \/ \E r \in Requests : Send(r)
  \/ \E c \in Cores, r \in Requests : Step(c, r) \/ ContextDone(c, r) \/ Panic(c, r)
  \/ \E c \in Cores : \/ RegisterDevice(c)
                      \/ MonitorOwnership(c)
                      \/ RunPostDeviceDelete(c)
                      \/ Crash(c)
                      \/ Restart(c)
  \/ ReservationExpires

Spec == Init /\ [][Next]_vars

\* The pair makes progress: while a goroutine can take a step, or an adapter has a call to
\* answer, one of them does.
FairSpec == Spec /\ WF_vars(\E c \in Cores, r \in Requests : Step(c, r))

-------------------------------------------------------------------------------
\* One core serves a request (takeRequestOwnership), whatever the cores know of the
\* ownership of the device: the other core serves it too only when the first has crashed
\* or its context had ended before it could mark the transaction as complete, or when a
\* core becomes the owner while it watches a request that nobody has reserved.
ServedOnce ==
  \A r \in Requests : sent[r] # NoRequest /\ r \notin loose =>
    sent[r].as = "unkeyed" \/ \A c, d \in Cores : {<<c, r>>, <<d, r>>} \subseteq past.served => c = d

\* The store and the adapter agree on a device that no operation is busy with: the agent
\* holds its lock from the update of the record to the answer of the adapter.  A call
\* that failed halfway, a crash in the middle, an operation on an old copy of the record
\* or the removal of a record that is in use again, by the core that did not serve the
\* deletion or by a late RunPostDeviceDelete, makes them differ (torn), and nothing in
\* the code brings them together again.
StoreAndAdapterAgree ==
  (~past.torn /\ \A c \in Cores, r \in Requests : work[c][r].at # "busy") =>
    /\ db = "enabled" => hw = "on"
    /\ db = "disabled" => hw = "off"
    /\ db \in {"preprov", "deleted", "none"} => hw = "none"

\* An operation that ends well has done what was asked for: the record says so, and the
\* adapter has done it, also when the agent finds the device in the right state already.
DoneMeansDone ==
  [][\A c \in Cores, r \in Requests :
       (/\ work[c][r].at \in {"lock", "busy"}
        /\ work'[c][r].at = "report" /\ work'[c][r].result = "ok" /\ ~past'.torn) =>
         /\ sent[r].op = "enable" => db' = "enabled" /\ hw' = "on"
         /\ sent[r].op = "disable" => db' = "disabled" /\ hw' = "off"
         /\ sent[r].op = "delete" => db' \in {"deleted", "none"} /\ hw' = "none"]_vars

\* Time and again, every request that was sent is answered by a core that served it or does
\* not know the device, unless all the cores that received it have crashed: no handler waits
\* for a goroutine, and no core for the other, forever.
RequestsAnswered ==
  []<>(\A r \in Requests : sent[r] # NoRequest =>
         answers[r] # {} \/ \A c \in Cores : pc[c][r] \in {"idle", "lost"})

\* What DeleteDevice says of the core that did not serve the request: it removes the
\* device in memory.  The record is removed only once it is in the state DELETED.
RemovesInMemory == [][db # "none" /\ db' = "none" => past.removable]_vars
===============================================================================
