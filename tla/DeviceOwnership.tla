--------------------------- MODULE DeviceOwnership ---------------------------
(***************************************************************************)
(* How the cores of a pair share a root device: each core that serves the  *)
(* device reserves the device's ownership key in the KV store under a      *)
(* lease, and a monitor goroutine renews the reservation, or tries to get  *)
(* it, every Period.  Time advances in seconds.                            *)
(*                                                                         *)
(* Of the KV client only what the code can see is kept: a reservation that *)
(* finds the key held by the same instance succeeds, but registers a new   *)
(* lease that the key is not attached to.  A renewal's result is ignored   *)
(* by the code, so the other leases of a client need no clock.             *)
(***************************************************************************)
EXTENDS Integers

CONSTANTS
  Cores,      \* the cores of the pair
  TTL,        \* reservationTimeout, in seconds
  Period,     \* a monitor's ticker: time.Duration(reservationTimeout) / 3
  MayStall,   \* a monitor, or its calls to the KV store, can be late
  MayStop,    \* a core can stop
  MayRestart  \* a core can start again before its last reservation has expired

ASSUME TimeAssumption ==
  TTL \in Nat /\ Period \in Nat /\ 0 < Period /\ Period < TTL
ASSUME ModeAssumption ==
  MayStall \in BOOLEAN /\ MayStop \in BOOLEAN /\ MayRestart \in BOOLEAN
ASSUME CoresAssumption == "none" \notin Cores

VARIABLES
  device,    \* the root device is in the data model
  up,        \* the cores that are running
  owned,     \* deviceMap of each core: no entry ("absent"), or its owned field
  known,     \* the cores whose deviceToKeyMap holds the device
  asking,    \* each core's call of OwnedByMe: none ("no"), or how it got the key:
             \* the device was "found", or the key was "cached"
  timer,     \* the seconds until each core's monitor wakes
  keyOwner,  \* the instance the ownership key names, or "none"
  keyTTL,    \* the seconds left to the lease the key is attached to
  attached,  \* the cores whose registered lease is the one of the key
  left       \* the cores that have abandoned the deleted device

vars == <<device, up, owned, known, asking, timer, keyOwner, keyTTL, attached, left>>

Init ==
  /\ device = TRUE
  /\ up = Cores
  /\ owned = [c \in Cores |-> "absent"]
  /\ known = {}
  /\ asking = [c \in Cores |-> "no"]
  /\ timer = [c \in Cores |-> 0]
  /\ keyOwner = "none"
  /\ keyTTL = 0
  /\ attached = {}
  /\ left = {}

(***************************************************************************)
(* Reserve of the KV client, and tryToReserveKey, which returns whether    *)
(* the key names this instance.                                            *)
(***************************************************************************)
Reserve(c) ==
  IF keyOwner = "none"
    THEN keyOwner' = c /\ keyTTL' = TTL /\ attached' = attached \cup {c}
    ELSE attached' = attached \ {c} /\ UNCHANGED <<keyOwner, keyTTL>>

\* Mutant: a reservation that returns an owner counts as a success, whoever it is.
ReservedByAnyone(c) == "yes"

ReservedBy(c) == IF keyOwner \in {"none", c} THEN "yes" ELSE "no"

\* getOwnershipKey: from the cache, or by finding the device.
FindKey(c) ==
  /\ c \in up
  /\ asking[c] = "no"
  /\ \/ c \in known /\ asking' = [asking EXCEPT ![c] = "cached"]
     \/ c \notin known /\ device /\ asking' = [asking EXCEPT ![c] = "found"]
  /\ UNCHANGED <<device, up, owned, known, timer, keyOwner, keyTTL, attached, left>>

\* The rest of OwnedByMe: cache the key; then, under ownershipLock, without an
\* entry, reserve the key, make an entry and start a monitor.  The reservation
\* fails when the request's context has been cancelled.
OwnedByMe(c) ==
  /\ asking[c] # "no"
  /\ asking' = [asking EXCEPT ![c] = "no"]
  /\ known' = IF asking[c] = "found" THEN known \cup {c} ELSE known
  /\ \/ /\ owned[c] = "absent"
        /\ \/ Reserve(c) /\ owned' = [owned EXCEPT ![c] = ReservedBy(c)]
           \/ /\ owned' = [owned EXCEPT ![c] = "no"]
              /\ UNCHANGED <<keyOwner, keyTTL, attached>>
        /\ timer' = [timer EXCEPT ![c] = Period]
     \/ /\ owned[c] # "absent"
        /\ UNCHANGED <<owned, timer, keyOwner, keyTTL, attached>>
  /\ UNCHANGED <<device, up, left>>

\* Mutant: the monitor does not renew the reservation.
RenewSkipped(c) == UNCHANGED <<owned, keyOwner, keyTTL, attached>>

\* renewReservation: a failed renewal is only logged.
Renew(c) ==
  /\ keyTTL' = IF c \in attached THEN TTL ELSE keyTTL
  /\ UNCHANGED <<owned, keyOwner, attached>>

\* Mutant: the monitor only renews, and never tries to take the device over.
MonitorOnlyRenews(c) ==
  /\ owned[c] # "absent"
  /\ timer[c] = 0
  /\ timer' = [timer EXCEPT ![c] = Period]
  /\ IF owned[c] = "yes" THEN Renew(c) ELSE UNCHANGED <<owned, keyOwner, keyTTL, attached>>
  /\ UNCHANGED <<device, up, known, asking, left>>

MonitorOwnership(c) ==
  /\ owned[c] # "absent"
  /\ timer[c] = 0
  /\ timer' = [timer EXCEPT ![c] = Period]
  /\ \/ owned[c] = "yes" /\ Renew(c)
     \/ /\ owned[c] = "no"
        /\ Reserve(c)
        /\ owned' = [owned EXCEPT ![c] = ReservedBy(c)]
  /\ UNCHANGED <<device, up, known, asking, left>>

\* The device is deleted: it leaves the data model, then each core that serves it
\* abandons it, once, as its agent stops.  The reservation is left to expire.
RemoveDevice ==
  /\ device
  /\ device' = FALSE
  /\ UNCHANGED <<up, owned, known, asking, timer, keyOwner, keyTTL, attached, left>>

AbandonDevice(c) ==
  /\ ~device
  /\ c \in up \ left
  /\ left' = left \cup {c}
  /\ owned' = [owned EXCEPT ![c] = "absent"]
  /\ known' = known \ {c}
  /\ timer' = [timer EXCEPT ![c] = 0]
  /\ UNCHANGED <<device, up, asking, keyOwner, keyTTL, attached>>

\* A core stops: its maps, goroutines and lease registrations are lost.
Stop(c) ==
  /\ MayStop
  /\ c \in up
  /\ up' = up \ {c}
  /\ owned' = [owned EXCEPT ![c] = "absent"]
  /\ timer' = [timer EXCEPT ![c] = 0]
  /\ known' = known \ {c}
  /\ asking' = [asking EXCEPT ![c] = "no"]
  /\ attached' = attached \ {c}
  /\ UNCHANGED <<device, keyOwner, keyTTL, left>>

\* A core starts again, with the same instance id.
Start(c) ==
  /\ c \notin up
  /\ keyOwner # c \/ MayRestart
  /\ up' = up \cup {c}
  /\ UNCHANGED <<device, owned, known, asking, timer, keyOwner, keyTTL, attached, left>>

\* A second passes.  A monitor that is not late runs before the next one does.
Tick ==
  /\ \A c \in Cores : owned[c] # "absent" /\ timer[c] = 0 => MayStall
  /\ timer' = [c \in Cores |-> IF timer[c] > 0 THEN timer[c] - 1 ELSE 0]
  /\ IF keyTTL > 1
       THEN keyTTL' = keyTTL - 1 /\ UNCHANGED <<keyOwner, attached>>
       ELSE keyTTL' = 0 /\ keyOwner' = "none" /\ attached' = {}
  /\ UNCHANGED <<device, up, owned, known, asking, left>>

Next ==
  \/ \E c \in Cores : FindKey(c) \/ OwnedByMe(c) \/ MonitorOwnership(c) \/ AbandonDevice(c)
  \/ \E c \in Cores : Stop(c) \/ Start(c)
  \/ RemoveDevice
  \/ Tick

Spec == Init /\ [][Next]_vars

\* Time passes, and a monitor's goroutine runs when its ticker fires.
FairSpec ==
  /\ Spec
  /\ WF_vars(Tick)
  /\ \A c \in Cores : WF_vars(MonitorOwnership(c)) /\ WF_vars(OwnedByMe(c))

-----------------------------------------------------------------------------
\* The variables stay in their types; a monitor never waits longer than its
\* period nor a lease longer than its timeout.
TypeOK ==
  /\ device \in BOOLEAN
  /\ up \subseteq Cores
  /\ owned \in [Cores -> {"absent", "yes", "no"}]
  /\ known \subseteq Cores
  /\ asking \in [Cores -> {"no", "found", "cached"}]
  /\ timer \in [Cores -> 0..Period]
  /\ keyOwner \in Cores \cup {"none"}
  /\ keyTTL \in 0..TTL
  /\ attached \subseteq Cores
  /\ left \subseteq Cores

\* "OwnedByMe returns whether this Core instance active owns this device" (the
\* comment on OwnedByMe): two cores never both think that they own the device.
AtMostOneOwner ==
  device => \A c, d \in Cores : owned[c] = "yes" /\ owned[d] = "yes" => c = d

\* A core that thinks it owns the device holds the reservation, under a lease
\* that its monitor renews in time.
OwnerHoldsReservation ==
  device => \A c \in Cores : owned[c] = "yes" =>
    keyOwner = c /\ c \in attached /\ keyTTL > timer[c]

\* When the other cores are gone for good, a core that serves the device comes to
\* own it: the monitor notices that the reservation has expired.
TakesOver ==
  \A c \in Cores :
    <>[](device /\ owned[c] # "absent" /\ up = {c}) => <>(owned[c] = "yes")
=============================================================================
