------------------------------ MODULE DeviceLife ------------------------------
(***************************************************************************)
(* What the core promises of its devices: one at a time, a device is       *)
(* provisioned once, is then enabled and disabled any number of times and  *)
(* is deleted; a deleted device is removed from the data model for good,   *)
(* and no other.  There is one way back from DELETED, a report on an       *)
(* image: the device is revived, and what cleans it up may remove it       *)
(* whatever its state.                                                     *)
(***************************************************************************)
CONSTANT Devices

VARIABLES
  admin,   \* the administrative state of each device
  revived  \* the devices that a report has taken out of DELETED

Init ==
  /\ admin = [d \in Devices |-> "NONE"]
  /\ revived = {}

Moves(d, from, to) ==
  /\ admin[d] \in from
  /\ admin' = [admin EXCEPT ![d] = to]

Provision(d) == Moves(d, {"NONE"}, "PREPROVISIONED") /\ UNCHANGED revived

Enable(d) == Moves(d, {"PREPROVISIONED", "DISABLED"}, "ENABLED") /\ UNCHANGED revived

Disable(d) == Moves(d, {"ENABLED"}, "DISABLED") /\ UNCHANGED revived

Delete(d) ==
  Moves(d, {"PREPROVISIONED", "ENABLED", "DISABLED"}, "DELETED") /\ UNCHANGED revived

Revive(d) == Moves(d, {"DELETED"}, "ENABLED") /\ revived' = revived \cup {d}

Remove(d) ==
  /\ Moves(d, {"DELETED"} \cup (IF d \in revived THEN {"ENABLED", "DISABLED"} ELSE {}),
           "REMOVED")
  /\ UNCHANGED revived

Next ==
  \E d \in Devices :
    Provision(d) \/ Enable(d) \/ Disable(d) \/ Delete(d) \/ Revive(d) \/ Remove(d)

Spec == Init /\ [][Next]_<<admin, revived>>
=============================================================================
