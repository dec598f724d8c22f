-------------------------- MODULE MCDeviceLifecycle --------------------------
(***************************************************************************)
(* Instances of DeviceLifecycle for TLC.                                   *)
(***************************************************************************)
EXTENDS DeviceLifecycle, TLC

\* Goroutines are interchangeable, and so are children; used in the runs that
\* check no liveness.
Symmetry == Permutations(Children) \cup Permutations(Routines)
=============================================================================
