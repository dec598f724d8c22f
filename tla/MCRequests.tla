------------------------------- MODULE MCRequests -------------------------------
(***************************************************************************)
(* Requests of both catalogues for a pair of cores.                        *)
(***************************************************************************)
EXTENDS Requests, TLC

Adapter == INSTANCE AdapterRequests
Northbound == INSTANCE NorthboundRequests

\* Any request by itself; the ones that enable or delete the device together with one that
\* disables it; and the one that deletes it with a report of its adapter.
MCWorkloads ==
  [{"r1"} -> Adapter!Handlers \cup Northbound!Handlers]
    \cup {[r1 |-> h, r2 |-> Northbound!DisableDevice] :
            h \in {Northbound!EnableDevice, Northbound!DeleteDevice}}
    \cup {[r1 |-> Northbound!DeleteDevice, r2 |-> Adapter!DeviceStateUpdate]}

\* The requests of a pair whose device is enabled at the beginning.
EnabledSpec == Init /\ db = "enabled" /\ [][Next]_vars
=================================================================================
