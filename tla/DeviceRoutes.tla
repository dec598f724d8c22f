----------------------------- MODULE DeviceRoutes -----------------------------
(***************************************************************************)
(* The routes between the logical ports of a logical device, computed by   *)
(* rw_core/route/device_route.go, and GetRoute of the logical device's     *)
(* agent, which looks them up.  Every operation takes the DeviceRoutes     *)
(* object as a record and returns the next one.                            *)
(*                                                                         *)
(* A device is [root, ports], a port of it [no, type, peers] with its      *)
(* peers a sequence of [dev, no]; devices is the function from the ids the *)
(* data model knows to devices.  A logical port is [dev, devNo, no, root]. *)
(* A route takes two hops; routes maps <<ingress, egress>> to them.        *)
(* The NNI ports are on one device, the root, and a child hangs on one of  *)
(* its PON ports.                                                          *)
(***************************************************************************)
EXTENDS Integers, Sequences, FiniteSets, Functions

Hop(d, in, out) == [dev |-> d, in |-> in, out |-> out]

\* The code's Hop{}: the hop of a half route that is not there.
NoHop == Hop("none", 0, 0)

\* OFPP_CONTROLLER, as an output port number that no port has.
Controller == 1000

NewDeviceRoutes ==
  [logicalPorts |-> << >>, rootPorts |-> {}, routes |-> << >>, ponPorts |-> << >>]

\* The elements of a sequence that are in a set, in their order: SelectSeq, with
\* the positions spelled out.
Only(s, T) ==
  LET I == {i \in DOMAIN s : s[i] \in T}
  IN [k \in 1..Cardinality(I) |-> s[CHOOSE i \in I : Cardinality({j \in I : j <= i}) = k]]

Put(f, g) == [k \in DOMAIN f \cup DOMAIN g |-> IF k \in DOMAIN g THEN g[k] ELSE f[k]]

\* Mutant: the two ends of a hop are not exchanged.
GetReverseRouteUnswapped(path) == <<path[2], path[1]>>

GetReverseRoute(path) ==
  [i \in 1..2 |-> Hop(path[3 - i].dev, path[3 - i].out, path[3 - i].in)]

\* Both directions of a route, as the entries that are put into the map.
BothWays(in, out, path) ==
  [k \in {<<in, out>>, <<out, in>>} |-> IF k = <<in, out>> THEN path ELSE GetReverseRoute(path)]

(***************************************************************************)
(* getDevice caches the PON ports of the device it reads.                  *)
(***************************************************************************)
PonPorts(device) == {port \in Range(device.ports) : port.type \in {"PON_OLT", "PON_ONU"}}

CachePonPorts(ponPorts, devices, ids) ==
  LET Cached(d) == IF d \in DOMAIN ponPorts THEN ponPorts[d] ELSE << >>
  IN Put(ponPorts, [d \in ids |-> Cached(d) \o Only(devices[d].ports, PonPorts(devices[d]))])

GetDevicePonPorts(ponPorts, d, peer) ==
  IF d \notin DOMAIN ponPorts THEN << >>
  ELSE Only(ponPorts[d], {port \in Range(ponPorts[d]) : \E q \in Range(port.peers) : q.dev = peer})

\* The routes of the NNI port `from', repeated for the NNI port new.
CopyFromExistingNNIRoutes(routes, new, from) ==
  LET Copied == {k \in DOMAIN routes : from.no \in {k[1], k[2]}}
      Key(k) == IF k[1] = from.no THEN <<new.no, k[2]>> ELSE <<k[1], new.no>>
      Path(k) ==
        IF k[1] = from.no
          THEN <<Hop(new.dev, new.devNo, routes[k][1].out), routes[k][2]>>
          ELSE <<routes[k][1], Hop(new.dev, routes[k][2].in, new.devNo)>>
  IN Put(routes, [n \in {Key(k) : k \in Copied} |-> Path(CHOOSE k \in Copied : Key(k) = n)])

(***************************************************************************)
(* ComputeRoutes replaces all routes.  On an error it resets the object,   *)
(* except that fewer than two ports leave it as it was: err is not set on  *)
(* that return.  When the first NNI port has routes, they are copied to    *)
(* the second, and the function returns.                                   *)
(***************************************************************************)
NNIPorts(lps) == Only(lps, {lp \in Range(lps) : lp.root})
Reset == [dr |-> NewDeviceRoutes, ok |-> FALSE]

\* The UNI ports below the root that have a logical port: <<PON port of the
\* root, child, UNI port of the child, logical port>>.
Legs(root, lps, devices) ==
  UNION {UNION {UNION {{<<pon, peer.dev, uni, lp>> :
                          lp \in {l \in Range(lps) : l.dev = peer.dev /\ l.devNo = uni.no}} :
                 uni \in {u \in Range(devices[peer.dev].ports) : u.type = "UNI"}} :
           peer \in Range(pon.peers)} :
     pon \in {p \in Range(root.ports) : p.type = "PON_OLT"}}

Peers(device) ==
  UNION {{peer.dev : peer \in Range(p.peers)} :
           p \in {q \in Range(device.ports) : q.type = "PON_OLT"}}

LegRoutes(nni, legs, ponPorts) ==
  LET Path(leg) == <<Hop(nni.dev, nni.devNo, leg[1].no),
                     Hop(leg[2], GetDevicePonPorts(ponPorts, leg[2], nni.dev)[1].no, leg[3].no)>>
      keys == {<<nni.no, leg[4].no>> : leg \in legs} \cup {<<leg[4].no, nni.no>> : leg \in legs}
      LegOf(k) == CHOOSE leg \in legs : leg[4].no \in {k[1], k[2]}
  IN [k \in keys |-> BothWays(nni.no, LegOf(k)[4].no, Path(LegOf(k)))[k]]

ComputeRoutes(dr, lps, devices) ==
  LET nniPorts == NNIPorts(lps)
      first == nniPorts[1]
      children == Peers(devices[first.dev])
      ponPorts == CachePonPorts(<< >>, devices, {first.dev} \cup children)
      routes == LegRoutes(first, Legs(devices[first.dev], lps, devices), ponPorts)
  IN CASE Len(lps) < 2 -> [dr |-> dr, ok |-> FALSE]
       [] Len(lps) >= 2 /\ nniPorts = << >> -> Reset
       [] OTHER ->
            IF \/ first.dev \notin DOMAIN devices
               \/ devices[first.dev].ports = << >>
               \/ \E c \in children :
                    \/ c \notin DOMAIN devices
                    \/ GetDevicePonPorts(CachePonPorts(<< >>, devices, {c}), c, first.dev) = << >>
              THEN Reset
              ELSE [dr |-> [logicalPorts |-> lps,
                            rootPorts |-> {lp.no : lp \in Range(nniPorts)},
                            routes |-> IF Len(nniPorts) > 1 /\ routes # << >>
                                         THEN CopyFromExistingNNIRoutes(routes, nniPorts[2], first)
                                         ELSE routes,
                            ponPorts |-> ponPorts],
                    ok |-> TRUE]

(***************************************************************************)
(* AddPort adds the routes of one more logical port.                       *)
(***************************************************************************)
AddPortAndVerifyPrecondition(logicalPorts, lp) ==
  IF \E l \in Range(logicalPorts) : l.no = lp.no THEN logicalPorts ELSE Append(logicalPorts, lp)

AddUNIRoutes(routes, nniPorts, lp, ponPorts) ==
  LET Path(nni) == LET pon == GetDevicePonPorts(ponPorts, lp.dev, nni.dev)[1]
                   IN <<Hop(nni.dev, nni.devNo, pon.peers[1].no), Hop(lp.dev, pon.no, lp.devNo)>>
      keys == {<<nni.no, lp.no>> : nni \in Range(nniPorts)}
                \cup {<<lp.no, nni.no>> : nni \in Range(nniPorts)}
      NniOf(k) == CHOOSE nni \in Range(nniPorts) : nni.no \in {k[1], k[2]}
  IN Put(routes, [k \in keys |-> BothWays(NniOf(k).no, lp.no, Path(NniOf(k)))[k]])

AddPort(dr, lp, lps, devices) ==
  LET ports == AddPortAndVerifyPrecondition(dr.logicalPorts, lp)
      nniPorts == NNIPorts(ports)
      others == Only(nniPorts, {l \in Range(nniPorts) : l.no # lp.no})
      ponPorts ==
        IF GetDevicePonPorts(dr.ponPorts, lp.dev, nniPorts[1].dev) # << >> THEN dr.ponPorts
        ELSE CachePonPorts(dr.ponPorts, devices, {lp.dev})
      added == [dr EXCEPT !.logicalPorts = ports,
                          !.rootPorts = @ \cup (IF lp.root THEN {lp.no} ELSE {})]
  IN IF dr.routes = << >> THEN ComputeRoutes(dr, lps, devices)
     ELSE IF nniPorts = << >> \/ Len(nniPorts) = Len(ports) THEN Reset
     ELSE IF others = << >> THEN [dr |-> added, ok |-> TRUE]
     ELSE IF lp.root
       THEN [dr |-> [added EXCEPT !.routes = CopyFromExistingNNIRoutes(@, lp, others[1])], ok |-> TRUE]
     ELSE IF \/ /\ GetDevicePonPorts(dr.ponPorts, lp.dev, nniPorts[1].dev) = << >>
                /\ lp.dev \notin DOMAIN devices
             \/ GetDevicePonPorts(ponPorts, lp.dev, nniPorts[1].dev) = << >>
       THEN Reset
     ELSE [dr |-> [added EXCEPT !.routes = AddUNIRoutes(@, nniPorts, lp, ponPorts),
                                !.ponPorts = ponPorts], ok |-> TRUE]

\* Mutant: only the ports are counted.
IsUpToDatePortsOnly(dr, ports) == Len(dr.logicalPorts) = Len(ports)

\* IsUpToDate compares counts: of ports, and of routes with what they should be.
IsUpToDate(dr, ports) ==
  /\ Len(dr.logicalPorts) = Len(ports)
  /\ Cardinality(DOMAIN dr.routes)
       = Cardinality(dr.rootPorts) * (Len(ports) - Cardinality(dr.rootPorts)) * 2

(***************************************************************************)
(* GetRoute, as the set of answers it can give (the code takes the first   *)
(* entry of a map that fits, in an order the language leaves open); empty  *)
(* when it returns an error.  Port 0 stands for no port.                   *)
(***************************************************************************)
Upstream(dr, nnis) ==
  {<<NoHop, dr.routes[k][2]>> : k \in {l \in DOMAIN dr.routes : l[2] \in nnis}}

GetPreCalculatedRoute(dr, in, out) ==
  IF <<in, out>> \in DOMAIN dr.routes THEN {dr.routes[<<in, out>>]} ELSE {}

RouteTo(dr, nnis, in, out) ==
  IF in = 0 /\ out \in nnis THEN Upstream(dr, nnis)
  ELSE IF out = 0
    THEN {<<dr.routes[k][1], NoHop>> : k \in {l \in DOMAIN dr.routes : l[1] = in}}
  ELSE GetPreCalculatedRoute(dr, in, out)

GetRoute(dr, nnis, root, in, out) ==
  IF out # Controller THEN RouteTo(dr, nnis, in, out)
  ELSE IF in \notin nnis THEN UNION {RouteTo(dr, nnis, in, nni) : nni \in nnis}
  ELSE IF dr.routes = << >> THEN {<<Hop(root, in, in), Hop(root, in, in)>>}
  ELSE Upstream(dr, nnis)
===============================================================================
