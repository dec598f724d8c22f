------------------------ MODULE DeviceOwnershipProofs ------------------------
(***************************************************************************)
(* Ownership of a root device is exclusive, for any number of cores and    *)
(* any lease longer than the monitor's period, as long as monitors are on  *)
(* time and a core that stops comes back only once its reservation has     *)
(* expired.  Both assumptions are needed: without the second the run       *)
(* ownership_restart violates AtMostOneOwner, and without the first an     *)
(* owner whose lease has expired goes on owning the device.                *)
(***************************************************************************)
EXTENDS DeviceOwnership, TLAPS

\* An owner's reservation is attached to the lease its monitor renews, and
\* outlives the monitor's sleep by what the lease is longer than the period.
Owns(c) == keyOwner = c /\ c \in attached /\ keyTTL >= timer[c] + (TTL - Period)

\* The strengthening of AtMostOneOwner: only running cores ask or own, and a
\* running core that the key names knows that it owns the device.
IInv ==
  /\ TypeOK
  /\ \A c \in Cores : owned[c] # "absent" \/ asking[c] # "no" => c \in up
  /\ device => \A c \in Cores :
       /\ owned[c] = "yes" => Owns(c)
       /\ keyOwner = c /\ c \in up => owned[c] = "yes"

\* The initial state satisfies the invariant.
LEMMA InitIInv == Init => IInv
BY TimeAssumption, CoresAssumption DEF Init, IInv, TypeOK

\* OwnedByMe keeps the invariant: it reserves a key that is free, or leaves the
\* key to the core it names, which is another one.
LEMMA OwnedByMeKeepsIInv ==
  ASSUME IInv, NEW c \in Cores, FindKey(c) \/ OwnedByMe(c)
  PROVE  IInv'
<1>1. CASE FindKey(c)
  BY <1>1, TimeAssumption DEF FindKey, IInv, TypeOK, Owns
<1>2. CASE OwnedByMe(c)
  <2>1. CASE owned[c] # "absent"
    BY <1>2, <2>1, TimeAssumption DEF OwnedByMe, IInv, TypeOK, Owns
  <2>2. CASE owned[c] = "absent" /\ UNCHANGED <<keyOwner, keyTTL, attached>>
             /\ owned' = [owned EXCEPT ![c] = "no"]
    BY <1>2, <2>2, TimeAssumption DEF OwnedByMe, IInv, TypeOK, Owns
  <2>3. CASE owned[c] = "absent" /\ Reserve(c)
             /\ owned' = [owned EXCEPT ![c] = ReservedBy(c)]
    BY <1>2, <2>3, TimeAssumption, CoresAssumption
    DEF OwnedByMe, Reserve, ReservedBy, IInv, TypeOK, Owns
  <2> QED BY <1>2, <2>1, <2>2, <2>3 DEF OwnedByMe
<1> QED BY <1>1, <1>2

\* A monitor's tick keeps the invariant: an owner renews the lease of the key.
LEMMA MonitorKeepsIInv ==
  ASSUME IInv, NEW c \in Cores, MonitorOwnership(c)
  PROVE  IInv'
<1>1. CASE owned[c] = "yes" /\ Renew(c)
  BY <1>1, TimeAssumption DEF MonitorOwnership, Renew, IInv, TypeOK, Owns
<1>2. CASE owned[c] = "no" /\ Reserve(c) /\ owned' = [owned EXCEPT ![c] = ReservedBy(c)]
  BY <1>2, TimeAssumption, CoresAssumption
  DEF MonitorOwnership, Reserve, ReservedBy, IInv, TypeOK, Owns
<1> QED BY <1>1, <1>2 DEF MonitorOwnership

\* Removing the device keeps the invariant, which says little of a removed device.
LEMMA RemovalKeepsIInv ==
  ASSUME IInv, RemoveDevice
  PROVE  IInv'
BY DEF RemoveDevice, IInv, TypeOK

\* Abandoning the device, and stopping and starting a core, keep the invariant.
LEMMA DepartureKeepsIInv ==
  ASSUME IInv, ~MayRestart, NEW c \in Cores, AbandonDevice(c) \/ Stop(c) \/ Start(c)
  PROVE  IInv'
<1>1. CASE AbandonDevice(c)
  BY <1>1, TimeAssumption DEF AbandonDevice, IInv, TypeOK
<1>2. CASE Stop(c)
  <2>1. TypeOK'
    BY <1>2, TimeAssumption DEF Stop, IInv, TypeOK
  <2>2. ASSUME NEW d \in Cores, d # c
        PROVE  owned'[d] = owned[d] /\ asking'[d] = asking[d] /\ timer'[d] = timer[d]
    BY <1>2, <2>2 DEF Stop, IInv, TypeOK
  <2>3. owned'[c] = "absent" /\ asking'[c] = "no"
    BY <1>2 DEF Stop, IInv, TypeOK
  <2>4. ASSUME device', NEW d \in Cores, owned'[d] = "yes" PROVE Owns(d)'
    BY <1>2, <2>2, <2>3, <2>4 DEF Stop, IInv, Owns
  <2> QED BY <1>2, <2>1, <2>2, <2>3, <2>4 DEF Stop, IInv
<1>3. CASE Start(c)
  BY <1>3 DEF Start, IInv, TypeOK, Owns
<1> QED BY <1>1, <1>2, <1>3

\* The passing of a second keeps the invariant: with every monitor on time, an
\* owner's lease does not run out.
LEMMA TickKeepsIInv ==
  ASSUME IInv, ~MayStall, Tick
  PROVE  IInv'
<1>1. TypeOK'
  BY TimeAssumption DEF Tick, IInv, TypeOK
<1>2. ASSUME device, NEW c \in Cores, owned[c] = "yes" PROVE Owns(c)' /\ keyOwner' = keyOwner
  BY <1>2, TimeAssumption DEF Tick, IInv, TypeOK, Owns
<1> QED BY <1>1, <1>2, CoresAssumption DEF Tick, IInv, TypeOK

\* Every step keeps the invariant, when monitors are on time and cores do not
\* restart early.
LEMMA NextIInv ==
  ASSUME ~MayStall, ~MayRestart
  PROVE  IInv /\ [Next]_vars => IInv'
<1> SUFFICES ASSUME IInv, [Next]_vars PROVE IInv'
  OBVIOUS
<1>1. CASE UNCHANGED vars
  BY <1>1 DEF vars, IInv, TypeOK, Owns
<1>2. ASSUME NEW c \in Cores, FindKey(c) \/ OwnedByMe(c) PROVE IInv'
  BY <1>2, OwnedByMeKeepsIInv
<1>3. ASSUME NEW c \in Cores, MonitorOwnership(c) PROVE IInv'
  BY <1>3, MonitorKeepsIInv
<1>4. ASSUME NEW c \in Cores, AbandonDevice(c) \/ Stop(c) \/ Start(c) PROVE IInv'
  BY <1>4, DepartureKeepsIInv
<1>5. CASE RemoveDevice
  BY <1>5, RemovalKeepsIInv
<1>6. CASE Tick
  BY <1>6, TickKeepsIInv
<1> QED BY <1>1, <1>2, <1>3, <1>4, <1>5, <1>6 DEF Next

\* A core that thinks it owns the device is the one the ownership key names, so
\* two cores never both think so, when monitors are on time and cores do not
\* restart early.
THEOREM Exclusive ==
  ASSUME ~MayStall, ~MayRestart
  PROVE  Spec => []AtMostOneOwner
<1>1. IInv => AtMostOneOwner
  BY DEF IInv, AtMostOneOwner, Owns
<1> QED BY InitIInv, NextIInv, <1>1, PTL DEF Spec

\* Under the same assumptions an owner holds the reservation under a lease that
\* its monitor renews before it runs out.
THEOREM OwnerRenewsInTime ==
  ASSUME ~MayStall, ~MayRestart
  PROVE  Spec => []OwnerHoldsReservation
<1>1. IInv => OwnerHoldsReservation
  BY TimeAssumption DEF IInv, OwnerHoldsReservation, Owns, TypeOK
<1> QED BY InitIInv, NextIInv, <1>1, PTL DEF Spec
=============================================================================
