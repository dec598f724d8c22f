---------------------------- MODULE RequestsProofs ----------------------------
(***************************************************************************)
(* One core of a pair serves a request, and the record of the device in    *)
(* the store agrees with the device in the adapter, for any requests, any  *)
(* handlers and any number of faults.                                      *)
(***************************************************************************)
EXTENDS Requests, TLAPS

\* The system deploys the cores in pairs.
Pair == \A c, d, e \in Cores : c # d => e \in {c, d}

-----------------------------------------------------------------------------
(***************************************************************************)
(* The invariant.                                                          *)
(***************************************************************************)
Places == {"idle", "received", "watching", "serving", "answered", "lost"}

TypeInv ==
  /\ owner \in Cores \cup {"none"} /\ tracked \subseteq Cores
  /\ txn \in [Requests -> Cores \cup {"none", "abandoned", "complete"}]
  /\ pc \in [Cores -> [Requests -> Places]]
  /\ live \in [Cores -> SUBSET Requests]
  /\ DOMAIN sent = Requests
  /\ DOMAIN past = {"served", "torn", "removable"}

\* The core reserves a request that it receives now.
Ready(c) == owner = c \/ (owner = "none" /\ c \notin tracked)

\* Two cores that monitor the device do not both wait for it to be reserved.
OwnerInv == owner = "none" => \A c, d \in tracked : c = d

Served(c, r) == <<c, r>> \in past.served

\* Where the cores are with a request, by the state of its transaction.
PlaceInv(r) ==
  /\ sent[r] = NoRequest => txn[r] = "none" /\ \A c \in Cores : pc[c][r] \in {"idle", "received", "lost"}
  /\ \A c \in Cores : Served(c, r) => pc[c][r] \in {"serving", "answered"}
  /\ r \notin loose => \A c \in Cores : pc[c][r] \in {"received", "watching", "serving"} => r \in live[c]

HeldInv(r) ==
  /\ txn[r] \in Cores => pc[txn[r]][r] = "serving" /\ \A c \in Cores : Served(c, r) => c = txn[r]
  /\ txn[r] = "complete" => \A c, d \in Cores : Served(c, r) /\ Served(d, r) => c = d
  /\ txn[r] = "abandoned" => \E c \in Cores : pc[c][r] = "lost"

\* Nobody has reserved the request: while one core watches it, the other will reserve it.
FreeInv(r) ==
  /\ \A c, d \in Cores : Served(c, r) => pc[d][r] # "received"
  /\ \A c, d \in Cores : (Served(c, r) \/ pc[c][r] = "watching") /\ (Served(d, r) \/ pc[d][r] = "watching") => c = d
  /\ \A c, d \in Cores : c # d /\ pc[c][r] = "watching" /\ pc[d][r] = "received" => Ready(d)
  /\ sent[r].as = "nil" => \A c \in Cores : pc[c][r] # "watching"

RequestInv(r) ==
  /\ PlaceInv(r)
  /\ sent[r].as # "unkeyed" /\ r \notin loose =>
       HeldInv(r) /\ (txn[r] = "none" => FreeInv(r))

IInv == TypeInv /\ OwnerInv /\ \A r \in Requests : RequestInv(r)

\* The invariant holds at first.
LEMMA InitIInv == Init => IInv
<1> SUFFICES ASSUME Init PROVE IInv
  OBVIOUS
<1>1. TypeInv
  BY Zenon DEF Init, TypeInv, Places
<1>2. OwnerInv
  BY Zenon DEF Init, OwnerInv
<1>3. ASSUME NEW r \in Requests PROVE RequestInv(r)
  <2>1. /\ txn[r] = "none" /\ past.served = {} /\ \A c \in Cores : pc[c][r] = "idle"
    BY Zenon DEF Init
  <2> QED BY <2>1, CoresAssumption, Zenon DEF RequestInv, PlaceInv, HeldInv, FreeInv, Served
<1> QED BY <1>1, <1>2, <1>3, Zenon DEF IInv

\* The invariant bounds who serves a request.
LEMMA ServesOne == ASSUME Pair, IInv PROVE ServedOnce
<1> SUFFICES ASSUME NEW r \in Requests, r \notin loose, sent[r].as # "unkeyed",
                    NEW c \in Cores, NEW d \in Cores, Served(c, r), Served(d, r)
             PROVE  c = d
  BY Zenon DEF ServedOnce, Served
<1>1. PlaceInv(r) /\ HeldInv(r) /\ (txn[r] = "none" => FreeInv(r))
  BY Zenon DEF IInv, RequestInv
<1>2. txn[r] \in Cores \cup {"none", "abandoned", "complete"}
  BY Zenon DEF IInv, TypeInv
<1>3. CASE txn[r] = "abandoned"
  <2>1. PICK e \in Cores : pc[e][r] = "lost"
    BY <1>1, <1>3, Zenon DEF HeldInv
  <2>2. c # e /\ d # e
    BY <1>1, <2>1, Zenon DEF PlaceInv
  <2> QED BY <2>2, Zenon DEF Pair
<1> QED BY <1>1, <1>2, <1>3, Zenon DEF HeldInv, FreeInv

-----------------------------------------------------------------------------
(***************************************************************************)
(* The ownership of the device.                                            *)
(***************************************************************************)
\* A core that would reserve a request stays one, but for the requests that become loose.
Shift ==
  /\ loose \subseteq loose' /\ owner' \in Cores \cup {"none"} /\ tracked' \subseteq Cores /\ OwnerInv'
  /\ \A c, d \in Cores, r \in Requests :
       c # d /\ pc[c][r] = "watching" /\ txn[r] = "none" /\ r \notin loose' /\ Ready(d) => Ready(d)'

\* Nothing changes in the ownership.
LEMMA SameShift == ASSUME IInv, UNCHANGED <<owner, tracked, loose>> PROVE Shift
BY Zenon DEF Shift, IInv, TypeInv, OwnerInv, Ready

\* A core begins to monitor the device.
LEMMA OwnedShift == ASSUME Pair, IInv, NEW c \in Cores, NEW id, OwnedByMe(c, id) PROVE Shift
<1>1. tracked' = tracked \cup {c} /\ owner' = (IF c \notin tracked /\ owner = "none" THEN c ELSE owner)
  BY Zenon DEF OwnedByMe
<1>2. loose' = loose \cup {r \in Requests : owner # c /\ owner' = c /\ pc[c][r] = "watching" /\ txn[r] = "none"}
  BY Zenon DEF OwnedByMe, Loosens
<1>3. OwnerInv'
  BY <1>1, CoresAssumption, Zenon DEF OwnerInv, IInv
<1>4. ASSUME NEW x \in Cores, NEW d \in Cores, NEW r \in Requests, x # d, pc[x][r] = "watching",
             txn[r] = "none", r \notin loose', Ready(d)
      PROVE  Ready(d)'
  <2>1. CASE owner = d
    BY <1>1, <2>1, CoresAssumption, Zenon DEF Ready
  <2>2. CASE owner = "none" /\ d \notin tracked
    <3>1. CASE c = d
      BY <1>1, <2>2, <3>1, Zenon DEF Ready
    <3>2. CASE c # d
      <4>1. c = x
        BY <1>4, <3>2, Zenon DEF Pair
      <4>2. owner' # c
        BY <1>2, <1>4, <2>2, <4>1, CoresAssumption, Zenon
      <4> QED BY <1>1, <2>2, <3>2, <4>2, Zenon DEF Ready
    <3> QED BY <3>1, <3>2, Zenon
  <2> QED BY <1>4, <2>1, <2>2, Zenon DEF Ready
<1> QED BY <1>1, <1>2, <1>3, <1>4, Zenon DEF Shift, IInv, TypeInv

\* A core that monitors the device reserves it.
LEMMA MonitorShift == ASSUME Pair, IInv, NEW c \in Cores, MonitorOwnership(c) PROVE Shift
<1>1. owner = "none" /\ owner' = c /\ c \in tracked /\ UNCHANGED tracked
  BY Zenon DEF MonitorOwnership
<1>2. loose' = loose \cup {r \in Requests : owner # c /\ owner' = c /\ pc[c][r] = "watching" /\ txn[r] = "none"}
  BY Zenon DEF MonitorOwnership, Loosens
<1>3. ASSUME NEW x \in Cores, NEW d \in Cores, NEW r \in Requests, x # d, pc[x][r] = "watching",
             txn[r] = "none", r \notin loose', Ready(d)
      PROVE  Ready(d)'
  <2>1. d # c
    BY <1>1, <1>3, CoresAssumption, Zenon DEF Ready
  <2>2. x = c
    BY <1>3, <2>1, Zenon DEF Pair
  <2> QED BY <1>1, <1>2, <1>3, <2>2, CoresAssumption, Zenon
<1> QED BY <1>1, <1>2, <1>3, CoresAssumption, Zenon DEF Shift, IInv, TypeInv, OwnerInv

\* A core stops to monitor the device, or the reservation of one that did expires.
LEMMA LeaveShift ==
  ASSUME Pair, IInv, tracked' \subseteq tracked, UNCHANGED loose,
         \/ UNCHANGED owner
         \/ owner \in Cores /\ owner \notin tracked /\ owner' = "none" /\ UNCHANGED tracked
  PROVE  Shift
<1>1. CASE UNCHANGED owner
  BY <1>1, Zenon DEF Shift, IInv, TypeInv, OwnerInv, Ready
<1>2. CASE owner \in Cores /\ owner \notin tracked /\ owner' = "none" /\ UNCHANGED tracked
  <2>1. OwnerInv'
    BY <1>2, Zenon DEF OwnerInv, IInv, TypeInv, Pair
  <2>2. \A d \in Cores : Ready(d) => Ready(d)'
    BY <1>2, CoresAssumption, Zenon DEF Ready
  <2> QED BY <1>2, <2>1, <2>2, Zenon DEF Shift, IInv, TypeInv
<1> QED BY <1>1, <1>2, Zenon

\* stopManagingDevice leaves the reservation to expire.
LEMMA StopShift == ASSUME Pair, IInv, NEW c, StopManagingDevice(c) PROVE Shift
BY LeaveShift, Zenon DEF StopManagingDevice

-----------------------------------------------------------------------------
(***************************************************************************)
(* The requests.                                                           *)
(***************************************************************************)
\* A step that does not move a request.
LEMMA Elsewhere ==
  ASSUME IInv, Shift, NEW r \in Requests,
         sent'[r] = sent[r], txn'[r] = txn[r], \A c \in Cores : pc'[c][r] = pc[c][r],
         \A c \in Cores : r \in live[c] => r \in live'[c],
         \A c \in Cores : Served(c, r)' <=> Served(c, r)
  PROVE  RequestInv(r)'
<1>1. RequestInv(r) /\ loose \subseteq loose'
  BY Zenon DEF IInv, Shift
<1>2. PlaceInv(r)'
  BY <1>1, Zenon DEF RequestInv, PlaceInv
<1>3. ASSUME sent[r].as # "unkeyed", r \notin loose' PROVE HeldInv(r)' /\ (txn[r] = "none" => FreeInv(r)')
  <2>1. HeldInv(r) /\ (txn[r] = "none" => FreeInv(r))
    BY <1>1, <1>3, Zenon DEF RequestInv
  <2>2. HeldInv(r)'
    BY <2>1, Zenon DEF HeldInv
  <2>3. ASSUME txn[r] = "none" PROVE FreeInv(r)'
    <3>1. \A c, d \in Cores : c # d /\ pc[c][r] = "watching" /\ pc[d][r] = "received" => Ready(d)'
      BY <1>3, <2>1, <2>3, Zenon DEF FreeInv, Shift
    <3> QED BY <2>1, <2>3, <3>1, Zenon DEF FreeInv
  <2> QED BY <2>2, <2>3, Zenon
<1> QED BY <1>2, <1>3, Zenon DEF RequestInv

\* A step that moves no request.
LEMMA Quiet ==
  ASSUME IInv, Shift, UNCHANGED <<sent, txn, pc, live>>, past'.served = past.served, DOMAIN past' = DOMAIN past
  PROVE  IInv'
<1>1. TypeInv'
  BY Zenon DEF IInv, TypeInv, Shift
<1>2. \A r \in Requests : RequestInv(r)'
  BY Elsewhere, Zenon DEF Served
<1> QED BY <1>1, <1>2, Zenon DEF IInv, Shift

\* A step that moves one request at one core.
LEMMA Moved ==
  ASSUME IInv, Shift, NEW c \in Cores, NEW r \in Requests, NEW w \in Places, Go(c, r, w),
         UNCHANGED <<sent, live>>, DOMAIN past' = DOMAIN past,
         txn' \in [Requests -> Cores \cup {"none", "abandoned", "complete"}],
         \A q \in Requests \ {r} : txn'[q] = txn[q] /\ \A d \in Cores : Served(d, q)' <=> Served(d, q),
         RequestInv(r)'
  PROVE  IInv'
<1>1. pc' \in [Cores -> [Requests -> Places]]
      /\ \A d \in Cores, q \in Requests : q # r => pc'[d][q] = pc[d][q]
  BY Zenon DEF Go, IInv, TypeInv
<1>2. TypeInv'
  BY <1>1, Zenon DEF IInv, TypeInv, Shift
<1>3. ASSUME NEW q \in Requests, q # r PROVE RequestInv(q)'
  BY <1>1, <1>3, Elsewhere, Zenon
<1> QED BY <1>2, <1>3, Zenon DEF IInv, Shift

\* Where the cores are with the request that moves.
LEMMA Moves ==
  ASSUME TypeInv, NEW c \in Cores, NEW r \in Requests, NEW w, Go(c, r, w)
  PROVE  pc'[c][r] = w /\ \A d \in Cores : d # c => pc'[d][r] = pc[d][r]
BY Zenon DEF Go, TypeInv

\* Who serves a request once a core begins to.
LEMMA Serves ==
  ASSUME TypeInv, NEW c, NEW r, Serve(c, r)
  PROVE  /\ Go(c, r, "serving") /\ DOMAIN past' = DOMAIN past
         /\ \A d, q : Served(d, q)' <=> Served(d, q) \/ (d = c /\ q = r)
<1>1. past' = [past EXCEPT !.served = past.served \cup {<<c, r>>}]
  BY Zenon DEF Serve
<1>2. past'.served = past.served \cup {<<c, r>>} /\ DOMAIN past' = DOMAIN past
  BY <1>1, Zenon DEF TypeInv
<1> QED BY <1>2, Zenon DEF Serve, Served

\* A request is sent: nobody is about to serve it.
LEMMA SendKeeps == ASSUME IInv, NEW r \in Requests, Send(r) PROVE IInv'
<1>0. PICK load \in Workloads : sent' = [sent EXCEPT ![r] = load[r]]
  BY Zenon DEF Send
<1>1. Shift
  BY SameShift, Zenon DEF Send, core
<1>2. /\ UNCHANGED <<txn, past, owner, tracked, loose>> /\ sent[r] = NoRequest
      /\ sent' = [sent EXCEPT ![r] = load[r]]
      /\ pc' = [c \in Cores |-> IF c \in up THEN [pc[c] EXCEPT ![r] = "received"] ELSE pc[c]]
      /\ live' = [c \in Cores |-> IF c \in up THEN live[c] \cup {r} ELSE live[c]]
  BY <1>0, Zenon DEF Send, core
<1>3. /\ pc' \in [Cores -> [Requests -> Places]] /\ live' \in [Cores -> SUBSET Requests]
      /\ \A c \in Cores, q \in Requests : q # r => pc'[c][q] = pc[c][q]
      /\ \A c \in Cores : pc'[c][r] = IF c \in up THEN "received" ELSE pc[c][r]
      /\ \A c \in Cores : r \in live'[c] <=> r \in live[c] \/ c \in up
      /\ \A c \in Cores, q \in Requests : q \in live[c] => q \in live'[c]
  BY <1>2, Zenon DEF IInv, TypeInv, Places
<1>4. TypeInv'
  BY <1>2, <1>3, Zenon DEF IInv, TypeInv
<1>5. ASSUME NEW q \in Requests, q # r PROVE RequestInv(q)'
  <2>1. sent'[q] = sent[q]
    BY <1>2, <1>5, Zenon DEF IInv, TypeInv
  <2> QED BY <1>1, <1>2, <1>3, <1>5, <2>1, Elsewhere, Zenon DEF Served
<1>6. RequestInv(r)'
  <2>1. PlaceInv(r) /\ txn[r] = "none" /\ \A c \in Cores : pc[c][r] \in {"idle", "received", "lost"}
    BY <1>2, Zenon DEF IInv, RequestInv, PlaceInv
  <2>2. \A c \in Cores : pc'[c][r] \in {"idle", "received", "lost"} /\ ~Served(c, r)
    BY <1>3, <2>1, Zenon DEF PlaceInv
  <2>3. PlaceInv(r)'
    BY <1>2, <1>3, <2>1, <2>2, Zenon DEF PlaceInv, Served
  <2>4. HeldInv(r)' /\ FreeInv(r)'
    BY <1>2, <2>1, <2>2, CoresAssumption, Zenon DEF HeldInv, FreeInv, Served
  <2> QED BY <2>3, <2>4, Zenon DEF RequestInv
<1> QED BY <1>1, <1>4, <1>5, <1>6, Zenon DEF IInv, Shift

\* A core receives a request: it serves the one that it reserves, and watches another.
LEMMA AcquiredKeeps ==
  ASSUME Pair, IInv, Shift, NEW c \in Cores, NEW r \in Requests, pc[c][r] = "received", sent[r] # NoRequest,
         NEW mine \in BOOLEAN, Acquired(c, r, mine), UNCHANGED <<sent, live>>,
         sent[r].as = "nil" => mine,
         sent[r].as # "nil" =>
           /\ Ready(c) => mine
           /\ ~mine => \A d \in Cores : d # c => Ready(d)'
  PROVE  IInv'
<1>1. RequestInv(r) /\ loose \subseteq loose' /\ TypeInv
  BY Zenon DEF IInv, Shift
<1>2. CASE mine /\ txn[r] = "none" /\ Serve(c, r) /\ txn' = [txn EXCEPT ![r] = c]
  <2>1. /\ txn'[r] = c /\ \A q \in Requests : q # r => txn'[q] = txn[q]
        /\ txn' \in [Requests -> Cores \cup {"none", "abandoned", "complete"}]
    BY <1>1, <1>2, Zenon DEF TypeInv
  <2>2. /\ Go(c, r, "serving") /\ DOMAIN past' = DOMAIN past
        /\ \A d, q : Served(d, q)' <=> Served(d, q) \/ (d = c /\ q = r)
    BY <1>1, <1>2, Serves, Zenon
  <2>3. pc'[c][r] = "serving" /\ \A d \in Cores : d # c => pc'[d][r] = pc[d][r]
    BY <1>1, <2>2, Moves
  <2>4. PlaceInv(r)'
    BY <1>1, <2>1, <2>2, <2>3, Zenon DEF RequestInv, PlaceInv
  <2>5. ASSUME sent[r].as # "unkeyed", r \notin loose' PROVE HeldInv(r)'
    <3>1. \A d \in Cores : ~Served(d, r)
      BY <1>1, <1>2, <2>5, Zenon DEF RequestInv, FreeInv
    <3> QED BY <2>1, <2>2, <2>3, <3>1, CoresAssumption, Zenon DEF HeldInv
  <2>6. RequestInv(r)'
    BY <2>1, <2>4, <2>5, CoresAssumption, Zenon DEF RequestInv
  <2> QED BY <2>1, <2>2, <2>6, Moved, Zenon DEF Places
<1>3. CASE ~(mine /\ txn[r] = "none") /\ Go(c, r, "watching") /\ UNCHANGED <<txn, past>>
  <2>1. pc'[c][r] = "watching" /\ \A d \in Cores : d # c => pc'[d][r] = pc[d][r]
    BY <1>1, <1>3, Moves
  <2>2. PlaceInv(r)'
    BY <1>1, <1>3, <2>1, Zenon DEF RequestInv, PlaceInv, Served
  <2>3. ASSUME sent[r].as # "unkeyed", r \notin loose' PROVE HeldInv(r)' /\ (txn[r] = "none" => FreeInv(r)')
    <3>1. HeldInv(r) /\ (txn[r] = "none" => FreeInv(r))
      BY <1>1, <2>3, Zenon DEF RequestInv
    <3>2. HeldInv(r)'
      BY <1>3, <2>1, <3>1, Zenon DEF HeldInv, Served
    <3>3. ASSUME txn[r] = "none" PROVE FreeInv(r)'
      <4>1. sent[r].as # "nil" /\ ~mine /\ ~Ready(c) /\ \A d \in Cores : d # c => Ready(d)'
        BY <1>3, <3>3, Zenon
      <4>2. \A d \in Cores : ~Served(d, r) /\ pc[d][r] # "watching"
        BY <3>1, <3>3, <4>1, Zenon DEF FreeInv
      <4> QED BY <1>3, <2>1, <4>1, <4>2, Zenon DEF FreeInv, Served
    <3> QED BY <3>2, <3>3, Zenon
  <2>4. RequestInv(r)'
    BY <1>3, <2>2, <2>3, Zenon DEF RequestInv
  <2> QED BY <1>1, <1>3, <2>4, Moved, Zenon DEF Places, Served, TypeInv
<1> QED BY <1>2, <1>3, Zenon DEF Acquired

\* takeRequestOwnership: when neither core owns the device for sure, at most one of them
\* sees the other own it.
LEMMA TakeKeeps ==
  ASSUME Pair, IInv, NEW c \in Cores, NEW r \in Requests, TakeRequestOwnership(c, r) PROVE IInv'
<1>1. pc[c][r] = "received" /\ UNCHANGED <<sent, live>> /\ RequestInv(r) /\ TypeInv
  BY Zenon DEF TakeRequestOwnership, IInv
<1>2. CASE sent[r].as = "unkeyed" /\ Serve(c, r) /\ UNCHANGED <<core, txn>>
  <2>1. Shift /\ UNCHANGED loose
    BY <1>2, SameShift, Zenon DEF core
  <2>2. /\ Go(c, r, "serving") /\ DOMAIN past' = DOMAIN past
        /\ \A d, q : Served(d, q)' <=> Served(d, q) \/ (d = c /\ q = r)
    BY <1>1, <1>2, Serves, Zenon
  <2>3. pc'[c][r] = "serving" /\ \A d \in Cores : d # c => pc'[d][r] = pc[d][r]
    BY <1>1, <2>2, Moves
  <2>4. sent[r] # NoRequest
    BY <1>2 DEF NoRequest
  <2>5. PlaceInv(r)'
    BY <1>1, <1>2, <2>1, <2>2, <2>3, <2>4, Zenon DEF RequestInv, PlaceInv
  <2>6. RequestInv(r)'
    BY <1>1, <1>2, <2>5, Zenon DEF RequestInv
  <2> QED BY <1>1, <1>2, <2>1, <2>2, <2>6, Moved, Zenon DEF Places, TypeInv
<1>3. CASE sent[r].as = "nil" /\ Acquired(c, r, TRUE) /\ UNCHANGED core
  <2>1. Shift
    BY <1>3, SameShift, Zenon DEF core
  <2>2. sent[r] # NoRequest
    BY <1>3 DEF NoRequest
  <2> QED BY <1>1, <1>3, <2>1, <2>2, AcquiredKeeps, Zenon
<1>4. CASE sent[r].as \in {"device", "logical"} /\ OwnedByMe(c, sent[r].id) /\ Acquired(c, r, Owns(c))
  <2>1. Shift
    BY <1>4, OwnedShift, Zenon
  <2>2. sent[r] # NoRequest /\ sent[r].as # "nil"
    BY <1>4 DEF NoRequest
  <2>3. PICK mine \in BOOLEAN : mine = (owner' = c)
    BY Zenon
  <2>4. Acquired(c, r, mine)
    BY <1>4, <2>3, Zenon DEF Owns
  <2>5. tracked' = tracked \cup {c} /\ owner' = IF c \notin tracked /\ owner = "none" THEN c ELSE owner
    BY <1>4, Zenon DEF OwnedByMe
  <2>6. Ready(c) => mine
    BY <2>3, <2>5, Zenon DEF Ready
  <2>7. ASSUME ~mine, NEW d \in Cores, d # c PROVE Ready(d)'
    <3>1. owner' = owner /\ owner # c /\ (owner = "none" => c \in tracked)
      BY <2>3, <2>5, <2>7, CoresAssumption, Zenon
    <3>2. CASE owner = "none"
      BY <2>5, <2>7, <3>1, <3>2, Zenon DEF Ready, IInv, OwnerInv
    <3>3. CASE owner \in Cores
      BY <2>7, <3>1, <3>3, Zenon DEF Ready, Pair
    <3> QED BY <1>1, <3>2, <3>3, Zenon DEF TypeInv
  <2> QED BY <1>1, <2>1, <2>2, <2>4, <2>6, <2>7, AcquiredKeeps, Zenon
<1>5. CASE sent[r].as \in {"device", "logical"} /\ Go(c, r, "answered") /\ UNCHANGED <<core, txn, past>>
  <2>1. Shift /\ UNCHANGED <<loose, owner, tracked>>
    BY <1>5, SameShift, Zenon DEF core
  <2>2. pc'[c][r] = "answered" /\ \A d \in Cores : d # c => pc'[d][r] = pc[d][r]
    BY <1>1, <1>5, Moves
  <2>3. PlaceInv(r)'
    BY <1>1, <1>5, <2>1, <2>2 DEF RequestInv, PlaceInv, Served, NoRequest
  <2>4. ASSUME r \notin loose PROVE HeldInv(r)' /\ (txn[r] = "none" => FreeInv(r)')
    <3>1. HeldInv(r) /\ (txn[r] = "none" => FreeInv(r))
      BY <1>1, <1>5, <2>4, Zenon DEF RequestInv
    <3>2. HeldInv(r)'
      BY <1>1, <1>5, <2>2, <3>1, Zenon DEF HeldInv, Served
    <3>3. txn[r] = "none" => FreeInv(r)'
      BY <1>1, <1>5, <2>1, <2>2, <3>1 DEF FreeInv, Served, Ready
    <3> QED BY <3>2, <3>3, Zenon
  <2>5. RequestInv(r)'
    BY <1>1, <1>5, <2>1, <2>3, <2>4, Zenon DEF RequestInv
  <2> QED BY <1>1, <1>5, <2>1, <2>5, Moved, Zenon DEF Places, Served, TypeInv
<1> QED BY <1>2, <1>3, <1>4, <1>5, Zenon DEF TakeRequestOwnership, core

\* The other core has completed the request.
LEMMA NotAcquiredKeeps ==
  ASSUME Pair, IInv, NEW c \in Cores, NEW r \in Requests, NotAcquired(c, r) PROVE IInv'
<1>1. /\ pc[c][r] = "watching" /\ txn[r] = "complete" /\ Go(c, r, "answered") /\ UNCHANGED <<sent, live, txn>>
      /\ past' = [past EXCEPT !.torn = past.torn \/ TakenAway]
      /\ RequestInv(r) /\ TypeInv
  BY Zenon DEF NotAcquired, IInv
<1>2. Shift
  <2>1. CASE UNCHANGED <<owner, tracked, loose>>
    BY <2>1, SameShift, Zenon
  <2>2. ASSUME NEW id, OwnedByMe(c, id) PROVE Shift
    BY <2>2, OwnedShift, Zenon
  <2>3. CASE StopManagingDevice(c)
    BY <2>3, StopShift, Zenon
  <2> QED BY <2>1, <2>2, <2>3, Zenon DEF NotAcquired, DeletedByOther
<1>3. past'.served = past.served /\ DOMAIN past' = DOMAIN past
  BY <1>1, Zenon DEF TypeInv
<1>4. pc'[c][r] = "answered" /\ \A d \in Cores : d # c => pc'[d][r] = pc[d][r]
  BY <1>1, Moves, Zenon
<1>5. PlaceInv(r)'
  BY <1>1, <1>2, <1>3, <1>4, Zenon DEF RequestInv, PlaceInv, Served, Shift
<1>6. ASSUME sent[r].as # "unkeyed", r \notin loose' PROVE HeldInv(r)'
  <2>1. HeldInv(r)
    BY <1>1, <1>2, <1>6, Zenon DEF RequestInv, Shift
  <2> QED BY <1>1, <1>3, <2>1, CoresAssumption, Zenon DEF HeldInv, Served
<1>7. RequestInv(r)'
  BY <1>1, <1>5, <1>6, Zenon DEF RequestInv
<1> QED BY <1>1, <1>2, <1>3, <1>7, Moved, Zenon DEF Places, Served, TypeInv

\* A core takes over a request that was abandoned, or that nobody has reserved: of the
\* requests that nobody has reserved it is the only core that watches.
LEMMA TakeOverKeeps ==
  ASSUME IInv, NEW c \in Cores, NEW r \in Requests, TakeOver(c, r) PROVE IInv'
<1>1. /\ pc[c][r] = "watching" /\ Serve(c, r) /\ UNCHANGED <<sent, live, txn, owner, tracked, loose>>
      /\ txn[r] = "abandoned" \/ (txn[r] = "none" /\ \A d \in Cores : pc[d][r] # "received")
      /\ RequestInv(r) /\ TypeInv
  BY Zenon DEF TakeOver, IInv, core
<1>2. Shift
  BY <1>1, SameShift, Zenon
<1>3. /\ Go(c, r, "serving") /\ DOMAIN past' = DOMAIN past
      /\ \A d, q : Served(d, q)' <=> Served(d, q) \/ (d = c /\ q = r)
  BY <1>1, Serves, Zenon
<1>4. pc'[c][r] = "serving" /\ \A d \in Cores : d # c => pc'[d][r] = pc[d][r]
  BY <1>1, <1>3, Moves
<1>5. PlaceInv(r)'
  BY <1>1, <1>3, <1>4, Zenon DEF RequestInv, PlaceInv
<1>6. ASSUME sent[r].as # "unkeyed", r \notin loose PROVE HeldInv(r)' /\ (txn[r] = "none" => FreeInv(r)')
  <2>1. HeldInv(r) /\ (txn[r] = "none" => FreeInv(r))
    BY <1>1, <1>6, Zenon DEF RequestInv
  <2>2. HeldInv(r)'
    BY <1>1, <1>4, <2>1, CoresAssumption, Zenon DEF HeldInv
  <2>3. \A d \in Cores : Served(d, r)' \/ pc'[d][r] = "watching" => Served(d, r) \/ pc[d][r] = "watching"
    BY <1>1, <1>3, <1>4, Zenon
  <2>4. txn[r] = "none" => \A d \in Cores : pc'[d][r] # "received"
    BY <1>1, <1>4, CoresAssumption, Zenon
  <2>5. txn[r] = "none" => FreeInv(r)'
    BY <1>1, <2>1, <2>3, <2>4, Zenon DEF FreeInv
  <2> QED BY <2>2, <2>5, Zenon
<1>7. RequestInv(r)'
  BY <1>1, <1>5, <1>6, Zenon DEF RequestInv
<1> QED BY <1>1, <1>2, <1>3, <1>7, Moved, Zenon DEF Places, TypeInv

\* The handler returns.  Only the holder of the transaction completes it, and it fails to
\* do so only when its context is done.
LEMMA ReturnKeeps ==
  ASSUME IInv, Shift, NEW c \in Cores, NEW r \in Requests, NEW result, Return(c, r, result) PROVE IInv'
<1>1. /\ pc[c][r] = "serving" /\ Go(c, r, "answered") /\ Close(c, r) /\ UNCHANGED <<sent, live, past>>
      /\ RequestInv(r) /\ TypeInv /\ loose \subseteq loose'
  BY Zenon DEF Return, IInv, Shift
<1>2. pc'[c][r] = "answered" /\ \A d \in Cores : d # c => pc'[d][r] = pc[d][r]
  BY <1>1, Moves, Zenon
<1>3. /\ txn' \in [Requests -> Cores \cup {"none", "abandoned", "complete"}]
      /\ \A q \in Requests : q # r => txn'[q] = txn[q]
      /\ txn[r] # c => txn'[r] = txn[r]
      /\ txn[r] = c => txn'[r] = "complete" \/ (txn'[r] = "abandoned" /\ r \notin live[c])
  BY <1>1, Zenon DEF Close, TypeInv
<1>4. sent[r] # NoRequest
  BY <1>1, Zenon DEF RequestInv, PlaceInv
<1>5. PlaceInv(r)'
  BY <1>1, <1>2, <1>4, Zenon DEF RequestInv, PlaceInv, Served
<1>6. ASSUME sent[r].as # "unkeyed", r \notin loose' PROVE HeldInv(r)' /\ (txn'[r] = "none" => FreeInv(r)')
  <2>1. HeldInv(r) /\ (txn[r] = "none" => FreeInv(r)) /\ r \in live[c]
    BY <1>1, <1>6, Zenon DEF RequestInv, PlaceInv
  <2>2. CASE txn[r] = c
    BY <1>1, <1>3, <2>1, <2>2, CoresAssumption, Zenon DEF HeldInv, Served
  <2>3. CASE txn[r] # c
    <3>1. HeldInv(r)'
      BY <1>1, <1>2, <1>3, <2>1, <2>3, Zenon DEF HeldInv, Served
    <3>2. ASSUME txn[r] = "none" PROVE FreeInv(r)'
      <4>1. \A x, d \in Cores : x # d /\ pc[x][r] = "watching" /\ pc[d][r] = "received" => Ready(d)'
        BY <1>6, <2>1, <3>2, Zenon DEF FreeInv, Shift
      <4> QED BY <1>1, <1>2, <2>1, <3>2, <4>1, SMTT(30) DEF FreeInv, Served
    <3> QED BY <1>3, <2>3, <3>1, <3>2, Zenon
  <2> QED BY <2>2, <2>3, Zenon
<1>7. RequestInv(r)'
  BY <1>1, <1>5, <1>6, Zenon DEF RequestInv
<1> QED BY <1>1, <1>3, <1>7, Moved, Zenon DEF Places, Served

\* The context of a request is done.
LEMMA ContextKeeps ==
  ASSUME IInv, NEW c \in Cores, NEW r \in Requests, ContextDone(c, r) PROVE IInv'
<1>1. /\ UNCHANGED <<owner, tracked, sent, txn, pc, past>>
      /\ live' = [live EXCEPT ![c] = live[c] \ {r}]
      /\ loose' = IF pc[c][r] = "serving" THEN loose \cup {r} ELSE loose
      /\ pc[c][r] \in {"serving", "answered"}
  BY Zenon DEF ContextDone
<1>2. Shift
  BY <1>1, Zenon DEF Shift, IInv, TypeInv, OwnerInv, Ready
<1>3. /\ live' \in [Cores -> SUBSET Requests]
      /\ \A d \in Cores, q \in Requests : q \in live'[d] <=> q \in live[d] /\ ~(d = c /\ q = r)
  BY <1>1, Zenon DEF IInv, TypeInv
<1>4. TypeInv'
  BY <1>1, <1>3, Zenon DEF IInv, TypeInv
<1>5. ASSUME NEW q \in Requests PROVE RequestInv(q)'
  <2>1. CASE q # r
    BY <1>1, <1>2, <1>3, <2>1, Elsewhere, Zenon DEF Served
  <2>2. CASE q = r
    <3>1. RequestInv(r)
      BY Zenon DEF IInv
    <3>2. PlaceInv(r)'
      BY <1>1, <1>3, <3>1, Zenon DEF RequestInv, PlaceInv, Served
    <3>3. ASSUME r \notin loose' PROVE (HeldInv(r) => HeldInv(r)') /\ (FreeInv(r) => FreeInv(r)')
      BY <1>1, Zenon DEF HeldInv, FreeInv, Served, Ready
    <3> QED BY <1>1, <2>2, <3>1, <3>2, <3>3, Zenon DEF RequestInv
  <2> QED BY <2>1, <2>2, Zenon
<1> QED BY <1>2, <1>4, <1>5, Zenon DEF IInv, Shift

\* A core crashes: what it served counts no more, and the other core may take it over.
LEMMA DownKeeps ==
  ASSUME Pair, IInv, NEW c \in Cores, Down(c), DOMAIN past' = DOMAIN past,
         past'.served = past.served \ ({c} \X Requests)
  PROVE  IInv'
<1>1. UNCHANGED <<sent, owner, loose>> /\ tracked' = tracked \ {c}
  BY Zenon DEF Down
<1>2. Shift
  BY <1>1, LeaveShift, Zenon
<1>3. /\ txn' \in [Requests -> Cores \cup {"none", "abandoned", "complete"}]
      /\ \A r \in Requests : txn'[r] = IF txn[r] = c THEN "abandoned" ELSE txn[r]
  BY Zenon DEF Down, IInv, TypeInv
<1>4. /\ pc' \in [Cores -> [Requests -> Places]]
      /\ \A d \in Cores, r \in Requests : d # c => pc'[d][r] = pc[d][r]
      /\ \A r \in Requests : pc'[c][r] = IF pc[c][r] \in {"idle", "answered"} THEN pc[c][r] ELSE "lost"
  BY Zenon DEF Down, IInv, TypeInv, Places
<1>5. live' \in [Cores -> SUBSET Requests] /\ \A d \in Cores : d # c => live'[d] = live[d]
  BY Zenon DEF Down, IInv, TypeInv
<1>6. \A d \in Cores, r \in Requests : Served(d, r)' <=> Served(d, r) /\ d # c
  BY Zenon DEF Served
<1>7. TypeInv'
  BY <1>1, <1>3, <1>4, <1>5, Zenon DEF IInv, TypeInv
<1>8. ASSUME NEW r \in Requests PROVE RequestInv(r)'
  <2>1. RequestInv(r)
    BY Zenon DEF IInv
  <2>2. PlaceInv(r)'
    <3>1. sent[r] = NoRequest => txn'[r] = "none" /\ \A d \in Cores : pc'[d][r] \in {"idle", "received", "lost"}
      BY <1>3, <1>4, <2>1, CoresAssumption DEF RequestInv, PlaceInv
    <3>2. \A d \in Cores : Served(d, r)' => pc'[d][r] \in {"serving", "answered"}
      BY <1>4, <1>6, <2>1 DEF RequestInv, PlaceInv
    <3>3. r \notin loose => \A d \in Cores : pc'[d][r] \in {"received", "watching", "serving"} => r \in live'[d]
      BY <1>4, <1>5, <2>1 DEF RequestInv, PlaceInv
    <3> QED BY <1>1, <3>1, <3>2, <3>3, Zenon DEF PlaceInv
  <2>3. ASSUME sent[r].as # "unkeyed", r \notin loose PROVE HeldInv(r)' /\ (txn'[r] = "none" => FreeInv(r)')
    <3>1. HeldInv(r) /\ (txn[r] = "none" => FreeInv(r))
      BY <2>1, <2>3, Zenon DEF RequestInv
    <3>2. CASE txn[r] = c
      BY <1>3, <1>4, <3>1, <3>2, CoresAssumption, Zenon DEF HeldInv
    <3>3. CASE txn[r] # c
      <4>1. HeldInv(r)'
        BY <1>3, <1>4, <1>6, <3>1, <3>3, SMTT(30) DEF HeldInv
      <4>2. ASSUME txn[r] = "none" PROVE FreeInv(r)'
        <5>1. \A x, d \in Cores : x # d /\ pc[x][r] = "watching" /\ pc[d][r] = "received" => Ready(d)'
          BY <1>1, <1>2, <2>3, <3>1, <4>2, Zenon DEF FreeInv, Shift
        <5>2. \A d \in Cores : /\ pc'[d][r] = "received" => pc[d][r] = "received"
                               /\ pc'[d][r] = "watching" => pc[d][r] = "watching"
          BY <1>4, Zenon
        <5> QED BY <1>1, <1>6, <3>1, <4>2, <5>1, <5>2, Zenon DEF FreeInv
      <4> QED BY <1>3, <3>3, <4>1, <4>2, Zenon
    <3> QED BY <3>2, <3>3, Zenon
  <2> QED BY <1>1, <2>2, <2>3, Zenon DEF RequestInv
<1> QED BY <1>2, <1>7, <1>8, Zenon DEF IInv, Shift

\* The operations of the device agent move no request.
LEMMA OperationKeeps ==
  ASSUME IInv, NEW c \in Cores, NEW r \in Requests,
         \/ CreateDevice(c, r) \/ NoDevice(c, r) \/ LockDevice(c, r)
         \/ UpdateDeviceInStoreWithoutLock(c, r) \/ Invoke(c, r) \/ AdapterHandles(c, r)
         \/ Returns(c, r) \/ SendResponse(c, r)
  PROVE  IInv'
<1>1. UNCHANGED <<sent, txn, pc, live, owner, tracked, loose>>
  BY Zenon DEF CreateDevice, NoDevice, LockDevice, UpdateDeviceInStoreWithoutLock, Invoke, AdapterHandles,
         Returns, SendResponse, core, handling
<1>2. past'.served = past.served /\ DOMAIN past' = DOMAIN past
  BY Zenon DEF CreateDevice, NoDevice, LockDevice, UpdateDeviceInStoreWithoutLock, Invoke, AdapterHandles,
         Returns, SendResponse, IInv, TypeInv
<1> QED BY <1>1, <1>2, SameShift, Quiet, Zenon

\* The handlers of requests, and the goroutines that serve them.
LEMMA StepKeeps ==
  ASSUME Pair, IInv, NEW c \in Cores, NEW r \in Requests, Step(c, r) PROVE IInv'
<1>1. CASE ReturnSync(c, r) \/ WaitForNilResponseOnSuccess(c, r)
  <2>1. PICK result : Return(c, r, result)
    BY <1>1, Zenon DEF ReturnSync, WaitForNilResponseOnSuccess
  <2>2. UNCHANGED <<owner, tracked, loose>> \/ OwnedByMe(c, "device")
    BY <1>1, Zenon DEF ReturnSync, WaitForNilResponseOnSuccess
  <2>3. Shift
    BY <2>2, SameShift, OwnedShift, Zenon
  <2> QED BY <2>1, <2>3, ReturnKeeps, Zenon
<1> QED BY <1>1, TakeKeeps, NotAcquiredKeeps, TakeOverKeeps, OperationKeeps, Zenon DEF Step

\* Every step keeps the invariant.
LEMMA NextIInv == ASSUME Pair, IInv, [Next]_vars PROVE IInv'
<1>1. CASE UNCHANGED vars
  BY <1>1, SameShift, Quiet, Zenon DEF vars
<1>2. ASSUME NEW r \in Requests, Send(r) PROVE IInv'
  BY <1>2, SendKeeps, Zenon
<1>3. ASSUME NEW c \in Cores, NEW r \in Requests, Step(c, r) \/ ContextDone(c, r) PROVE IInv'
  BY <1>3, StepKeeps, ContextKeeps, Zenon
<1>4. ASSUME NEW c \in Cores, Down(c),
             past' = [past EXCEPT !.served = past.served \ ({c} \X Requests), !.torn = past.torn \/ lock[c] # "none"]
      PROVE  IInv'
  <2>1. DOMAIN past' = DOMAIN past /\ past'.served = past.served \ ({c} \X Requests)
    BY <1>4, Zenon DEF IInv, TypeInv
  <2> QED BY <1>4, <2>1, DownKeeps, Zenon
<1>5. ASSUME NEW c \in Cores, Crash(c) PROVE IInv'
  BY <1>4, <1>5, Zenon DEF Crash
<1>6. ASSUME NEW c \in Cores, NEW r \in Requests, Panic(c, r) PROVE IInv'
  BY <1>4, <1>6, Zenon DEF Panic
<1>7. ASSUME NEW c \in Cores, RegisterDevice(c) PROVE IInv'
  <2>1. Shift
    BY <1>7, OwnedShift, Zenon DEF RegisterDevice
  <2> QED BY <1>7, <2>1, Quiet, Zenon DEF RegisterDevice, handling
<1>8. ASSUME NEW c \in Cores, MonitorOwnership(c) PROVE IInv'
  <2>1. Shift
    BY <1>8, MonitorShift, Zenon
  <2> QED BY <1>8, <2>1, Quiet, Zenon DEF MonitorOwnership, handling
<1>9. ASSUME NEW c \in Cores, RunPostDeviceDelete(c) PROVE IInv'
  <2>1. Shift
    BY <1>9, SameShift, StopShift, Zenon DEF RunPostDeviceDelete
  <2>2. past'.served = past.served /\ DOMAIN past' = DOMAIN past
    BY <1>9, Zenon DEF RunPostDeviceDelete, IInv, TypeInv
  <2> QED BY <1>9, <2>1, <2>2, Quiet, Zenon DEF RunPostDeviceDelete, handling
<1>10. ASSUME NEW c \in Cores, Restart(c) PROVE IInv'
  <2>1. Shift
    BY <1>10, SameShift, Zenon DEF Restart
  <2> QED BY <1>10, <2>1, Quiet, Zenon DEF Restart, handling
<1>11. CASE ReservationExpires
  <2>1. owner \in Cores
    BY <1>11, Zenon DEF ReservationExpires, IInv, TypeInv
  <2>2. Shift
    BY <1>11, <2>1, LeaveShift, Zenon DEF ReservationExpires
  <2> QED BY <1>11, <2>2, Quiet, Zenon DEF ReservationExpires, handling
<1> QED
  BY <1>1, <1>2, <1>3, <1>5, <1>6, <1>7, <1>8, <1>9, <1>10, <1>11, Zenon DEF Next

\* One core of a pair serves a request, and the other watches it: takeRequestOwnership
\* gives it to the core that owns the device, or to the one that comes to own it, and the
\* transaction keeps the other from it until it is complete or that core has crashed.
THEOREM OneCoreServes == ASSUME Pair PROVE Spec => []ServedOnce
<1>1. IInv /\ [Next]_vars => IInv'
  BY NextIInv, Zenon
<1>2. IInv => ServedOnce
  BY ServesOne, Zenon
<1> QED BY InitIInv, <1>1, <1>2, PTL DEF Spec

-----------------------------------------------------------------------------
(***************************************************************************)
(* The store and the adapter.  What an operation has left to do leads to a *)
(* record that agrees with the device in the adapter, and to what was      *)
(* asked for.                                                              *)
(***************************************************************************)
Good(admin, h) ==
  /\ admin = "enabled" => h = "on"
  /\ admin = "disabled" => h = "off"
  /\ admin \in {"preprov", "deleted", "none"} => h = "none"

Asked(op, admin, h) ==
  /\ op = "enable" => admin = "enabled" /\ h = "on"
  /\ op = "disable" => admin = "disabled" /\ h = "off"
  /\ op = "delete" => admin \in {"deleted", "none"} /\ h = "none"

Right(op, admin, h) == Good(admin, h) /\ Asked(op, admin, h)

\* What a call leaves of the device in the adapter, and the calls that do not delete it.
After(h, to) == IF to = "same" THEN h ELSE to
Kept == {"same", "on", "off"}

\* A store is left, or a call, or a call after a store, or the store of a deletion after
\* the call.  Where an operation may fail without a trace, the two agree already.
StoreLeft(op, todo, call, admin, h) ==
  \E a : todo = <<Store(a)>> /\ call = "none" /\ Right(op, a, h) /\ (a # "deleted" => Good(admin, h))
CallLeft(op, todo, call, admin, h) ==
  \E to \in Kept : /\ todo = <<Proxy!Rpc(to)>> /\ Right(op, admin, After(h, to))
                   /\ call = "ok" => After(h, to) = h
BothLeft(op, todo, call, admin, h) ==
  \E a, to : /\ todo = <<Store(a), Proxy!Rpc(to)>> /\ a # "none" /\ to \in Kept /\ call = "none"
             /\ Right(op, a, After(h, to)) /\ Good(admin, h)
DeletionLeft(op, todo, call, admin, h) ==
  /\ todo = <<Proxy!Rpc("none"), Store("deleted")>> /\ Right(op, "deleted", "none")
  /\ IF call = "ok" THEN h = "none" ELSE Good(admin, h)

Left(op, todo, call, admin, h) ==
  \/ StoreLeft(op, todo, call, admin, h) \/ CallLeft(op, todo, call, admin, h)
  \/ BothLeft(op, todo, call, admin, h) \/ DeletionLeft(op, todo, call, admin, h)

\* Short lists.
LEMMA Lists ==
  ASSUME NEW x, NEW y
  PROVE  /\ <<x>> # << >> /\ Head(<<x>>) = x /\ Tail(<<x>>) = << >>
         /\ <<x, y>> # << >> /\ Head(<<x, y>>) = x /\ Tail(<<x, y>>) = <<y>>
OBVIOUS

\* Every operation of the device agent has such steps, or none.
PlanRight(op, plan, admin, h) ==
  \/ plan.steps = << >> /\ (plan.result = "ok" => Asked(op, admin, h))
  \/ plan.steps # << >> /\ Left(op, plan.steps, "none", admin, h)

\* An operation that does nothing, and one that refuses.
LEMMA IdlePlan ==
  ASSUME NEW op, NEW admin, NEW h
  PROVE  /\ PlanRight(op, Failed, admin, h)
         /\ Asked(op, admin, h) => PlanRight(op, Ok(<< >>), admin, h)
BY Zenon DEF PlanRight, Failed, Ok

\* An operation that stores the record, one that calls the adapter, and one that does both.
LEMMA StepsPlan ==
  ASSUME NEW op, NEW admin, NEW h, Good(admin, h), NEW a, a # "none", NEW to \in Kept
  PROVE  /\ Right(op, a, h) => PlanRight(op, Ok(<<Store(a)>>), admin, h)
         /\ Right(op, admin, After(h, to)) => PlanRight(op, Ok(<<Proxy!Rpc(to)>>), admin, h)
         /\ Right(op, a, After(h, to)) => PlanRight(op, Ok(<<Store(a), Proxy!Rpc(to)>>), admin, h)
         /\ Right(op, "deleted", "none") => PlanRight(op, Ok(<<Proxy!Rpc("none"), Store("deleted")>>), admin, h)
<1>1. \A steps : Ok(steps).steps = steps
  BY Zenon DEF Ok
<1>2. PICK s, x, y, z : s = Store(a) /\ x = Proxy!Rpc(to) /\ y = Proxy!Rpc("none") /\ z = Store("deleted")
  OBVIOUS
<1>3. <<s>> # << >> /\ <<x>> # << >> /\ <<s, x>> # << >> /\ <<y, z>> # << >>
  OBVIOUS
<1>4. Right(op, a, h) => StoreLeft(op, <<Store(a)>>, "none", admin, h)
  BY Zenon DEF StoreLeft
<1>5. Right(op, admin, After(h, to)) => CallLeft(op, <<Proxy!Rpc(to)>>, "none", admin, h)
  BY Zenon DEF CallLeft
<1>6. Right(op, a, After(h, to)) => BothLeft(op, <<Store(a), Proxy!Rpc(to)>>, "none", admin, h)
  BY Zenon DEF BothLeft
<1>7. Right(op, "deleted", "none") => DeletionLeft(op, <<Proxy!Rpc("none"), Store("deleted")>>, "none", admin, h)
  BY Zenon DEF DeletionLeft
<1> QED BY <1>1, <1>2, <1>3, <1>4, <1>5, <1>6, <1>7, Zenon DEF PlanRight, Left

\* The operations that store the record as it is, and may call the adapter for something
\* that does not show in it.
LEMMA SamePlans ==
  ASSUME NEW op, op \notin {"enable", "disable", "delete"}, NEW admin, admin # "none", NEW h, Good(admin, h)
  PROVE  /\ PlanRight(op, Failed, admin, h) /\ PlanRight(op, Ok(<< >>), admin, h)
         /\ PlanRight(op, Ok(<<Store(admin)>>), admin, h) /\ PlanRight(op, Ok(<<Proxy!Rpc("same")>>), admin, h)
         /\ PlanRight(op, Ok(<<Store(admin), Proxy!Rpc("same")>>), admin, h)
         /\ PlanRight(op, Ok(<<Store("downloading"), Proxy!Rpc("same")>>), admin, h)
         /\ h = "on" => PlanRight(op, Ok(<<Store("enabled")>>), admin, h)
         /\ h = "on" => PlanRight(op, Ok(<<Store("enabled"), Proxy!Rpc("same")>>), admin, h)
<1>1. Asked(op, admin, h) /\ Right(op, admin, h) /\ Right(op, "downloading", h) /\ (h = "on" => Right(op, "enabled", h))
  BY Zenon DEF Asked, Right, Good
<1>2. After(h, "same") = h /\ "same" \in Kept
  BY Zenon DEF After, Kept
<1>3. PlanRight(op, Failed, admin, h) /\ PlanRight(op, Ok(<< >>), admin, h)
  BY <1>1, IdlePlan, Zenon
<1>4. /\ PlanRight(op, Ok(<<Store(admin)>>), admin, h) /\ PlanRight(op, Ok(<<Proxy!Rpc("same")>>), admin, h)
      /\ PlanRight(op, Ok(<<Store(admin), Proxy!Rpc("same")>>), admin, h)
  BY <1>1, <1>2, StepsPlan, Zenon
<1>5. PlanRight(op, Ok(<<Store("downloading"), Proxy!Rpc("same")>>), admin, h)
  BY <1>1, <1>2, "downloading" # "none", StepsPlan, Zenon
<1>6. h = "on" => PlanRight(op, Ok(<<Store("enabled")>>), admin, h) /\ PlanRight(op, Ok(<<Store("enabled"), Proxy!Rpc("same")>>), admin, h)
  BY <1>1, <1>2, "enabled" # "none", StepsPlan, Zenon
<1> QED BY <1>3, <1>4, <1>5, <1>6, Zenon

\* The operations that enable, disable and delete the device.
LEMMA MovingPlans ==
  ASSUME NEW admin, admin # "none", NEW h, Good(admin, h)
  PROVE  /\ \A plan \in EnableDevice(admin) : PlanRight("enable", plan, admin, h)
         /\ \A plan \in DisableDevice(admin) : PlanRight("disable", plan, admin, h)
         /\ \A plan \in DeleteDevice(admin) : PlanRight("delete", plan, admin, h)
<1>1. \A op : PlanRight(op, Failed, admin, h)
  BY IdlePlan, Zenon
<1>2. /\ admin = "enabled" => Asked("enable", admin, h)
      /\ admin = "disabled" => Asked("disable", admin, h)
      /\ admin = "deleted" => Asked("delete", admin, h)
  BY Zenon DEF Asked, Good
<1>3. /\ admin = "enabled" => PlanRight("enable", Ok(<< >>), admin, h)
      /\ admin = "disabled" => PlanRight("disable", Ok(<< >>), admin, h)
      /\ admin = "deleted" => PlanRight("delete", Ok(<< >>), admin, h)
  BY <1>2, IdlePlan, Zenon
<1>4. /\ Right("enable", "enabled", After(h, "on")) /\ Right("disable", "disabled", After(h, "off"))
      /\ Right("delete", "deleted", "none") /\ (admin = "preprov" => Right("delete", "deleted", h))
      /\ {"on", "off"} \subseteq Kept
  BY Zenon DEF Right, Asked, Good, After, Kept
<1>5. PlanRight("enable", Ok(<<Store("enabled"), Proxy!Rpc("on")>>), admin, h)
  BY <1>4, "enabled" # "none", StepsPlan, Zenon
<1>6. PlanRight("disable", Ok(<<Store("disabled"), Proxy!Rpc("off")>>), admin, h)
  BY <1>4, "disabled" # "none", StepsPlan, Zenon
<1>7. /\ PlanRight("delete", Ok(<<Proxy!Rpc("none"), Store("deleted")>>), admin, h)
      /\ admin = "preprov" => PlanRight("delete", Ok(<<Store("deleted")>>), admin, h)
  BY <1>4, "deleted" # "none", StepsPlan, Zenon
<1>8. \A plan \in EnableDevice(admin) : PlanRight("enable", plan, admin, h)
  BY <1>1, <1>3, <1>5, Zenon DEF EnableDevice, Proxy!AdoptDevice, Proxy!ReEnableDevice
<1>9. \A plan \in DisableDevice(admin) : PlanRight("disable", plan, admin, h)
  BY <1>1, <1>3, <1>6, Zenon DEF DisableDevice, Proxy!DisableDevice
<1>10. \A plan \in DeleteDevice(admin) : PlanRight("delete", plan, admin, h)
  BY <1>3, <1>7, Zenon DEF DeleteDevice, Proxy!DeleteDevice
<1> QED BY <1>8, <1>9, <1>10, Zenon

\* The plan of every operation leads to what was asked for.  The operations on images
\* that make the device ENABLED do not enable it in the adapter.
LEMMA PlansRight ==
  ASSUME NEW op, NEW admin, admin # "none", NEW h, Good(admin, h),
         op \in {"cancel", "updateImage"} => h = "on", NEW plan \in Plans(op, admin)
  PROVE  PlanRight(op, plan, admin, h)
<1>1. CASE op \in {"enable", "disable", "delete"}
  BY <1>1, MovingPlans, Zenon DEF Plans
<1>2. CASE op \notin {"enable", "disable", "delete"}
  <2> DEFINE R(p) == PlanRight(op, p, admin, h)
  <2>1. /\ R(Failed) /\ R(Ok(<< >>)) /\ R(Ok(<<Store(admin)>>)) /\ R(Ok(<<Proxy!Rpc("same")>>))
        /\ R(Ok(<<Store(admin), Proxy!Rpc("same")>>)) /\ R(Ok(<<Store("downloading"), Proxy!Rpc("same")>>))
        /\ h = "on" => R(Ok(<<Store("enabled")>>)) /\ R(Ok(<<Store("enabled"), Proxy!Rpc("same")>>))
    BY <1>2, SamePlans, Zenon
  <2> HIDE DEF R
  <2>2. /\ \A p \in RebootDevice(admin) \cup GetImageDownloadStatus(admin) \cup SimulateAlarm(admin) : R(p)
        /\ \A p \in UpdatePmConfigs(admin) \cup ConfigurePort(admin) : R(p)
    BY <2>1, Zenon DEF RebootDevice, GetImageDownloadStatus, SimulateAlarm, UpdatePmConfigs, ConfigurePort,
         Proxy!RebootDevice, Proxy!GetImageDownloadStatus, Proxy!SimulateAlarm, Proxy!UpdatePmConfigs,
         Proxy!EnablePort, Proxy!DisablePort
  <2>3. \A p \in DownloadImage(admin) \cup ActivateImage(admin) \cup RevertImage(admin) : R(p)
    BY <2>1, Zenon DEF DownloadImage, ActivateImage, RevertImage, Proxy!DownloadImage,
         Proxy!ActivateImageUpdate, Proxy!RevertImageUpdate
  <2>4. h = "on" => \A p \in CancelImageDownload(admin) \cup UpdateImageDownload(admin) : R(p)
    BY <2>1, Zenon DEF CancelImageDownload, UpdateImageDownload, Proxy!CancelImageDownload
  <2>5. /\ \A p \in UpdateDeviceUsingAdapterData(admin) \cup UpdateDeviceStatus(admin) : R(p)
        /\ \A p \in UpdateDeviceReason(admin) \cup InitPmConfigs(admin) \cup UpdatePortsOperState(admin) : R(p)
        /\ \A p \in UpdatePortState(admin) \cup AddPort(admin) \cup DeleteAllPorts(admin) : R(p)
    BY <2>1, Zenon DEF UpdateDeviceUsingAdapterData, UpdateDeviceStatus, UpdateDeviceReason, InitPmConfigs,
         UpdatePortsOperState, UpdatePortState, AddPort, DeleteAllPorts
  <2>6. R(plan)
    BY <1>2, <2>1, <2>2, <2>3, <2>4, <2>5, Zenon DEF Plans
  <2> QED BY <2>6, Zenon DEF R
<1> QED BY <1>1, <1>2, Zenon

-----------------------------------------------------------------------------
(***************************************************************************)
(* The invariant of the store and the adapter.                             *)
(***************************************************************************)
Busy(c, r) == work[c][r].at = "busy"

Tables ==
  /\ DOMAIN sent = Requests /\ DOMAIN work = Cores /\ DOMAIN calls = Cores /\ DOMAIN pc = Cores /\ DOMAIN lock = Cores
  /\ DOMAIN past = {"served", "torn", "removable"}
  /\ \A c \in Cores : DOMAIN work[c] = Requests /\ DOMAIN calls[c] = Requests /\ DOMAIN pc[c] = Requests
  /\ \A c \in Cores, r \in Requests : DOMAIN calls[c][r] = {"at", "to"}

\* A request is served once it is sent, and the handler has come to it.
Begun ==
  \A c \in Cores, r \in Requests :
    /\ sent[r] = NoRequest => pc[c][r] \in {"idle", "received", "lost"}
    /\ pc[c][r] \in {"serving", "answered"} \/ work[c][r].at = "none"

\* No agent is at work on the device.
Resting ==
  /\ \A c \in Cores : lock[c] = "none"
  /\ \A c \in Cores, r \in Requests : ~Busy(c, r) /\ calls[c][r].at = "none"
  /\ Good(db, hw)

\* One is, and knows what it has left to do.
Solo(c, r) ==
  /\ lock[c] = r /\ \A d \in Cores : d # c => lock[d] = "none"
  /\ \A d \in Cores, q \in Requests : d # c \/ q # r => ~Busy(d, q) /\ calls[d][q].at = "none"
  /\ Busy(c, r) /\ db # "none"
  /\ calls[c][r].at # "none" => calls[c][r].to = Next1(c, r).to
  /\ Left(sent[r].op, work[c][r].todo, calls[c][r].at, db, hw)

Whole == Resting \/ \E c \in Cores, r \in Requests : Solo(c, r)

AgreeInv == Tables /\ Begun /\ (~past.torn => Whole)

\* What DoneMeansDone says of a step.
DoneStep ==
  \A c \in Cores, r \in Requests :
    (/\ work[c][r].at \in {"lock", "busy"}
     /\ work'[c][r].at = "report" /\ work'[c][r].result = "ok" /\ ~past'.torn) =>
      Asked(sent[r].op, db', hw')

\* The invariant holds at first.
LEMMA InitAgree == Init => AgreeInv
<1> SUFFICES ASSUME Init PROVE AgreeInv
  OBVIOUS
<1>1. Tables
  BY Zenon DEF Init, Tables, NoCall
<1>2. Begun
  BY Zenon DEF Init, Begun, NoWork, Work
<1>3. Resting
  BY Zenon DEF Init, Resting, Busy, NoWork, Work, NoCall, Good
<1> QED BY <1>1, <1>2, <1>3, Zenon DEF AgreeInv, Whole

\* The invariant makes the store and the adapter agree.
LEMMA WholeAgrees == AgreeInv => StoreAndAdapterAgree
<1> SUFFICES ASSUME AgreeInv, ~past.torn, \A c \in Cores, r \in Requests : ~Busy(c, r) PROVE Good(db, hw)
  BY ZenonT(60) DEF StoreAndAdapterAgree, Busy, Good
<1> QED BY Zenon DEF AgreeInv, Whole, Solo, Resting

\* A step of no agent at work leaves the invariant alone.
LEMMA Still ==
  ASSUME Tables, Whole, UNCHANGED <<hw, calls>>, \A d \in Cores : lock'[d] = lock[d],
         \A d \in Cores, q \in Requests : work'[d][q] = work[d][q] \/ (~Busy(d, q) /\ ~Busy(d, q)'),
         \A d \in Cores, q \in Requests : Busy(d, q) => sent'[q] = sent[q],
         \/ UNCHANGED db
         \/ Good(db', hw) /\ (db = "none" \/ \A d \in Cores : lock[d] = "none")
  PROVE  Whole'
<1>1. \A d \in Cores, q \in Requests : Busy(d, q)' <=> Busy(d, q)
  BY ZenonT(60) DEF Busy
<1>2. CASE Resting
  <2>1. Good(db', hw')
    BY <1>2, Zenon DEF Resting
  <2> QED BY <1>1, <1>2, <2>1, ZenonT(60) DEF Resting, Whole
<1>3. ASSUME NEW c \in Cores, NEW r \in Requests, Solo(c, r) PROVE Whole'
  <2>1. UNCHANGED db
    BY <1>3, CoresAssumption, Zenon DEF Solo
  <2>2. work'[c][r] = work[c][r] /\ sent'[r] = sent[r]
    BY <1>3, Zenon DEF Solo
  <2>3. Solo(c, r)'
    BY <1>1, <1>3, <2>1, <2>2, Zenon DEF Solo, Next1
  <2> QED BY <2>3, Zenon DEF Whole
<1> QED BY <1>2, <1>3, Zenon DEF Whole

\* The agent at work is the only one.
LEMMA Alone ==
  ASSUME Whole, NEW c \in Cores, NEW r \in Requests, Busy(c, r) \/ calls[c][r].at # "none"
  PROVE  Solo(c, r)
<1>1. ~Resting
  BY Zenon DEF Resting
<1>2. PICK d \in Cores, q \in Requests : Solo(d, q)
  BY <1>1, Zenon DEF Whole
<1>3. d = c /\ q = r
  BY <1>2, ZenonT(60) DEF Solo
<1> QED BY <1>2, <1>3, Zenon

\* The agent at work goes on.
LEMMA Proceeds ==
  ASSUME NEW c \in Cores, NEW r \in Requests, Solo(c, r), UNCHANGED sent,
         \A d \in Cores : lock'[d] = lock[d], Busy(c, r)', db' # "none",
         \A d \in Cores, q \in Requests : d # c \/ q # r => work'[d][q] = work[d][q] /\ calls'[d][q] = calls[d][q],
         calls'[c][r].at # "none" => calls'[c][r].to = Next1(c, r)'.to,
         Left(sent[r].op, work'[c][r].todo, calls'[c][r].at, db', hw')
  PROVE  Whole'
<1>1. \A d \in Cores, q \in Requests : d # c \/ q # r => ~Busy(d, q)' /\ calls'[d][q].at = "none"
  BY SMTT(30) DEF Solo, Busy
<1>2. Solo(c, r)'
  BY <1>1, ZenonT(60) DEF Solo
<1> QED BY <1>2, Zenon DEF Whole

\* The agent at work is done.
LEMMA Rests ==
  ASSUME NEW c \in Cores, NEW r \in Requests, Solo(c, r),
         lock'[c] = "none", \A d \in Cores : d # c => lock'[d] = lock[d], ~Busy(c, r)',
         \A d \in Cores, q \in Requests : d # c \/ q # r => work'[d][q] = work[d][q] /\ calls'[d][q] = calls[d][q],
         calls'[c][r].at = "none", Good(db', hw')
  PROVE  Whole'
<1>1. \A d \in Cores, q \in Requests : ~Busy(d, q)' /\ calls'[d][q].at = "none"
  BY SMTT(30) DEF Solo, Busy
<1>2. \A d \in Cores : lock'[d] = "none"
  BY Zenon DEF Solo
<1> QED BY <1>1, <1>2, Zenon DEF Resting, Whole

\* What a step leaves in place that changes nothing of the agents at work.
Calm ==
  /\ UNCHANGED <<hw, calls>> /\ \A d \in Cores : lock'[d] = lock[d]
  /\ \A d \in Cores, q \in Requests : work'[d][q] = work[d][q] \/ (~Busy(d, q) /\ ~Busy(d, q)')
  /\ \A d \in Cores, q \in Requests : Busy(d, q) => sent'[q] = sent[q]
  /\ \/ UNCHANGED db
     \/ Good(db', hw) /\ (db = "none" \/ \A d \in Cores : lock[d] = "none")

\* Such a step keeps the invariant.
LEMMA CalmKeeps ==
  ASSUME AgreeInv, Tables', Begun', ~past'.torn => ~past.torn /\ Calm
  PROVE  AgreeInv'
<1> SUFFICES ASSUME ~past'.torn PROVE Whole'
  BY Zenon DEF AgreeInv
<1> QED BY Still, Zenon DEF AgreeInv, Calm

\* The operation of a request goes on.
LEMMA Worked ==
  ASSUME Tables, NEW c \in Cores, NEW r \in Requests, NEW w, Works(c, r, w)
  PROVE  /\ work'[c][r] = w /\ DOMAIN work' = Cores /\ \A d \in Cores : DOMAIN work'[d] = Requests
         /\ \A d \in Cores, q \in Requests : d # c \/ q # r => work'[d][q] = work[d][q]
BY Zenon DEF Tables, Works

\* The handler of a request goes on.
LEMMA Went ==
  ASSUME Tables, NEW c \in Cores, NEW r \in Requests, NEW w, Go(c, r, w)
  PROVE  /\ DOMAIN pc' = Cores /\ \A d \in Cores : DOMAIN pc'[d] = Requests
         /\ \A d \in Cores, q \in Requests : d # c \/ q # r => pc'[d][q] = pc[d][q]
BY Zenon DEF Tables, Go

\* The tables, after a step on a request that was sent.
LEMMA TablesKept ==
  ASSUME Tables, Begun, NEW c \in Cores, NEW r \in Requests, sent[r] # NoRequest, UNCHANGED sent,
         UNCHANGED pc \/ \E w : Go(c, r, w), UNCHANGED work \/ \E w : Works(c, r, w),
         UNCHANGED lock \/ \E x : lock' = [lock EXCEPT ![c] = x],
         UNCHANGED calls \/ \E x : DOMAIN x = {"at", "to"} /\ calls' = [calls EXCEPT ![c][r] = x],
         pc'[c][r] \in {"serving", "answered"} \/ work'[c][r].at = "none", DOMAIN past' = DOMAIN past
  PROVE  Tables' /\ Begun'
<1>1. /\ DOMAIN work' = Cores /\ \A d \in Cores : DOMAIN work'[d] = Requests
      /\ \A d \in Cores, q \in Requests : d # c \/ q # r => work'[d][q] = work[d][q]
  <2>1. CASE UNCHANGED work
    BY <2>1, Zenon DEF Tables
  <2>2. CASE \E w : Works(c, r, w)
    BY <2>2, Worked, Zenon
  <2> QED BY <2>1, <2>2, Zenon
<1>2. /\ DOMAIN pc' = Cores /\ \A d \in Cores : DOMAIN pc'[d] = Requests
      /\ \A d \in Cores, q \in Requests : d # c \/ q # r => pc'[d][q] = pc[d][q]
  <2>1. CASE UNCHANGED pc
    BY <2>1, Zenon DEF Tables
  <2>2. CASE \E w : Go(c, r, w)
    BY <2>2, Went, Zenon
  <2> QED BY <2>1, <2>2, Zenon
<1>3. /\ DOMAIN calls' = Cores /\ \A d \in Cores : DOMAIN calls'[d] = Requests
      /\ \A d \in Cores, q \in Requests : DOMAIN calls'[d][q] = {"at", "to"}
  <2>1. CASE UNCHANGED calls
    BY <2>1 DEF Tables
  <2>2. ASSUME NEW x, DOMAIN x = {"at", "to"}, calls' = [calls EXCEPT ![c][r] = x]
        PROVE  /\ DOMAIN calls' = Cores /\ \A d \in Cores : DOMAIN calls'[d] = Requests
               /\ \A d \in Cores, q \in Requests : DOMAIN calls'[d][q] = {"at", "to"}
    BY <2>2 DEF Tables
  <2> QED BY <2>1, <2>2, Zenon
<1>4. DOMAIN lock' = Cores
  BY Zenon DEF Tables
<1>5. Tables'
  BY <1>1, <1>2, <1>3, <1>4, Zenon DEF Tables
<1>6. Begun'
  BY <1>1, <1>2 DEF Begun
<1> QED BY <1>5, <1>6, Zenon

\* The steps of the handlers, and of the monitor, change nothing of the operations.
LEMMA ElsewhereAgrees ==
  ASSUME AgreeInv, UNCHANGED <<db, hw, work, lock, calls, past, sent, pc>>
  PROVE  AgreeInv' /\ DoneStep
<1>1. Tables' /\ Begun'
  BY DEF AgreeInv, Tables, Begun
<1>2. Calm
  BY Zenon DEF Calm
<1>3. DoneStep
  BY Zenon DEF DoneStep
<1> QED BY <1>1, <1>2, <1>3, CalmKeeps, Zenon

\* A request is sent: no operation serves it yet.
LEMMA SendAgrees == ASSUME AgreeInv, NEW r \in Requests, Send(r) PROVE AgreeInv' /\ DoneStep
<1>0. PICK load \in Workloads : sent' = [sent EXCEPT ![r] = load[r]]
  BY Zenon DEF Send
<1>1. /\ UNCHANGED <<db, hw, work, lock, calls, past>> /\ sent[r] = NoRequest /\ sent' = [sent EXCEPT ![r] = load[r]]
      /\ pc' = [c \in Cores |-> IF c \in up THEN [pc[c] EXCEPT ![r] = "received"] ELSE pc[c]]
  BY <1>0, Zenon DEF Send, device, serving
<1>2. Tables /\ Begun
  BY Zenon DEF AgreeInv
<1>3. /\ DOMAIN pc' = Cores /\ \A c \in Cores : DOMAIN pc'[c] = Requests
      /\ \A c \in Cores, q \in Requests : pc'[c][q] = pc[c][q] \/ (q = r /\ pc'[c][q] = "received")
  BY <1>1, <1>2, Zenon DEF Tables
<1>4. DOMAIN sent' = Requests /\ \A q \in Requests : sent[q] # NoRequest => sent'[q] = sent[q]
  BY <1>1, <1>2, Zenon DEF Tables
<1>5. Tables'
  BY <1>1, <1>2, <1>3, <1>4 DEF Tables
<1>6. \A q \in Requests : sent'[q] = NoRequest => sent[q] = NoRequest
  BY <1>4, Zenon
<1>7. Begun'
  BY <1>1, <1>2, <1>3, <1>6 DEF Begun
<1>8. \A c \in Cores, q \in Requests : Busy(c, q) => sent'[q] = sent[q]
  BY <1>2, <1>4, Zenon DEF Begun, Busy
<1>9. Calm
  BY <1>1, <1>8, Zenon DEF Calm
<1>10. DoneStep
  BY <1>1, Zenon DEF DoneStep
<1> QED BY <1>1, <1>5, <1>7, <1>9, <1>10, CalmKeeps, Zenon

\* A step that changes one operation, which is not at work before it or after.
LEMMA IdleAgrees ==
  ASSUME AgreeInv, NEW c \in Cores, NEW r \in Requests, sent[r] # NoRequest,
         UNCHANGED <<hw, lock, calls, sent>>, UNCHANGED pc \/ \E w : Go(c, r, w), DOMAIN past' = DOMAIN past,
         UNCHANGED work \/ \E w : Works(c, r, w) /\ w.at # "busy", ~Busy(c, r),
         pc'[c][r] \in {"serving", "answered"} \/ work'[c][r].at = "none",
         ~past'.torn => ~past.torn,
         ~past'.torn => UNCHANGED db \/ (Good(db', hw) /\ (db = "none" \/ \A d \in Cores : lock[d] = "none")),
         (/\ work[c][r].at = "lock" /\ work'[c][r].at = "report" /\ work'[c][r].result = "ok" /\ ~past'.torn)
           => Asked(sent[r].op, db', hw')
  PROVE  AgreeInv' /\ DoneStep
<1>1. Tables /\ Begun
  BY Zenon DEF AgreeInv
<1>2. Tables' /\ Begun'
  BY <1>1, TablesKept, ZenonT(60)
<1>3. /\ \A d \in Cores, q \in Requests : d # c \/ q # r => work'[d][q] = work[d][q]
      /\ work'[c][r] = work[c][r] \/ ~Busy(c, r)'
  <2>1. CASE UNCHANGED work
    BY <2>1, Zenon
  <2>2. ASSUME NEW w, Works(c, r, w), w.at # "busy"
        PROVE  /\ \A d \in Cores, q \in Requests : d # c \/ q # r => work'[d][q] = work[d][q]
               /\ ~Busy(c, r)'
    BY <1>1, <2>2, Worked, Zenon DEF Busy
  <2> QED BY <2>1, <2>2, Zenon
<1>4. ~past'.torn => Calm
  BY <1>3, Zenon DEF Calm
<1>5. AgreeInv'
  BY <1>2, <1>4, CalmKeeps, Zenon
<1>6. DoneStep
  BY <1>3, Zenon DEF DoneStep, Busy
<1> QED BY <1>5, <1>6, Zenon

\* takeRequestOwnership, and the take-over of a request.
LEMMA TakeAgrees ==
  ASSUME AgreeInv, NEW c \in Cores, NEW r \in Requests, TakeRequestOwnership(c, r) \/ TakeOver(c, r)
  PROVE  AgreeInv' /\ DoneStep
<1>1. Tables /\ Begun
  BY Zenon DEF AgreeInv
<1>2. UNCHANGED <<db, hw, lock, calls, sent>>
  BY Zenon DEF TakeRequestOwnership, TakeOver, device
<1>3. sent[r] # NoRequest /\ pc[c][r] \in {"received", "watching"}
  <2>1. CASE TakeOver(c, r)
    BY <1>1, <2>1, Zenon DEF TakeOver, Begun
  <2>2. CASE TakeRequestOwnership(c, r)
    <3>1. pc[c][r] = "received" /\ sent[r].as \in {"unkeyed", "nil", "device", "logical"}
      BY <2>2, Zenon DEF TakeRequestOwnership
    <3> QED BY <3>1 DEF NoRequest
  <2> QED BY <2>1, <2>2, Zenon
<1>4. work[c][r].at = "none"
  BY <1>1, <1>3, Zenon DEF Begun
<1>5. Serve(c, r) \/ ((\E w : Go(c, r, w)) /\ UNCHANGED <<work, past>>)
  BY Zenon DEF TakeRequestOwnership, TakeOver, Acquired
<1>6. CASE Serve(c, r)
  <2>1. PICK w : w = Work("lock", << >>, "ok")
    OBVIOUS
  <2>2. /\ past' = [past EXCEPT !.served = past.served \cup {<<c, r>>}] /\ Go(c, r, "serving")
        /\ Works(c, r, w) /\ w.at = "lock"
    BY <1>6, <2>1, Zenon DEF Serve, Work
  <2>3. DOMAIN past' = DOMAIN past /\ past'.torn = past.torn
    BY <1>1, <2>2, Zenon DEF Tables
  <2>4. pc'[c][r] = "serving" /\ work'[c][r].at = "lock"
    BY <1>1, <2>2, Worked, SMTT(30) DEF Tables, Go
  <2> QED BY <1>2, <1>3, <1>4, <2>2, <2>3, <2>4, IdleAgrees DEF Busy
<1>7. CASE (\E w : Go(c, r, w)) /\ UNCHANGED <<work, past>>
  BY <1>2, <1>3, <1>4, <1>7, IdleAgrees, Zenon DEF Busy
<1> QED BY <1>5, <1>6, <1>7, Zenon

\* The removal of the record, which nobody is to use: what a core does that did not serve
\* the deletion of the device.
LEMMA NotAcquiredAgrees ==
  ASSUME AgreeInv, NEW c \in Cores, NEW r \in Requests, NotAcquired(c, r)
  PROVE  AgreeInv' /\ DoneStep
<1>1. Tables /\ Begun
  BY Zenon DEF AgreeInv
<1>2. UNCHANGED <<hw, sent, work, lock, calls>> /\ Go(c, r, "answered") /\ pc[c][r] = "watching"
  BY Zenon DEF NotAcquired, serving
<1>3. db' = db \/ db' = "none"
  BY Zenon DEF NotAcquired, DeletedByOther, StopManagingDevice
<1>4. past' = [past EXCEPT !.torn = past.torn \/ TakenAway]
  BY Zenon DEF NotAcquired
<1>5. DOMAIN past' = DOMAIN past /\ (~past'.torn => ~past.torn /\ ~TakenAway)
  BY <1>1, <1>4, Zenon DEF Tables
<1>6. ~past'.torn => UNCHANGED db \/ (Good(db', hw) /\ (db = "none" \/ \A d \in Cores : lock[d] = "none"))
  BY <1>3, <1>5, Zenon DEF TakenAway, Good
<1>7. sent[r] # NoRequest /\ work[c][r].at = "none" /\ pc'[c][r] = "answered"
  BY <1>1, <1>2, Zenon DEF Begun, Tables, Go
<1> QED BY <1>2, <1>5, <1>6, <1>7, IdleAgrees, Zenon DEF Busy

\* RunPostDeviceDelete removes the record.
LEMMA RunPostDeviceDeleteAgrees ==
  ASSUME AgreeInv, NEW c \in Cores, RunPostDeviceDelete(c) PROVE AgreeInv' /\ DoneStep
<1>1. Tables /\ Begun
  BY Zenon DEF AgreeInv
<1>2. UNCHANGED <<hw, sent, pc, work, lock, calls>>
  BY Zenon DEF RunPostDeviceDelete, handling
<1>3. db' = db \/ db' = "none"
  BY Zenon DEF RunPostDeviceDelete, StopManagingDevice
<1>4. past' = [past EXCEPT !.torn = past.torn \/ TakenAway]
  BY Zenon DEF RunPostDeviceDelete
<1>5. DOMAIN past' = DOMAIN past /\ (~past'.torn => ~past.torn /\ ~TakenAway)
  BY <1>1, <1>4, Zenon DEF Tables
<1>6. ~past'.torn => UNCHANGED db \/ (Good(db', hw) /\ (db = "none" \/ \A d \in Cores : lock[d] = "none"))
  BY <1>3, <1>5, Zenon DEF TakenAway, Good
<1>7. Tables' /\ Begun' /\ (~past'.torn => Calm)
  <2>1. Tables'
    BY <1>1, <1>2, <1>5, Zenon DEF Tables
  <2>2. Begun'
    BY <1>1, <1>2, Zenon DEF Begun
  <2>3. ~past'.torn => Calm
    BY <1>2, <1>6, Zenon DEF Calm
  <2> QED BY <2>1, <2>2, <2>3, Zenon
<1>8. DoneStep
  BY <1>2, Zenon DEF DoneStep
<1> QED BY <1>5, <1>7, <1>8, CalmKeeps, Zenon

\* createDevice, and a request that has nothing to do with the record.
LEMMA CreateAgrees ==
  ASSUME AgreeInv, NEW c \in Cores, NEW r \in Requests, CreateDevice(c, r) \/ NoDevice(c, r) \/ SendResponse(c, r)
  PROVE  AgreeInv' /\ DoneStep
<1>1. Tables /\ Begun
  BY Zenon DEF AgreeInv
<1>2. UNCHANGED <<hw, sent, pc, lock, calls, past>> /\ work[c][r].at \in {"lock", "report"}
  BY Zenon DEF CreateDevice, NoDevice, SendResponse, handling, device
<1>3. pc[c][r] \in {"serving", "answered"} /\ sent[r] # NoRequest
  BY <1>1, <1>2, Zenon DEF Begun
<1>4. PICK w : Works(c, r, w) /\ w.at # "busy" /\ (work[c][r].at = "lock" /\ w.result = "ok" => sent[r].op \in {"create", "elsewhere"})
  BY DEF CreateDevice, NoDevice, SendResponse, Work, Report, NoWork
<1>5. UNCHANGED db \/ (Good(db', hw) /\ db = "none")
  BY Zenon DEF CreateDevice, NoDevice, SendResponse, device, Fresh, Good
<1>6. work'[c][r] = w
  BY <1>1, <1>4, Worked, ZenonT(60)
<1>7. sent[r].op \in {"create", "elsewhere"} => Asked(sent[r].op, db', hw')
  BY Zenon DEF Asked
<1> QED BY <1>2, <1>3, <1>4, <1>5, <1>6, <1>7, IdleAgrees, Zenon DEF Busy

\* The handler returns.
LEMMA ReturnAgrees ==
  ASSUME AgreeInv, NEW c \in Cores, NEW r \in Requests, ReturnSync(c, r) \/ WaitForNilResponseOnSuccess(c, r)
  PROVE  AgreeInv' /\ DoneStep
<1>1. Tables /\ Begun
  BY DEF AgreeInv
<1>2. PICK result : Return(c, r, result)
  BY Zenon DEF ReturnSync, WaitForNilResponseOnSuccess
<1>3. UNCHANGED <<db, hw, sent, lock, calls, past>> /\ Go(c, r, "answered") /\ pc[c][r] = "serving"
  BY <1>2, Zenon DEF Return, device
<1>4. sent[r] # NoRequest /\ pc'[c][r] = "answered"
  BY <1>1, <1>3, Zenon DEF Begun, Tables, Go
<1>5. UNCHANGED work \/ (work[c][r].at \in {"over", "sending"} /\ Works(c, r, NoWork))
  BY Zenon DEF ReturnSync, WaitForNilResponseOnSuccess
<1>6. CASE UNCHANGED work
  <2>1. Tables' /\ Begun'
    BY <1>1, <1>3, <1>4, <1>6, TablesKept, ZenonT(60)
  <2>2. Calm /\ DoneStep
    BY <1>3, <1>6, ZenonT(60) DEF Calm, DoneStep
  <2> QED BY <1>3, <2>1, <2>2, CalmKeeps, Zenon
<1>7. CASE work[c][r].at \in {"over", "sending"} /\ Works(c, r, NoWork)
  <2>1. NoWork.at = "none" /\ work'[c][r] = NoWork
    BY <1>1, <1>7, Worked, SMTT(30) DEF NoWork, Work
  <2> QED BY <1>3, <1>4, <1>7, <2>1, IdleAgrees, Zenon DEF Busy
<1> QED BY <1>5, <1>6, <1>7, ZenonT(60)

\* The operation takes the lock of the agent: nobody is at work, and the agent has the
\* record as it is in the store.
LEMMA LockAgrees ==
  ASSUME AgreeInv, NEW c \in Cores, NEW r \in Requests, LockDevice(c, r)
  PROVE  AgreeInv' /\ DoneStep
<1>1. Tables /\ Begun
  BY DEF AgreeInv
<1>2. UNCHANGED <<db, hw, sent, pc, calls>> /\ work[c][r].at = "lock" /\ lock[c] = "none" /\ Loaded(c) # "none"
  BY Zenon DEF LockDevice, device, handling
<1>3. pc[c][r] \in {"serving", "answered"} /\ sent[r] # NoRequest
  BY <1>1, <1>2, Zenon DEF Begun
<1>4. PICK plan \in Plans(sent[r].op, Loaded(c)) :
        IF plan.steps = << >>
          THEN Works(c, r, Report(plan.result)) /\ UNCHANGED lock
          ELSE Works(c, r, Work("busy", plan.steps, "ok")) /\ lock' = [lock EXCEPT ![c] = r]
  BY Zenon DEF LockDevice
<1>5. past' = [past EXCEPT !.torn = \/ past.torn
                                    \/ Loaded(c) # db /\ sent[r].op # "read"
                                    \/ \E d \in Cores \ {c} : lock[d] # "none"
                                    \/ sent[r].op \in {"cancel", "updateImage"} /\ hw # "on"]
  BY Zenon DEF LockDevice
<1>6. DOMAIN past' = DOMAIN past
  BY <1>1, <1>5, Zenon DEF Tables
<1>7. Tables' /\ Begun'
  BY <1>1, <1>2, <1>3, <1>4, <1>6, TablesKept, ZenonT(60)
<1>8. ASSUME ~past'.torn
      PROVE  Whole' /\ (plan.steps = << >> /\ plan.result = "ok" => Asked(sent[r].op, db, hw))
  <2>1. past'.torn = (\/ past.torn
                      \/ Loaded(c) # db /\ sent[r].op # "read"
                      \/ \E d \in Cores \ {c} : lock[d] # "none"
                      \/ sent[r].op \in {"cancel", "updateImage"} /\ hw # "on")
    BY <1>1, <1>5, Zenon DEF Tables
  <2>2. ~past.torn /\ (Loaded(c) = db \/ sent[r].op = "read") /\ \A d \in Cores \ {c} : lock[d] = "none"
    BY <1>8, <2>1, Zenon
  <2>3. sent[r].op \in {"cancel", "updateImage"} => hw = "on"
    BY <1>8, <2>1, Zenon
  <2>4. \A d \in Cores : lock[d] = "none"
    BY <1>2, <2>2, Zenon
  <2>5. Resting
    BY <2>2, <2>4, CoresAssumption, Zenon DEF AgreeInv, Whole, Solo
  <2>6. CASE plan.steps = << >>
    <3>1. PICK w : w = Report(plan.result)
      BY Zenon
    <3>2. Works(c, r, w) /\ w.at = "report" /\ UNCHANGED lock
      BY <1>4, <2>6, <3>1, Zenon DEF Report, Work
    <3>3. /\ work'[c][r].at = "report"
          /\ \A d \in Cores, q \in Requests : d # c \/ q # r => work'[d][q] = work[d][q]
      BY <1>1, <3>2, Worked, SMTT(30)
    <3>4. Resting'
      BY <1>2, <2>5, <3>2, <3>3, Zenon DEF Resting, Busy
    <3>5. plan.result = "ok" => Asked(sent[r].op, db, hw)
      <4>1. CASE sent[r].op = "read"
        BY <4>1, Zenon DEF Asked
      <4>2. CASE Loaded(c) = db
        <5>1. PlanRight(sent[r].op, plan, db, hw)
          BY <1>2, <1>4, <2>3, <2>5, <4>2, PlansRight, Zenon DEF Resting
        <5> QED BY <2>6, <5>1, Zenon DEF PlanRight
      <4> QED BY <2>2, <4>1, <4>2, Zenon
    <3> QED BY <3>4, <3>5, Zenon DEF Whole
  <2>7. CASE plan.steps # << >>
    <3>1. PICK w : w = Work("busy", plan.steps, "ok")
      BY Zenon
    <3>2. Works(c, r, w) /\ w.at = "busy" /\ w.todo = plan.steps /\ lock' = [lock EXCEPT ![c] = r]
      BY <1>4, <2>7, <3>1, Zenon DEF Work
    <3>3. /\ work'[c][r] = w
          /\ \A d \in Cores, q \in Requests : d # c \/ q # r => work'[d][q] = work[d][q]
      BY <1>1, <3>2, Worked, SMTT(30)
    <3>4. lock'[c] = r /\ \A d \in Cores : d # c => lock'[d] = "none"
      BY <1>1, <2>4, <3>2, Zenon DEF Tables
    <3>5. Loaded(c) = db
      <4>1. sent[r].op = "read" => plan = Ok(<< >>)
        BY <1>4, Zenon DEF Plans
      <4>2. sent[r].op # "read"
        BY <2>7, <4>1 DEF Ok
      <4> QED BY <2>2, <4>2, Zenon
    <3>6. PlanRight(sent[r].op, plan, db, hw)
      BY <1>2, <1>4, <2>3, <2>5, <3>5, PlansRight, ZenonT(60) DEF Resting
    <3>7. Left(sent[r].op, plan.steps, "none", db, hw)
      BY <2>7, <3>6, Zenon DEF PlanRight
    <3>8. calls[c][r].at = "none" /\ \A d \in Cores, q \in Requests : ~Busy(d, q) /\ calls[d][q].at = "none"
      BY <2>5, Zenon DEF Resting
    <3>9. \A d \in Cores, q \in Requests : d # c \/ q # r => ~Busy(d, q)' /\ calls'[d][q].at = "none"
      BY <1>2, <3>3, <3>8, Zenon DEF Busy
    <3>10. /\ Busy(c, r)' /\ db' # "none" /\ calls'[c][r].at = "none"
           /\ Left(sent[r].op, work'[c][r].todo, calls'[c][r].at, db', hw')
      BY <1>2, <3>2, <3>3, <3>5, <3>7, <3>8, Zenon DEF Busy
    <3>11. Solo(c, r)'
      BY <1>2, <3>4, <3>9, <3>10, Zenon DEF Solo
    <3> QED BY <2>7, <3>11, Zenon DEF Whole
  <2> QED BY <2>6, <2>7, Zenon
<1>9. DoneStep
  <2>1. \A d \in Cores, q \in Requests : d # c \/ q # r => work'[d][q] = work[d][q]
    BY <1>1, <1>4, Worked, Zenon
  <2>2. work'[c][r].at = "report" => plan.steps = << >> /\ work'[c][r].result = plan.result
    <3>1. CASE plan.steps = << >>
      <4>1. PICK w : w = Report(plan.result)
        BY Zenon
      <4>2. w.result = plan.result
        BY <4>1, Zenon DEF Report, Work
      <4>3. Works(c, r, w)
        BY <1>4, <3>1, <4>1, Zenon
      <4>4. work'[c][r] = w
        BY <1>1, <4>3, Worked, Zenon
      <4> QED BY <3>1, <4>2, <4>4, Zenon
    <3>2. CASE plan.steps # << >>
      <4>1. PICK w : w = Work("busy", plan.steps, "ok")
        BY Zenon
      <4>2. w.at = "busy"
        BY <4>1, Zenon DEF Work
      <4>3. Works(c, r, w)
        BY <1>4, <3>2, <4>1, Zenon
      <4>4. work'[c][r] = w
        BY <1>1, <4>3, Worked, Zenon
      <4> QED BY <4>2, <4>4, Zenon
    <3> QED BY <3>1, <3>2, Zenon
  <2>3. ASSUME NEW d \in Cores, NEW q \in Requests, work[d][q].at \in {"lock", "busy"},
               work'[d][q].at = "report", work'[d][q].result = "ok", ~past'.torn
        PROVE  Asked(sent[q].op, db', hw')
    <3>1. d = c /\ q = r
      BY <2>1, <2>3, Zenon
    <3> QED BY <1>2, <1>8, <2>2, <2>3, <3>1, Zenon
  <2> QED BY <2>3, Zenon DEF DoneStep
<1> QED BY <1>7, <1>8, <1>9, Zenon DEF AgreeInv

\* The store that an operation does next.
LEMMA StoreNext ==
  ASSUME NEW op, NEW todo, NEW call, NEW admin, NEW h, Left(op, todo, call, admin, h), Head(todo).step = "store",
         NEW a, a = Head(todo).to
  PROVE  /\ call = "none" /\ (a # "deleted" => Good(admin, h))
         /\ Tail(todo) = << >> => Right(op, a, h)
         /\ Tail(todo) # << >> => a # "none" /\ Left(op, Tail(todo), "none", a, h)
<1>1. CASE StoreLeft(op, todo, call, admin, h)
  <2>1. PICK b : todo = <<Store(b)>> /\ call = "none" /\ Right(op, b, h) /\ (b # "deleted" => Good(admin, h))
    BY <1>1, Zenon DEF StoreLeft
  <2>2. Head(todo) = Store(b) /\ Tail(todo) = << >>
    BY <2>1
  <2> QED BY <2>1, <2>2 DEF Store
<1>2. CASE BothLeft(op, todo, call, admin, h)
  <2>1. PICK b, to : /\ todo = <<Store(b), Proxy!Rpc(to)>> /\ b # "none" /\ to \in Kept /\ call = "none"
                     /\ Right(op, b, After(h, to)) /\ Good(admin, h)
    BY <1>2, Zenon DEF BothLeft
  <2>2. Head(todo) = Store(b) /\ Tail(todo) = <<Proxy!Rpc(to)>> /\ Tail(todo) # << >>
    BY <2>1
  <2>3. a = b
    BY <2>2 DEF Store
  <2>4. CallLeft(op, Tail(todo), "none", a, h)
    BY <2>1, <2>2, <2>3, Zenon DEF CallLeft
  <2> QED BY <2>1, <2>2, <2>3, <2>4, Zenon DEF Left
<1>3. CASE CallLeft(op, todo, call, admin, h) \/ DeletionLeft(op, todo, call, admin, h)
  <2>1. \E to : Head(todo) = Proxy!Rpc(to)
    <3>1. CASE CallLeft(op, todo, call, admin, h)
      BY <3>1 DEF CallLeft
    <3>2. CASE DeletionLeft(op, todo, call, admin, h)
      BY <3>2 DEF DeletionLeft
    <3> QED BY <1>3, <3>1, <3>2, Zenon
  <2> QED BY <2>1 DEF Proxy!Rpc
<1> QED BY <1>1, <1>2, <1>3, Zenon DEF Left

\* The call that an operation does next: before the adapter takes it, when it does, and
\* when it has.
LEMMA CallNext ==
  ASSUME NEW op, NEW todo, NEW call, NEW admin, NEW h, Left(op, todo, call, admin, h), Head(todo).step = "rpc",
         NEW to, to = Head(todo).to
  PROVE  /\ call # "ok" => /\ \A x : x # "ok" => Left(op, todo, x, admin, h)
                           /\ Left(op, todo, "ok", admin, After(h, to))
                           /\ to \notin {"on", "off"} => Good(admin, h)
         /\ call = "ok" /\ Tail(todo) = << >> => Right(op, admin, h)
         /\ call = "ok" /\ Tail(todo) # << >> => Left(op, Tail(todo), "none", admin, h)
<1>1. CASE CallLeft(op, todo, call, admin, h)
  <2>1. PICK y \in Kept : /\ todo = <<Proxy!Rpc(y)>> /\ Right(op, admin, After(h, y))
                          /\ call = "ok" => After(h, y) = h
    BY <1>1, Zenon DEF CallLeft
  <2>2. Head(todo) = Proxy!Rpc(y) /\ Tail(todo) = << >>
    BY <2>1
  <2>3. to = y
    BY <2>2 DEF Proxy!Rpc
  <2>4. \A x : x # "ok" => CallLeft(op, todo, x, admin, h)
    BY <2>1, Zenon DEF CallLeft
  <2>5. After(After(h, to), to) = After(h, to)
    BY Zenon DEF After
  <2>6. CallLeft(op, todo, "ok", admin, After(h, to))
    BY <2>1, <2>3, <2>5, Zenon DEF CallLeft
  <2>7. to \notin {"on", "off"} => Good(admin, h)
    BY <2>1, <2>3, Zenon DEF Kept, After, Right
  <2> QED BY <2>1, <2>2, <2>3, <2>4, <2>6, <2>7, Zenon DEF Left
<1>2. CASE DeletionLeft(op, todo, call, admin, h)
  <2>1. /\ todo = <<Proxy!Rpc("none"), Store("deleted")>> /\ Right(op, "deleted", "none")
        /\ IF call = "ok" THEN h = "none" ELSE Good(admin, h)
    BY <1>2, Zenon DEF DeletionLeft
  <2>2. Head(todo) = Proxy!Rpc("none") /\ Tail(todo) = <<Store("deleted")>> /\ Tail(todo) # << >>
    BY <2>1
  <2>3. to = "none" /\ After(h, to) = "none"
    BY <2>2 DEF Proxy!Rpc, After
  <2>4. call # "ok" => \A x : x # "ok" => DeletionLeft(op, todo, x, admin, h)
    BY <2>1, Zenon DEF DeletionLeft
  <2>5. DeletionLeft(op, todo, "ok", admin, After(h, to))
    BY <2>1, <2>3, Zenon DEF DeletionLeft
  <2>6. call = "ok" => StoreLeft(op, Tail(todo), "none", admin, h)
    BY <2>1, <2>2, Zenon DEF StoreLeft
  <2> QED BY <2>1, <2>2, <2>4, <2>5, <2>6, Zenon DEF Left
<1>3. CASE StoreLeft(op, todo, call, admin, h) \/ BothLeft(op, todo, call, admin, h)
  <2>1. \E a : Head(todo) = Store(a)
    <3>1. CASE StoreLeft(op, todo, call, admin, h)
      BY <3>1 DEF StoreLeft
    <3>2. CASE BothLeft(op, todo, call, admin, h)
      BY <3>2 DEF BothLeft
    <3> QED BY <1>3, <3>1, <3>2, Zenon
  <2> QED BY <2>1 DEF Store
<1> QED BY <1>1, <1>2, <1>3, Zenon DEF Left

\* A call is out only while it is the next step.
LEMMA Calling ==
  ASSUME NEW op, NEW todo, NEW call, NEW admin, NEW h, Left(op, todo, call, admin, h), call # "none"
  PROVE  Head(todo).step = "rpc"
<1>1. \E to : Head(todo) = Proxy!Rpc(to)
  <2>1. CASE CallLeft(op, todo, call, admin, h)
    BY <2>1 DEF CallLeft
  <2>2. CASE DeletionLeft(op, todo, call, admin, h)
    BY <2>2 DEF DeletionLeft
  <2> QED BY <2>1, <2>2, Zenon DEF Left, StoreLeft, BothLeft
<1> QED BY <1>1 DEF Proxy!Rpc

\* An operation ends: it releases the lock of the agent.
LEMMA Ended ==
  ASSUME Tables, NEW c \in Cores, NEW r \in Requests, NEW result, Ends(c, r, result)
  PROVE  /\ \E w : Works(c, r, w)
         /\ \E x : lock' = [lock EXCEPT ![c] = x]
         /\ lock'[c] = "none" /\ \A d \in Cores : d # c => lock'[d] = lock[d]
         /\ work'[c][r].at = "report" /\ work'[c][r].result = result
         /\ \A d \in Cores, q \in Requests : d # c \/ q # r => work'[d][q] = work[d][q]
<1>1. PICK w : w = Report(result)
  OBVIOUS
<1>2. Works(c, r, w) /\ lock' = [lock EXCEPT ![c] = "none"] /\ w.at = "report" /\ w.result = result
  BY <1>1, Zenon DEF Ends, Report, Work
<1>3. lock'[c] = "none" /\ \A d \in Cores : d # c => lock'[d] = lock[d]
  BY <1>2, Zenon DEF Tables
<1>4. work'[c][r] = w /\ \A d \in Cores, q \in Requests : d # c \/ q # r => work'[d][q] = work[d][q]
  BY <1>2, Worked, Zenon
<1> QED BY <1>2, <1>3, <1>4, Zenon

\* An operation goes on, or ends.
LEMMA Continued ==
  ASSUME Tables, NEW c \in Cores, NEW r \in Requests, Continues(c, r), Tail(work[c][r].todo) # << >>
  PROVE  /\ \E w : Works(c, r, w)
         /\ UNCHANGED lock /\ work'[c][r].at = "busy" /\ work'[c][r].todo = Tail(work[c][r].todo)
         /\ \A d \in Cores, q \in Requests : d # c \/ q # r => work'[d][q] = work[d][q]
<1>1. PICK w : w = Work("busy", Tail(work[c][r].todo), "ok")
  BY Zenon
<1>2. Works(c, r, w) /\ UNCHANGED lock /\ w.at = "busy" /\ w.todo = Tail(work[c][r].todo)
  BY <1>1, Zenon DEF Continues, Work
<1>3. work'[c][r] = w /\ \A d \in Cores, q \in Requests : d # c \/ q # r => work'[d][q] = work[d][q]
  BY <1>2, Worked, ZenonT(60)
<1> QED BY <1>2, <1>3, Zenon

\* A step of an operation at work, and what it has to show.
LEMMA BusyAgrees ==
  ASSUME AgreeInv, NEW c \in Cores, NEW r \in Requests, work[c][r].at = "busy", UNCHANGED <<sent, pc>>,
         UNCHANGED work \/ \E w : Works(c, r, w), UNCHANGED lock \/ \E x : lock' = [lock EXCEPT ![c] = x],
         UNCHANGED calls \/ \E x : DOMAIN x = {"at", "to"} /\ calls' = [calls EXCEPT ![c][r] = x],
         DOMAIN past' = DOMAIN past,
         ~past'.torn => Whole',
         ~past'.torn /\ work'[c][r].at = "report" /\ work'[c][r].result = "ok" => Asked(sent[r].op, db', hw')
  PROVE  AgreeInv' /\ DoneStep
<1>1. Tables /\ Begun
  BY Zenon DEF AgreeInv
<1>2. sent[r] # NoRequest /\ pc[c][r] \in {"serving", "answered"}
  BY <1>1, Zenon DEF Begun
<1>3. Tables' /\ Begun'
  BY <1>1, <1>2, TablesKept, Zenon
<1>4. \A d \in Cores, q \in Requests : d # c \/ q # r => work'[d][q] = work[d][q]
  BY <1>1, Worked, Zenon
<1>5. DoneStep
  <2> SUFFICES ASSUME NEW d \in Cores, NEW q \in Requests, work[d][q].at \in {"lock", "busy"},
                      work'[d][q].at = "report", work'[d][q].result = "ok", ~past'.torn
               PROVE  Asked(sent[q].op, db', hw')
    BY Zenon DEF DoneStep
  <2>1. d = c /\ q = r
    BY <1>4, Zenon
  <2> QED BY <2>1, Zenon
<1> QED BY <1>3, <1>5, Zenon DEF AgreeInv

\* The record is stored, or it is not.
LEMMA UpdateAgrees ==
  ASSUME AgreeInv, NEW c \in Cores, NEW r \in Requests, UpdateDeviceInStoreWithoutLock(c, r)
  PROVE  AgreeInv' /\ DoneStep
<1>1. Tables
  BY Zenon DEF AgreeInv
<1>2. PICK to, todo, op : to = Next1(c, r).to /\ todo = work[c][r].todo /\ op = sent[r].op
  OBVIOUS
<1>3. /\ UNCHANGED <<hw, sent, pc, calls>> /\ work[c][r].at = "busy" /\ Head(todo).step = "store" /\ to = Head(todo).to
  BY <1>2, Zenon DEF UpdateDeviceInStoreWithoutLock, handling, Next1
<1>4. ASSUME ~past.torn
      PROVE  /\ Solo(c, r) /\ db # "none" /\ calls[c][r].at = "none" /\ (to # "deleted" => Good(db, hw))
             /\ Tail(todo) = << >> => Right(op, to, hw)
             /\ Tail(todo) # << >> => to # "none" /\ Left(op, Tail(todo), "none", to, hw)
  <2>1. Solo(c, r)
    BY <1>3, <1>4, Alone, Zenon DEF AgreeInv, Busy
  <2>2. Left(op, todo, calls[c][r].at, db, hw) /\ db # "none"
    BY <1>2, <2>1, Zenon DEF Solo
  <2> QED BY <1>3, <2>1, <2>2, StoreNext, Zenon
<1>5. CASE /\ db' \in (IF db = "none" THEN {"none", to} ELSE {to}) /\ Continues(c, r)
           /\ past' = [past EXCEPT !.removable = past.removable \/ to = "deleted"]
  <2>1. DOMAIN past' = DOMAIN past /\ past'.torn = past.torn
    BY <1>1, <1>5, Zenon DEF Tables
  <2>2. CASE Tail(todo) = << >>
    <3>1. Ends(c, r, "ok")
      BY <1>2, <1>5, <2>2, Zenon DEF Continues
    <3>2. /\ \E w : Works(c, r, w)
          /\ \E x : lock' = [lock EXCEPT ![c] = x]
          /\ lock'[c] = "none" /\ \A d \in Cores : d # c => lock'[d] = lock[d]
          /\ work'[c][r].at = "report"
          /\ \A d \in Cores, q \in Requests : d # c \/ q # r => work'[d][q] = work[d][q]
      BY <1>1, <3>1, Ended, ZenonT(60)
    <3>3. ASSUME ~past.torn PROVE Whole' /\ Asked(op, db', hw')
      <4>1. Right(op, db', hw')
        BY <1>3, <1>4, <1>5, <2>2, <3>3, Zenon
      <4>2. Solo(c, r) /\ calls[c][r].at = "none" /\ ~Busy(c, r)'
        BY <1>4, <3>2, <3>3, Zenon DEF Busy
      <4> QED BY <1>3, <3>2, <4>1, <4>2, Rests, Zenon DEF Right
    <3> QED BY <1>2, <1>3, <2>1, <3>2, <3>3, BusyAgrees, Zenon
  <2>3. CASE Tail(todo) # << >>
    <3>1. /\ \E w : Works(c, r, w)
          /\ UNCHANGED lock /\ work'[c][r].at = "busy" /\ work'[c][r].todo = Tail(todo)
          /\ \A d \in Cores, q \in Requests : d # c \/ q # r => work'[d][q] = work[d][q]
      BY <1>1, <1>2, <1>5, <2>3, Continued, ZenonT(60)
    <3>2. ASSUME ~past.torn PROVE Whole'
      <4>1. db' = to /\ to # "none" /\ Solo(c, r) /\ calls[c][r].at = "none" /\ Left(op, Tail(todo), "none", to, hw)
        BY <1>4, <1>5, <2>3, <3>2, Zenon
      <4>2. Busy(c, r)' /\ Left(sent[r].op, work'[c][r].todo, calls'[c][r].at, db', hw')
        BY <1>2, <1>3, <3>1, <4>1, ZenonT(60) DEF Busy
      <4> QED BY <1>3, <3>1, <4>1, <4>2, Proceeds, Zenon
    <3> QED BY <1>2, <1>3, <2>1, <3>1, <3>2, BusyAgrees, Zenon
  <2> QED BY <2>2, <2>3, Zenon
<1>6. CASE Ends(c, r, "error") /\ UNCHANGED db /\ past' = [past EXCEPT !.torn = past.torn \/ to = "deleted"]
  <2>1. DOMAIN past' = DOMAIN past /\ (~past'.torn => ~past.torn /\ to # "deleted")
    BY <1>1, <1>6, Zenon DEF Tables
  <2>2. /\ \E w : Works(c, r, w)
        /\ \E x : lock' = [lock EXCEPT ![c] = x]
        /\ lock'[c] = "none" /\ \A d \in Cores : d # c => lock'[d] = lock[d]
        /\ work'[c][r].at = "report" /\ work'[c][r].result = "error"
        /\ \A d \in Cores, q \in Requests : d # c \/ q # r => work'[d][q] = work[d][q]
    BY <1>1, <1>6, Ended, ZenonT(60)
  <2>3. ASSUME ~past'.torn PROVE Whole'
    <3>1. Solo(c, r) /\ calls[c][r].at = "none" /\ Good(db, hw) /\ ~Busy(c, r)'
      BY <1>4, <2>1, <2>2, <2>3, Zenon DEF Busy
    <3> QED BY <1>3, <1>6, <2>2, <3>1, Rests, Zenon
  <2> QED BY <1>3, <2>1, <2>2, <2>3, BusyAgrees, Zenon
<1> QED BY <1>2, <1>5, <1>6, Zenon DEF UpdateDeviceInStoreWithoutLock

\* The call goes out.
LEMMA InvokeAgrees ==
  ASSUME AgreeInv, NEW c \in Cores, NEW r \in Requests, Invoke(c, r) PROVE AgreeInv' /\ DoneStep
<1>1. Tables
  BY DEF AgreeInv
<1>2. PICK x : x = [at |-> "out", to |-> Next1(c, r).to]
  BY ZenonT(60)
<1>3. /\ UNCHANGED <<db, hw, sent, pc, work, lock, past>> /\ work[c][r].at = "busy" /\ Next1(c, r).step = "rpc"
      /\ calls[c][r].at = "none" /\ calls' = [calls EXCEPT ![c][r] = x]
  BY <1>2, Zenon DEF Invoke, device, handling
<1>4. DOMAIN x = {"at", "to"} /\ x.at = "out" /\ x.to = Next1(c, r).to
  BY <1>2, Zenon
<1>5. /\ calls'[c][r] = x
      /\ \A d \in Cores, q \in Requests : d # c \/ q # r => calls'[d][q] = calls[d][q]
  BY <1>1, <1>3, Zenon DEF Tables
<1>6. ASSUME ~past.torn PROVE Whole'
  <2>1. Solo(c, r)
    BY <1>3, <1>6, Alone, Zenon DEF AgreeInv, Busy
  <2>2. Left(sent[r].op, work[c][r].todo, "none", db, hw) /\ db # "none"
    BY <1>3, <2>1, Zenon DEF Solo
  <2>3. Left(sent[r].op, work[c][r].todo, "out", db, hw)
    BY <1>3, <2>2, CallNext, "none" # "ok", "out" # "ok", Zenon DEF Next1
  <2>4. Busy(c, r)' /\ Next1(c, r)' = Next1(c, r)
    BY <1>3, Zenon DEF Busy, Next1
  <2>5. Left(sent[r].op, work'[c][r].todo, calls'[c][r].at, db', hw')
    BY <1>3, <1>4, <1>5, <2>3, Zenon
  <2> QED BY <1>3, <1>4, <1>5, <2>1, <2>2, <2>4, <2>5, Proceeds, SMTT(30)
<1> QED BY <1>3, <1>4, <1>6, BusyAgrees, Zenon

\* The adapter takes a call, or refuses it.  When nothing is torn, the operation still
\* waits for its answer.
LEMMA AdapterAgrees ==
  ASSUME AgreeInv, NEW c \in Cores, NEW r \in Requests, AdapterHandles(c, r) PROVE AgreeInv' /\ DoneStep
<1>1. Tables /\ Begun
  BY DEF AgreeInv
<1>2. PICK to : to = calls[c][r].to
  OBVIOUS
<1>3. PICK at \in {"ok", "error"} :
        /\ calls' = [calls EXCEPT ![c][r] = [calls[c][r] EXCEPT !.at = at]]
        /\ hw' = IF at = "ok" THEN After(hw, to) ELSE hw
  <2>1. CASE hw' = After(hw, to) /\ calls' = [calls EXCEPT ![c][r] = [calls[c][r] EXCEPT !.at = "ok"]]
    BY <2>1, Zenon
  <2>2. CASE hw' = hw /\ calls' = [calls EXCEPT ![c][r] = [calls[c][r] EXCEPT !.at = "error"]]
    BY <2>2, Zenon
  <2> QED BY <1>2, <2>1, <2>2, Zenon DEF AdapterHandles, After
<1>4. PICK x : x = [calls[c][r] EXCEPT !.at = at]
  BY ZenonT(60)
<1>5. DOMAIN x = {"at", "to"} /\ x.at = at /\ x.to = to
  BY <1>1, <1>2, <1>4 DEF Tables
<1>6. UNCHANGED <<db, sent, pc, work, lock, past>> /\ calls[c][r].at = "out"
  BY Zenon DEF AdapterHandles, handling
<1>7. /\ calls'[c][r] = x /\ DOMAIN calls' = Cores /\ \A d \in Cores : DOMAIN calls'[d] = Requests
      /\ \A d \in Cores, q \in Requests : d # c \/ q # r => calls'[d][q] = calls[d][q]
  BY <1>1, <1>3, <1>4, Zenon DEF Tables
<1>8. \A d \in Cores, q \in Requests : DOMAIN calls'[d][q] = {"at", "to"}
  BY <1>1, <1>5, <1>7 DEF Tables
<1>9. Tables' /\ Begun'
  BY <1>1, <1>6, <1>7, <1>8, SMTT(30) DEF Tables, Begun
<1>10. ASSUME ~past.torn PROVE Whole'
  <2>1. Solo(c, r)
    BY <1>6, <1>10, Alone, Zenon DEF AgreeInv
  <2>2. /\ Left(sent[r].op, work[c][r].todo, "out", db, hw) /\ db # "none" /\ Busy(c, r)
        /\ to = Head(work[c][r].todo).to
    BY <1>2, <1>6, <2>1, Zenon DEF Solo, Next1
  <2>3. Head(work[c][r].todo).step = "rpc"
    BY <2>2, Calling, Zenon
  <2>4. PICK op, todo : op = sent[r].op /\ todo = work[c][r].todo
    BY Zenon
  <2>5. Left(op, todo, "error", db, hw) /\ Left(op, todo, "ok", db, After(hw, to))
    BY <2>2, <2>3, <2>4, CallNext, SMTT(30)
  <2>6. Left(sent[r].op, work[c][r].todo, at, db, hw')
    BY <1>3, <2>4, <2>5, Zenon
  <2>7. Busy(c, r)' /\ Next1(c, r)'.to = to
    BY <1>6, <2>2, Zenon DEF Busy, Next1
  <2>8. Left(sent[r].op, work'[c][r].todo, calls'[c][r].at, db', hw')
    BY <1>5, <1>6, <1>7, <2>6, Zenon
  <2>9. calls'[c][r].at # "none" => calls'[c][r].to = Next1(c, r)'.to
    BY <1>5, <1>7, <2>7, Zenon
  <2>10. UNCHANGED sent /\ db' # "none" /\ \A d \in Cores : lock'[d] = lock[d]
    BY <1>6, <2>2, Zenon
  <2>11. \A d \in Cores, q \in Requests : d # c \/ q # r => work'[d][q] = work[d][q] /\ calls'[d][q] = calls[d][q]
    BY <1>6, <1>7, Zenon
  <2> QED BY <2>1, <2>7, <2>8, <2>9, <2>10, <2>11, Proceeds
<1>11. DoneStep
  BY <1>6, Zenon DEF DoneStep
<1> QED BY <1>6, <1>9, <1>10, <1>11, Zenon DEF AgreeInv

\* The call returns.  An answer of the adapter tells what it did; a call that has timed out
\* does not.
LEMMA ReturnsAgrees ==
  ASSUME AgreeInv, NEW c \in Cores, NEW r \in Requests, Returns(c, r) PROVE AgreeInv' /\ DoneStep
<1>1. Tables
  BY DEF AgreeInv
<1>2. PICK to, todo, op, at : to = Next1(c, r).to /\ todo = work[c][r].todo /\ op = sent[r].op /\ at = calls[c][r].at
  OBVIOUS
<1>3. /\ UNCHANGED <<db, hw, sent, pc>> /\ work[c][r].at = "busy" /\ Head(todo).step = "rpc" /\ to = Head(todo).to
  BY <1>2, Zenon DEF Returns, handling, device, Next1
<1>4. ASSUME ~past.torn
      PROVE  /\ Solo(c, r) /\ db # "none"
             /\ at # "ok" /\ to \notin {"on", "off"} => Good(db, hw)
             /\ at = "ok" /\ Tail(todo) = << >> => Right(op, db, hw)
             /\ at = "ok" /\ Tail(todo) # << >> => Left(op, Tail(todo), "none", db, hw)
  <2>1. Solo(c, r)
    BY <1>3, <1>4, Alone, Zenon DEF AgreeInv, Busy
  <2>2. Left(op, todo, at, db, hw) /\ db # "none"
    BY <1>2, <2>1, Zenon DEF Solo
  <2> QED BY <1>3, <2>1, <2>2, CallNext, Zenon
<1>5. CASE /\ at \in {"ok", "error"} /\ calls' = [calls EXCEPT ![c][r] = NoCall]
           /\ IF at = "ok" THEN Continues(c, r) ELSE Ends(c, r, "error")
           /\ past' = [past EXCEPT !.torn = past.torn \/ (at = "error" /\ to \in {"on", "off"})]
  <2>1. DOMAIN past' = DOMAIN past /\ (~past'.torn => ~past.torn /\ ~(at = "error" /\ to \in {"on", "off"}))
    BY <1>1, <1>5, Zenon DEF Tables
  <2>2. DOMAIN NoCall = {"at", "to"} /\ NoCall.at = "none"
    BY Zenon DEF NoCall
  <2>3. calls'[c][r].at = "none" /\ \A d \in Cores, q \in Requests : d # c \/ q # r => calls'[d][q] = calls[d][q]
    BY <1>1, <1>5, <2>2, Zenon DEF Tables
  <2>4. CASE at = "error" \/ Tail(todo) = << >>
    <3>1. PICK result : Ends(c, r, result) /\ (at = "error" => result = "error")
      BY <1>2, <1>5, <2>4, Zenon DEF Continues
    <3>2. /\ \E w : Works(c, r, w)
          /\ \E x : lock' = [lock EXCEPT ![c] = x]
          /\ lock'[c] = "none" /\ \A d \in Cores : d # c => lock'[d] = lock[d]
          /\ work'[c][r].at = "report" /\ work'[c][r].result = result
          /\ \A d \in Cores, q \in Requests : d # c \/ q # r => work'[d][q] = work[d][q]
      BY <1>1, <3>1, Ended, Zenon
    <3>3. ASSUME ~past'.torn PROVE Whole' /\ (result = "ok" => Asked(op, db', hw'))
      <4>1. Good(db, hw) /\ (at = "ok" => Asked(op, db, hw)) /\ Solo(c, r) /\ ~Busy(c, r)'
        BY <1>4, <1>5, <2>1, <2>4, <3>2, <3>3, Zenon DEF Right, Busy
      <4>2. Whole'
        BY <1>3, <2>3, <3>2, <4>1, Rests, ZenonT(60)
      <4> QED BY <1>3, <1>5, <3>1, <4>1, <4>2, Zenon
    <3> QED BY <1>2, <1>3, <1>5, <2>1, <2>2, <3>2, <3>3, BusyAgrees, Zenon
  <2>5. CASE at = "ok" /\ Tail(todo) # << >>
    <3>1. /\ \E w : Works(c, r, w)
          /\ UNCHANGED lock /\ work'[c][r].at = "busy" /\ work'[c][r].todo = Tail(todo)
          /\ \A d \in Cores, q \in Requests : d # c \/ q # r => work'[d][q] = work[d][q]
      BY <1>1, <1>2, <1>5, <2>5, Continued, Zenon
    <3>2. ASSUME ~past'.torn PROVE Whole'
      <4>1. db # "none" /\ Solo(c, r) /\ Left(op, Tail(todo), "none", db, hw)
        BY <1>4, <2>1, <2>5, <3>2, Zenon
      <4>2. Busy(c, r)' /\ Left(sent[r].op, work'[c][r].todo, calls'[c][r].at, db', hw')
        BY <1>2, <1>3, <2>3, <3>1, <4>1, Zenon DEF Busy
      <4> QED BY <1>3, <2>3, <3>1, <4>1, <4>2, Proceeds, ZenonT(60)
    <3> QED BY <1>2, <1>3, <1>5, <2>1, <2>2, <3>1, <3>2, BusyAgrees, Zenon
  <2> QED BY <1>5, <2>4, <2>5, Zenon
<1>6. CASE Ends(c, r, "error") /\ past' = [past EXCEPT !.torn = TRUE] /\ UNCHANGED calls
  <2>1. DOMAIN past' = DOMAIN past /\ past'.torn
    BY <1>1, <1>6, Zenon DEF Tables
  <2>2. (\E w : Works(c, r, w)) /\ \E x : lock' = [lock EXCEPT ![c] = x]
    BY <1>1, <1>6, Ended, Zenon
  <2> QED BY <1>3, <1>6, <2>1, <2>2, BusyAgrees, Zenon
<1> QED BY <1>2, <1>5, <1>6, Zenon DEF Returns, UnPackResponse

\* A core crashes: what it was at work on is torn.
LEMMA DownAgrees ==
  ASSUME AgreeInv, NEW c \in Cores, Down(c), DOMAIN past' = DOMAIN past, ~past'.torn => ~past.torn /\ lock[c] = "none"
  PROVE  AgreeInv' /\ DoneStep
<1>1. Tables /\ Begun
  BY Zenon DEF AgreeInv
<1>2. UNCHANGED <<db, hw, sent, calls>> /\ lock' = [lock EXCEPT ![c] = "none"]
  BY Zenon DEF Down, device
<1>3. /\ DOMAIN pc' = Cores /\ \A d \in Cores : DOMAIN pc'[d] = Requests
      /\ \A d \in Cores, r \in Requests : d # c => pc'[d][r] = pc[d][r]
      /\ \A r \in Requests : pc'[c][r] = IF pc[c][r] \in {"idle", "answered"} THEN pc[c][r] ELSE "lost"
  BY <1>1, Zenon DEF Down, Tables
<1>4. /\ DOMAIN work' = Cores /\ \A d \in Cores : DOMAIN work'[d] = Requests
      /\ \A d \in Cores, r \in Requests : d # c => work'[d][r] = work[d][r]
      /\ \A r \in Requests : work'[c][r].at = "none"
  BY <1>1, Zenon DEF Down, Tables, NoWork, Work
<1>5. DOMAIN lock' = Cores /\ lock'[c] = "none" /\ \A d \in Cores : d # c => lock'[d] = lock[d]
  BY <1>1, <1>2, ZenonT(60) DEF Tables
<1>6. Tables'
  BY <1>1, <1>2, <1>3, <1>4, <1>5, SMTT(30) DEF Tables
<1>7. Begun'
  BY <1>1, <1>2, <1>3, <1>4 DEF Begun
<1>8. ASSUME ~past'.torn PROVE ~past.torn /\ Calm
  <2>1. ~past.torn /\ lock[c] = "none" /\ Whole
    BY <1>8, Zenon DEF AgreeInv
  <2>2. ASSUME NEW r \in Requests PROVE ~Busy(c, r)
    <3>1. Solo(c, r) => lock[c] = r /\ r # "none"
      BY CoresAssumption, Zenon DEF Solo
    <3> QED BY <2>1, <3>1, Alone, ZenonT(60)
  <2>3. \A d \in Cores, q \in Requests : work'[d][q] = work[d][q] \/ (~Busy(d, q) /\ ~Busy(d, q)')
    BY <1>4, <2>2, Zenon DEF Busy
  <2>4. \A d \in Cores : lock'[d] = lock[d]
    BY <1>5, <2>1, Zenon
  <2> QED BY <1>2, <2>1, <2>3, <2>4, Zenon DEF Calm
<1>9. DoneStep
  BY <1>4, Zenon DEF DoneStep
<1> QED BY <1>6, <1>7, <1>8, <1>9, CalmKeeps, Zenon

\* Every step keeps the invariant, and an operation that ends well has done what was asked.
LEMMA NextAgrees == ASSUME AgreeInv, [Next]_vars PROVE AgreeInv' /\ DoneStep
<1>1. CASE UNCHANGED vars
  BY <1>1, ElsewhereAgrees, Zenon DEF vars
<1>2. ASSUME NEW r \in Requests, Send(r) PROVE AgreeInv' /\ DoneStep
  BY <1>2, SendAgrees, Zenon
<1>3. ASSUME NEW c \in Cores, NEW r \in Requests, Step(c, r) PROVE AgreeInv' /\ DoneStep
  BY <1>3, TakeAgrees, NotAcquiredAgrees, CreateAgrees, LockAgrees, UpdateAgrees, InvokeAgrees, AdapterAgrees,
     ReturnsAgrees, ReturnAgrees, Zenon DEF Step
<1>4. ASSUME NEW c \in Cores, NEW r \in Requests, ContextDone(c, r) PROVE AgreeInv' /\ DoneStep
  BY <1>4, ElsewhereAgrees, Zenon DEF ContextDone, device, serving
<1>5. ASSUME NEW c \in Cores, Down(c),
             past' = [past EXCEPT !.served = past.served \ ({c} \X Requests), !.torn = past.torn \/ lock[c] # "none"]
      PROVE  AgreeInv' /\ DoneStep
  <2>1. DOMAIN past' = DOMAIN past /\ (~past'.torn => ~past.torn /\ lock[c] = "none")
    BY <1>5, Zenon DEF AgreeInv, Tables
  <2> QED BY <1>5, <2>1, DownAgrees, Zenon
<1>6. ASSUME NEW c \in Cores, Crash(c) PROVE AgreeInv' /\ DoneStep
  BY <1>5, <1>6, Zenon DEF Crash
<1>7. ASSUME NEW c \in Cores, NEW r \in Requests, Panic(c, r) PROVE AgreeInv' /\ DoneStep
  BY <1>5, <1>7, Zenon DEF Panic
<1>8. ASSUME NEW c \in Cores, RegisterDevice(c) \/ MonitorOwnership(c) \/ Restart(c) PROVE AgreeInv' /\ DoneStep
  BY <1>8, ElsewhereAgrees, Zenon DEF RegisterDevice, MonitorOwnership, Restart, device, handling, serving
<1>9. ASSUME NEW c \in Cores, RunPostDeviceDelete(c) PROVE AgreeInv' /\ DoneStep
  BY <1>9, RunPostDeviceDeleteAgrees, Zenon
<1>10. CASE ReservationExpires
  BY <1>10, ElsewhereAgrees, Zenon DEF ReservationExpires, device, handling, serving
<1> QED BY <1>1, <1>2, <1>3, <1>4, <1>6, <1>7, <1>8, <1>9, <1>10, Zenon DEF Next

\* The record in the store and the device in the adapter agree whenever no agent is at
\* work, for any cores, requests and faults: the agent holds its lock from the update of
\* the record to the answer of the adapter, and what it has left to do leads to a record
\* that agrees, unless the operation was torn.
THEOREM StoreAgrees == Spec => []StoreAndAdapterAgree
<1>1. AgreeInv /\ [Next]_vars => AgreeInv'
  BY NextAgrees, Zenon
<1> QED BY InitAgree, WholeAgrees, <1>1, PTL DEF Spec

\* An operation of the device agent that ends well has done what was asked for, in the
\* store and in the adapter.
THEOREM WellDone == Spec => DoneMeansDone
<1>1. AgreeInv /\ [Next]_vars => AgreeInv'
  BY NextAgrees
<1>2. AgreeInv /\ [Next]_vars =>
        [\A c \in Cores, r \in Requests :
           (/\ work[c][r].at \in {"lock", "busy"}
            /\ work'[c][r].at = "report" /\ work'[c][r].result = "ok" /\ ~past'.torn) =>
             /\ sent[r].op = "enable" => db' = "enabled" /\ hw' = "on"
             /\ sent[r].op = "disable" => db' = "disabled" /\ hw' = "off"
             /\ sent[r].op = "delete" => db' \in {"deleted", "none"} /\ hw' = "none"]_vars
  BY NextAgrees, Zenon DEF DoneStep, Asked
<1> QED BY InitAgree, <1>1, <1>2, PTL DEF Spec, DoneMeansDone
===============================================================================
