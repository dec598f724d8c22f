------------------------- MODULE KVTransactionProofs -------------------------
(***************************************************************************)
(* A core of a pair that reserved the transaction keeps it until it        *)
(* completes the request or crashes, for any request timeout, as long as   *)
(* the cores' steps are on time.  That they are a pair is needed: with a   *)
(* third core, a watcher that is told of the completion deletes the key    *)
(* that the third one may have reserved since.                             *)
(***************************************************************************)
EXTENDS KVTransaction, TLAPS

\* The cores are a pair.
Pair == \A c, d, e \in Cores : c = d \/ c = e \/ d = e

\* The durations, for what the proofs need of them.
LEMMA Durations ==
  /\ Duration \in Nat /\ Duration >= 5
  /\ TTL = 2 * Duration
  /\ RenewInterval = Duration
<1>1. Duration \in Nat /\ Duration >= 5
  BY TimeAssumption DEF Duration, MinTxnReservationDurationInSec
<1>2. TTL = 2 * Duration
  BY Zenon DEF TTL
<1>3. TTL \div 2 = Duration
  BY <1>1, <1>2
<1> QED BY <1>1, <1>2, <1>3 DEF RenewInterval, MinTxnRenewalIntervalInSec, NumTxnRenewalPerRequest

Event == {"put", "complete", "delete"}

\* An event of the completion is among the events s.
Told(s) == \E i \in 1..Len(s) : s[i] = "complete"

\* Other events do not tell of a completion, nor does reading one.
LEMMA ToldLater ==
  ASSUME NEW s \in Seq(Event)
  PROVE  /\ ~Told(<< >>)
         /\ \A e \in {"put", "delete"} : Append(s, e) \in Seq(Event) /\ (Told(Append(s, e)) => Told(s))
         /\ Append(s, "complete") \in Seq(Event)
         /\ s # << >> => Tail(s) \in Seq(Event) /\ (Told(Tail(s)) => Told(s))
         /\ s # << >> /\ Head(s) = "complete" => Told(s)
BY DEF Told, Event

\* The strengthening of HoldsTransaction: a core that holds the transaction
\* serves the request, its lease outlives the wait for the next renewal, and a
\* watcher is told of the completion by a core that is done.
IInv ==
  /\ pc \in [Cores -> PC]
  /\ timer \in [Cores -> 0..RenewInterval]
  /\ events \in [Cores -> Seq(Event)]
  /\ keyTTL \in 0..TTL
  /\ held \subseteq Cores
  /\ \A c \in held : pc[c] = "serving" /\ key = c /\ keyTTL >= timer[c] + Duration
  /\ \A c \in Cores : Told(events[c]) =>
       Watching(c) /\ \E d \in Cores : d # c /\ pc[d] = "done"

\* The initial state satisfies the invariant.
LEMMA InitIInv == Init => IInv
<1>1. << >> \in Seq(Event)
  OBVIOUS
<1>2. ~Told(<< >>)
  BY <1>1, ToldLater, Zenon
<1> QED BY <1>1, <1>2, Durations DEF Init, IInv, PC

\* In a pair, no core holds a transaction whose completion a watcher is told of.
LEMMA ToldIsFree ==
  ASSUME IInv, Pair, NEW c \in Cores, Told(events[c])
  PROVE  held = {}
BY DEF IInv, Pair, Watching

\* The events that a change of the key queues, other than its completion.
LEMMA NotifyEffect ==
  ASSUME IInv, NEW e \in {"put", "delete"}, NEW but, Notify(e, but)
  PROVE  /\ events' \in [Cores -> Seq(Event)]
         /\ \A d \in Cores : Told(events'[d]) => d # but /\ Told(events[d])
<1>1. ASSUME NEW d \in Cores
      PROVE  events'[d] \in Seq(Event) /\ (Told(events'[d]) => d # but /\ Told(events[d]))
  <2>1. events[d] \in Seq(Event)
    BY Zenon DEF IInv
  <2>2. << >> \in Seq(Event)
    OBVIOUS
  <2> QED BY <2>1, <2>2, ToldLater, Zenon DEF Notify
<1> QED BY <1>1, Zenon DEF Notify

\* A step of core c that is not done before keeps the invariant's last conjunct
\* when it tells nobody of a completion.
LEMMA QuietStep ==
  ASSUME IInv, NEW c \in Cores, pc[c] # "done", NEW where \in PC, Go(c, where),
         \A d \in Cores : Told(events'[d]) => Told(events[d]),
         Told(events'[c]) => where \in {"checking", "watching"}
  PROVE  /\ pc' \in [Cores -> PC]
         /\ \A d \in Cores : Told(events'[d]) =>
              Watching(d)' /\ \E o \in Cores : o # d /\ pc'[o] = "done"
BY Zenon DEF IInv, Go, Watching

\* A core that acquires the transaction finds no other one holding it.
LEMMA AcquiredKeepsIInv ==
  ASSUME IInv, NEW c \in Cores, Acquired(c)
  PROVE  IInv'
<1>1. CASE TryToReserveTxn(c)
  <2>1. /\ events' \in [Cores -> Seq(Event)]
        /\ \A d \in Cores : Told(events'[d]) => d # c /\ Told(events[d])
    BY <1>1, NotifyEffect, Zenon DEF TryToReserveTxn
  <2>2. /\ pc' \in [Cores -> PC]
        /\ \A d \in Cores : Told(events'[d]) =>
             Watching(d)' /\ \E o \in Cores : o # d /\ pc'[o] = "done"
    BY <1>1, <2>1, QuietStep, Zenon DEF TryToReserveTxn, Acquired, PC
  <2>3. held = {} /\ held' = {c}
    BY <1>1, CoresAssumption, Zenon DEF TryToReserveTxn, IInv
  <2> QED BY <1>1, <2>1, <2>2, <2>3, Durations DEF TryToReserveTxn, Go, IInv
<1>2. CASE Go(c, "opening") /\ UNCHANGED <<held, events, timer, kv>>
  <2>1. ~Told(events[c])
    BY Zenon DEF Acquired, IInv, Watching
  <2>2. /\ pc' \in [Cores -> PC]
        /\ \A d \in Cores : Told(events'[d]) =>
             Watching(d)' /\ \E o \in Cores : o # d /\ pc'[o] = "done"
    BY <1>2, <2>1, QuietStep, Zenon DEF Acquired, PC
  <2> QED BY <1>2, <2>2, Zenon DEF Acquired, Go, IInv, kv
<1> QED BY <1>1, <1>2, Zenon DEF Acquired

\* The end of a watch keeps the invariant: nobody holds the key that a watcher
\* deletes, and a core that takes over reserves nothing.
LEMMA WatchEnds ==
  ASSUME IInv, NEW c \in Cores, Watching(c), UNCHANGED held,
         (Completed(c) /\ held = {}) \/ TakeOver(c)
  PROVE  IInv'
<1>0. << >> \in Seq(Event)
  OBVIOUS
<1>1. ~Told(<< >>)
  BY <1>0, ToldLater, Zenon
<1>2. /\ events' \in [Cores -> Seq(Event)]
      /\ \A d \in Cores : Told(events'[d]) => d # c /\ Told(events[d])
  <2>1. CASE Notify("delete", c)
    BY <2>1, NotifyEffect, Zenon
  <2>2. CASE events' = [events EXCEPT ![c] = << >>]
    BY <2>2, <1>0, <1>1, Zenon DEF IInv
  <2> QED BY <2>1, <2>2, Zenon DEF Completed, TakeOver
<1>3. PICK where \in PC : Go(c, where) /\ where \in {"dropped", "serving"}
  BY Zenon DEF Completed, TakeOver, PC
<1>4. /\ pc' \in [Cores -> PC]
      /\ \A d \in Cores : Told(events'[d]) =>
           Watching(d)' /\ \E o \in Cores : o # d /\ pc'[o] = "done"
  BY <1>2, <1>3, QuietStep, Zenon DEF Watching
<1>5. \A d \in held : d # c
  BY Zenon DEF IInv, Watching
<1> QED BY <1>2, <1>3, <1>4, <1>5, Durations DEF Completed, TakeOver, Go, IInv, kv

\* The steps of a watch keep the invariant.
LEMMA WatchKeepsIInv ==
  ASSUME IInv, Pair, NEW c \in Cores,
         OpenWatch(c) \/ CheckKey(c) \/ ReceiveEvent(c) \/ WatchTimeout(c)
  PROVE  IInv'
<1>1. ASSUME Watching(c), UNCHANGED held, Completed(c), key = "complete" \/ Told(events[c])
      PROVE  IInv'
  <2>1. held = {}
    BY <1>1, ToldIsFree, CoresAssumption, Zenon DEF IInv
  <2> QED BY <1>1, <2>1, WatchEnds, Zenon
<1>2. ASSUME Watching(c), UNCHANGED held, TakeOver(c) PROVE IInv'
  BY <1>2, WatchEnds, Zenon
<1>3. ASSUME UNCHANGED <<held, kv>>, pc[c] \in {"opening", "checking", "watching"},
             pc' = pc \/ Go(c, "checking") \/ Go(c, "watching"),
             timer' = timer \/ timer' = [timer EXCEPT ![c] = Duration],
             events' \in [Cores -> Seq(Event)],
             \A d \in Cores : Told(events'[d]) => Told(events[d])
      PROVE  IInv'
  <2>1. pc' \in [Cores -> PC] /\ \A d \in Cores : pc[d] \in {"done", "serving"} => pc'[d] = pc[d]
    BY <1>3, Zenon DEF Go, IInv, PC
  <2>2. \A d \in Cores : Watching(d) => Watching(d)'
    BY <1>3, Zenon DEF Go, IInv, Watching
  <2>3. \A d \in held : d # c /\ timer'[d] = timer[d]
    BY <1>3, Zenon DEF IInv
  <2>4. timer' \in [Cores -> 0..RenewInterval]
    <3>1. Duration \in 0..RenewInterval
      BY Durations
    <3>2. timer \in [Cores -> 0..RenewInterval]
      BY Zenon DEF IInv
    <3> QED BY <1>3, <3>1, <3>2, Zenon
  <2> QED BY <1>3, <2>1, <2>2, <2>3, <2>4 DEF IInv, kv
<1>4. CASE OpenWatch(c)
  BY <1>3, <1>4, Zenon DEF OpenWatch, IInv
<1>5. CASE CheckKey(c)
  BY <1>1, <1>3, <1>5, Zenon DEF CheckKey, IInv, Watching
<1>6. CASE WatchTimeout(c)
  BY <1>2, <1>3, <1>6, Zenon DEF WatchTimeout, IInv, Watching
<1>7. CASE ReceiveEvent(c)
  <2>1. events[c] \in Seq(Event) /\ events[c] # << >>
    BY <1>7, Zenon DEF ReceiveEvent, IInv
  <2>2. /\ Tail(events[c]) \in Seq(Event) /\ (Told(Tail(events[c])) => Told(events[c]))
        /\ Head(events[c]) = "complete" => Told(events[c])
    BY <2>1, ToldLater, Zenon
  <2>3. CASE Head(events[c]) = "delete" /\ TakeOver(c)
    BY <1>2, <1>7, <2>3, Zenon DEF ReceiveEvent, Watching
  <2>4. CASE Head(events[c]) = "complete" /\ Completed(c)
    BY <1>1, <1>7, <2>2, <2>4, Zenon DEF ReceiveEvent, Watching
  <2>5. CASE Head(events[c]) = "put" /\ UNCHANGED <<pc, kv>>
             /\ events' = [events EXCEPT ![c] = Tail(@)]
             /\ timer' = [timer EXCEPT ![c] = Duration]
    <3>1. events' \in [Cores -> Seq(Event)]
      BY <2>2, <2>5, Zenon DEF IInv
    <3>2. \A d \in Cores : Told(events'[d]) => Told(events[d])
      BY <2>2, <2>5, Zenon DEF IInv
    <3> QED BY <1>3, <1>7, <2>5, <3>1, <3>2, Zenon DEF ReceiveEvent
  <2> QED BY <1>7, <2>3, <2>4, <2>5, Zenon DEF ReceiveEvent
<1> QED BY <1>4, <1>5, <1>6, <1>7, Zenon

\* Renewals, the end of a request and crashes keep the invariant.
LEMMA HolderKeepsIInv ==
  ASSUME IInv, NEW c \in Cores, HoldOnToTxn(c) \/ Close(c) \/ Crash(c)
  PROVE  IInv'
<1>0. << >> \in Seq(Event)
  OBVIOUS
<1>1. ~Told(<< >>)
  BY <1>0, ToldLater, Zenon
<1>2. CASE HoldOnToTxn(c)
  BY <1>2, Durations, CoresAssumption DEF HoldOnToTxn, IInv, Watching
<1>3. CASE Crash(c)
  <2>1. /\ events' \in [Cores -> Seq(Event)]
        /\ \A d \in Cores : Told(events'[d]) => d # c /\ Told(events[d])
    BY <1>0, <1>1, <1>3, Zenon DEF Crash, IInv
  <2>2. /\ pc' \in [Cores -> PC]
        /\ \A d \in Cores : Told(events'[d]) =>
             Watching(d)' /\ \E o \in Cores : o # d /\ pc'[o] = "done"
    BY <1>3, <2>1, QuietStep, Zenon DEF Crash, PC
  <2> QED BY <1>3, <2>1, <2>2, Zenon DEF Crash, Go, IInv, kv
<1>4. CASE Close(c)
  <2>1. pc' \in [Cores -> PC] /\ pc'[c] = "done" /\ pc[c] = "serving"
        /\ \A d \in Cores : d # c => pc'[d] = pc[d]
    BY <1>4, Zenon DEF Close, Go, IInv, PC
  <2>2. ASSUME NEW d \in Cores
        PROVE  events'[d] \in Seq(Event) /\ (Told(events'[d]) => d # c /\ Watching(d))
    <3>1. events[d] \in Seq(Event) /\ (Told(events[d]) => d # c /\ Watching(d))
      BY <2>1, Zenon DEF IInv, Watching
    <3>2. Append(events[d], "complete") \in Seq(Event)
      BY <3>1, ToldLater, Zenon
    <3>3. CASE Notify("complete", c)
      BY <1>0, <1>1, <3>1, <3>2, <3>3, Zenon DEF Notify
    <3> QED BY <1>4, <3>1, <3>3, Zenon DEF Close
  <2>3. events' \in [Cores -> Seq(Event)]
    <3>1. CASE Notify("complete", c)
      BY <2>2, <3>1, Zenon DEF Notify
    <3> QED BY <1>4, <3>1, Zenon DEF Close, IInv
  <2>4. \A d \in held' : d # c /\ d \in held /\ key = d
    BY <1>4, Zenon DEF Close, IInv
  <2>5. key' = key \/ held' = {}
    BY <1>4, <2>4, Zenon DEF Close, IInv
  <2> QED BY <1>4, <2>1, <2>2, <2>3, <2>4, <2>5, Zenon DEF Close, IInv, Watching
<1> QED BY <1>2, <1>3, <1>4, Zenon

\* With every core on time, the lease of a core that holds the transaction does
\* not run out.
LEMMA TickKeepsIInv ==
  ASSUME IInv, ~MayStall, Tick
  PROVE  IInv'
<1>1. \A c \in held : timer[c] > 0
  BY Zenon DEF Tick, OnTime, IInv
<1>2. /\ events' \in [Cores -> Seq(Event)]
      /\ \A d \in Cores : Told(events'[d]) => Told(events[d])
  BY NotifyEffect, Zenon DEF Tick, IInv
<1>3. /\ timer' \in [Cores -> 0..RenewInterval] /\ keyTTL' \in 0..TTL
      /\ \A c \in held : timer'[c] = timer[c] - 1
  BY <1>1, Durations DEF Tick, IInv
<1>4. \A c \in held : key' = key /\ keyTTL' = keyTTL - 1
  BY <1>1, Durations DEF Tick, IInv
<1> QED BY <1>1, <1>2, <1>3, <1>4, Durations, SMTT(30) DEF Tick, IInv, Watching

\* Every step of a pair whose cores are on time keeps the invariant.
LEMMA NextKeepsIInv ==
  ASSUME ~MayStall, Pair, IInv, [Next]_vars
  PROVE  IInv'
<1>1. CASE UNCHANGED vars
  BY <1>1, Zenon DEF vars, IInv, Watching
<1>2. CASE Tick
  BY <1>2, TickKeepsIInv, Zenon
<1>3. ASSUME NEW c \in Cores, Step(c) \/ Crash(c) PROVE IInv'
  BY <1>3, AcquiredKeepsIInv, WatchKeepsIInv, HolderKeepsIInv, Zenon DEF Step
<1> QED BY <1>1, <1>2, <1>3, Zenon DEF Next

\* A core of a pair that serves a request under a reservation has the transaction
\* key, until it completes the request or crashes.
THEOREM Holds ==
  ASSUME ~MayStall, Pair
  PROVE  Spec => []HoldsTransaction
<1>1. IInv /\ [Next]_vars => IInv'
  BY NextKeepsIInv, Zenon
<1>2. IInv => HoldsTransaction
  BY Zenon DEF IInv, HoldsTransaction
<1> QED BY InitIInv, <1>1, <1>2, PTL DEF Spec

-----------------------------------------------------------------------------
\* What a step of core c may do to the events: its own queue is emptied, an open watch is
\* told of a change, or nothing happens to a watch that stays open.
LEMMA EventsTyped ==
  ASSUME TypeOK, NEW c \in Cores, NEW where \in PC, Go(c, where),
         \/ events' = [events EXCEPT ![c] = << >>]
         \/ \E e \in Event : Notify(e, c)
         \/ events' = events /\ (Watching(c) => where \in {"checking", "watching"})
  PROVE  /\ pc' \in [Cores -> PC]
         /\ events' \in [Cores -> Seq(Event)]
         /\ \A d \in Cores : events'[d] # << >> => Watching(d)'
<1>1. pc' \in [Cores -> PC] /\ pc'[c] = where /\ \A d \in Cores : d # c => pc'[d] = pc[d]
  BY Zenon DEF TypeOK, Go
<1>2. ASSUME NEW d \in Cores
      PROVE  events'[d] \in Seq(Event) /\ (events'[d] # << >> => Watching(d)')
  <2>1. events[d] \in Seq(Event) /\ (events[d] # << >> => Watching(d)) /\ events \in [Cores -> Seq(Event)]
    BY Zenon DEF TypeOK, Event
  <2>2. \A e \in Event : Append(events[d], e) \in Seq(Event)
    BY <2>1
  <2>3. << >> \in Seq(Event)
    OBVIOUS
  <2> QED BY <1>1, <2>1, <2>2, <2>3, Zenon DEF Notify, Watching
<1>3. events' \in [Cores -> Seq(Event)]
  BY <1>2, Zenon DEF Notify, TypeOK, Event
<1> QED BY <1>1, <1>2, <1>3, Zenon

\* The variables stay in their types, and only an open watch has events, whatever the
\* timing of the cores.
LEMMA StepKeepsTypes ==
  ASSUME TypeOK, NEW c \in Cores, Step(c) \/ Crash(c)
  PROVE  TypeOK'
<1> USE DEF Event
<1>0. Duration \in 0..RenewInterval /\ RenewInterval \in 0..RenewInterval /\ TTL \in 0..TTL /\ 0 \in 0..TTL
  BY Durations
<1>1. CASE Acquired(c)
  <2>1. CASE TryToReserveTxn(c)
    <3>1. Go(c, "serving") /\ Notify("put", c)
      BY <2>1, Zenon DEF TryToReserveTxn
    <3>2. pc' \in [Cores -> PC] /\ events' \in [Cores -> Seq(Event)]
          /\ \A d \in Cores : events'[d] # << >> => Watching(d)'
      BY <3>1, EventsTyped, Zenon DEF PC
    <3> QED BY <1>0, <1>1, <2>1, <3>2, Zenon DEF Acquired, TryToReserveTxn, TypeOK
  <2>2. CASE Go(c, "opening") /\ UNCHANGED <<held, events, timer, kv>>
    <3>1. ~Watching(c)
      BY <1>1, Zenon DEF Acquired, Watching
    <3>2. pc' \in [Cores -> PC] /\ events' \in [Cores -> Seq(Event)]
          /\ \A d \in Cores : events'[d] # << >> => Watching(d)'
      BY <2>2, <3>1, EventsTyped, Zenon DEF PC
    <3> QED BY <1>1, <2>2, <3>2, Zenon DEF Acquired, TypeOK, kv
  <2> QED BY <1>1, <2>1, <2>2, Zenon DEF Acquired
<1>2. CASE OpenWatch(c)
  <2>1. pc' \in [Cores -> PC] /\ events' \in [Cores -> Seq(Event)]
        /\ \A d \in Cores : events'[d] # << >> => Watching(d)'
    BY <1>2, EventsTyped, Zenon DEF OpenWatch, PC
  <2> QED BY <1>2, <2>1, Zenon DEF OpenWatch, TypeOK, kv
<1>3. ASSUME Completed(c), UNCHANGED <<reserves, lapsed, held, clock>> PROVE TypeOK'
  <2>1. pc' \in [Cores -> PC] /\ events' \in [Cores -> Seq(Event)]
        /\ \A d \in Cores : events'[d] # << >> => Watching(d)'
    BY <1>3, EventsTyped, Zenon DEF Completed, PC
  <2> QED BY <1>0, <1>3, <2>1, Zenon DEF Completed, TypeOK
<1>4. ASSUME TakeOver(c), UNCHANGED <<reserves, lapsed, held, clock>> PROVE TypeOK'
  <2>1. pc' \in [Cores -> PC] /\ events' \in [Cores -> Seq(Event)]
        /\ \A d \in Cores : events'[d] # << >> => Watching(d)'
    BY <1>4, EventsTyped, Zenon DEF TakeOver, PC
  <2> QED BY <1>4, <2>1, Zenon DEF TakeOver, TypeOK, kv
<1>5. CASE CheckKey(c)
  <2>1. CASE key # "complete" /\ Go(c, "watching") /\ UNCHANGED <<events, kv>>
    <3>1. pc' \in [Cores -> PC] /\ events' \in [Cores -> Seq(Event)]
          /\ \A d \in Cores : events'[d] # << >> => Watching(d)'
      BY <2>1, EventsTyped, Zenon DEF PC
    <3> QED BY <1>0, <1>5, <2>1, <3>1, Zenon DEF CheckKey, TypeOK, kv
  <2> QED BY <1>3, <1>5, <2>1, Zenon DEF CheckKey
<1>6. CASE ReceiveEvent(c)
  <2>1. CASE Head(events[c]) = "put" /\ events' = [events EXCEPT ![c] = Tail(@)] /\ UNCHANGED <<pc, kv>>
    <3>1. Tail(events[c]) \in Seq(Event)
      BY <1>6 DEF ReceiveEvent, TypeOK
    <3>2. events' \in [Cores -> Seq(Event)] /\ \A d \in Cores : events'[d] # << >> => Watching(d)'
      BY <1>6, <2>1, <3>1, Zenon DEF ReceiveEvent, TypeOK, Watching
    <3>3. pc' = pc /\ timer' \in [Cores -> 0..RenewInterval] /\ heard' \subseteq Cores
      BY <1>0, <1>6, <2>1, Zenon DEF ReceiveEvent, TypeOK
    <3> QED BY <1>6, <2>1, <3>2, <3>3, Zenon DEF ReceiveEvent, TypeOK, kv
  <2> QED BY <1>3, <1>4, <1>6, <2>1, Zenon DEF ReceiveEvent
<1>7. CASE WatchTimeout(c)
  <2>1. CASE timer' = [timer EXCEPT ![c] = Duration] /\ UNCHANGED <<pc, heard, events, kv>>
    BY <1>0, <1>7, <2>1, Zenon DEF WatchTimeout, TypeOK, Watching, kv
  <2> QED BY <1>4, <1>7, <2>1, Zenon DEF WatchTimeout
<1>8. CASE HoldOnToTxn(c)
  BY <1>0, <1>8, Zenon DEF HoldOnToTxn, TypeOK, Watching
<1>9. CASE Close(c)
  <2>1. ~Watching(c)
    BY <1>9, Zenon DEF Close, Watching
  <2>2. pc' \in [Cores -> PC] /\ events' \in [Cores -> Seq(Event)]
        /\ \A d \in Cores : events'[d] # << >> => Watching(d)'
    BY <1>9, <2>1, EventsTyped, Zenon DEF Close, PC
  <2>3. lapsed' \subseteq Cores /\ key' \in Cores \cup {"none", "complete"}
    BY <1>9, Zenon DEF Close, TypeOK
  <2> QED BY <1>9, <2>2, <2>3, Zenon DEF Close, TypeOK
<1>10. CASE Crash(c)
  <2>1. pc' \in [Cores -> PC] /\ events' \in [Cores -> Seq(Event)]
        /\ \A d \in Cores : events'[d] # << >> => Watching(d)'
    BY <1>10, EventsTyped, Zenon DEF Crash, PC
  <2> QED BY <1>10, <2>1, Zenon DEF Crash, TypeOK, kv
<1> QED BY <1>1, <1>2, <1>5, <1>6, <1>7, <1>8, <1>9, <1>10, Zenon DEF Step

\* A second passes.
LEMMA TickKeepsTypes ==
  ASSUME TypeOK, Tick
  PROVE  TypeOK'
<1>1. ASSUME NEW d \in Cores
      PROVE  events'[d] \in Seq(Event) /\ (events'[d] # << >> => Watching(d)')
  <2>1. events[d] \in Seq(Event) /\ (events[d] # << >> => Watching(d))
    BY Zenon DEF TypeOK, Event
  <2>2. Append(events[d], "delete") \in Seq(Event)
    BY <2>1, ToldLater, Zenon
  <2>3. << >> \in Seq(Event)
    OBVIOUS
  <2> QED BY <2>1, <2>2, <2>3, Zenon DEF Tick, Notify, Watching
<1>2. events' \in [Cores -> Seq(Event)]
  BY <1>1, Zenon DEF Tick, Notify, TypeOK, Event
<1>3. timer' \in [Cores -> 0..RenewInterval] /\ keyTTL' \in 0..TTL /\ clock' \in 0..Skew
  BY Durations, TimeAssumption DEF Tick, TypeOK
<1> QED BY <1>1, <1>2, <1>3, Zenon DEF Tick, TypeOK, Event

\* The variables of the transaction stay in their types, for any timing of the cores.
THEOREM TypeCorrect == Spec => []TypeOK
<1>1. Init => TypeOK
  <2>1. << >> \in Seq({"put", "complete", "delete"})
    OBVIOUS
  <2> QED BY <2>1, Durations, TimeAssumption DEF Init, TypeOK, PC
<1>2. TypeOK /\ [Next]_vars => TypeOK'
  <2> SUFFICES ASSUME TypeOK, [Next]_vars PROVE TypeOK'
    OBVIOUS
  <2>1. CASE UNCHANGED vars
    BY <2>1, Zenon DEF vars, TypeOK, Watching
  <2> QED BY <2>1, StepKeepsTypes, TickKeepsTypes, Zenon DEF Next
<1> QED BY <1>1, <1>2, PTL DEF Spec

-----------------------------------------------------------------------------
(***************************************************************************)
(* One core of a pair serves the request, when the request reaches both    *)
(* within the time that a watcher waits for a reservation.  The invariant  *)
(* relates each core d to the other core c of the pair.                    *)
(***************************************************************************)
\* The disappearance of the key is among the events s.
Gone(s) == \E i \in 1..Len(s) : s[i] = "delete"

Awaits(d) == pc[d] \in {"opening", "checking", "watching"}

\* Core c serves the request under its reservation, or the key says that it has done so.
HasServed(c) == c \in held \/ (pc[c] = "done" /\ key = "complete")

\* The key is there as long as its lease, and is that of a core that took the request;
\* some core is to reserve it.
KeyInv ==
  /\ reserves # {}
  /\ (key = "none") <=> (keyTTL = 0)
  /\ \A c \in Cores : key = c => c \in held \/ pc[c] = "dead"
  /\ key = "complete" => \E c \in Cores : pc[c] = "done"

\* A core that waits: the other one is yet to receive the request and will reserve it,
\* serves it or has served it, or is dead.  In the first case the wait lasts until the
\* other has received the request; in the second this core has heard of the other, or is
\* about to read that; and it reads of the completion before it could read of the end of
\* the key.
Waits(c, d) ==
  Awaits(d) =>
    /\ \/ pc[c] = "idle" /\ c \in reserves /\ key = "none"
       \/ HasServed(c)
       \/ pc[c] = "dead"
    /\ pc[d] = "watching" /\ pc[c] = "idle" => timer[d] + clock >= Duration
    /\ pc[d] = "watching" /\ HasServed(c) => d \in heard \/ (timer[d] > 0 /\ events[d] # << >>)
    /\ pc[d] = "watching" /\ pc[c] = "done" => Told(events[d])
    /\ Gone(events[d]) => pc[c] = "dead"

\* A core that is yet to receive the request will find the key of the one that serves it.
ComesLate(c, d) ==
  pc[d] = "idle" =>
    /\ pc[c] # "dropped"
    /\ pc[c] \in {"serving", "done"} => HasServed(c) /\ keyTTL + clock >= TTL

\* Not both of them serve the request.
NotBoth(c, d) == ~(pc[c] \in {"serving", "done"} /\ pc[d] \in {"serving", "done"})

Agree(c, d) == Waits(c, d) /\ ComesLate(c, d) /\ NotBoth(c, d)

PairInv == KeyInv /\ \A c, d \in Cores : c # d => Agree(c, d)

\* What the proof rests on: the timing, the invariants shown above, and that every
\* transaction that was closed has been marked complete.
Premises ==
  /\ ~MayStall /\ Pair /\ Skew < Duration
  /\ IInv /\ IInv' /\ TypeOK /\ TypeOK' /\ PairInv
  /\ lapsed' = {}

\* In a pair it is enough to consider the core that takes a step and the other one.
LEMMA TheOther ==
  ASSUME Pair, NEW c \in Cores, KeyInv', \A d \in Cores \ {c} : Agree(c, d)' /\ Agree(d, c)'
  PROVE  PairInv'
BY DEF Pair, PairInv

\* How the events of a watch grow and shrink.
LEMMA Queue ==
  ASSUME NEW s \in Seq(Event)
  PROVE  /\ ~Gone(<< >>)
         /\ \A e \in Event : /\ Append(s, e) # << >> /\ (Told(s) => Told(Append(s, e)))
                             /\ e # "delete" => (Gone(Append(s, e)) => Gone(s))
         /\ Told(Append(s, "complete"))
         /\ s # << >> => (Gone(Tail(s)) => Gone(s))
         /\ s # << >> /\ Head(s) # "complete" => (Told(s) => Told(Tail(s)))
         /\ s # << >> /\ Head(s) = "delete" => Gone(s)
<1>1. ~Gone(<< >>)
  BY DEF Gone
<1>2. ASSUME NEW e \in Event
      PROVE  /\ Append(s, e) # << >> /\ (Told(s) => Told(Append(s, e)))
             /\ e # "delete" => (Gone(Append(s, e)) => Gone(s))
  BY DEF Told, Gone, Event
<1>3. Told(Append(s, "complete"))
  <2>1. Append(s, "complete")[Len(s) + 1] = "complete" /\ Len(s) + 1 \in 1..Len(Append(s, "complete"))
    BY DEF Event
  <2> QED BY <2>1, Zenon DEF Told
<1>4. s # << >> => (Gone(Tail(s)) => Gone(s))
  BY DEF Gone
<1>5. ASSUME s # << >>, Head(s) # "complete", Told(s) PROVE Told(Tail(s))
  <2>1. PICK i \in 1..Len(s) : s[i] = "complete"
    BY <1>5, Zenon DEF Told
  <2>2. i # 1 /\ Len(s) \in Nat /\ Len(Tail(s)) = Len(s) - 1
    BY <1>5, <2>1
  <2>3. i - 1 \in 1..Len(Tail(s)) /\ Tail(s)[i - 1] = s[i]
    BY <1>5, <2>2
  <2> QED BY <2>1, <2>3, Zenon DEF Told
<1>6. s # << >> /\ Head(s) = "delete" => Gone(s)
  BY DEF Gone
<1> QED BY <1>1, <1>2, <1>3, <1>4, <1>5, <1>6, Zenon

\* A core receives the request: it finds no key and the other is not serving, or the other
\* one serves it, or will.
LEMMA AcquiredKeepsPair ==
  ASSUME Premises, NEW c \in Cores, Acquired(c)
  PROVE  PairInv'
<1> USE DEF Premises
<1>0. pc[c] = "idle" /\ UNCHANGED <<reserves, heard, clock>>
      /\ c \notin held /\ pc \in [Cores -> PC] /\ clock \in 0..Skew /\ ~Awaits(c) /\ events[c] = << >>
  BY Zenon DEF Acquired, IInv, TypeOK, Awaits, Watching
<1>1. CASE TryToReserveTxn(c)
  <2>1. /\ key = "none" /\ key' = c /\ keyTTL' = TTL /\ pc' = [pc EXCEPT ![c] = "serving"]
        /\ held' = held \cup {c} /\ timer' = [timer EXCEPT ![c] = RenewInterval] /\ Notify("put", c)
    BY <1>1, Zenon DEF TryToReserveTxn, Go
  <2>2. KeyInv'
    BY <1>0, <2>1, Durations, CoresAssumption DEF PairInv, KeyInv, IInv
  <2>3. ASSUME NEW d \in Cores \ {c} PROVE Agree(c, d)' /\ Agree(d, c)'
    <3>1. Agree(c, d) /\ Agree(d, c) /\ pc'[c] = "serving" /\ pc'[d] = pc[d] /\ timer'[d] = timer[d]
      BY <1>0, <2>1, Zenon DEF PairInv, TypeOK
    <3>2. pc[d] \notin {"serving", "done"}
      BY <1>0, <2>1, <3>1, CoresAssumption, Zenon DEF Agree, ComesLate, HasServed, IInv
    <3>3. events[d] \in Seq(Event) /\ (Watching(d) => events'[d] = Append(events[d], "put"))
          /\ (~Watching(d) => events'[d] = events[d])
      BY <2>1, Zenon DEF Notify, IInv
    <3>4. pc[d] = "watching" => timer[d] > 0 /\ events'[d] # << >>
      BY <1>0, <3>1, <3>3, Queue, Durations, TimeAssumption DEF Agree, Waits, Awaits, Watching, TypeOK, Event
    <3>5. ~(Awaits(d) /\ Gone(events'[d]))
      BY <1>0, <3>1, <3>3, Queue, ZenonT(60) DEF Agree, Waits, Awaits, Event
    <3>6. Waits(c, d)' /\ ComesLate(c, d)'
      BY <1>0, <2>1, <3>1, <3>2, <3>4, <3>5, Durations, TimeAssumption DEF Waits, ComesLate, HasServed, Awaits
    <3> QED BY <3>1, <3>2, <3>6, Zenon DEF Agree, Waits, ComesLate, NotBoth, Awaits
  <2> QED BY <2>2, <2>3, TheOther, Zenon
<1>2. CASE Go(c, "opening") /\ UNCHANGED <<held, events, timer, kv>> /\ (c \in reserves => key # "none")
  <2>1. KeyInv'
    BY <1>0, <1>2, Zenon DEF PairInv, KeyInv, Go, kv
  <2>2. ASSUME NEW d \in Cores \ {c} PROVE Agree(c, d)' /\ Agree(d, c)'
    <3>1. Agree(c, d) /\ Agree(d, c) /\ pc'[c] = "opening" /\ pc'[d] = pc[d]
      BY <1>0, <1>2, Zenon DEF PairInv, Go
    <3>2. ~Awaits(d)
      BY <1>0, <1>2, <3>1, Zenon DEF Agree, Waits, HasServed
    <3>3. pc[d] = "idle" => d \in reserves /\ key = "none"
      <4> SUFFICES ASSUME pc[d] = "idle" PROVE d \in reserves /\ key = "none"
        OBVIOUS
      <4>1. \A e \in Cores : e = c \/ e = d
        BY Zenon DEF Pair
      <4>2. key = "none"
        BY <1>0, <4>1, Zenon DEF PairInv, KeyInv, TypeOK, IInv
      <4>3. PICK e \in reserves : e \in Cores
        BY Zenon DEF PairInv, KeyInv, TypeOK
      <4> QED BY <1>2, <4>1, <4>2, <4>3, Zenon
    <3>4. pc[d] \in {"idle", "dead"} \/ HasServed(d)
      BY <1>0, <3>1, <3>2, Zenon DEF Agree, ComesLate, Awaits, PC
    <3>5. ~Gone(events[c])
      BY <1>0, Queue DEF IInv
    <3>6. Waits(d, c)'
      BY <1>0, <1>2, <3>1, <3>3, <3>4, <3>5, Zenon DEF Waits, HasServed, Awaits, kv
    <3> QED BY <1>0, <3>1, <3>2, <3>6, Zenon DEF Agree, Waits, ComesLate, NotBoth, Awaits
  <2> QED BY <2>1, <2>2, TheOther
<1> QED BY <1>1, <1>2, Zenon DEF Acquired

\* The watch ends because the other core has completed the request.
LEMMA CompletedKeepsPair ==
  ASSUME Premises, NEW c \in Cores, Awaits(c), Completed(c), UNCHANGED <<reserves, held, clock>>,
         \A d \in Cores \ {c} : pc[d] # "idle"
  PROVE  PairInv'
<1> USE DEF Premises
<1>1. key' = "none" /\ keyTTL' = 0 /\ pc' = [pc EXCEPT ![c] = "dropped"] /\ pc \in [Cores -> PC]
  BY Zenon DEF Completed, Go, IInv
<1>2. KeyInv'
  BY <1>1, CoresAssumption, Zenon DEF PairInv, KeyInv
<1>3. ASSUME NEW d \in Cores \ {c} PROVE Agree(c, d)' /\ Agree(d, c)'
  <2>1. Agree(c, d) /\ pc'[c] = "dropped" /\ pc'[d] = pc[d]
    BY <1>1, Zenon DEF PairInv
  <2>2. ~Awaits(d)
    BY <2>1, Zenon DEF Agree, Waits, HasServed, IInv, Awaits
  <2> QED BY <2>1, <2>2, Zenon DEF Agree, Waits, ComesLate, NotBoth, Awaits
<1> QED BY <1>2, <1>3, TheOther, Zenon

\* The watch ends and the core takes the request over: the other one is dead.
LEMMA TakeOverKeepsPair ==
  ASSUME Premises, NEW c \in Cores, Awaits(c), TakeOver(c), UNCHANGED <<reserves, held, clock>>,
         \A d \in Cores \ {c} : pc[d] = "dead"
  PROVE  PairInv'
<1> USE DEF Premises
<1>1. pc' = [pc EXCEPT ![c] = "serving"] /\ pc \in [Cores -> PC] /\ UNCHANGED <<key, keyTTL>>
  BY Zenon DEF TakeOver, Go, IInv, kv
<1>2. KeyInv'
  BY <1>1, Zenon DEF PairInv, KeyInv, Awaits
<1>3. ASSUME NEW d \in Cores \ {c} PROVE Agree(c, d)' /\ Agree(d, c)'
  BY <1>1, Zenon DEF Agree, Waits, ComesLate, NotBoth, Awaits
<1> QED BY <1>2, <1>3, TheOther, Zenon

\* A watch goes on: the core has a full wait before it, and has heard of a core that has
\* served.
LEMMA WatchGoesOn ==
  ASSUME Premises, NEW c \in Cores, Awaits(c), UNCHANGED <<reserves, held, clock, key, keyTTL>>,
         pc' = [pc EXCEPT ![c] = "watching"], timer' = [timer EXCEPT ![c] = Duration],
         heard \subseteq heard', \A d \in Cores \ {c} : events'[d] = events[d],
         Gone(events'[c]) => Gone(events[c]),
         \A d \in Cores \ {c} : HasServed(d) => c \in heard' /\ (pc[d] = "done" => Told(events'[c]))
  PROVE  PairInv'
<1> USE DEF Premises
<1>1. KeyInv'
  BY DEF PairInv, KeyInv, Awaits, IInv
<1>2. ASSUME NEW d \in Cores \ {c} PROVE Agree(c, d)' /\ Agree(d, c)'
  <2>1. Agree(c, d) /\ Agree(d, c) /\ pc'[c] = "watching" /\ pc'[d] = pc[d] /\ timer'[c] = Duration
    BY DEF PairInv, IInv
  <2>2. ~Awaits(d)
    BY <2>1, Zenon DEF Agree, Waits, HasServed, IInv, Awaits
  <2>3. HasServed(d)' <=> HasServed(d)
    BY <2>1, Zenon DEF HasServed
  <2>4. Waits(d, c)'
    BY <2>1, <2>3, Durations DEF Agree, Waits, Awaits, TypeOK, HasServed
  <2> QED BY <2>1, <2>2, <2>3, <2>4, Zenon DEF Agree, Waits, ComesLate, NotBoth, Awaits
<1> QED BY <1>1, <1>2, TheOther, Zenon

\* The steps of a watch.
LEMMA WatchKeepsPair ==
  ASSUME Premises, NEW c \in Cores, OpenWatch(c) \/ CheckKey(c) \/ ReceiveEvent(c) \/ WatchTimeout(c)
  PROVE  PairInv'
<1> USE DEF Premises
<1>0. /\ Awaits(c) /\ pc \in [Cores -> PC] /\ clock \in 0..Skew /\ UNCHANGED <<reserves, held, clock>>
      /\ events[c] \in Seq(Event) /\ timer[c] \in 0..RenewInterval
  BY Zenon DEF OpenWatch, CheckKey, ReceiveEvent, WatchTimeout, Awaits, IInv, TypeOK
<1>1. \A d \in Cores \ {c} : Agree(c, d) /\ Agree(d, c) /\ Waits(d, c) /\ ~Awaits(d)
  BY <1>0, Zenon DEF PairInv, Agree, Waits, HasServed, IInv, Awaits
<1>2. \A d \in Cores \ {c} : HasServed(d) /\ pc[d] # "done" => d \in held /\ key = d
  BY Zenon DEF HasServed, IInv
<1>3. CASE OpenWatch(c)
  <2>1. pc' = [pc EXCEPT ![c] = "checking"] /\ pc[c] = "opening" /\ UNCHANGED <<heard, events, timer, key, keyTTL>>
    BY <1>3, Zenon DEF OpenWatch, Go, kv
  <2>2. KeyInv'
    BY <1>0, <2>1, Zenon DEF PairInv, KeyInv
  <2>3. ASSUME NEW d \in Cores \ {c} PROVE Agree(c, d)' /\ Agree(d, c)'
    <3>1. pc'[c] = "checking" /\ pc'[d] = pc[d]
      BY <1>0, <2>1, Zenon
    <3>2. Waits(d, c)'
      BY <1>0, <1>1, <2>1, <3>1, Zenon DEF Waits, HasServed, Awaits
    <3> QED BY <1>1, <3>1, <3>2, Zenon DEF Agree, Waits, ComesLate, NotBoth, Awaits
  <2> QED BY <2>2, <2>3, TheOther, Zenon
<1>4. CASE CheckKey(c)
  <2>1. CASE key = "complete" /\ Completed(c)
    <3>1. \A d \in Cores \ {c} : pc[d] # "idle"
      BY <1>0, <1>1, <2>1, Zenon DEF Waits, HasServed, IInv
    <3> QED BY <1>0, <2>1, <3>1, CompletedKeepsPair, Zenon
  <2>2. CASE /\ key # "complete" /\ pc' = [pc EXCEPT ![c] = "watching"]
             /\ heard' = (IF key = "none" THEN heard ELSE heard \cup {c})
             /\ timer' = [timer EXCEPT ![c] = Duration] /\ UNCHANGED <<events, key, keyTTL>>
    <3>1. \A d \in Cores \ {c} : HasServed(d) => c \in heard' /\ pc[d] # "done"
      BY <1>2, <2>2, CoresAssumption DEF HasServed, IInv
    <3> QED BY <1>0, <2>2, <3>1, WatchGoesOn, Zenon
  <2> QED BY <1>4, <2>1, <2>2, Zenon DEF CheckKey, Go, kv
<1>5. CASE ReceiveEvent(c)
  <2>0. events[c] # << >> /\ pc[c] = "watching"
    BY <1>5, Zenon DEF ReceiveEvent
  <2>1. CASE Head(events[c]) = "delete" /\ TakeOver(c)
    <3>1. \A d \in Cores \ {c} : pc[d] = "dead"
      BY <1>0, <1>1, <2>0, <2>1, Queue, Zenon DEF Waits
    <3> QED BY <1>0, <2>1, <3>1, TakeOverKeepsPair, Zenon
  <2>2. CASE Head(events[c]) = "complete" /\ Completed(c)
    <3>1. Told(events[c])
      BY <1>0, <2>0, <2>2, ToldLater, Zenon
    <3>2. \A d \in Cores \ {c} : pc[d] # "idle"
      BY <3>1 DEF IInv, Pair
    <3> QED BY <1>0, <2>2, <3>2, CompletedKeepsPair, Zenon
  <2>3. CASE /\ Head(events[c]) = "put" /\ heard' = heard \cup {c} /\ events' = [events EXCEPT ![c] = Tail(@)]
             /\ timer' = [timer EXCEPT ![c] = Duration] /\ UNCHANGED <<pc, key, keyTTL>>
    <3>1. /\ events'[c] = Tail(events[c]) /\ \A d \in Cores \ {c} : events'[d] = events[d]
          /\ pc' = [pc EXCEPT ![c] = "watching"]
      BY <1>0, <2>0, <2>3 DEF IInv
    <3>2. (Gone(events'[c]) => Gone(events[c])) /\ (Told(events[c]) => Told(events'[c]))
      BY <1>0, <2>0, <2>3, <3>1, Queue
    <3>3. \A d \in Cores \ {c} : pc[d] = "done" => Told(events[c])
      BY <1>0, <1>1, <2>0, Zenon DEF Waits
    <3> QED BY <1>0, <2>3, <3>1, <3>2, <3>3, WatchGoesOn, Zenon
  <2> QED BY <1>5, <2>1, <2>2, <2>3, Zenon DEF ReceiveEvent, kv
<1>6. CASE WatchTimeout(c)
  <2>0. timer[c] = 0 /\ pc[c] = "watching"
    BY <1>6, Zenon DEF WatchTimeout
  <2>1. CASE c \notin heard /\ TakeOver(c)
    <3>1. \A d \in Cores \ {c} : pc[d] = "dead"
      BY <1>0, <1>1, <2>0, <2>1, Durations, TimeAssumption DEF Waits
    <3> QED BY <1>0, <2>1, <3>1, TakeOverKeepsPair, Zenon
  <2>2. CASE c \in heard /\ timer' = [timer EXCEPT ![c] = Duration] /\ UNCHANGED <<pc, heard, events, key, keyTTL>>
    <3>1. \A d \in Cores \ {c} : pc[d] = "done" => Told(events[c])
      BY <1>0, <1>1, <2>0, Zenon DEF Waits
    <3>2. pc' = [pc EXCEPT ![c] = "watching"]
      BY <1>0, <2>0, <2>2, Zenon
    <3> QED BY <1>0, <2>2, <3>1, <3>2, WatchGoesOn, Zenon
  <2> QED BY <1>6, <2>1, <2>2, Zenon DEF WatchTimeout, kv
<1> QED BY <1>3, <1>4, <1>5, <1>6, Zenon

\* Renewals, the end of a request and crashes.
LEMMA HolderKeepsPair ==
  ASSUME Premises, NEW c \in Cores, HoldOnToTxn(c) \/ Close(c) \/ Crash(c)
  PROVE  PairInv'
<1> USE DEF Premises
<1>0. /\ pc \in [Cores -> PC] /\ clock \in 0..Skew /\ UNCHANGED <<reserves, heard, clock>>
      /\ c \in held => pc[c] = "serving" /\ key = c
  BY Zenon DEF HoldOnToTxn, Close, Crash, IInv, TypeOK
<1>1. \A d \in Cores \ {c} : Agree(c, d) /\ Agree(d, c)
  BY Zenon DEF PairInv
<1>2. CASE HoldOnToTxn(c)
  <2>1. /\ c \in held /\ key = c /\ keyTTL' = TTL /\ UNCHANGED <<pc, held, events, key>>
        /\ timer' = [timer EXCEPT ![c] = RenewInterval]
    BY <1>0, <1>2, Zenon DEF HoldOnToTxn
  <2>2. KeyInv'
    BY <1>0, <2>1, Durations, CoresAssumption DEF PairInv, KeyInv
  <2>3. ASSUME NEW d \in Cores \ {c} PROVE Agree(c, d)' /\ Agree(d, c)'
    <3>1. timer'[d] = timer[d]
      BY <2>1, Zenon DEF TypeOK
    <3>2. Waits(c, d)'
      BY <1>0, <1>1, <2>1, <3>1, Zenon DEF Agree, Waits, HasServed, Awaits
    <3>3. ComesLate(c, d)'
      BY <1>0, <1>1, <2>1, Durations, TimeAssumption DEF Agree, ComesLate, HasServed
    <3> QED BY <1>0, <1>1, <2>1, <3>2, <3>3, Zenon DEF Agree, Waits, ComesLate, NotBoth, Awaits
  <2> QED BY <2>2, <2>3, TheOther, Zenon
<1>3. CASE Close(c) /\ c \in held
  <2>1. /\ pc' = [pc EXCEPT ![c] = "done"] /\ pc[c] = "serving" /\ key = c /\ key' = "complete"
        /\ held' = held \ {c} /\ Notify("complete", c) /\ UNCHANGED <<timer, keyTTL>>
    BY <1>0, <1>3, Zenon DEF Close, Go
  <2>2. KeyInv'
    BY <1>0, <2>1, CoresAssumption, Zenon DEF PairInv, KeyInv
  <2>3. ASSUME NEW d \in Cores \ {c} PROVE Agree(c, d)' /\ Agree(d, c)'
    <3>1. pc'[c] = "done" /\ pc'[d] = pc[d] /\ HasServed(c) /\ HasServed(c)'
      BY <1>0, <1>3, <2>1, Zenon DEF HasServed
    <3>2. events[d] \in Seq(Event) /\ (Watching(d) => events'[d] = Append(events[d], "complete"))
          /\ (~Watching(d) => events'[d] = events[d])
      BY <2>1, Zenon DEF Notify, IInv
    <3>3. pc[d] = "watching" => events'[d] # << >> /\ Told(events'[d])
      BY <3>2, Queue, ZenonT(60) DEF Watching, Event
    <3>4. ~(Awaits(d) /\ Gone(events'[d]))
      BY <1>1, <2>1, <3>2, Queue, ZenonT(60) DEF Agree, Waits, Event
    <3>5. Waits(c, d)'
      BY <1>0, <1>1, <2>1, <3>1, <3>3, <3>4, Zenon DEF Agree, Waits, Awaits
    <3>6. ComesLate(c, d)'
      BY <1>0, <1>1, <2>1, <3>1, Zenon DEF Agree, ComesLate
    <3> QED BY <1>1, <2>1, <3>1, <3>5, <3>6, Zenon DEF Agree, Waits, ComesLate, NotBoth, Awaits
  <2> QED BY <2>2, <2>3, TheOther
<1>4. CASE Close(c) /\ c \notin held
  <2>1. pc' = [pc EXCEPT ![c] = "done"] /\ pc[c] = "serving" /\ UNCHANGED <<key, keyTTL, held, events, timer>>
    BY <1>4, Zenon DEF Close, Go
  <2>2. KeyInv'
    BY <1>0, <1>4, <2>1, Zenon DEF PairInv, KeyInv
  <2>3. ASSUME NEW d \in Cores \ {c} PROVE Agree(c, d)' /\ Agree(d, c)'
    <3>1. ~Awaits(d) /\ pc[d] # "idle" /\ pc[d] \notin {"serving", "done"}
      BY <1>1, <1>4, <2>1, Zenon DEF Agree, Waits, ComesLate, NotBoth, HasServed
    <3> QED BY <1>0, <2>1, <3>1, Zenon DEF Agree, Waits, ComesLate, NotBoth, Awaits
  <2> QED BY <2>2, <2>3, TheOther
<1>5. CASE Crash(c)
  <2>1. /\ pc' = [pc EXCEPT ![c] = "dead"] /\ held' = held \ {c} /\ pc[c] # "done"
        /\ UNCHANGED <<key, keyTTL, timer>> /\ \A d \in Cores \ {c} : events'[d] = events[d]
    BY <1>5, Zenon DEF Crash, Go, kv, IInv
  <2>2. KeyInv'
    BY <1>0, <2>1, Zenon DEF PairInv, KeyInv
  <2>3. ASSUME NEW d \in Cores \ {c} PROVE Agree(c, d)' /\ Agree(d, c)'
    BY <1>0, <1>1, <2>1, Zenon DEF Agree, Waits, ComesLate, NotBoth, Awaits, HasServed
  <2> QED BY <2>2, <2>3, TheOther
<1> QED BY <1>2, <1>3, <1>4, <1>5, Zenon

\* A second passes: a watcher has read its events, the lease of a core that serves goes on,
\* and a core that is yet to receive the request does so before the other's wait, or the
\* lease, ends.
LEMMA TickKeepsPair ==
  ASSUME Premises, Tick
  PROVE  PairInv'
<1> USE DEF Premises
<1>0. /\ UNCHANGED <<reserves, pc, held, heard>> /\ pc \in [Cores -> PC] /\ clock \in 0..Skew /\ keyTTL \in 0..TTL
      /\ timer' = [d \in Cores |-> IF timer[d] > 0 THEN timer[d] - 1 ELSE 0] /\ timer \in [Cores -> 0..RenewInterval]
      /\ keyTTL' = IF keyTTL > 0 THEN keyTTL - 1 ELSE 0
      /\ clock' = IF clock < Skew THEN clock + 1 ELSE clock
  BY Zenon DEF Tick, TypeOK
<1>1. keyTTL # 1 => UNCHANGED <<key, events>>
  BY Zenon DEF Tick
<1>2. ASSUME NEW d \in Cores, pc[d] = "idle" PROVE clock < Skew
  BY <1>0, <1>2, TimeAssumption DEF Tick
<1>3. \A c \in held : keyTTL > 1
  BY <1>0, Durations DEF IInv
<1>4. KeyInv'
  <2>1. keyTTL = 1 => key' = "none"
    BY Zenon DEF Tick
  <2>2. (key = "none") <=> (keyTTL = 0)
    BY Zenon DEF PairInv, KeyInv
  <2>3. (key' = "none") <=> (keyTTL' = 0)
    BY <1>0, <1>1, <2>1, <2>2, Durations
  <2> QED BY <1>0, <1>1, <2>1, <2>3, CoresAssumption, Zenon DEF PairInv, KeyInv
<1>5. ASSUME NEW c \in Cores, NEW d \in Cores, c # d PROVE Agree(c, d)'
  <2>1. Agree(c, d)
    BY <1>5, Zenon DEF PairInv
  <2>2. Waits(c, d)'
    <3> SUFFICES ASSUME Awaits(d) PROVE Waits(c, d)'
      BY <1>0, Zenon DEF Waits, Awaits
    <3>1. pc[d] = "watching" /\ events[d] = << >> /\ timer[d] > 0 /\ timer'[d] = timer[d] - 1
      BY <1>0, Zenon DEF Tick, OnTime, Awaits
    <3>2. ~Told(events[d])
      BY <3>1 DEF Told
    <3>3. CASE pc[c] = "idle" /\ c \in reserves /\ key = "none"
      <4>1. keyTTL = 0 /\ clock' = clock + 1
        BY <1>0, <1>2, <3>3, Zenon DEF PairInv, KeyInv
      <4>2. timer[d] + clock >= Duration
        BY <2>1, <3>1, <3>2, <3>3, Zenon DEF Agree, Waits, Awaits, HasServed
      <4>3. timer[d] \in Int /\ clock \in Int /\ Duration \in Int
        BY <1>0, Durations
      <4>4. timer'[d] + clock' >= Duration
        BY <3>1, <4>1, <4>2, <4>3
      <4> QED BY <1>0, <1>1, <2>1, <3>1, <3>3, <4>1, <4>4 DEF Agree, Waits, Awaits, HasServed
    <3>4. CASE HasServed(c)
      <4>1. c \in held /\ d \in heard /\ pc[c] = "serving"
        BY <2>1, <3>1, <3>2, <3>4, Zenon DEF Agree, Waits, HasServed, IInv
      <4> QED BY <1>0, <1>1, <1>3, <2>1, <3>1, <4>1 DEF Agree, Waits, Awaits, HasServed
    <3>5. CASE pc[c] = "dead"
      BY <1>0, <3>5, Zenon DEF Waits, HasServed, IInv
    <3> QED BY <2>1, <3>3, <3>4, <3>5, Zenon DEF Agree, Waits
  <2>3. ComesLate(c, d)'
    <3> SUFFICES ASSUME pc[d] = "idle", pc[c] \in {"serving", "done"}
                 PROVE  HasServed(c)' /\ keyTTL' + clock' >= TTL
      BY <1>0, <2>1, Zenon DEF Agree, ComesLate
    <3>1. HasServed(c) /\ keyTTL + clock >= TTL /\ clock' = clock + 1
      BY <1>0, <1>2, <2>1, Zenon DEF Agree, ComesLate
    <3>2. keyTTL > 1
      BY <1>0, <3>1, Durations, TimeAssumption
    <3> QED BY <1>0, <1>1, <3>1, <3>2 DEF HasServed
  <2> QED BY <1>0, <2>1, <2>2, <2>3, Zenon DEF Agree, NotBoth
<1> QED BY <1>4, <1>5, Zenon DEF PairInv

\* The context of a request that core c serves ends before its transaction is closed, at
\* most once for a core; without such an end the pair's invariant holds.
PairLaw == lapsed = {} => PairInv

\* One core of a pair serves the request, and none serves it after the other completed it,
\* whenever a core crashes, when the cores' steps are on time and the request reaches both
\* within the time that a watcher waits for the first sign of the other; the one exception
\* is a core whose request's context ended before it closed the transaction.
THEOREM ServedByOne ==
  ASSUME ~MayStall, Pair, Skew < Duration
  PROVE  Spec => []OneServer
<1>1. Init => PairLaw
  <2> SUFFICES ASSUME Init PROVE PairInv
    BY Zenon DEF PairLaw
  <2>1. \A c \in Cores : pc[c] = "idle"
    BY Zenon DEF Init
  <2>2. \A c, d \in Cores : Agree(c, d)
    BY <2>1, Zenon DEF Agree, Waits, ComesLate, NotBoth, Awaits
  <2>3. KeyInv
    BY <2>1, CoresAssumption, Zenon DEF Init, KeyInv
  <2> QED BY <2>2, <2>3, Zenon DEF PairInv
<1>2. IInv /\ IInv' /\ TypeOK /\ TypeOK' /\ PairLaw /\ [Next]_vars => PairLaw'
  <2> SUFFICES ASSUME IInv, IInv', TypeOK, TypeOK', PairLaw, [Next]_vars, lapsed' = {} PROVE PairInv'
    BY Zenon DEF PairLaw
  <2>0. lapsed = {}
    BY Zenon DEF Next, Step, Acquired, OpenWatch, CheckKey, ReceiveEvent, WatchTimeout,
             HoldOnToTxn, Close, Crash, Tick, vars
  <2>1. Premises
    BY <2>0, Zenon DEF Premises, PairLaw
  <2>2. CASE UNCHANGED vars
    BY <2>1, <2>2 DEF Premises, vars, PairInv, KeyInv, Agree, Waits, ComesLate, NotBoth, Awaits, HasServed
  <2>3. CASE Tick
    BY <2>1, <2>3, TickKeepsPair, Zenon
  <2>4. ASSUME NEW c \in Cores, Step(c) \/ Crash(c) PROVE PairInv'
    BY <2>1, <2>4, AcquiredKeepsPair, WatchKeepsPair, HolderKeepsPair, Zenon DEF Step
  <2> QED BY <2>2, <2>3, <2>4, Zenon DEF Next
<1>3. TypeOK /\ PairLaw => OneServer
  <2>1. lapsed = {} => (PairLaw => OneServer)
    BY Zenon DEF PairLaw, PairInv, Agree, NotBoth, OneServer
  <2>2. ASSUME TypeOK, lapsed # {} PROVE OneServer
    BY <2>2 DEF TypeOK, Pair, OneServer
  <2> QED BY <2>1, <2>2, Zenon
<1>4. IInv /\ [Next]_vars => IInv'
  BY NextKeepsIInv, Zenon
<1> QED BY InitIInv, TypeCorrect, <1>1, <1>2, <1>3, <1>4, PTL DEF Spec
=============================================================================
