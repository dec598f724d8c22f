---------------------------- MODULE KVTransaction ----------------------------
(***************************************************************************)
(* How the cores of a pair agree on which of them serves a request that    *)
(* they all receive (rw_core/core/transaction.go).  A core that owns the   *)
(* resource, or any core when the request names no resource, reserves the  *)
(* transaction key and serves; the others watch the key until the server   *)
(* completes the transaction, or its lease runs out and one takes over.    *)
(* Time advances in seconds; the key is the only one of its request.       *)
(***************************************************************************)
EXTENDS Integers, Sequences

CONSTANTS
  Cores,           \* the cores that receive the request
  RequestTimeout,  \* minDuration, in milliseconds
  Skew,            \* the seconds within which all the cores receive it
  MayCrash,        \* a core can crash while it handles the request
  MayStall,        \* a core's steps can be late, and its KV calls can fail
  MayLapse         \* the request's context can end before the transaction is closed

ASSUME TimeAssumption == RequestTimeout \in Nat /\ Skew \in Nat
ASSUME ModeAssumption == {MayCrash, MayStall, MayLapse} \subseteq BOOLEAN
ASSUME CoresAssumption == "none" \notin Cores /\ "complete" \notin Cores

MinTxnReservationDurationInSec == 5
MinTxnRenewalIntervalInSec == 3
NumTxnRenewalPerRequest == 2

\* Acquired: the request's timeout in seconds, rounded up, and at least 5.
Duration ==
  LET secs == RequestTimeout \div 1000 + (IF RequestTimeout % 1000 > 0 THEN 1 ELSE 0)
  IN IF secs < MinTxnReservationDurationInSec THEN MinTxnReservationDurationInSec ELSE secs

TTL == 2 * Duration

RenewInterval ==
  IF TTL \div NumTxnRenewalPerRequest < MinTxnRenewalIntervalInSec
    THEN MinTxnRenewalIntervalInSec
    ELSE TTL \div NumTxnRenewalPerRequest

VARIABLES
  reserves,  \* the cores that own the resource, or all for a generic request
  pc,        \* how far each core is with the request
  held,      \* the cores with a goroutine that renews the reservation (monitorCh)
  heard,     \* the watching cores that know the other one has the transaction
  events,    \* the events each watching core has not read
  timer,     \* the seconds to a watch's timeout, or to the next renewal
  key,       \* the key's value: none, the serving core, or TransactionComplete
  keyTTL,    \* the seconds left to the lease of the key
  clock,     \* the seconds since the first core received the request
  lapsed     \* history: the cores that could not write TransactionComplete

kv == <<key, keyTTL>>
vars == <<reserves, lapsed, pc, held, heard, events, timer, key, keyTTL, clock>>

PC == {"idle", "opening", "checking", "watching", "serving", "done", "dropped", "dead"}

Init ==
  /\ reserves \in (SUBSET Cores) \ {{}}
  /\ pc = [c \in Cores |-> "idle"]
  /\ held = {}
  /\ heard = {}
  /\ events = [c \in Cores |-> << >>]
  /\ timer = [c \in Cores |-> 0]
  /\ key = "none"
  /\ keyTTL = 0
  /\ clock = 0
  /\ lapsed = {}

Go(c, where) == pc' = [pc EXCEPT ![c] = where]

Watching(c) == pc[c] \in {"checking", "watching"}

\* Mutant: an event is queued for a core that has no watch open.
NotifyAll(event, but) ==
  events' = [c \in Cores |-> IF c = but THEN << >> ELSE Append(events[c], event)]

\* The KV store tells every open watch of a change, but for the one that c closes.
Notify(event, but) ==
  events' = [c \in Cores |-> IF c = but THEN << >>
                             ELSE IF Watching(c) THEN Append(events[c], event)
                             ELSE events[c]]

(***************************************************************************)
(* A core receives the request: Acquired, up to the reservation, or to the *)
(* start of the watch when there is nothing to reserve or it is denied.    *)
(***************************************************************************)
TryToReserveTxn(c) ==
  /\ key = "none"
  /\ key' = c
  /\ keyTTL' = TTL
  /\ Notify("put", c)
  /\ Go(c, "serving")
  /\ held' = held \cup {c}
  /\ timer' = [timer EXCEPT ![c] = RenewInterval]

Acquired(c) ==
  /\ pc[c] = "idle"
  /\ \/ c \in reserves /\ TryToReserveTxn(c)
     \/ /\ c \in reserves => key # "none" \/ MayStall
        /\ Go(c, "opening")
        /\ UNCHANGED <<held, events, timer, kv>>
  /\ UNCHANGED <<reserves, lapsed, heard, clock>>

OpenWatch(c) ==
  /\ pc[c] = "opening"
  /\ Go(c, "checking")
  /\ UNCHANGED <<reserves, lapsed, held, heard, events, timer, kv, clock>>

\* CompletedByOther: the watcher deletes the key and drops the request.
Completed(c) ==
  /\ Go(c, "dropped")
  /\ key' = "none"
  /\ keyTTL' = 0
  /\ IF key = "none" THEN events' = [events EXCEPT ![c] = << >>] ELSE Notify("delete", c)
  /\ UNCHANGED <<heard, timer>>

\* AbandonedByOther: the watcher serves the request, without a reservation.
TakeOver(c) ==
  /\ Go(c, "serving")
  /\ events' = [events EXCEPT ![c] = << >>]
  /\ UNCHANGED <<heard, timer, kv>>

\* Mutant: a transaction found in the store does not count as acquired.
CheckKeyForgets(c) ==
  /\ pc[c] = "checking"
  /\ \/ key = "complete" /\ Completed(c)
     \/ /\ key # "complete"
        /\ Go(c, "watching")
        /\ timer' = [timer EXCEPT ![c] = Duration]
        /\ UNCHANGED <<heard, events, kv>>
  /\ UNCHANGED <<reserves, lapsed, held, clock>>

\* The Get of Watch, after the watch is open.
CheckKey(c) ==
  /\ pc[c] = "checking"
  /\ \/ key = "complete" /\ Completed(c)
     \/ /\ key # "complete"
        /\ Go(c, "watching")
        /\ heard' = IF key = "none" THEN heard ELSE heard \cup {c}
        /\ timer' = [timer EXCEPT ![c] = Duration]
        /\ UNCHANGED <<events, kv>>
  /\ UNCHANGED <<reserves, lapsed, held, clock>>

\* Mutant: a transaction that disappears is taken for a completed one.
ReceiveEventDrops(c) ==
  /\ pc[c] = "watching"
  /\ events[c] # << >>
  /\ \/ Head(events[c]) = "delete" /\ Completed(c)
     \/ Head(events[c]) = "complete" /\ Completed(c)
     \/ /\ Head(events[c]) = "put"
        /\ heard' = heard \cup {c}
        /\ events' = [events EXCEPT ![c] = Tail(@)]
        /\ timer' = [timer EXCEPT ![c] = Duration]
        /\ UNCHANGED <<pc, kv>>
  /\ UNCHANGED <<reserves, lapsed, held, clock>>

ReceiveEvent(c) ==
  /\ pc[c] = "watching"
  /\ events[c] # << >>
  /\ \/ Head(events[c]) = "delete" /\ TakeOver(c)
     \/ Head(events[c]) = "complete" /\ Completed(c)
     \/ /\ Head(events[c]) = "put"
        /\ heard' = heard \cup {c}
        /\ events' = [events EXCEPT ![c] = Tail(@)]
        /\ timer' = [timer EXCEPT ![c] = Duration]
        /\ UNCHANGED <<pc, kv>>
  /\ UNCHANGED <<reserves, lapsed, held, clock>>

WatchTimeout(c) ==
  /\ pc[c] = "watching"
  /\ timer[c] = 0
  /\ \/ c \notin heard /\ TakeOver(c)
     \/ /\ c \in heard
        /\ timer' = [timer EXCEPT ![c] = Duration]
        /\ UNCHANGED <<pc, heard, events, kv>>
  /\ UNCHANGED <<reserves, lapsed, held, clock>>

\* Mutant: the reservation is not renewed.
HoldOnToTxnSkips(c) ==
  /\ c \in held
  /\ timer[c] = 0
  /\ timer' = [timer EXCEPT ![c] = RenewInterval]
  /\ UNCHANGED <<reserves, lapsed, pc, held, heard, events, kv, clock>>

\* holdOnToTxnUntilProcessingCompleted: a failed renewal is only logged.
HoldOnToTxn(c) ==
  /\ c \in held
  /\ timer[c] = 0
  /\ timer' = [timer EXCEPT ![c] = RenewInterval]
  /\ keyTTL' = IF key \in {c, "complete"} THEN TTL ELSE keyTTL
  /\ UNCHANGED <<reserves, lapsed, pc, held, heard, events, key, clock>>

\* Mutant: the goroutine that renews the reservation is not stopped.
CloseHolds(c) ==
  /\ pc[c] = "serving"
  /\ Go(c, "done")
  /\ IF c \in held /\ key = c
       THEN key' = "complete" /\ Notify("complete", c)
       ELSE UNCHANGED <<key, events>>
  /\ UNCHANGED <<reserves, lapsed, held, heard, timer, keyTTL, clock>>

\* The request has been served, or has timed out.  A core that took over has no
\* reservation and writes nothing; with the lease gone, the write fails.  The write
\* goes out under the request's context: once that has ended it is refused, which
\* is only logged, and the key is left to expire.
Close(c) ==
  /\ pc[c] = "serving"
  /\ Go(c, "done")
  /\ held' = held \ {c}
  /\ \/ /\ IF c \in held /\ key = c
             THEN key' = "complete" /\ Notify("complete", c)
             ELSE UNCHANGED <<key, events>>
        /\ UNCHANGED lapsed
     \/ /\ MayLapse /\ c \in held /\ key = c
        /\ lapsed' = lapsed \cup {c}
        /\ UNCHANGED <<key, events>>
  /\ UNCHANGED <<reserves, heard, timer, keyTTL, clock>>

Crash(c) ==
  /\ MayCrash
  /\ pc[c] \notin {"done", "dropped", "dead"}
  /\ Go(c, "dead")
  /\ held' = held \ {c}
  /\ events' = [events EXCEPT ![c] = << >>]
  /\ UNCHANGED <<reserves, lapsed, heard, timer, kv, clock>>

\* Nothing that core c is due to do now is left.
OnTime(c) ==
  /\ pc[c] \notin {"opening", "checking"}
  /\ pc[c] = "watching" => events[c] = << >> /\ timer[c] > 0
  /\ c \in held => timer[c] > 0

Tick ==
  /\ \E c \in Cores : pc[c] # "idle"
  /\ clock = Skew => \A c \in Cores : pc[c] # "idle"
  /\ MayStall \/ \A c \in Cores : OnTime(c)
  /\ clock' = IF clock < Skew THEN clock + 1 ELSE clock
  /\ timer' = [c \in Cores |-> IF timer[c] > 0 THEN timer[c] - 1 ELSE 0]
  /\ keyTTL' = IF keyTTL > 0 THEN keyTTL - 1 ELSE 0
  /\ IF keyTTL = 1 THEN key' = "none" /\ Notify("delete", "none") ELSE UNCHANGED <<key, events>>
  /\ UNCHANGED <<reserves, lapsed, pc, held, heard>>

Step(c) ==
  \/ Acquired(c) \/ OpenWatch(c) \/ CheckKey(c) \/ ReceiveEvent(c)
  \/ WatchTimeout(c) \/ HoldOnToTxn(c) \/ Close(c)

Next == Tick \/ \E c \in Cores : Step(c) \/ Crash(c)

Spec == Init /\ [][Next]_vars

\* Time passes, cores take the steps they can, and a request is served or times out.
FairSpec ==
  /\ Spec
  /\ WF_vars(Tick)
  /\ \A c \in Cores : /\ WF_vars(Acquired(c) \/ OpenWatch(c) \/ CheckKey(c))
                      /\ WF_vars(ReceiveEvent(c)) /\ WF_vars(WatchTimeout(c))
                      /\ WF_vars(HoldOnToTxn(c)) /\ WF_vars(Close(c))

-----------------------------------------------------------------------------
\* The variables stay in their types, and only an open watch has events.
TypeOK ==
  /\ reserves \subseteq Cores
  /\ pc \in [Cores -> PC]
  /\ held \subseteq Cores /\ heard \subseteq Cores
  /\ events \in [Cores -> Seq({"put", "complete", "delete"})]
  /\ \A c \in Cores : events[c] # << >> => Watching(c)
  /\ timer \in [Cores -> 0..RenewInterval]
  /\ key \in Cores \cup {"none", "complete"}
  /\ keyTTL \in 0..TTL
  /\ clock \in 0..Skew
  /\ lapsed \subseteq Cores

\* A request is served by one core: no two cores that are alive both serve it,
\* and none serves it after another one completed it, as long as the request
\* reaches all of them within the request's timeout.  The exception is a core whose
\* request had ended by the time it closed the transaction: its key expires like
\* that of a core that crashed, and the request is served again.
OneServer ==
  \A c, d \in Cores : pc[c] \in {"serving", "done"} /\ pc[d] \in {"serving", "done"} =>
    c = d \/ c \in lapsed \/ d \in lapsed

\* Some core serves the request to its end, unless all the cores crash: a watcher
\* takes over from a core that crashed.
Served == <>((\E c \in Cores : pc[c] = "done") \/ \A c \in Cores : pc[c] = "dead")

\* The transaction key does not stay in the KV store.
KeyIsFreed == <>[](key = "none")

\* "the Core processing a request hold on to the transaction until it either
\* completes it ... or the Core itself crashes" (the comment on the constants of
\* the transaction): a core that serves under a reservation has the key.
HoldsTransaction == \A c \in held : key = c
=============================================================================
