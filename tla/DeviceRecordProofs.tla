-------------------------- MODULE DeviceRecordProofs --------------------------
(***************************************************************************)
(* The scan of the transition table, for every update of a device.  The    *)
(* entries that match an update all have the same handlers, so that the    *)
(* order of the table and the rules on exact and partial matches do not    *)
(* matter: the scan finds these handlers, or none.                         *)
(***************************************************************************)
EXTENDS DeviceRecord, TLAPS

Entries == 18

\* The table has 18 entries.
LEMMA TableLength == Len(Transitions) = Entries
BY DEF Transitions, Entries

\* The scan starts with nothing, and considers one entry after the other.
LEMMA ScanUnfolds ==
  ASSUME NEW type, NEW p, NEW c
  PROVE  /\ Scan(type, p, c)[0] = [match |-> << >>, done |-> FALSE]
         /\ \A i \in 1..Entries :
              Scan(type, p, c)[i] = Consider(type, p, c, Transitions[i], Scan(type, p, c)[i - 1])
<1> DEFINE Round(i, found) == Consider(type, p, c, Transitions[i], found)
           Nothing == [match |-> << >>, done |-> FALSE]
           Is(f) == f = [i \in 0..Entries |-> IF i = 0 THEN Nothing ELSE Round(i, f[i - 1])]
<1> HIDE DEF Round, Nothing
<1>1. \E f : Is(f)
  <2>1. PICK r1, r2, r3, r4, r5, r6, r7, r8, r9 :
          /\ r1 = Round(1, Nothing) /\ r2 = Round(2, r1) /\ r3 = Round(3, r2)
          /\ r4 = Round(4, r3) /\ r5 = Round(5, r4) /\ r6 = Round(6, r5)
          /\ r7 = Round(7, r6) /\ r8 = Round(8, r7) /\ r9 = Round(9, r8)
    OBVIOUS
  <2>2. PICK r10, r11, r12, r13, r14, r15, r16, r17, r18 :
          /\ r10 = Round(10, r9) /\ r11 = Round(11, r10) /\ r12 = Round(12, r11)
          /\ r13 = Round(13, r12) /\ r14 = Round(14, r13) /\ r15 = Round(15, r14)
          /\ r16 = Round(16, r15) /\ r17 = Round(17, r16) /\ r18 = Round(18, r17)
    OBVIOUS
  <2> DEFINE rounds == <<r1, r2, r3, r4, r5, r6, r7, r8, r9, r10, r11, r12, r13, r14, r15, r16, r17, r18>>
             g == [i \in 0..Entries |-> IF i = 0 THEN Nothing ELSE rounds[i]]
  <2>3. \A i \in 1..Entries : rounds[i] = Round(i, g[i - 1])
    <3>1. \A i \in 1..Entries : g[i - 1] = IF i = 1 THEN Nothing ELSE rounds[i - 1]
      BY DEF Entries
    <3>2. \A i \in 1..Entries : i \in {1, 2, 3, 4, 5, 6, 7, 8, 9, 10, 11, 12, 13, 14, 15, 16, 17, 18}
      BY DEF Entries
    <3>3. ASSUME NEW i \in {1, 2, 3, 4, 5, 6} PROVE rounds[i] = Round(i, IF i = 1 THEN Nothing ELSE rounds[i - 1])
      BY <2>1
    <3>4. ASSUME NEW i \in {7, 8, 9, 10, 11, 12} PROVE rounds[i] = Round(i, rounds[i - 1])
      BY <2>1, <2>2
    <3>5. ASSUME NEW i \in {13, 14, 15, 16, 17, 18} PROVE rounds[i] = Round(i, rounds[i - 1])
      BY <2>2
    <3> HIDE DEF rounds, g
    <3> QED BY <3>1, <3>2, <3>3, <3>4, <3>5
  <2> HIDE DEF rounds
  <2>4. \A i \in 0..Entries : i # 0 => i \in 1..Entries
    OBVIOUS
  <2>5. \A i \in 0..Entries : (IF i = 0 THEN Nothing ELSE rounds[i]) = (IF i = 0 THEN Nothing ELSE Round(i, g[i - 1]))
    BY <2>3, <2>4
  <2>6. Is(g)
    BY <2>5
  <2> QED BY <2>6, Zenon
<1>2. Is(Scan(type, p, c))
  BY <1>1, TableLength, Zenon DEF Scan, Round, Nothing
<1>3. 0 \in 0..Entries /\ \A i \in 1..Entries : i \in 0..Entries /\ i # 0
  BY DEF Entries
<1> QED BY <1>2, <1>3, Zenon DEF Round, Nothing

\* The entry t is about a device of this type, and the update from p to c matches it.
Applies(type, p, c, t) == t.type \in {type, "any"} /\ Matches(p, c, t)

\* When the entries that apply have the same handlers, the scan finds them, in whatever
\* order and by whatever rule.
LEMMA ScanFinds ==
  ASSUME NEW type, NEW p, NEW c, NEW h, h # << >>,
         \A i \in 1..Entries : Applies(type, p, c, Transitions[i]) => Transitions[i].handlers = h
  PROVE  Scan(type, p, c)[Entries].match =
           IF \E i \in 1..Entries : Applies(type, p, c, Transitions[i]) THEN h ELSE << >>
<1> DEFINE scan == Scan(type, p, c)
           Some(i) == \E j \in 1..i : Applies(type, p, c, Transitions[j])
           Found(i) == scan[i].match = (IF Some(i) THEN h ELSE << >>) /\ (scan[i].done => Some(i))
<1>1. Found(0)
  <2>1. scan[0] = [match |-> << >>, done |-> FALSE]
    BY ScanUnfolds
  <2> QED BY <2>1
<1>2. ASSUME NEW i \in 1..Entries, Found(i - 1) PROVE Found(i)
  <2> DEFINE t == Transitions[i]
  <2>1. scan[i] = Consider(type, p, c, t, scan[i - 1])
    BY ScanUnfolds
  <2>2. Some(i) <=> Some(i - 1) \/ Applies(type, p, c, t)
    <3>1. \A j : j \in 1..i <=> j \in 1..(i - 1) \/ j = i
      OBVIOUS
    <3> QED BY <3>1
  <2>3. CASE ~Applies(type, p, c, t) \/ scan[i - 1].done
    <3>1. scan[i] = scan[i - 1]
      BY <2>1, <2>3 DEF Consider, Applies
    <3> HIDE DEF scan, Some
    <3> QED BY <1>2, <2>2, <2>3, <3>1
  <2>4. CASE Applies(type, p, c, t) /\ ~scan[i - 1].done
    <3>1. t.handlers = h
      BY <2>4
    <3>2. scan[i].match = h
      <4>1. \/ scan[i].match = t.handlers
            \/ scan[i] = scan[i - 1] /\ scan[i - 1].match # << >>
        BY <2>1, <2>4 DEF Consider, Applies
      <4> HIDE DEF scan, Some, t
      <4> QED BY <1>2, <3>1, <4>1
    <3> HIDE DEF scan, Some
    <3> QED BY <2>2, <2>4, <3>2
  <2> QED BY <2>3, <2>4
<1> HIDE DEF Found
<1>3. Found(Entries)
  <2>1. Found(1) /\ Found(2) /\ Found(3) /\ Found(4) /\ Found(5) /\ Found(6)
    BY <1>1, <1>2 DEF Entries
  <2>2. Found(7) /\ Found(8) /\ Found(9) /\ Found(10) /\ Found(11) /\ Found(12)
    BY <1>2, <2>1 DEF Entries
  <2> QED BY <1>2, <2>2 DEF Entries
<1> QED BY <1>3 DEF Found

\* An entry applies to the updates that change the administrative state as it says, or,
\* when it leaves that state alone, the operational state.
LEMMA EntryApplies ==
  ASSUME NEW p \in DeviceState, NEW c \in DeviceState, NEW type, NEW of, NEW handlers,
         NEW a1, NEW o1, NEW a2, NEW o2, a1 # a2 \/ o1 # o2
  PROVE  LET t == T(of, S(a1, o1), S(a2, o2), handlers)
         IN /\ Applies(type, p, c, t) <=>
                 /\ of \in {type, "any"} /\ p.admin = a1 /\ c.admin = a2
                 /\ a1 # a2 \/ (p.oper = o1 /\ c.oper = o2)
            /\ t.handlers = handlers
BY DEF Applies, Matches, ExactMatch, Changed, T, S, DeviceState

\* An entry that applies to an update has the handlers that the update calls for.
LEMMA RowsAgree ==
  ASSUME NEW type \in {"parent", "child"}, NEW p \in DeviceState, NEW c \in DeviceState,
         NEW i \in 1..Entries, Applies(type, p, c, Transitions[i])
  PROVE  Transitions[i].handlers = Handlers(type = "parent", p, c) /\ Transitions[i].handlers # << >>
<1>1. CASE i = 1
  <2>1. Transitions[i] = T("parent", S("ENABLED", "ACTIVATING"), S("ENABLED", "ACTIVE"), <<"CreateLogicalDevice">>)
    BY <1>1 DEF Transitions
  <2> QED BY <2>1, EntryApplies DEF Handlers, Notify, DeleteChild, DeleteParent
<1>2. CASE i = 2
  <2>1. Transitions[i] = T("child", S("ENABLED", "DISCOVERED"), S("ENABLED", "ACTIVE"), <<"SetupUNILogicalPorts">>)
    BY <1>2 DEF Transitions
  <2> QED BY <2>1, EntryApplies DEF Handlers, Notify, DeleteChild, DeleteParent
<1>3. CASE i = 3
  <2>1. Transitions[i] = T("child", S("ENABLED", "ACTIVATING"), S("ENABLED", "ACTIVE"), <<"SetupUNILogicalPorts">>)
    BY <1>3 DEF Transitions
  <2> QED BY <2>1, EntryApplies DEF Handlers, Notify, DeleteChild, DeleteParent
<1>4. CASE i = 4
  <2>1. Transitions[i] = T("any", S("PREPROVISIONED", "UNKNOWN"), S("DELETED", "UNKNOWN"), <<"RunPostDeviceDelete">>)
    BY <1>4 DEF Transitions
  <2> QED BY <2>1, EntryApplies DEF Handlers, Notify, DeleteChild, DeleteParent
<1>5. CASE i = 5
  <2>1. Transitions[i] = T("parent", S("DISABLED", "UNKNOWN"), S("DELETED", "UNKNOWN"), DeleteParent)
    BY <1>5 DEF Transitions
  <2> QED BY <2>1, EntryApplies DEF Handlers, Notify, DeleteChild, DeleteParent
<1>6. CASE i = 6
  <2>1. Transitions[i] = T("child", S("DISABLED", "UNKNOWN"), S("DELETED", "UNKNOWN"), DeleteChild)
    BY <1>6 DEF Transitions
  <2> QED BY <2>1, EntryApplies DEF Handlers, Notify, DeleteChild, DeleteParent
<1>7. CASE i = 7
  <2>1. Transitions[i] = T("child", S("ENABLED", "UNKNOWN"), S("DELETED", "UNKNOWN"), DeleteChild)
    BY <1>7 DEF Transitions
  <2> QED BY <2>1, EntryApplies DEF Handlers, Notify, DeleteChild, DeleteParent
<1>8. CASE i = 8
  <2>1. Transitions[i] = T("any", S("ENABLED", "ACTIVE"), S("ENABLED", "ACTIVATING"), Notify)
    BY <1>8 DEF Transitions
  <2> QED BY <2>1, EntryApplies DEF Handlers, Notify, DeleteChild, DeleteParent
<1>9. CASE i = 9
  <2>1. Transitions[i] = T("any", S("ENABLED", "ACTIVATING"), S("ENABLED", "UNKNOWN"), Notify)
    BY <1>9 DEF Transitions
  <2> QED BY <2>1, EntryApplies DEF Handlers, Notify, DeleteChild, DeleteParent
<1>10. CASE i = 10
  <2>1. Transitions[i] = T("any", S("PREPROVISIONED", "UNKNOWN"), S("UNKNOWN", "UNKNOWN"), Notify)
    BY <1>10 DEF Transitions
  <2> QED BY <2>1, EntryApplies DEF Handlers, Notify, DeleteChild, DeleteParent
<1>11. CASE i = 11
  <2>1. Transitions[i] = T("any", S("ENABLED", "UNKNOWN"), S("DOWNLOADING_IMAGE", "UNKNOWN"), Notify)
    BY <1>11 DEF Transitions
  <2> QED BY <2>1, EntryApplies DEF Handlers, Notify, DeleteChild, DeleteParent
<1>12. CASE i = 12
  <2>1. Transitions[i] = T("any", S("ENABLED", "UNKNOWN"), S("UNKNOWN", "UNKNOWN"), Notify)
    BY <1>12 DEF Transitions
  <2> QED BY <2>1, EntryApplies DEF Handlers, Notify, DeleteChild, DeleteParent
<1>13. CASE i = 13
  <2>1. Transitions[i] = T("parent", S("ENABLED", "ACTIVE"), S("ENABLED", "ACTIVATING"), Notify)
    BY <1>13 DEF Transitions
  <2> QED BY <2>1, EntryApplies DEF Handlers, Notify, DeleteChild, DeleteParent
<1>14. CASE i = 14
  <2>1. Transitions[i] = T("any", S("ENABLED", "ACTIVATING"), S("ENABLED", "UNKNOWN"), Notify)
    BY <1>14 DEF Transitions
  <2> QED BY <2>1, EntryApplies DEF Handlers, Notify, DeleteChild, DeleteParent
<1>15. CASE i = 15
  <2>1. Transitions[i] = T("any", S("ENABLED", "UNKNOWN"), S("PREPROVISIONED", "UNKNOWN"), Notify)
    BY <1>15 DEF Transitions
  <2> QED BY <2>1, EntryApplies DEF Handlers, Notify, DeleteChild, DeleteParent
<1>16. CASE i = 16
  <2>1. Transitions[i] = T("child", S("DISABLED", "UNKNOWN"), S("UNKNOWN", "UNKNOWN"), Notify)
    BY <1>16 DEF Transitions
  <2> QED BY <2>1, EntryApplies DEF Handlers, Notify, DeleteChild, DeleteParent
<1>17. CASE i = 17
  <2>1. Transitions[i] = T("any", S("DISABLED", "UNKNOWN"), S("PREPROVISIONED", "UNKNOWN"), Notify)
    BY <1>17 DEF Transitions
  <2> QED BY <2>1, EntryApplies DEF Handlers, Notify, DeleteChild, DeleteParent
<1>18. CASE i = 18
  <2>1. Transitions[i] = T("any", S("DOWNLOADING_IMAGE", "UNKNOWN"), S("DISABLED", "UNKNOWN"), Notify)
    BY <1>18 DEF Transitions
  <2> QED BY <2>1, EntryApplies DEF Handlers, Notify, DeleteChild, DeleteParent
<1> QED BY <1>1, <1>2, <1>3, <1>4, <1>5, <1>6, <1>7, <1>8, <1>9, <1>10, <1>11, <1>12, <1>13, <1>14, <1>15, <1>16, <1>17, <1>18 DEF Entries

\* An update that calls for handlers has an entry.
LEMMA RowsCover ==
  ASSUME NEW type \in {"parent", "child"}, NEW p \in DeviceState, NEW c \in DeviceState,
         Handlers(type = "parent", p, c) # << >>
  PROVE  \E i \in 1..Entries : Applies(type, p, c, Transitions[i])
<1> DEFINE Moves(a, b) == p.admin = a /\ c.admin = b
           Turns(o, q) == Moves("ENABLED", "ENABLED") /\ p.oper = o /\ c.oper = q
<1>1. \/ Moves("PREPROVISIONED", "DELETED") \/ Moves("PREPROVISIONED", "UNKNOWN")
      \/ Moves("ENABLED", "UNKNOWN") \/ Moves("ENABLED", "DOWNLOADING_IMAGE")
      \/ Moves("ENABLED", "PREPROVISIONED") \/ Moves("DISABLED", "PREPROVISIONED")
      \/ Moves("DOWNLOADING_IMAGE", "DISABLED")
      \/ Turns("ACTIVE", "ACTIVATING") \/ Turns("ACTIVATING", "UNKNOWN")
      \/ type = "parent" /\ (Moves("DISABLED", "DELETED") \/ Turns("ACTIVATING", "ACTIVE"))
      \/ type = "child" /\ (Moves("ENABLED", "DELETED") \/ Moves("DISABLED", "DELETED")
                              \/ Moves("DISABLED", "UNKNOWN")
                              \/ Turns("DISCOVERED", "ACTIVE") \/ Turns("ACTIVATING", "ACTIVE"))
  BY DEF Handlers
<1> DEFINE A(i) == Applies(type, p, c, Transitions[i])
<1>2. Moves("PREPROVISIONED", "DELETED") => A(4)
  <2>1. Transitions[4] = T("any", S("PREPROVISIONED", "UNKNOWN"), S("DELETED", "UNKNOWN"), <<"RunPostDeviceDelete">>)
    BY DEF Transitions
  <2> QED BY <2>1, EntryApplies
<1>3. Moves("PREPROVISIONED", "UNKNOWN") => A(10)
  <2>1. Transitions[10] = T("any", S("PREPROVISIONED", "UNKNOWN"), S("UNKNOWN", "UNKNOWN"), Notify)
    BY DEF Transitions
  <2> QED BY <2>1, EntryApplies
<1>4. Moves("ENABLED", "DOWNLOADING_IMAGE") => A(11)
  <2>1. Transitions[11] = T("any", S("ENABLED", "UNKNOWN"), S("DOWNLOADING_IMAGE", "UNKNOWN"), Notify)
    BY DEF Transitions
  <2> QED BY <2>1, EntryApplies
<1>5. Moves("ENABLED", "UNKNOWN") => A(12)
  <2>1. Transitions[12] = T("any", S("ENABLED", "UNKNOWN"), S("UNKNOWN", "UNKNOWN"), Notify)
    BY DEF Transitions
  <2> QED BY <2>1, EntryApplies
<1>6. Moves("ENABLED", "PREPROVISIONED") => A(15)
  <2>1. Transitions[15] = T("any", S("ENABLED", "UNKNOWN"), S("PREPROVISIONED", "UNKNOWN"), Notify)
    BY DEF Transitions
  <2> QED BY <2>1, EntryApplies
<1>7. Moves("DISABLED", "PREPROVISIONED") => A(17)
  <2>1. Transitions[17] = T("any", S("DISABLED", "UNKNOWN"), S("PREPROVISIONED", "UNKNOWN"), Notify)
    BY DEF Transitions
  <2> QED BY <2>1, EntryApplies
<1>8. Moves("DOWNLOADING_IMAGE", "DISABLED") => A(18)
  <2>1. Transitions[18] = T("any", S("DOWNLOADING_IMAGE", "UNKNOWN"), S("DISABLED", "UNKNOWN"), Notify)
    BY DEF Transitions
  <2> QED BY <2>1, EntryApplies
<1>9. Turns("ACTIVE", "ACTIVATING") => A(8)
  <2>1. Transitions[8] = T("any", S("ENABLED", "ACTIVE"), S("ENABLED", "ACTIVATING"), Notify)
    BY DEF Transitions
  <2> QED BY <2>1, EntryApplies
<1>10. Turns("ACTIVATING", "UNKNOWN") => A(9)
  <2>1. Transitions[9] = T("any", S("ENABLED", "ACTIVATING"), S("ENABLED", "UNKNOWN"), Notify)
    BY DEF Transitions
  <2> QED BY <2>1, EntryApplies
<1>11. type = "parent" /\ Turns("ACTIVATING", "ACTIVE") => A(1)
  <2>1. Transitions[1] = T("parent", S("ENABLED", "ACTIVATING"), S("ENABLED", "ACTIVE"), <<"CreateLogicalDevice">>)
    BY DEF Transitions
  <2> QED BY <2>1, EntryApplies
<1>12. type = "child" /\ Turns("DISCOVERED", "ACTIVE") => A(2)
  <2>1. Transitions[2] = T("child", S("ENABLED", "DISCOVERED"), S("ENABLED", "ACTIVE"), <<"SetupUNILogicalPorts">>)
    BY DEF Transitions
  <2> QED BY <2>1, EntryApplies
<1>13. type = "child" /\ Turns("ACTIVATING", "ACTIVE") => A(3)
  <2>1. Transitions[3] = T("child", S("ENABLED", "ACTIVATING"), S("ENABLED", "ACTIVE"), <<"SetupUNILogicalPorts">>)
    BY DEF Transitions
  <2> QED BY <2>1, EntryApplies
<1>14. type = "parent" /\ Moves("DISABLED", "DELETED") => A(5)
  <2>1. Transitions[5] = T("parent", S("DISABLED", "UNKNOWN"), S("DELETED", "UNKNOWN"), DeleteParent)
    BY DEF Transitions
  <2> QED BY <2>1, EntryApplies
<1>15. type = "child" /\ Moves("DISABLED", "DELETED") => A(6)
  <2>1. Transitions[6] = T("child", S("DISABLED", "UNKNOWN"), S("DELETED", "UNKNOWN"), DeleteChild)
    BY DEF Transitions
  <2> QED BY <2>1, EntryApplies
<1>16. type = "child" /\ Moves("ENABLED", "DELETED") => A(7)
  <2>1. Transitions[7] = T("child", S("ENABLED", "UNKNOWN"), S("DELETED", "UNKNOWN"), DeleteChild)
    BY DEF Transitions
  <2> QED BY <2>1, EntryApplies
<1>17. type = "child" /\ Moves("DISABLED", "UNKNOWN") => A(16)
  <2>1. Transitions[16] = T("child", S("DISABLED", "UNKNOWN"), S("UNKNOWN", "UNKNOWN"), Notify)
    BY DEF Transitions
  <2> QED BY <2>1, EntryApplies
<1> HIDE DEF Moves, Turns, A
<1>18. \E i \in 1..18 : A(i)
  BY <1>1, <1>2, <1>3, <1>4, <1>5, <1>6, <1>7, <1>8, <1>9, <1>10, <1>11, <1>12, <1>13, <1>14, <1>15, <1>16, <1>17
<1> QED BY <1>18 DEF A, Entries

\* GetTransitionHandler returns what an update of a device calls for, whatever the
\* device and the update: the composed models may use Handlers in its place.
THEOREM ScanIsHandlers ==
  ASSUME NEW isRoot \in BOOLEAN, NEW p \in DeviceState, NEW c \in DeviceState
  PROVE  GetTransitionHandler(isRoot, p, c) = Handlers(isRoot, p, c)
<1> DEFINE type == IF isRoot THEN "parent" ELSE "child"
           h == Handlers(isRoot, p, c)
<1>1. type \in {"parent", "child"} /\ (type = "parent") = isRoot
  OBVIOUS
<1>2. GetTransitionHandler(isRoot, p, c) = Scan(type, p, c)[Entries].match
  BY TableLength DEF GetTransitionHandler
<1> HIDE DEF type
<1>3. \A i \in 1..Entries : Applies(type, p, c, Transitions[i]) =>
        Transitions[i].handlers = h /\ Transitions[i].handlers # << >>
  BY <1>1, RowsAgree
<1>4. h # << >> => \E i \in 1..Entries : Applies(type, p, c, Transitions[i])
  BY <1>1, RowsCover
<1> HIDE DEF h
<1>5. CASE h = << >>
  <2>1. Notify # << >>
    BY DEF Notify
  <2>2. \A i \in 1..Entries : ~Applies(type, p, c, Transitions[i])
    BY <1>3, <1>5
  <2>3. \A i \in 1..Entries : Applies(type, p, c, Transitions[i]) => Transitions[i].handlers = Notify
    BY <2>2
  <2>4. Scan(type, p, c)[Entries].match =
          IF \E i \in 1..Entries : Applies(type, p, c, Transitions[i]) THEN Notify ELSE << >>
    BY <2>1, <2>3, ScanFinds, Zenon
  <2> QED BY <1>2, <1>5, <2>2, <2>4 DEF h
<1>6. CASE h # << >>
  BY <1>2, <1>3, <1>4, <1>6, ScanFinds DEF h
<1> QED BY <1>5, <1>6

-------------------------------------------------------------------------------
\* The states that a device agent holds and announces are device states.
TypeInv == root \in BOOLEAN /\ previous \in DeviceState /\ current \in DeviceState

\* Every operation stores a device state.
LEMMA Types == Spec => []TypeInv
<1>1. Init => TypeInv
  BY DEF Init, TypeInv, S, DeviceState, AdminState, OperStatus, ConnectStatus
<1>2. TypeInv /\ [Next]_vars => TypeInv'
  BY Zenon DEF TypeInv, Next, vars, Store, EnableDevice, DisableDevice, DeleteDevice, UpdateDeviceStatus,
         DownloadImage, CancelImageDownload, ActivateImage, UpdateImageDownload,
         DeviceState, AdminState, OperStatus
<1> QED BY <1>1, <1>2, PTL DEF Spec

\* After every update that a device agent stores, the scan of the table selects the
\* handlers that the update calls for.
THEOREM ScanSelects == Spec => []ScanSelectsHandlers
<1>1. TypeInv => ScanSelectsHandlers
  BY ScanIsHandlers DEF TypeInv, ScanSelectsHandlers
<1> QED BY <1>1, Types, PTL

\* The handlers of a deletion take the device out of its parent and of the logical
\* device before they remove its agent.
THEOREM CleanupOrder == Spec => []CleanupFollowsUnlinking
<1>1. TypeInv => CleanupFollowsUnlinking
  <2> SUFFICES ASSUME TypeInv, current.admin = "DELETED" PROVE CleanupFollowsUnlinking
    BY DEF CleanupFollowsUnlinking
  <2>0. GetTransitionHandler(root, previous, current) = Handlers(root, previous, current)
    BY ScanIsHandlers DEF TypeInv
  <2>1. CASE previous.admin = "PREPROVISIONED"
    <3>1. Handlers(root, previous, current) = <<"RunPostDeviceDelete">>
      BY <2>1 DEF Handlers
    <3> QED BY <2>0, <2>1, <3>1 DEF CleanupFollowsUnlinking
  <2>2. CASE root /\ previous.admin = "DISABLED"
    <3>1. Handlers(root, previous, current) = DeleteParent
      BY <2>2 DEF Handlers
    <3>2. /\ Len(DeleteParent) = 4 /\ DeleteParent # << >> /\ DeleteParent[4] = "RunPostDeviceDelete"
          /\ DeleteParent[2] = "DeleteAllChildDevices" /\ DeleteParent[3] = "DeleteLogicalDevice"
      BY DEF DeleteParent
    <3>3. \A u \in {"DeleteAllChildDevices", "DeleteLogicalDevice"} :
            \E i \in 1..(Len(DeleteParent) - 1) : DeleteParent[i] = u
      <4>1. 2 \in 1..(Len(DeleteParent) - 1) /\ 3 \in 1..(Len(DeleteParent) - 1)
        BY <3>2
      <4> QED BY <3>2, <4>1
    <3> DEFINE unlink == IF root THEN {"DeleteAllChildDevices", "DeleteLogicalDevice"}
                         ELSE {"ChildDeviceLost", "DeleteLogicalPorts"}
    <3>4. \A u \in unlink : \E i \in 1..(Len(DeleteParent) - 1) : DeleteParent[i] = u
      BY <2>2, <3>3
    <3> HIDE DEF unlink
    <3> QED BY <2>0, <3>1, <3>2, <3>4 DEF CleanupFollowsUnlinking, unlink
  <2>3. CASE ~root /\ previous.admin \in {"ENABLED", "DISABLED"}
    <3>1. Handlers(root, previous, current) = DeleteChild
      BY <2>3 DEF Handlers
    <3> QED BY <2>0, <2>3, <3>1 DEF CleanupFollowsUnlinking, DeleteChild
  <2> QED BY <2>1, <2>2, <2>3 DEF CleanupFollowsUnlinking, TypeInv
<1> QED BY <1>1, Types, PTL
===============================================================================
