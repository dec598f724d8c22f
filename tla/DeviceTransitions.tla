-------------------------- MODULE DeviceTransitions --------------------------
(***************************************************************************)
(* The device state machine of rw_core/core/device_state_transitions.go:   *)
(* the transition table, the matching of one entry (getHandler) and the    *)
(* scan that selects the handlers of an update (GetTransitionHandler).     *)
(* A device state is the triple (admin, conn, oper) the table matches on;  *)
(* a handler is the name of the DeviceManager method the code runs.        *)
(***************************************************************************)
EXTENDS Integers, Sequences

AdminState == {"UNKNOWN", "PREPROVISIONED", "ENABLED", "DISABLED",
               "DOWNLOADING_IMAGE", "DELETED"}
OperStatus == {"UNKNOWN", "DISCOVERED", "ACTIVATING", "TESTING", "ACTIVE", "FAILED"}
ConnectStatus == {"UNKNOWN", "UNREACHABLE", "REACHABLE"}

DeviceState == [admin : AdminState, conn : ConnectStatus, oper : OperStatus]

\* An entry's type: the code's constants parent, child and any.
DeviceType == {"parent", "child", "any"}

S(admin, oper) == [admin |-> admin, conn |-> "UNKNOWN", oper |-> oper]

T(type, previous, current, handlers) ==
  [type |-> type, previous |-> previous, current |-> current, handlers |-> handlers]

Notify == <<"NotifyInvalidTransition">>

\* Mutant: the agent is removed before the handlers that look it up.
DeleteChildEarly == <<"RunPostDeviceDelete", "ChildDeviceLost", "DeleteLogicalPorts">>

DeleteChild == <<"ChildDeviceLost", "DeleteLogicalPorts", "RunPostDeviceDelete">>
DeleteParent == <<"DisableAllChildDevices", "DeleteAllChildDevices",
                  "DeleteLogicalDevice", "RunPostDeviceDelete">>

(***************************************************************************)
(* The table NewTransitionMap builds, entry by entry and in its order.     *)
(***************************************************************************)
Transitions ==
  << T("parent", S("ENABLED", "ACTIVATING"), S("ENABLED", "ACTIVE"), <<"CreateLogicalDevice">>),
     T("child", S("ENABLED", "DISCOVERED"), S("ENABLED", "ACTIVE"), <<"SetupUNILogicalPorts">>),
     T("child", S("ENABLED", "ACTIVATING"), S("ENABLED", "ACTIVE"), <<"SetupUNILogicalPorts">>),
     T("any", S("PREPROVISIONED", "UNKNOWN"), S("DELETED", "UNKNOWN"), <<"RunPostDeviceDelete">>),
     T("parent", S("DISABLED", "UNKNOWN"), S("DELETED", "UNKNOWN"), DeleteParent),
     T("child", S("DISABLED", "UNKNOWN"), S("DELETED", "UNKNOWN"), DeleteChild),
     T("child", S("ENABLED", "UNKNOWN"), S("DELETED", "UNKNOWN"), DeleteChild),
     T("any", S("ENABLED", "ACTIVE"), S("ENABLED", "ACTIVATING"), Notify),
     T("any", S("ENABLED", "ACTIVATING"), S("ENABLED", "UNKNOWN"), Notify),
     T("any", S("PREPROVISIONED", "UNKNOWN"), S("UNKNOWN", "UNKNOWN"), Notify),
     T("any", S("ENABLED", "UNKNOWN"), S("DOWNLOADING_IMAGE", "UNKNOWN"), Notify),
     T("any", S("ENABLED", "UNKNOWN"), S("UNKNOWN", "UNKNOWN"), Notify),
     T("parent", S("ENABLED", "ACTIVE"), S("ENABLED", "ACTIVATING"), Notify),
     T("any", S("ENABLED", "ACTIVATING"), S("ENABLED", "UNKNOWN"), Notify),
     T("any", S("ENABLED", "UNKNOWN"), S("PREPROVISIONED", "UNKNOWN"), Notify),
     T("child", S("DISABLED", "UNKNOWN"), S("UNKNOWN", "UNKNOWN"), Notify),
     T("any", S("DISABLED", "UNKNOWN"), S("PREPROVISIONED", "UNKNOWN"), Notify),
     T("any", S("DOWNLOADING_IMAGE", "UNKNOWN"), S("DISABLED", "UNKNOWN"), Notify) >>

ExactMatch(p, c, t) == p = t.previous /\ c = t.current

(***************************************************************************)
(* getHandler: an exact match, or a match of the most significant part of  *)
(* the state that changed (admin, then oper, then connection).             *)
(***************************************************************************)
Changed(part, p, c, t) ==
  p[part] # c[part] /\ p[part] = t.previous[part] /\ c[part] = t.current[part]

\* Mutant: a change of one part is enough, whatever the administrative state.
MatchesAnyPart(p, c, t) ==
  ExactMatch(p, c, t) \/ \E part \in {"admin", "oper", "conn"} : Changed(part, p, c, t)

Matches(p, c, t) ==
  \/ ExactMatch(p, c, t)
  \/ /\ p.admin = t.previous.admin /\ c.admin = t.current.admin
     /\ \E part \in {"admin", "oper", "conn"} : Changed(part, p, c, t)

(***************************************************************************)
(* GetTransitionHandler scans the table in order.  An exact match of the   *)
(* device's own type ends the scan; an exact match of a wildcard entry     *)
(* replaces whatever was found; a partial match is kept only when nothing  *)
(* was found before.  The empty sequence is the code's nil.                *)
(***************************************************************************)
\* One round of the loop: the entry t, after what was found so far.
Consider(type, p, c, t, found) ==
  IF found.done \/ t.type \notin {type, "any"} \/ ~Matches(p, c, t)
    THEN found
  ELSE IF ExactMatch(p, c, t)
    THEN [match |-> t.handlers, done |-> t.type = type]
  ELSE IF found.match = << >>
    THEN [match |-> t.handlers, done |-> FALSE]
  ELSE found

Scan(type, p, c) ==
  LET scan[i \in 0..Len(Transitions)] ==
        IF i = 0 THEN [match |-> << >>, done |-> FALSE]
        ELSE Consider(type, p, c, Transitions[i], scan[i - 1])
  IN scan

GetTransitionHandler(root, p, c) ==
  Scan(IF root THEN "parent" ELSE "child", p, c)[Len(Transitions)].match

(***************************************************************************)
(* What the scan is meant to select, stated without the table's order: the *)
(* handlers of every update of a device, by what changed.  The composed    *)
(* models use this form; the run of DeviceRecord shows that it is what the  *)
(* scan returns.                                                           *)
(***************************************************************************)
Handlers(root, p, c) ==
  CASE p.admin = "PREPROVISIONED" /\ c.admin = "DELETED" -> <<"RunPostDeviceDelete">>
    [] root /\ p.admin = "DISABLED" /\ c.admin = "DELETED" -> DeleteParent
    [] ~root /\ p.admin \in {"ENABLED", "DISABLED"} /\ c.admin = "DELETED" -> DeleteChild
    [] /\ root /\ p.admin = "ENABLED" /\ c.admin = "ENABLED"
       /\ p.oper = "ACTIVATING" /\ c.oper = "ACTIVE" -> <<"CreateLogicalDevice">>
    [] /\ ~root /\ p.admin = "ENABLED" /\ c.admin = "ENABLED"
       /\ p.oper \in {"DISCOVERED", "ACTIVATING"} /\ c.oper = "ACTIVE" -> <<"SetupUNILogicalPorts">>
    [] \/ /\ p.admin = "ENABLED" /\ c.admin = "ENABLED"
          /\ <<p.oper, c.oper>> \in {<<"ACTIVE", "ACTIVATING">>, <<"ACTIVATING", "UNKNOWN">>}
       \/ <<p.admin, c.admin>> \in {<<"PREPROVISIONED", "UNKNOWN">>, <<"ENABLED", "UNKNOWN">>,
              <<"ENABLED", "DOWNLOADING_IMAGE">>, <<"ENABLED", "PREPROVISIONED">>,
              <<"DISABLED", "PREPROVISIONED">>, <<"DOWNLOADING_IMAGE", "DISABLED">>}
       \/ ~root /\ p.admin = "DISABLED" /\ c.admin = "UNKNOWN" -> Notify
    [] OTHER -> << >>
=============================================================================
