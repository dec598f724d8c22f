----------------------------- MODULE DeviceRecord -----------------------------
(***************************************************************************)
(* The states one device agent stores for its device, over the operations  *)
(* of rw_core/core/device_agent.go that change the administrative,         *)
(* operational or connection state.  Each operation holds the agent's lock *)
(* from its first read to its store, so it is one step; every store that   *)
(* changes the device announces the pair (previous, current) to the state  *)
(* machine.  A refused operation stores nothing and is no step.            *)
(***************************************************************************)
EXTENDS DeviceTransitions

VARIABLES root,      \* the device is a root device (OLT), not a child (ONU)
          previous,  \* the device state before the last store
          current,   \* the device state the agent holds
          images     \* ImageDownloads: "nil", "empty", holding a "registered" or a
                     \* "cancelled" image, or "nilEntry": holding a nil pointer

vars == <<root, previous, current, images>>

Init ==
  /\ root \in BOOLEAN
  /\ current = S("PREPROVISIONED", "UNKNOWN")
  /\ previous = current
  /\ images = "nil"

\* updateDeviceInStoreWithoutLock: the data model announces (previous, current).
Store(state) == previous' = current /\ current' = state

EnableDevice ==
  /\ current.admin \notin {"ENABLED", "DELETED"}
  /\ Store([current EXCEPT !.admin = "ENABLED", !.oper = "ACTIVATING"])
  /\ UNCHANGED <<root, images>>

DisableDevice ==
  /\ current.admin \notin {"DISABLED", "PREPROVISIONED", "DELETED"}
  /\ Store([current EXCEPT !.admin = "DISABLED", !.oper = "UNKNOWN"])
  /\ UNCHANGED <<root, images>>

DeleteDevice ==
  /\ current.admin # "DELETED"
  /\ Store([current EXCEPT !.admin = "DELETED"])
  /\ UNCHANGED <<root, images>>

UpdateDeviceStatus(oper, conn) ==
  /\ Store([current EXCEPT !.oper = oper, !.conn = conn])
  /\ UNCHANGED <<root, images>>

\* With ImageDownloads still nil the request is answered with success, but the
\* device is not stored and the adapter is not called.
DownloadImage ==
  /\ current.admin = "ENABLED"
  /\ images # "nil"
  /\ Store([current EXCEPT !.admin = "DOWNLOADING_IMAGE"])
  /\ images' = IF images = "nilEntry" THEN "nilEntry" ELSE "registered"
  /\ UNCHANGED root

\* isImageRegistered: a walk over a nil entry panics, so no step follows it.
IsImageRegistered == images \in {"registered", "cancelled"}

CancelImageDownload ==
  /\ IsImageRegistered
  /\ current.admin = "DOWNLOADING_IMAGE"
  /\ Store([current EXCEPT !.admin = "ENABLED"])
  /\ images' = "cancelled"
  /\ UNCHANGED root

ActivateImage ==
  /\ IsImageRegistered
  /\ current.admin # "DOWNLOADING_IMAGE"
  /\ Store([current EXCEPT !.admin = "DOWNLOADING_IMAGE"])
  /\ UNCHANGED <<root, images>>

(***************************************************************************)
(* An adapter reports on an image.  The new list starts with as many nil   *)
(* entries as the old one had entries.  Unless the report says that the    *)
(* download is in progress and the image activating, the device becomes    *)
(* ENABLED, whatever its administrative state was.                         *)
(***************************************************************************)
UpdateImageDownload(inProgress) ==
  /\ images # "nilEntry"
  /\ Store(IF inProgress THEN current ELSE [current EXCEPT !.admin = "ENABLED"])
  /\ images' = IF IsImageRegistered THEN "nilEntry" ELSE "empty"
  /\ UNCHANGED root

Next ==
  \/ EnableDevice
  \/ DisableDevice
  \/ DeleteDevice
  \/ \E oper \in OperStatus, conn \in ConnectStatus : UpdateDeviceStatus(oper, conn)
  \/ DownloadImage
  \/ CancelImageDownload
  \/ ActivateImage
  \/ \E inProgress \in BOOLEAN : UpdateImageDownload(inProgress)

Spec == Init /\ [][Next]_vars

-----------------------------------------------------------------------------
\* The handlers GetTransitionHandler finds by scanning its ordered table are the
\* ones the update calls for by what changed: no entry shadows another one, a
\* wildcard entry never wins over the entry of the device's type, and the
\* connection state never hides an administrative or operational change.
ScanSelectsHandlers ==
  GetTransitionHandler(root, previous, current) = Handlers(root, previous, current)

\* Deleting a child that was preprovisioned, enabled or disabled, or a root that
\* was preprovisioned or disabled, selects handlers that end with the removal of
\* the agent, after the handlers that take the device out of its parent and of
\* the logical device, which both look the agent up.
CleanupFollowsUnlinking ==
  LET h == GetTransitionHandler(root, previous, current)
  IN (/\ current.admin = "DELETED"
      /\ previous.admin \in {"PREPROVISIONED", "DISABLED"}
           \cup (IF root THEN {} ELSE {"ENABLED"}))
     => /\ h # << >> /\ h[Len(h)] = "RunPostDeviceDelete"
        /\ previous.admin # "PREPROVISIONED" =>
             LET unlink == IF root THEN {"DeleteAllChildDevices", "DeleteLogicalDevice"}
                           ELSE {"ChildDeviceLost", "DeleteLogicalPorts"}
             IN \A u \in unlink : \E i \in 1..(Len(h) - 1) : h[i] = u
=============================================================================
