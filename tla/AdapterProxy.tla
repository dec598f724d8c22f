------------------------------ MODULE AdapterProxy ------------------------------
(***************************************************************************)
(* The requests that a core sends to the adapter of a device               *)
(* (rw_core/core/adapter_proxy.go).  Each is a remote call on the topic of *)
(* the adapter, keyed by the device, that blocks until the answer arrives  *)
(* or the call times out; unPackResponse turns the answer into an error or *)
(* nil.  A call is known here by what it makes of the device in the        *)
(* adapter: "on", "off", "none", or the "same" as before.                  *)
(***************************************************************************)

Rpc(hw) == [step |-> "rpc", to |-> hw]

AdoptDevice == Rpc("on")
ReEnableDevice == Rpc("on")
DisableDevice == Rpc("off")
DeleteDevice == Rpc("none")
RebootDevice == Rpc("same")
UpdatePmConfigs == Rpc("same")
EnablePort == Rpc("same")
DisablePort == Rpc("same")
DownloadImage == Rpc("same")
CancelImageDownload == Rpc("same")
ActivateImageUpdate == Rpc("same")
RevertImageUpdate == Rpc("same")
GetImageDownloadStatus == Rpc("same")
SimulateAlarm == Rpc("same")
=================================================================================
