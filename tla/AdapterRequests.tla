---------------------------- MODULE AdapterRequests ----------------------------
(***************************************************************************)
(* The requests that adapters send to the core pair, as the handlers of    *)
(* rw_core/core/adapter_request_handler.go serve them.  A handler decodes  *)
(* its arguments, competes for the transaction with the other core under   *)
(* the id of the device it is about, and then calls the device manager:    *)
(* before it answers (sync), or in a goroutine that outlives the handler   *)
(* and the transaction (later).  The operation says what the call does to  *)
(* the device: "read" and "elsewhere" leave its record alone.              *)
(***************************************************************************)

Request(run, op) ==
  [id |-> "device", as |-> "device", run |-> run, op |-> op]

GetDevice == Request("sync", "read")
GetChildDevice == Request("sync", "read")
GetChildDeviceWithProxyAddress == Request("sync", "read")
GetPorts == Request("sync", "read")
GetChildDevices == Request("sync", "read")
ChildDeviceDetected == Request("sync", "elsewhere")
ChildDevicesDetected == Request("sync", "elsewhere")

DeviceUpdate == Request("later", "data")
DeviceStateUpdate == Request("later", "status")
PortsStateUpdate == Request("later", "ports")
PortStateUpdate == Request("later", "port")
DeleteAllPorts == Request("later", "deletePorts")
PortCreated == Request("later", "addPort")
DevicePMConfigUpdate == Request("later", "initPm")
DeviceReasonUpdate == Request("later", "reason")
UpdateImageDownload == Request("later", "updateImage")
ChildrenStateUpdate == Request("later", "elsewhere")
ChildDevicesLost == Request("later", "elsewhere")
PacketIn == Request("later", "elsewhere")
ReconcileChildDevices == Request("later", "elsewhere")

Handlers ==
  {GetDevice, GetChildDevice, GetChildDeviceWithProxyAddress, GetPorts, GetChildDevices,
   ChildDeviceDetected, ChildDevicesDetected, DeviceUpdate, DeviceStateUpdate,
   PortsStateUpdate, PortStateUpdate, DeleteAllPorts, PortCreated, DevicePMConfigUpdate,
   DeviceReasonUpdate, UpdateImageDownload, ChildrenStateUpdate, ChildDevicesLost, PacketIn,
   ReconcileChildDevices}
===============================================================================
