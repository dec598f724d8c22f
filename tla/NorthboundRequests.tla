--------------------------- MODULE NorthboundRequests ---------------------------
(***************************************************************************)
(* The requests of the northbound API (rw_core/core/                       *)
(* grpc_nbi_api_handler.go).  A handler takes the ownership of the request *)
(* as one about a device or about a logical device, as one about neither   *)
(* (nil), or does not compete at all (unkeyed).  It then calls a manager   *)
(* itself (sync), waits for the answer of a goroutine on a channel or for  *)
(* the end of the request's context (await), or answers at once and closes *)
(* the channel (detach).                                                   *)
(***************************************************************************)

Request(id, run, op) == [id |-> id, as |-> id, run |-> run, op |-> op]

ListDevicePorts == Request("device", "sync", "read")
ListDeviceFlows == Request("device", "sync", "read")

CreateDevice == Request("nil", "await", "create")
EnableDevice == Request("device", "await", "enable")
DisableDevice == Request("device", "await", "disable")
RebootDevice == Request("device", "await", "reboot")
DeleteDevice == Request("device", "await", "delete")
UpdateDevicePmConfigs == Request("device", "await", "configure")
EnablePort == Request("device", "await", "configurePort")
DisablePort == Request("device", "await", "configurePort")
ProcessImageRequest(op) == Request("device", "await", op)
DownloadImage == ProcessImageRequest("download")
CancelImageDownload == ProcessImageRequest("cancel")
ActivateImageUpdate == ProcessImageRequest("activate")
RevertImageUpdate == ProcessImageRequest("revert")
GetImageDownloadStatus == Request("device", "await", "imageStatus")
SimulateAlarm == Request("device", "detach", "alarm")

\* The id of a device, taken for the id of a logical device.
ListDevicePmConfigs == [id |-> "device", as |-> "logical", run |-> "sync", op |-> "read"]

GetLogicalDevicePort == Request("logical", "sync", "elsewhere")
GetLogicalDevice == Request("logical", "sync", "elsewhere")
ListLogicalDeviceFlows == Request("logical", "sync", "elsewhere")
ListLogicalDeviceFlowGroups == Request("logical", "sync", "elsewhere")
ListLogicalDevicePorts == Request("logical", "sync", "elsewhere")
ListLogicalDeviceMeters == Request("logical", "sync", "elsewhere")
ListLogicalDevices == Request("nil", "sync", "elsewhere")
EnableLogicalDevicePort == Request("logical", "await", "elsewhere")
DisableLogicalDevicePort == Request("logical", "await", "elsewhere")
UpdateLogicalDeviceFlowTable == Request("logical", "await", "elsewhere")
UpdateLogicalDeviceFlowGroupTable == Request("logical", "await", "elsewhere")
UpdateLogicalDeviceMeterTable == Request("logical", "await", "elsewhere")

GetDevice == Request("unkeyed", "sync", "read")
ListDeviceFlowGroups == Request("unkeyed", "sync", "read")
GetImageDownload == Request("unkeyed", "sync", "read")
ListImageDownloads == Request("unkeyed", "sync", "read")
GetImages == Request("unkeyed", "sync", "read")
ReconcileDevices == Request("unkeyed", "await", "read")

Handlers ==
  {ListDevicePorts, ListDeviceFlows, CreateDevice, EnableDevice, DisableDevice, RebootDevice,
   DeleteDevice, UpdateDevicePmConfigs, EnablePort, DisablePort, DownloadImage,
   CancelImageDownload, ActivateImageUpdate, RevertImageUpdate, GetImageDownloadStatus,
   SimulateAlarm, ListDevicePmConfigs, GetLogicalDevicePort, GetLogicalDevice,
   ListLogicalDeviceFlows, ListLogicalDeviceFlowGroups, ListLogicalDevicePorts,
   ListLogicalDeviceMeters, ListLogicalDevices, EnableLogicalDevicePort,
   DisableLogicalDevicePort, UpdateLogicalDeviceFlowTable, UpdateLogicalDeviceFlowGroupTable,
   UpdateLogicalDeviceMeterTable, GetDevice, ListDeviceFlowGroups, GetImageDownload,
   ListImageDownloads, GetImages, ReconcileDevices}
=================================================================================
