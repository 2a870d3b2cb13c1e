---------------------------- MODULE MCDeviceVolume ----------------------------
(* DeviceVolume on a scale of five. *)
EXTENDS DeviceVolume
=============================================================================
