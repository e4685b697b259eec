--------------------------- MODULE MCDeviceRelease ---------------------------
(* DeviceRelease for TLC; the .cfg files give the bound.                     *)
EXTENDS DeviceRelease
==============================================================================
