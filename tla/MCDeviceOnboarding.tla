-------------------------- MODULE MCDeviceOnboarding ---------------------------
(* Instances of DeviceOnboarding: one or two calls on one device. *)
EXTENDS DeviceOnboarding

CONSTANTS first, second

================================================================================
