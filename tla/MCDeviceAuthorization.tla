---------------------- MODULE MCDeviceAuthorization ----------------------
(***************************************************************************)
(* Two clients and two devices: they may name the same devices, with the   *)
(* same value or opposite ones.                                            *)
(***************************************************************************)
EXTENDS DeviceAuthorization

CONSTANTS a, b, d1, d2

MCLists == {{d1, d2}, {Blank, d2}, {}}
=============================================================================
