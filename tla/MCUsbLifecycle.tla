---------------------------- MODULE MCUsbLifecycle ----------------------------
(***************************************************************************)
(* Instances of UsbLifecycle for TLC: requests of one and of several       *)
(* transfers, with a host that uses the device and with one that does not. *)
(***************************************************************************)
EXTENDS UsbLifecycle
===============================================================================
