----------------------------- MODULE MCUsbEther -----------------------------
(* Two device controllers. *)
EXTENDS UsbEther
=============================================================================
