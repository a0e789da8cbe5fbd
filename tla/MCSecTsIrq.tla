----------------------------- MODULE MCSecTsIrq -----------------------------
(* Two users next to the work queued by probe and to shutdown.             *)
EXTENDS SecTsIrq
CONSTANTS u1, u2
MCUsers == {u1, u2}
=============================================================================
