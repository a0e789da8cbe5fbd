---------------------------- MODULE MCSecTsDriver ----------------------------
(* A small instance of SecTsDriver. *)
EXTENDS SecTsDriver
=============================================================================
