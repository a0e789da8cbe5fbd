----------------------------- MODULE MCSecTsFw -----------------------------
(* Small instances of SecTsFw.                                             *)
EXTENDS SecTsFw

MCFirmware(major, minor, pages) ==
  [product |-> 1, major |-> major, minor |-> minor, signed |-> TRUE,
   chunks |-> 1, pages |-> pages]
\* factory 1.0 and built-in 1.1 of three pages, a file of two pages for another
\* product, a file without signature and one without a chunk.
MCHeader ==
  [i \in {"factory", "builtin", "file", "unsigned", "empty"} |->
    CASE i = "factory"  -> MCFirmware(1, 0, 3)
      [] i = "builtin"  -> MCFirmware(1, 1, 3)
      [] i = "file"     -> [MCFirmware(2, 0, 2) EXCEPT !.product = 2]
      [] i = "unsigned" -> [MCFirmware(2, 0, 1) EXCEPT !.signed = FALSE]
      [] i = "empty"    -> [MCFirmware(2, 0, 1) EXCEPT !.chunks = 0]]
MCImages == DOMAIN MCHeader
MCFiles == MCImages \ {"factory", "builtin"}
=============================================================================
