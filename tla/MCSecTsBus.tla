----------------------------- MODULE MCSecTsBus -----------------------------
(* A small instance of SecTsBus. *)
EXTENDS SecTsBus
CONSTANTS f1, f2
MCFiles == {f1, f2}
MCOthers == {"command"}
MCRequests ==
  {[op |-> "write", reg |-> "report", val |-> 0],
   [op |-> "write_burst", reg |-> "report", val |-> 1],
   [op |-> "probe_read", reg |-> "events"],
   [op |-> "read_bulk"]}
\* Whatever the registers hold first is overwritten or never changes.
MCInit == Init /\ regs = [r \in Registers |-> 0] /\ pointer = Events
MCSpec == MCInit /\ [][Next]_vars /\ Fairness
=============================================================================
