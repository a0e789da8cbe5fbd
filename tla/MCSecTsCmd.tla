----------------------------- MODULE MCSecTsCmd -----------------------------
(* Small instances of SecTsCmd.                                            *)
EXTENDS SecTsCmd, TLC
CONSTANTS u1, u2
MCUsers == {u1, u2}
UserSymmetry == Permutations(MCUsers)
Request(n, p) == [name |-> n, params |-> p]
\* Every command, and the parameters that make a difference.
MCAllRequests ==
  {Request(n, "in range") : n \in FtCmds \union {"unknown"}}
    \union {Request(n, "out of range") :
              n \in {"glove_mode", "set_lowpower_mode", "set_log_level"}}
    \union {Request("fw_update", "malformed"), Request("unknown", "malformed")}
\* One command of each way to end.
MCRequests ==
  {Request(n, "in range") :
     n \in {"module_off_master", "run_force_calibration",
            "get_force_calibration", "glove_mode", "unknown"}}
    \union {Request("fw_update", "malformed")}
\* Bound: of two calls in progress both are among MCRequests.
PairsOfEachWay == \/ \E u \in Users : call[u] = NoRequest
                  \/ \A u \in Users : call[u] \in MCRequests
=============================================================================
