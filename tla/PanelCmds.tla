----------------------------- MODULE PanelCmds -----------------------------
(***************************************************************************)
(* The command sequences of panel-simple-dsi.c: the device tree holds a    *)
(* panel's init and exit sequence as bytes, each command a header of       *)
(* HeaderSize bytes (type, wait, length of the payload) and its payload.   *)
(* panel_simple_parse_cmds scans the bytes once to count the commands and  *)
(* once to cut them; panel_simple_dsi_send_cmds sends what was cut.        *)
(* Waits are kept as data of a command; the sleeping itself is left out.   *)
(***************************************************************************)
EXTENDS Naturals, Sequences

HeaderSize == 3  \* sizeof(struct cmd_ctrl_hdr)

\* The header at offset bp of the bytes, and where the next one is.
Dlen(data, bp) == data[bp + 3]
Following(data, bp) == bp + HeaderSize + Dlen(data, bp)

\* Whether the first scan counts a command at bp and stays in the buffer.
Counted(data, bp) ==
  bp + HeaderSize < Len(data) /\ Following(data, bp) <= Len(data)

(***************************************************************************)
(* The first scan, by the offset of each header.  The length is compared   *)
(* with what is left before the header is taken off, so a payload of up to *)
(* HeaderSize bytes too many passes; len is unsigned, so what is left of   *)
(* it wraps and the scan goes on in memory that is not the buffer's.       *)
(*   "ok"    nothing is left       "odd"   a header or less is left        *)
(*   "long"  a length is refused   "wild"  the scan left the buffer        *)
(***************************************************************************)
Scan(data) ==
  LET scan[bp \in 0 .. Len(data)] ==
        LET len == Len(data) - bp
        IN  CASE len = 0 -> "ok"
              [] len \in 1 .. HeaderSize -> "odd"
              [] len > HeaderSize /\ Dlen(data, bp) > len -> "long"
              [] OTHER -> IF Following(data, bp) > Len(data)
                          THEN "wild" ELSE scan[Following(data, bp)]
  IN  scan[0]

\* Mutant: the second scan takes the length for the start of the payload.
CutEarly(data) ==
  LET cut[bp \in 0 .. Len(data)] ==
        IF ~Counted(data, bp) THEN <<>>
        ELSE <<[dtype |-> data[bp + 1], wait |-> data[bp + 2],
                payload |-> SubSeq(data, bp + HeaderSize,
                                   Following(data, bp) - 1)]>>
               \o cut[Following(data, bp)]
  IN  cut[0]

\* The second scan, over bytes the first found to be commands: it takes as
\* many as the first one counted.
Cut(data) ==
  LET cut[bp \in 0 .. Len(data)] ==
        IF ~Counted(data, bp) THEN <<>>
        ELSE <<[dtype |-> data[bp + 1], wait |-> data[bp + 2],
                payload |-> SubSeq(data, bp + HeaderSize + 1,
                                   Following(data, bp))]>>
               \o cut[Following(data, bp)]
  IN  cut[0]

\* MIPI_DSI_GENERIC_* and MIPI_DSI_DCS_* writes send_cmds knows.
KnownTypes == {3, 19, 35, 41} \union {5, 21, 57}

\* panel_simple_dsi_send_cmds ends with an error at the first command of a
\* type it does not know; a write that fails is only reported.
AllKnown(cmds) == \A i \in DOMAIN cmds : cmds[i].dtype \in KnownTypes
=============================================================================
