------------------------------ MODULE PanelDsi ------------------------------
(***************************************************************************)
(* panel-simple-dsi.c: the DRM panel driver.  A probe parses the command   *)
(* sequences, gets the supply and the pins and puts the panel on the list  *)
(* of panels, then attaches to the DSI host; the DRM core calls prepare,   *)
(* enable, disable and unprepare under its modeset lock, one at a time;    *)
(* remove and shutdown come from the driver core.                          *)
(*                                                                         *)
(* The supply counts: each consumer counts its own enables, and disabling  *)
(* more often than enabling is refused.  With power-invert the panel is    *)
(* powered while the supply is off.                                        *)
(***************************************************************************)
EXTENDS PanelCmds, Integers, FiniteSets

CONSTANTS
  Trees,         \* device trees: init and exit sequence, power-invert
  NoSequence,    \* an absent property, a null on_cmds or off_cmds
  MaxProbes      \* bound: how often the device is probed

ASSUME ProbesAssumption == MaxProbes \in Nat

\* A sequence that is there is bytes, of any length and content.
ASSUME TreesAssumption ==
  \A d \in Trees : \A s \in {"on", "off"} :
    d[s] = NoSequence \/ d[s] \in Seq(0 .. 255)

VARIABLES
  dt,        \* what the device tree says of the panel
  phase,     \* of the device: "unbound", "bound", "shut" or "oops"
  panel,     \* struct panel_simple of the probe that is bound
  supply,    \* the counts of this consumer, of another one, and of removed ones
  pins,      \* reset and enable outputs, "unset" until driven
  listed,    \* the probes whose panel is on the DRM list
  kept,      \* the command buffers allocated and not freed
  sent,      \* the init sequence since prepare: "none", "whole" or "part" of it
  probes,    \* how many probes there have been; the last is the bound one
  failed,    \* history: the probes that failed
  refused    \* history: a disable of the supply was refused as unbalanced

panelVars ==
  <<dt, phase, panel, supply, pins, listed, kept, sent, probes, failed, refused>>

NoPanel == [on |-> NoSequence, off |-> NoSequence,
            prepared |-> FALSE, enabled |-> FALSE]

Init ==
  /\ dt \in Trees
  /\ phase = "unbound"
  /\ panel = NoPanel
  /\ supply \in [own : {0}, others : {0, 1}, stuck : {0}]
  /\ pins = [reset |-> "unset", enable |-> "unset"]
  /\ listed = {}
  /\ kept = {}
  /\ sent = "none"
  /\ probes = 0
  /\ failed = {}
  /\ refused = FALSE

-----------------------------------------------------------------------------
(* The supply (regulator core, external).                                  *)

IsEnabled(s) == s.own + s.others + s.stuck > 0
RegulatorEnable(s) == [s EXCEPT !.own = @ + 1]
RegulatorDisable(s) == IF s.own = 0 THEN s ELSE [s EXCEPT !.own = @ - 1]

\* Mutant: power-invert is not looked at when the panel is powered.
PowerUpAlways(s) == RegulatorEnable(s)

\* panel_simple_regulator_enable and _disable once the calls succeed.
PowerUp(s) ==
  IF ~dt.invert THEN RegulatorEnable(s)
  ELSE IF IsEnabled(s) THEN RegulatorDisable(s) ELSE s
PowerDown(s) ==
  IF ~dt.invert THEN RegulatorDisable(s)
  ELSE IF IsEnabled(s) THEN s ELSE RegulatorEnable(s)

\* Whether they ask for a disable that is refused.
UpRefused(s) == dt.invert /\ IsEnabled(s) /\ s.own = 0
DownRefused(s) == ~dt.invert /\ s.own = 0

\* Another consumer of the supply enables or disables it.
OthersSwitch ==
  /\ phase # "oops"
  /\ supply' = [supply EXCEPT !.others = 1 - @]
  /\ UNCHANGED <<dt, phase, panel, pins, listed, kept, sent, probes, failed, refused>>

-----------------------------------------------------------------------------
(* Probe.                                                                  *)

\* panel_simple_get_cmds: the init sequence, then the exit sequence.
Buffers(d, n) ==
  (IF d.on = NoSequence THEN {} ELSE {<<n, "on">>})
    \union (IF d.off = NoSequence THEN {} ELSE {<<n, "off">>})
ScanOf(sequence) == IF sequence = NoSequence THEN "ok" ELSE Scan(sequence)
CutOf(sequence) == IF sequence = NoSequence THEN NoSequence ELSE Cut(sequence)

\* A sequence that does not parse: the buffer of a length that is refused is
\* not freed, nor is the init sequence's when the exit sequence fails.
ParseFails(n) ==
  LET on == ScanOf(dt.on)
      off == ScanOf(dt.off)
  IN  \/ /\ on \in {"odd", "long"}
         /\ kept' = kept \union (IF on = "long" THEN {<<n, "on">>} ELSE {})
      \/ /\ on = "ok" /\ off \in {"odd", "long"}
         /\ kept' = kept \union Buffers([dt EXCEPT !.off =
                                           IF off = "long" THEN @ ELSE NoSequence], n)

\* The supply, a pin, the orientation or the backlight is not there (yet):
\* the buffers of the sequences stay.
ResourceMissing(n) ==
  /\ ScanOf(dt.on) = "ok" /\ ScanOf(dt.off) = "ok"
  /\ kept' = kept \union Buffers(dt, n)

ProbeFails ==
  /\ phase = "unbound" /\ probes < MaxProbes
  /\ probes' = probes + 1
  /\ failed' = failed \union {probes + 1}
  /\ ParseFails(probes + 1) \/ ResourceMissing(probes + 1)
  /\ UNCHANGED <<dt, phase, panel, supply, pins, listed, sent, refused>>

\* mipi_dsi_attach fails: panel_simple_dsi_probe returns its error with the
\* panel still on the list; the structure itself is freed with the device.
AttachFails ==
  /\ phase = "unbound" /\ probes < MaxProbes
  /\ ResourceMissing(probes + 1)
  /\ probes' = probes + 1
  /\ failed' = failed \union {probes + 1}
  /\ listed' = listed \union {probes + 1}
  /\ UNCHANGED <<dt, phase, panel, supply, pins, sent, refused>>

Probe ==
  /\ phase = "unbound" /\ probes < MaxProbes
  /\ ScanOf(dt.on) = "ok" /\ ScanOf(dt.off) = "ok"
  /\ phase' = "bound"
  /\ probes' = probes + 1
  /\ panel' = [NoPanel EXCEPT !.on = CutOf(dt.on), !.off = CutOf(dt.off)]
  /\ kept' = kept \union Buffers(dt, probes + 1)
  /\ listed' = listed \union {probes + 1}
  /\ sent' = "none"
  /\ UNCHANGED <<dt, supply, pins, failed, refused>>

\* The scan left the buffer: what it reads is not the program's.
ProbeRunsWild ==
  /\ phase = "unbound" /\ probes < MaxProbes
  /\ \/ ScanOf(dt.on) = "wild"
     \/ ScanOf(dt.on) = "ok" /\ ScanOf(dt.off) = "wild"
  /\ phase' = "oops"
  /\ UNCHANGED <<dt, panel, supply, pins, listed, kept, sent, probes, failed, refused>>

-----------------------------------------------------------------------------
(* The panel's functions.                                                  *)

\* The init sequence reaches the panel up to the first unknown type, less
\* what failed to be written; neither changes what follows.
SendsOn(cmds) ==
  \/ cmds = NoSequence /\ sent' = "whole"
  \/ cmds # NoSequence /\ AllKnown(cmds) /\ sent' = "whole"
  \/ cmds # NoSequence /\ cmds # <<>> /\ sent' = "part"

panel_simple_prepare ==
  /\ phase \in {"bound", "shut"}
  /\ \/ /\ panel.prepared
        /\ UNCHANGED <<panel, supply, pins, sent, refused>>
     \/ /\ ~panel.prepared /\ ~dt.invert   \* regulator_enable fails
        /\ UNCHANGED <<panel, supply, pins, sent, refused>>
     \/ /\ ~panel.prepared
        /\ supply' = PowerUp(supply)
        /\ refused' = (refused \/ UpRefused(supply))
        /\ pins' = [reset |-> "level", enable |-> "high"]
        /\ SendsOn(panel.on)
        /\ panel' = [panel EXCEPT !.prepared = TRUE]
  /\ UNCHANGED <<dt, phase, listed, kept, probes, failed>>

panel_simple_enable ==
  /\ phase \in {"bound", "shut"}
  /\ panel' = [panel EXCEPT !.enabled = TRUE]
  /\ UNCHANGED <<dt, phase, supply, pins, listed, kept, sent, probes, failed, refused>>

panel_simple_disable ==
  /\ phase \in {"bound", "shut"}
  /\ panel' = [panel EXCEPT !.enabled = FALSE]
  /\ UNCHANGED <<dt, phase, supply, pins, listed, kept, sent, probes, failed, refused>>

\* What unprepare and shutdown do to the pins and the supply; enabling an
\* inverted supply may fail, which nobody looks at.
Quiet == [reset |-> "opposite", enable |-> "low"]
Downs(s) == {PowerDown(s)} \union (IF dt.invert THEN {s} ELSE {})
CutsPower ==
  /\ pins' = Quiet
  /\ supply' \in Downs(supply)
  /\ refused' = (refused \/ DownRefused(supply))

\* Mutant: whether the panel is prepared is not asked.
UnprepareAlways ==
  /\ phase \in {"bound", "shut"}
  /\ CutsPower
  /\ sent' = "none"
  /\ panel' = [panel EXCEPT !.prepared = FALSE]
  /\ UNCHANGED <<dt, phase, listed, kept, probes, failed>>

panel_simple_unprepare ==
  /\ phase \in {"bound", "shut"}
  /\ IF panel.prepared THEN CutsPower /\ sent' = "none"
     ELSE UNCHANGED <<supply, pins, sent, refused>>
  /\ panel' = [panel EXCEPT !.prepared = FALSE]
  /\ UNCHANGED <<dt, phase, listed, kept, probes, failed>>

\* Mutant: remove forgets to take the panel off the list.
RemoveKeepsListed ==
  /\ phase = "bound"
  /\ phase' = "unbound"
  /\ panel' = NoPanel
  /\ kept' = {b \in kept : b[1] # probes}
  /\ UNCHANGED <<dt, supply, pins, listed, sent, probes, failed, refused>>

\* remove: off the list, disable, unprepare, the buffers freed.  What the
\* consumer still counts stays with the supply for good.
panel_simple_remove ==
  /\ phase = "bound"
  /\ phase' = "unbound"
  /\ \E s \in (IF panel.prepared THEN Downs(supply) ELSE {supply}) :
       supply' = [s EXCEPT !.own = 0, !.stuck = @ + s.own]
  /\ pins' = IF panel.prepared THEN Quiet ELSE pins
  /\ refused' = (refused \/ (panel.prepared /\ DownRefused(supply)))
  /\ sent' = "none"
  /\ panel' = NoPanel
  /\ listed' = listed \ {probes}
  /\ kept' = {b \in kept : b[1] # probes}
  /\ UNCHANGED <<dt, probes, failed>>

\* Mutant: shutdown disables the panel and leaves the power on.
ShutdownKeepsPower ==
  /\ phase = "bound"
  /\ phase' = "shut"
  /\ panel' = [panel EXCEPT !.enabled = FALSE]
  /\ UNCHANGED <<dt, supply, pins, listed, kept, sent, probes, failed, refused>>

\* shutdown leaves "prepared" set and sends no exit sequence.
panel_simple_shutdown ==
  /\ phase = "bound"
  /\ phase' = "shut"
  /\ panel' = [panel EXCEPT !.enabled = FALSE]
  /\ IF panel.prepared THEN CutsPower ELSE UNCHANGED <<pins, supply, refused>>
  /\ UNCHANGED <<dt, listed, kept, sent, probes, failed>>
=============================================================================
