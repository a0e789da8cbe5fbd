--------------------------- MODULE DisplayProofs ---------------------------
(***************************************************************************)
(* For all device trees, any number of probes, all brightnesses and any    *)
(* set of callers: the types, that the supply and the pins follow the      *)
(* panel, that a removed panel leaves nothing, that the registers hold the *)
(* brightness asked for last, that the commands sent are the bytes of the  *)
(* tree, and which bytes parse.  The panel and the backlight share no      *)
(* variable, so the invariant is proved by halves; what the two recursive  *)
(* scans of panel_simple_parse_cmds make of the bytes is proved by         *)
(* induction over the bytes and over the commands.                         *)
(***************************************************************************)
EXTENDS Display, SequenceTheorems, WellFoundedInduction, TLAPS

PanelTypeOK ==
  /\ phase \in {"unbound", "bound", "shut", "oops"}
  /\ panel.prepared \in BOOLEAN /\ panel.enabled \in BOOLEAN
  /\ supply \in [own : 0 .. 1, others : 0 .. 1, stuck : 0 .. MaxProbes]
  /\ pins.reset \in {"unset", "level", "opposite"}
  /\ pins.enable \in {"unset", "high", "low"}
  /\ listed \subseteq 1 .. probes /\ failed \subseteq 1 .. probes
  /\ kept \subseteq (1 .. probes) \X {"on", "off"}
  /\ refused \in BOOLEAN
  /\ sent \in {"none", "whole", "part"}
  /\ crtc \in CrtcStates

PanelInv ==
  /\ PanelTypeOK /\ PanelIsHere
  /\ PreparedIsPowered /\ DisablesAreBalanced
  /\ OutputIsPrepared /\ RemovedLeavesNothing

-----------------------------------------------------------------------------
(* Probes.                                                                 *)

\* A probe that fails keeps at most its own buffers.
LEMMA KeptGrows ==
  ASSUME NEW n, ParseFails(n) \/ ResourceMissing(n)
  PROVE  kept' \subseteq kept \union {<<n, "on">>, <<n, "off">>}
BY DEF ParseFails, ResourceMissing, Buffers

\* What grows by the buffers and the panel of the probe that failed, or of the
\* one that is bound now, is theirs.
LEMMA LeftGrows ==
  ASSUME PanelTypeOK, PanelIsHere, RemovedLeavesNothing, phase = "unbound",
         probes' = probes + 1,
         kept' \subseteq kept \union {<<probes + 1, "on">>, <<probes + 1, "off">>},
         listed' \subseteq listed \union {probes + 1},
         \/ failed' = failed \union {probes + 1}
         \/ failed' = failed /\ phase' = "bound"
  PROVE  /\ RemovedLeavesNothing'
         /\ listed' \subseteq 1 .. probes' /\ failed' \subseteq 1 .. probes'
         /\ kept' \subseteq (1 .. probes') \X {"on", "off"}
<1>0. probes \in Nat
  BY DEF PanelIsHere
<1>1. probes + 1 \in 1 .. probes' /\ 1 .. probes \subseteq 1 .. probes'
  BY <1>0
<1>2. listed' \subseteq 1 .. probes' /\ failed' \subseteq 1 .. probes'
  BY <1>1 DEF PanelTypeOK
<1>3. kept' \subseteq (1 .. probes') \X {"on", "off"}
  BY <1>1 DEF PanelTypeOK
<1>4. \A b \in kept' : b \in kept \/ b[1] = probes + 1
  OBVIOUS
<1>5. listed \subseteq failed /\ \A b \in kept : b[1] \in failed
  BY DEF RemovedLeavesNothing
<1>6. RemovedLeavesNothing'
  BY <1>4, <1>5 DEF RemovedLeavesNothing
<1> QED BY <1>2, <1>3, <1>6

LEMMA ProbePanelKeeps ==
  ASSUME PanelInv, ProbePanel
  PROVE  PanelInv'
<1> USE DEF PanelInv
<1>0. /\ phase = "unbound" /\ probes < MaxProbes /\ crtc' = crtc /\ crtc = "off"
      /\ panel = NoPanel /\ supply.own = 0 /\ supply.stuck <= probes
      /\ probes \in 0 .. MaxProbes
  BY DEF ProbePanel, ProbeFails, ProbeRunsWild, Probe, AttachFails, PanelIsHere
<1>1. CASE ProbeFails \/ AttachFails
  <2>1. /\ UNCHANGED <<dt, phase, panel, supply, pins, sent, refused>>
        /\ probes' = probes + 1
        /\ failed' = failed \union {probes + 1}
        /\ listed' \subseteq listed \union {probes + 1}
    BY <1>1 DEF ProbeFails, AttachFails
  <2>2. kept' \subseteq kept \union {<<probes + 1, "on">>, <<probes + 1, "off">>}
    BY <1>1, KeptGrows DEF ProbeFails, AttachFails
  <2>3. /\ RemovedLeavesNothing'
        /\ listed' \subseteq 1 .. probes' /\ failed' \subseteq 1 .. probes'
        /\ kept' \subseteq (1 .. probes') \X {"on", "off"}
    BY <1>0, <2>1, <2>2, LeftGrows
  <2>4. PanelTypeOK'
    BY <1>0, <2>1, <2>3 DEF PanelTypeOK
  <2>5. PanelIsHere'
    BY <1>0, <2>1, ProbesAssumption DEF PanelIsHere, PanelTypeOK
  <2>6. PreparedIsPowered' /\ DisablesAreBalanced' /\ OutputIsPrepared'
    BY <1>0, <2>1 DEF PreparedIsPowered, DisablesAreBalanced, OutputIsPrepared
  <2> QED BY <2>3, <2>4, <2>5, <2>6
<1>2. CASE Probe
  <2>1. /\ UNCHANGED <<dt, supply, pins, failed, refused>>
        /\ phase' = "bound" /\ probes' = probes + 1 /\ sent' = "none"
        /\ listed' = listed \union {probes + 1}
        /\ kept' \subseteq kept \union {<<probes + 1, "on">>, <<probes + 1, "off">>}
        /\ panel' = [on |-> CutOf(dt.on), off |-> CutOf(dt.off),
                     prepared |-> FALSE, enabled |-> FALSE]
    BY <1>2 DEF Probe, Buffers, NoPanel
  <2>3. /\ RemovedLeavesNothing'
        /\ listed' \subseteq 1 .. probes' /\ failed' \subseteq 1 .. probes'
        /\ kept' \subseteq (1 .. probes') \X {"on", "off"}
    BY <1>0, <2>1, LeftGrows
  <2>4. PanelTypeOK'
    BY <1>0, <2>1, <2>3 DEF PanelTypeOK
  <2>5. PanelIsHere'
    BY <1>0, <2>1, ProbesAssumption DEF PanelIsHere, PanelTypeOK
  <2>6. PreparedIsPowered' /\ DisablesAreBalanced' /\ OutputIsPrepared'
    BY <1>0, <2>1 DEF PreparedIsPowered, DisablesAreBalanced, OutputIsPrepared, NoPanel
  <2> QED BY <2>3, <2>4, <2>5, <2>6
<1>3. CASE ProbeRunsWild
  <2>1. /\ UNCHANGED <<dt, panel, supply, pins, listed, kept, sent, probes, failed, refused>>
        /\ phase' = "oops"
    BY <1>3 DEF ProbeRunsWild
  <2>2. PanelTypeOK' /\ PanelIsHere'
    BY <1>0, <2>1 DEF PanelTypeOK, PanelIsHere
  <2>3. PreparedIsPowered' /\ DisablesAreBalanced' /\ OutputIsPrepared' /\ RemovedLeavesNothing'
    BY <1>0, <2>1 DEF PreparedIsPowered, DisablesAreBalanced, OutputIsPrepared,
       RemovedLeavesNothing
  <2> QED BY <2>2, <2>3
<1> QED BY <1>1, <1>2, <1>3 DEF ProbePanel

-----------------------------------------------------------------------------
(* The supply.                                                             *)

SupplyType == supply \in [own : 0 .. 1, others : 0 .. 1, stuck : 0 .. MaxProbes]

\* Powering up a panel that is not prepared: an inverted one lets go of the
\* supply, another one takes it.
LEMMA PowersUp ==
  ASSUME SupplyType, dt.invert \/ supply.own = 0
  PROVE  /\ PowerUp(supply) \in [own : 0 .. 1, others : 0 .. 1, stuck : 0 .. MaxProbes]
         /\ PowerUp(supply).own = IF dt.invert THEN 0 ELSE 1
         /\ PowerUp(supply).stuck = supply.stuck
<1>1. CASE dt.invert
  <2>1. IsEnabled(supply) \/ supply.own = 0
    BY DEF SupplyType, IsEnabled
  <2> QED BY <1>1, <2>1 DEF SupplyType, PowerUp, RegulatorDisable
<1>2. CASE ~dt.invert
  BY <1>2 DEF SupplyType, PowerUp, RegulatorEnable
<1> QED BY <1>1, <1>2

\* Powering down: an inverted panel takes the supply unless it is on.
LEMMA PowersDown ==
  ASSUME SupplyType, NEW s \in Downs(supply)
  PROVE  /\ s \in [own : 0 .. 1, others : 0 .. 1, stuck : 0 .. MaxProbes]
         /\ ~dt.invert => s.own = 0
         /\ s.stuck = supply.stuck
<1>1. CASE dt.invert
  <2>1. IsEnabled(supply) \/ supply.own = 0
    BY DEF SupplyType, IsEnabled
  <2> QED BY <1>1, <2>1 DEF SupplyType, Downs, PowerDown, RegulatorEnable
<1>2. CASE ~dt.invert
  BY <1>2 DEF SupplyType, Downs, PowerDown, RegulatorDisable
<1> QED BY <1>1, <1>2

\* What a step that leaves the probes and their buffers alone keeps.
LEMMA LeftStays ==
  ASSUME RemovedLeavesNothing, UNCHANGED <<listed, kept, probes, failed>>,
         phase' = phase \/ (phase = "bound" /\ phase' = "shut")
  PROVE  RemovedLeavesNothing'
BY DEF RemovedLeavesNothing

-----------------------------------------------------------------------------
(* The panel's functions.                                                  *)

LEMMA PrepareKeeps ==
  ASSUME PanelInv, Prepare
  PROVE  PanelInv'
<1> USE DEF PanelInv
<1>0. /\ phase = "bound" /\ crtc' = "prepared"
      /\ UNCHANGED <<dt, phase, listed, kept, probes, failed>>
  BY DEF Prepare, panel_simple_prepare
<1>1. CASE UNCHANGED <<panel, supply, pins, sent, refused>> /\ (panel.prepared \/ ~dt.invert)
  <2>1. PanelTypeOK' /\ PanelIsHere'
    BY <1>0, <1>1 DEF PanelTypeOK, PanelIsHere, CrtcStates
  <2>2. PreparedIsPowered' /\ DisablesAreBalanced'
    BY <1>0, <1>1 DEF PreparedIsPowered, DisablesAreBalanced
  <2>3. OutputIsPrepared'
    BY <1>0, <1>1 DEF OutputIsPrepared, PreparedIsPowered, PanelTypeOK
  <2> QED BY <1>0, <2>1, <2>2, <2>3, LeftStays
<1>2. CASE /\ ~panel.prepared
           /\ supply' = PowerUp(supply)
           /\ refused' = (refused \/ UpRefused(supply))
           /\ pins' = [reset |-> "level", enable |-> "high"]
           /\ SendsOn(panel.on)
           /\ panel' = [panel EXCEPT !.prepared = TRUE]
  <2>1. /\ supply' \in [own : 0 .. 1, others : 0 .. 1, stuck : 0 .. MaxProbes]
        /\ supply'.own = (IF dt.invert THEN 0 ELSE 1) /\ supply'.stuck = supply.stuck
    <3>1. dt.invert \/ supply.own = 0
      BY <1>0, <1>2 DEF PreparedIsPowered
    <3> QED BY <1>2, <3>1, PowersUp DEF PanelTypeOK, SupplyType
  <2>2. panel' = [on |-> panel.on, off |-> panel.off,
                  prepared |-> TRUE, enabled |-> panel.enabled]
    BY <1>2 DEF PanelIsHere
  <2>3. sent' \in {"whole", "part"}
    BY <1>2 DEF SendsOn
  <2>4. PanelTypeOK'
    <3>1. refused' \in BOOLEAN
      BY <1>2 DEF PanelTypeOK, UpRefused
    <3>2. crtc' \in CrtcStates
      BY <1>0 DEF CrtcStates
    <3> QED BY <1>0, <1>2, <2>1, <2>2, <2>3, <3>1, <3>2 DEF PanelTypeOK
  <2>5. PanelIsHere'
    BY <1>0, <2>1, <2>2 DEF PanelIsHere
  <2>6. PreparedIsPowered'
    BY <1>0, <2>1, <2>2 DEF PreparedIsPowered
  <2>7. DisablesAreBalanced'
    BY <1>0, <1>2 DEF DisablesAreBalanced, UpRefused
  <2>8. OutputIsPrepared'
    BY <1>0, <2>2, <2>3 DEF OutputIsPrepared
  <2> QED BY <1>0, <2>4, <2>5, <2>6, <2>7, <2>8, LeftStays
<1> QED BY <1>1, <1>2 DEF Prepare, panel_simple_prepare

\* Enable and disable only note that they ran; in between the output is lit
\* and dimmed.
LEMMA EnableKeeps ==
  ASSUME PanelInv, Enable \/ Lit \/ Dim \/ Disable
  PROVE  PanelInv'
<1> USE DEF PanelInv
<1>1. /\ UNCHANGED <<dt, phase, supply, pins, listed, kept, sent, probes, failed, refused>>
      /\ panel' = [on |-> panel.on, off |-> panel.off,
                   prepared |-> panel.prepared, enabled |-> panel'.enabled]
      /\ panel'.enabled \in BOOLEAN
      /\ phase \notin {"unbound", "oops"}
  BY DEF Enable, Lit, Dim, Disable, panel_simple_enable, panel_simple_disable, panelVars,
     PanelIsHere, PanelTypeOK
<1>2. /\ crtc' \in {"lighting", "on", "dimming", "disabled"}
      /\ crtc' # "disabled" => crtc \in {"prepared", "lighting", "on"}
  BY DEF Enable, Lit, Dim, Disable
<1>3. PanelTypeOK' /\ PanelIsHere'
  BY <1>1, <1>2 DEF PanelTypeOK, PanelIsHere, CrtcStates
<1>4. PreparedIsPowered' /\ DisablesAreBalanced'
  BY <1>1 DEF PreparedIsPowered, DisablesAreBalanced
<1>5. OutputIsPrepared'
  BY <1>1, <1>2 DEF OutputIsPrepared
<1> QED BY <1>1, <1>3, <1>4, <1>5, LeftStays

LEMMA UnprepareKeeps ==
  ASSUME PanelInv, Unprepare
  PROVE  PanelInv'
<1> USE DEF PanelInv
<1>0. /\ phase \in {"bound", "shut"} /\ crtc' = "off"
      /\ UNCHANGED <<dt, phase, listed, kept, probes, failed>>
      /\ panel' = [on |-> panel.on, off |-> panel.off,
                   prepared |-> FALSE, enabled |-> panel.enabled]
  BY DEF Unprepare, panel_simple_unprepare, PanelIsHere
<1>1. CASE panel.prepared /\ CutsPower /\ sent' = "none"
  <2>1. supply' \in Downs(supply) /\ pins' = Quiet
    BY <1>1 DEF CutsPower
  <2>2. /\ supply' \in [own : 0 .. 1, others : 0 .. 1, stuck : 0 .. MaxProbes]
        /\ ~dt.invert => supply'.own = 0
        /\ supply'.stuck = supply.stuck
    BY <2>1, PowersDown DEF PanelTypeOK, SupplyType
  <2>3. refused' \in BOOLEAN /\ DisablesAreBalanced'
    BY <1>0, <1>1 DEF PanelTypeOK, DisablesAreBalanced, PreparedIsPowered, CutsPower, DownRefused
  <2>4. PanelTypeOK'
    BY <1>0, <1>1, <2>1, <2>2, <2>3 DEF PanelTypeOK, Quiet, CrtcStates
  <2>5. PanelIsHere' /\ PreparedIsPowered'
    BY <1>0, <2>2 DEF PanelIsHere, PreparedIsPowered
  <2>6. OutputIsPrepared'
    BY <1>0, <1>1, <2>1 DEF OutputIsPrepared, Quiet
  <2> QED BY <1>0, <2>3, <2>4, <2>5, <2>6, LeftStays
<1>2. CASE ~panel.prepared /\ UNCHANGED <<supply, pins, sent, refused>>
  <2>1. PanelTypeOK' /\ PanelIsHere'
    BY <1>0, <1>2 DEF PanelTypeOK, PanelIsHere, CrtcStates
  <2>2. PreparedIsPowered' /\ DisablesAreBalanced'
    BY <1>0, <1>2 DEF PreparedIsPowered, DisablesAreBalanced
  <2>3. OutputIsPrepared'
    BY <1>0, <1>2 DEF OutputIsPrepared
  <2> QED BY <1>0, <2>1, <2>2, <2>3, LeftStays
<1> QED BY <1>1, <1>2 DEF Unprepare, panel_simple_unprepare, PanelTypeOK

LEMMA RemoveKeeps ==
  ASSUME PanelInv, RemovePanel
  PROVE  PanelInv'
<1> USE DEF PanelInv
<1>0. /\ phase = "bound" /\ phase' = "unbound" /\ crtc = "off" /\ crtc' = "off"
      /\ UNCHANGED <<dt, probes, failed>>
      /\ sent' = "none" /\ panel' = NoPanel
      /\ listed' = listed \ {probes}
      /\ kept' = {b \in kept : b[1] # probes}
      /\ pins' = IF panel.prepared THEN Quiet ELSE pins
  BY DEF RemovePanel, panel_simple_remove
<1>1. PICK s \in IF panel.prepared THEN Downs(supply) ELSE {supply} :
        supply' = [s EXCEPT !.own = 0, !.stuck = @ + s.own]
  BY DEF RemovePanel, panel_simple_remove
<1>2. /\ s \in [own : 0 .. 1, others : 0 .. 1, stuck : 0 .. MaxProbes]
      /\ s.stuck = supply.stuck
  BY <1>1, PowersDown DEF PanelTypeOK, SupplyType
<1>3. /\ supply' = [own |-> 0, others |-> s.others, stuck |-> s.stuck + s.own]
      /\ supply'.stuck <= probes
  <2>1. supply' = [own |-> 0, others |-> s.others, stuck |-> s.stuck + s.own]
    BY <1>1, <1>2
  <2>2. s.own \in 0 .. 1 /\ s.stuck \in 0 .. MaxProbes
    BY <1>2
  <2>3. s.stuck < probes /\ probes \in 0 .. MaxProbes
    BY <1>0, <1>2 DEF PanelIsHere
  <2>4. s.stuck + s.own <= probes
    BY <2>2, <2>3, ProbesAssumption
  <2> QED BY <2>1, <2>4
<1>4. refused' \in BOOLEAN /\ DisablesAreBalanced'
  BY <1>0 DEF RemovePanel, panel_simple_remove, PanelTypeOK, DisablesAreBalanced,
     PreparedIsPowered, DownRefused
<1>5. supply' \in [own : 0 .. 1, others : 0 .. 1, stuck : 0 .. MaxProbes]
  BY <1>2, <1>3, ProbesAssumption DEF PanelIsHere
<1>6. PanelTypeOK'
  BY <1>0, <1>4, <1>5 DEF PanelTypeOK, NoPanel, Quiet
<1>7. PanelIsHere' /\ PreparedIsPowered'
  BY <1>0, <1>3 DEF PanelIsHere, PreparedIsPowered, NoPanel
<1>8. OutputIsPrepared'
  BY <1>0 DEF OutputIsPrepared, NoPanel, PanelTypeOK
<1>9. RemovedLeavesNothing'
  BY <1>0 DEF RemovedLeavesNothing
<1> QED BY <1>4, <1>6, <1>7, <1>8, <1>9

LEMMA ShutdownKeeps ==
  ASSUME PanelInv, Shutdown
  PROVE  PanelInv'
<1> USE DEF PanelInv
<1>0. /\ phase = "bound" /\ phase' = "shut" /\ crtc' = crtc
      /\ UNCHANGED <<dt, listed, kept, sent, probes, failed>>
      /\ panel' = [on |-> panel.on, off |-> panel.off,
                   prepared |-> panel.prepared, enabled |-> FALSE]
  BY DEF Shutdown, panel_simple_shutdown, PanelIsHere
<1>1. CASE panel.prepared /\ CutsPower
  <2>1. supply' \in Downs(supply) /\ pins' = Quiet
    BY <1>1 DEF CutsPower
  <2>2. /\ supply' \in [own : 0 .. 1, others : 0 .. 1, stuck : 0 .. MaxProbes]
        /\ supply'.stuck = supply.stuck
    BY <2>1, PowersDown DEF PanelTypeOK, SupplyType
  <2>3. refused' \in BOOLEAN
    BY <1>1 DEF PanelTypeOK, CutsPower, DownRefused
  <2>4. PanelTypeOK'
    BY <1>0, <1>1, <2>1, <2>2, <2>3 DEF PanelTypeOK, Quiet
  <2>5. PanelIsHere' /\ PreparedIsPowered' /\ DisablesAreBalanced'
    BY <1>0, <2>2 DEF PanelIsHere, PreparedIsPowered, DisablesAreBalanced
  <2>6. OutputIsPrepared'
    BY <1>0, <1>1, <2>1 DEF OutputIsPrepared, Quiet
  <2> QED BY <1>0, <2>4, <2>5, <2>6, LeftStays
<1>2. CASE ~panel.prepared /\ UNCHANGED <<pins, supply, refused>>
  <2>1. PanelTypeOK' /\ PanelIsHere'
    BY <1>0, <1>2 DEF PanelTypeOK, PanelIsHere
  <2>2. PreparedIsPowered' /\ DisablesAreBalanced' /\ OutputIsPrepared'
    BY <1>0, <1>2 DEF PreparedIsPowered, DisablesAreBalanced, OutputIsPrepared
  <2> QED BY <1>0, <2>1, <2>2, LeftStays
<1> QED BY <1>1, <1>2 DEF Shutdown, panel_simple_shutdown, PanelTypeOK

\* Another consumer changes nothing of the panel's own.
LEMMA SwitchKeeps ==
  ASSUME PanelInv, SwitchSupply
  PROVE  PanelInv'
<1> USE DEF PanelInv
<1>1. UNCHANGED <<dt, phase, panel, pins, listed, kept, sent, probes, failed, refused, crtc>>
  BY DEF SwitchSupply, OthersSwitch
<1>2. /\ supply' = [own |-> supply.own, others |-> 1 - supply.others, stuck |-> supply.stuck]
      /\ supply' \in [own : 0 .. 1, others : 0 .. 1, stuck : 0 .. MaxProbes]
  BY DEF SwitchSupply, OthersSwitch, PanelTypeOK
<1>3. PanelTypeOK' /\ PanelIsHere'
  BY <1>1, <1>2 DEF PanelTypeOK, PanelIsHere
<1>4. PreparedIsPowered' /\ DisablesAreBalanced' /\ OutputIsPrepared'
  BY <1>1, <1>2 DEF PreparedIsPowered, DisablesAreBalanced, OutputIsPrepared
<1> QED BY <1>1, <1>3, <1>4, LeftStays

\* The steps of the backlight.
LEMMA BacklightKeepsPanel ==
  ASSUME PanelInv, UNCHANGED <<panelVars, crtc>>
  PROVE  PanelInv'
BY DEF panelVars, PanelInv, PanelTypeOK, PanelIsHere, PreparedIsPowered,
   DisablesAreBalanced, OutputIsPrepared, RemovedLeavesNothing

-----------------------------------------------------------------------------
(* The backlight.                                                          *)

LightTypeOK ==
  /\ chip \in Chips
  /\ brightness \in Settings
  /\ lock \in Nat /\ updating \in Callers \union {NoCaller}
  /\ step \in [Callers -> {"idle", "wait", "lsb", "msb", "up"}]
  /\ level \in [Callers -> Settings]

LightInv == LightTypeOK /\ BacklightIsHere

LEMMA SettingsAre == \A x : x \in Settings <=> x \in Nat /\ x <= 4095
<1> DEFINE Upto(n) == \A x : x \in 0 .. n <=> x \in Nat /\ x <= n
<1>1. \A n \in Nat : Upto(n)
  OBVIOUS
<1>2. MaxSetting \in Nat
  BY DEF MaxSetting
<1> HIDE DEF Upto
<1>3. Upto(MaxSetting)
  BY <1>1, <1>2
<1>4. \A x : x \in Settings <=> x \in Nat /\ x <= MaxSetting
  BY <1>3 DEF Settings, Upto
<1> HIDE DEF Settings
<1> QED BY <1>4 DEF MaxSetting

\* The two registers together are the level.
LEMMA Nibbles ==
  ASSUME NEW l \in Nat, l <= 4095
  PROVE  /\ Lsb(l) \in 0 .. 15 /\ Msb(l) \in 0 .. 255
         /\ 16 * Msb(l) + Lsb(l) = l
<1>1. (l \div 16) \in 0 .. 255
  OBVIOUS
<1>2. (l % 16) \in 0 .. 15
  OBVIOUS
<1>3. 16 * (l \div 16) + (l % 16) = l
  OBVIOUS
<1>4. \A m \in 0 .. 255 : m % 256 = m
  OBVIOUS
<1> QED BY <1>1, <1>2, <1>3, <1>4 DEF Lsb, Msb

\* The level of a brightness, which is 0 for 0 only.
LEMMA Levels ==
  ASSUME NEW b \in Nat, b <= 4095
  PROVE  /\ LevelOf(b) \in Nat /\ LevelOf(b) <= 4095 /\ LevelOf(b) \in Settings
         /\ LevelOf(b) = (CASE b = 0 -> 0 [] b \in 1 .. 15 -> 16 [] OTHER -> b)
         /\ LevelOf(b) = 0 <=> b = 0
<1> USE DEF LevelOf, Scaled, MinSetting, MaxSetting
<1>1. /\ LevelOf(b) \in Nat /\ LevelOf(b) <= 4095
      /\ LevelOf(b) = 0 <=> b = 0
  OBVIOUS
<1>2. CASE b = 0
  BY <1>1, <1>2, SettingsAre
<1>3. CASE b \in 1 .. 15
  <2>1. LevelOf(b) = 16 /\ b # 0
    BY <1>3
  <2> HIDE DEF LevelOf
  <2> QED BY <1>1, <1>3, <2>1, SettingsAre
<1>4. CASE b >= 16
  <2>1. LevelOf(b) = b /\ b # 0 /\ b \notin 1 .. 15
    BY <1>4
  <2> HIDE DEF LevelOf
  <2> QED BY <1>1, <2>1, SettingsAre
<1> QED BY <1>2, <1>3, <1>4

LEMMA ChipIsWritten ==
  ASSUME NEW l \in Nat, l <= 4095, NEW c \in Chips, NEW o \in Outcomes
  PROVE  /\ SetLsb(c, o, l) \in Chips
         /\ SetMsb(c, o, l) \in Chips
<1>1. Lsb(l) \in 0 .. 15 /\ Msb(l) \in 0 .. 255
  BY Nibbles
<1>2. Written(o, c.lsb, Lsb(l)) \in 0 .. 15 /\ Written(o, c.msb, Msb(l)) \in 0 .. 255
  BY <1>1 DEF Written, Chips
<1> QED BY <1>2 DEF SetLsb, SetMsb, Chips

LEMMA ChipsAreWritten ==
  \A l, c : l \in Nat /\ l <= 4095 /\ c \in Chips =>
    \A o \in Outcomes : /\ SetLsb(c, o, l) \in Chips
                        /\ SetMsb(c, o, l) \in Chips
BY ChipIsWritten

\* Nor does what probe writes leave them out of range.
LEMMA LevelSetsType ==
  ASSUME NEW l \in Nat, l <= 4095, NEW c \in Chips,
         NEW h \in LevelSets(c, l)
  PROVE  h \in Chips
<1>1. PICK o \in Outcomes :
        h = SetLsb(c, o, l) \/ \E p \in Outcomes : h = SetMsb(SetLsb(c, o, l), p, l)
  BY DEF LevelSets
<1>2. SetLsb(c, o, l) \in Chips
  BY ChipIsWritten
<1>3. \A p \in Outcomes : SetMsb(SetLsb(c, o, l), p, l) \in Chips
  BY <1>2, ChipIsWritten
<1> QED BY <1>1, <1>2, <1>3

LEMMA ProbeLightKeeps ==
  ASSUME LightInv, SGM37604A_probe
  PROVE  LightInv'
<1>1. /\ ~ready /\ ready' = TRUE /\ lock' = 1
      /\ brightness' = StartBrightness
      /\ UNCHANGED <<is_suspend, updating, step, level, clean>>
  BY DEF SGM37604A_probe
<1>2. chip' \in Chips
  <2>1. /\ StartLevel \in Nat /\ StartLevel <= 4095
        /\ chip \in Chips
        /\ chip' \in LevelSets(chip, StartLevel)
    BY DEF StartLevel, LightInv, LightTypeOK, SGM37604A_probe
  <2> QED BY <2>1, LevelSetsType
<1>3. LightTypeOK'
  BY <1>1, <1>2, SettingsAre DEF LightInv, LightTypeOK, StartBrightness
<1>4. BacklightIsHere'
  <2>1. ~clean /\ \A c \in Callers : step[c] = "idle"
    BY <1>1 DEF LightInv, BacklightIsHere
  <2> QED BY <1>1, <2>1 DEF LightInv, BacklightIsHere, Writing
<1> QED BY <1>3, <1>4 DEF LightInv

\* Somebody who asks waits, whatever the registers hold.
LEMMA RequestKeeps ==
  ASSUME LightInv, NEW c \in Callers, NEW b \in Settings, Request(c, b)
  PROVE  LightInv'
<1> USE DEF LightInv
<1>1. /\ ready /\ step[c] = "idle" /\ brightness' = b
      /\ step' = [step EXCEPT ![c] = "wait"]
      /\ UNCHANGED <<ready, chip, is_suspend, lock, updating, level, clean>>
  BY DEF Request
<1>2. LightTypeOK'
  BY <1>1 DEF LightTypeOK
<1>3. step'[c] = "wait" /\ \A d \in Callers \ {c} : step'[d] = step[d]
  BY <1>1 DEF LightTypeOK
<1>4. \A d \in Callers : step'[d] \in Writing <=> step[d] \in Writing
  BY <1>1, <1>3 DEF Writing
<1>5. \A d \in Callers : step'[d] \in Writing => UpdateIsHere(d)'
  BY <1>1, <1>3, <1>4 DEF BacklightIsHere, UpdateIsHere, NobodyWaits, Holds, Writing
<1>6. BacklightIsHere'
  BY <1>1, <1>3, <1>4, <1>5 DEF BacklightIsHere, NobodyWaits
<1> QED BY <1>2, <1>6

\* Whoever writes is the one who updates, so the others do not.
LEMMA OneWrites ==
  ASSUME LightInv, NEW c \in Callers, step[c] \in Writing
  PROVE  updating = c /\ \A d \in Callers \ {c} : step[d] \notin Writing
BY DEF LightInv, BacklightIsHere

LEMMA BeginKeeps ==
  ASSUME LightInv, NEW c \in Callers, Begin(c)
  PROVE  LightInv'
<1> USE DEF LightInv
<1>1. /\ step[c] = "wait" /\ updating = NoCaller /\ updating' = c
      /\ level' = [level EXCEPT ![c] = LevelOf(brightness)]
      /\ is_suspend' = (is_suspend /\ level'[c] = 0)
      /\ lock' \in {lock - 1, lock} /\ clean' = TRUE
      /\ step' = [step EXCEPT ![c] = "lsb"]
      /\ UNCHANGED <<ready, chip, brightness>>
  BY DEF Begin, Down
<1>2. /\ step'[c] = "lsb" /\ level'[c] = LevelOf(brightness)
      /\ \A d \in Callers \ {c} : step'[d] = step[d] /\ level'[d] = level[d]
  BY <1>1 DEF LightTypeOK
<1>3. lock' \in Nat
  BY DEF Begin, Down, LightTypeOK
<1>4. LightTypeOK'
  <2>1. LevelOf(brightness) \in Settings
    <3>1. brightness \in Nat /\ brightness <= 4095
      BY SettingsAre DEF LightTypeOK
    <3> QED BY <3>1, Levels
  <2> QED BY <1>1, <1>3, <2>1 DEF LightTypeOK
<1>5. \A d \in Callers : step[d] \notin Writing
  BY <1>1, CallersAssumption DEF BacklightIsHere
<1>6. UpdateIsHere(c)'
  BY <1>1, <1>2 DEF UpdateIsHere, BacklightIsHere
<1>7. ready
  BY <1>1 DEF BacklightIsHere
<1>8. is_suspend' \in BOOLEAN
  BY <1>1 DEF BacklightIsHere
<1>9. updating' # NoCaller
  BY <1>1, CallersAssumption
<1>10. \A d \in Callers : updating' = d <=> step'[d] \in Writing
  BY <1>1, <1>2, <1>5 DEF Writing
<1>11. BacklightIsHere'
  BY <1>1, <1>2, <1>5, <1>6, <1>7, <1>8, <1>9, <1>10 DEF BacklightIsHere
<1> QED BY <1>4, <1>11

\* A write touches one register; the writer alone says what it holds.
LEMMA WriteKeeps ==
  ASSUME LightInv, NEW c \in Callers, WriteLsb(c) \/ WriteMsb(c)
  PROVE  LightInv'
<1> USE DEF LightInv
<1>1. PICK o \in Outcomes :
        /\ clean' = (clean /\ o.ok)
        /\ \/ /\ step[c] = "lsb" /\ chip' = SetLsb(chip, o, level[c])
              /\ step' = [step EXCEPT ![c] = IF o.ok THEN "msb" ELSE "up"]
           \/ /\ step[c] = "msb" /\ chip' = SetMsb(chip, o, level[c])
              /\ step' = [step EXCEPT ![c] = "up"]
  BY DEF WriteLsb, WriteMsb
<1>2. UNCHANGED <<ready, brightness, is_suspend, lock, updating, level>>
  BY DEF WriteLsb, WriteMsb
<1>3. /\ level[c] \in Nat /\ level[c] <= 4095 /\ updating = c
      /\ \A d \in Callers \ {c} : step'[d] = step[d] /\ step[d] \notin Writing
      /\ step[c] \in Writing /\ step'[c] \in {"msb", "up"}
  <2>1. step[c] \in Writing
    BY <1>1 DEF Writing
  <2>2. \A d \in Callers \ {c} : step'[d] = step[d]
    BY <1>1 DEF LightTypeOK
  <2>3. step'[c] \in {"msb", "up"}
    BY <1>1 DEF LightTypeOK
  <2>4. level[c] \in Nat /\ level[c] <= 4095
    <3>1. level[c] \in Settings
      BY DEF LightTypeOK
    <3> QED BY <3>1, SettingsAre
  <2> QED BY <2>1, <2>2, <2>3, <2>4, OneWrites
<1>4. chip' \in Chips
  <2>1. chip \in Chips
    BY DEF LightTypeOK
  <2>2. level[c] \in Nat /\ level[c] <= 4095
    BY <1>3
  <2>3. \A q \in Outcomes :
          /\ SetLsb(chip, q, level[c]) \in Chips
          /\ SetMsb(chip, q, level[c]) \in Chips
    BY <2>1, <2>2, ChipsAreWritten
  <2> QED BY <1>1, <2>3
<1>5. LightTypeOK'
  <2>1. step' \in [Callers -> {"idle", "wait", "lsb", "msb", "up"}]
    BY <1>1 DEF LightTypeOK
  <2> QED BY <1>2, <1>4, <2>1 DEF LightTypeOK
<1>6. UpdateIsHere(c)
  BY <1>3 DEF BacklightIsHere
<1>7. \/ ~clean'
      \/ /\ clean /\ step[c] = "lsb" /\ step'[c] = "msb" /\ chip'.lsb = Lsb(level[c])
      \/ /\ clean /\ step[c] = "msb" /\ step'[c] = "up"
         /\ chip'.msb = Msb(level[c]) /\ chip'.lsb = chip.lsb
  <2>1. o.ok => o.written
    BY DEF Outcomes
  <2>2. o.written => /\ SetLsb(chip, o, level[c]).lsb = Lsb(level[c])
                     /\ SetMsb(chip, o, level[c]).msb = Msb(level[c])
                     /\ SetMsb(chip, o, level[c]).lsb = chip.lsb
    BY DEF SetLsb, SetMsb, Written, LightTypeOK
  <2>3. step[c] = "lsb" /\ o.ok => (step' = [step EXCEPT ![c] = "msb"])
    BY <1>1
  <2>4. /\ step[c] = "lsb" /\ o.ok => step'[c] = "msb"
        /\ step[c] = "msb" => step'[c] = "up"
    BY <1>1, <2>3 DEF LightTypeOK
  <2> QED BY <1>1, <2>1, <2>2, <2>4
<1>8. NobodyWaits' => NobodyWaits
  BY <1>3 DEF NobodyWaits, Writing
<1>9. UpdateIsHere(c)'
  BY <1>2, <1>3, <1>6, <1>7, <1>8 DEF UpdateIsHere, Holds
<1>10. \A d \in Callers : updating' = d <=> step'[d] \in Writing
  BY <1>2, <1>3 DEF Writing
<1>11. ready /\ ready' /\ updating' # NoCaller
  BY <1>2, <1>3, CallersAssumption DEF BacklightIsHere, Writing
<1>12. {ready', clean', is_suspend'} \subseteq BOOLEAN
  BY <1>1, <1>2, <1>11 DEF BacklightIsHere, Outcomes
<1>13. BacklightIsHere'
  BY <1>3, <1>9, <1>10, <1>11, <1>12 DEF BacklightIsHere
<1> QED BY <1>5, <1>13

\* With the update done the registers hold the level it wrote; if nobody
\* waits, that is the level of the brightness.
LEMMA FinishKeeps ==
  ASSUME LightInv, NEW c \in Callers, Finish(c)
  PROVE  LightInv'
<1> USE DEF LightInv
<1>1. /\ step[c] = "up" /\ updating' = NoCaller
      /\ is_suspend' = (is_suspend \/ level[c] = 0)
      /\ lock' = lock + 1
      /\ step' = [step EXCEPT ![c] = "idle"]
      /\ level' = [level EXCEPT ![c] = 0]
      /\ UNCHANGED <<ready, chip, brightness, clean>>
  BY DEF Finish, Up
<1>2. step'[c] = "idle" /\ \A d \in Callers \ {c} : step'[d] = step[d] /\ level'[d] = level[d]
  BY <1>1 DEF LightTypeOK
<1>3. \A d \in Callers \ {c} : step[d] \notin Writing
  BY <1>1, OneWrites DEF Writing
<1>4. UpdateIsHere(c)
  BY <1>1 DEF BacklightIsHere, Writing
<1>5. LightTypeOK'
  BY <1>1, SettingsAre DEF LightTypeOK
<1>6. \A d \in Callers : updating' # d /\ step'[d] \notin Writing
  BY <1>1, <1>2, <1>3, CallersAssumption DEF Writing
<1>7. ready
  BY <1>1 DEF BacklightIsHere
<1>8. {ready', clean', is_suspend'} \subseteq BOOLEAN
  BY <1>1 DEF BacklightIsHere
<1>9. NobodyWaits' => NobodyWaits
  BY <1>1, <1>2 DEF NobodyWaits
<1>10. NobodyWaits' /\ clean' =>
         Holds(LevelOf(brightness))' /\ (is_suspend' <=> brightness' = 0)
  <2> SUFFICES ASSUME NobodyWaits, clean
               PROVE  Holds(LevelOf(brightness))' /\ (is_suspend' <=> brightness' = 0)
    BY <1>1, <1>9
  <2>1. level[c] = LevelOf(brightness)
    BY <1>4 DEF UpdateIsHere
  <2>2. Holds(level[c])
    BY <1>1, <1>4 DEF UpdateIsHere
  <2>3. level[c] # 0 => ~is_suspend
    BY <1>4 DEF UpdateIsHere
  <2>4. LevelOf(brightness) = 0 <=> brightness = 0
    <3>1. brightness \in Nat /\ brightness <= 4095
      BY SettingsAre DEF LightTypeOK
    <3> QED BY <3>1, Levels
  <2>5. Holds(LevelOf(brightness))'
    BY <1>1, <2>1, <2>2 DEF Holds
  <2>6. is_suspend \in BOOLEAN
    BY DEF BacklightIsHere
  <2> QED BY <1>1, <2>1, <2>3, <2>4, <2>5, <2>6
<1>11. BacklightIsHere'
  BY <1>1, <1>6, <1>7, <1>8, <1>10 DEF BacklightIsHere
<1> QED BY <1>5, <1>11

LEMMA LightStays ==
  ASSUME LightInv, UNCHANGED backlightVars
  PROVE  LightInv'
BY DEF LightInv, LightTypeOK, BacklightIsHere, UpdateIsHere, NobodyWaits, Holds, backlightVars

-----------------------------------------------------------------------------
(* Both halves.                                                            *)

LEMMA Halves ==
  /\ IInv => PanelInv /\ LightInv
  /\ PanelInv /\ LightInv => IInv
  /\ PanelInv' /\ LightInv' => IInv'
BY DEF IInv, TypeOK, PanelInv, LightInv, PanelTypeOK, LightTypeOK, SupplyIsBalanced

LEMMA InitIInv ==
  ASSUME InitDisplay
  PROVE  IInv
<1>1. PanelInv
  <2>1. PanelTypeOK
    <3>1. /\ supply.own = 0 /\ supply.others \in {0, 1} /\ supply.stuck = 0
          /\ supply = [own |-> supply.own, others |-> supply.others, stuck |-> supply.stuck]
      BY DEF InitDisplay, Init
    <3>2. supply \in [own : 0 .. 1, others : 0 .. 1, stuck : 0 .. MaxProbes]
      BY <3>1, ProbesAssumption
    <3>3. /\ phase = "unbound" /\ panel = NoPanel /\ listed = {} /\ kept = {} /\ sent = "none"
          /\ failed = {} /\ refused = FALSE /\ crtc = "off"
          /\ pins.reset = "unset" /\ pins.enable = "unset"
      BY DEF InitDisplay, Init
    <3> QED BY <3>2, <3>3 DEF PanelTypeOK, NoPanel, CrtcStates
  <2>2. PanelIsHere
    BY ProbesAssumption DEF InitDisplay, Init, PanelIsHere, NoPanel
  <2>3. /\ phase = "unbound" /\ listed = {} /\ kept = {} /\ refused = FALSE /\ sent = "none"
        /\ pins.reset = "unset" /\ crtc = "off"
    BY DEF InitDisplay, Init
  <2>4. PreparedIsPowered /\ DisablesAreBalanced
    BY <2>3 DEF PreparedIsPowered, DisablesAreBalanced
  <2>5. OutputIsPrepared
    BY <2>3 DEF OutputIsPrepared
  <2>6. RemovedLeavesNothing
    BY <2>3 DEF RemovedLeavesNothing
  <2> QED BY <2>1, <2>2, <2>4, <2>5, <2>6 DEF PanelInv
<1>2. LightInv
  <2>1. LightTypeOK
    <3>1. chip \in Chips
      BY DEF InitDisplay, InitBacklight, Chips
    <3>2. 0 \in Settings
      BY SettingsAre
    <3> QED BY <3>1, <3>2 DEF InitDisplay, InitBacklight, LightTypeOK
  <2>2. BacklightIsHere
    <3>1. ready = FALSE /\ clean = FALSE /\ is_suspend = FALSE
      BY DEF InitDisplay, InitBacklight
    <3>2. \A c \in Callers : step[c] = "idle" /\ updating # c
      BY CallersAssumption DEF InitDisplay, InitBacklight
    <3> QED BY <3>1, <3>2 DEF BacklightIsHere, Writing
  <2> QED BY <2>1, <2>2 DEF LightInv
<1> QED BY <1>1, <1>2, Halves

LEMMA StepKeepsIInv ==
  ASSUME IInv, [Next]_vars
  PROVE  IInv'
<1>0. PanelInv /\ LightInv
  BY Halves
<1>1. CASE ProbeBacklight
  BY <1>0, <1>1, ProbeLightKeeps, BacklightKeepsPanel, Halves DEF ProbeBacklight
<1>2. CASE \E v \in Brightnesses : StoreBrightness(v)
  <2>1. PICK v \in Brightnesses : StoreBrightness(v)
    BY <1>2
  <2>2. "sysfs" \in Callers /\ v \in Settings
    BY DisplayCallers, BrightnessAssumption
  <2> QED BY <1>0, <2>1, <2>2, RequestKeeps, BacklightKeepsPanel, Halves DEF StoreBrightness
<1>3. CASE \E c \in Callers : UpdateStatus(c)
  <2>1. PICK c \in Callers : UpdateStatus(c)
    BY <1>3
  <2>2. LightInv'
    BY <1>0, <2>1, BeginKeeps, WriteKeeps, FinishKeeps DEF UpdateStatus, Update
  <2> QED BY <1>0, <2>1, <2>2, BacklightKeepsPanel, Halves DEF UpdateStatus
<1>4. CASE ProbePanel
  BY <1>0, <1>4, ProbePanelKeeps, LightStays, Halves DEF ProbePanel
<1>5. CASE RemovePanel
  BY <1>0, <1>5, RemoveKeeps, LightStays, Halves DEF RemovePanel
<1>6. CASE Shutdown
  BY <1>0, <1>6, ShutdownKeeps, LightStays, Halves DEF Shutdown
<1>7. CASE SwitchSupply
  BY <1>0, <1>7, SwitchKeeps, LightStays, Halves DEF SwitchSupply
<1>8. CASE Drm
  <2>1. PanelInv'
    BY <1>0, <1>8, PrepareKeeps, EnableKeeps, UnprepareKeeps DEF Drm
  <2>2. "drm" \in Callers /\ brightness \in Settings
    BY <1>0, DisplayCallers DEF LightInv, LightTypeOK
  <2>3. Request("drm", brightness) \/ UNCHANGED backlightVars
    BY <1>8 DEF Drm, Prepare, Enable, Lit, Dim, Disable, Unprepare
  <2>4. LightInv'
    BY <1>0, <2>2, <2>3, RequestKeeps, LightStays
  <2> QED BY <2>1, <2>4, Halves
<1>9. CASE UNCHANGED vars
  BY <1>0, <1>9, BacklightKeepsPanel, LightStays, Halves DEF vars
<1> QED BY <1>1, <1>2, <1>3, <1>4, <1>5, <1>6, <1>7, <1>8, <1>9 DEF Next

-----------------------------------------------------------------------------
(* Induction: the least element of a set of numbers.                       *)

\* A set of numbers that is not empty has a least element.
LEMMA Least ==
  ASSUME NEW T \in SUBSET Nat, T # {}
  PROVE  \E x \in T : \A y \in T : x <= y
<1> DEFINE Less == {ss \in Nat \X Nat : ss[1] < ss[2]}
<1>1. IsWellFoundedOn(Less, Nat)
  BY NatLessThanWellFounded, Zenon DEF OpToRel
<1>2. \A m, n \in Nat : m < n => <<m, n>> \in Less
  OBVIOUS
<1> HIDE DEF Less
<1>3. PICK x \in T : \A y \in T : ~(<<y, x>> \in Less)
  BY <1>1, WFMin, Zenon
<1>4. ASSUME NEW y \in T
      PROVE  x <= y
  <2>1. x \in Nat /\ y \in Nat
    OBVIOUS
  <2>2. ~(y < x)
    BY <1>2, <1>3, <2>1
  <2> QED BY <2>1, <2>2
<1> QED BY <1>4

-----------------------------------------------------------------------------
(* The scans of panel_simple_parse_cmds.  Both look from a command to the  *)
(* next one, further on: by induction from the end of the bytes each is a  *)
(* function that does what its definition says.                            *)

\* f at i is join of i and f at next[i], when that is later, and else leaf[i].
LooksAhead(f, n, next, leaf, join) ==
  \A i \in 0 .. n :
    f[i] = IF next[i] \in i + 1 .. n THEN join[<<i, f[next[i]]>>] ELSE leaf[i]

\* Such a function exists.
LEMMA LaterRecursion ==
  ASSUME NEW n \in Nat, NEW V, NEW next \in [0 .. n -> Nat],
         NEW leaf \in [0 .. n -> V], NEW join \in [(0 .. n) \X V -> V]
  PROVE  \E f \in [0 .. n -> V] : LooksAhead(f, n, next, leaf, join)
<1> DEFINE Value(f, i) ==
      IF next[i] \in i + 1 .. n THEN join[<<i, f[next[i]]>>] ELSE leaf[i]
    Defined == {k \in 0 .. n : \E f \in [k .. n -> V] : \A i \in k .. n : f[i] = Value(f, i)}
<1>1. ASSUME NEW k \in 0 .. n, NEW f \in [k + 1 .. n -> V]
      PROVE  Value(f, k) \in V
  <2>1. CASE next[k] \in k + 1 .. n
    <3>1. <<k, f[next[k]]>> \in (0 .. n) \X V
      BY <2>1
    <3> QED BY <2>1, <3>1
  <2>2. CASE next[k] \notin k + 1 .. n
    BY <2>2
  <2> QED BY <2>1, <2>2
<1>2. Defined # {}
  <2> DEFINE g == [j \in n .. n |-> leaf[n]]
  <2>1. \A i \in n .. n : g[i] = Value(g, i)
    OBVIOUS
  <2>2. g \in [n .. n -> V]
    OBVIOUS
  <2> HIDE DEF g, Value
  <2>3. n \in Defined
    BY <2>1, <2>2
  <2> QED BY <2>3
<1>3. PICK k \in Defined : \A l \in Defined : k <= l
  <2> HIDE DEF Defined
  <2>1. Defined \subseteq Nat
    BY DEF Defined
  <2> QED BY <1>2, <2>1, Least
<1>4. PICK f \in [k .. n -> V] : \A i \in k .. n : f[i] = Value(f, i)
  BY <1>3
<1>5. k = 0
  <2> SUFFICES ASSUME k \in 1 .. n
               PROVE  FALSE
    BY <1>3
  <2> DEFINE m == k - 1
             g == [i \in m .. n |-> IF i = m THEN Value(f, m) ELSE f[i]]
  <2>1. m \in 0 .. n /\ k = m + 1
    OBVIOUS
  <2>2. Value(f, m) \in V
    <3> HIDE DEF Value, m
    <3> QED BY <1>1, <1>4, <2>1
  <2>3. g \in [m .. n -> V]
    <3> HIDE DEF Value, m
    <3>1. ASSUME NEW i \in m .. n
          PROVE  (IF i = m THEN Value(f, m) ELSE f[i]) \in V
      BY <2>1, <2>2
    <3> QED BY <3>1
  <2>4. \A i \in m .. n : g[i] = Value(g, i)
    <3> TAKE i \in m .. n
    <3>1. next[i] \in i + 1 .. n => g[next[i]] = f[next[i]]
      <4> HIDE DEF Value
      <4> QED OBVIOUS
    <3>2. g[i] = Value(f, i)
      <4> HIDE DEF Value
      <4> QED BY <1>4
    <3> HIDE DEF g
    <3> QED BY <3>1, <3>2
  <2> HIDE DEF g, Value, m
  <2>5. m \in Defined
    BY <2>1, <2>3, <2>4
  <2> HIDE DEF Defined
  <2> QED BY <1>3, <2>1, <2>5
<1> QED BY <1>4, <1>5 DEF LooksAhead

\* How the first scan ends at bp, where it counts no command.
Ending(data, bp) ==
  CASE bp = Len(data) -> "ok"
    [] bp < Len(data) /\ Len(data) <= bp + HeaderSize -> "odd"
    [] bp + HeaderSize < Len(data) /\ bp + Dlen(data, bp) > Len(data) -> "long"
    [] OTHER -> "wild"

\* The first scan, step by step.
LEMMA ScanSteps ==
  ASSUME NEW data \in Seq(Nat)
  PROVE  \E scan :
           /\ Scan(data) = scan[0]
           /\ \A bp \in 0 .. Len(data) :
                scan[bp] = IF Counted(data, bp) THEN scan[Following(data, bp)]
                           ELSE Ending(data, bp)
<1> DEFINE n == Len(data)
    Body(scan, bp) ==
      LET len == n - bp
      IN  CASE len = 0 -> "ok"
            [] len \in 1 .. HeaderSize -> "odd"
            [] len > HeaderSize /\ Dlen(data, bp) > len -> "long"
            [] OTHER -> IF Following(data, bp) > n
                        THEN "wild" ELSE scan[Following(data, bp)]
    Is(scan) == scan = [bp \in 0 .. n |-> Body(scan, bp)]
<1>1. n \in Nat
  OBVIOUS
<1>2. ASSUME NEW scan, NEW bp \in 0 .. n
      PROVE  Body(scan, bp) = IF Counted(data, bp) THEN scan[Following(data, bp)]
                              ELSE Ending(data, bp)
  <2>1. CASE bp + HeaderSize < n
    <3>1. data[bp + 3] \in Nat
      BY <2>1 DEF HeaderSize
    <3>5. n - bp # 0 /\ n - bp \notin 1 .. HeaderSize /\ n - bp > HeaderSize
      BY <1>1, <2>1 DEF HeaderSize
    <3>6. Dlen(data, bp) > n - bp <=> bp + Dlen(data, bp) > n
      BY <1>1, <3>1 DEF Dlen
    <3>7. Body(scan, bp) = IF bp + Dlen(data, bp) > n THEN "long"
                           ELSE IF Following(data, bp) > n THEN "wild"
                                ELSE scan[Following(data, bp)]
      BY <3>5, <3>6
    <3> HIDE DEF Body
    <3>2. CASE Counted(data, bp)
      <4>1. ~(bp + Dlen(data, bp) > n) /\ ~(Following(data, bp) > n)
        BY <1>1, <3>1, <3>2 DEF Counted, HeaderSize, Dlen, Following
      <4> QED BY <3>2, <3>7, <4>1
    <3>3. CASE ~Counted(data, bp) /\ bp + Dlen(data, bp) > n
      <4>1. Ending(data, bp) = "long"
        BY <1>1, <2>1, <3>3 DEF Ending, HeaderSize
      <4> QED BY <3>3, <3>7, <4>1
    <3>4. CASE ~Counted(data, bp) /\ ~(bp + Dlen(data, bp) > n)
      <4>1. Following(data, bp) > n
        BY <1>1, <2>1, <3>1, <3>4 DEF Counted, HeaderSize, Dlen, Following
      <4>2. Ending(data, bp) = "wild"
        BY <1>1, <2>1, <3>4 DEF HeaderSize, Ending
      <4> QED BY <3>4, <3>7, <4>1, <4>2
    <3> QED BY <3>2, <3>3, <3>4
  <2>2. CASE ~(bp + HeaderSize < n)
    BY <1>1, <2>2 DEF Counted, Ending, HeaderSize
  <2> QED BY <2>1, <2>2
<1>3. \E scan : Is(scan)
  <2> DEFINE next == [bp \in 0 .. n |-> IF Counted(data, bp) THEN Following(data, bp) ELSE 0]
             Results == {"ok", "odd", "long", "wild"}
             leaf == [bp \in 0 .. n |-> Ending(data, bp)]
             join == [p \in (0 .. n) \X Results |-> p[2]]
  <2>1. ASSUME NEW bp \in 0 .. n
        PROVE  /\ next[bp] \in Nat
               /\ next[bp] \in bp + 1 .. n <=> Counted(data, bp)
               /\ leaf[bp] \in Results
    <3>1. CASE Counted(data, bp)
      <4>1. data[bp + 3] \in Nat
        BY <3>1 DEF Counted, HeaderSize
      <4> QED BY <1>1, <3>1, <4>1 DEF Counted, Following, Dlen, HeaderSize, Ending
    <3>2. CASE ~Counted(data, bp)
      BY <1>1, <3>2 DEF Ending
    <3> QED BY <3>1, <3>2
  <2>2. \A bp \in 0 .. n : \A v \in Results :
          join[<<bp, v>>] = v /\ join[<<bp, v>>] \in Results
    OBVIOUS
  <2> HIDE DEF n, next, leaf, join, Results
  <2>3. PICK f \in [0 .. n -> Results] :
          LooksAhead(f, n, next, leaf, join)
    <3>1. /\ next \in [0 .. n -> Nat] /\ leaf \in [0 .. n -> Results]
          /\ join \in [(0 .. n) \X Results -> Results]
      BY <2>1 DEF next, leaf, join
    <3> QED BY <1>1, <3>1, LaterRecursion
  <2>4. ASSUME NEW bp \in 0 .. n
        PROVE  f[bp] = Body(f, bp)
    <3>1. CASE Counted(data, bp)
      <4>1. next[bp] = Following(data, bp) /\ next[bp] \in bp + 1 .. n
        BY <2>1, <3>1 DEF next
      <4>2. next[bp] \in 0 .. n
        BY <1>1, <4>1
      <4>3. f[bp] = join[<<bp, f[next[bp]]>>]
        BY <2>3, <4>1 DEF LooksAhead
      <4>4. f[bp] = f[Following(data, bp)]
        BY <2>2, <2>3, <4>1, <4>2, <4>3
      <4> QED BY <1>2, <3>1, <4>4
    <3>2. CASE ~Counted(data, bp)
      <4>1. f[bp] = Ending(data, bp)
        BY <2>1, <2>3, <3>2 DEF leaf, LooksAhead
      <4> QED BY <1>2, <3>2, <4>1
    <3> QED BY <3>1, <3>2
  <2> HIDE DEF Body
  <2>5. f = [bp \in 0 .. n |-> Body(f, bp)]
    BY <2>3, <2>4
  <2> QED BY <2>5
<1>4. Is(CHOOSE scan : Is(scan))
  <2> HIDE DEF Is
  <2> QED BY <1>3, Zenon
<1>5. Scan(data) = (CHOOSE scan : Is(scan))[0]
  BY DEF Scan
<1> DEFINE scan == CHOOSE scan : Is(scan)
<1>6. ASSUME NEW bp \in 0 .. n
      PROVE  scan[bp] = Body(scan, bp)
  <2> HIDE DEF scan, Body
  <2> QED BY <1>4 DEF scan
<1> HIDE DEF scan, Body
<1> QED BY <1>2, <1>5, <1>6 DEF scan

\* What the second scan takes for the command at bp.
Command == [dtype : Nat, wait : Nat, payload : Seq(Nat)]
CommandAt(data, bp) ==
  [dtype |-> data[bp + 1], wait |-> data[bp + 2],
   payload |-> SubSeq(data, bp + HeaderSize + 1, Following(data, bp))]

\* A command that is counted lies in the buffer, and its encoding is its bytes.
LEMMA CountedIsHere ==
  ASSUME NEW data \in Seq(Nat), NEW bp \in 0 .. Len(data), Counted(data, bp)
  PROVE  /\ Following(data, bp) \in bp + 1 .. Len(data)
         /\ CommandAt(data, bp) \in Command
         /\ Len(CommandAt(data, bp).payload) = Following(data, bp) - bp - 3
         /\ Encode(CommandAt(data, bp)) \in Seq(Nat)
         /\ Encode(CommandAt(data, bp)) = SubSeq(data, bp + 1, Following(data, bp))
<1> DEFINE F == Following(data, bp)
           d == data[bp + 3]
           payload == SubSeq(data, bp + 4, F)
<1>1. /\ data[bp + 1] \in Nat /\ data[bp + 2] \in Nat /\ d \in Nat
      /\ F = bp + 3 + d /\ F \in bp + 3 .. Len(data)
  BY DEF Counted, HeaderSize, Following, Dlen
<1>2. CommandAt(data, bp) = [dtype |-> data[bp + 1], wait |-> data[bp + 2], payload |-> payload]
  BY DEF CommandAt, HeaderSize
<1> HIDE DEF F, d
<1>3. payload \in Seq(Nat) /\ Len(payload) = d
  <2>1. /\ bp + 4 \in Int /\ F \in Int
        /\ \A i \in bp + 4 .. F : data[i] \in Nat
        /\ (IF bp + 4 <= F THEN F - (bp + 4) + 1 ELSE 0) = d
    BY <1>1
  <2> QED BY <2>1, SubSeqProperties
<1> DEFINE header == <<data[bp + 1], data[bp + 2], d>>
<1>4. Encode(CommandAt(data, bp)) = header \o payload
  <2> HIDE DEF payload
  <2> QED BY <1>2, <1>3 DEF Encode
<1>5. header = SubSeq(data, bp + 1, bp + 3)
  <2> DEFINE first == SubSeq(data, bp + 1, bp + 3)
  <2>1. /\ first \in Seq(Nat) /\ Len(first) = 3
        /\ \A i \in 1 .. 3 : first[i] = data[bp + 1 + i - 1]
    <3>1. /\ bp + 1 \in Int /\ bp + 3 \in Int
          /\ \A i \in bp + 1 .. bp + 3 : data[i] \in Nat
          /\ (IF bp + 1 <= bp + 3 THEN bp + 3 - (bp + 1) + 1 ELSE 0) = 3
          /\ bp + 3 - (bp + 1) + 1 = 3
      BY <1>1
    <3> QED BY <3>1, SubSeqProperties
  <2>2. /\ header \in Seq(Nat) /\ Len(header) = 3
        /\ header[1] = data[bp + 1] /\ header[2] = data[bp + 2] /\ header[3] = data[bp + 3]
    BY <1>1 DEF d
  <2>3. first[1] = data[bp + 1] /\ first[2] = data[bp + 2] /\ first[3] = data[bp + 3]
    <3>1. bp + 1 + 1 - 1 = bp + 1 /\ bp + 1 + 2 - 1 = bp + 2 /\ bp + 1 + 3 - 1 = bp + 3
      OBVIOUS
    <3> HIDE DEF first
    <3> QED BY <2>1, <3>1
  <2> HIDE DEF first, header
  <2>4. \A i \in 1 .. Len(header) : header[i] = first[i]
    BY <2>2, <2>3
  <2>5. header = first
    BY <2>1, <2>2, <2>4, SeqEqual
  <2> QED BY <2>5 DEF first
<1>6. header \o payload = SubSeq(data, bp + 1, F)
  <2> HIDE DEF header
  <2>1. /\ bp + 1 \in 1 .. Len(data) + 1 /\ bp + 3 \in bp + 1 - 1 .. Len(data)
        /\ F \in bp + 3 .. Len(data) /\ bp + 3 + 1 = bp + 4
    BY <1>1
  <2>2. SubSeq(data, bp + 1, bp + 3) \o SubSeq(data, bp + 3 + 1, F) = SubSeq(data, bp + 1, F)
    BY <2>1, ConcatAdjacentSubSeq
  <2> QED BY <1>5, <2>1, <2>2
<1>7. SubSeq(data, bp + 1, F) \in Seq(Nat)
  <2>1. bp + 1 \in Int /\ F \in Int /\ \A i \in bp + 1 .. F : data[i] \in Nat
    BY <1>1
  <2> QED BY <2>1, SubSeqProperties
<1>8. CommandAt(data, bp) \in Command
  <2> HIDE DEF payload
  <2> QED BY <1>1, <1>2, <1>3 DEF Command
<1>9. F \in bp + 1 .. Len(data) /\ d = F - bp - 3
  BY <1>1
<1> HIDE DEF header, payload
<1>10. Len(CommandAt(data, bp).payload) = F - bp - 3
  BY <1>2, <1>3, <1>9
<1> QED BY <1>4, <1>6, <1>7, <1>8, <1>9, <1>10 DEF F

\* The second scan, step by step.
LEMMA CutSteps ==
  ASSUME NEW data \in Seq(Nat)
  PROVE  \E cut :
           /\ Cut(data) = cut[0]
           /\ \A bp \in 0 .. Len(data) :
                cut[bp] = IF Counted(data, bp)
                          THEN <<CommandAt(data, bp)>> \o cut[Following(data, bp)]
                          ELSE <<>>
<1> DEFINE n == Len(data)
    Body(cut, bp) ==
      IF ~Counted(data, bp) THEN <<>>
      ELSE <<[dtype |-> data[bp + 1], wait |-> data[bp + 2],
              payload |-> SubSeq(data, bp + HeaderSize + 1, Following(data, bp))]>>
             \o cut[Following(data, bp)]
    Is(cut) == cut = [bp \in 0 .. n |-> Body(cut, bp)]
<1>1. n \in Nat
  OBVIOUS
<1>2. ASSUME NEW cut, NEW bp
      PROVE  Body(cut, bp) = IF Counted(data, bp)
                             THEN <<CommandAt(data, bp)>> \o cut[Following(data, bp)]
                             ELSE <<>>
  BY DEF CommandAt
<1>3. \E cut : Is(cut)
  <2> DEFINE next == [bp \in 0 .. n |-> IF Counted(data, bp) THEN Following(data, bp) ELSE 0]
             leaf == [bp \in 0 .. n |-> <<>>]
             join == [p \in (0 .. n) \X Seq(Command) |->
                        IF Counted(data, p[1]) THEN <<CommandAt(data, p[1])>> \o p[2] ELSE <<>>]
  <2>1. ASSUME NEW bp \in 0 .. n
        PROVE  /\ next[bp] \in Nat
               /\ next[bp] \in bp + 1 .. n <=> Counted(data, bp)
    <3>1. CASE Counted(data, bp)
      BY <1>1, <3>1, CountedIsHere
    <3>2. CASE ~Counted(data, bp)
      BY <1>1, <3>2
    <3> QED BY <3>1, <3>2
  <2>2. join \in [(0 .. n) \X Seq(Command) -> Seq(Command)]
    <3>1. ASSUME NEW p \in (0 .. n) \X Seq(Command), Counted(data, p[1])
          PROVE  <<CommandAt(data, p[1])>> \o p[2] \in Seq(Command)
      <4>1. CommandAt(data, p[1]) \in Command
        BY <3>1, CountedIsHere
      <4>2. <<CommandAt(data, p[1])>> \in Seq(Command) /\ p[2] \in Seq(Command)
        BY <4>1
      <4> QED BY <4>2, ConcatProperties
    <3> QED BY <3>1
  <2>3. leaf \in [0 .. n -> Seq(Command)]
    OBVIOUS
  <2>4. next \in [0 .. n -> Nat]
    BY <2>1
  <2>5. \A bp \in 0 .. n : \A v \in Seq(Command) :
          join[<<bp, v>>] = IF Counted(data, bp) THEN <<CommandAt(data, bp)>> \o v ELSE <<>>
    OBVIOUS
  <2> HIDE DEF n, next, leaf, join
  <2>6. PICK f \in [0 .. n -> Seq(Command)] : LooksAhead(f, n, next, leaf, join)
    BY <1>1, <2>2, <2>3, <2>4, LaterRecursion
  <2>7. ASSUME NEW bp \in 0 .. n
        PROVE  f[bp] = Body(f, bp)
    <3> HIDE DEF Body
    <3>1. CASE Counted(data, bp)
      <4>1. next[bp] = Following(data, bp) /\ next[bp] \in bp + 1 .. n
        BY <2>1, <3>1 DEF next
      <4>2. next[bp] \in 0 .. n /\ f[next[bp]] \in Seq(Command)
        BY <1>1, <2>6, <4>1
      <4>3. f[bp] = join[<<bp, f[next[bp]]>>]
        BY <2>6, <4>1 DEF LooksAhead
      <4>4. f[bp] = <<CommandAt(data, bp)>> \o f[Following(data, bp)]
        BY <2>5, <3>1, <4>1, <4>2, <4>3
      <4> QED BY <1>2, <3>1, <4>4
    <3>2. CASE ~Counted(data, bp)
      <4>1. f[bp] = <<>>
        BY <2>1, <2>6, <3>2 DEF leaf, LooksAhead
      <4> QED BY <1>2, <3>2, <4>1
    <3> QED BY <3>1, <3>2
  <2> HIDE DEF Body
  <2>8. f = [bp \in 0 .. n |-> Body(f, bp)]
    BY <2>6, <2>7
  <2> QED BY <2>8
<1> DEFINE cut == CHOOSE cut : Is(cut)
<1>4. Is(cut)
  <2> HIDE DEF Is
  <2> QED BY <1>3, Zenon
<1>5. Cut(data) = cut[0]
  BY DEF Cut
<1>6. ASSUME NEW bp \in 0 .. n
      PROVE  cut[bp] = Body(cut, bp)
  <2> HIDE DEF cut, Body
  <2> QED BY <1>4
<1> HIDE DEF cut, Body
<1> QED BY <1>2, <1>5, <1>6

-----------------------------------------------------------------------------
(* Commands put together again.                                            *)

\* Putting sequences together one after the other.
LEMMA FlattenSteps ==
  ASSUME NEW S, NEW seqs \in Seq(Seq(S)), seqs # <<>>
  PROVE  \E flat :
           /\ FlattenSeq(seqs) = flat[Len(seqs)]
           /\ \A i \in 1 .. Len(seqs) : flat[i] \in Seq(S)
           /\ flat[1] = seqs[1]
           /\ \A i \in 1 .. Len(seqs) - 1 : flat[i + 1] = flat[i] \o seqs[i + 1]
<1> DEFINE n == Len(seqs)
    Body(flat, i) == IF i = 1 THEN seqs[i] ELSE flat[i - 1] \o seqs[i]
    Is(flat) == flat = [i \in 1 .. n |-> Body(flat, i)]
<1>1. n \in Nat /\ n >= 1
  BY EmptySeq
<1>2. \A k \in 1 .. n : \E g \in [1 .. k -> Seq(S)] : \A i \in 1 .. k : g[i] = Body(g, i)
  <2> DEFINE Missing == {k \in 1 .. n : ~\E g \in [1 .. k -> Seq(S)] : \A i \in 1 .. k : g[i] = Body(g, i)}
  <2> SUFFICES ASSUME Missing # {}
               PROVE  FALSE
    OBVIOUS
  <2>1. PICK k \in Missing : \A l \in Missing : k <= l
    <3> HIDE DEF Missing
    <3>1. Missing \subseteq Nat
      BY DEF Missing
    <3> QED BY <3>1, Least
  <2>2. k # 1
    <3> SUFFICES ASSUME k = 1
                 PROVE  FALSE
      OBVIOUS
    <3> DEFINE g == [i \in 1 .. 1 |-> seqs[1]]
    <3>1. g \in [1 .. 1 -> Seq(S)] /\ \A i \in 1 .. 1 : g[i] = Body(g, i)
      BY <1>1
    <3> HIDE DEF g, Body
    <3> QED BY <3>1
  <2>3. k - 1 \in 1 .. n /\ k - 1 \notin Missing
    <3>1. k \in 1 .. n
      OBVIOUS
    <3> HIDE DEF Missing
    <3> QED BY <2>1, <2>2, <3>1
  <2>4. PICK f \in [1 .. k - 1 -> Seq(S)] : \A i \in 1 .. k - 1 : f[i] = Body(f, i)
    BY <2>3
  <2> DEFINE g == [i \in 1 .. k |-> IF i = k THEN f[k - 1] \o seqs[k] ELSE f[i]]
  <2>5. g \in [1 .. k -> Seq(S)]
    <3>1. f[k - 1] \o seqs[k] \in Seq(S)
      <4>1. f[k - 1] \in Seq(S) /\ seqs[k] \in Seq(S)
        BY <2>3
      <4> QED BY <4>1, ConcatProperties
    <3>2. ASSUME NEW i \in 1 .. k
          PROVE  (IF i = k THEN f[k - 1] \o seqs[k] ELSE f[i]) \in Seq(S)
      BY <3>1
    <3> QED BY <3>2
  <2>6. \A i \in 1 .. k : g[i] = Body(g, i)
    <3> TAKE i \in 1 .. k
    <3>1. CASE i = k
      <4>1. k - 1 \in 1 .. k /\ k \in 1 .. k /\ k - 1 # k
        BY <2>3
      <4>2. g[k - 1] = f[k - 1] /\ g[k] = f[k - 1] \o seqs[k]
        BY <4>1
      <4> HIDE DEF g
      <4> QED BY <2>2, <3>1, <4>2
    <3>2. CASE i # k
      <4>1. g[i] = f[i] /\ (i # 1 => g[i - 1] = f[i - 1]) /\ i \in 1 .. k - 1
        BY <3>2
      <4> HIDE DEF g
      <4> QED BY <2>4, <4>1
    <3> QED BY <3>1, <3>2
  <2> HIDE DEF g, Body
  <2> QED BY <2>5, <2>6
<1>3. PICK g \in [1 .. n -> Seq(S)] : \A i \in 1 .. n : g[i] = Body(g, i)
  <2>1. n \in 1 .. n
    BY <1>1
  <2> HIDE DEF Body, n
  <2> QED BY <1>2, <2>1
<1>4. \E flat : Is(flat)
  <2> HIDE DEF Body
  <2>1. g = [i \in 1 .. n |-> Body(g, i)]
    BY <1>3
  <2> QED BY <2>1
<1> DEFINE flat == CHOOSE flat : Is(flat)
<1>5. Is(flat)
  <2> HIDE DEF Is
  <2> QED BY <1>4, Zenon
<1>6. FlattenSeq(seqs) = flat[n]
  BY <1>1 DEF FlattenSeq
<1>7. ASSUME NEW i \in 1 .. n
      PROVE  flat[i] = Body(flat, i)
  <2> HIDE DEF flat, Body
  <2> QED BY <1>5
<1> HIDE DEF flat
<1>8. flat[1] = seqs[1] /\ \A i \in 1 .. n - 1 : flat[i + 1] = flat[i] \o seqs[i + 1]
  <2>1. 1 \in 1 .. n
    BY <1>1
  <2>2. ASSUME NEW i \in 1 .. n - 1
        PROVE  flat[i + 1] = flat[i] \o seqs[i + 1]
    <3>1. i + 1 \in 1 .. n /\ i + 1 # 1 /\ (i + 1) - 1 = i
      BY <1>1
    <3>2. flat[i + 1] = flat[(i + 1) - 1] \o seqs[i + 1]
      <4> HIDE DEF n
      <4> QED BY <1>7, <3>1
    <3> QED BY <3>1, <3>2
  <2> QED BY <1>7, <2>1, <2>2
<1>9. \A i \in 1 .. n : flat[i] \in Seq(S)
  <2> DEFINE Bad == {i \in 1 .. n : flat[i] \notin Seq(S)}
  <2> SUFFICES ASSUME Bad # {}
               PROVE  FALSE
    OBVIOUS
  <2>1. PICK i \in Bad : \A j \in Bad : i <= j
    <3> HIDE DEF Bad
    <3>1. Bad \subseteq Nat
      BY DEF Bad
    <3> QED BY <3>1, Least
  <2>2. i # 1 /\ i \in 1 .. n
    BY <1>1, <1>8
  <2>3. flat[i - 1] \in Seq(S)
    BY <2>1, <2>2
  <2>4. flat[i] = flat[i - 1] \o seqs[i]
    BY <1>7, <2>2
  <2>5. seqs[i] \in Seq(S)
    BY <2>2
  <2>6. flat[i] \in Seq(S)
    BY <2>3, <2>4, <2>5, ConcatProperties
  <2> QED BY <2>6
<1> QED BY <1>6, <1>8, <1>9

\* What is put together from a sequence and others is the sequence and what is
\* put together from the others.
LEMMA FlattenCons ==
  ASSUME NEW S, NEW x \in Seq(S), NEW t \in Seq(Seq(S))
  PROVE  /\ FlattenSeq(t) \in Seq(S)
         /\ FlattenSeq(<<x>> \o t) = x \o FlattenSeq(t)
<1> DEFINE s == <<x>> \o t
           n == Len(t)
<1>1. n \in Nat
  OBVIOUS
<1>2. /\ s \in Seq(Seq(S)) /\ Len(s) = n + 1 /\ s[1] = x
      /\ \A i \in 1 .. n : s[i + 1] = t[i]
  <2>1. /\ <<x>> \in Seq(Seq(S)) /\ Len(<<x>>) = 1 /\ <<x>>[1] = x
    OBVIOUS
  <2>2. /\ s \in Seq(Seq(S)) /\ Len(s) = 1 + n
        /\ \A i \in 1 .. 1 + n : s[i] = IF i <= 1 THEN <<x>>[i] ELSE t[i - 1]
    BY <2>1, ConcatProperties
  <2> HIDE DEF s
  <2>3. ASSUME NEW i \in 1 .. n
        PROVE  s[i + 1] = t[i]
    <3>1. i + 1 \in 1 .. 1 + n /\ ~(i + 1 <= 1) /\ (i + 1) - 1 = i
      OBVIOUS
    <3>2. s[i + 1] = t[(i + 1) - 1]
      <4> HIDE DEF n
      <4> QED BY <2>2, <3>1
    <3> QED BY <3>1, <3>2
  <2> QED BY <1>1, <2>1, <2>2, <2>3
<1> HIDE DEF s
<1>3. s # <<>>
  BY <1>1, <1>2
<1>4. PICK flat :
        /\ FlattenSeq(s) = flat[n + 1]
        /\ \A i \in 1 .. n + 1 : flat[i] \in Seq(S)
        /\ flat[1] = x
        /\ \A i \in 1 .. n : flat[i + 1] = flat[i] \o t[i]
  <2>1. PICK flat :
           /\ FlattenSeq(s) = flat[Len(s)]
           /\ \A i \in 1 .. Len(s) : flat[i] \in Seq(S)
           /\ flat[1] = s[1]
           /\ \A i \in 1 .. Len(s) - 1 : flat[i + 1] = flat[i] \o s[i + 1]
    BY <1>2, <1>3, FlattenSteps
  <2>2. \A i \in 1 .. n : flat[i + 1] = flat[i] \o t[i]
    <3>1. Len(s) - 1 = n
      BY <1>1, <1>2
    <3> HIDE DEF n
    <3> QED BY <1>2, <2>1, <3>1
  <2> HIDE DEF n
  <2> QED BY <1>2, <2>1, <2>2
<1>5. CASE t = <<>>
  <2>1. n = 0 /\ FlattenSeq(t) = <<>>
    BY <1>5 DEF FlattenSeq
  <2>2. FlattenSeq(s) = x /\ x \o <<>> = x
    BY <1>4, <2>1, ConcatEmptySeq
  <2> QED BY <2>1, <2>2 DEF s
<1>6. CASE t # <<>>
  <2>1. PICK rest :
           /\ FlattenSeq(t) = rest[n]
           /\ \A i \in 1 .. n : rest[i] \in Seq(S)
           /\ rest[1] = t[1]
           /\ \A i \in 1 .. n - 1 : rest[i + 1] = rest[i] \o t[i + 1]
    BY <1>6, FlattenSteps
  <2>2. n >= 1
    BY <1>6, <1>1, EmptySeq
  <2> DEFINE Bad == {i \in 1 .. n : flat[i + 1] # x \o rest[i]}
  <2>3. Bad = {}
    <3> SUFFICES ASSUME Bad # {}
                 PROVE  FALSE
      OBVIOUS
    <3>1. PICK i \in Bad : \A j \in Bad : i <= j
      <4> HIDE DEF Bad
      <4>1. Bad \subseteq Nat
        BY DEF Bad
      <4> QED BY <4>1, Least
    <3>2. i \in 1 .. n /\ i # 1
      <4>0. 1 \in 1 .. n
        BY <1>1, <2>2
      <4>1. flat[1 + 1] = flat[1] \o t[1]
        <5> HIDE DEF n
        <5> QED BY <1>4, <4>0
      <4>2. flat[1 + 1] = x \o rest[1]
        BY <1>4, <2>1, <4>1
      <4> QED BY <4>2
    <3> DEFINE j == i - 1
    <3>3. j \in 1 .. n - 1 /\ j \in 1 .. n /\ i = j + 1 /\ j \notin Bad
      <4>1. j \in 1 .. n - 1 /\ j \in 1 .. n /\ i = j + 1 /\ ~(i <= j)
        BY <1>1, <3>2
      <4> HIDE DEF Bad, j
      <4> QED BY <3>1, <4>1
    <3> HIDE DEF j
    <3>4. flat[i] = x \o rest[j]
      BY <3>3
    <3>5. flat[i + 1] = (x \o rest[j]) \o t[i]
      BY <1>4, <3>2, <3>4
    <3>6. rest[j] \in Seq(S) /\ t[i] \in Seq(S)
      BY <2>1, <3>2, <3>3
    <3>7. (x \o rest[j]) \o t[i] = x \o (rest[j] \o t[i])
      <4> DEFINE y == rest[j]
                 z == t[i]
      <4>1. y \in Seq(S) /\ z \in Seq(S)
        BY <3>6
      <4> HIDE DEF Bad, n, y, z
      <4>2. (x \o y) \o z = x \o (y \o z)
        BY <4>1
      <4> QED BY <4>2 DEF y, z
    <3>8. rest[i] = rest[j] \o t[i]
      BY <2>1, <3>3
    <3> QED BY <3>5, <3>7, <3>8
  <2>4. n \in 1 .. n
    BY <1>1, <2>2
  <2>5. flat[n + 1] = x \o rest[n]
    <3> HIDE DEF n
    <3> QED BY <2>3, <2>4
  <2> QED BY <1>4, <2>1, <2>4, <2>5 DEF s
<1> QED BY <1>5, <1>6

\* One command more is one encoding more.
LEMMA EncodeCons ==
  ASSUME NEW c \in Command, NEW rest \in Seq(Command)
  PROVE  LET Encoded(cmds) == [i \in 1 .. Len(cmds) |-> Encode(cmds[i])]
         IN  /\ <<c>> \o rest \in Seq(Command)
             /\ Encoded(<<c>> \o rest) = <<Encode(c)>> \o Encoded(rest)
<1> DEFINE Encoded(cmds) == [i \in 1 .. Len(cmds) |-> Encode(cmds[i])]
           s == <<c>> \o rest
           n == Len(rest)
<1>1. /\ s \in Seq(Command) /\ Len(s) = n + 1 /\ n \in Nat
      /\ \A i \in 1 .. n + 1 : s[i] = IF i = 1 THEN c ELSE rest[i - 1]
  OBVIOUS
<1>2. ASSUME NEW d \in Command
      PROVE  Encode(d) \in Seq(Nat)
  <2>1. /\ d.dtype \in Nat /\ d.wait \in Nat /\ d.payload \in Seq(Nat)
        /\ Len(d.payload) \in Nat
    BY DEF Command
  <2>2. <<d.dtype, d.wait, Len(d.payload)>> \in Seq(Nat)
    BY <2>1
  <2> QED BY <2>1, <2>2, ConcatProperties DEF Encode
<1>3. Encoded(rest) \in Seq(Seq(Nat)) /\ Len(Encoded(rest)) = n
  BY <1>1, <1>2
<1> DEFINE u == <<Encode(c)>> \o Encoded(rest)
<1>4. /\ u \in Seq(Seq(Nat)) /\ Len(u) = n + 1
      /\ \A i \in 1 .. n + 1 : u[i] = IF i = 1 THEN Encode(c) ELSE Encoded(rest)[i - 1]
  <2>1. Encode(c) \in Seq(Nat)
    BY <1>2
  <2> HIDE DEF Encoded
  <2> QED BY <1>3, <2>1
<1>5. /\ Encoded(s) \in Seq(Seq(Nat)) /\ Len(Encoded(s)) = n + 1
      /\ \A i \in 1 .. n + 1 : Encoded(s)[i] = Encode(s[i])
  <2> HIDE DEF s
  <2> QED BY <1>1, <1>2
<1>6. ASSUME NEW i \in 1 .. n + 1
      PROVE  Encoded(s)[i] = u[i]
  <2>1. CASE i = 1
    <3> HIDE DEF s, u, Encoded
    <3> QED BY <1>1, <1>4, <1>5, <2>1
  <2>2. CASE i # 1
    <3>1. i - 1 \in 1 .. n
      BY <1>1, <2>2
    <3>2. Encoded(rest)[i - 1] = Encode(rest[i - 1])
      BY <3>1
    <3> HIDE DEF s, u, Encoded
    <3> QED BY <1>1, <1>4, <1>5, <2>2, <3>2
  <2> QED BY <2>1, <2>2
<1>7. Encoded(s) = u
  <2> HIDE DEF s, u, Encoded
  <2> QED BY <1>4, <1>5, <1>6, SeqEqual
<1> QED BY <1>1, <1>7

\* The bytes of a sequence of commands.
Bytes(cmds) == FlattenSeq([i \in 1 .. Len(cmds) |-> Encode(cmds[i])])

\* A command without payload may come anywhere but at the end.
Proper(cmds) == cmds # <<>> => cmds[Len(cmds)].payload # <<>>

\* The encoding of a command: its header, and its payload behind it.
LEMMA EncodedCommand ==
  ASSUME NEW c \in Command
  PROVE  /\ Encode(c) \in Seq(Nat)
         /\ Len(c.payload) \in Nat
         /\ Len(Encode(c)) = 3 + Len(c.payload)
         /\ Encode(c)[1] = c.dtype /\ Encode(c)[2] = c.wait /\ Encode(c)[3] = Len(c.payload)
         /\ \A i \in 1 .. Len(c.payload) : Encode(c)[3 + i] = c.payload[i]
<1> DEFINE header == <<c.dtype, c.wait, Len(c.payload)>>
           e == header \o c.payload
<1>1. /\ c.dtype \in Nat /\ c.wait \in Nat /\ c.payload \in Seq(Nat)
      /\ Len(c.payload) \in Nat
  BY DEF Command
<1>2. /\ header \in Seq(Nat) /\ Len(header) = 3
      /\ header[1] = c.dtype /\ header[2] = c.wait /\ header[3] = Len(c.payload)
  BY <1>1
<1> HIDE DEF header
<1>3. /\ e \in Seq(Nat) /\ Len(e) = 3 + Len(c.payload)
      /\ \A i \in 1 .. 3 + Len(c.payload) : e[i] = IF i <= 3 THEN header[i] ELSE c.payload[i - 3]
  <2> DEFINE p == c.payload
  <2>1. p \in Seq(Nat) /\ header \in Seq(Nat) /\ Len(header) = 3
    BY <1>1, <1>2
  <2> HIDE DEF p
  <2>2. LET s == header \o p
        IN  /\ s \in Seq(Nat) /\ Len(s) = Len(header) + Len(p)
            /\ \A i \in 1 .. Len(header) + Len(p) :
                 s[i] = IF i <= Len(header) THEN header[i] ELSE p[i - Len(header)]
    BY <2>1, ConcatProperties
  <2>3. LET s == header \o p
        IN  /\ s \in Seq(Nat) /\ Len(s) = 3 + Len(p)
            /\ \A i \in 1 .. 3 + Len(p) :
                 s[i] = IF i <= 3 THEN header[i] ELSE p[i - 3]
    BY <2>1, <2>2
  <2> QED BY <2>3 DEF p
<1> HIDE DEF e
<1>4. ASSUME NEW i \in 1 .. Len(c.payload)
      PROVE  e[3 + i] = c.payload[i]
  <2>1. 3 + i \in 1 .. 3 + Len(c.payload) /\ ~(3 + i <= 3) /\ (3 + i) - 3 = i
    BY <1>1
  <2>2. e[3 + i] = c.payload[(3 + i) - 3]
    BY <1>3, <2>1
  <2> QED BY <2>1, <2>2
<1>5. e[1] = c.dtype /\ e[2] = c.wait /\ e[3] = Len(c.payload)
  BY <1>1, <1>2, <1>3
<1>6. Encode(c) = e
  BY DEF Encode, e, header
<1> QED BY <1>1, <1>3, <1>4, <1>5, <1>6

\* The bytes of commands are those of the first and those of the others.
LEMMA BytesCons ==
  ASSUME NEW c \in Command, NEW rest \in Seq(Command),
         Bytes(rest) \in Seq(Nat)
  PROVE  /\ Encode(c) \in Seq(Nat) /\ Len(Encode(c)) = 3 + Len(c.payload)
         /\ <<c>> \o rest \in Seq(Command)
         /\ Bytes(<<c>> \o rest) = Encode(c) \o Bytes(rest)
<1> DEFINE Encoded(cmds) == [i \in 1 .. Len(cmds) |-> Encode(cmds[i])]
<1>1. \A d \in Command : Encode(d) \in Seq(Nat) /\ Len(Encode(d)) = 3 + Len(d.payload)
  BY EncodedCommand
<1>2. Encoded(rest) \in Seq(Seq(Nat))
  <2>1. \A i \in 1 .. Len(rest) : rest[i] \in Command
    OBVIOUS
  <2>2. Len(rest) \in Nat
    OBVIOUS
  <2> QED BY <1>1, <2>1, <2>2
<1>3. /\ <<c>> \o rest \in Seq(Command)
      /\ Encoded(<<c>> \o rest) = <<Encode(c)>> \o Encoded(rest)
  BY EncodeCons
<1> HIDE DEF Encoded
<1>4. FlattenSeq(<<Encode(c)>> \o Encoded(rest)) = Encode(c) \o FlattenSeq(Encoded(rest))
  BY <1>1, <1>2, FlattenCons
<1>5. \A cmds : Bytes(cmds) = FlattenSeq(Encoded(cmds))
  BY DEF Bytes, Encoded
<1> QED BY <1>1, <1>3, <1>4, <1>5

LEMMA BytesEmpty == Bytes(<<>>) = <<>>
<1>1. [i \in 1 .. Len(<<>>) |-> Encode(<<>>[i])] = <<>>
  OBVIOUS
<1>2. FlattenSeq(<<>>) = <<>>
  BY DEF FlattenSeq
<1> QED BY <1>1, <1>2 DEF Bytes

LEMMA BytesType ==
  ASSUME NEW cmds \in Seq(Command)
  PROVE  Bytes(cmds) \in Seq(Nat)
<1> DEFINE Encoded == [i \in 1 .. Len(cmds) |-> Encode(cmds[i])]
<1>1. \A d \in Command : Encode(d) \in Seq(Nat)
  BY EncodedCommand
<1>2. Encoded \in Seq(Seq(Nat))
  <2>1. \A i \in 1 .. Len(cmds) : cmds[i] \in Command
    OBVIOUS
  <2>2. Len(cmds) \in Nat
    OBVIOUS
  <2> QED BY <1>1, <2>1, <2>2
<1> HIDE DEF Encoded
<1>3. FlattenSeq(Encoded) \in Seq(Nat)
  BY <1>2, FlattenCons, EmptySeq
<1> QED BY <1>3 DEF Bytes, Encoded

\* Where the middle one of three sequences is in what they make.
LEMMA Middle ==
  ASSUME NEW x \in Seq(Nat), NEW y \in Seq(Nat), NEW z \in Seq(Nat)
  PROVE  LET all == x \o (y \o z)
         IN  /\ all \in Seq(Nat)
             /\ Len(all) = Len(x) + Len(y) + Len(z)
             /\ \A i \in 1 .. Len(y) : all[Len(x) + i] = y[i]
             /\ x \o y \in Seq(Nat)
             /\ Len(x \o y) = Len(x) + Len(y)
             /\ (x \o y) \o z = all
<1> DEFINE u == y \o z
           all == x \o u
<1>0. Len(x) \in Nat /\ Len(y) \in Nat /\ Len(z) \in Nat
  OBVIOUS
<1>1. /\ u \in Seq(Nat) /\ Len(u) = Len(y) + Len(z)
      /\ \A i \in 1 .. Len(y) + Len(z) : u[i] = IF i <= Len(y) THEN y[i] ELSE z[i - Len(y)]
  BY ConcatProperties
<1>t. u \in Seq(Nat)
  BY <1>1
<1> HIDE DEF u
<1>2. /\ all \in Seq(Nat) /\ Len(all) = Len(x) + Len(u)
      /\ \A i \in 1 .. Len(x) + Len(u) : all[i] = IF i <= Len(x) THEN x[i] ELSE u[i - Len(x)]
  BY <1>t, ConcatProperties
<1> HIDE DEF all
<1>3. ASSUME NEW i \in 1 .. Len(y)
      PROVE  all[Len(x) + i] = y[i]
  <2>1. /\ Len(x) + i \in 1 .. Len(x) + Len(u) /\ ~(Len(x) + i <= Len(x))
        /\ (Len(x) + i) - Len(x) = i /\ i \in 1 .. Len(y) + Len(z) /\ i <= Len(y)
    BY <1>0, <1>1
  <2>2. all[Len(x) + i] = u[(Len(x) + i) - Len(x)]
    BY <1>2, <2>1
  <2> QED BY <1>1, <2>1, <2>2
<1>4. Len(all) = Len(x) + Len(y) + Len(z)
  BY <1>0, <1>1, <1>2
<1>5. x \o y \in Seq(Nat) /\ Len(x \o y) = Len(x) + Len(y)
  BY ConcatProperties
<1>6. (x \o y) \o z = x \o (y \o z)
  OBVIOUS
<1> QED BY <1>2, <1>3, <1>4, <1>5, <1>6 DEF all, u

\* A sequence lies in the bytes behind bp.
LiesAt(data, bp, s) ==
  bp + Len(s) <= Len(data) /\ \A i \in 1 .. Len(s) : data[bp + i] = s[i]

\* A command that lies at bp is counted and cut there, if anything follows its
\* header.
LEMMA CommandIsCounted ==
  ASSUME NEW data \in Seq(Nat), NEW bp \in Nat, NEW c \in Command,
         LiesAt(data, bp, Encode(c)), bp + 3 < Len(data)
  PROVE  /\ Counted(data, bp)
         /\ Following(data, bp) = bp + 3 + Len(c.payload)
         /\ CommandAt(data, bp) = c
<1> DEFINE l == Len(c.payload)
           e == Encode(c)
<1>1. /\ l \in Nat /\ e[1] = c.dtype /\ e[2] = c.wait /\ e[3] = l
      /\ \A i \in 1 .. l : e[3 + i] = c.payload[i]
  BY EncodedCommand
<1>2. /\ c.payload \in Seq(Nat)
      /\ c = [dtype |-> c.dtype, wait |-> c.wait, payload |-> c.payload]
  BY DEF Command
<1>3. Len(e) = 3 + l
  BY EncodedCommand
<1> HIDE DEF l
<1>4. /\ bp + 3 + l <= Len(data) /\ Len(data) \in Nat
      /\ \A i \in 1 .. 3 + l : data[bp + i] = e[i]
  <2> HIDE DEF e
  <2>1. LiesAt(data, bp, e)
    BY DEF e
  <2> QED BY <1>1, <1>3, <2>1 DEF LiesAt
<1> HIDE DEF e
<1>5. data[bp + 1] = c.dtype /\ data[bp + 2] = c.wait /\ data[bp + 3] = l
  <2>1. 1 \in 1 .. 3 + l /\ 2 \in 1 .. 3 + l /\ 3 \in 1 .. 3 + l
    BY <1>1
  <2> QED BY <1>1, <1>4, <2>1
<1>6. ASSUME NEW i \in 1 .. l
      PROVE  data[bp + 3 + i] = c.payload[i]
  <2>1. 3 + i \in 1 .. 3 + l /\ bp + (3 + i) = bp + 3 + i
    BY <1>1
  <2>2. data[bp + (3 + i)] = e[3 + i]
    BY <1>4, <2>1
  <2> QED BY <1>1, <2>1, <2>2
<1>7. Following(data, bp) = bp + 3 + l
  BY <1>5 DEF Following, Dlen, HeaderSize
<1>8. Counted(data, bp)
  BY <1>4, <1>7 DEF Counted, HeaderSize
<1> DEFINE p == SubSeq(data, bp + 4, bp + 3 + l)
<1>9. /\ p \in Seq(Nat) /\ Len(p) = l
      /\ \A i \in 1 .. l : p[i] = data[bp + 4 + i - 1]
  <2> DEFINE f == bp + 4
             t == bp + 3 + l
  <2>1. /\ f \in Int /\ t \in Int /\ t <= Len(data) /\ f >= 1
        /\ (IF f <= t THEN t - f + 1 ELSE 0) = l
        /\ t - f + 1 = l
    BY <1>1, <1>4
  <2> HIDE DEF f, t
  <2>2. \A i \in f .. t : data[i] \in Nat
    <3>1. \A i \in 1 .. Len(data) : data[i] \in Nat
      OBVIOUS
    <3> QED BY <1>4, <2>1, <3>1
  <2>3. /\ SubSeq(data, f, t) \in Seq(Nat) /\ Len(SubSeq(data, f, t)) = l
        /\ \A i \in 1 .. l : SubSeq(data, f, t)[i] = data[f + i - 1]
    BY <2>1, <2>2, SubSeqProperties
  <2> QED BY <2>3 DEF f, t
<1> HIDE DEF p
<1>10. p = c.payload
  <2>1. ASSUME NEW i \in 1 .. Len(p)
        PROVE  p[i] = c.payload[i]
    <3>1. bp + 4 + i - 1 = bp + 3 + i /\ i \in 1 .. l
      BY <1>1, <1>9
    <3> QED BY <1>6, <1>9, <3>1
  <2>2. Len(c.payload) = l
    BY DEF l
  <2> QED BY <1>2, <1>9, <2>1, <2>2, SeqEqual
<1>11. CommandAt(data, bp) = c
  <2>1. bp + HeaderSize + 1 = bp + 4
    BY DEF HeaderSize
  <2>2. CommandAt(data, bp) = [dtype |-> c.dtype, wait |-> c.wait, payload |-> c.payload]
    BY <1>5, <1>7, <1>10, <2>1 DEF CommandAt, p
  <2> QED BY <1>2, <2>2
<1> QED BY <1>7, <1>8, <1>11 DEF l

\* Without its first command a proper sequence is proper.
LEMMA ProperTail ==
  ASSUME NEW t \in Seq(Command), t # <<>>, Proper(t)
  PROVE  LET c == Head(t)
             rest == Tail(t)
         IN  /\ c \in Command /\ rest \in Seq(Command)
             /\ t = <<c>> \o rest
             /\ Len(t) \in Nat /\ Len(rest) = Len(t) - 1
             /\ Proper(rest)
             /\ c.payload # <<>> \/ rest # <<>>
<1> DEFINE c == Head(t)
           rest == Tail(t)
<1>1. /\ c \in Command /\ rest \in Seq(Command)
      /\ Len(rest) = Len(t) - 1 /\ Len(t) \in Nat \ {0}
      /\ \A i \in 1 .. Len(rest) : rest[i] = t[i + 1]
  BY HeadTailProperties, EmptySeq
<1>2. c = t[1]
  OBVIOUS
<1>3. t = <<c>> \o rest
  OBVIOUS
<1> HIDE DEF c, rest
<1>4. Proper(rest)
  <2> SUFFICES ASSUME rest # <<>>
               PROVE  rest[Len(rest)].payload # <<>>
    BY DEF Proper
  <2>1. Len(rest) \in 1 .. Len(rest) /\ Len(rest) + 1 = Len(t)
    BY <1>1, EmptySeq
  <2>2. rest[Len(rest)] = t[Len(t)]
    BY <1>1, <2>1
  <2> QED BY <2>2 DEF Proper
<1>5. c.payload # <<>> \/ rest # <<>>
  <2> SUFFICES ASSUME rest = <<>>
               PROVE  c.payload # <<>>
    OBVIOUS
  <2>1. Len(t) = 1
    BY <1>1, EmptySeq
  <2> QED BY <1>2, <2>1 DEF Proper
<1> QED BY <1>1, <1>3, <1>4, <1>5 DEF c, rest

\* And with a command before it, if that has a payload or is not the last.
LEMMA ProperCons ==
  ASSUME NEW c \in Command, NEW rest \in Seq(Command), Proper(rest),
         c.payload # <<>> \/ rest # <<>>
  PROVE  Proper(<<c>> \o rest)
<1> DEFINE t == <<c>> \o rest
           n == Len(rest)
<1>1. /\ t \in Seq(Command) /\ Len(t) = n + 1 /\ n \in Nat
      /\ \A i \in 1 .. n + 1 : t[i] = IF i = 1 THEN c ELSE rest[i - 1]
  OBVIOUS
<1>2. n # 0 <=> rest # <<>>
  BY EmptySeq
<1> HIDE DEF t, n
<1>3. CASE n = 0
  <2>1. t[Len(t)] = c
    BY <1>1, <1>3
  <2> QED BY <1>2, <1>3, <2>1 DEF Proper, t
<1>4. CASE n # 0
  <2>1. t[Len(t)] = rest[n]
    <3>1. n + 1 \in 1 .. n + 1 /\ n + 1 # 1 /\ (n + 1) - 1 = n
      BY <1>1, <1>4
    <3>2. t[n + 1] = rest[(n + 1) - 1]
      BY <1>1, <3>1
    <3> QED BY <1>1, <3>1, <3>2
  <2> QED BY <1>2, <1>4, <2>1 DEF Proper, t, n
<1> QED BY <1>3, <1>4

\* What follows the header of a command that has a payload or is not the last.
LEMMA SomethingFollows ==
  ASSUME NEW c \in Command, NEW rest \in Seq(Command),
         c.payload # <<>> \/ rest # <<>>
  PROVE  Len(c.payload) + Len(Bytes(rest)) > 0
<1>1. /\ Len(c.payload) \in Nat /\ c.payload \in Seq(Nat)
      /\ Bytes(rest) \in Seq(Nat) /\ Len(Bytes(rest)) \in Nat
  BY BytesType, LenProperties DEF Command
<1>2. CASE c.payload # <<>>
  BY <1>1, <1>2, EmptySeq
<1>3. CASE rest # <<>>
  <2>1. Head(rest) \in Command /\ Tail(rest) \in Seq(Command) /\ rest = <<Head(rest)>> \o Tail(rest)
    BY <1>3, HeadTailProperties
  <2> DEFINE h == Head(rest)
             r == Tail(rest)
  <2> HIDE DEF h, r
  <2>2. h \in Command /\ r \in Seq(Command) /\ rest = <<h>> \o r
    BY <2>1 DEF h, r
  <2>3. /\ Encode(h) \in Seq(Nat) /\ Len(Encode(h)) = 3 + Len(h.payload)
        /\ Len(h.payload) \in Nat
        /\ Bytes(r) \in Seq(Nat)
        /\ Bytes(rest) = Encode(h) \o Bytes(r)
    BY <2>2, BytesCons, BytesType, EncodedCommand
  <2>4. Len(Bytes(rest)) = Len(Encode(h)) + Len(Bytes(r)) /\ Len(Bytes(r)) \in Nat
    BY <2>3, ConcatProperties, LenProperties
  <2> DEFINE p == Len(c.payload)
             q == Len(h.payload)
             m == Len(Bytes(rest))
             n == Len(Bytes(r))
  <2>5. p \in Nat /\ q \in Nat /\ n \in Nat /\ m = 3 + q + n
    BY <1>1, <2>3, <2>4
  <2> HIDE DEF p, q, m, n
  <2>6. p + m > 0
    BY <2>5
  <2> QED BY <2>6 DEF p, m
<1> QED BY <1>2, <1>3

\* Any commands, the last of which has a payload, are found in their bytes by
\* both scans.
LEMMA CommandsAreFound ==
  ASSUME NEW cmds \in Seq(Command), Proper(cmds)
  PROVE  Scan(Bytes(cmds)) = "ok" /\ Cut(Bytes(cmds)) = cmds
<1> DEFINE data == Bytes(cmds)
<1>0. data \in Seq(Nat)
  BY BytesType
<1> HIDE DEF data
<1>1. PICK scan :
        /\ Scan(data) = scan[0]
        /\ \A bp \in 0 .. Len(data) :
             scan[bp] = IF Counted(data, bp) THEN scan[Following(data, bp)]
                        ELSE Ending(data, bp)
  BY <1>0, ScanSteps
<1>2. PICK cut :
        /\ Cut(data) = cut[0]
        /\ \A bp \in 0 .. Len(data) :
             cut[bp] = IF Counted(data, bp)
                       THEN <<CommandAt(data, bp)>> \o cut[Following(data, bp)]
                       ELSE <<>>
  BY <1>0, CutSteps
<1> DEFINE Found(pre, t) == scan[Len(pre)] = "ok" /\ cut[Len(pre)] = t
           Lost(k) == \E t \in Seq(Command), pre \in Seq(Nat) :
                        /\ Len(t) = k /\ Proper(t)
                        /\ data = pre \o Bytes(t)
                        /\ ~Found(pre, t)
           Bad == {k \in Nat : Lost(k)}
<1>3. Bad = {}
  <2> SUFFICES ASSUME Bad # {}
               PROVE  FALSE
    OBVIOUS
  <2>1. PICK k \in Bad : \A l \in Bad : k <= l
    <3> HIDE DEF Bad
    <3>1. Bad \subseteq Nat
      BY DEF Bad
    <3> QED BY <3>1, Least
  <2>2. PICK t \in Seq(Command), pre \in Seq(Nat) :
           /\ Len(t) = k /\ Proper(t)
           /\ data = pre \o Bytes(t)
           /\ ~Found(pre, t)
    <3> HIDE DEF Found
    <3> QED OBVIOUS
  <2>3. CASE t = <<>>
    <3>1. data = pre
      <4>1. Bytes(t) = <<>>
        BY <2>3, BytesEmpty
      <4> QED BY <2>2, <4>1, ConcatEmptySeq
    <3>2. Len(pre) \in 0 .. Len(data) /\ Len(pre) = Len(data) /\ Len(data) \in Nat
      BY <3>1, LenProperties
    <3>3. ~Counted(data, Len(pre)) /\ Ending(data, Len(pre)) = "ok"
      BY <3>2 DEF Counted, HeaderSize, Ending
    <3>4. Found(pre, t)
      BY <1>1, <1>2, <2>3, <3>2, <3>3
    <3> QED BY <2>2, <3>4
  <2>4. CASE t # <<>>
    <3> DEFINE c == Head(t)
               rest == Tail(t)
               bp == Len(pre)
               e == Encode(c)
               b == Bytes(rest)
               next == pre \o e
    <3>1. /\ c \in Command /\ rest \in Seq(Command)
          /\ t = <<c>> \o rest
          /\ Len(t) \in Nat /\ Len(rest) = Len(t) - 1
          /\ Proper(rest)
          /\ c.payload # <<>> \/ rest # <<>>
      BY <2>2, <2>4, ProperTail
    <3> HIDE DEF c, rest, Bad
    <3>2. /\ e \in Seq(Nat) /\ Len(e) = 3 + Len(c.payload)
          /\ Len(c.payload) \in Nat
          /\ b \in Seq(Nat) /\ Len(b) \in Nat
          /\ Bytes(t) = e \o b
          /\ Len(c.payload) + Len(b) > 0
      BY <3>1, BytesCons, BytesType, EncodedCommand, SomethingFollows, LenProperties
    <3> HIDE DEF e, b, Found
    <3>3. /\ data = pre \o (e \o b) /\ bp \in Nat
          /\ Len(data) = bp + Len(e) + Len(b)
          /\ \A i \in 1 .. Len(e) : data[bp + i] = e[i]
          /\ next \in Seq(Nat) /\ Len(next) = bp + Len(e) /\ data = next \o b
      <4>1. data = pre \o (e \o b) /\ bp \in Nat
        BY <2>2, <3>2, LenProperties
      <4> DEFINE all == pre \o (e \o b)
      <4>2. /\ Len(all) = Len(pre) + Len(e) + Len(b)
            /\ \A i \in 1 .. Len(e) : all[Len(pre) + i] = e[i]
            /\ pre \o e \in Seq(Nat)
            /\ Len(pre \o e) = Len(pre) + Len(e)
            /\ (pre \o e) \o b = all
        BY <3>2, Middle
      <4> HIDE DEF all
      <4>3. data = all
        BY <4>1 DEF all
      <4> QED BY <4>1, <4>2, <4>3 DEF all
    <3>4. LiesAt(data, bp, e) /\ bp + 3 < Len(data) /\ bp \in 0 .. Len(data)
          /\ bp + 3 + Len(c.payload) \in 0 .. Len(data)
      <4> DEFINE l == Len(c.payload)
                 m == Len(b)
                 n == Len(data)
      <4>1. /\ bp \in Nat /\ l \in Nat /\ m \in Nat /\ l + m > 0
            /\ Len(e) = 3 + l /\ n = bp + (3 + l) + m
        BY <3>2, <3>3
      <4> HIDE DEF bp, l, m, n
      <4>2. bp + Len(e) <= n /\ bp + 3 < n /\ bp \in 0 .. n /\ bp + 3 + l \in 0 .. n
        BY <4>1
      <4>3. LiesAt(data, bp, e)
        BY <3>3, <4>2 DEF LiesAt, n
      <4> QED BY <4>2, <4>3 DEF l, n
    <3>5. /\ Counted(data, bp) /\ CommandAt(data, bp) = c
          /\ Following(data, bp) = bp + 3 + Len(c.payload)
      BY <1>0, <3>1, <3>3, <3>4, CommandIsCounted DEF e
    <3>6. next \in Seq(Nat) /\ Len(next) = bp + 3 + Len(c.payload) /\ data = next \o b
      <4> DEFINE l == Len(c.payload)
                 w == Len(next)
      <4>1. l \in Nat /\ Len(e) = 3 + l /\ w = bp + Len(e)
        BY <3>2, <3>3
      <4> HIDE DEF bp, l, w
      <4>2. w = bp + 3 + l
        BY <3>3, <4>1
      <4> QED BY <3>3, <4>2 DEF l, w
    <3> HIDE DEF next
    <3>7. Found(next, rest)
      <4> DEFINE m == Len(rest)
      <4>1. m \in Nat /\ ~(k <= m)
        BY <2>2, <3>1, LenProperties
      <4> HIDE DEF m
      <4>2. m \notin Bad
        BY <2>1, <4>1
      <4>3. ~Lost(m)
        <5> HIDE DEF Lost
        <5> QED BY <4>1, <4>2 DEF Bad
      <4> QED BY <3>1, <3>6, <4>3 DEF m, b
    <3>8. scan[bp] = scan[Len(next)] /\ cut[bp] = <<c>> \o cut[Len(next)]
      BY <1>1, <1>2, <3>4, <3>5, <3>6
    <3>9. Found(pre, t)
      BY <3>1, <3>7, <3>8 DEF Found
    <3> QED BY <2>2, <3>9
  <2> QED BY <2>3, <2>4
<1>4. Found(<<>>, cmds)
  <2> HIDE DEF Found
  <2>1. Len(cmds) \in Nat /\ <<>> \in Seq(Nat)
    BY LenProperties
  <2>2. data = <<>> \o Bytes(cmds)
    <3>1. data = Bytes(cmds)
      BY DEF data
    <3> QED BY <1>0, <3>1, ConcatEmptySeq
  <2>3. ~Lost(Len(cmds))
    <3> HIDE DEF Lost
    <3> QED BY <1>3, <2>1
  <2> QED BY <2>1, <2>2, <2>3
<1>5. Len(<<>>) = 0
  OBVIOUS
<1>6. scan[0] = "ok" /\ cut[0] = cmds
  BY <1>4, <1>5
<1> QED BY <1>1, <1>2, <1>6 DEF data

\* Bytes that the first scan finds to be commands are cut by the second into
\* commands whose encodings, put together, are the bytes again.
LEMMA CutIsWhole ==
  ASSUME NEW data \in Seq(Nat), Scan(data) = "ok"
  PROVE  LET cmds == Cut(data)
         IN  /\ cmds \in Seq(Command)
             /\ Proper(cmds)
             /\ FlattenSeq([i \in 1 .. Len(cmds) |-> Encode(cmds[i])]) = data
<1> DEFINE n == Len(data)
           Encoded(cmds) == [i \in 1 .. Len(cmds) |-> Encode(cmds[i])]
<1>0. n \in Nat
  OBVIOUS
<1>1. PICK scan :
        /\ Scan(data) = scan[0]
        /\ \A bp \in 0 .. n :
             scan[bp] = IF Counted(data, bp) THEN scan[Following(data, bp)]
                        ELSE Ending(data, bp)
  BY ScanSteps
<1>2. PICK cut :
        /\ Cut(data) = cut[0]
        /\ \A bp \in 0 .. n :
             cut[bp] = IF Counted(data, bp)
                       THEN <<CommandAt(data, bp)>> \o cut[Following(data, bp)]
                       ELSE <<>>
  BY CutSteps
<1> DEFINE Whole(bp) ==
      scan[bp] = "ok" =>
        /\ cut[bp] \in Seq(Command)
        /\ Proper(cut[bp])
        /\ Encoded(cut[bp]) \in Seq(Seq(Nat))
        /\ FlattenSeq(Encoded(cut[bp])) = SubSeq(data, bp + 1, n)
    Bad == {k \in 0 .. n : ~Whole(n - k)}
<1>3. Bad = {}
  <2> SUFFICES ASSUME Bad # {}
               PROVE  FALSE
    OBVIOUS
  <2>1. PICK k \in Bad : \A l \in Bad : k <= l
    <3> HIDE DEF Bad
    <3>1. Bad \subseteq Nat
      BY DEF Bad
    <3> QED BY <3>1, Least
  <2> DEFINE bp == n - k
             F == Following(data, bp)
  <2>2. bp \in 0 .. n /\ ~Whole(bp)
    <3> HIDE DEF Whole
    <3> QED BY <1>0
  <2>3. scan[bp] = "ok"
    BY <2>2
  <2> HIDE DEF bp, Whole
  <2>4. CASE ~Counted(data, bp)
    <3>1. Ending(data, bp) = "ok" /\ cut[bp] = <<>>
      BY <1>1, <1>2, <2>2, <2>3, <2>4
    <3>2. bp = n
      BY <3>1 DEF Ending
    <3>3. SubSeq(data, bp + 1, n) = <<>>
      BY <1>0, <3>2, SubSeqEmpty
    <3>4. Encoded(cut[bp]) = <<>> /\ FlattenSeq(Encoded(cut[bp])) = <<>>
      BY <3>1 DEF FlattenSeq
    <3>5. /\ cut[bp] \in Seq(Command) /\ Encoded(cut[bp]) \in Seq(Seq(Nat))
          /\ Proper(cut[bp])
      BY <3>1, <3>4 DEF Proper
    <3> HIDE DEF Encoded
    <3>6. Whole(bp)
      BY <3>3, <3>4, <3>5 DEF Whole
    <3> QED BY <2>2, <3>6
  <2>5. CASE Counted(data, bp)
    <3> DEFINE c == CommandAt(data, bp)
               rest == cut[F]
    <3>1. /\ F \in bp + 1 .. n /\ c \in Command
          /\ Encode(c) \in Seq(Nat)
          /\ Encode(c) = SubSeq(data, bp + 1, F)
          /\ Len(c.payload) = F - bp - 3
      BY <2>2, <2>5, CountedIsHere
    <3>2. scan[F] = "ok" /\ cut[bp] = <<c>> \o rest
      BY <1>1, <1>2, <2>2, <2>3, <2>5
    <3>3. Whole(F)
      <4>1. n - F \in 0 .. n /\ n - (n - F) = F /\ ~(k <= n - F)
        <5>1. k \in 0 .. n
          OBVIOUS
        <5> HIDE DEF Bad, F
        <5> QED BY <1>0, <3>1, <5>1 DEF bp
      <4>2. n - F \notin Bad
        <5> HIDE DEF Bad
        <5> QED BY <2>1, <4>1
      <4>3. Whole(n - (n - F))
        <5> HIDE DEF F
        <5> QED BY <4>1, <4>2
      <4> QED BY <4>1, <4>3
    <3>4. /\ rest \in Seq(Command) /\ Proper(rest) /\ Encoded(rest) \in Seq(Seq(Nat))
          /\ FlattenSeq(Encoded(rest)) = SubSeq(data, F + 1, n)
      BY <3>2, <3>3 DEF Whole
    <3>5. /\ <<c>> \o rest \in Seq(Command)
          /\ Encoded(<<c>> \o rest) = <<Encode(c)>> \o Encoded(rest)
      <4> HIDE DEF c, F, rest
      <4> QED BY <3>1, <3>4, EncodeCons
    <3>6. <<Encode(c)>> \o Encoded(rest) \in Seq(Seq(Nat))
      <4>1. <<Encode(c)>> \in Seq(Seq(Nat))
        BY <3>1
      <4> QED BY <3>4, <4>1, ConcatProperties
    <3>7. FlattenSeq(<<Encode(c)>> \o Encoded(rest)) = Encode(c) \o FlattenSeq(Encoded(rest))
      <4> HIDE DEF c, F, rest, Encoded
      <4> QED BY <3>1, <3>4, FlattenCons
    <3>8. Encode(c) \o FlattenSeq(Encoded(rest)) = SubSeq(data, bp + 1, n)
      <4> DEFINE m == bp + 1
      <4> HIDE DEF F, Bad
      <4>1. /\ m \in 1 .. Len(data) + 1 /\ F \in m - 1 .. Len(data)
            /\ n \in F .. Len(data)
        BY <1>0, <2>2, <3>1
      <4> HIDE DEF n, m
      <4>2. SubSeq(data, m, F) \o SubSeq(data, F + 1, n) = SubSeq(data, m, n)
        BY <4>1, ConcatAdjacentSubSeq
      <4> QED BY <3>1, <3>4, <4>2 DEF m
    <3>9. c.payload # <<>> \/ rest # <<>>
      <4> SUFFICES ASSUME rest = <<>>
                   PROVE  Len(c.payload) # 0
        OBVIOUS
      <4>1. SubSeq(data, F + 1, n) = <<>>
        <5>1. Encoded(<<>>) = <<>> /\ FlattenSeq(<<>>) = <<>>
          BY DEF FlattenSeq
        <5> HIDE DEF Encoded, F
        <5> QED BY <3>4, <5>1
      <4>2. bp + 3 < n
        BY <2>5 DEF Counted, HeaderSize
      <4> HIDE DEF F, c, rest
      <4>3. F = n
        <5>1. F \in 1 .. n
          BY <1>0, <2>2, <3>1
        <5>2. \A i \in F + 1 .. n : data[i] \in Nat
          BY <1>0, <5>1
        <5> DEFINE m == F + 1
        <5>3. m \in Int /\ n \in Int /\ (m <= n => n - m + 1 # 0)
          BY <1>0, <5>1
        <5> HIDE DEF m, n
        <5>4. Len(SubSeq(data, m, n)) = IF m <= n THEN n - m + 1 ELSE 0
          BY <5>2, <5>3, SubSeqProperties DEF m
        <5>5. ~(m <= n)
          BY <4>1, <5>3, <5>4, EmptySeq DEF m
        <5> QED BY <1>0, <5>1, <5>5 DEF m
      <4> HIDE DEF n
      <4> QED BY <1>0, <2>2, <3>1, <4>2, <4>3
    <3> HIDE DEF c, F, rest, Encoded
    <3>10. Proper(<<c>> \o rest)
      BY <3>1, <3>4, <3>9, ProperCons
    <3>11. Whole(bp)
      BY <3>2, <3>5, <3>6, <3>7, <3>8, <3>10 DEF Whole
    <3> QED BY <2>2, <3>11
  <2> QED BY <2>4, <2>5
<1>4. Whole(0)
  <2> HIDE DEF Whole
  <2>1. n \in 0 .. n /\ n - n = 0
    BY <1>0
  <2>2. Whole(n - n)
    BY <1>3, <2>1
  <2> QED BY <2>1, <2>2
<1>5. SubSeq(data, 0 + 1, n) = data
  BY SubSeqFull
<1> QED BY <1>1, <1>2, <1>4, <1>5 DEF Whole

-----------------------------------------------------------------------------
(* The commands of the bound panel.                                        *)

LEMMA InitCut == InitDisplay => CommandsAreCut
BY DEF InitDisplay, Init, CommandsAreCut

\* Only a probe that found both sequences in order binds a panel, and cuts
\* them; nothing else touches the commands, or the tree.
LEMMA StepKeepsCut ==
  ASSUME CommandsAreCut, PanelIsHere, [Next]_vars
  PROVE  CommandsAreCut'
<1>1. CASE ProbePanel
  <2>1. CASE Probe
    <3>1. /\ dt' = dt /\ ScanOf(dt.on) = "ok" /\ ScanOf(dt.off) = "ok"
          /\ panel' = [on |-> CutOf(dt.on), off |-> CutOf(dt.off),
                       prepared |-> FALSE, enabled |-> FALSE]
      BY <2>1 DEF Probe, NoPanel
    <3>2. panel'["on"] = CutOf(dt.on) /\ panel'["off"] = CutOf(dt.off)
      BY <3>1
    <3>3. dt \in Trees
      BY DEF CommandsAreCut
    <3>4. ASSUME NEW s \in {"on", "off"}
          PROVE  (panel[s] = CutOf(dt[s]) /\ ScanOf(dt[s]) = "ok")'
      BY <3>1, <3>2
    <3>5. dt' \in Trees
      BY <3>1, <3>3
    <3> QED BY <3>4, <3>5 DEF CommandsAreCut
  <2>2. CASE ProbeFails \/ ProbeRunsWild \/ AttachFails
    <3>1. dt' = dt /\ phase' \in {"unbound", "oops"}
      BY <2>2 DEF ProbeFails, ProbeRunsWild, AttachFails
    <3> QED BY <3>1 DEF CommandsAreCut
  <2> QED BY <1>1, <2>1, <2>2 DEF ProbePanel
<1>2. CASE RemovePanel
  BY <1>2 DEF RemovePanel, panel_simple_remove, CommandsAreCut
<1>3. CASE Drm \/ Shutdown
  <2>1. /\ dt' = dt
        /\ phase' \in {"bound", "shut"} => phase \in {"bound", "shut"}
        /\ panel'.on = panel.on /\ panel'.off = panel.off
    BY <1>3 DEF Drm, Prepare, Enable, Lit, Dim, Disable, Unprepare, Shutdown, PanelIsHere,
       panel_simple_prepare, panel_simple_enable, panel_simple_disable,
       panel_simple_unprepare, panel_simple_shutdown, panelVars
  <2>2. panel'["on"] = panel["on"] /\ panel'["off"] = panel["off"]
    BY <2>1
  <2> QED BY <2>1, <2>2 DEF CommandsAreCut
<1>4. CASE \/ UNCHANGED vars \/ SwitchSupply \/ ProbeBacklight
           \/ \E v \in Brightnesses : StoreBrightness(v)
           \/ \E c \in Callers : UpdateStatus(c)
  <2>1. UNCHANGED <<dt, phase, panel>>
    BY <1>4 DEF vars, SwitchSupply, OthersSwitch, ProbeBacklight, StoreBrightness,
       UpdateStatus, panelVars
  <2> QED BY <2>1 DEF CommandsAreCut
<1> QED BY <1>1, <1>2, <1>3, <1>4 DEF Next

-----------------------------------------------------------------------------
(* The theorems.                                                           *)

\* The inductive invariant holds in every state: what the bound panel, the
\* supply and an update under way are at each point of the code.
THEOREM Invariant == Spec => []IInv
BY InitIInv, StepKeepsIInv, PTL DEF Spec

\* Every variable keeps its type: among others the supply is enabled at most
\* once by the panel, and left enabled at most once by each removed panel.
THEOREM TypeCorrect == Spec => []TypeOK
<1>1. IInv => TypeOK
  BY DEF IInv
<1> QED BY <1>1, Invariant, PTL

\* The enables and disables of the supply are those of the panel's states, and
\* an unbalanced disable is asked for only with power-invert or by the
\* unprepare that follows shutdown (panel_simple_regulator_enable, _disable).
THEOREM SupplyBalanced == Spec => []SupplyIsBalanced
<1>1. IInv => SupplyIsBalanced
  BY DEF IInv
<1> QED BY <1>1, Invariant, PTL

\* An output that is on has a prepared panel unless its supply failed, and a
\* panel that is not prepared is in reset (panel_simple_prepare and _unprepare).
THEOREM OutputPrepared == Spec => []OutputIsPrepared
<1>1. IInv => OutputIsPrepared
  BY DEF IInv
<1> QED BY <1>1, Invariant, PTL

\* What is on the list of panels, or allocated, is the bound panel's or was
\* left by a probe that failed (panel_simple_dsi_probe and _remove).
THEOREM RemovedIsGone == Spec => []RemovedLeavesNothing
<1>1. IInv => RemovedLeavesNothing
  BY DEF IInv
<1> QED BY <1>1, Invariant, PTL

\* With nobody updating, the two registers hold the level of the brightness
\* asked for last, however users, the panel and failed locks interleave
\* (sgm37604a_set_backlight_level).
THEOREM BrightnessWins == Spec => []LastBrightnessWins
<1>1. ASSUME IInv PROVE LastBrightnessWins
  <2>1. LightInv
    BY <1>1, Halves
  <2> SUFFICES ASSUME \A c \in Callers : step[c] = "idle", clean
               PROVE  /\ 16 * chip.msb + chip.lsb =
                            CASE brightness = 0 -> 0
                              [] brightness \in 1 .. 15 -> 16
                              [] OTHER -> brightness
                      /\ is_suspend = (brightness = 0)
    BY DEF LastBrightnessWins
  <2>2. NobodyWaits /\ updating = NoCaller
    BY <2>1 DEF LightInv, LightTypeOK, BacklightIsHere, NobodyWaits, Writing
  <2>3. Holds(LevelOf(brightness)) /\ (is_suspend <=> brightness = 0) /\ is_suspend \in BOOLEAN
    BY <2>1, <2>2 DEF LightInv, BacklightIsHere
  <2>4. brightness \in Nat /\ brightness <= 4095
    BY <2>1, SettingsAre DEF LightInv, LightTypeOK
  <2>5. /\ LevelOf(brightness) \in Nat /\ LevelOf(brightness) <= 4095
        /\ LevelOf(brightness) = (CASE brightness = 0 -> 0
                                    [] brightness \in 1 .. 15 -> 16
                                    [] OTHER -> brightness)
    BY <2>4, Levels
  <2>6. 16 * Msb(LevelOf(brightness)) + Lsb(LevelOf(brightness)) = LevelOf(brightness)
    BY <2>5, Nibbles
  <2>7. 16 * chip.msb + chip.lsb = LevelOf(brightness)
    BY <2>3, <2>6 DEF Holds
  <2>8. is_suspend = (brightness = 0)
    BY <2>3
  <2> QED BY <2>5, <2>7, <2>8
<1> QED BY <1>1, Invariant, PTL

\* The commands of a bound panel are what was cut from its device tree, which
\* the first scan found in order (panel_simple_get_cmds).
THEOREM CommandsCut == Spec => []CommandsAreCut
<1>1. IInv => PanelIsHere
  BY DEF IInv
<1> QED BY <1>1, InitCut, StepKeepsCut, Invariant, PTL DEF Spec

\* For any bytes of any length: the commands a bound panel sends are its device
\* tree's bytes, whole and in order; the two scans of panel_simple_parse_cmds
\* agree.
THEOREM CommandsWhole == Spec => []CommandsAreTheTree
<1>1. ASSUME CommandsAreCut PROVE CommandsAreTheTree
  <2> SUFFICES ASSUME phase = "bound", NEW s \in {"on", "off"}, panel[s] # NoSequence
               PROVE  FlattenSeq([i \in 1 .. Len(panel[s]) |-> Encode(panel[s][i])]) = dt[s]
    BY DEF CommandsAreTheTree
  <2>1. dt \in Trees /\ panel[s] = CutOf(dt[s]) /\ ScanOf(dt[s]) = "ok"
    BY <1>1 DEF CommandsAreCut
  <2>2. dt[s] # NoSequence
    BY <2>1 DEF CutOf
  <2>3. panel[s] = Cut(dt[s]) /\ Scan(dt[s]) = "ok"
    BY <2>1, <2>2 DEF CutOf, ScanOf
  <2>4. dt[s] \in Seq(0 .. 255)
    BY <2>1, <2>2, TreesAssumption
  <2>5. dt[s] \in Seq(Nat)
    <3>1. 0 .. 255 \subseteq Nat
      OBVIOUS
    <3> QED BY <2>4, <3>1, SeqMonotonic
  <2> QED BY <2>3, <2>5, CutIsWhole
<1> QED BY <1>1, CommandsCut, PTL

\* Which bytes panel_simple_parse_cmds takes: those of commands of which the
\* last has a payload, and of no others; and it cuts them into these commands,
\* the only ones with these bytes.
THEOREM WhatParses ==
  ASSUME NEW data \in Seq(Nat)
  PROVE  /\ Scan(data) = "ok" =>
              Cut(data) \in Seq(Command) /\ Proper(Cut(data)) /\ Bytes(Cut(data)) = data
         /\ \A cmds \in Seq(Command) :
              Proper(cmds) /\ Bytes(cmds) = data => Scan(data) = "ok" /\ Cut(data) = cmds
BY CutIsWhole, CommandsAreFound DEF Bytes
=============================================================================
