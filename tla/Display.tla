------------------------------ MODULE Display ------------------------------
(***************************************************************************)
(* The display of a board: the DSI panel and its backlight, driven by the  *)
(* DRM core (external).  Turning the output on prepares the panel, enables *)
(* it and has the backlight updated; turning it off has the backlight      *)
(* updated, then disables and unprepares the panel.  Users change the      *)
(* brightness at any time.  The panel's probe needs the backlight device   *)
(* (drm_panel_of_backlight).                                               *)
(***************************************************************************)
EXTENDS PanelDsi, Backlight, SequencesExt

\* The DRM core, for the panel's enable and disable, and a user's write.
ASSUME DisplayCallers == {"drm", "sysfs"} \subseteq Callers

VARIABLE crtc   \* how far the DRM core has the output on

vars == <<panelVars, backlightVars, crtc>>

CrtcStates == {"off", "prepared", "lighting", "on", "dimming", "disabled"}

InitDisplay == Init /\ InitBacklight /\ crtc = "off"

-----------------------------------------------------------------------------
(* The backlight's callers.                                                *)

ProbeBacklight == SGM37604A_probe /\ UNCHANGED <<panelVars, crtc>>

StoreBrightness(v) ==
  /\ Request("sysfs", v)
  /\ UNCHANGED <<panelVars, crtc>>

UpdateStatus(c) == Update(c) /\ UNCHANGED <<panelVars, crtc>>

-----------------------------------------------------------------------------
(* The driver core on the panel's device.                                  *)

ProbePanel ==
  /\ ProbeFails \/ ProbeRunsWild \/ (ready /\ (Probe \/ AttachFails))
  /\ UNCHANGED <<backlightVars, crtc>>

\* The output is off before the panel detaches from the host.
RemovePanel ==
  /\ crtc = "off"
  /\ panel_simple_remove
  /\ UNCHANGED <<backlightVars, crtc>>

Shutdown == panel_simple_shutdown /\ UNCHANGED <<backlightVars, crtc>>

SwitchSupply == OthersSwitch /\ UNCHANGED <<backlightVars, crtc>>

-----------------------------------------------------------------------------
(* The DRM core.  The result of prepare is not looked at.  A system that   *)
(* shuts down ends what it began and turns outputs off, never on.          *)

Prepare ==
  /\ phase = "bound"
  /\ crtc = "off" /\ crtc' = "prepared"
  /\ panel_simple_prepare
  /\ UNCHANGED backlightVars

Enable ==
  /\ crtc = "prepared" /\ crtc' = "lighting"
  /\ panel_simple_enable
  /\ Request("drm", brightness)

Lit ==
  /\ crtc = "lighting" /\ crtc' = "on"
  /\ step["drm"] = "idle"
  /\ UNCHANGED <<panelVars, backlightVars>>

Dim ==
  /\ crtc = "on" /\ crtc' = "dimming"
  /\ Request("drm", brightness)
  /\ UNCHANGED panelVars

Disable ==
  /\ crtc = "dimming" /\ crtc' = "disabled"
  /\ step["drm"] = "idle"
  /\ panel_simple_disable
  /\ UNCHANGED backlightVars

Unprepare ==
  /\ crtc = "disabled" /\ crtc' = "off"
  /\ panel_simple_unprepare
  /\ UNCHANGED backlightVars

Drm == Prepare \/ Enable \/ Lit \/ Dim \/ Disable \/ Unprepare

Next ==
  \/ ProbeBacklight
  \/ \E v \in Brightnesses : StoreBrightness(v)
  \/ \E c \in Callers : UpdateStatus(c)
  \/ ProbePanel \/ RemovePanel \/ Shutdown \/ SwitchSupply
  \/ Drm

Spec == InitDisplay /\ [][Next]_vars

-----------------------------------------------------------------------------
TypeOK ==
  /\ phase \in {"unbound", "bound", "shut", "oops"}
  /\ panel.prepared \in BOOLEAN /\ panel.enabled \in BOOLEAN
  /\ supply \in [own : 0 .. 1, others : 0 .. 1, stuck : 0 .. MaxProbes]
  /\ pins.reset \in {"unset", "level", "opposite"}
  /\ pins.enable \in {"unset", "high", "low"}
  /\ listed \subseteq 1 .. probes /\ failed \subseteq 1 .. probes
  /\ kept \subseteq (1 .. probes) \X {"on", "off"}
  /\ refused \in BOOLEAN
  /\ chip \in Chips
  /\ brightness \in Settings
  /\ sent \in {"none", "whole", "part"}
  /\ lock \in Nat /\ updating \in Callers \union {NoCaller}
  /\ step \in [Callers -> {"idle", "wait", "lsb", "msb", "up"}]
  /\ level \in [Callers -> Settings]
  /\ crtc \in CrtcStates

\* The commands cut from the device tree are its bytes again when they are
\* put back together: the second scan of panel_simple_parse_cmds agrees with
\* the first, and nothing is lost, split or read twice.
Encode(c) == <<c.dtype, c.wait, Len(c.payload)>> \o c.payload
CommandsAreTheTree ==
  phase = "bound" =>
    \A s \in {"on", "off"} :
      panel[s] # NoSequence =>
        FlattenSeq([i \in 1 .. Len(panel[s]) |-> Encode(panel[s][i])]) = dt[s]

\* Until shutdown a prepared panel is powered: it holds the supply on, or,
\* inverted, it let go of it, and nothing but another consumer or a removed
\* panel keeps it on; an unprepared panel that is not inverted holds nothing.
PreparedIsPowered ==
  phase = "bound" =>
    IF dt.invert
    THEN panel.prepared => supply.own = 0
    ELSE supply.own = IF panel.prepared THEN 1 ELSE 0

\* An output that is on has a prepared panel, unless the supply of a panel
\* that is not inverted failed, which the DRM core does not look at; a
\* prepared panel was sent its init sequence, if only in part; a panel that is
\* not prepared, or was shut down, is in reset and disabled.
OutputIsPrepared ==
  /\ phase = "bound" /\ crtc \in {"prepared", "lighting", "on", "dimming"} =>
       panel.prepared \/ (~dt.invert /\ supply.own = 0)
  /\ phase = "bound" => (panel.prepared <=> sent # "none")
  /\ phase = "shut" \/ ~panel.prepared => pins.reset = "unset" \/ pins = Quiet

\* The driver asks for a disable of a supply it does not hold only with
\* power-invert, or when the output is turned off after shutdown, which
\* leaves the panel prepared.
DisablesAreBalanced == refused => dt.invert \/ phase = "shut"

\* So the enables and disables of the supply are those of the panel's states.
SupplyIsBalanced == PreparedIsPowered /\ DisablesAreBalanced

\* What stays on the list of panels, or allocated, when no panel is bound is
\* left by probes that failed: by an attach that failed after the panel was
\* listed, or by parsing whose buffers the failing probe does not free.  A
\* removed panel leaves nothing.
RemovedLeavesNothing ==
  LET bound == IF phase \in {"bound", "shut"} THEN {probes} ELSE {}
  IN  listed \union {b[1] : b \in kept} \subseteq failed \union bound

\* When nobody updates, the registers hold together the level of the
\* brightness asked for last, whoever asked and whatever the power state, as
\* long as the writes of the last update went well at the first attempt.
LastBrightnessWins ==
  (\A c \in Callers : step[c] = "idle") /\ clean =>
    /\ 16 * chip.msb + chip.lsb =
         CASE brightness = 0 -> 0
           [] brightness \in 1 .. 15 -> 16
           [] OTHER -> brightness
    /\ is_suspend = (brightness = 0)

-----------------------------------------------------------------------------
(* The inductive invariant behind all but CommandsAreTheTree, which takes  *)
(* CommandsAreCut.                                                         *)

\* The panel's commands were cut from sequences that the first scan found to
\* be in order, and the device tree is one of those there are.
CommandsAreCut ==
  /\ dt \in Trees
  /\ phase \in {"bound", "shut"} =>
       \A s \in {"on", "off"} : panel[s] = CutOf(dt[s]) /\ ScanOf(dt[s]) = "ok"

\* Without a panel there is nothing of it; each removed one left the supply
\* enabled at most once.
PanelIsHere ==
  /\ probes \in 0 .. MaxProbes
  /\ panel = [on |-> panel.on, off |-> panel.off,
              prepared |-> panel.prepared, enabled |-> panel.enabled]
  /\ phase \in {"unbound", "oops"} => panel = NoPanel /\ supply.own = 0 /\ crtc = "off"
  /\ supply.stuck <= probes
  /\ phase = "bound" => supply.stuck < probes

Writing == {"lsb", "msb", "up"}
NobodyWaits == \A c \in Callers : step[c] # "wait"

\* The registers hold level l, or its low nibble.
Holds(l) == chip.lsb = Lsb(l) /\ chip.msb = Msb(l)

UpdateIsHere(c) ==
  /\ level[c] # 0 => ~is_suspend
  /\ NobodyWaits => level[c] = LevelOf(brightness)
  /\ step[c] = "msb" /\ clean => chip.lsb = Lsb(level[c])
  /\ step[c] = "up" /\ clean => Holds(level[c])

BacklightIsHere ==
  /\ {ready, clean, is_suspend} \subseteq BOOLEAN
  /\ ~ready => ~clean /\ \A c \in Callers : step[c] = "idle"
  /\ \A c \in Callers : updating = c <=> step[c] \in Writing
  /\ \A c \in Callers : step[c] \in Writing => UpdateIsHere(c)
  /\ updating = NoCaller /\ NobodyWaits /\ clean =>
       Holds(LevelOf(brightness)) /\ (is_suspend <=> brightness = 0)

IInv ==
  /\ TypeOK /\ PanelIsHere /\ BacklightIsHere
  /\ SupplyIsBalanced /\ OutputIsPrepared /\ RemovedLeavesNothing
=============================================================================
