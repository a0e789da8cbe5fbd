----------------------------- MODULE Backlight -----------------------------
(***************************************************************************)
(* sgm37604a.c: the backlight driver.  The backlight core (external) keeps *)
(* the brightness and the power state and calls update_status for one      *)
(* caller at a time: a user's write to sysfs or the panel's enable and     *)
(* disable.  update_status writes the brightness to two registers, low     *)
(* nibble first, and never looks at the power state, which is left out.    *)
(*                                                                         *)
(* Only the brightness registers of the chip are kept; what probe writes   *)
(* to the others is never written again.                                   *)
(***************************************************************************)
EXTENDS Integers

CONSTANTS
  Callers,      \* of backlight_update_status
  Brightnesses  \* what users write to sysfs

MinSetting == 16
MaxSetting == 4095
Settings == 0 .. MaxSetting
Chips == [lsb : 0 .. 15, msb : 0 .. 255]

ASSUME BrightnessAssumption == Brightnesses \subseteq Settings

NoCaller == "no caller"
ASSUME CallersAssumption == NoCaller \notin Callers

VARIABLES
  ready,      \* the backlight device is registered
  chip,       \* the two brightness registers
  en_gpio,
  brightness, \* props.brightness, as the backlight core keeps it
  is_suspend,
  lock,       \* the count of SGM37604A_lock
  updating,   \* who holds the core's update lock
  step, level,\* of each caller: where it is, what it writes
  clean       \* history: every write since the last update began went well

backlightVars ==
  <<ready, chip, en_gpio, brightness, is_suspend, lock, updating, step, level, clean>>

InitBacklight ==
  /\ ready = FALSE
  /\ chip = [lsb |-> 0, msb |-> 0]
  /\ en_gpio = 0
  /\ brightness = 0
  /\ is_suspend = FALSE
  /\ lock = 0
  /\ updating = NoCaller
  /\ step = [c \in Callers |-> "idle"]
  /\ level = [c \in Callers |-> 0]
  /\ clean = FALSE

-----------------------------------------------------------------------------
\* MIN_MAX_SCALE, and the level a brightness asks for.
Scaled(x) == IF x < MinSetting THEN MinSetting
             ELSE IF x > MaxSetting THEN MaxSetting ELSE x
LevelOf(b) == IF b = 0 THEN 0 ELSE Scaled(b)

\* The upper half of the low register is always set and has no meaning.
LsbUnmasked(l) == l  \* mutant
Lsb(l) == l % 16
Msb(l) == (l \div 16) % 256

(***************************************************************************)
(* SGM37604A_smbus_write_byte: when the first write fails it is tried five *)
(* times more, but what those return is not kept: the result stays that of *)
(* the first, whether or not a later one reached the chip.                 *)
(***************************************************************************)
Outcomes == {[written |-> TRUE, ok |-> TRUE], [written |-> TRUE, ok |-> FALSE],
             [written |-> FALSE, ok |-> FALSE]}
Written(o, old, new) == IF o.written THEN new ELSE old

SetLsb(c, o, l) == [c EXCEPT !.lsb = Written(o, @, Lsb(l))]
SetMsb(c, o, l) == [c EXCEPT !.msb = Written(o, @, Msb(l))]

StartLevel == 1883        \* 0x75B
StartBrightness == 2000

\* SGM37604A_set_brightness_level in one go, as probe calls it: the second
\* register is written only if the first write of the first one went well.
LevelSets(c, l) ==
  {SetLsb(c, o, l) : o \in {q \in Outcomes : ~q.ok}}
    \union {SetMsb(SetLsb(c, o, l), p, l) : o \in {q \in Outcomes : q.ok}, p \in Outcomes}

\* Probe: the pin, the registers, then the device, registered with a
\* brightness that is not the level just written.
SGM37604A_probe ==
  /\ ~ready
  /\ ready' = TRUE
  /\ en_gpio' = 1
  /\ lock' = 1
  /\ chip' \in LevelSets(chip, StartLevel)
  /\ brightness' = StartBrightness
  /\ UNCHANGED <<is_suspend, updating, step, level, clean>>

-----------------------------------------------------------------------------
(* The core: a caller changes what it came to change, then waits for its   *)
(* turn to update.                                                         *)

Request(c, b) ==
  /\ ready /\ step[c] = "idle"
  /\ brightness' = b
  /\ step' = [step EXCEPT ![c] = "wait"]
  /\ UNCHANGED <<ready, chip, en_gpio, is_suspend, lock, updating, level, clean>>

\* down_interruptible: a signal ends a wait for the lock, and the caller,
\* which does not look, goes on without it.
Down == \/ lock > 0 /\ lock' = lock - 1
        \/ lock = 0 /\ lock' = lock
Up == lock' = lock + 1

\* sgm37604a_set_backlight_level up to the first register; waking from level
\* 0 takes and releases the lock once before.
Begin(c) ==
  /\ step[c] = "wait" /\ updating = NoCaller
  /\ updating' = c
  /\ level' = [level EXCEPT ![c] = LevelOf(brightness)]
  /\ is_suspend' = (is_suspend /\ level'[c] = 0)
  /\ Down
  /\ clean' = TRUE
  /\ step' = [step EXCEPT ![c] = "lsb"]
  /\ UNCHANGED <<ready, chip, en_gpio, brightness>>

\* Mutant: a level that fits the low nibble leaves the other register alone.
WriteLsbOnly(c) ==
  /\ step[c] = "lsb"
  /\ \E o \in Outcomes :
       /\ chip' = SetLsb(chip, o, level[c])
       /\ clean' = (clean /\ o.ok)
       /\ step' = [step EXCEPT ![c] = IF o.ok /\ level[c] > 15 THEN "msb" ELSE "up"]
  /\ UNCHANGED <<ready, en_gpio, brightness, is_suspend, lock, updating, level>>

WriteLsb(c) ==
  /\ step[c] = "lsb"
  /\ \E o \in Outcomes :
       /\ chip' = SetLsb(chip, o, level[c])
       /\ clean' = (clean /\ o.ok)
       /\ step' = [step EXCEPT ![c] = IF o.ok THEN "msb" ELSE "up"]
  /\ UNCHANGED <<ready, en_gpio, brightness, is_suspend, lock, updating, level>>

WriteMsb(c) ==
  /\ step[c] = "msb"
  /\ \E o \in Outcomes :
       /\ chip' = SetMsb(chip, o, level[c])
       /\ clean' = (clean /\ o.ok)
  /\ step' = [step EXCEPT ![c] = "up"]
  /\ UNCHANGED <<ready, en_gpio, brightness, is_suspend, lock, updating, level>>

Finish(c) ==
  /\ step[c] = "up"
  /\ Up
  /\ is_suspend' = (is_suspend \/ level[c] = 0)
  /\ updating' = NoCaller
  /\ step' = [step EXCEPT ![c] = "idle"]
  /\ level' = [level EXCEPT ![c] = 0]
  /\ UNCHANGED <<ready, chip, en_gpio, brightness, clean>>

Update(c) == Begin(c) \/ WriteLsb(c) \/ WriteMsb(c) \/ Finish(c)
=============================================================================
