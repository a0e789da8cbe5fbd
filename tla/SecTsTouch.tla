----------------------------- MODULE SecTsTouch -----------------------------
(***************************************************************************)
(* The touch path of the sec-ts driver: the sensor's event stack, the      *)
(* threaded interrupt handler that drains it (sec_ts_read_event), the      *)
(* "lift everything" helper (sec_ts_release_all_finger) and the two        *)
(* user-triggered operations that mask the interrupt and meanwhile take    *)
(* events away from the handler: run_force_calibration and the selftest    *)
(* file.  One step is one event read, one bus command or one call of the   *)
(* helper.                                                                 *)
(*                                                                         *)
(* The sensor is external: it tracks fingers, pushes one event per change  *)
(* and holds the interrupt line low while its stack is not empty.          *)
(***************************************************************************)
EXTENDS Naturals, Sequences, FiniteSets

CONSTANTS
  Fingers,          \* touch slots the sensor may report
  MAX_EVENT_COUNT,  \* events one call of the handler accepts
  ErrLimit,         \* failed reads in a row tolerated before lifting all
  StackSize,        \* bound: depth of the sensor's event stack
  MaxFaults,        \* bound: bus transfers that may fail
  MaxTouchCount     \* bound: no finger lands once the count could pass it

ASSUME ConstantsAssumption ==
  /\ IsFiniteSet(Fingers)
  /\ MAX_EVENT_COUNT \in Nat
  /\ ErrLimit \in Nat
  /\ StackSize \in Nat
  /\ MaxFaults \in Nat
  /\ MaxTouchCount \in Nat

OpNames == {"calibrate", "selftest"}
Action == {"None", "Press", "Move", "Release"}
Coordinate == [kind : {"coordinate"}, id : Fingers, action : Action \ {"None"}]
\* What sec_ts_wait_for_ready waits for, by operation.
Ack == [calibrate |-> "OFFSET_CAL_DONE", selftest |-> "SELF_TEST_DONE"]
AckKinds == {Ack[name] : name \in OpNames}
\* "ignored": a coordinate event of no slot or of no reported touch type;
\* "status": any status, gesture or unknown event with no effect here.
Signal == [kind : {"boot", "status", "ignored"} \union AckKinds]
Event == Coordinate \union Signal

Touch(f, a) == [kind |-> "coordinate", id |-> f, action |-> a]
Of(kind) == [kind |-> kind]

VARIABLES
  \* the sensor
  sensing,          \* SENSE_ON was the last sense command
  down,             \* fingers the sensor tracks
  stack,            \* events not read yet, oldest first
  \* the driver
  coord,            \* ts->coord[i].action
  touch_count,      \* ts->touch_count
  event_errcnt,     \* ts->event_errcnt, saturated just above ErrLimit
  fw_workdone,      \* ts->probe_done && ts->fw_workdone
  \* the input core, as the driver last set it
  slot,             \* MT_TOOL_FINGER state of each slot
  btn,              \* BTN_TOUCH and BTN_TOOL_FINGER
  dirty,            \* something was reported since the last input_sync
  \* the threads
  irq_thread,       \* "idle" or "reading"
  read_event_count, \* local of the handler
  op,               \* the step of each operation that masks the interrupt
  calls,            \* get_tsp_nvm_data calls a calibration has left
  faults,           \* bus failures so far
  \* auxiliary: does the driver still follow the sensor?
  view

sensor == <<sensing, down, stack>>
report == <<coord, touch_count, slot, btn, dirty>>
handler == <<irq_thread, read_event_count, event_errcnt>>
operations == <<op, calls>>
vars == <<sensor, report, handler, fw_workdone, operations, faults, view>>

OpSteps == {"idle", "checked", "masked", "waiting", "nvm", "reset", "unmask"}
\* disable_irq nests: the line is masked until every operation has let go.
Masked == \E name \in OpNames : op[name] \notin {"idle", "checked"}

Views == {"synced", "resetting", "lost"}

TypeOK ==
  /\ /\ sensing \in BOOLEAN
     /\ fw_workdone \in BOOLEAN
     /\ slot \in [Fingers -> BOOLEAN]
     /\ btn \in BOOLEAN
     /\ dirty \in BOOLEAN
  /\ /\ down \in SUBSET Fingers
     /\ stack \in Seq(Event)
     /\ coord \in [Fingers -> Action]
     /\ touch_count \in Nat
     /\ event_errcnt \in 0..(ErrLimit + 1)
     /\ irq_thread \in {"idle", "reading"}
     /\ read_event_count \in 0..MAX_EVENT_COUNT
     /\ op \in [OpNames -> OpSteps]
     /\ calls \in 0..5
     /\ faults \in 0..MaxFaults
     /\ view \in Views

\* The interrupt has just been enabled for the first time, by the last lines
\* of sec_ts_fwupdate_work: on its error path fw_workdone is still false.
Init ==
  /\ sensing = TRUE
  /\ down = {}
  /\ stack = <<>>
  /\ coord = [f \in Fingers |-> "None"]
  /\ touch_count = 0
  /\ event_errcnt = 0
  /\ fw_workdone \in BOOLEAN
  /\ slot = [f \in Fingers |-> FALSE]
  /\ btn = FALSE
  /\ dirty = FALSE
  /\ irq_thread = "idle"
  /\ read_event_count = 0
  /\ op = [name \in OpNames |-> "idle"]
  /\ calls = 0
  /\ faults = 0
  /\ view = "synced"

-----------------------------------------------------------------------------
(* The sensor.                                                             *)

Push(e) ==
  /\ Len(stack) < StackSize
  /\ stack' = Append(stack, e)
  /\ UNCHANGED <<sensing, report, handler, fw_workdone, operations, faults, view>>

FingerDown(f) ==
  /\ sensing
  /\ f \notin down
  /\ touch_count + Len(stack) < MaxTouchCount
  /\ Push(Touch(f, "Press"))
  /\ down' = down \union {f}

FingerMove(f) ==
  /\ f \in down
  /\ Push(Touch(f, "Move"))
  /\ UNCHANGED down

FingerUp(f) ==
  /\ f \in down
  /\ Push(Touch(f, "Release"))
  /\ down' = down \ {f}

SensorSignal(kind) ==
  /\ Push(Of(kind))
  /\ UNCHANGED down

\* What a reset does to the sensor: it forgets the fingers and the events,
\* senses again and announces itself.  The driver catches up with it when its
\* handler reads the announcement, provided fw_workdone lets it.
Reboot ==
  /\ sensing' = TRUE
  /\ down' = {}
  /\ stack' = <<Of("boot")>>
  /\ view' = IF fw_workdone THEN "resetting" ELSE "lost"

\* The sensor's own watchdog resets it.
WatchdogReset ==
  /\ Reboot
  /\ UNCHANGED <<report, handler, fw_workdone, operations, faults>>

-----------------------------------------------------------------------------
(* The interrupt handler.                                                  *)

BusFaults(n) ==
  /\ faults + n <= MaxFaults
  /\ faults' = faults + n

BusFault == BusFaults(1)

\* Mutants: the helper without its loop over ts->coord, without the reset of
\* the count, without the keys.
ReleaseAllKeepsCoord ==
  /\ slot' = [f \in Fingers |-> FALSE]
  /\ touch_count' = 0
  /\ btn' = FALSE
  /\ dirty' = FALSE
  /\ UNCHANGED coord
ReleaseAllKeepsCount ==
  /\ slot' = [f \in Fingers |-> FALSE]
  /\ coord' = [f \in Fingers |-> IF coord[f] = "None" THEN "None" ELSE "Release"]
  /\ btn' = FALSE
  /\ dirty' = FALSE
  /\ UNCHANGED touch_count
ReleaseAllKeepsButton ==
  /\ slot' = [f \in Fingers |-> FALSE]
  /\ coord' = [f \in Fingers |-> IF coord[f] = "None" THEN "None" ELSE "Release"]
  /\ touch_count' = 0
  /\ dirty' = FALSE
  /\ UNCHANGED btn

\* input_mt_report_slot_state(false) on every slot, both keys up, count zero,
\* input_sync.
sec_ts_release_all_finger ==
  /\ slot' = [f \in Fingers |-> FALSE]
  /\ coord' = [f \in Fingers |->
                IF coord[f] \in {"Press", "Move"} THEN "Release" ELSE coord[f]]
  /\ touch_count' = 0
  /\ btn' = FALSE
  /\ dirty' = FALSE

Return ==
  /\ irq_thread' = "idle"
  /\ read_event_count' = 0

\* The line is level triggered: the thread runs while events are pending.
sec_ts_irq_thread ==
  /\ irq_thread = "idle"
  /\ ~Masked
  /\ stack # <<>>
  /\ irq_thread' = "reading"
  /\ UNCHANGED <<sensor, report, read_event_count, event_errcnt, fw_workdone,
                 operations, faults, view>>

\* READ_ONE_EVENT fails: the handler returns without input_sync.
ReadFails ==
  /\ irq_thread = "reading"
  /\ BusFault
  /\ event_errcnt' = IF event_errcnt > ErrLimit THEN event_errcnt
                                                ELSE event_errcnt + 1
  /\ \/ /\ event_errcnt' > ErrLimit /\ fw_workdone
        /\ sec_ts_release_all_finger
        /\ view' = IF view = "synced" /\ (down # {} \/ stack # <<>>)
                   THEN "lost" ELSE view
     \/ /\ ~(event_errcnt' > ErrLimit /\ fw_workdone)
        /\ UNCHANGED <<report, view>>
  /\ Return
  /\ UNCHANGED <<sensor, fw_workdone, operations>>

\* READ_ONE_EVENT succeeds; an empty stack reads as an all-zero status event.
NextKind == IF stack = <<>> THEN "status" ELSE Head(stack).kind
Rest == IF stack = <<>> THEN stack ELSE Tail(stack)

ReadOne ==
  /\ irq_thread = "reading"
  /\ event_errcnt' = 0
  /\ UNCHANGED <<sensing, down, fw_workdone, operations>>

\* One event too many: it is dropped and the stack cleared, if the write
\* goes through.  The handler returns without input_sync.
ReadTooMany ==
  /\ ReadOne
  /\ read_event_count = MAX_EVENT_COUNT
  /\ \/ stack' = <<>> /\ UNCHANGED faults
     \/ stack' = Rest /\ BusFault
  /\ view' = IF stack = <<>> THEN view ELSE "lost"
  /\ Return
  /\ UNCHANGED report

ReadStatus ==
  /\ ReadOne
  /\ read_event_count < MAX_EVENT_COUNT
  /\ NextKind \in {"status"} \union AckKinds
  /\ stack' = Rest
  /\ dirty' = FALSE
  /\ Return
  /\ UNCHANGED <<coord, touch_count, slot, btn, faults, view>>

\* Mutant: the boot announcement does not lift the contacts.
ReadBootKeepsContacts ==
  /\ ReadOne
  /\ read_event_count < MAX_EVENT_COUNT
  /\ NextKind = "boot"
  /\ stack' = Rest
  /\ dirty' = FALSE
  /\ view' = IF view = "resetting" THEN "synced" ELSE view
  /\ Return
  /\ UNCHANGED <<coord, touch_count, slot, btn, faults>>

ReadBoot ==
  /\ ReadOne
  /\ read_event_count < MAX_EVENT_COUNT
  /\ NextKind = "boot"
  /\ stack' = Rest
  /\ \/ /\ fw_workdone
        /\ sec_ts_release_all_finger
        /\ view' = IF view = "resetting" THEN "synced" ELSE view
     \/ /\ ~fw_workdone
        /\ dirty' = FALSE
        /\ UNCHANGED <<coord, touch_count, slot, btn, view>>
  /\ Return
  /\ UNCHANGED faults

ReadIgnored ==
  /\ ReadOne
  /\ read_event_count < MAX_EVENT_COUNT
  /\ NextKind = "ignored"
  /\ stack' = Rest
  /\ read_event_count' = read_event_count + 1
  /\ UNCHANGED <<irq_thread, report, faults, view>>

\* Mutants: a release without the test for zero, one that lifts the button with
\* a finger left, and one that forgets the slot.
ReleaseUnchecked(f) ==
  /\ touch_count' = touch_count - 1
  /\ slot' = [slot EXCEPT ![f] = FALSE]
  /\ btn' = IF touch_count' = 0 THEN FALSE ELSE btn
ReleaseLiftsButton(f) ==
  /\ touch_count' = IF touch_count > 0 THEN touch_count - 1 ELSE touch_count
  /\ slot' = [slot EXCEPT ![f] = FALSE]
  /\ btn' = IF touch_count' <= 1 THEN FALSE ELSE btn
ReleaseKeepsSlot(f) ==
  /\ touch_count' = IF touch_count > 0 THEN touch_count - 1 ELSE touch_count
  /\ btn' = IF touch_count' = 0 THEN FALSE ELSE btn
  /\ UNCHANGED slot

Release(f) ==
  /\ touch_count' = IF touch_count > 0 THEN touch_count - 1 ELSE touch_count
  /\ slot' = [slot EXCEPT ![f] = FALSE]
  /\ btn' = IF touch_count' = 0 THEN FALSE ELSE btn

Press(f) ==
  /\ touch_count' = touch_count + 1
  /\ slot' = [slot EXCEPT ![f] = TRUE]
  /\ btn' = TRUE

Move(f) ==
  /\ slot' = [slot EXCEPT ![f] = TRUE]
  /\ btn' = TRUE
  /\ UNCHANGED touch_count

ReadCoordinate ==
  /\ ReadOne
  /\ read_event_count < MAX_EVENT_COUNT
  /\ NextKind = "coordinate"
  /\ LET f == Head(stack).id
         a == Head(stack).action
     IN  /\ \/ a = "Release" /\ Release(f)
            \/ a = "Press" /\ Press(f)
            \/ a = "Move" /\ Move(f)
         /\ coord' = [coord EXCEPT ![f] = a]
  /\ dirty' = TRUE
  /\ stack' = Rest
  /\ read_event_count' = read_event_count + 1
  /\ UNCHANGED <<irq_thread, faults, view>>

sec_ts_read_event ==
  \/ ReadFails \/ ReadTooMany \/ ReadStatus \/ ReadBoot \/ ReadIgnored
  \/ ReadCoordinate

-----------------------------------------------------------------------------
(* run_force_calibration and sec_ts_selftest_open.                         *)

\* run_force_calibration refuses while a finger is counted; the check is made
\* before the interrupt is masked.  The selftest makes none.
OpBegin(name) ==
  /\ op[name] = "idle"
  /\ name = "calibrate" => touch_count = 0
  /\ op' = [op EXCEPT ![name] = "checked"]
  /\ UNCHANGED <<sensor, report, handler, fw_workdone, calls, faults, view>>

\* disable_irq waits for a running handler.
OpMask(name) ==
  /\ op[name] = "checked"
  /\ irq_thread = "idle"
  /\ op' = [op EXCEPT ![name] = "masked"]
  /\ UNCHANGED <<sensor, report, handler, fw_workdone, calls, faults, view>>

\* The command that makes the sensor work, or its failure.
OpCommand(name) ==
  /\ op[name] = "masked"
  /\ \/ op' = [op EXCEPT ![name] = "waiting"] /\ UNCHANGED faults
     \/ op' = [op EXCEPT ![name] = "unmask"] /\ BusFault
  /\ UNCHANGED <<sensor, report, handler, fw_workdone, calls, view>>

\* sec_ts_wait_for_ready reads events until the acknowledgement; whatever else
\* it reads, touches, boot announcements and the other operation's
\* acknowledgement included, is gone.  A calibration goes on to three calls of
\* get_tsp_nvm_data, or to five when the sensor was never calibrated.
OpWaitRead(name) ==
  /\ op[name] = "waiting"
  /\ stack # <<>>
  /\ stack' = Rest
  /\ \/ /\ NextKind = Ack[name]
        /\ \/ /\ name = "calibrate"
              /\ op' = [op EXCEPT ![name] = "nvm"]
              /\ calls' \in {3, 5}
           \/ /\ name = "selftest"
              /\ op' = [op EXCEPT ![name] = "reset"]
              /\ UNCHANGED calls
        /\ UNCHANGED view
     \/ /\ NextKind # Ack[name]
        /\ view' = IF NextKind \in {"coordinate", "boot"}
                   THEN "lost" ELSE view
        /\ UNCHANGED operations
  /\ UNCHANGED <<sensing, down, report, handler, fw_workdone, faults>>

\* Mutant: the failed operation is retried without end.
OpWaitRetries(name) ==
  /\ op[name] = "waiting"
  /\ op' = [op EXCEPT ![name] = "masked"]
  /\ UNCHANGED <<sensor, report, handler, fw_workdone, calls, faults, view>>

\* The wait ends without the acknowledgement: a failed read or "Time Over".
OpWaitFails(name) ==
  /\ op[name] = "waiting"
  /\ op' = [op EXCEPT ![name] = "unmask"]
  /\ UNCHANGED <<sensor, report, handler, fw_workdone, calls, faults, view>>

\* SENSE_ON after n failed transfers: when it fails as well, sensing stays off.
SenseOn(off, n) ==
  \/ sensing' = TRUE /\ BusFaults(n)
  \/ sensing' = off /\ BusFaults(n + 1)

NvmCall ==
  /\ op["calibrate"] = "nvm"
  /\ calls' = calls - 1
  /\ op' = [op EXCEPT !["calibrate"] = IF calls = 1 THEN "unmask" ELSE "nvm"]
  /\ UNCHANGED <<handler, fw_workdone>>

\* Mutant: the events are not cleared with the contacts.
NvmKeepsEvents ==
  /\ NvmCall
  /\ down' = {}
  /\ sec_ts_release_all_finger
  /\ view' = "synced"
  /\ SenseOn(FALSE, 0)
  /\ UNCHANGED stack

\* One get_tsp_nvm_data: SENSE_OFF, CLEAR_EVENT_STACK, release all, the NVM
\* transfer, SENSE_ON; the first failure jumps to SENSE_ON.
get_tsp_nvm_data ==
  /\ NvmCall
  /\ \/ \* the stack is cleared; whether the NVM transfer works is no matter
        /\ down' = {}
        /\ stack' = <<>>
        /\ sec_ts_release_all_finger
        /\ view' = "synced"
        /\ SenseOn(FALSE, 0)
     \/ \* CLEAR_EVENT_STACK failed: the sensor forgot its fingers, no release
        /\ down' = {}
        /\ view' = IF down = {} THEN view ELSE "lost"
        /\ UNCHANGED <<stack, report>>
        /\ SenseOn(FALSE, 1)
     \/ \* SENSE_OFF failed
        /\ UNCHANGED <<down, stack, report, view>>
        /\ SenseOn(sensing, 1)

\* The selftest ends with SW_RESET, which may not reach the sensor.
sec_ts_sw_reset ==
  /\ op["selftest"] = "reset"
  /\ op' = [op EXCEPT !["selftest"] = "unmask"]
  /\ \/ Reboot /\ UNCHANGED faults
     \/ BusFault /\ UNCHANGED <<sensor, view>>
  /\ UNCHANGED <<report, handler, fw_workdone, calls>>

OpUnmask(name) ==
  /\ op[name] = "unmask"
  /\ op' = [op EXCEPT ![name] = "idle"]
  /\ UNCHANGED <<sensor, report, handler, fw_workdone, calls, faults, view>>

Operation ==
  \/ \E name \in OpNames :
       \/ OpBegin(name) \/ OpMask(name) \/ OpCommand(name) \/ OpWaitRead(name)
       \/ OpWaitFails(name) \/ OpUnmask(name)
  \/ get_tsp_nvm_data \/ sec_ts_sw_reset

-----------------------------------------------------------------------------
Sensor ==
  \/ \E f \in Fingers : FingerDown(f) \/ FingerMove(f) \/ FingerUp(f)
  \/ \E kind \in {"status", "ignored"} : SensorSignal(kind)
  \/ \E name \in OpNames : op[name] = "waiting" /\ SensorSignal(Ack[name])
  \/ WatchdogReset

Next == Sensor \/ sec_ts_irq_thread \/ sec_ts_read_event \/ Operation

\* The kernel lets a running handler and a running system call finish.  The
\* line is level triggered, so enable_irq delivers a pending interrupt at once,
\* before the next disable_irq can mask it: strong fairness of the thread's
\* start.  disable_irq raises the depth first and then waits for the handler,
\* which cannot start again: strong fairness of an operation that has begun.
\* Nothing obliges fingers or users to act.
OpProgress(name) ==
  \/ OpMask(name) \/ OpCommand(name) \/ OpWaitFails(name) \/ OpUnmask(name)
  \/ name = "calibrate" /\ get_tsp_nvm_data
  \/ name = "selftest" /\ sec_ts_sw_reset
Fairness ==
  /\ SF_vars(sec_ts_irq_thread)
  /\ WF_vars(sec_ts_read_event)
  /\ \A name \in OpNames : SF_vars(OpProgress(name))

Spec == Init /\ [][Next]_vars
FairSpec == Spec /\ Fairness
-----------------------------------------------------------------------------
(* Properties.                                                             *)

\* A slot is shown as touching exactly when the last coordinate the driver
\* kept for it is a press or a move: what sec_ts_release_all_finger relies on
\* to know which contacts it ends.  Holds whatever was lost.
SlotsFollowCoord ==
  \A f \in Fingers : slot[f] <=> coord[f] \in {"Press", "Move"}

\* BTN_TOUCH is never up while the driver counts a finger.
CountedFingerHoldsButton == touch_count > 0 => btn

\* While no event was lost, ts->touch_count is the number of slots shown as
\* touching: the count is what the code compares with zero to drop BTN_TOUCH
\* and to refuse a calibration.
CountMatchesSlots ==
  view = "synced" => touch_count = Cardinality({f \in Fingers : slot[f]})

\* While no event was lost, BTN_TOUCH is down exactly when a slot is.
ButtonMatchesSlots ==
  view = "synced" => (btn <=> \E f \in Fingers : slot[f])

\* What userspace is told of BTN_TOUCH follows the fingers: exactly while no
\* event was lost, and down for every counted finger whatever was lost.
ButtonFollowsFingers == CountedFingerHoldsButton /\ ButtonMatchesSlots

\* Position k of s is an event of f / none in i..j is / what event k leaves
\* shown / event k continues a finger shown as "on".
Touches(s, k, f) == s[k].kind = "coordinate" /\ s[k].id = f
Quiet(s, i, j, f) == \A k \in i..j : ~Touches(s, k, f)
On(s, k) == s[k].action # "Release"
Fits(s, on, k) == (s[k].action = "Press") <=> ~on

\* The events of f in s take it from shown to held: it is pressed when up,
\* moved and released when down.
Leads(s, f, shown, held) ==
  /\ \A k \in 1..Len(s) : Touches(s, k, f) =>
       /\ Quiet(s, 1, k - 1, f) => Fits(s, shown, k)
       /\ \A j \in 1..(k - 1) :
            Touches(s, j, f) /\ Quiet(s, j + 1, k - 1, f) => Fits(s, On(s, j), k)
  /\ Quiet(s, 1, Len(s), f) => (held <=> shown)
  /\ \A j \in 1..Len(s) :
       Touches(s, j, f) /\ Quiet(s, j + 1, Len(s), f) => (held <=> On(s, j))

\* What the slot of f shows when the first pending event of f is handled.
Shown(f) == view = "synced" /\ slot[f]

\* Unless events were lost, the pending events take what the driver shows to
\* what the sensor tracks, finger by finger: sec_ts_read_event neither skips,
\* repeats nor invents a contact, however it interleaves with the sensor, the
\* calibration and the selftest.
PendingEventsLeadToSensor ==
  view # "lost" => \A f \in Fingers : Leads(stack, f, Shown(f), f \in down)

\* With the stack drained and nothing lost, the slots are the fingers.
DrainedSlotsAreFingers ==
  view = "synced" /\ stack = <<>> => {f \in Fingers : slot[f]} = down

\* A reset is announced by the first pending event until the handler reads
\* it; without one pending the driver and the sensor agree or events were lost.
BootComesFirst ==
  /\ view = "resetting" => /\ fw_workdone
                           /\ stack # <<>>
                           /\ stack[1].kind = "boot"
  /\ view # "lost" => \A k \in 1..Len(stack) :
                        stack[k].kind = "boot" => k = 1 /\ view = "resetting"

\* get_tsp_nvm_data is entered with a call left to make.
OpProceeds == op["calibrate"] = "nvm" => calls \in 1..5

\* The inductive invariant.
IInv ==
  /\ TypeOK /\ OpProceeds
  /\ SlotsFollowCoord /\ CountedFingerHoldsButton
  /\ CountMatchesSlots /\ ButtonMatchesSlots
  /\ PendingEventsLeadToSensor /\ BootComesFirst

\* An operation that masks the interrupt lets go of it, whichever bus transfer
\* fails and whatever the other operation takes from the event stack.
InterruptComesBack ==
  \A name \in OpNames : op[name] \notin {"idle", "checked"} ~> op[name] = "idle"

\* Users may overlap calibrations and selftests without end, and then the
\* interrupt is masked without end.
UsersPause == []<>~Masked

\* When the last finger leaves and nothing is lost, every slot is eventually
\* shown as lifted.
LiftedFingersAreReported ==
  UsersPause => ((view = "synced" /\ down = {}) ~>
                   (view # "synced" \/ down # {} \/ \A f \in Fingers : ~slot[f]))

\* After a reset of the sensor every contact it forgot is eventually lifted.
ResetLiftsContacts ==
  UsersPause => (view = "resetting" ~>
                   (view = "lost" \/ \A f \in Fingers : ~slot[f]))
=============================================================================
