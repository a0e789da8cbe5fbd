------------------------------ MODULE SecTsIrq ------------------------------
(***************************************************************************)
(* Who masks the interrupt of the sec-ts driver and who lifts the mask:    *)
(* the work queued in probe, the factory commands module_off_master and    *)
(* module_on_master, the operations that mask the interrupt around a       *)
(* transfer, the two debug files of sec_ts_main.c and shutdown.  They      *)
(* share the depth of disable_irq and power_status, and use two different  *)
(* mutexes: ts->lock and ts->device_mutex.                                 *)
(*                                                                         *)
(* Calls of disable_irq nest (depth); its wait for a running handler ends  *)
(* and is left out.  A mutex_unlock by a thread that does not hold the     *)
(* mutex frees it all the same, as the kernel's does.                      *)
(***************************************************************************)
EXTENDS Integers, FiniteSets

CONSTANT
  Users       \* system calls in progress at a time

ASSUME UsersAssumption ==
  /\ IsFiniteSet(Users)
  /\ Users \intersect {"work", "shutdown", "free"} = {}

Threads == Users \union {"work", "shutdown"}
Free == "free"

VARIABLES
  power_status,  \* ts->power_status is SEC_TS_STATE_POWER_ON
  depth,         \* calls of disable_irq not undone yet
  lock,          \* holder of ts->lock
  device_mutex,  \* holder of ts->device_mutex
  pc             \* step of each thread

mutexes == <<lock, device_mutex>>
vars == <<power_status, depth, mutexes, pc>>

WorkSteps == {"queued", "power", "unlock", "enable", "done"}
ShutdownSteps == {"up", "test", "mask_off", "store", "unlock_off", "down"}
UserSteps ==
  {"idle", "off", "off_mask", "off_store", "on", "on_enable", "on_store",
   "mask", "masked",
   "reg_store", "reg_mask", "reg_masked", "reg_unlock",
   "regread", "regread_masked", "regread_locked", "regread_unlock",
   "regread_unmask"}

TypeOK ==
  /\ power_status \in BOOLEAN
  /\ depth \in Nat
  /\ lock \in Threads \union {Free}
  /\ device_mutex \in Threads \union {Free}
  /\ pc \in [Threads -> WorkSteps \union ShutdownSteps \union UserSteps]

\* sec_ts_probe has masked the interrupt it requested, made its files and
\* queued the work.
Init ==
  /\ power_status = TRUE
  /\ depth = 1
  /\ lock = Free
  /\ device_mutex = Free
  /\ pc = [t \in Threads |-> CASE t = "work" -> "queued"
                               [] t = "shutdown" -> "up"
                               [] OTHER -> "idle"]

-----------------------------------------------------------------------------
Goes(t, from, to) ==
  /\ pc[t] = from
  /\ pc' = [pc EXCEPT ![t] = to]

disable_irq == depth' = depth + 1
enable_irq == depth' = depth - 1

LockDevice(t) ==
  /\ device_mutex = Free
  /\ device_mutex' = t
UnlockDevice == device_mutex' = Free

-----------------------------------------------------------------------------
(* sec_ts_fwupdate_work: power on under device_mutex, the update, unlock,  *)
(* enable_irq, on every path.                                              *)

WorkLocks ==
  /\ Goes("work", "queued", "power")
  /\ LockDevice("work")
  /\ UNCHANGED <<power_status, depth, lock>>

WorkPowersOn ==
  /\ Goes("work", "power", "unlock")
  /\ power_status' = TRUE
  /\ UNCHANGED <<depth, mutexes>>

WorkUnlocks ==
  /\ Goes("work", "unlock", "enable")
  /\ UnlockDevice
  /\ UNCHANGED <<power_status, depth, lock>>

WorkEnables ==
  /\ Goes("work", "enable", "done")
  /\ enable_irq
  /\ UNCHANGED <<power_status, mutexes>>

sec_ts_fwupdate_work == WorkLocks \/ WorkPowersOn \/ WorkUnlocks \/ WorkEnables

-----------------------------------------------------------------------------
(* sec_ts_shutdown: sec_ts_stop_device under device_mutex.                 *)

StopLocks ==
  /\ Goes("shutdown", "up", "test")
  /\ LockDevice("shutdown")
  /\ UNCHANGED <<power_status, depth, lock>>

StopTests ==
  /\ \/ power_status /\ Goes("shutdown", "test", "mask_off")
     \/ ~power_status /\ Goes("shutdown", "test", "unlock_off")
  /\ UNCHANGED <<power_status, depth, mutexes>>

\* Mutant: the interrupt is not masked.
StopMasksNot ==
  /\ Goes("shutdown", "mask_off", "store")
  /\ UNCHANGED <<power_status, depth, mutexes>>

StopMasks ==
  /\ Goes("shutdown", "mask_off", "store")
  /\ disable_irq
  /\ UNCHANGED <<power_status, mutexes>>

StopStores ==
  /\ Goes("shutdown", "store", "unlock_off")
  /\ power_status' = FALSE
  /\ UNCHANGED <<depth, mutexes>>

StopUnlocks ==
  /\ Goes("shutdown", "unlock_off", "down")
  /\ UnlockDevice
  /\ UNCHANGED <<power_status, depth, lock>>

sec_ts_stop_device == 
  StopLocks \/ StopTests \/ StopMasks \/ StopStores \/ StopUnlocks

-----------------------------------------------------------------------------
(* The factory commands.  Each test and store is under ts->lock.           *)

\* module_off_master: masks and turns off what is on.
OffTests(u) ==
  /\ lock = Free
  /\ \/ power_status /\ Goes(u, "off", "off_mask") /\ lock' = u
     \/ ~power_status /\ Goes(u, "off", "idle") /\ UNCHANGED lock
  /\ UNCHANGED <<power_status, depth, device_mutex>>

OffMasks(u) ==
  /\ Goes(u, "off_mask", "off_store")
  /\ disable_irq
  /\ UNCHANGED <<power_status, mutexes>>

OffStores(u) ==
  /\ Goes(u, "off_store", "idle")
  /\ power_status' = FALSE
  /\ lock' = Free
  /\ UNCHANGED <<depth, device_mutex>>

\* Mutant: module_on_master tests power_status before it takes ts->lock.
OnTestsUnlocked(u) ==
  /\ \/ ~power_status /\ Goes(u, "on", "on_enable") /\ lock' = u
     \/ power_status /\ Goes(u, "on", "idle") /\ UNCHANGED lock
  /\ UNCHANGED <<power_status, depth, device_mutex>>

\* module_on_master: lifts the mask and turns on what is off.
OnTests(u) ==
  /\ lock = Free
  /\ \/ ~power_status /\ Goes(u, "on", "on_enable") /\ lock' = u
     \/ power_status /\ Goes(u, "on", "idle") /\ UNCHANGED lock
  /\ UNCHANGED <<power_status, depth, device_mutex>>

OnEnables(u) ==
  /\ Goes(u, "on_enable", "on_store")
  /\ enable_irq
  /\ UNCHANGED <<power_status, mutexes>>

OnStores(u) ==
  /\ Goes(u, "on_store", "idle")
  /\ power_status' = TRUE
  /\ lock' = Free
  /\ UNCHANGED <<depth, device_mutex>>

\* run_force_calibration, sec_ts_read_frame, sec_ts_firmware_update_on_probe
\* and sec_ts_selftest_open: disable_irq, work, enable_irq, no mutex.
Mask(u) ==
  /\ Goes(u, "mask", "masked")
  /\ disable_irq
  /\ UNCHANGED <<power_status, mutexes>>

Unmask(u) ==
  /\ Goes(u, "masked", "idle")
  /\ enable_irq
  /\ UNCHANGED <<power_status, mutexes>>

-----------------------------------------------------------------------------
(* The debug files.  power_status is tested before the mutex is taken.     *)

\* sec_ts_reg_store: mutex, mask, burst writes, unmask, unlock.
RegLocks(u) ==
  /\ Goes(u, "reg_store", "reg_mask")
  /\ LockDevice(u)
  /\ UNCHANGED <<power_status, depth, lock>>

RegMasks(u) ==
  /\ Goes(u, "reg_mask", "reg_masked")
  /\ disable_irq
  /\ UNCHANGED <<power_status, mutexes>>

\* Mutant: a failed write leaves without enable_irq.
RegForgets(u) ==
  /\ Goes(u, "reg_masked", "reg_unlock")
  /\ UNCHANGED <<power_status, depth, mutexes>>

RegUnmasks(u) ==
  /\ Goes(u, "reg_masked", "reg_unlock")
  /\ enable_irq
  /\ UNCHANGED <<power_status, mutexes>>

RegUnlocks(u) ==
  /\ Goes(u, "reg_unlock", "idle")
  /\ UnlockDevice
  /\ UNCHANGED <<power_status, depth, lock>>

\* sec_ts_regread_show: mask, buffer, mutex, reads, unlock, unmask.
ReadMasks(u) ==
  /\ Goes(u, "regread", "regread_masked")
  /\ disable_irq
  /\ UNCHANGED <<power_status, mutexes>>

\* Without memory for the buffer it goes on to the unlock.
ReadNoMemory(u) ==
  /\ Goes(u, "regread_masked", "regread_unlock")
  /\ UNCHANGED <<power_status, depth, mutexes>>

ReadLocks(u) ==
  /\ Goes(u, "regread_masked", "regread_locked")
  /\ LockDevice(u)
  /\ UNCHANGED <<power_status, depth, lock>>

\* Mutant: a failed read is tried again instead of reported.
ReadRetries(u) ==
  /\ Goes(u, "regread_locked", "regread_masked")
  /\ UnlockDevice
  /\ UNCHANGED <<power_status, depth, lock>>

Reads(u) ==
  /\ Goes(u, "regread_locked", "regread_unlock")
  /\ UNCHANGED <<power_status, depth, mutexes>>

ReadUnlocks(u) ==
  /\ Goes(u, "regread_unlock", "regread_unmask")
  /\ UnlockDevice
  /\ UNCHANGED <<power_status, depth, lock>>

ReadUnmasks(u) ==
  /\ Goes(u, "regread_unmask", "idle")
  /\ enable_irq
  /\ UNCHANGED <<power_status, mutexes>>

-----------------------------------------------------------------------------
\* A system call arrives.
Call(u) ==
  /\ \/ Goes(u, "idle", "off")
     \/ Goes(u, "idle", "on")
     \/ Goes(u, "idle", "mask")
     \/ power_status /\ Goes(u, "idle", "reg_store")
     \/ power_status /\ Goes(u, "idle", "regread")
  /\ UNCHANGED <<power_status, depth, mutexes>>

Proceed(u) ==
  \/ OffTests(u) \/ OffMasks(u) \/ OffStores(u)
  \/ OnTests(u) \/ OnEnables(u) \/ OnStores(u)
  \/ Mask(u) \/ Unmask(u)
  \/ RegLocks(u) \/ RegMasks(u) \/ RegUnmasks(u) \/ RegUnlocks(u)
  \/ ReadMasks(u) \/ ReadNoMemory(u) \/ ReadLocks(u) \/ Reads(u)
  \/ ReadUnlocks(u) \/ ReadUnmasks(u)

Next ==
  \/ sec_ts_fwupdate_work
  \/ sec_ts_stop_device
  \/ \E u \in Users : Call(u) \/ Proceed(u)

Spec == Init /\ [][Next]_vars

\* The kernel runs the work and every system call; its mutexes are handed to
\* those who wait for them: strong fairness.  Shutdown need not come, but does
\* not stop halfway.
Fairness ==
  /\ SF_vars(sec_ts_fwupdate_work)
  /\ SF_vars(StopTests \/ StopMasks \/ StopStores \/ StopUnlocks)
  /\ \A u \in Users : SF_vars(Proceed(u))
FairSpec == Spec /\ Fairness
-----------------------------------------------------------------------------
(* Properties.                                                             *)

\* Calls in progress that have masked the interrupt and not lifted the mask.
MaskedSteps ==
  {"masked", "reg_masked", "regread_masked", "regread_locked",
   "regread_unlock", "regread_unmask", "store", "off_store"}
Masking == {t \in Threads : pc[t] \in MaskedSteps}
\* The mask of whoever turned the power off is lifted by module_on_master.
TurningOn == \E u \in Users : pc[u] = "on_enable"
TurnedOn == \E u \in Users : pc[u] = "on_store"
OwedByPower == IF TurningOn \/ (~power_status /\ ~TurnedOn) THEN 1 ELSE 0
OwedByWork == IF pc["work"] = "done" THEN 0 ELSE 1
\* The masks that somebody relies on and is going to lift.
Owed == Cardinality(Masking) + OwedByWork + OwedByPower
\* Masks nobody is going to lift.
Lost == depth - Owed

\* module_off_master and module_on_master exclude each other.
LockSteps == {"off_mask", "off_store", "on_enable", "on_store"}
LockHeld == \A u \in Users : pc[u] \in LockSteps => lock = u

\* Whoever has masked the interrupt finds it masked until he lifts the mask
\* himself, however calls, work and shutdown interleave and although
\* power_status is tested and set under two different mutexes.
MaskedWhileOwed == Lost >= 0

\* The inductive invariant.
IInv == TypeOK /\ LockHeld /\ MaskedWhileOwed

Race ==
  /\ ~power_status \/ TurningOn \/ TurnedOn
  /\ WorkPowersOn \/ StopStores \/ \E u \in Users : OffStores(u)

\* A mask is lost in two ways only: the work of probe turns on what
\* module_off_master had turned off, or module_off_master and shutdown both
\* turn off.  Everywhere else whoever masks the interrupt lifts the mask.
MaskIsLostByRaceOnly ==
  [][Lost' # Lost => Lost' = Lost + 1 /\ Race]_vars

\* Everyone who waits for a mutex gets it: every call returns.
CallsReturn ==
  \A u \in Users : pc[u] # "idle" ~> pc[u] = "idle"

-----------------------------------------------------------------------------
(* What CallsReturn rests on besides fairness.                             *)

\* Steps under ts->device_mutex.  None of these, and none under ts->lock, waits
\* for a mutex.
DeviceSteps ==
  {"power", "unlock", "test", "mask_off", "store", "unlock_off",
   "reg_mask", "reg_masked", "reg_unlock", "regread_locked", "regread_unlock"}

\* Whoever holds one of the two mutexes is on his way to give it back and waits
\* for neither, although sec_ts_regread_show may free device_mutex under its
\* holder and the mutex then has another one.
HoldersGoOn ==
  /\ lock # Free => pc[lock] \in LockSteps
  /\ device_mutex # Free => pc[device_mutex] \in DeviceSteps

\* The steps a call has left.
Left ==
  [s \in UserSteps |->
     CASE s = "idle" -> 0
       [] s \in {"off_store", "on_store", "masked", "reg_unlock", "regread_unmask"} -> 1
       [] s \in {"off_mask", "on_enable", "mask", "reg_masked", "regread_unlock"} -> 2
       [] s \in {"off", "on", "reg_mask", "regread_locked"} -> 3
       [] s \in {"reg_store", "regread_masked"} -> 4
       [] s = "regread" -> 5]

\* No step takes a call back: nothing is tried again, whatever the others do.
CallsAdvance ==
  [][\A u \in Users :
       pc[u] # "idle" /\ pc'[u] # pc[u] => Left[pc'[u]] < Left[pc[u]]]_vars
=============================================================================
