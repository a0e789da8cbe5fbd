------------------------------ MODULE SecTsBus ------------------------------
(***************************************************************************)
(* The transfer functions of sec_ts_main.c, sec_ts_i2c_write, _read,       *)
(* _read_bulk, _write_burst and _probe_read, called at once by the         *)
(* interrupt handler, by the debug file regread, which keeps the sensor to *)
(* itself over several calls, and by anybody else (Others), while          *)
(* power_status is switched.                                               *)
(*                                                                         *)
(* A transfer that fails may have reached the sensor: only its             *)
(* acknowledgement is known to be missing.  Registers change by writes     *)
(* only.  POR_AFTER_I2C_RETRY is not defined.                              *)
(***************************************************************************)
EXTENDS Integers, FiniteSets

CONSTANTS
  Files,         \* calls of sec_ts_regread_show
  Others,        \* threads that take neither device_mutex nor the interrupt
  Registers, Values, NoValue,
  OtherRequests, \* the calls of Others
  Events,        \* the register the interrupt handler reads
  lv1cmd,        \* the register the file regread was told to read
  RetryCnt,      \* SEC_TS_I2C_RETRY_CNT
  Chunks         \* parts a file's data is transferred in

Handler == "irq"
Callers == Files \union Others \union {Handler}
Free == "free"

Requests ==
  [op : {"write", "write_burst"}, reg : Registers, val : Values]
    \union [op : {"read", "probe_read"}, reg : Registers]
    \union {[op |-> "read_bulk"]}

ASSUME BusAssumption ==
  /\ RetryCnt \in Nat \ {0} /\ Chunks \in Nat \ {0}
  /\ Files \intersect Others = {}
  /\ {"irq", "free"} \intersect (Files \union Others) = {}
  /\ NoValue \notin Values /\ {Events, lv1cmd} \subseteq Registers
  /\ OtherRequests \subseteq Requests

VARIABLES
  power_status,   \* ts->power_status is SEC_TS_STATE_POWER_ON
  i2c_mutex,      \* holder of ts->i2c_mutex
  device_mutex,   \* holder of ts->device_mutex
  regs, pointer,  \* the sensor: content, and the register it was addressed at
  request,        \* the call of each caller, or Nothing
  pc,             \* its step
  retry,          \* its count of failed transfers
  answer,         \* its data
  task,           \* step of each file
  chunk,          \* the part each file is at
  acted,          \* auxiliary: the call has acted on the sensor
  addresser,      \* auxiliary: who addressed the sensor last
  foreign         \* auxiliary: a file has freed device_mutex it did not hold

sensor == <<regs, pointer, addresser>>
calls == <<request, pc, retry, answer, acted>>
files == <<device_mutex, task, chunk, foreign>>
vars == <<power_status, i2c_mutex, sensor, calls, files>>

Nothing == [op |-> "nothing"]
Addresses(c) == request[c].op \in {"read", "probe_read"}
Writes(c) == request[c].op \in {"write", "write_burst"}
TestsPower(r) == r.op \in {"write", "read"}

Steps == {"idle", "lock", "address", "data", "done", "failed"}
Locked == {"address", "data", "done", "failed"}
Tasks == {"idle", "lock", "reading", "unlock", "unmask"}

Init ==
  /\ power_status \in BOOLEAN
  /\ i2c_mutex = Free /\ device_mutex = Free
  /\ regs \in [Registers -> Values]
  /\ pointer \in Registers
  /\ request = [c \in Callers |-> Nothing]
  /\ pc = [c \in Callers |-> "idle"]
  /\ retry = [c \in Callers |-> 0]
  /\ answer = [c \in Callers |-> NoValue]
  /\ task = [f \in Files |-> "idle"]
  /\ chunk = [f \in Files |-> 0]
  /\ acted = [c \in Callers |-> FALSE]
  /\ addresser = Handler
  /\ foreign = FALSE

-----------------------------------------------------------------------------
(* One call.                                                               *)

Goes(c, from, to) ==
  /\ pc[c] = from
  /\ pc' = [pc EXCEPT ![c] = to]

\* With the power off the tested calls fail before they take the mutex.
Refuses(r) == TestsPower(r) /\ ~power_status

Begin(c, r) ==
  /\ ~Refuses(r)
  /\ Goes(c, "idle", "lock")
  /\ request' = [request EXCEPT ![c] = r]
  /\ UNCHANGED <<power_status, i2c_mutex, sensor, retry, answer, acted>>

Lock(c) ==
  /\ Goes(c, "lock", IF Addresses(c) THEN "address" ELSE "data")
  /\ i2c_mutex = Free
  /\ i2c_mutex' = c
  /\ UNCHANGED <<power_status, sensor, request, retry, answer, acted, files>>

\* The sensor takes the address, and the data of a write.
Reaches(c) ==
  /\ pointer' = request[c].reg
  /\ addresser' = c
  /\ regs' = IF Writes(c) THEN [regs EXCEPT ![request[c].reg] = request[c].val] ELSE regs
  /\ acted' = [acted EXCEPT ![c] = @ \/ Writes(c)]

\* An address or a write is acknowledged.
Sends(c) ==
  /\ \/ Addresses(c) /\ Goes(c, "address", "data") /\ retry' = [retry EXCEPT ![c] = 0]
     \/ Writes(c) /\ Goes(c, "data", "done") /\ UNCHANGED retry
  /\ Reaches(c)
  /\ UNCHANGED <<power_status, i2c_mutex, request, answer, files>>

Receives(c) ==
  /\ ~Writes(c) /\ Goes(c, "data", "done")
  /\ answer' = [answer EXCEPT ![c] = regs[pointer]]
  /\ acted' = [acted EXCEPT ![c] = TRUE]
  /\ UNCHANGED <<power_status, i2c_mutex, sensor, request, retry, files>>

\* Mutant: the mutex is dropped for the delay before the next attempt.
FailsUnlocked(c) ==
  /\ pc[c] \in {"address", "data"}
  /\ \/ (Writes(c) \/ pc[c] = "address") /\ Reaches(c)
     \/ UNCHANGED <<sensor, acted>>
  /\ retry' = [retry EXCEPT ![c] = @ + 1]
  /\ IF ~power_status \/ retry[c] + 1 = RetryCnt
     THEN pc' = [pc EXCEPT ![c] = "failed"] /\ UNCHANGED i2c_mutex
     ELSE pc' = [pc EXCEPT ![c] = "lock"] /\ i2c_mutex' = Free
  /\ UNCHANGED <<power_status, request, answer, files>>

\* A transfer fails: no further one with the power off or after RetryCnt.
Fails(c) ==
  /\ pc[c] \in {"address", "data"}
  /\ \/ (Writes(c) \/ pc[c] = "address") /\ Reaches(c)
     \/ UNCHANGED <<sensor, acted>>
  /\ retry' = [retry EXCEPT ![c] = @ + 1]
  /\ pc' = IF ~power_status \/ retry[c] + 1 = RetryCnt
           THEN [pc EXCEPT ![c] = "failed"] ELSE pc
  /\ UNCHANGED <<power_status, i2c_mutex, request, answer, files>>

Transfer(c) == Sends(c) \/ Receives(c) \/ Fails(c)

\* mutex_unlock and the result; the caller has what was read.
Ends(c) ==
  /\ pc' = [pc EXCEPT ![c] = "idle"]
  /\ request' = [request EXCEPT ![c] = Nothing]
  /\ retry' = [retry EXCEPT ![c] = 0]
  /\ answer' = [answer EXCEPT ![c] = NoValue]
  /\ acted' = [acted EXCEPT ![c] = FALSE]
  /\ UNCHANGED <<power_status, sensor>>

\* Mutant: the way out with the power off forgets the mutex.
ReturnsLocked(c) ==
  /\ pc[c] \in {"done", "failed"}
  /\ i2c_mutex' = IF pc[c] = "failed" /\ ~power_status THEN i2c_mutex ELSE Free
  /\ Ends(c)

Returns(c) ==
  /\ pc[c] \in {"done", "failed"}
  /\ i2c_mutex' = Free
  /\ Ends(c)

-----------------------------------------------------------------------------
(* The callers.                                                            *)

Moves(t, from, to) ==
  /\ task[t] = from
  /\ task' = [task EXCEPT ![t] = to]

IrqMasked == \E f \in Files : task[f] # "idle"

\* Mutant: disable_irq_nosync.
ReadMasksNoWait(f) ==
  /\ power_status
  /\ Moves(f, "idle", "lock") \/ Moves(f, "idle", "unlock")
  /\ UNCHANGED <<power_status, i2c_mutex, sensor, calls, device_mutex, chunk, foreign>>

\* sec_ts_regread_show: disable_irq waits for a handler that runs; without
\* memory for the buffer it goes on at malloc_err.
ReadMasks(f) ==
  /\ power_status
  /\ pc[Handler] = "idle"
  /\ Moves(f, "idle", "lock") \/ Moves(f, "idle", "unlock")
  /\ UNCHANGED <<power_status, i2c_mutex, sensor, calls, device_mutex, chunk, foreign>>

ReadLocks(f) ==
  /\ Moves(f, "lock", "reading")
  /\ device_mutex = Free
  /\ device_mutex' = f
  /\ chunk' = [chunk EXCEPT ![f] = 1]
  /\ UNCHANGED <<power_status, i2c_mutex, sensor, calls, foreign>>

\* The first part is read at its address, the others from where that ended.
Part(f) ==
  IF chunk[f] = 1 THEN [op |-> "read", reg |-> lv1cmd] ELSE [op |-> "read_bulk"]

ReadsPart(f) ==
  /\ task[f] = "reading"
  /\ Begin(f, Part(f))
  /\ UNCHANGED files

ReadIsOver(f) ==
  /\ Moves(f, "reading", "unlock")
  /\ chunk' = [chunk EXCEPT ![f] = 0]
  /\ UNCHANGED <<device_mutex, foreign>>

ReadRefused(f) ==
  /\ pc[f] = "idle" /\ Refuses(Part(f))
  /\ ReadIsOver(f)
  /\ UNCHANGED <<power_status, i2c_mutex, sensor, calls>>

PartRead(f) ==
  /\ Returns(f)
  /\ \/ /\ pc[f] = "done" /\ chunk[f] < Chunks
        /\ chunk' = [chunk EXCEPT ![f] = @ + 1]
        /\ UNCHANGED <<device_mutex, task, foreign>>
     \/ /\ pc[f] = "failed" \/ chunk[f] = Chunks
        /\ ReadIsOver(f)

\* The mutex is freed whoever holds it.
ReadUnlocks(f) ==
  /\ Moves(f, "unlock", "unmask")
  /\ foreign' = (foreign \/ device_mutex \notin {f, Free})
  /\ device_mutex' = Free
  /\ UNCHANGED <<power_status, i2c_mutex, sensor, calls, chunk>>

ReadUnmasks(f) ==
  /\ Moves(f, "unmask", "idle")
  /\ UNCHANGED <<power_status, i2c_mutex, sensor, calls, device_mutex, chunk, foreign>>

sec_ts_regread_show(f) ==
  \/ ReadMasks(f) \/ ReadLocks(f) \/ ReadsPart(f) \/ ReadRefused(f)
  \/ PartRead(f) \/ ReadUnlocks(f) \/ ReadUnmasks(f)

\* The interrupt thread reads at an address of its own; each of its reads is
\* a run of the handler here, so that a mask may even come between two.
HandlerReads ==
  /\ ~IrqMasked
  /\ Begin(Handler, [op |-> "read", reg |-> Events])
  /\ UNCHANGED files
HandlerReturns == Returns(Handler) /\ UNCHANGED files
sec_ts_irq_thread == HandlerReads \/ HandlerReturns

\* Commands, the work of probe and the selftest make calls of every kind.
OtherCalls(o) == (\E r \in OtherRequests : Begin(o, r)) /\ UNCHANGED files
OtherReturns(o) == Returns(o) /\ UNCHANGED files

\* power_status is switched by start, stop and the power commands, which do
\* not take i2c_mutex.
SwitchPower ==
  /\ power_status' = ~power_status
  /\ UNCHANGED <<i2c_mutex, sensor, request, pc, retry, answer, acted, files>>

Next ==
  \/ \E c \in Callers : Lock(c) \/ Transfer(c)
  \/ \E f \in Files : sec_ts_regread_show(f)
  \/ \E o \in Others : OtherCalls(o) \/ OtherReturns(o)
  \/ sec_ts_irq_thread
  \/ SwitchPower

\* The thread that holds i2c_mutex runs on, and the mutex is handed to those
\* that wait for it.
HolderProceeds ==
  \/ \E c \in Callers : Transfer(c)
  \/ \E f \in Files : PartRead(f)
  \/ \E o \in Others : OtherReturns(o)
  \/ HandlerReturns
Fairness == WF_vars(HolderProceeds) /\ \A c \in Callers : SF_vars(Lock(c))

Spec == Init /\ [][Next]_vars
FairSpec == Spec /\ Fairness

-----------------------------------------------------------------------------
TypeOK ==
  /\ power_status \in BOOLEAN
  /\ i2c_mutex \in Callers \union {Free}
  /\ device_mutex \in Files \union {Free}
  /\ regs \in [Registers -> Values]
  /\ pointer \in Registers
  /\ request \in [Callers -> Requests \union {Nothing}]
  /\ pc \in [Callers -> Steps]
  /\ retry \in [Callers -> 0 .. RetryCnt]
  /\ answer \in [Callers -> Values \union {NoValue}]
  /\ task \in [Files -> Tasks]
  /\ chunk \in [Files -> 0 .. Chunks]
  /\ acted \in [Callers -> BOOLEAN]
  /\ addresser \in Callers
  /\ foreign \in BOOLEAN

\* i2c_mutex is held by the caller that transfers, and by no other.
MutexIsHeld == \A c \in Callers : pc[c] \in Locked <=> i2c_mutex = c

\* What each step of a call has done so far: the address stands between the
\* two transfers of a read, a write that reached the sensor is still there.
CallIsAt(c) ==
  /\ request[c] = Nothing <=> pc[c] = "idle"
  /\ pc[c] = "address" => Addresses(c)
  /\ pc[c] \in {"idle", "lock", "address", "data"} => retry[c] < RetryCnt
  /\ pc[c] \in {"data", "done"} /\ Addresses(c) =>
       pointer = request[c].reg /\ addresser = c
  /\ pc[c] \in {"data", "failed"} /\ acted[c] =>
       /\ Writes(c)
       /\ pointer = request[c].reg
       /\ regs[request[c].reg] = request[c].val
  /\ pc[c] = "done" => acted[c]
  /\ pc[c] \in {"idle", "lock", "address"} => ~acted[c]
  /\ pc[c] # "done" => answer[c] = NoValue

\* The files call with the interrupt masked and, unless another file's way
\* out freed it, under device_mutex; the handler runs without masks only.
FilesAreAlone ==
  /\ IrqMasked => pc[Handler] = "idle"
  /\ \A f \in Files :
       /\ task[f] = "reading" => foreign \/ device_mutex = f
       /\ pc[f] # "idle" => task[f] = "reading" /\ request[f] = Part(f)

\* The parts of one read of the file regread come from the register it asked
\* for, unless a thread that uses no device_mutex addressed the sensor in
\* between, or the mutex was freed under the file.
OnlyOthersIntrude ==
  \A f \in Files :
    task[f] = "reading" /\ chunk[f] > 1 /\ ~foreign => addresser \in Others \union {f}

\* The inductive invariant.
IInv ==
  /\ TypeOK /\ MutexIsHeld /\ \A c \in Callers : CallIsAt(c)
  /\ FilesAreAlone /\ OnlyOthersIntrude

\* Every call acts on the registers at one instant, however its transfers
\* fail, are repeated and mix with those of others.
AbstractRequest(r) ==
  CASE r.op = "nothing" -> [kind |-> "nothing"]
    [] r.op = "read_bulk" -> [kind |-> "continue"]
    [] r.op \in {"read", "probe_read"} -> [kind |-> "read", reg |-> r.reg]
    [] OTHER -> [kind |-> "write", reg |-> r.reg, val |-> r.val]

Access == INSTANCE RegisterAccess WITH
  request <- [c \in Callers |-> AbstractRequest(request[c])]
CallsActAtOnce == Access!Spec

\* Every call ends, although files, handler and others compete for the mutex
\* and the power may go at any time.
CallsEnd == \A c \in Callers : pc[c] # "idle" ~> pc[c] = "idle"

-----------------------------------------------------------------------------
(* What CallsEnd rests on besides fairness.                                *)

\* Who holds device_mutex waits for i2c_mutex at most, who holds i2c_mutex for
\* neither, nor for the handler; and the handler, which disable_irq waits for,
\* holds no device_mutex.
WaitsAreOrdered ==
  /\ device_mutex # Free => task[device_mutex] \in {"reading", "unlock"}
  /\ i2c_mutex # Free =>
       /\ pc[i2c_mutex] \in Locked
       /\ i2c_mutex \in Files => task[i2c_mutex] = "reading"

\* The steps behind a transfer that ended one way or the other.
After(s) ==
  CASE s = "address" -> {"data", "failed"}
    [] s = "data" -> {"done", "failed"}
    [] OTHER -> {"idle"}

\* A call that holds the mutex gets nearer to its end whenever its state
\* changes: it goes on, or has one attempt less at this transfer.  Nobody else
\* changes it.
CallsAdvance ==
  [][\A c \in Callers : pc[c] \in Locked =>
       \/ UNCHANGED <<pc[c], retry[c]>>
       \/ pc'[c] \in After(pc[c])
       \/ pc'[c] = pc[c] /\ retry'[c] = retry[c] + 1 /\ retry'[c] < RetryCnt]_vars
=============================================================================
