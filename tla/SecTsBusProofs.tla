--------------------------- MODULE SecTsBusProofs ---------------------------
(***************************************************************************)
(* For any files, other threads, registers, values, counts of retries and  *)
(* of parts: the types, who may come between the parts of a read, that     *)
(* each call acts on the registers at one instant, that nobody holds one   *)
(* mutex and waits for another out of order, and that a call under the     *)
(* mutex gets nearer to its end.  All rests on two facts of IInv: whoever  *)
(* is between the two transfers of a read, or between two attempts, holds  *)
(* i2c_mutex (MutexIsHeld), and so what he left in the sensor is still     *)
(* there (CallIsAt).                                                       *)
(***************************************************************************)
EXTENDS SecTsBus, TLAPS

LEMMA CallerNames ==
  /\ Handler \in Callers /\ Handler \notin Files
  /\ Free \notin Callers /\ Free \notin Files
  /\ Files \subseteq Callers /\ Others \subseteq Callers
  /\ Handler \notin Others
  /\ Files \intersect Others = {}
BY BusAssumption DEF Callers, Handler, Free

LEMMA RequestShapes ==
  /\ Nothing \notin Requests
  /\ \A r \in Requests :
       /\ r.op \in {"read", "probe_read", "write", "write_burst"} => r.reg \in Registers
       /\ r.op \in {"write", "write_burst"} => r.val \in Values
       /\ r.op \in {"read", "probe_read", "write", "write_burst", "read_bulk"}
BY DEF Requests, Nothing

\* What a file and the handler ask for are requests.
LEMMA PartIsRequest ==
  /\ \A f : Part(f) \in Requests
  /\ [op |-> "read", reg |-> Events] \in Requests
BY BusAssumption DEF Part, Requests

LEMMA InitInvariant == Init => IInv
<1> SUFFICES ASSUME Init PROVE IInv
  OBVIOUS
<1> USE BusAssumption, CallerNames DEF Init
<1>1. TypeOK
  <2>1. 0 \in 0 .. RetryCnt /\ 0 \in 0 .. Chunks
    OBVIOUS
  <2>2. retry \in [Callers -> 0 .. RetryCnt] /\ chunk \in [Files -> 0 .. Chunks]
    BY <2>1
  <2>3. acted \in [Callers -> BOOLEAN] /\ foreign \in BOOLEAN
    OBVIOUS
  <2>4. /\ request \in [Callers -> Requests \union {Nothing}]
        /\ pc \in [Callers -> Steps]
        /\ answer \in [Callers -> Values \union {NoValue}]
        /\ task \in [Files -> Tasks]
    BY DEF Steps, Tasks
  <2>5. /\ power_status \in BOOLEAN
        /\ i2c_mutex \in Callers \union {Free}
        /\ device_mutex \in Files \union {Free}
        /\ regs \in [Registers -> Values]
        /\ pointer \in Registers
        /\ addresser \in Callers
    OBVIOUS
  <2> QED BY <2>2, <2>3, <2>4, <2>5 DEF TypeOK
<1>2. MutexIsHeld
  BY DEF MutexIsHeld, Locked
<1>3. ASSUME NEW c \in Callers PROVE CallIsAt(c)
  BY DEF CallIsAt
<1>4. FilesAreAlone /\ OnlyOthersIntrude
  BY DEF FilesAreAlone, IrqMasked, OnlyOthersIntrude
<1> QED BY <1>1, <1>2, <1>3, <1>4 DEF IInv

-----------------------------------------------------------------------------
(* The steps of one call, whatever its caller does at the same time.       *)

\* What a step of c leaves of the other calls.
OthersStay(c) ==
  \A d \in Callers \ {c} :
    /\ request'[d] = request[d] /\ pc'[d] = pc[d] /\ retry'[d] = retry[d]
    /\ answer'[d] = answer[d] /\ acted'[d] = acted[d]

CallTypes ==
  /\ power_status \in BOOLEAN
  /\ i2c_mutex \in Callers \union {Free}
  /\ regs \in [Registers -> Values]
  /\ pointer \in Registers
  /\ request \in [Callers -> Requests \union {Nothing}]
  /\ pc \in [Callers -> Steps]
  /\ retry \in [Callers -> 0 .. RetryCnt]
  /\ answer \in [Callers -> Values \union {NoValue}]
  /\ acted \in [Callers -> BOOLEAN]
  /\ addresser \in Callers

CallInv == CallTypes /\ MutexIsHeld /\ \A c \in Callers : CallIsAt(c)

\* A call that holds the mutex is the only one whose state speaks of the
\* sensor, so the others keep theirs when it transfers.
LEMMA OthersKeep ==
  ASSUME CallInv, NEW c \in Callers, pc[c] \in Locked, OthersStay(c)
  PROVE  \A d \in Callers \ {c} : CallIsAt(d)'
<1> SUFFICES ASSUME NEW d \in Callers \ {c} PROVE CallIsAt(d)'
  OBVIOUS
<1>1. pc[d] \notin Locked
  BY DEF CallInv, MutexIsHeld
<1>2. CallIsAt(d)
  BY DEF CallInv
<1> QED BY <1>1, <1>2 DEF OthersStay, CallIsAt, Locked, Addresses, Writes

\* The same when the sensor is left alone.
LEMMA OthersKeepSensor ==
  ASSUME CallInv, NEW c \in Callers, OthersStay(c), UNCHANGED sensor
  PROVE  \A d \in Callers \ {c} : CallIsAt(d)'
<1> SUFFICES ASSUME NEW d \in Callers \ {c} PROVE CallIsAt(d)'
  OBVIOUS
<1>1. CallIsAt(d)
  BY DEF CallInv
<1> QED BY <1>1 DEF OthersStay, CallIsAt, Addresses, Writes, sensor

LEMMA BeginStep ==
  ASSUME CallInv, NEW c \in Callers, NEW r \in Requests, Begin(c, r)
  PROVE  CallInv' /\ OthersStay(c)
<1> USE DEF Begin, Goes
<1>1. OthersStay(c)
  BY DEF OthersStay, CallInv, CallTypes
<1>2. CallTypes'
  BY DEF CallInv, CallTypes, Steps, sensor
<1>3. MutexIsHeld'
  BY DEF CallInv, CallTypes, MutexIsHeld, Locked
<1>4. CallIsAt(c)'
  <2>1. CallIsAt(c)
    BY DEF CallInv
  <2>2. request'[c] = r /\ pc'[c] = "lock" /\ pc[c] = "idle"
    BY DEF CallInv, CallTypes
  <2>3. r # Nothing
    BY RequestShapes
  <2> QED BY <2>1, <2>2, <2>3 DEF CallIsAt
<1> QED BY <1>1, <1>2, <1>3, <1>4, OthersKeepSensor DEF CallInv

LEMMA LockStep ==
  ASSUME CallInv, NEW c \in Callers, Lock(c)
  PROVE  CallInv' /\ OthersStay(c)
<1> USE DEF Lock, Goes
<1>1. OthersStay(c)
  BY DEF OthersStay, CallInv, CallTypes
<1>2. CallTypes'
  BY DEF CallInv, CallTypes, Steps, sensor
<1>3. MutexIsHeld'
  BY CallerNames DEF CallInv, CallTypes, MutexIsHeld, Locked
<1>4. CallIsAt(c)'
  <2>1. CallIsAt(c)
    BY DEF CallInv
  <2>2. /\ pc[c] = "lock"
        /\ pc'[c] = IF Addresses(c) THEN "address" ELSE "data"
        /\ acted[c] \in BOOLEAN
    BY DEF CallInv, CallTypes
  <2> QED BY <2>1, <2>2 DEF CallIsAt, Addresses, sensor
<1> QED BY <1>1, <1>2, <1>3, <1>4, OthersKeepSensor DEF CallInv

LEMMA SendsStep ==
  ASSUME CallInv, NEW c \in Callers, Sends(c)
  PROVE  CallInv' /\ OthersStay(c) /\ pc[c] \in Locked /\ addresser' = c
<1> USE DEF Sends, Goes, Reaches
<1>0. /\ CallIsAt(c) /\ pc[c] \in Locked
      /\ request[c] \in Requests
      /\ Addresses(c) \/ Writes(c)
  <2>1. CallIsAt(c) /\ pc[c] \in {"address", "data"}
    BY DEF CallInv
  <2> QED BY <2>1 DEF CallInv, CallTypes, CallIsAt, Locked
<1>1. OthersStay(c)
  BY DEF OthersStay, CallInv, CallTypes
<1>2. CallTypes'
  <2>1. request[c].reg \in Registers /\ (Writes(c) => request[c].val \in Values)
    BY <1>0, RequestShapes DEF Addresses, Writes
  <2>2. /\ regs' \in [Registers -> Values]
        /\ pointer' \in Registers
        /\ addresser' \in Callers
    BY <2>1 DEF CallInv, CallTypes
  <2>3. pc' \in [Callers -> Steps]
    BY DEF CallInv, CallTypes, Steps
  <2>4. retry' \in [Callers -> 0 .. RetryCnt]
    BY BusAssumption DEF CallInv, CallTypes
  <2>5. acted' \in [Callers -> BOOLEAN]
    BY DEF CallInv, CallTypes, Writes
  <2> QED BY <2>2, <2>3, <2>4, <2>5 DEF CallInv, CallTypes
<1>3. MutexIsHeld'
  BY DEF CallInv, CallTypes, MutexIsHeld, Locked
<1>4. CallIsAt(c)'
  <2>1. CASE Addresses(c) /\ pc[c] = "address" /\ pc'[c] = "data"
    <3>1. ~Writes(c) /\ ~acted[c] /\ acted'[c] = acted[c]
      BY <1>0, <2>1 DEF CallIsAt, Addresses, Writes, CallInv, CallTypes
    <3>2. retry'[c] = 0
      BY <2>1, <3>1 DEF CallInv, CallTypes
    <3> QED BY <1>0, <2>1, <3>1, <3>2, BusAssumption DEF CallIsAt, Addresses, Writes
  <2>2. CASE Writes(c) /\ pc[c] = "data" /\ pc'[c] = "done"
    <3>1. acted'[c] = TRUE /\ ~Addresses(c)
      BY <2>2 DEF CallInv, CallTypes, Addresses, Writes
    <3> QED BY <1>0, <2>2, <3>1 DEF CallIsAt, Addresses, Writes
  <2> QED BY <2>1, <2>2 DEF CallInv, CallTypes
<1> QED BY <1>0, <1>1, <1>2, <1>3, <1>4, OthersKeep DEF CallInv

LEMMA ReceivesStep ==
  ASSUME CallInv, NEW c \in Callers, Receives(c)
  PROVE  CallInv' /\ OthersStay(c)
<1> USE DEF Receives, Goes
<1>1. OthersStay(c)
  BY DEF OthersStay, CallInv, CallTypes
<1>2. CallTypes'
  BY DEF CallInv, CallTypes, Steps, sensor
<1>3. MutexIsHeld'
  BY DEF CallInv, CallTypes, MutexIsHeld, Locked
<1>4. CallIsAt(c)'
  <2>1. CallIsAt(c)
    BY DEF CallInv
  <2>2. acted'[c] = TRUE /\ pc[c] = "data" /\ pc'[c] = "done"
    BY DEF CallInv, CallTypes
  <2> QED BY <2>1, <2>2 DEF CallIsAt, Addresses, Writes, sensor
<1> QED BY <1>1, <1>2, <1>3, <1>4, OthersKeepSensor DEF CallInv

LEMMA FailsStep ==
  ASSUME CallInv, NEW c \in Callers, Fails(c)
  PROVE  /\ CallInv' /\ OthersStay(c) /\ pc[c] \in Locked
         /\ addresser' \in {addresser, c}
<1> USE DEF Fails
<1>0. /\ CallIsAt(c) /\ pc[c] \in Locked
      /\ request[c] \in Requests
      /\ retry[c] \in 0 .. RetryCnt /\ retry[c] < RetryCnt
  BY DEF CallInv, CallTypes, CallIsAt, Locked
<1>1. /\ OthersStay(c)
      /\ addresser' \in {addresser, c}
  BY DEF OthersStay, CallInv, CallTypes, Reaches, sensor
<1>2. CallTypes'
  <2>1. /\ regs' \in [Registers -> Values]
        /\ pointer' \in Registers
        /\ addresser' \in Callers
    <3>1. CASE Writes(c) \/ pc[c] = "address"
      <4>1. request[c].reg \in Registers /\ (Writes(c) => request[c].val \in Values)
        BY <1>0, <3>1, RequestShapes DEF Addresses, Writes, CallIsAt
      <4> QED BY <4>1 DEF CallInv, CallTypes, Reaches, sensor
    <3>2. CASE UNCHANGED <<sensor, acted>>
      BY <3>2 DEF CallInv, CallTypes, sensor
    <3> QED BY <3>1, <3>2
  <2>3. pc' \in [Callers -> Steps]
    BY DEF CallInv, CallTypes, Steps
  <2>4. retry' \in [Callers -> 0 .. RetryCnt]
    BY <1>0, BusAssumption DEF CallInv, CallTypes
  <2>5. acted' \in [Callers -> BOOLEAN]
    BY DEF CallInv, CallTypes, Writes, Reaches
  <2> QED BY <2>1, <2>3, <2>4, <2>5 DEF CallInv, CallTypes
<1>3. MutexIsHeld'
  BY DEF CallInv, CallTypes, MutexIsHeld, Locked
<1>4. CallIsAt(c)'
  <2>1. /\ pc'[c] \in {pc[c], "failed"}
        /\ retry'[c] = retry[c] + 1
        /\ pc'[c] = pc[c] => retry'[c] < RetryCnt
    BY <1>0, BusAssumption DEF CallInv, CallTypes
  <2>2. CASE (Writes(c) \/ pc[c] = "address") /\ Reaches(c)
    <3>1. acted'[c] = (acted[c] \/ Writes(c))
      BY <2>2 DEF CallInv, CallTypes, Reaches
    <3>2. CASE Writes(c)
      BY <1>0, <2>1, <2>2, <3>1, <3>2, RequestShapes
         DEF CallIsAt, Addresses, Writes, Reaches, CallInv, CallTypes
    <3>3. CASE ~Writes(c) /\ pc[c] = "address"
      BY <1>0, <2>1, <2>2, <3>1, <3>3 DEF CallIsAt, Addresses, Writes, Reaches
    <3> QED BY <2>2, <3>2, <3>3
  <2>3. CASE UNCHANGED <<sensor, acted>>
    BY <1>0, <2>1, <2>3 DEF CallIsAt, Addresses, Writes, sensor
  <2> QED BY <2>2, <2>3
<1> QED BY <1>0, <1>1, <1>2, <1>3, <1>4, OthersKeep DEF CallInv

LEMMA ReturnsStep ==
  ASSUME CallInv, NEW c \in Callers, Returns(c)
  PROVE  CallInv' /\ OthersStay(c) /\ pc'[c] = "idle"
<1> USE DEF Returns, Ends
<1>1. OthersStay(c) /\ pc'[c] = "idle"
  BY DEF OthersStay, CallInv, CallTypes
<1>2. CallTypes'
  BY BusAssumption DEF CallInv, CallTypes, Steps, sensor
<1>3. MutexIsHeld'
  BY CallerNames DEF CallInv, CallTypes, MutexIsHeld, Locked
<1>4. CallIsAt(c)'
  BY BusAssumption DEF CallInv, CallTypes, CallIsAt, sensor
<1> QED BY <1>1, <1>2, <1>3, <1>4, OthersKeepSensor DEF CallInv

-----------------------------------------------------------------------------
(* The invariant.                                                          *)

FileTypes ==
  /\ device_mutex \in Files \union {Free}
  /\ task \in [Files -> Tasks]
  /\ chunk \in [Files -> 0 .. Chunks]
  /\ foreign \in BOOLEAN

LEMMA InvariantParts ==
  /\ IInv <=> CallInv /\ FileTypes /\ FilesAreAlone /\ OnlyOthersIntrude
  /\ IInv' <=> (CallInv /\ FileTypes /\ FilesAreAlone /\ OnlyOthersIntrude)'
BY DEF IInv, TypeOK, CallInv, CallTypes, FileTypes

\* A transfer is made by nobody a file that reads has excluded.
LEMMA TransfersKeepFiles ==
  ASSUME IInv, NEW c \in Callers, OthersStay(c), UNCHANGED files,
         pc[c] # "idle", request'[c] = request[c],
         addresser' \in {addresser, c}
  PROVE  FileTypes' /\ FilesAreAlone' /\ OnlyOthersIntrude'
<1> USE InvariantParts
<1>1. FileTypes'
  BY DEF FileTypes, files
<1>2. FilesAreAlone'
  BY CallerNames DEF FilesAreAlone, IrqMasked, files, OthersStay, Part
<1>3. OnlyOthersIntrude'
  <2> SUFFICES ASSUME NEW f \in Files, task[f] = "reading", chunk[f] > 1, ~foreign
               PROVE  addresser' \in Others \union {f}
    BY DEF OnlyOthersIntrude, files
  <2>1. addresser \in Others \union {f}
    BY DEF OnlyOthersIntrude
  <2>2. c # Handler
    BY DEF FilesAreAlone, IrqMasked
  <2>3. c \in Files => c = f
    BY DEF FilesAreAlone
  <2> QED BY <2>1, <2>2, <2>3 DEF Callers
<1> QED BY <1>1, <1>2, <1>3

LEMMA TransferStep ==
  ASSUME IInv, NEW c \in Callers, Lock(c) \/ Transfer(c)
  PROVE  IInv'
<1> USE InvariantParts
<1>1. CASE Lock(c)
  <2>1. CallInv' /\ OthersStay(c)
    BY <1>1, LockStep
  <2>2. /\ pc[c] # "idle" /\ request'[c] = request[c] /\ UNCHANGED files
        /\ addresser' \in {addresser, c}
    BY <1>1 DEF Lock, Goes, sensor
  <2> QED BY <2>1, <2>2, TransfersKeepFiles
<1>2. CASE Sends(c)
  <2>1. CallInv' /\ OthersStay(c) /\ addresser' = c
    BY <1>2, SendsStep
  <2>2. pc[c] # "idle" /\ request'[c] = request[c] /\ UNCHANGED files
    BY <1>2 DEF Sends, Goes
  <2> QED BY <2>1, <2>2, TransfersKeepFiles
<1>3. CASE Receives(c)
  <2>1. CallInv' /\ OthersStay(c)
    BY <1>3, ReceivesStep
  <2>2. /\ pc[c] # "idle" /\ request'[c] = request[c] /\ UNCHANGED files
        /\ addresser' \in {addresser, c}
    BY <1>3 DEF Receives, Goes, sensor
  <2> QED BY <2>1, <2>2, TransfersKeepFiles
<1>4. CASE Fails(c)
  <2>1. CallInv' /\ OthersStay(c) /\ addresser' \in {addresser, c}
    BY <1>4, FailsStep
  <2>2. pc[c] # "idle" /\ request'[c] = request[c] /\ UNCHANGED files
    BY <1>4 DEF Fails
  <2> QED BY <2>1, <2>2, TransfersKeepFiles
<1> QED BY <1>1, <1>2, <1>3, <1>4 DEF Transfer

\* Steps that move a file alone.
LEMMA CallsStay ==
  ASSUME CallInv, UNCHANGED <<power_status, i2c_mutex, sensor, calls>>
  PROVE  CallInv'
BY DEF CallInv, CallTypes, MutexIsHeld, CallIsAt, Addresses, Writes, sensor, calls

LEMMA FileStep ==
  ASSUME IInv, NEW f \in Files, sec_ts_regread_show(f)
  PROVE  IInv'
<1> USE InvariantParts, CallerNames
<1> DEFINE Quiet == UNCHANGED <<power_status, i2c_mutex, sensor, calls>>
<1>0. pc[f] # "idle" => task[f] = "reading" /\ request[f] = Part(f)
  BY DEF FilesAreAlone
<1>1. CASE ReadMasks(f)
  <2>0. pc[f] = "idle"
    BY <1>0, <1>1 DEF ReadMasks, Moves
  <2>1. CallInv'
    BY <1>1, CallsStay DEF ReadMasks
  <2>2. FileTypes'
    BY <1>1 DEF ReadMasks, Moves, FileTypes, Tasks
  <2>3. FilesAreAlone'
    BY <1>1, <2>0 DEF ReadMasks, Moves, FilesAreAlone, IrqMasked, calls, FileTypes, Part
  <2>4. OnlyOthersIntrude'
    BY <1>1 DEF ReadMasks, Moves, OnlyOthersIntrude, sensor, FileTypes
  <2> QED BY <2>1, <2>2, <2>3, <2>4
<1>2. CASE ReadLocks(f)
  <2>0. pc[f] = "idle"
    BY <1>0, <1>2 DEF ReadLocks, Moves
  <2>1. CallInv'
    BY <1>2, CallsStay DEF ReadLocks
  <2>2. FileTypes'
    BY <1>2, BusAssumption DEF ReadLocks, Moves, FileTypes, Tasks
  <2>3. FilesAreAlone'
    BY <1>2, <2>0 DEF ReadLocks, Moves, FilesAreAlone, IrqMasked, calls, FileTypes, Part
  <2>4. OnlyOthersIntrude'
    BY <1>2 DEF ReadLocks, Moves, OnlyOthersIntrude, sensor, FileTypes
  <2> QED BY <2>1, <2>2, <2>3, <2>4
<1>3. CASE ReadsPart(f)
  <2>1. CallInv' /\ OthersStay(f)
    BY <1>3, BeginStep, PartIsRequest DEF ReadsPart
  <2>2. FileTypes'
    BY <1>3 DEF ReadsPart, files, FileTypes
  <2>3. FilesAreAlone'
    <3>1. request'[f] = Part(f) /\ task[f] = "reading"
      BY <1>3 DEF ReadsPart, Begin, CallInv, CallTypes
    <3> QED BY <1>3, <2>1, <3>1
        DEF ReadsPart, files, FilesAreAlone, IrqMasked, OthersStay, Part
  <2>4. OnlyOthersIntrude'
    BY <1>3 DEF ReadsPart, Begin, files, sensor, OnlyOthersIntrude
  <2> QED BY <2>1, <2>2, <2>3, <2>4
<1>4. CASE ReadRefused(f)
  <2>1. CallInv'
    BY <1>4, CallsStay DEF ReadRefused
  <2>2. FileTypes'
    BY <1>4, BusAssumption DEF ReadRefused, ReadIsOver, Moves, FileTypes, Tasks
  <2>3. FilesAreAlone'
    BY <1>4 DEF ReadRefused, ReadIsOver, Moves, FilesAreAlone, IrqMasked, calls, FileTypes, Part
  <2>4. OnlyOthersIntrude'
    BY <1>4 DEF ReadRefused, ReadIsOver, Moves, OnlyOthersIntrude, sensor, FileTypes
  <2> QED BY <2>1, <2>2, <2>3, <2>4
<1>5. CASE PartRead(f)
  <2>0. /\ task[f] = "reading" /\ request[f] = Part(f)
        /\ pc[f] \in {"done", "failed"} /\ UNCHANGED <<sensor, device_mutex, foreign>>
    BY <1>0, <1>5 DEF PartRead, Returns, Ends, ReadIsOver
  <2>1. CallInv' /\ OthersStay(f) /\ pc'[f] = "idle"
    BY <1>5, ReturnsStep DEF PartRead
  <2>2. FileTypes'
    <3>1. CASE chunk[f] < Chunks /\ chunk' = [chunk EXCEPT ![f] = @ + 1] /\ UNCHANGED task
      BY <2>0, <3>1, BusAssumption DEF FileTypes
    <3>2. CASE ReadIsOver(f)
      BY <2>0, <3>2, BusAssumption DEF ReadIsOver, Moves, FileTypes, Tasks
    <3> QED BY <1>5, <3>1, <3>2 DEF PartRead
  <2>3. FilesAreAlone'
    <3>1. \A g \in Files \ {f} :
            /\ task'[g] = task[g] /\ chunk'[g] = chunk[g]
            /\ pc'[g] = pc[g] /\ request'[g] = request[g]
      BY <1>5, <2>1 DEF PartRead, ReadIsOver, Moves, OthersStay, FileTypes
    <3>2. pc'[Handler] = pc[Handler] /\ pc[Handler] = "idle"
      BY <2>0, <2>1 DEF OthersStay, FilesAreAlone, IrqMasked
    <3>3. task'[f] = "reading" => foreign' \/ device_mutex' = f
      BY <2>0 DEF FilesAreAlone
    <3> QED BY <2>0, <2>1, <3>1, <3>2, <3>3 DEF FilesAreAlone, Part
  <2>4. OnlyOthersIntrude'
    <3> SUFFICES ASSUME NEW g \in Files, task'[g] = "reading", chunk'[g] > 1, ~foreign'
                 PROVE  addresser \in Others \union {g}
      BY <2>0 DEF OnlyOthersIntrude, sensor
    <3>1. CASE g # f
      <4>1. task[g] = "reading" /\ chunk[g] > 1
        BY <1>5, <3>1 DEF PartRead, ReadIsOver, Moves, FileTypes
      <4> QED BY <4>1, <2>0 DEF OnlyOthersIntrude
    <3>2. CASE g = f
      <4>1. pc[f] = "done" /\ CallIsAt(f)
        BY <1>5, <3>2 DEF PartRead, ReadIsOver, Moves, FileTypes, CallInv
      <4>2. CASE chunk[f] = 1
        <5>1. Addresses(f)
          BY <2>0, <4>2 DEF Part, Addresses
        <5> QED BY <3>2, <4>1, <5>1 DEF CallIsAt
      <4>3. CASE chunk[f] > 1
        BY <2>0, <3>2, <4>3 DEF OnlyOthersIntrude
      <4>4. chunk[f] >= 1 /\ chunk[f] \in Nat
        <5>1. chunk'[f] = chunk[f] + 1
          BY <1>5, <3>2 DEF PartRead, ReadIsOver, Moves, FileTypes
        <5> QED BY <3>2, <5>1, BusAssumption DEF FileTypes
      <4> QED BY <4>2, <4>3, <4>4
    <3> QED BY <3>1, <3>2
  <2> QED BY <2>1, <2>2, <2>3, <2>4
<1>6. CASE ReadUnlocks(f)
  <2>0. pc[f] = "idle"
    BY <1>0, <1>6 DEF ReadUnlocks, Moves
  <2>1. CallInv'
    BY <1>6, CallsStay DEF ReadUnlocks
  <2>2. FileTypes'
    BY <1>6 DEF ReadUnlocks, Moves, FileTypes, Tasks
  <2>3. FilesAreAlone'
    <3>1. \A g \in Files : task'[g] = "reading" => foreign' \/ device_mutex' = g
      <4> SUFFICES ASSUME NEW g \in Files, task'[g] = "reading" PROVE foreign'
        OBVIOUS
      <4>1. task[g] = "reading" /\ g # f
        BY <1>6 DEF ReadUnlocks, Moves, FileTypes
      <4>2. foreign \/ device_mutex = g
        BY <4>1 DEF FilesAreAlone
      <4> QED BY <1>6, <4>1, <4>2 DEF ReadUnlocks
    <3> QED BY <1>6, <2>0, <3>1
        DEF ReadUnlocks, Moves, FilesAreAlone, IrqMasked, calls, FileTypes, Part
  <2>4. OnlyOthersIntrude'
    BY <1>6 DEF ReadUnlocks, Moves, OnlyOthersIntrude, sensor, FileTypes
  <2> QED BY <2>1, <2>2, <2>3, <2>4
<1>7. CASE ReadUnmasks(f)
  <2>0. pc[f] = "idle"
    BY <1>0, <1>7 DEF ReadUnmasks, Moves
  <2>1. CallInv'
    BY <1>7, CallsStay DEF ReadUnmasks
  <2>2. FileTypes'
    BY <1>7 DEF ReadUnmasks, Moves, FileTypes, Tasks
  <2>3. FilesAreAlone'
    BY <1>7, <2>0 DEF ReadUnmasks, Moves, FilesAreAlone, IrqMasked, calls, FileTypes, Part
  <2>4. OnlyOthersIntrude'
    BY <1>7 DEF ReadUnmasks, Moves, OnlyOthersIntrude, sensor, FileTypes
  <2> QED BY <2>1, <2>2, <2>3, <2>4
<1> QED BY <1>1, <1>2, <1>3, <1>4, <1>5, <1>6, <1>7 DEF sec_ts_regread_show

\* A call of the handler or of another thread begins or ends.
LEMMA OtherStep ==
  ASSUME IInv,
         sec_ts_irq_thread \/ \E o \in Others : OtherCalls(o) \/ OtherReturns(o)
  PROVE  IInv'
<1> USE InvariantParts, CallerNames
<1>1. ASSUME NEW c \in Callers \ Files, CallInv', OthersStay(c),
             UNCHANGED files, UNCHANGED sensor,
             c = Handler => ~IrqMasked \/ pc'[c] = "idle"
      PROVE  IInv'
  <2>1. FileTypes'
    BY <1>1 DEF FileTypes, files
  <2>2. FilesAreAlone'
    BY <1>1 DEF FilesAreAlone, IrqMasked, files, OthersStay, Part
  <2>3. OnlyOthersIntrude'
    BY <1>1 DEF OnlyOthersIntrude, files, sensor
  <2> QED BY <1>1, <2>1, <2>2, <2>3
<1>2. CASE HandlerReads
  BY <1>1, <1>2, BeginStep, PartIsRequest DEF HandlerReads, Begin
<1>3. CASE HandlerReturns
  <2>1. CallInv' /\ OthersStay(Handler) /\ pc'[Handler] = "idle"
    BY <1>3, ReturnsStep DEF HandlerReturns
  <2> QED BY <1>1, <1>3, <2>1 DEF HandlerReturns, Returns, Ends
<1>4. ASSUME NEW o \in Others, OtherCalls(o) PROVE IInv'
  <2>1. PICK r \in Requests : Begin(o, r)
    BY <1>4, BusAssumption DEF OtherCalls
  <2>2. CallInv' /\ OthersStay(o)
    BY <2>1, BeginStep
  <2> QED BY <1>1, <1>4, <2>1, <2>2 DEF OtherCalls, Begin
<1>5. ASSUME NEW o \in Others, OtherReturns(o) PROVE IInv'
  <2>1. CallInv' /\ OthersStay(o)
    BY <1>5, ReturnsStep DEF OtherReturns
  <2> QED BY <1>1, <1>5, <2>1 DEF OtherReturns, Returns, Ends
<1> QED BY <1>2, <1>3, <1>4, <1>5 DEF sec_ts_irq_thread

LEMMA StepInvariant == IInv /\ [Next]_vars => IInv'
<1> SUFFICES ASSUME IInv, [Next]_vars PROVE IInv'
  OBVIOUS
<1> USE InvariantParts
<1>1. ASSUME NEW c \in Callers, Lock(c) \/ Transfer(c) PROVE IInv'
  BY <1>1, TransferStep
<1>2. ASSUME NEW f \in Files, sec_ts_regread_show(f) PROVE IInv'
  BY <1>2, FileStep
<1>3. CASE sec_ts_irq_thread \/ \E o \in Others : OtherCalls(o) \/ OtherReturns(o)
  BY <1>3, OtherStep
<1>4. CASE SwitchPower
  <2>1. CallInv'
    BY <1>4 DEF SwitchPower, CallInv, CallTypes, MutexIsHeld, CallIsAt,
                Addresses, Writes, sensor
  <2>2. FileTypes' /\ FilesAreAlone' /\ OnlyOthersIntrude'
    BY <1>4 DEF SwitchPower, FileTypes, FilesAreAlone, IrqMasked,
                OnlyOthersIntrude, Part, files, sensor
  <2> QED BY <2>1, <2>2
<1>5. CASE UNCHANGED vars
  <2>1. CallInv'
    BY <1>5, CallsStay DEF vars
  <2>2. FileTypes' /\ FilesAreAlone' /\ OnlyOthersIntrude'
    BY <1>5 DEF vars, calls, FileTypes, FilesAreAlone, IrqMasked,
                OnlyOthersIntrude, Part, files, sensor
  <2> QED BY <2>1, <2>2
<1> QED BY <1>1, <1>2, <1>3, <1>4, <1>5 DEF Next

\* The inductive invariant of the transfer functions, with their types.
THEOREM Invariant == Spec => []IInv
<1>1. Init => IInv
  BY InitInvariant
<1>2. IInv /\ [Next]_vars => IInv'
  BY StepInvariant
<1> QED BY <1>1, <1>2, PTL DEF Spec

\* Between the parts of a read of the file regread only threads that take no
\* device_mutex address the sensor, unless the mutex was freed under the file.
THEOREM IntrudersAreKnown == Spec => []OnlyOthersIntrude
<1>1. IInv => OnlyOthersIntrude
  BY DEF IInv
<1> QED BY <1>1, Invariant, PTL

-----------------------------------------------------------------------------
(* Every call acts on the registers at one instant.                        *)

Mapped == [c \in Callers |-> AbstractRequest(request[c])]

LEMMA MappedRequests ==
  ASSUME CallTypes, NEW c \in Callers
  PROVE  /\ Mapped[c] = AbstractRequest(request[c])
         /\ Addresses(c) => Mapped[c].kind = "read" /\ Mapped[c].reg = request[c].reg
         /\ Writes(c) => /\ Mapped[c].kind = "write"
                         /\ Mapped[c].reg = request[c].reg
                         /\ Mapped[c].val = request[c].val
         /\ request[c].op = "read_bulk" => Mapped[c].kind = "continue"
         /\ request[c] \in Requests => Mapped[c] # Access!Nothing
BY RequestShapes
   DEF CallTypes, Mapped, AbstractRequest, Addresses, Writes, Nothing, Access!Nothing

LEMMA AbstractRequests ==
  /\ \A r \in Requests : AbstractRequest(r) \in Access!Requests
  /\ AbstractRequest(Nothing) = Access!Nothing
BY DEF Requests, AbstractRequest, Nothing, Access!Requests, Access!Nothing

LEMMA MapsInit == Init => Access!Init
BY AbstractRequests DEF Init, Access!Init

\* A step that changes no request and nothing of the sensor maps to none.
LEMMA MapsStutter ==
  UNCHANGED <<regs, pointer, request, acted, answer>> => UNCHANGED Access!vars
BY DEF Access!vars

\* The sensor is reached: the first time it acts, then nothing changes.
LEMMA MapsReaches ==
  ASSUME CallInv, NEW c \in Callers, pc[c] \in {"address", "data"},
         Writes(c) \/ pc[c] = "address", Reaches(c), UNCHANGED <<request, answer>>
  PROVE  [Access!Next]_Access!vars
<1> USE MappedRequests DEF Mapped
<1>0. CallTypes /\ CallIsAt(c) /\ answer[c] = NoValue
  BY DEF CallInv, CallIsAt
<1>1. CASE pc[c] = "address"
  <2>1. Addresses(c) /\ ~Writes(c) /\ ~acted[c]
    BY <1>0, <1>1 DEF CallIsAt, Addresses, Writes
  <2>2. acted' = acted /\ regs' = regs
    BY <1>0, <2>1 DEF Reaches, CallTypes
  <2>3. Access!Address(c)
    BY <1>0, <2>1, <2>2 DEF Access!Address, Reaches
  <2> QED BY <2>3 DEF Access!Next
<1>2. CASE Writes(c) /\ ~acted[c]
  <2>1. acted' = [acted EXCEPT ![c] = TRUE]
    BY <1>0, <1>2 DEF Reaches, CallTypes
  <2>2. answer' = [answer EXCEPT ![c] = NoValue]
    BY <1>0 DEF CallTypes
  <2>3. Access!Write(c)
    BY <1>0, <1>2, <2>1, <2>2 DEF Access!Write, Access!Answers, Reaches
  <2> QED BY <2>3 DEF Access!Next
<1>3. CASE Writes(c) /\ acted[c] /\ pc[c] = "data"
  <2>1. acted' = acted
    BY <1>0, <1>3 DEF Reaches, CallTypes
  <2>2. regs' = regs /\ pointer' = pointer
    BY <1>0, <1>3 DEF Reaches, CallTypes, CallIsAt
  <2> QED BY <2>1, <2>2, MapsStutter
<1> QED BY <1>1, <1>2, <1>3

LEMMA MapsReceives ==
  ASSUME CallInv, NEW c \in Callers, Receives(c)
  PROVE  [Access!Next]_Access!vars
<1> USE MappedRequests DEF Mapped, Receives, Goes
<1>0. /\ CallTypes /\ CallIsAt(c) /\ request[c] \in Requests
      /\ ~Writes(c) /\ UNCHANGED <<regs, pointer, request>>
      /\ ~acted[c]
  BY DEF CallInv, CallTypes, CallIsAt, sensor
<1>1. CASE Addresses(c)
  <2>1. pointer = request[c].reg
    BY <1>0, <1>1 DEF CallIsAt
  <2>2. Access!Read(c)
    BY <1>0, <1>1, <2>1 DEF Access!Read, Access!Answers
  <2> QED BY <2>2 DEF Access!Next
<1>2. CASE ~Addresses(c)
  <2>1. request[c].op = "read_bulk"
    BY <1>0, <1>2, RequestShapes DEF Addresses, Writes
  <2>2. Access!Continue(c)
    BY <1>0, <2>1 DEF Access!Continue, Access!Answers
  <2> QED BY <2>2 DEF Access!Next
<1> QED BY <1>1, <1>2

LEMMA MapsTransfer ==
  ASSUME CallInv, NEW c \in Callers, Lock(c) \/ Transfer(c)
  PROVE  [Access!Next]_Access!vars
<1>1. CASE Lock(c)
  BY <1>1, MapsStutter DEF Lock, sensor
<1>2. CASE Sends(c)
  <2>1. /\ pc[c] \in {"address", "data"}
        /\ Writes(c) \/ pc[c] = "address"
        /\ Reaches(c) /\ UNCHANGED <<request, answer>>
    BY <1>2 DEF Sends, Goes
  <2> QED BY <2>1, MapsReaches
<1>3. CASE Receives(c)
  BY <1>3, MapsReceives
<1>4. CASE Fails(c)
  <2>1. CASE (Writes(c) \/ pc[c] = "address") /\ Reaches(c)
    BY <1>4, <2>1, MapsReaches DEF Fails
  <2>2. CASE UNCHANGED <<sensor, acted>>
    BY <1>4, <2>2, MapsStutter DEF Fails, sensor
  <2> QED BY <1>4, <2>1, <2>2 DEF Fails
<1> QED BY <1>1, <1>2, <1>3, <1>4 DEF Transfer

LEMMA MapsBegin ==
  ASSUME CallInv, NEW c \in Callers, NEW r \in Requests, Begin(c, r)
  PROVE  Access!Next
<1> USE DEF Begin, Goes, Mapped
<1>1. CallTypes /\ request[c] = Nothing /\ request' = [request EXCEPT ![c] = r]
  BY DEF CallInv, CallIsAt
<1>2. Mapped[c] = Access!Nothing
  BY <1>1, MappedRequests, AbstractRequests
<1>3. Mapped' = [Mapped EXCEPT ![c] = AbstractRequest(r)]
  BY <1>1 DEF CallTypes
<1>4. AbstractRequest(r) \in Access!Requests
  BY AbstractRequests
<1>5. Access!Call(c)
  BY <1>2, <1>3, <1>4 DEF Access!Call, sensor
<1> QED BY <1>5 DEF Access!Next

LEMMA MapsReturns ==
  ASSUME CallInv, NEW c \in Callers, Returns(c)
  PROVE  Access!Next
<1> USE DEF Returns, Ends, Mapped
<1>1. /\ CallTypes /\ CallIsAt(c) /\ request[c] \in Requests
      /\ request' = [request EXCEPT ![c] = Nothing]
  BY DEF CallInv, CallIsAt, CallTypes
<1>2. Mapped[c] # Access!Nothing
  BY <1>1, MappedRequests
<1>3. Mapped' = [Mapped EXCEPT ![c] = Access!Nothing]
  BY <1>1, AbstractRequests DEF CallTypes
<1>4. Access!Ends(c)
  BY <1>2, <1>3 DEF Access!Ends, sensor
<1>5. acted[c] \/ answer[c] = NoValue
  BY <1>1 DEF CallIsAt
<1>6. Access!Succeed(c) \/ Access!Fail(c)
  BY <1>4, <1>5 DEF Access!Succeed, Access!Fail
<1> QED BY <1>6 DEF Access!Next

LEMMA MapsNext ==
  ASSUME IInv, [Next]_vars
  PROVE  [Access!Next]_Access!vars
<1>0. CallInv
  BY InvariantParts
<1>1. ASSUME NEW c \in Callers, Lock(c) \/ Transfer(c)
      PROVE  [Access!Next]_Access!vars
  BY <1>0, <1>1, MapsTransfer
<1>2. ASSUME NEW f \in Files, sec_ts_regread_show(f)
      PROVE  [Access!Next]_Access!vars
  <2>1. CASE ReadsPart(f)
    BY <1>0, <2>1, MapsBegin, PartIsRequest, CallerNames DEF ReadsPart
  <2>2. CASE PartRead(f)
    BY <1>0, <2>2, MapsReturns, CallerNames DEF PartRead
  <2>3. CASE \/ ReadMasks(f) \/ ReadLocks(f) \/ ReadRefused(f)
             \/ ReadUnlocks(f) \/ ReadUnmasks(f)
    BY <2>3, MapsStutter
       DEF ReadMasks, ReadLocks, ReadRefused, ReadUnlocks, ReadUnmasks, sensor, calls
  <2> QED BY <1>2, <2>1, <2>2, <2>3 DEF sec_ts_regread_show
<1>3. CASE sec_ts_irq_thread
  <2>1. CASE HandlerReads
    BY <1>0, <2>1, MapsBegin, PartIsRequest, CallerNames DEF HandlerReads
  <2>2. CASE HandlerReturns
    BY <1>0, <2>2, MapsReturns, CallerNames DEF HandlerReturns
  <2> QED BY <1>3, <2>1, <2>2 DEF sec_ts_irq_thread
<1>4. ASSUME NEW o \in Others, OtherCalls(o) \/ OtherReturns(o)
      PROVE  [Access!Next]_Access!vars
  <2>1. CASE OtherCalls(o)
    BY <1>0, <2>1, MapsBegin, BusAssumption, CallerNames DEF OtherCalls
  <2>2. CASE OtherReturns(o)
    BY <1>0, <2>2, MapsReturns, CallerNames DEF OtherReturns
  <2> QED BY <1>4, <2>1, <2>2
<1>5. CASE SwitchPower \/ UNCHANGED vars
  BY <1>5, MapsStutter DEF SwitchPower, vars, sensor, calls
<1> QED BY <1>1, <1>2, <1>3, <1>4, <1>5 DEF Next

\* The transfer functions implement RegisterAccess: every call acts on the
\* sensor's registers at one instant, however its transfers fail and repeat.
THEOREM ImplementsRegisterAccess == Spec => CallsActAtOnce
<1>1. Init => Access!Init
  BY MapsInit
<1>2. IInv /\ [Next]_vars => [Access!Next]_Access!vars
  BY MapsNext
<1> QED BY <1>1, <1>2, Invariant, PTL DEF Spec, CallsActAtOnce, Access!Spec

-----------------------------------------------------------------------------
(* What CallsEnd rests on besides fairness: the waits are ordered, and a   *)
(* call under i2c_mutex gets nearer to its end.                            *)

\* The half of WaitsAreOrdered that IInv does not say.
DeviceWaits == device_mutex # Free => task[device_mutex] \in {"reading", "unlock"}

LEMMA FilesKeepDeviceWaits ==
  ASSUME FileTypes, DeviceWaits, NEW f \in Files, sec_ts_regread_show(f)
  PROVE  DeviceWaits'
<1>1. CASE ReadMasks(f) \/ ReadUnmasks(f)
  BY <1>1 DEF ReadMasks, ReadUnmasks, Moves, DeviceWaits, FileTypes
<1>2. CASE ReadLocks(f) \/ ReadUnlocks(f)
  BY <1>2 DEF ReadLocks, ReadUnlocks, Moves, DeviceWaits, FileTypes
<1>3. CASE ReadsPart(f)
  BY <1>3 DEF ReadsPart, files, DeviceWaits
<1>4. CASE ReadRefused(f) \/ PartRead(f)
  BY <1>4 DEF ReadRefused, PartRead, ReadIsOver, Moves, DeviceWaits, FileTypes
<1> QED
  BY <1>1, <1>2, <1>3, <1>4 DEF sec_ts_regread_show

LEMMA StepKeepsDeviceWaits ==
  ASSUME IInv, DeviceWaits, [Next]_vars
  PROVE  DeviceWaits'
<1>1. UNCHANGED <<device_mutex, task>> => DeviceWaits'
  BY DEF DeviceWaits
<1>2. ASSUME NEW c \in Callers, Lock(c) \/ Transfer(c)
      PROVE  DeviceWaits'
  BY <1>1, <1>2 DEF Lock, Transfer, Sends, Receives, Fails, files
<1>3. ASSUME NEW o \in Others, OtherCalls(o) \/ OtherReturns(o)
      PROVE  DeviceWaits'
  BY <1>1, <1>3 DEF OtherCalls, OtherReturns, files
<1>4. sec_ts_irq_thread \/ SwitchPower \/ UNCHANGED vars => DeviceWaits'
  BY <1>1 DEF sec_ts_irq_thread, HandlerReads, HandlerReturns, SwitchPower, vars, files
<1> QED
  BY <1>2, <1>3, <1>4, FilesKeepDeviceWaits, InvariantParts DEF Next

\* A file that holds device_mutex waits for i2c_mutex at most, and whoever
\* holds i2c_mutex, the handler and the files among them, waits for neither:
\* disable_irq, which waits for the handler, is called by no holder.
THEOREM WaitsOrdered == Spec => []WaitsAreOrdered
<1>1. Init => DeviceWaits
  BY DEF Init, DeviceWaits
<1>2. IInv /\ DeviceWaits /\ [Next]_vars => DeviceWaits'
  BY StepKeepsDeviceWaits
<1>3. IInv /\ DeviceWaits => WaitsAreOrdered
  <2> SUFFICES ASSUME IInv, DeviceWaits, i2c_mutex # Free
               PROVE  /\ pc[i2c_mutex] \in Locked
                      /\ i2c_mutex \in Files => task[i2c_mutex] = "reading"
    BY DEF WaitsAreOrdered, DeviceWaits
  <2>1. i2c_mutex \in Callers
    BY DEF IInv, TypeOK
  <2>2. pc[i2c_mutex] \in Locked
    BY <2>1 DEF IInv, MutexIsHeld
  <2>3. i2c_mutex \in Files => task[i2c_mutex] = "reading"
    BY <2>2 DEF IInv, FilesAreAlone, Locked
  <2> QED
    BY <2>2, <2>3
<1> QED
  BY <1>1, <1>2, <1>3, Invariant, PTL DEF Spec

\* What CallsAdvance says of one call.
Advances(c) ==
  pc[c] \in Locked =>
    \/ UNCHANGED <<pc[c], retry[c]>>
    \/ pc'[c] \in After(pc[c])
    \/ pc'[c] = pc[c] /\ retry'[c] = retry[c] + 1 /\ retry'[c] < RetryCnt

LEMMA TransferAdvances ==
  ASSUME CallInv, NEW c \in Callers, Lock(c) \/ Transfer(c)
  PROVE  \A d \in Callers : Advances(d)
<1> USE DEF CallInv, CallTypes, Goes
<1>0. OthersStay(c) => \A d \in Callers \ {c} : Advances(d)
  BY DEF OthersStay, Advances
<1>1. CASE Lock(c)
  <2>1. Advances(c)
    BY <1>1 DEF Lock, Advances, Locked
  <2> QED
    BY <1>0, <1>1, <2>1, LockStep
<1>2. CASE Sends(c)
  <2>1. Advances(c)
    BY <1>2 DEF Sends, Advances, After
  <2> QED
    BY <1>0, <1>2, <2>1, SendsStep
<1>3. CASE Receives(c)
  <2>1. Advances(c)
    BY <1>3 DEF Receives, Advances, After
  <2> QED
    BY <1>0, <1>3, <2>1, ReceivesStep
<1>4. CASE Fails(c)
  <2>1. retry'[c] = retry[c] + 1 /\ retry[c] \in Nat /\ retry[c] < RetryCnt
    BY <1>4 DEF Fails, CallIsAt
  <2>2. pc'[c] = "failed" => Advances(c)
    BY <1>4 DEF Fails, Advances, After
  <2>3. pc' = pc /\ retry[c] + 1 # RetryCnt => Advances(c)
    BY <2>1, BusAssumption DEF Advances
  <2>4. Advances(c)
    BY <1>4, <2>2, <2>3 DEF Fails
  <2> QED
    BY <1>0, <1>4, <2>4, FailsStep
<1> QED
  BY <1>1, <1>2, <1>3, <1>4 DEF Transfer

LEMMA BeginAdvances ==
  ASSUME CallInv, NEW c \in Callers, NEW r \in Requests, Begin(c, r)
  PROVE  \A d \in Callers : Advances(d)
<1>1. Advances(c)
  BY DEF Begin, Goes, Advances, Locked
<1> QED
  BY <1>1, BeginStep DEF OthersStay, Advances

LEMMA ReturnsAdvances ==
  ASSUME CallInv, NEW c \in Callers, Returns(c)
  PROVE  \A d \in Callers : Advances(d)
<1>1. Advances(c)
  BY DEF Returns, Ends, CallInv, CallTypes, Advances, After
<1> QED
  BY <1>1, ReturnsStep DEF OthersStay, Advances

LEMMA StepAdvances ==
  ASSUME IInv, Next
  PROVE  \A d \in Callers : Advances(d)
<1>0. CallInv
  BY InvariantParts
<1>1. UNCHANGED <<pc, retry>> => \A d \in Callers : Advances(d)
  BY DEF Advances
<1>2. ASSUME NEW f \in Files, sec_ts_regread_show(f)
      PROVE  \A d \in Callers : Advances(d)
  <2>1. CASE ReadsPart(f)
    BY <1>0, <2>1, BeginAdvances, PartIsRequest, CallerNames DEF ReadsPart
  <2>2. CASE PartRead(f)
    BY <1>0, <2>2, ReturnsAdvances, CallerNames DEF PartRead
  <2>3. CASE \/ ReadMasks(f) \/ ReadLocks(f) \/ ReadRefused(f)
             \/ ReadUnlocks(f) \/ ReadUnmasks(f)
    BY <1>1, <2>3 DEF ReadMasks, ReadLocks, ReadRefused, ReadUnlocks, ReadUnmasks, calls
  <2> QED
    BY <1>2, <2>1, <2>2, <2>3 DEF sec_ts_regread_show
<1>3. CASE HandlerReads
  BY <1>0, <1>3, BeginAdvances, PartIsRequest, CallerNames DEF HandlerReads
<1>4. CASE HandlerReturns
  BY <1>0, <1>4, ReturnsAdvances, CallerNames DEF HandlerReturns
<1>5. ASSUME NEW o \in Others, OtherCalls(o) \/ OtherReturns(o)
      PROVE  \A d \in Callers : Advances(d)
  BY <1>0, <1>5, BeginAdvances, ReturnsAdvances, BusAssumption, CallerNames
     DEF OtherCalls, OtherReturns
<1>6. CASE SwitchPower
  BY <1>1, <1>6 DEF SwitchPower
<1> QED
  BY <1>0, <1>2, <1>3, <1>4, <1>5, <1>6, TransferAdvances DEF Next, sec_ts_irq_thread

\* A call that holds i2c_mutex goes on or uses up an attempt with every step,
\* and no other thread sets it back: after two times RetryCnt transfers at most
\* it is over.
THEOREM CallsComeToAnEnd == Spec => CallsAdvance
<1>1. IInv /\ [Next]_vars => [\A c \in Callers : Advances(c)]_vars
  BY StepAdvances
<1> QED
  BY <1>1, Invariant, PTL DEF Spec, CallsAdvance, Advances
=============================================================================
