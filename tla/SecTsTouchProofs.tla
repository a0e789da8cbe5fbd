-------------------------- MODULE SecTsTouchProofs --------------------------
(***************************************************************************)
(* The safety properties of SecTsTouch, for every number of fingers, depth *)
(* of the event stack and value of the two limits.                         *)
(*                                                                         *)
(* The argument: as long as view says no event was lost, the pending       *)
(* events lead from what the driver shows to what the sensor tracks (one   *)
(* lemma per way the stack changes).  The first pending event of a finger  *)
(* is then a press only if its slot is up, so the handler's increments and *)
(* decrements of touch_count follow the number of slots shown.             *)
(***************************************************************************)
EXTENDS SecTsTouch, FiniteSetTheorems, TLAPS

LEMMA EventKinds ==
  /\ AckKinds = {"OFFSET_CAL_DONE", "SELF_TEST_DONE"}
  /\ \A e \in Event : e.kind = "coordinate" => e \in Coordinate
  /\ \A e \in Coordinate : e.kind = "coordinate"
                           /\ e.action \in {"Press", "Move", "Release"}
                           /\ e.id \in Fingers
<1>1. AckKinds = {"OFFSET_CAL_DONE", "SELF_TEST_DONE"}
  BY DEF AckKinds, Ack, OpNames
<1>2. QED
  BY <1>1 DEF Event, Coordinate, Signal, Action

-----------------------------------------------------------------------------
(* How Leads follows the stack.                                            *)

\* A finger with no pending event is shown as the sensor holds it.
LEMMA LeadsEmpty ==
  ASSUME NEW f, NEW shown \in BOOLEAN, NEW held \in BOOLEAN
  PROVE  Leads(<<>>, f, shown, held) <=> (held <=> shown)
BY DEF Leads, Quiet

\* The sensor pushes a fitting event of f.
LEMMA LeadsPush ==
  ASSUME NEW s \in Seq(Event), NEW e \in Event, NEW f,
         NEW shown \in BOOLEAN, NEW held \in BOOLEAN,
         Leads(s, f, shown, held),
         e.kind = "coordinate", e.id = f, (e.action = "Press") <=> ~held
  PROVE  Leads(Append(s, e), f, shown, e.action # "Release")
<1> DEFINE t == Append(s, e)
           n == Len(s)
<1>1. /\ n \in Nat /\ Len(t) = n + 1 /\ t[n + 1] = e
      /\ \A k \in 1..n : t[k] = s[k]
  OBVIOUS
<1>2. \A k \in 1..n : Touches(t, k, f) <=> Touches(s, k, f)
  BY <1>1 DEF Touches
<1>3. \A i, j \in 0..(n + 1) : i >= 1 /\ j <= n => (Quiet(t, i, j, f) <=> Quiet(s, i, j, f))
  BY <1>1, <1>2 DEF Quiet
<1>4. Touches(t, n + 1, f)
  BY <1>1 DEF Touches
<1>5. \A k \in 1..n : On(t, k) = On(s, k) /\ \A on : Fits(t, on, k) = Fits(s, on, k)
  BY <1>1 DEF On, Fits
<1> HIDE DEF t
<1>6. ASSUME NEW k \in 1..Len(t), Touches(t, k, f), Quiet(t, 1, k - 1, f)
      PROVE  Fits(t, shown, k)
  <2>1. CASE k \in 1..n
    BY <2>1, <1>1, <1>2, <1>3, <1>5, <1>6 DEF Leads
  <2>2. CASE k = n + 1
    BY <2>2, <1>1, <1>3, <1>6 DEF Leads, Fits, n
  <2>3. QED BY <2>1, <2>2, <1>1
<1>7. ASSUME NEW k \in 1..Len(t), Touches(t, k, f),
             NEW j \in 1..(k - 1), Touches(t, j, f), Quiet(t, j + 1, k - 1, f)
      PROVE  Fits(t, On(t, j), k)
  <2>1. CASE k \in 1..n
    BY <2>1, <1>1, <1>2, <1>3, <1>5, <1>7 DEF Leads
  <2>2. CASE k = n + 1
    <3>1. held <=> On(s, j)
      BY <2>2, <1>1, <1>2, <1>3, <1>7 DEF Leads
    <3>2. QED BY <3>1, <2>2, <1>1, <1>5 DEF Fits
  <2>3. QED BY <2>1, <2>2, <1>1
<1>8. ~Quiet(t, 1, Len(t), f)
  BY <1>1, <1>4 DEF Quiet
<1>9. ASSUME NEW j \in 1..Len(t), Touches(t, j, f), Quiet(t, j + 1, Len(t), f)
      PROVE  (e.action # "Release") <=> On(t, j)
  BY <1>1, <1>4, <1>9 DEF Quiet, On
<1>10. QED
  BY <1>6, <1>7, <1>8, <1>9 DEF Leads, t

\* The sensor pushes something that is not an event of f.
LEMMA LeadsPushOther ==
  ASSUME NEW s \in Seq(Event), NEW e \in Event, NEW f,
         NEW shown \in BOOLEAN, NEW held \in BOOLEAN,
         Leads(s, f, shown, held), ~(e.kind = "coordinate" /\ e.id = f)
  PROVE  Leads(Append(s, e), f, shown, held)
<1> DEFINE t == Append(s, e)
           n == Len(s)
<1>1. /\ n \in Nat /\ Len(t) = n + 1 /\ t[n + 1] = e
      /\ \A k \in 1..n : t[k] = s[k]
  OBVIOUS
<1>2. /\ \A k \in 1..n : Touches(t, k, f) <=> Touches(s, k, f)
      /\ ~Touches(t, n + 1, f)
  BY <1>1 DEF Touches
<1>3. \A i \in 1..(n + 1), j \in 0..n : Quiet(t, i, j, f) <=> Quiet(s, i, j, f)
  BY <1>1, <1>2 DEF Quiet
<1>4. \A i \in 1..(n + 1) : Quiet(t, i, n + 1, f) <=> Quiet(s, i, n, f)
  BY <1>1, <1>2 DEF Quiet
<1>5. \A k \in 1..n : On(t, k) = On(s, k) /\ \A on : Fits(t, on, k) = Fits(s, on, k)
  BY <1>1 DEF On, Fits
<1> HIDE DEF t
<1>6. ASSUME NEW k \in 1..Len(t), Touches(t, k, f)
      PROVE  /\ Quiet(t, 1, k - 1, f) => Fits(t, shown, k)
             /\ \A j \in 1..(k - 1) :
                  Touches(t, j, f) /\ Quiet(t, j + 1, k - 1, f) => Fits(t, On(t, j), k)
  <2>1. k \in 1..n /\ Touches(s, k, f)
    BY <1>1, <1>2, <1>6
  <2>2. QED BY <2>1, <1>1, <1>2, <1>3, <1>5 DEF Leads
<1>7. Quiet(t, 1, Len(t), f) => (held <=> shown)
  BY <1>1, <1>4 DEF Leads
<1>8. ASSUME NEW j \in 1..Len(t), Touches(t, j, f), Quiet(t, j + 1, Len(t), f)
      PROVE  held <=> On(t, j)
  BY <1>1, <1>2, <1>4, <1>5, <1>8 DEF Leads
<1>9. QED
  BY <1>6, <1>7, <1>8 DEF Leads, t

\* The handler takes the first event, an event of f.
LEMMA LeadsPop ==
  ASSUME NEW s \in Seq(Event), s # <<>>, NEW f,
         NEW shown \in BOOLEAN, NEW held \in BOOLEAN,
         Leads(s, f, shown, held),
         s[1].kind = "coordinate", s[1].id = f
  PROVE  /\ (s[1].action = "Press") <=> ~shown
         /\ Leads(Tail(s), f, s[1].action # "Release", held)
<1> DEFINE t == Tail(s)
           n == Len(s) - 1
<1>1. /\ n \in Nat /\ Len(s) = n + 1 /\ Len(t) = n
      /\ \A k \in 1..n : t[k] = s[k + 1]
  OBVIOUS
<1>2. Touches(s, 1, f)
  BY DEF Touches
<1>3. \A k \in 1..n : Touches(t, k, f) <=> Touches(s, k + 1, f)
  BY <1>1 DEF Touches
<1>4. \A i \in 1..(n + 1), j \in 0..n :
        Quiet(t, i, j, f) <=> Quiet(s, i + 1, j + 1, f)
  <2> SUFFICES ASSUME NEW i \in 1..(n + 1), NEW j \in 0..n
               PROVE  Quiet(t, i, j, f) <=> Quiet(s, i + 1, j + 1, f)
    OBVIOUS
  <2>1. ASSUME Quiet(t, i, j, f), NEW k \in (i + 1)..(j + 1)
        PROVE  ~Touches(s, k, f)
    <3>1. k - 1 \in i..j /\ k - 1 \in 1..n /\ (k - 1) + 1 = k
      BY <1>1
    <3>2. QED BY <3>1, <2>1, <1>3 DEF Quiet
  <2>2. ASSUME Quiet(s, i + 1, j + 1, f), NEW k \in i..j
        PROVE  ~Touches(t, k, f)
    <3>1. k + 1 \in (i + 1)..(j + 1) /\ k \in 1..n
      BY <1>1
    <3>2. QED BY <3>1, <2>2, <1>3 DEF Quiet
  <2>3. QED BY <2>1, <2>2 DEF Quiet
<1>5. \A k \in 1..n : /\ On(t, k) = On(s, k + 1)
                      /\ \A on : Fits(t, on, k) = Fits(s, on, k + 1)
  BY <1>1 DEF On, Fits
<1>6. (s[1].action = "Press") <=> ~shown
  BY <1>1, <1>2 DEF Leads, Quiet, Fits
<1> HIDE DEF t
<1>7. ASSUME NEW k \in 1..n, Touches(t, k, f)
      PROVE  /\ Quiet(t, 1, k - 1, f) => Fits(t, s[1].action # "Release", k)
             /\ \A j \in 1..(k - 1) :
                  Touches(t, j, f) /\ Quiet(t, j + 1, k - 1, f) => Fits(t, On(t, j), k)
  <2>1. /\ k + 1 \in 1..Len(s) /\ Touches(s, k + 1, f) /\ (k + 1) - 1 = k
        /\ k - 1 \in 0..n /\ 1 \in 1..(n + 1)
    BY <1>1, <1>3, <1>7
  <2>2. ASSUME Quiet(t, 1, k - 1, f)
        PROVE  Fits(t, s[1].action # "Release", k)
    <3>1. Quiet(s, 1 + 1, (k + 1) - 1, f)
      BY <2>1, <2>2, <1>4
    <3>2. Fits(s, On(s, 1), k + 1)
      BY <3>1, <2>1, <1>2 DEF Leads
    <3>3. QED BY <3>2, <1>5 DEF On
  <2>3. ASSUME NEW j \in 1..(k - 1), Touches(t, j, f), Quiet(t, j + 1, k - 1, f)
        PROVE  Fits(t, On(t, j), k)
    <3>1. /\ j \in 1..n /\ j + 1 \in 1..(n + 1) /\ j + 1 \in 1..((k + 1) - 1)
          /\ Touches(s, j + 1, f)
      BY <2>3, <1>1, <1>3
    <3>2. Quiet(s, (j + 1) + 1, (k + 1) - 1, f)
      BY <3>1, <2>1, <2>3, <1>4
    <3>3. Fits(s, On(s, j + 1), k + 1)
      BY <3>1, <3>2, <2>1 DEF Leads
    <3>4. QED BY <3>1, <3>3, <1>5
  <2>4. QED BY <2>2, <2>3
<1>8. Quiet(t, 1, n, f) => (held <=> s[1].action # "Release")
  BY <1>1, <1>2, <1>4 DEF Leads, On
<1>9. ASSUME NEW j \in 1..n, Touches(t, j, f), Quiet(t, j + 1, n, f)
      PROVE  held <=> On(t, j)
  <2>1. j + 1 \in 1..Len(s) /\ Touches(s, j + 1, f) /\ Quiet(s, (j + 1) + 1, Len(s), f)
    BY <1>1, <1>3, <1>4, <1>9
  <2>2. QED BY <2>1, <1>5 DEF Leads
<1>10. QED
  BY <1>1, <1>6, <1>7, <1>8, <1>9 DEF Leads, t

\* The handler takes the first event, not an event of f.
LEMMA LeadsPopOther ==
  ASSUME NEW s \in Seq(Event), s # <<>>, NEW f,
         NEW shown \in BOOLEAN, NEW held \in BOOLEAN,
         Leads(s, f, shown, held),
         ~(s[1].kind = "coordinate" /\ s[1].id = f)
  PROVE  Leads(Tail(s), f, shown, held)
<1> DEFINE t == Tail(s)
           n == Len(s) - 1
<1>1. /\ n \in Nat /\ Len(s) = n + 1 /\ Len(t) = n
      /\ \A k \in 1..n : t[k] = s[k + 1]
  OBVIOUS
<1>2. ~Touches(s, 1, f)
  BY DEF Touches
<1>3. \A k \in 1..n : Touches(t, k, f) <=> Touches(s, k + 1, f)
  BY <1>1 DEF Touches
<1>4. \A i \in 1..(n + 1), j \in 0..n :
        Quiet(t, i, j, f) => Quiet(s, i + 1, j + 1, f)
  <2> SUFFICES ASSUME NEW i \in 1..(n + 1), NEW j \in 0..n, Quiet(t, i, j, f),
                      NEW k \in (i + 1)..(j + 1)
               PROVE  ~Touches(s, k, f)
    BY DEF Quiet
  <2>1. k - 1 \in i..j /\ k - 1 \in 1..n /\ (k - 1) + 1 = k
    BY <1>1
  <2>2. QED BY <2>1, <1>3 DEF Quiet
<1>5. ASSUME NEW j \in 0..n, Quiet(t, 1, j, f)
      PROVE  Quiet(s, 1, j + 1, f)
  <2>1. Quiet(s, 1 + 1, j + 1, f)
    BY <1>1, <1>4, <1>5
  <2>2. QED BY <2>1, <1>2 DEF Quiet
<1>6. \A k \in 1..n : /\ On(t, k) = On(s, k + 1)
                      /\ \A on : Fits(t, on, k) = Fits(s, on, k + 1)
  BY <1>1 DEF On, Fits
<1> HIDE DEF t
<1>7. ASSUME NEW k \in 1..n, Touches(t, k, f)
      PROVE  /\ Quiet(t, 1, k - 1, f) => Fits(t, shown, k)
             /\ \A j \in 1..(k - 1) :
                  Touches(t, j, f) /\ Quiet(t, j + 1, k - 1, f) => Fits(t, On(t, j), k)
  <2>1. /\ k + 1 \in 1..Len(s) /\ Touches(s, k + 1, f) /\ (k + 1) - 1 = k
        /\ k - 1 \in 0..n /\ (k - 1) + 1 = k
    BY <1>1, <1>3, <1>7
  <2>2. ASSUME Quiet(t, 1, k - 1, f)
        PROVE  Fits(t, shown, k)
    <3>1. Quiet(s, 1, (k + 1) - 1, f)
      BY <2>1, <2>2, <1>5
    <3>2. QED BY <3>1, <2>1, <1>6 DEF Leads
  <2>3. ASSUME NEW j \in 1..(k - 1), Touches(t, j, f), Quiet(t, j + 1, k - 1, f)
        PROVE  Fits(t, On(t, j), k)
    <3>1. /\ j \in 1..n /\ j + 1 \in 1..(n + 1) /\ j + 1 \in 1..((k + 1) - 1)
          /\ Touches(s, j + 1, f)
      BY <2>3, <1>1, <1>3
    <3>2. Quiet(s, (j + 1) + 1, (k + 1) - 1, f)
      BY <3>1, <2>1, <2>3, <1>4
    <3>3. Fits(s, On(s, j + 1), k + 1)
      BY <3>1, <3>2, <2>1 DEF Leads
    <3>4. QED BY <3>1, <3>3, <1>6
  <2>4. QED BY <2>2, <2>3
<1>8. Quiet(t, 1, n, f) => (held <=> shown)
  BY <1>1, <1>5 DEF Leads
<1>9. ASSUME NEW j \in 1..n, Touches(t, j, f), Quiet(t, j + 1, n, f)
      PROVE  held <=> On(t, j)
  <2>1. j + 1 \in 1..Len(s) /\ Touches(s, j + 1, f) /\ Quiet(s, (j + 1) + 1, Len(s), f)
    BY <1>1, <1>3, <1>4, <1>9
  <2>2. QED BY <2>1, <1>6 DEF Leads
<1>10. QED
  BY <1>1, <1>7, <1>8, <1>9 DEF Leads, t

-----------------------------------------------------------------------------
(* Type correctness.                                                       *)

\* The provers treat Boolean variables and arithmetic apart, so the two halves
\* of TypeOK do as well.
Flags ==
  /\ sensing \in BOOLEAN
  /\ fw_workdone \in BOOLEAN
  /\ slot \in [Fingers -> BOOLEAN]
  /\ btn \in BOOLEAN
  /\ dirty \in BOOLEAN

Data ==
  /\ down \in SUBSET Fingers
  /\ stack \in Seq(Event)
  /\ coord \in [Fingers -> Action]
  /\ touch_count \in Nat
  /\ event_errcnt \in 0..(ErrLimit + 1)
  /\ irq_thread \in {"idle", "reading"}
  /\ read_event_count \in 0..MAX_EVENT_COUNT
  /\ op \in [OpNames -> OpSteps]
  /\ calls \in 0..5
  /\ faults \in 0..MaxFaults
  /\ view \in Views
  /\ OpProceeds

LEMMA TypeHalves == TypeOK /\ OpProceeds <=> Flags /\ Data
BY DEF TypeOK, Flags, Data

LEMMA TypeInit == Init => Flags /\ Data
<1>1. Init => Flags
  BY DEF Init, Flags
<1>2. Init => Data
  BY ConstantsAssumption
     DEF Init, Data, OpProceeds, OpSteps, OpNames, Views, Action
<1>3. QED BY <1>1, <1>2

LEMMA PushedEvents ==
  /\ \A f \in Fingers : \A a \in {"Press", "Move", "Release"} : Touch(f, a) \in Event
  /\ \A kind \in {"boot", "status", "ignored"} \union AckKinds : Of(kind) \in Event
BY DEF Touch, Of, Event, Coordinate, Signal, Action

LEMMA FlagsStep == Flags /\ [Next]_vars => Flags'
<1> SUFFICES ASSUME Flags, [Next]_vars PROVE Flags'
  OBVIOUS
<1>1. ASSUME Sensor PROVE Flags'
  BY <1>1 DEF Sensor, FingerDown, FingerMove, FingerUp, SensorSignal, Push,
              WatchdogReset, Reboot, Flags, report
<1>2. ASSUME sec_ts_irq_thread PROVE Flags'
  BY <1>2 DEF sec_ts_irq_thread, Flags, sensor, report
<1>3. ASSUME sec_ts_release_all_finger
      PROVE  slot' \in [Fingers -> BOOLEAN] /\ btn' \in BOOLEAN /\ dirty' \in BOOLEAN
  BY <1>3 DEF sec_ts_release_all_finger
<1>4. ASSUME ReadFails PROVE Flags'
  BY <1>3, <1>4 DEF ReadFails, Flags, sensor, report
<1>5. ASSUME ReadTooMany \/ ReadStatus \/ ReadIgnored PROVE Flags'
  BY <1>5 DEF ReadTooMany, ReadStatus, ReadIgnored, ReadOne, Flags, report
<1>6. ASSUME ReadBoot PROVE Flags'
  BY <1>3, <1>6 DEF ReadBoot, ReadOne, Flags
<1>7. ASSUME ReadCoordinate PROVE Flags'
  <2>1. slot' \in [Fingers -> BOOLEAN] /\ btn' \in BOOLEAN
    BY <1>7 DEF ReadCoordinate, Press, Move, Release, Flags
  <2>2. QED
    BY <1>7, <2>1 DEF ReadCoordinate, ReadOne, Flags
<1>8. ASSUME get_tsp_nvm_data PROVE Flags'
  BY <1>3, <1>8 DEF get_tsp_nvm_data, NvmCall, SenseOn, Flags, report
<1>9. ASSUME sec_ts_sw_reset PROVE Flags'
  BY <1>9 DEF sec_ts_sw_reset, Reboot, Flags, sensor, report
<1>10. ASSUME NEW name \in OpNames,
              \/ OpBegin(name) \/ OpMask(name) \/ OpCommand(name)
              \/ OpWaitRead(name) \/ OpWaitFails(name) \/ OpUnmask(name)
       PROVE  Flags'
  BY <1>10 DEF OpBegin, OpMask, OpCommand, OpWaitRead, OpWaitFails, OpUnmask,
               Flags, sensor, report
<1>11. CASE UNCHANGED vars
  BY <1>11 DEF vars, sensor, report, Flags
<1>12. QED
  BY <1>1, <1>2, <1>4, <1>5, <1>6, <1>7, <1>8, <1>9, <1>10, <1>11
     DEF Next, sec_ts_read_event, Operation

LEMMA DataStep == Data /\ [Next]_vars => Data'
<1> SUFFICES ASSUME Data, [Next]_vars PROVE Data'
  OBVIOUS
<1> USE ConstantsAssumption
<1>1. ASSUME NEW f \in Fingers, FingerDown(f) \/ FingerMove(f) \/ FingerUp(f)
      PROVE  Data'
  <2>1. \E a \in {"Press", "Move", "Release"} : Push(Touch(f, a))
    BY <1>1 DEF FingerDown, FingerMove, FingerUp
  <2>2. stack' \in Seq(Event)
    BY <2>1, PushedEvents DEF Push, Data
  <2>3. down' \in SUBSET Fingers
    BY <1>1 DEF FingerDown, FingerMove, FingerUp, Data
  <2>4. QED
    BY <2>1, <2>2, <2>3 DEF Push, Data, operations, OpProceeds, report, handler
<1>2. ASSUME NEW kind \in {"status", "ignored"} \union AckKinds, SensorSignal(kind)
      PROVE  Data'
  <2>1. stack' \in Seq(Event)
    BY <1>2, PushedEvents DEF SensorSignal, Push, Data
  <2>2. QED
    BY <1>2, <2>1 DEF SensorSignal, Push, Data, operations, OpProceeds, report, handler
<1>3. <<Of("boot")>> \in Seq(Event) /\ <<>> \in Seq(Event)
  BY PushedEvents
<1>4. ASSUME WatchdogReset PROVE Data'
  BY <1>3, <1>4 DEF WatchdogReset, Reboot, Data, operations, OpProceeds, report, handler, Views
<1>5. ASSUME sec_ts_irq_thread PROVE Data'
  BY <1>5 DEF sec_ts_irq_thread, Data, operations, OpProceeds, sensor, report
<1>6. Rest \in Seq(Event)
  BY DEF Rest, Data
<1>7. ASSUME sec_ts_release_all_finger
      PROVE  coord' \in [Fingers -> Action] /\ touch_count' \in Nat
  BY <1>7 DEF sec_ts_release_all_finger, Data, Action
<1>8. ASSUME ReadFails PROVE Data'
  <2>1. coord' \in [Fingers -> Action] /\ touch_count' \in Nat
    BY <1>7, <1>8 DEF ReadFails, Data, report
  <2>2. event_errcnt' \in 0..(ErrLimit + 1) /\ faults' \in 0..MaxFaults
    BY <1>8 DEF ReadFails, BusFault, BusFaults, Data
  <2>3. view' \in Views
    BY <1>8 DEF ReadFails, Data, Views
  <2>4. QED
    BY <1>8, <2>1, <2>2, <2>3 DEF ReadFails, Return, Data, operations, OpProceeds, sensor
<1>9. ASSUME ReadTooMany PROVE Data'
  <2>1. stack' \in Seq(Event)
    BY <1>3, <1>6, <1>9 DEF ReadTooMany
  <2>2. faults' \in 0..MaxFaults
    BY <1>9 DEF ReadTooMany, BusFault, BusFaults, Data
  <2>3. QED
    BY <1>9, <2>1, <2>2 DEF ReadTooMany, ReadOne, Return, Data, operations, OpProceeds, report, Views
<1>10. ASSUME ReadStatus PROVE Data'
  BY <1>6, <1>10 DEF ReadStatus, ReadOne, Return, Data, operations, OpProceeds
<1>11. ASSUME ReadBoot PROVE Data'
  <2>1. coord' \in [Fingers -> Action] /\ touch_count' \in Nat
    BY <1>7, <1>11 DEF ReadBoot, Data
  <2>2. view' \in Views
    BY <1>11 DEF ReadBoot, Data, Views
  <2>3. QED
    BY <1>6, <1>11, <2>1, <2>2 DEF ReadBoot, ReadOne, Return, Data, operations, OpProceeds
<1>12. ASSUME ReadIgnored PROVE Data'
  BY <1>6, <1>12 DEF ReadIgnored, ReadOne, Data, operations, OpProceeds, report
<1>13. ASSUME ReadCoordinate PROVE Data'
  <2>1. /\ Head(stack).id \in Fingers
        /\ Head(stack).action \in {"Press", "Move", "Release"}
    <3>1. stack # <<>> /\ Head(stack) \in Event
      BY <1>13 DEF ReadCoordinate, NextKind, Data
    <3>2. QED
      BY <1>13, <3>1, EventKinds DEF ReadCoordinate, NextKind
  <2>2. coord' \in [Fingers -> Action]
    BY <1>13, <2>1 DEF ReadCoordinate, Data, Action
  <2>3. \/ touch_count' = touch_count
        \/ touch_count' = touch_count + 1
        \/ touch_count > 0 /\ touch_count' = touch_count - 1
    <3>1. \/ Release(Head(stack).id) \/ Press(Head(stack).id) \/ Move(Head(stack).id)
      BY <1>13 DEF ReadCoordinate
    <3>2. QED BY <3>1 DEF Release, Press, Move
  <2>4. touch_count' \in Nat
    BY <2>3 DEF Data
  <2>5. QED
    BY <1>6, <1>13, <2>2, <2>4 DEF ReadCoordinate, ReadOne, Data, operations, OpProceeds
<1>14. ASSUME NEW name \in OpNames, NEW step \in OpSteps,
              op' = [op EXCEPT ![name] = step]
       PROVE  op' \in [OpNames -> OpSteps]
  BY <1>14 DEF Data
<1>15. ASSUME NEW name \in OpNames,
              \/ OpBegin(name) \/ OpMask(name) \/ OpCommand(name)
              \/ OpWaitFails(name) \/ OpUnmask(name)
       PROVE  Data'
  <2>1. \E step \in OpSteps \ {"nvm"} : op' = [op EXCEPT ![name] = step]
    BY <1>15 DEF OpBegin, OpMask, OpCommand, OpWaitFails, OpUnmask, OpSteps
  <2>2. op' \in [OpNames -> OpSteps]
    BY <1>14, <2>1
  <2>3. UNCHANGED calls
    BY <1>15 DEF OpBegin, OpMask, OpCommand, OpWaitFails, OpUnmask
  <2>4. op'["calibrate"] = "nvm" => op["calibrate"] = "nvm"
    BY <2>1 DEF Data, OpNames
  <2>5. OpProceeds'
    BY <2>3, <2>4 DEF Data, operations, OpProceeds
  <2>6. faults' \in 0..MaxFaults
    BY <1>15 DEF OpBegin, OpMask, OpCommand, OpWaitFails, OpUnmask, BusFault,
                 BusFaults, Data
  <2>7. QED
    BY <1>15, <2>2, <2>3, <2>5, <2>6 DEF OpBegin, OpMask, OpCommand, OpWaitFails,
                                   OpUnmask, Data, sensor, report, handler
<1>16. ASSUME NEW name \in OpNames, OpWaitRead(name) PROVE Data'
  <2>1. \/ UNCHANGED operations
        \/ op' = [op EXCEPT ![name] = "reset"] /\ UNCHANGED calls
        \/ op' = [op EXCEPT ![name] = "nvm"] /\ calls' \in 1..5
    <3>1. \A n \in {3, 5} : n \in 1..5
      OBVIOUS
    <3>2. QED BY <1>16, <3>1 DEF OpWaitRead
  <2>2. op' \in [OpNames -> OpSteps]
    BY <2>1, <1>14 DEF OpSteps, operations, Data
  <2>3. calls' \in 0..5
    BY <2>1 DEF operations, Data
  <2>4. OpProceeds'
    <3>1. calls' \in 1..5 \/ (calls' = calls /\ (op'["calibrate"] = "nvm" => op["calibrate"] = "nvm"))
      BY <2>1 DEF operations, Data, OpNames
    <3>2. QED BY <3>1 DEF Data, operations, OpProceeds
  <2>5. view' \in Views
    BY <1>16 DEF OpWaitRead, Data, Views
  <2>6. QED
    BY <1>6, <1>16, <2>2, <2>3, <2>4, <2>5 DEF OpWaitRead, Data, report, handler
<1>17. ASSUME get_tsp_nvm_data PROVE Data'
  <2>1. /\ op["calibrate"] = "nvm" /\ calls \in 1..5 /\ calls' = calls - 1
        /\ \E step \in {"unmask", "nvm"} : /\ op' = [op EXCEPT !["calibrate"] = step]
                                           /\ calls = 1 => step = "unmask"
    BY <1>17 DEF get_tsp_nvm_data, NvmCall, Data, operations, OpProceeds
  <2>2. op' \in [OpNames -> OpSteps]
    BY <2>1, <1>14 DEF OpSteps, OpNames
  <2>3. calls' \in 0..5
    BY <2>1
  <2>4. OpProceeds'
    <3>1. op'["calibrate"] = "nvm" => calls # 1
      BY <2>1 DEF OpNames, Data
    <3>2. QED BY <2>1, <3>1 DEF OpProceeds
  <2>5. coord' \in [Fingers -> Action] /\ touch_count' \in Nat
    BY <1>7, <1>17 DEF get_tsp_nvm_data, Data, report
  <2>6. stack' \in Seq(Event) /\ down' \in SUBSET Fingers
    BY <1>3, <1>17 DEF get_tsp_nvm_data, Data
  <2>7. faults' \in 0..MaxFaults /\ view' \in Views
    BY <1>17 DEF get_tsp_nvm_data, SenseOn, BusFaults, Data, Views
  <2>8. QED
    BY <1>17, <2>2, <2>3, <2>4, <2>5, <2>6, <2>7 DEF get_tsp_nvm_data, NvmCall,
                                                     Data, handler
<1>18. ASSUME sec_ts_sw_reset PROVE Data'
  <2>1. stack' \in Seq(Event) /\ down' \in SUBSET Fingers /\ view' \in Views
    BY <1>3, <1>18 DEF sec_ts_sw_reset, Reboot, Data, Views, sensor
  <2>2. faults' \in 0..MaxFaults
    BY <1>18 DEF sec_ts_sw_reset, BusFault, BusFaults, Data
  <2>3. QED
    BY <1>18, <2>1, <2>2 DEF sec_ts_sw_reset, OpSteps, OpNames, Data, operations, OpProceeds, report, handler
<1>19. CASE UNCHANGED vars
  BY <1>19 DEF vars, sensor, report, handler, Data, operations, OpProceeds
<1>20. \A name \in OpNames : Ack[name] \in AckKinds
  BY DEF AckKinds
<1>21. ASSUME Sensor PROVE Data'
  BY <1>1, <1>2, <1>4, <1>20, <1>21 DEF Sensor
<1>22. QED
  BY <1>5, <1>8, <1>9, <1>10, <1>11, <1>12, <1>13, <1>15, <1>16, <1>17, <1>18,
     <1>19, <1>21
     DEF Next, sec_ts_read_event, Operation

\* The model's variables keep their types.
THEOREM TypeCorrect == Spec => [](TypeOK /\ OpProceeds)
<1>1. Spec => [](Flags /\ Data)
  BY TypeInit, FlagsStep, DataStep, PTL DEF Spec
<1>2. QED
  BY <1>1, TypeHalves, PTL

-----------------------------------------------------------------------------
(* The pending events.                                                     *)

Pending == PendingEventsLeadToSensor /\ BootComesFirst

\* Taking an event that touches no finger leaves every finger as it leads.
LEMMA PopSignal ==
  ASSUME Flags, Data, Pending, view # "lost", NextKind # "coordinate"
  PROVE  \A f \in Fingers : Leads(Rest, f, Shown(f), f \in down)
<1> SUFFICES ASSUME NEW f \in Fingers PROVE Leads(Rest, f, Shown(f), f \in down)
  OBVIOUS
<1> DEFINE shown == Shown(f)
           held == f \in down
<1>1. shown \in BOOLEAN /\ held \in BOOLEAN /\ Leads(stack, f, shown, held)
  BY DEF Pending, PendingEventsLeadToSensor, Shown
<1>2. CASE stack = <<>>
  BY <1>1, <1>2 DEF Rest
<1>3. CASE stack # <<>>
  <2>1. stack \in Seq(Event) /\ Rest = Tail(stack) /\ stack[1].kind # "coordinate"
    BY <1>3 DEF Rest, NextKind, Data
  <2> HIDE DEF shown, held
  <2>2. Leads(Tail(stack), f, shown, held)
    BY <1>1, <1>3, <2>1, LeadsPopOther
  <2>3. QED BY <2>1, <2>2 DEF shown, held
<1>4. QED BY <1>2, <1>3

\* An event taken while a reset is pending is its announcement; afterwards, and
\* with no reset pending, no announcement is left.
LEMMA PopBoot ==
  ASSUME Data, Pending, view # "lost"
  PROVE  /\ view = "resetting" => NextKind = "boot"
         /\ view = "synced" => NextKind # "boot"
         /\ \A k \in 1..Len(Rest) : Rest[k].kind # "boot"
<1>1. stack \in Seq(Event) /\ view \in {"synced", "resetting"}
  BY DEF Data, Views
<1>2. CASE stack = <<>>
  BY <1>1, <1>2 DEF Pending, BootComesFirst, NextKind, Rest
<1>3. CASE stack # <<>>
  <2>1. /\ Rest = Tail(stack) /\ NextKind = stack[1].kind /\ 1 \in 1..Len(stack)
        /\ \A k \in 1..Len(Rest) : k + 1 \in 1..Len(stack) /\ Rest[k] = stack[k + 1]
                                   /\ k + 1 # 1
    BY <1>1, <1>3 DEF Rest, NextKind
  <2>2. QED BY <2>1, <1>1 DEF Pending, BootComesFirst
<1>4. QED BY <1>2, <1>3

\* A signal other than an announcement is pushed.
LEMMA PushSignal ==
  ASSUME Flags, Data, Pending, NEW e \in Event, Push(e), UNCHANGED down,
         e.kind \notin {"coordinate", "boot"}
  PROVE  Pending'
<1>1. stack \in Seq(Event) /\ stack' = Append(stack, e)
      /\ UNCHANGED <<view, slot, down, fw_workdone>>
  BY DEF Data, Push, report
<1>2. ASSUME NEW f \in Fingers, view # "lost"
      PROVE  Leads(stack', f, Shown(f), f \in down)
  <2> DEFINE shown == Shown(f)
             held == f \in down
  <2>1. shown \in BOOLEAN /\ held \in BOOLEAN /\ Leads(stack, f, shown, held)
    BY <1>2 DEF Pending, PendingEventsLeadToSensor, Shown
  <2> HIDE DEF shown, held
  <2>2. Leads(Append(stack, e), f, shown, held)
    BY <1>1, <2>1, LeadsPushOther
  <2>3. QED BY <1>1, <2>2 DEF shown, held
<1>3. PendingEventsLeadToSensor'
  BY <1>1, <1>2 DEF PendingEventsLeadToSensor, Shown
<1>4. BootComesFirst'
  BY <1>1 DEF Pending, BootComesFirst
<1>5. QED BY <1>3, <1>4 DEF Pending

\* The sensor pushes a touch that continues what it holds.
LEMMA PushTouch ==
  ASSUME Flags, Data, Pending, NEW g \in Fingers,
         NEW a \in {"Press", "Move", "Release"},
         Push(Touch(g, a)), (a = "Press") <=> g \notin down,
         down' = IF a = "Release" THEN down \ {g} ELSE down \union {g}
  PROVE  Pending'
<1> DEFINE e == Touch(g, a)
<1>1. /\ stack \in Seq(Event) /\ stack' = Append(stack, e)
      /\ UNCHANGED <<view, slot, fw_workdone>>
  BY DEF Data, Push, report
<1>2. e \in Event /\ e.kind = "coordinate" /\ e.id = g /\ e.action = a
  BY PushedEvents DEF Touch
<1> HIDE DEF e
<1>3. ASSUME NEW f \in Fingers, view # "lost"
      PROVE  Leads(stack', f, Shown(f), f \in down')
  <2> DEFINE shown == Shown(f)
             held == f \in down
  <2>1. shown \in BOOLEAN /\ held \in BOOLEAN /\ Leads(stack, f, shown, held)
    BY <1>3 DEF Pending, PendingEventsLeadToSensor, Shown
  <2>2. CASE f = g
    <3>1. (e.action = "Press") <=> ~held
      BY <1>2, <2>2
    <3> HIDE DEF shown, held
    <3>2. Leads(Append(stack, e), f, shown, e.action # "Release")
      BY <1>1, <1>2, <2>1, <2>2, <3>1, LeadsPush
    <3>3. (e.action # "Release") <=> f \in down'
      BY <1>2, <2>2
    <3>4. (e.action # "Release") = (f \in down')
      BY <3>3
    <3>5. QED BY <1>1, <3>2, <3>4 DEF shown
  <2>3. CASE f # g
    <3>1. (f \in down') = held
      BY <2>3
    <3> HIDE DEF shown, held
    <3>2. Leads(Append(stack, e), f, shown, held)
      BY <1>1, <1>2, <2>1, <2>3, LeadsPushOther
    <3>3. QED BY <1>1, <3>1, <3>2 DEF shown
  <2>4. QED BY <2>2, <2>3
<1>4. PendingEventsLeadToSensor'
  BY <1>1, <1>3 DEF PendingEventsLeadToSensor, Shown
<1>5. BootComesFirst'
  BY <1>1, <1>2 DEF Pending, BootComesFirst
<1>6. QED BY <1>4, <1>5 DEF Pending

\* The announcement of a reset leads every finger to lifted.
LEMMA RebootPending ==
  ASSUME Reboot, UNCHANGED fw_workdone PROVE Pending'
<1>1. /\ <<Of("boot")>> = Append(<<>>, Of("boot"))
      /\ Of("boot") \in Event /\ <<>> \in Seq(Event) /\ Of("boot").kind = "boot"
  BY PushedEvents DEF Of
<1>2. ASSUME NEW f \in Fingers PROVE Leads(stack', f, FALSE, FALSE)
  <2>1. Leads(<<>>, f, FALSE, FALSE)
    BY LeadsEmpty
  <2>2. Leads(Append(<<>>, Of("boot")), f, FALSE, FALSE)
    BY <1>1, <2>1, LeadsPushOther
  <2>3. QED BY <1>1, <2>2 DEF Reboot
<1>3. view' # "synced" /\ down' = {}
  BY DEF Reboot
<1>4. ASSUME NEW f \in Fingers PROVE Shown(f)' = FALSE /\ (f \in down') = FALSE
  BY <1>3 DEF Shown
<1>5. PendingEventsLeadToSensor'
  BY <1>2, <1>4 DEF PendingEventsLeadToSensor
<1>6. BootComesFirst'
  BY <1>1 DEF Reboot, BootComesFirst
<1>7. QED BY <1>5, <1>6 DEF Pending

\* A step that leaves alone what Pending speaks of.
LEMMA PendingStutter ==
  ASSUME Pending, UNCHANGED <<view, slot, down, stack, fw_workdone>>
  PROVE  Pending'
BY DEF Pending, PendingEventsLeadToSensor, BootComesFirst, Shown

\* A step after which nothing is claimed of the pending events.
LEMMA PendingLost == ASSUME view' = "lost" PROVE Pending'
BY DEF Pending, PendingEventsLeadToSensor, BootComesFirst

\* Nothing pending and nothing held, nothing shown.
LEMMA PendingClear ==
  ASSUME view' = "synced", stack' = <<>>, down' = {},
         \A f \in Fingers : slot'[f] = FALSE
  PROVE  Pending'
<1>1. ASSUME NEW f \in Fingers PROVE Shown(f)' = FALSE /\ (f \in down') = FALSE
  BY DEF Shown
<1>2. ASSUME NEW f \in Fingers PROVE Leads(stack', f, FALSE, FALSE)
  BY LeadsEmpty
<1>3. PendingEventsLeadToSensor'
  BY <1>1, <1>2 DEF PendingEventsLeadToSensor
<1>4. BootComesFirst'
  BY DEF BootComesFirst
<1>5. QED BY <1>3, <1>4 DEF Pending

\* An event that is no touch and no announcement is taken.
LEMMA PendingPop ==
  ASSUME Flags, Data, Pending, stack' = Rest,
         UNCHANGED <<view, slot, down, fw_workdone>>,
         NextKind \notin {"coordinate", "boot"}
  PROVE  Pending'
<1>1. CASE view = "lost"
  BY <1>1, PendingLost
<1>2. CASE view # "lost"
  <2>1. \A f \in Fingers : Leads(Rest, f, Shown(f), f \in down)
    BY <1>2, PopSignal
  <2>2. PendingEventsLeadToSensor'
    BY <2>1 DEF PendingEventsLeadToSensor, Shown
  <2>3. view = "synced" /\ \A k \in 1..Len(Rest) : Rest[k].kind # "boot"
    BY <1>2, PopBoot DEF Data, Views
  <2>4. BootComesFirst'
    BY <2>3 DEF BootComesFirst
  <2>5. QED BY <2>2, <2>4 DEF Pending
<1>3. QED BY <1>1, <1>2

LEMMA ReleasedSlots ==
  ASSUME sec_ts_release_all_finger
  PROVE  /\ \A f \in Fingers : slot'[f] = FALSE
         /\ touch_count' = 0 /\ btn' = FALSE
BY DEF sec_ts_release_all_finger

LEMMA PendingStep == Flags /\ Data /\ Pending /\ [Next]_vars => Pending'
<1> SUFFICES ASSUME Flags, Data, Pending, [Next]_vars PROVE Pending'
  OBVIOUS
<1>1. ASSUME NEW f \in Fingers, FingerDown(f) \/ FingerMove(f) \/ FingerUp(f)
      PROVE  Pending'
  <2>1. CASE FingerDown(f)
    <3>1. /\ Push(Touch(f, "Press")) /\ f \notin down
          /\ down' = IF "Press" = "Release" THEN down \ {f} ELSE down \union {f}
      BY <2>1 DEF FingerDown
    <3>2. QED BY <3>1, PushTouch
  <2>2. CASE FingerMove(f)
    <3>1. /\ Push(Touch(f, "Move")) /\ f \in down
          /\ down' = IF "Move" = "Release" THEN down \ {f} ELSE down \union {f}
      BY <2>2 DEF FingerMove
    <3>2. QED BY <3>1, PushTouch
  <2>3. CASE FingerUp(f)
    <3>1. /\ Push(Touch(f, "Release")) /\ f \in down
          /\ down' = IF "Release" = "Release" THEN down \ {f} ELSE down \union {f}
      BY <2>3 DEF FingerUp
    <3>2. QED BY <3>1, PushTouch
  <2>4. QED BY <1>1, <2>1, <2>2, <2>3
<1>2. ASSUME NEW kind \in {"status", "ignored"} \union AckKinds, SensorSignal(kind)
      PROVE  Pending'
  <2>1. Of(kind) \in Event /\ Of(kind).kind \notin {"coordinate", "boot"}
    BY PushedEvents, EventKinds DEF Of
  <2>2. QED BY <1>2, <2>1, PushSignal DEF SensorSignal
<1>3. ASSUME WatchdogReset PROVE Pending'
  BY <1>3, RebootPending DEF WatchdogReset
<1>4. ASSUME sec_ts_irq_thread PROVE Pending'
  BY <1>4, PendingStutter DEF sec_ts_irq_thread, sensor, report
<1>5. ASSUME ReadFails PROVE Pending'
  <2>1. CASE /\ sec_ts_release_all_finger
             /\ view' = "synced" /\ down = {} /\ stack = <<>>
    BY <1>5, <2>1, ReleasedSlots, PendingClear DEF ReadFails, sensor
  <2>2. CASE sec_ts_release_all_finger /\ view # "synced" /\ view' = view
    <3>1. UNCHANGED <<view, down, stack, fw_workdone>>
      BY <1>5, <2>2 DEF ReadFails, sensor
    <3>2. QED BY <2>2, <3>1 DEF Pending, PendingEventsLeadToSensor, BootComesFirst, Shown
  <2>3. CASE view' = "lost"
    BY <2>3, PendingLost
  <2>4. CASE UNCHANGED <<report, view>>
    BY <1>5, <2>4, PendingStutter DEF ReadFails, sensor, report
  <2>5. QED BY <1>5, <2>1, <2>2, <2>3, <2>4 DEF ReadFails
<1>6. ASSUME ReadTooMany PROVE Pending'
  <2>1. CASE stack = <<>>
    BY <1>6, <2>1, PendingStutter DEF ReadTooMany, ReadOne, Rest, report
  <2>2. CASE stack # <<>>
    BY <1>6, <2>2, PendingLost DEF ReadTooMany
  <2>3. QED BY <2>1, <2>2
<1>7. ASSUME ReadStatus PROVE Pending'
  BY <1>7, PendingPop, EventKinds DEF ReadStatus, ReadOne
<1>8. ASSUME ReadBoot PROVE Pending'
  <2>1. CASE view = "lost"
    BY <1>8, <2>1, PendingLost DEF ReadBoot
  <2>2. CASE view # "lost"
    <3>1. view = "resetting" /\ fw_workdone /\ \A k \in 1..Len(Rest) : Rest[k].kind # "boot"
      BY <1>8, <2>2, PopBoot DEF ReadBoot, Data, Views, Pending, BootComesFirst
    <3>2. view' = "synced" /\ stack' = Rest /\ down' = down
          /\ \A f \in Fingers : slot'[f] = FALSE
      BY <1>8, <3>1, ReleasedSlots DEF ReadBoot, ReadOne
    <3>3. ASSUME NEW f \in Fingers PROVE Shown(f)' = FALSE /\ Shown(f) = FALSE
      BY <3>1, <3>2 DEF Shown
    <3>4. \A f \in Fingers : Leads(Rest, f, Shown(f), f \in down)
      BY <1>8, <2>2, PopSignal DEF ReadBoot
    <3>5. PendingEventsLeadToSensor'
      BY <3>2, <3>3, <3>4 DEF PendingEventsLeadToSensor
    <3>6. BootComesFirst'
      BY <3>1, <3>2 DEF BootComesFirst
    <3>7. QED BY <3>5, <3>6 DEF Pending
  <2>3. QED BY <2>1, <2>2
<1>9. ASSUME ReadIgnored PROVE Pending'
  BY <1>9, PendingPop DEF ReadIgnored, ReadOne, report
<1>10. ASSUME ReadCoordinate PROVE Pending'
  <2>1. CASE view = "lost"
    BY <1>10, <2>1, PendingLost DEF ReadCoordinate
  <2>2. CASE view # "lost"
    <3> DEFINE g == stack[1].id
               a == stack[1].action
    <3>1. view = "synced" /\ \A k \in 1..Len(Rest) : Rest[k].kind # "boot"
      BY <1>10, <2>2, PopBoot DEF ReadCoordinate, Data, Views
    <3>2. /\ stack \in Seq(Event) /\ stack # <<>> /\ Rest = Tail(stack)
          /\ stack[1].kind = "coordinate"
          /\ Head(stack) = stack[1] /\ stack[1] \in Event
      BY <1>10 DEF ReadCoordinate, NextKind, Rest, Data
    <3>3. g \in Fingers /\ a \in {"Press", "Move", "Release"}
      BY <3>2, EventKinds
    <3>4. slot' = [slot EXCEPT ![g] = (a # "Release")]
      <4>1. \/ a = "Release" /\ Release(g)
            \/ a = "Press" /\ Press(g)
            \/ a = "Move" /\ Move(g)
        BY <1>10, <3>2 DEF ReadCoordinate
      <4>2. QED BY <4>1 DEF Release, Press, Move
    <3>5. stack' = Rest /\ UNCHANGED <<view, down>>
      BY <1>10 DEF ReadCoordinate, ReadOne
    <3>6. ASSUME NEW f \in Fingers PROVE Leads(stack', f, Shown(f)', f \in down')
      <4> DEFINE shown == Shown(f)
                 held == f \in down
      <4>1. shown \in BOOLEAN /\ held \in BOOLEAN /\ Leads(stack, f, shown, held)
        BY <2>2 DEF Pending, PendingEventsLeadToSensor, Shown
      <4>2. CASE f = g
        <5>1. Shown(f)' = (a # "Release")
          BY <3>1, <3>3, <3>4, <3>5, <4>2 DEF Shown, Flags
        <5> HIDE DEF shown, held
        <5>2. Leads(Tail(stack), f, stack[1].action # "Release", held)
          BY <3>2, <4>1, <4>2, LeadsPop
        <5>3. QED BY <3>2, <3>5, <5>1, <5>2 DEF held
      <4>3. CASE f # g
        <5>1. Shown(f)' = Shown(f)
          BY <3>1, <3>4, <3>5, <4>3 DEF Shown, Flags
        <5> HIDE DEF shown, held
        <5>2. Leads(Tail(stack), f, shown, held)
          BY <3>2, <4>1, <4>3, LeadsPopOther
        <5>3. QED BY <3>2, <3>5, <5>1, <5>2 DEF shown, held
      <4>4. QED BY <4>2, <4>3
    <3>7. PendingEventsLeadToSensor'
      BY <3>6 DEF PendingEventsLeadToSensor
    <3>8. BootComesFirst'
      BY <3>1, <3>5 DEF BootComesFirst
    <3>9. QED BY <3>7, <3>8 DEF Pending
  <2>3. QED BY <2>1, <2>2
<1>11. ASSUME NEW name \in OpNames, OpWaitRead(name) PROVE Pending'
  <2>1. CASE view' = "lost"
    BY <2>1, PendingLost
  <2>2. CASE view' # "lost"
    <3>1. NextKind \notin {"coordinate", "boot"} /\ UNCHANGED view
      <4>1. Ack[name] \notin {"coordinate", "boot"}
        BY DEF OpNames, Ack
      <4>2. QED BY <1>11, <2>2, <4>1 DEF OpWaitRead
    <3>2. QED BY <1>11, <3>1, PendingPop DEF OpWaitRead, report
  <2>3. QED BY <2>1, <2>2
<1>12. ASSUME get_tsp_nvm_data PROVE Pending'
  <2>1. CASE /\ down' = {} /\ stack' = <<>> /\ sec_ts_release_all_finger
             /\ view' = "synced"
    BY <2>1, ReleasedSlots, PendingClear
  <2>2. CASE down' = {} /\ down # {} /\ view' = "lost"
    BY <2>2, PendingLost
  <2>3. CASE UNCHANGED <<down, stack, report, view>>
    BY <1>12, <2>3, PendingStutter DEF get_tsp_nvm_data, NvmCall, report
  <2>4. QED BY <1>12, <2>1, <2>2, <2>3 DEF get_tsp_nvm_data
<1>13. ASSUME sec_ts_sw_reset PROVE Pending'
  BY <1>13, RebootPending, PendingStutter DEF sec_ts_sw_reset, sensor, report
<1>14. ASSUME NEW name \in OpNames,
              \/ OpBegin(name) \/ OpMask(name) \/ OpCommand(name)
              \/ OpWaitFails(name) \/ OpUnmask(name)
       PROVE  Pending'
  <2>1. UNCHANGED <<sensor, report, fw_workdone, view>>
    BY <1>14 DEF OpBegin, OpMask, OpCommand, OpWaitFails, OpUnmask
  <2>2. QED BY <2>1, PendingStutter DEF sensor, report
<1>15. CASE UNCHANGED vars
  BY <1>15, PendingStutter DEF vars, sensor, report
<1>16. ASSUME Sensor PROVE Pending'
  BY <1>1, <1>2, <1>3, <1>16 DEF Sensor, AckKinds
<1>17. QED
  BY <1>4, <1>5, <1>6, <1>7, <1>8, <1>9, <1>10, <1>11, <1>12, <1>13, <1>14,
     <1>15, <1>16
     DEF Next, sec_ts_read_event, Operation

-----------------------------------------------------------------------------
(* The count, the keys and the slots.                                      *)

Reported ==
  /\ SlotsFollowCoord
  /\ CountedFingerHoldsButton
  /\ CountMatchesSlots
  /\ ButtonMatchesSlots

LEMMA ReportedStutter ==
  ASSUME Reported, UNCHANGED <<coord, touch_count, slot, btn>>,
         view' = "synced" => view = "synced"
  PROVE  Reported'
BY DEF Reported, SlotsFollowCoord, CountedFingerHoldsButton, CountMatchesSlots,
       ButtonMatchesSlots

LEMMA ReportedReleased ==
  ASSUME Data, Reported, sec_ts_release_all_finger PROVE Reported'
<1>1. SlotsFollowCoord'
  BY DEF sec_ts_release_all_finger, SlotsFollowCoord, Data, Action
<1>2. CountedFingerHoldsButton'
  BY DEF sec_ts_release_all_finger, CountedFingerHoldsButton
<1>3. \A f \in Fingers : slot'[f] = FALSE
  BY ReleasedSlots
<1>4. {f \in Fingers : slot[f]}' = {}
  BY <1>3
<1>5. CountMatchesSlots'
  BY <1>4, ReleasedSlots, FS_EmptySet DEF CountMatchesSlots
<1>6. ButtonMatchesSlots'
  BY <1>3, ReleasedSlots DEF ButtonMatchesSlots
<1>7. QED BY <1>1, <1>2, <1>5, <1>6 DEF Reported

\* One touch, of a finger that is up exactly when it is a press: the handler's
\* arithmetic follows the number of slots shown.
LEMMA ReportedTouch ==
  ASSUME Flags, Data, Reported, NEW g \in Fingers,
         NEW a \in {"Press", "Move", "Release"},
         \/ a = "Release" /\ Release(g)
         \/ a = "Press" /\ Press(g)
         \/ a = "Move" /\ Move(g),
         coord' = [coord EXCEPT ![g] = a], UNCHANGED view,
         view = "synced" => ((a = "Press") <=> ~slot[g])
  PROVE  Reported'
<1> DEFINE S == {f \in Fingers : slot[f]}
<1>1. /\ slot' = [slot EXCEPT ![g] = (a # "Release")]
      /\ slot' \in [Fingers -> BOOLEAN] /\ slot'[g] = (a # "Release")
      /\ \A f \in Fingers \ {g} : slot'[f] = slot[f]
  BY DEF Release, Press, Move, Flags
<1>2. SlotsFollowCoord'
  BY <1>1 DEF Reported, SlotsFollowCoord, Data
<1>3. CountedFingerHoldsButton'
  <2>1. CASE a = "Release"
    <3>1. CASE touch_count' = 0
      BY <3>1 DEF CountedFingerHoldsButton
    <3>2. CASE touch_count' # 0
      <4>1. touch_count > 0 /\ btn' = btn
        BY <2>1, <3>2 DEF Release, Data
      <4>2. btn
        BY <4>1 DEF Reported, CountedFingerHoldsButton
      <4>3. QED BY <4>1, <4>2 DEF CountedFingerHoldsButton
    <3>3. QED BY <3>1, <3>2
  <2>2. CASE a # "Release"
    BY <2>2 DEF Press, Move, CountedFingerHoldsButton
  <2>3. QED BY <2>1, <2>2
<1>4. ASSUME view = "synced"
      PROVE  touch_count' = Cardinality(S') /\ (btn' <=> \E f \in Fingers : slot'[f])
  <2>1. IsFiniteSet(S) /\ touch_count = Cardinality(S)
    BY <1>4, FS_Subset, ConstantsAssumption DEF Reported, CountMatchesSlots
  <2>2. CASE a = "Press"
    <3>1. S' = S \union {g} /\ g \notin S
      BY <1>1, <1>4, <2>2
    <3>2. touch_count' = Cardinality(S')
      BY <2>1, <2>2, <3>1, FS_AddElement DEF Press
    <3>3. QED BY <1>1, <2>2, <3>2 DEF Press
  <2>3. CASE a = "Move"
    <3>1. S' = S
      BY <1>1, <1>4, <2>3
    <3>2. QED BY <1>1, <2>1, <2>3, <3>1 DEF Move
  <2>4. CASE a = "Release"
    <3>1. S' = S \ {g} /\ g \in S
      BY <1>1, <1>4, <2>4
    <3>2. Cardinality(S') = Cardinality(S) - 1
      BY <2>1, <3>1, FS_RemoveElement
    <3>3. IsFiniteSet(S') /\ Cardinality(S) # 0
      BY <2>1, <3>1, FS_RemoveElement, FS_EmptySet
    <3>4. touch_count' = Cardinality(S')
      BY <2>1, <2>4, <3>2, <3>3 DEF Release, Data
    <3>5. touch_count' = 0 <=> S' = {}
      BY <3>3, <3>4, FS_EmptySet
    <3>6. btn' = IF touch_count' = 0 THEN FALSE ELSE btn
      BY <2>4 DEF Release
    <3>7. btn
      BY <1>4, <3>1 DEF Reported, ButtonMatchesSlots
    <3>8. btn' <=> S' # {}
      BY <3>5, <3>6, <3>7
    <3>9. QED BY <3>4, <3>8
  <2>5. QED BY <2>2, <2>3, <2>4
<1>5. CountMatchesSlots' /\ ButtonMatchesSlots'
  BY <1>4 DEF CountMatchesSlots, ButtonMatchesSlots
<1>6. QED BY <1>2, <1>3, <1>5 DEF Reported

LEMMA ReportedStep == Flags /\ Data /\ Pending /\ Reported /\ [Next]_vars => Reported'
<1> SUFFICES ASSUME Flags, Data, Pending, Reported, [Next]_vars PROVE Reported'
  OBVIOUS
<1>1. ASSUME Sensor PROVE Reported'
  <2>1. UNCHANGED report /\ (view' = "synced" => view = "synced")
    BY <1>1 DEF Sensor, FingerDown, FingerMove, FingerUp, SensorSignal, Push,
                WatchdogReset, Reboot
  <2>2. QED BY <2>1, ReportedStutter DEF report
<1>2. ASSUME sec_ts_irq_thread PROVE Reported'
  BY <1>2, ReportedStutter DEF sec_ts_irq_thread, report
<1>3. ASSUME ReadFails PROVE Reported'
  BY <1>3, ReportedReleased, ReportedStutter DEF ReadFails, report
<1>4. ASSUME ReadTooMany PROVE Reported'
  BY <1>4, ReportedStutter DEF ReadTooMany, report
<1>5. ASSUME ReadStatus PROVE Reported'
  BY <1>5, ReportedStutter DEF ReadStatus
<1>6. ASSUME ReadBoot PROVE Reported'
  BY <1>6, ReportedReleased, ReportedStutter DEF ReadBoot
<1>7. ASSUME ReadIgnored PROVE Reported'
  BY <1>7, ReportedStutter DEF ReadIgnored, report
<1>8. ASSUME ReadCoordinate PROVE Reported'
  <2> DEFINE g == stack[1].id
             a == stack[1].action
  <2>1. /\ stack \in Seq(Event) /\ stack # <<>> /\ stack[1].kind = "coordinate"
        /\ Head(stack) = stack[1] /\ stack[1] \in Event
    BY <1>8 DEF ReadCoordinate, NextKind, Data
  <2>2. g \in Fingers /\ a \in {"Press", "Move", "Release"}
    BY <2>1, EventKinds
  <2>3. view = "synced" => ((a = "Press") <=> ~slot[g])
    <3> SUFFICES ASSUME view = "synced" PROVE (a = "Press") <=> ~slot[g]
      OBVIOUS
    <3> DEFINE shown == Shown(g)
               held == g \in down
    <3>1. shown \in BOOLEAN /\ held \in BOOLEAN /\ Leads(stack, g, shown, held)
      BY <2>2 DEF Pending, PendingEventsLeadToSensor, Shown
    <3>2. shown <=> slot[g]
      BY DEF Shown
    <3> HIDE DEF shown, held
    <3>3. (a = "Press") <=> ~shown
      BY <2>1, <3>1, LeadsPop
    <3>4. QED BY <3>2, <3>3
  <2>4. /\ \/ a = "Release" /\ Release(g)
           \/ a = "Press" /\ Press(g)
           \/ a = "Move" /\ Move(g)
        /\ coord' = [coord EXCEPT ![g] = a]
        /\ UNCHANGED view
    BY <1>8, <2>1 DEF ReadCoordinate
  <2> HIDE DEF g, a
  <2>5. QED BY <2>2, <2>3, <2>4, ReportedTouch
<1>9. ASSUME get_tsp_nvm_data PROVE Reported'
  BY <1>9, ReportedReleased, ReportedStutter DEF get_tsp_nvm_data, NvmCall, report
<1>10. ASSUME sec_ts_sw_reset PROVE Reported'
  <2>1. UNCHANGED report /\ (view' = "synced" => view = "synced")
    BY <1>10 DEF sec_ts_sw_reset, Reboot
  <2>2. QED BY <2>1, ReportedStutter DEF report
<1>11. ASSUME NEW name \in OpNames,
              \/ OpBegin(name) \/ OpMask(name) \/ OpCommand(name)
              \/ OpWaitRead(name) \/ OpWaitFails(name) \/ OpUnmask(name)
       PROVE  Reported'
  <2>1. UNCHANGED report /\ (view' = "synced" => view = "synced")
    BY <1>11 DEF OpBegin, OpMask, OpCommand, OpWaitRead, OpWaitFails, OpUnmask
  <2>2. QED BY <2>1, ReportedStutter DEF report
<1>12. CASE UNCHANGED vars
  BY <1>12, ReportedStutter DEF vars, report
<1>13. QED
  BY <1>1, <1>2, <1>3, <1>4, <1>5, <1>6, <1>7, <1>8, <1>9, <1>10, <1>11, <1>12
     DEF Next, sec_ts_read_event, Operation

-----------------------------------------------------------------------------
(* The invariant and what follows from it.                                 *)

LEMMA InvariantHalves == IInv <=> Flags /\ Data /\ Pending /\ Reported
BY TypeHalves DEF IInv, Pending, Reported

LEMMA PendingInit == Init => Pending
<1> SUFFICES ASSUME Init PROVE Pending
  OBVIOUS
<1>1. \A f \in Fingers : Shown(f) = FALSE /\ (f \in down) = FALSE
  BY DEF Init, Shown
<1>2. \A f \in Fingers : Leads(stack, f, FALSE, FALSE)
  BY LeadsEmpty DEF Init
<1>3. PendingEventsLeadToSensor
  BY <1>1, <1>2 DEF PendingEventsLeadToSensor
<1>4. BootComesFirst
  BY DEF Init, BootComesFirst
<1>5. QED BY <1>3, <1>4 DEF Pending

LEMMA ReportedInit == Init => Reported
<1> SUFFICES ASSUME Init PROVE Reported
  OBVIOUS
<1>1. {f \in Fingers : slot[f]} = {}
  BY DEF Init
<1>2. CountMatchesSlots
  BY <1>1, FS_EmptySet DEF Init, CountMatchesSlots
<1>3. QED
  BY <1>2 DEF Init, Reported, SlotsFollowCoord, CountedFingerHoldsButton,
              ButtonMatchesSlots

\* IInv holds initially and every step keeps it.
THEOREM Invariant == Spec => []IInv
<1>1. Init => Flags /\ Data /\ Pending /\ Reported
  BY TypeInit, PendingInit, ReportedInit
<1>2. Flags /\ Data /\ Pending /\ Reported /\ [Next]_vars
      => (Flags /\ Data /\ Pending /\ Reported)'
  BY FlagsStep, DataStep, PendingStep, ReportedStep
<1>3. QED
  BY <1>1, <1>2, InvariantHalves, PTL DEF Spec

\* While no event was lost, ts->touch_count is the number of slots shown and
\* BTN_TOUCH is down exactly when there is one, for every number of fingers.
THEOREM CountAndButton == Spec => [](CountMatchesSlots /\ ButtonMatchesSlots)
<1>1. IInv => CountMatchesSlots /\ ButtonMatchesSlots
  BY DEF IInv
<1>2. QED BY <1>1, Invariant, PTL

\* Whatever was lost, BTN_TOUCH is down for a counted finger, and while nothing
\* was lost for a slot that is shown and no other.
THEOREM ButtonFollows == Spec => []ButtonFollowsFingers
<1>1. IInv => ButtonFollowsFingers
  BY DEF IInv, ButtonFollowsFingers
<1>2. QED BY <1>1, Invariant, PTL

\* Whatever was lost, the slots are those whose last coordinate is a contact.
THEOREM SlotsFollow == Spec => []SlotsFollowCoord
<1>1. IInv => SlotsFollowCoord
  BY DEF IInv
<1>2. QED BY <1>1, Invariant, PTL

\* Unless events were lost, the pending events lead from what is shown to what
\* the sensor tracks.
THEOREM PendingEvents == Spec => []PendingEventsLeadToSensor
<1>1. IInv => PendingEventsLeadToSensor
  BY DEF IInv
<1>2. QED BY <1>1, Invariant, PTL

\* With the stack drained and nothing lost, userspace sees the sensor's
\* fingers.
THEOREM DrainedSlots == Spec => []DrainedSlotsAreFingers
<1>1. IInv => DrainedSlotsAreFingers
  <2> SUFFICES ASSUME IInv, view = "synced", stack = <<>>, NEW f \in Fingers
               PROVE  slot[f] <=> f \in down
    BY DEF DrainedSlotsAreFingers, IInv, TypeOK
  <2> DEFINE shown == Shown(f)
             held == f \in down
  <2>1. shown \in BOOLEAN /\ held \in BOOLEAN /\ Leads(<<>>, f, shown, held)
    BY DEF IInv, PendingEventsLeadToSensor, Shown
  <2>2. shown <=> slot[f]
    BY DEF Shown
  <2> HIDE DEF shown
  <2>3. held <=> shown
    <3> HIDE DEF held
    <3>1. QED BY <2>1, LeadsEmpty
  <2>4. QED BY <2>2, <2>3
<1>2. QED BY <1>1, Invariant, PTL
=============================================================================
