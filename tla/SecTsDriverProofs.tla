------------------------- MODULE SecTsDriverProofs -------------------------
(***************************************************************************)
(* For every finite set of opens: the types, who may use the driver's data *)
(* after its kfree, and that an open of the selftest file that is alone    *)
(* owns the report.  The first argument counts masks: as many are in place *)
(* as probe, until the work, and the opens owe, so that the interrupt a    *)
(* failed probe leaves behind stays masked.                                *)
(***************************************************************************)
EXTENDS SecTsDriver, TLAPS, FiniteSetTheorems

LifeIsHere == ClientIsHere /\ LeftIsHere

-----------------------------------------------------------------------------
(* Counting the masks of the opens.                                        *)

LEMMA MaskingFinite == IsFiniteSet(Masking) /\ Cardinality(Masking) \in Nat
<1>1. IsFiniteSet(Masking)
  BY SelftestAssumption, FS_Subset DEF Masking, UnderWay
<1> QED BY <1>1, FS_CardinalityType

LEMMA MaskBegins ==
  ASSUME TypeOK, NEW o \in Opens, Takes(o, "closed", "type")
  PROVE  Cardinality(Masking') = Cardinality(Masking) + 1
<1>1. Masking' = Masking \union {o} /\ o \notin Masking
  BY DEF TypeOK, SelftestTypeOK, Takes, Masking, UnderWay
<1> QED BY <1>1, MaskingFinite, FS_AddElement

LEMMA MaskEnds ==
  ASSUME TypeOK, NEW o \in Opens,
         Takes(o, "unmask_done", "free") \/ Takes(o, "unmask_failed", "closed")
  PROVE  /\ Cardinality(Masking) \in Nat \ {0}
         /\ Cardinality(Masking') = Cardinality(Masking) - 1
<1>1. Masking' = Masking \ {o} /\ o \in Masking
  BY DEF TypeOK, SelftestTypeOK, Takes, Masking, UnderWay
<1>2. Cardinality(Masking) # 0
  BY <1>1, MaskingFinite, FS_EmptySet
<1> QED BY <1>1, <1>2, MaskingFinite, FS_RemoveElement

\* The steps of an open between its mask and its unmask, and its last.
LEMMA MaskStays ==
  ASSUME TypeOK, NEW o \in Opens, Proceeds(o)
  PROVE  /\ Masking' = Masking
         /\ UnderWay # {}
<1>1. \/ \E a, b \in OpenSteps \ {"closed", "free"} : Takes(o, a, b)
      \/ Takes(o, "free", "closed")
  BY DEF Proceeds, SelectsTest, RunsTest, Allocates, AsksForReport,
         ReadsReport, PrintsReport, Frees, Takes, OpenSteps
<1> QED BY <1>1 DEF TypeOK, SelftestTypeOK, Takes, Masking, UnderWay

\* What is owed by probe is a number, and so is the depth.
LEMMA OwedIsNumber ==
  /\ OwedByProbe \in 0 .. 1
  /\ OwedByProbe' \in 0 .. 1
BY DEF OwedByProbe

-----------------------------------------------------------------------------
(* The life of the client.                                                 *)

\* A step that leaves the opens alone leaves their counts.
LEMMA SameOpens ==
  ASSUME UNCHANGED selftest
  PROVE  Masking' = Masking /\ UnderWay' = UnderWay
BY DEF selftest, Masking, UnderWay

LifeTypeOK ==
  /\ client \in ProbeSteps \union {"unbound", "failed", "bound", "removing", "removed"}
  /\ {gpio, irq, handler, files, proc, probe_done, loaded} \subseteq BOOLEAN
  /\ ts \in {"none", "live", "freed"}
  /\ input \in {"none", "allocated", "registered", "freed"}
  /\ work \in WorkSteps /\ reset \in BOOLEAN
  /\ failed \in ProbeSteps \union {"nowhere", "setup"}

LEMMA ProbeKeepsLife ==
  ASSUME LifeTypeOK, LifeIsHere, sec_ts_probe
  PROVE  LifeTypeOK' /\ LifeIsHere'
<1> USE DEF Reaches, LifeTypeOK, LifeIsHere, ClientIsHere, LeftIsHere, ProbeSteps, WorkSteps,
            Came, AfterMask, Bound
<1>0. UnderWay' = UnderWay
  BY SameOpens DEF sec_ts_probe, SetsUp, AllocatesInput, ReadsId, RegistersInput,
     RequestsIrq, MasksIrq, MakesFiles, MakesProcFile, QueuesWork, EndsProbe, FailsAt
<1>1. CASE SetsUp
  <2>1. LifeTypeOK'
    BY <1>1 DEF SetsUp
  <2>2. ClientIsHere'
    BY <1>1 DEF SetsUp
  <2>3. LeftIsHere'
    <3>1. /\ ~files /\ ~reset /\ ~proc /\ ~handler /\ work = "none" /\ loaded
          /\ UnderWay = {}
      BY <1>1 DEF SetsUp
    <3>2. UNCHANGED <<files, reset, proc, handler, work, loaded>>
      BY <1>1 DEF SetsUp
    <3>3. UnderWay' = {}
      BY <1>0, <3>1
    <3> QED BY <3>1, <3>2, <3>3
  <2> QED BY <2>1, <2>2, <2>3
<1>2. CASE AllocatesInput
  BY <1>0, <1>2 DEF AllocatesInput, FailsAt
<1>3. CASE ReadsId
  BY <1>0, <1>3 DEF ReadsId, FailsAt
<1>4. CASE RegistersInput
  BY <1>0, <1>4 DEF RegistersInput, FailsAt
<1>5. CASE RequestsIrq
  <2>1. LifeTypeOK'
    BY <1>5 DEF RequestsIrq, FailsAt
  <2>2. ClientIsHere'
    BY <1>5 DEF RequestsIrq, FailsAt
  <2>3. LeftIsHere'
    BY <1>0, <1>5 DEF RequestsIrq, FailsAt
  <2> QED BY <2>1, <2>2, <2>3
<1>6. CASE MasksIrq
  BY <1>0, <1>6 DEF MasksIrq
<1>7. CASE MakesFiles
  BY <1>0, <1>7 DEF MakesFiles
<1>8. CASE MakesProcFile
  <2>1. LifeTypeOK'
    BY <1>8 DEF MakesProcFile, FailsAt
  <2>2. ClientIsHere'
    BY <1>8 DEF MakesProcFile, FailsAt
  <2>3. LeftIsHere'
    BY <1>0, <1>8 DEF MakesProcFile, FailsAt
  <2> QED BY <2>1, <2>2, <2>3
<1>9. CASE QueuesWork
  BY <1>0, <1>9 DEF QueuesWork, FailsAt
<1>10. CASE EndsProbe
  BY <1>0, <1>10 DEF EndsProbe
<1> QED
  BY <1>1, <1>2, <1>3, <1>4, <1>5, <1>6, <1>7, <1>8, <1>9, <1>10 DEF sec_ts_probe

LEMMA RemoveKeepsLife ==
  ASSUME LifeTypeOK, LifeIsHere, FreesIrq \/ FreesData \/ Unloads
  PROVE  LifeTypeOK' /\ LifeIsHere'
<1> USE DEF LifeTypeOK, LifeIsHere, ClientIsHere, LeftIsHere, ProbeSteps, WorkSteps,
            Came, AfterMask, Bound
<1>0. UnderWay' = UnderWay
  BY SameOpens DEF FreesIrq, FreesData, Unloads, Reaches
<1>1. CASE FreesIrq
  BY <1>0, <1>1 DEF FreesIrq, Reaches
<1>2. CASE FreesData
  BY <1>0, <1>2 DEF FreesData, Reaches
<1>3. CASE Unloads
  <2>1. LifeTypeOK' /\ ClientIsHere'
    BY <1>3 DEF Unloads, life
  <2>2. LeftIsHere'
    BY <1>0, <1>3 DEF Unloads, life
  <2> QED BY <2>1, <2>2
<1> QED BY <1>1, <1>2, <1>3

Users == HandlerStarts \/ HandlerEnds \/ TimerFires \/ WorkStarts \/ WorkEnds \/ ResetEnds

\* The handler and the works.  The handler starts only where no mask is owed.
LEMMA UsersKeepLife ==
  ASSUME LifeTypeOK, LifeIsHere, DepthIsOwed, Users
  PROVE  LifeTypeOK' /\ LifeIsHere'
<1> USE DEF LifeTypeOK, LifeIsHere, ClientIsHere, LeftIsHere, ProbeSteps, WorkSteps,
            Came, AfterMask, Bound
<1>0. UnderWay' = UnderWay
  BY SameOpens DEF Users, HandlerStarts, HandlerEnds, TimerFires, WorkStarts, WorkEnds, ResetEnds
<1>1. CASE HandlerStarts
  <2>1. OwedByProbe = 0
    BY <1>1, MaskingFinite, OwedIsNumber DEF HandlerStarts, DepthIsOwed
  <2>2. client = "mask" \/ (client = "bound" /\ work = "done")
    BY <1>1, <2>1 DEF HandlerStarts, OwedByProbe
  <2> QED
    BY <1>0, <1>1, <2>2 DEF HandlerStarts, life, left
<1>2. CASE HandlerEnds
  BY <1>0, <1>2 DEF HandlerEnds, life, left
<1>3. CASE TimerFires
  BY <1>0, <1>3 DEF TimerFires, life, left
<1>4. CASE WorkStarts
  <2>1. client \in {"end"} \union Bound
    BY <1>4 DEF WorkStarts
  <2>2. work' = "running" => client \in Bound
    BY <1>4, <2>1 DEF WorkStarts
  <2>3. work' \in {"running", "skipped"}
    BY <1>4 DEF WorkStarts
  <2> QED
    BY <1>0, <1>4, <2>1, <2>2, <2>3 DEF WorkStarts, life, left
<1>5. CASE WorkEnds
  BY <1>0, <1>5 DEF WorkEnds, life, left
<1>6. CASE ResetEnds
  <2>1. /\ UNCHANGED <<client, gpio, ts, input, probe_done, failed, files, proc, loaded, irq, handler, work>>
        /\ ~reset' /\ reset' \in BOOLEAN
    BY <1>6 DEF ResetEnds, life, left
  <2>2. LifeTypeOK' /\ ClientIsHere'
    BY <2>1
  <2>3. LeftIsHere'
    BY <1>0, <2>1
  <2> QED BY <2>2, <2>3
<1> QED BY <1>1, <1>2, <1>3, <1>4, <1>5, <1>6 DEF Users

\* An open begins only where the file is, which stays.
LEMMA OpenKeepsLife ==
  ASSUME TypeOK, LifeTypeOK, LifeIsHere, NEW o \in Opens, Open(o)
  PROVE  LifeTypeOK' /\ LifeIsHere'
<1>1. UNCHANGED <<life, left, irq, handler, work, reset>>
  BY DEF Open, OpenStarts, OpenProceeds, OpenUnmasks
<1>2. proc
  <2>1. CASE OpenStarts(o)
    BY <2>1 DEF OpenStarts
  <2>2. CASE OpenProceeds(o)
    BY <2>2, MaskStays DEF OpenProceeds, LifeIsHere, LeftIsHere
  <2>3. CASE OpenUnmasks(o)
    <3>1. o \in UnderWay
      BY <2>3 DEF OpenUnmasks, Unmasks, Takes, UnderWay
    <3> QED BY <3>1 DEF LifeIsHere, LeftIsHere
  <2> QED BY <2>1, <2>2, <2>3 DEF Open
<1>3. LifeTypeOK' /\ ClientIsHere'
  BY <1>1 DEF LifeTypeOK, LifeIsHere, ClientIsHere, Came, life, left
<1>4. LeftIsHere'
  BY <1>1, <1>2 DEF LifeIsHere, LeftIsHere, Came, life, left
<1> QED BY <1>3, <1>4 DEF LifeIsHere

-----------------------------------------------------------------------------
(* As many masks are in place as are owed.                                 *)

LEMMA ProbeKeepsDepth ==
  ASSUME LifeTypeOK, LifeIsHere, DepthIsOwed, sec_ts_probe
  PROVE  DepthIsOwed'
<1>0. Masking' = Masking
  BY SameOpens DEF sec_ts_probe, SetsUp, AllocatesInput, ReadsId, RegistersInput,
     RequestsIrq, MasksIrq, MakesFiles, MakesProcFile, QueuesWork, EndsProbe, FailsAt, Reaches
<1>1. CASE MasksIrq
  <2>1. OwedByProbe = 0 /\ OwedByProbe' = 1
    BY <1>1 DEF MasksIrq, Reaches, OwedByProbe, Came, AfterMask, Bound, LifeIsHere, LeftIsHere
  <2>2. depth' = depth + 1
    BY <1>1 DEF MasksIrq
  <2> QED BY <1>0, <2>1, <2>2, MaskingFinite DEF DepthIsOwed
<1>2. CASE ~MasksIrq
  <2>1. depth' = depth
    BY <1>2 DEF sec_ts_probe, SetsUp, AllocatesInput, ReadsId, RegistersInput,
       RequestsIrq, MakesFiles, MakesProcFile, QueuesWork, EndsProbe, FailsAt
  <2>2. OwedByProbe' = OwedByProbe
    <3> USE DEF OwedByProbe, Came, AfterMask, Bound, Reaches, LifeIsHere, LeftIsHere
    <3>1. CASE SetsUp \/ AllocatesInput \/ ReadsId \/ RegistersInput \/ RequestsIrq
      BY <3>1 DEF SetsUp, AllocatesInput, ReadsId, RegistersInput, RequestsIrq, FailsAt
    <3>2. CASE MakesFiles \/ MakesProcFile \/ EndsProbe
      BY <3>2 DEF MakesFiles, MakesProcFile, EndsProbe, FailsAt
    <3>3. CASE QueuesWork
      BY <3>3 DEF QueuesWork, FailsAt
    <3> QED BY <1>2, <3>1, <3>2, <3>3 DEF sec_ts_probe
  <2> QED BY <1>0, <2>1, <2>2 DEF DepthIsOwed
<1> QED BY <1>1, <1>2

LEMMA RestKeepsDepth ==
  ASSUME LifeTypeOK, LifeIsHere, DepthIsOwed,
         FreesIrq \/ FreesData \/ Unloads \/ Users
  PROVE  DepthIsOwed'
<1> USE DEF OwedByProbe, Came, AfterMask, Bound
<1>0. Masking' = Masking
  BY SameOpens DEF FreesIrq, FreesData, Unloads, Reaches, Users, HandlerStarts,
     HandlerEnds, TimerFires, WorkStarts, WorkEnds, ResetEnds
<1>1. CASE FreesIrq \/ FreesData
  <2>1. OwedByProbe' = OwedByProbe /\ depth' = depth
    BY <1>1 DEF FreesIrq, FreesData, Reaches
  <2> QED BY <1>0, <2>1 DEF DepthIsOwed
<1>2. CASE Unloads \/ HandlerStarts \/ HandlerEnds \/ ResetEnds
  <2>1. OwedByProbe' = OwedByProbe /\ depth' = depth
    BY <1>2 DEF Unloads, HandlerStarts, HandlerEnds, ResetEnds, life
  <2> QED BY <1>0, <2>1 DEF DepthIsOwed
<1>3. CASE TimerFires \/ WorkStarts
  <2>1. OwedByProbe' = OwedByProbe /\ depth' = depth
    BY <1>3 DEF TimerFires, WorkStarts, life
  <2> QED BY <1>0, <2>1 DEF DepthIsOwed
<1>4. CASE WorkEnds
  <2>1. OwedByProbe = 1
    BY <1>4 DEF WorkEnds, LifeIsHere, LeftIsHere
  <2>2. OwedByProbe' = 0 /\ depth' = depth - 1
    BY <1>4 DEF WorkEnds
  <2> QED BY <1>0, <2>1, <2>2, MaskingFinite DEF DepthIsOwed
<1> QED BY <1>1, <1>2, <1>3, <1>4 DEF Users

LEMMA OpenKeepsDepth ==
  ASSUME TypeOK, DepthIsOwed, NEW o \in Opens, Open(o)
  PROVE  DepthIsOwed'
<1>0. OwedByProbe' = OwedByProbe
  BY DEF Open, OpenStarts, OpenProceeds, OpenUnmasks, life, OwedByProbe, Came
<1>1. CASE OpenStarts(o)
  <2>1. Cardinality(Masking') = Cardinality(Masking) + 1 /\ depth' = depth + 1
    BY <1>1, MaskBegins DEF OpenStarts, Starts
  <2> QED BY <1>0, <2>1, MaskingFinite, OwedIsNumber DEF DepthIsOwed
<1>2. CASE OpenProceeds(o)
  BY <1>0, <1>2, MaskStays DEF OpenProceeds, DepthIsOwed
<1>3. CASE OpenUnmasks(o)
  <2>1. Cardinality(Masking') = Cardinality(Masking) - 1 /\ depth' = depth - 1
    BY <1>3, MaskEnds DEF OpenUnmasks, Unmasks
  <2> QED BY <1>0, <2>1, MaskingFinite, OwedIsNumber DEF DepthIsOwed
<1> QED BY <1>1, <1>2, <1>3 DEF Open

-----------------------------------------------------------------------------
(* The report of an open that is alone.                                    *)

ReportIsHere == SelftestTypeOK /\ OneIsUnderWay /\ AloneReportIsOwned

\* Where nobody else is under way, what is said of all owners is said of one.
LEMMA Sole ==
  ASSUME OneIsUnderWay, ~overlapped, NEW o \in UnderWay
  PROVE  /\ UnderWay = {o}
         /\ OwnsReport = IF step[o] \in {"ask", "read", "print", "unmask_done", "free"}
                         THEN {o} ELSE {}
<1>1. UnderWay = {o}
  BY DEF OneIsUnderWay
<1>2. OwnsReport \subseteq UnderWay
  BY DEF OwnsReport, UnderWay
<1> QED BY <1>1, <1>2 DEF OwnsReport, UnderWay

\* A step of o leaves at most the one under way, if it was the one.
LEMMA OneStays ==
  ASSUME ReportIsHere, NEW o \in Opens, Starts(o) \/ Proceeds(o) \/ Unmasks(o)
  PROVE  OneIsUnderWay' /\ (overlapped => overlapped')
<1>1. CASE Starts(o)
  <2>1. UnderWay' = UnderWay \union {o} /\ overlapped' = (overlapped \/ UnderWay # {})
    BY <1>1 DEF Starts, Takes, UnderWay, ReportIsHere, SelftestTypeOK
  <2> QED BY <2>1 DEF OneIsUnderWay
<1>2. CASE Proceeds(o) \/ Unmasks(o)
  <2>1. /\ overlapped' = overlapped
        /\ \E a \in OpenSteps \ {"closed"} : \E b \in OpenSteps : Takes(o, a, b)
    BY <1>2 DEF Proceeds, SelectsTest, RunsTest, Allocates, AsksForReport,
       ReadsReport, PrintsReport, Frees, Unmasks, FreeReport, Takes, OpenSteps
  <2>2. UnderWay' \subseteq UnderWay
    BY <2>1 DEF Takes, UnderWay, ReportIsHere, SelftestTypeOK
  <2> QED BY <2>1, <2>2 DEF OneIsUnderWay, ReportIsHere
<1> QED BY <1>1, <1>2

\* The types of the report, step by step.
LEMMA ReportTypes ==
  ASSUME SelftestTypeOK, NEW o \in Opens, Starts(o) \/ Proceeds(o) \/ Unmasks(o)
  PROVE  SelftestTypeOK'
<1> USE DEF SelftestTypeOK, Takes, OpenSteps
<1>1. CASE Starts(o)
  BY <1>1 DEF Starts
<1>2. CASE SelectsTest(o)
  BY <1>2 DEF SelectsTest, FreeReport, Misuses
<1>3. CASE RunsTest(o)
  BY <1>3 DEF RunsTest
<1>4. CASE Allocates(o)
  BY <1>4 DEF Allocates
<1>5. CASE AsksForReport(o)
  BY <1>5 DEF AsksForReport, FreeReport, Misuses
<1>6. CASE ReadsReport(o)
  BY <1>6 DEF ReadsReport, FreeReport, Misuses
<1>7. CASE PrintsReport(o)
  BY <1>7 DEF PrintsReport, Misuses
<1>8. CASE Frees(o)
  BY <1>8 DEF Frees, FreeReport, Misuses
<1>9. CASE Unmasks(o)
  BY <1>9 DEF Unmasks
<1> QED
  BY <1>1, <1>2, <1>3, <1>4, <1>5, <1>6, <1>7, <1>8, <1>9 DEF Proceeds

\* What is said of the report when o is the only open and stands at its step.
OwnedBy(o) ==
  /\ step[o] \in {"ask", "read", "print", "unmask_done", "free"} => allocated = {sec_ts_report_buf}
  /\ step[o] \in {"closed", "type", "run", "alloc", "unmask_failed"} => allocated = {}
  /\ step[o] = "read" => report_buff[o] = sec_ts_report_buf
  /\ misuse => dangling

LEMMA StepKeepsOwned ==
  ASSUME SelftestTypeOK, ~overlapped, NEW o \in Opens, OwnedBy(o), step[o] # "closed",
         Proceeds(o) \/ Unmasks(o)
  PROVE  OwnedBy(o)'
<1> USE DEF SelftestTypeOK, Takes, OpenSteps, OwnedBy
<1>0. NoBuffer \notin Buffers
  BY SelftestAssumption
<1>2. CASE SelectsTest(o)
  BY <1>0, <1>2 DEF SelectsTest, FreeReport, Misuses
<1>3. CASE RunsTest(o)
  BY <1>3 DEF RunsTest
<1>4. CASE Allocates(o)
  BY <1>4 DEF Allocates
<1>5. CASE AsksForReport(o)
  BY <1>0, <1>5 DEF AsksForReport, FreeReport, Misuses
<1>6. CASE ReadsReport(o)
  BY <1>0, <1>6 DEF ReadsReport, FreeReport, Misuses
<1>7. CASE PrintsReport(o)
  BY <1>0, <1>7 DEF PrintsReport, Misuses
<1>8. CASE Frees(o)
  BY <1>0, <1>8 DEF Frees, FreeReport, Misuses
<1>9. CASE Unmasks(o)
  BY <1>9 DEF Unmasks
<1> QED
  BY <1>2, <1>3, <1>4, <1>5, <1>6, <1>7, <1>8, <1>9 DEF Proceeds

LEMMA ReportStep ==
  ASSUME ReportIsHere, NEW o \in Opens, Starts(o) \/ Proceeds(o) \/ Unmasks(o)
  PROVE  ReportIsHere'
<1>1. SelftestTypeOK' /\ OneIsUnderWay'
  BY ReportTypes, OneStays DEF ReportIsHere
<1>2. ASSUME ~overlapped' PROVE AloneReportIsOwned'
  <2>1. ~overlapped
    BY <1>2, OneStays
  <2>2. CASE Starts(o)
    <3>1. UnderWay = {}
      BY <1>2, <2>2 DEF Starts
    <3>2. OwnsReport = {} /\ OwnsReport' = {}
      BY <2>2, <3>1 DEF Starts, Takes, OwnsReport, UnderWay, ReportIsHere, SelftestTypeOK
    <3>3. allocated' = {} /\ (misuse' => dangling')
      BY <2>1, <2>2, <3>2 DEF Starts, ReportIsHere, AloneReportIsOwned
    <3> QED BY <3>2, <3>3 DEF AloneReportIsOwned
  <2>3. CASE Proceeds(o) \/ Unmasks(o)
    <3>1. o \in UnderWay
      BY <2>3 DEF Proceeds, SelectsTest, RunsTest, Allocates, AsksForReport,
         ReadsReport, PrintsReport, Frees, Unmasks, Takes, UnderWay
    <3>2. UnderWay = {o}
      BY <2>1, <3>1, Sole DEF ReportIsHere
    <3>3. OwnsReport = IF step[o] \in {"ask", "read", "print", "unmask_done", "free"}
                       THEN {o} ELSE {}
      BY <2>1, <3>1, Sole DEF ReportIsHere
    <3>4. OwnedBy(o)
      BY <2>1, <3>3 DEF OwnedBy, ReportIsHere, AloneReportIsOwned
    <3>5. OwnedBy(o)'
      BY <2>1, <2>3, <3>1, <3>4, StepKeepsOwned DEF ReportIsHere, UnderWay
    <3>6. \A p \in Opens \ {o} : step'[p] = "closed"
      <4>1. \A p \in Opens \ {o} : step[p] = "closed"
        BY <3>2 DEF UnderWay
      <4>2. \A p \in Opens \ {o} : step'[p] = step[p]
        BY <2>3 DEF Proceeds, SelectsTest, RunsTest, Allocates, AsksForReport,
           ReadsReport, PrintsReport, Frees, Unmasks, Takes, ReportIsHere, SelftestTypeOK
      <4> QED BY <4>1, <4>2
    <3>7. OwnsReport' = IF step'[o] \in {"ask", "read", "print", "unmask_done", "free"}
                        THEN {o} ELSE {}
      BY <3>6 DEF OwnsReport
    <3>8. step'[o] \in OpenSteps
      BY <1>1 DEF SelftestTypeOK
    <3> QED BY <3>5, <3>7, <3>8 DEF OwnedBy, AloneReportIsOwned, OpenSteps
  <2> QED BY <2>2, <2>3
<1>3. AloneReportIsOwned'
  BY <1>2 DEF AloneReportIsOwned
<1> QED BY <1>1, <1>3 DEF ReportIsHere

LEMMA ReportStays ==
  ASSUME ReportIsHere, UNCHANGED selftest
  PROVE  ReportIsHere'
BY DEF selftest, ReportIsHere, SelftestTypeOK, OneIsUnderWay, AloneReportIsOwned,
   UnderWay, OwnsReport

-----------------------------------------------------------------------------
(* The whole.                                                              *)

\* The invariant by its parts.
LEMMA Parts ==
  /\ IInv => LifeTypeOK /\ LifeIsHere /\ DepthIsOwed /\ ReportIsHere
  /\ LifeTypeOK /\ LifeIsHere /\ DepthIsOwed /\ ReportIsHere => IInv
<1>1. DepthIsOwed => depth \in Nat
  BY MaskingFinite, OwedIsNumber DEF DepthIsOwed
<1> QED BY <1>1 DEF IInv, TypeOK, LifeTypeOK, LifeIsHere, ReportIsHere

LEMMA StepKeepsIInv ==
  ASSUME IInv, [Next]_vars
  PROVE  IInv'
<1>0. LifeTypeOK /\ LifeIsHere /\ DepthIsOwed /\ ReportIsHere /\ TypeOK
  BY Parts DEF IInv
<1>1. LifeTypeOK' /\ LifeIsHere' /\ DepthIsOwed' /\ ReportIsHere'
  <2>1. CASE sec_ts_probe
    <3>1. UNCHANGED selftest
      BY <2>1 DEF sec_ts_probe, SetsUp, AllocatesInput, ReadsId, RegistersInput,
         RequestsIrq, MasksIrq, MakesFiles, MakesProcFile, QueuesWork, EndsProbe, FailsAt, Reaches
    <3> QED BY <1>0, <2>1, <3>1, ProbeKeepsLife, ProbeKeepsDepth, ReportStays
  <2>2. CASE FreesIrq \/ FreesData \/ Unloads
    <3>1. UNCHANGED selftest
      BY <2>2 DEF FreesIrq, FreesData, Unloads, Reaches
    <3> QED BY <1>0, <2>2, <3>1, RemoveKeepsLife, RestKeepsDepth, ReportStays
  <2>3. CASE Users
    <3>1. UNCHANGED selftest
      BY <2>3 DEF Users, HandlerStarts, HandlerEnds, TimerFires, WorkStarts, WorkEnds, ResetEnds
    <3> QED BY <1>0, <2>3, <3>1, UsersKeepLife, RestKeepsDepth, ReportStays
  <2>4. ASSUME NEW o \in Opens, Open(o)
        PROVE  LifeTypeOK' /\ LifeIsHere' /\ DepthIsOwed' /\ ReportIsHere'
    <3>1. Starts(o) \/ Proceeds(o) \/ Unmasks(o)
      BY <2>4 DEF Open, OpenStarts, OpenProceeds, OpenUnmasks
    <3> QED BY <1>0, <2>4, <3>1, OpenKeepsLife, OpenKeepsDepth, ReportStep
  <2>5. CASE UNCHANGED vars
    <3>1. UNCHANGED <<selftest, life, left, irq, depth, handler, work, reset>>
      BY <2>5 DEF vars
    <3>2. LifeTypeOK' /\ LifeIsHere'
      BY <1>0, <3>1, SameOpens DEF life, left, LifeTypeOK, LifeIsHere, ClientIsHere, LeftIsHere, Came
    <3>3. DepthIsOwed'
      BY <1>0, <3>1, SameOpens DEF life, DepthIsOwed, OwedByProbe, Came
    <3> QED BY <1>0, <3>1, <3>2, <3>3, ReportStays
  <2> QED BY <2>1, <2>2, <2>3, <2>4, <2>5 DEF Next, Users
<1>2. (LifeTypeOK /\ LifeIsHere /\ DepthIsOwed /\ ReportIsHere => IInv)'
  BY Parts, PTL
<1> QED BY <1>1, <1>2

LEMMA InitIInv == Init => IInv
<1> SUFFICES ASSUME Init PROVE IInv
  OBVIOUS
<1>1. UnderWay = {} /\ Masking = {} /\ OwnsReport = {}
  BY DEF Init, InitSelftest, UnderWay, Masking, OwnsReport
<1>2. LifeTypeOK /\ LifeIsHere
  BY <1>1 DEF Init, LifeTypeOK, LifeIsHere, ClientIsHere, LeftIsHere, Came, ProbeSteps, WorkSteps, AfterMask, Bound
<1>3. DepthIsOwed
  BY <1>1, FS_EmptySet DEF Init, DepthIsOwed, OwedByProbe, Came, AfterMask, Bound
<1>4. ReportIsHere
  BY <1>1 DEF Init, InitSelftest, ReportIsHere, SelftestTypeOK, OpenSteps, OneIsUnderWay, AloneReportIsOwned
<1> QED BY <1>2, <1>3, <1>4, Parts

\* The inductive invariant holds: what is there at each step of the client, as
\* many masks as are owed, and one owner of the report.
THEOREM Invariant == Spec => []IInv
<1>1. IInv /\ [Next]_vars => IInv'
  BY StepKeepsIInv
<1> QED BY InitIInv, <1>1, PTL DEF Spec

\* The variables keep their types; nobody lifts a mask that is not there.
THEOREM TypeCorrect == Spec => []TypeOK
<1>1. IInv => TypeOK
  BY DEF IInv
<1> QED BY <1>1, Invariant, PTL

\* The open of the selftest file that is alone has the only buffer.
THEOREM ReportHasOwner == Spec => []AloneReportIsOwned
<1>1. IInv => AloneReportIsOwned
  BY DEF IInv
<1> QED BY <1>1, Invariant, PTL

\* The interrupt never meets freed data; of the others those meet it that are
\* named.
THEOREM FreedIsKnown == Spec => []UsersOfFreedAreKnown
<1>1. IInv => UsersOfFreedAreKnown
  <2> SUFFICES ASSUME IInv PROVE UsersOfFreedAreKnown
    OBVIOUS
  <2>0. LifeTypeOK /\ LifeIsHere /\ DepthIsOwed
    BY Parts
  <2> USE DEF LifeIsHere, ClientIsHere, LeftIsHere, Came, AfterMask, Bound, ProbeSteps
  <2>1. HandlerHasItsData
    BY <2>0 DEF HandlerHasItsData, LifeTypeOK
  <2>2. ASSUME ts = "freed" PROVE ~HandlerMayRun /\ client \in {"removed", "failed"}
    <3>1. client \in {"removed", "failed"} /\ ~handler
      BY <2>0, <2>2 DEF LifeTypeOK
    <3>2. ASSUME irq, depth = 0 PROVE FALSE
      <4>1. client = "failed" /\ failed \in {"proc", "queue"} /\ work = "none"
        BY <2>0, <3>1, <3>2
      <4>2. OwedByProbe = 1
        BY <4>1 DEF OwedByProbe
      <4> QED BY <2>0, <3>2, <4>2, MaskingFinite DEF DepthIsOwed
    <3> QED BY <3>1, <3>2 DEF HandlerMayRun
  <2>3. ASSUME client = "failed"
        PROVE  /\ ~WorkIsDue
               /\ files \/ reset => failed \in {"proc", "queue"}
               /\ OpensAreDue => failed = "queue"
    <3>1. ~WorkIsDue
      BY <2>0, <2>3 DEF WorkIsDue
    <3>2. files \/ reset => failed \in {"proc", "queue"}
      BY <2>0, <2>3
    <3>3. OpensAreDue => failed = "queue"
      BY <2>0, <2>3 DEF OpensAreDue
    <3> QED BY <3>1, <3>2, <3>3
  <2>4. ~loaded => ~(work \in {"queued", "running"}) /\ ts # "live"
    BY <2>0
  <2> QED BY <2>1, <2>2, <2>3, <2>4 DEF UsersOfFreedAreKnown
<1> QED BY <1>1, Invariant, PTL
=============================================================================
