--------------------------- MODULE SecTsSelftest ---------------------------
(***************************************************************************)
(* The buffer of /proc/android_touch/self_test (sec_ts_selftest.c): every  *)
(* open runs the test of the sensor and keeps its report under one global  *)
(* pointer, sec_ts_report_buf, that no lock protects and no kfree clears.  *)
(* Whether an open may use the driver's data, and its mask on the          *)
(* interrupt, are SecTsDriver's.                                           *)
(*                                                                         *)
(* Buffers are addresses: a freed one may be given out again.  What the    *)
(* report says decides only which number the file shows, and is left out,  *)
(* as is the reading of the file.                                          *)
(***************************************************************************)
EXTENDS FiniteSets

CONSTANTS
  Opens,      \* opens of the file at a time
  Buffers,    \* addresses kzalloc may return
  NoBuffer    \* NULL

ASSUME SelftestAssumption ==
  IsFiniteSet(Opens) /\ NoBuffer \notin Buffers

VARIABLES
  sec_ts_report_buf,
  allocated,         \* buffers in use
  step,              \* what each open does next
  report_buff,       \* where each open reads the report to
  overlapped,        \* auxiliary: two opens were under way at once
                     \* and before that:
  dangling,          \* auxiliary: an open failed at its first write after others had ended
  misuse             \* auxiliary: a buffer was freed twice or used after its kfree

selftest ==
  <<sec_ts_report_buf, allocated, step, report_buff, overlapped, dangling, misuse>>

OpenSteps ==
  {"closed", "type", "run", "alloc", "ask", "read", "print", "unmask_done",
   "free", "unmask_failed"}

InitSelftest ==
  /\ sec_ts_report_buf = NoBuffer
  /\ allocated = {}
  /\ step = [o \in Opens |-> "closed"]
  /\ report_buff = [o \in Opens |-> NoBuffer]
  /\ overlapped = FALSE /\ dangling = FALSE /\ misuse = FALSE

UnderWay == {o \in Opens : step[o] # "closed"}
OwnsReport == {o \in Opens : step[o] \in {"ask", "read", "print", "unmask_done", "free"}}

Takes(o, from, to) ==
  /\ step[o] = from
  /\ step' = [step EXCEPT ![o] = to]

Misuses(wrong) == misuse' = (misuse \/ (wrong /\ ~overlapped))

\* if (sec_ts_report_buf) kfree(sec_ts_report_buf);
FreeReport(o) ==
  /\ allocated' = allocated \ {sec_ts_report_buf}
  /\ Misuses(sec_ts_report_buf \notin allocated \union {NoBuffer})
  /\ report_buff' = [report_buff EXCEPT ![o] = NoBuffer]
  /\ UNCHANGED sec_ts_report_buf

\* Mutant: the way through forgets the kfree.
FreesNothing(o) ==
  /\ Takes(o, "free", "closed")
  /\ UNCHANGED <<sec_ts_report_buf, report_buff, allocated, misuse, overlapped, dangling>>

-----------------------------------------------------------------------------
(* sec_ts_selftest_open.                                                   *)

Starts(o) ==
  /\ Takes(o, "closed", "type")
  /\ overlapped' = (overlapped \/ UnderWay # {})
  /\ UNCHANGED <<sec_ts_report_buf, allocated, report_buff, dangling, misuse>>

\* The first write; its failure leaves by err_exit, before any allocation.
SelectsTest(o) ==
  \/ /\ Takes(o, "type", "run")
     /\ UNCHANGED <<sec_ts_report_buf, allocated, report_buff, overlapped, dangling, misuse>>
  \/ /\ Takes(o, "type", "unmask_failed")
     /\ FreeReport(o)
     /\ dangling' = (dangling \/ (~overlapped /\ sec_ts_report_buf # NoBuffer))
     /\ UNCHANGED overlapped

\* The two other writes, the wait and the reset: a failure frees nothing.
RunsTest(o) ==
  /\ Takes(o, "run", "alloc") \/ Takes(o, "run", "unmask_failed")
  /\ UNCHANGED <<sec_ts_report_buf, allocated, report_buff, overlapped, dangling, misuse>>

Allocates(o) ==
  /\ \/ \E b \in Buffers \ allocated :
          /\ Takes(o, "alloc", "ask")
          /\ sec_ts_report_buf' = b
          /\ allocated' = allocated \union {b}
     \/ /\ Takes(o, "alloc", "unmask_failed")
        /\ sec_ts_report_buf' = NoBuffer
        /\ UNCHANGED allocated
  /\ UNCHANGED <<report_buff, overlapped, dangling, misuse>>

AsksForReport(o) ==
  /\ \/ /\ Takes(o, "ask", "read")
        /\ report_buff' = [report_buff EXCEPT ![o] = sec_ts_report_buf]
        /\ UNCHANGED <<sec_ts_report_buf, allocated, misuse>>
     \/ Takes(o, "ask", "unmask_failed") /\ FreeReport(o)
  /\ UNCHANGED <<overlapped, dangling>>

\* A part of the report is written where the open's own copy of the pointer
\* says.
ReadsReport(o) ==
  /\ \/ /\ step[o] = "read"
        /\ Takes(o, "read", "read") \/ Takes(o, "read", "print")
        /\ Misuses(report_buff[o] \notin allocated)
        /\ UNCHANGED <<sec_ts_report_buf, allocated, report_buff>>
     \/ Takes(o, "read", "unmask_failed") /\ FreeReport(o)
  /\ UNCHANGED <<overlapped, dangling>>

\* sec_ts_print_selftest reads the buffer of the global pointer.
PrintsReport(o) ==
  /\ Takes(o, "print", "unmask_done")
  /\ Misuses(sec_ts_report_buf \notin allocated)
  /\ report_buff' = [report_buff EXCEPT ![o] = NoBuffer]
  /\ UNCHANGED <<sec_ts_report_buf, allocated, overlapped, dangling>>

\* enable_irq, with the report read or without.
Unmasks(o) ==
  /\ Takes(o, "unmask_done", "free") \/ Takes(o, "unmask_failed", "closed")
  /\ UNCHANGED <<sec_ts_report_buf, allocated, report_buff, overlapped, dangling, misuse>>

\* The buffer goes after the mask, before seq_open.
Frees(o) ==
  /\ Takes(o, "free", "closed")
  /\ FreeReport(o)
  /\ UNCHANGED <<overlapped, dangling>>

Proceeds(o) ==
  \/ SelectsTest(o) \/ RunsTest(o) \/ Allocates(o) \/ AsksForReport(o)
  \/ ReadsReport(o) \/ PrintsReport(o) \/ Frees(o)

-----------------------------------------------------------------------------
SelftestTypeOK ==
  /\ sec_ts_report_buf \in Buffers \union {NoBuffer}
  /\ allocated \subseteq Buffers
  /\ step \in [Opens -> OpenSteps]
  /\ report_buff \in [Opens -> Buffers \union {NoBuffer}]
  /\ {overlapped, dangling, misuse} \subseteq BOOLEAN

\* As long as no two opens were under way at once, the one that has a report
\* has the only buffer, none is left behind by any way out, and a buffer is
\* freed twice only by an open that failed at its first write, where the
\* pointer is that of an earlier open.
AloneReportIsOwned ==
  ~overlapped =>
    /\ \A o \in OwnsReport : allocated = {sec_ts_report_buf}
    /\ \A o \in OwnsReport : step[o] = "read" => report_buff[o] = sec_ts_report_buf
    /\ OwnsReport = {} => allocated = {}
    /\ misuse => dangling
=============================================================================
