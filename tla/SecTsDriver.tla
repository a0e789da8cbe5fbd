---------------------------- MODULE SecTsDriver ----------------------------
(***************************************************************************)
(* The life of the sec-ts driver: sec_ts_probe with its error paths, the   *)
(* work it queues, the files it makes, sec_ts_remove and sec_ts_exit, and  *)
(* who may still use the driver's data (ts) after its kfree: nobody        *)
(* cancels the works or removes the files.                                 *)
(*                                                                         *)
(* The driver core runs probe and remove one at a time.  A probe that got  *)
(* the interrupt's GPIO never gives it back, so that every later one fails *)
(* in sec_ts_parse_dt, before it has allocated anything: there is one ts.  *)
(* The masks of the factory commands and debug files are in SecTsIrq; here *)
(* they only use ts.                                                       *)
(***************************************************************************)
EXTENDS Integers, SecTsSelftest

VARIABLES
  client,      \* what the driver core does with the client: a step of probe, ...
  gpio,        \* the GPIO is requested
  ts,          \* the driver's data: not there yet, in use or freed
  input,       \* ts->input_dev
  irq,         \* the interrupt is requested, with ts as its data
  depth,       \* calls of disable_irq not undone yet
  handler,     \* sec_ts_irq_thread runs
  files,       \* sysfs files of "sec_ts" and "tsp" exist, with ts as their data
  proc,        \* the file self_test exists, with ts in ts_data
  probe_done,  \* ts->probe_done
  work,        \* ts->fwupdate_work
  reset,       \* ts->reset_work is queued or running
  loaded,      \* the module's code and sec_fwu_wq are there
  failed       \* auxiliary: where probe failed

life == <<client, gpio, ts, input, probe_done, failed>>
left == <<files, proc, loaded>>
vars == <<selftest, life, left, irq, depth, handler, work, reset>>

ProbeSteps == {"allocate", "read_id", "register", "request_irq", "mask", "files", "proc", "queue", "end"}
WorkSteps == {"none", "timer", "queued", "running", "skipped", "done"}

Init ==
  /\ InitSelftest
  /\ client = "unbound" /\ gpio = FALSE
  /\ ts = "none" /\ input = "none" /\ probe_done = FALSE /\ failed = "nowhere"
  /\ irq = FALSE /\ depth = 0 /\ handler = FALSE
  /\ files = FALSE /\ proc = FALSE /\ loaded = TRUE
  /\ work = "none" /\ reset = FALSE

-----------------------------------------------------------------------------
(* sec_ts_probe.                                                           *)

Reaches(from, to) ==
  /\ client = from
  /\ client' = to
  /\ UNCHANGED <<selftest, loaded, handler, reset>>

\* Labels from err_irq on: an input device that is registered goes, one that
\* is not is freed, and ts in any case.
FailsAt(from) ==
  /\ Reaches(from, "failed")
  /\ failed' = from
  /\ input' = IF input = "none" THEN "none" ELSE "freed"
  /\ ts' = "freed"
  /\ UNCHANGED <<gpio, probe_done, irq, depth, files, work>>

\* sec_ts_setup_drv_data: the GPIO, and with everything else in place ts.
SetsUp ==
  /\ loaded /\ ~gpio
  /\ gpio' = TRUE
  /\ \/ Reaches("unbound", "allocate") /\ ts' = "live" /\ UNCHANGED failed
     \/ Reaches("unbound", "failed") /\ failed' = "setup" /\ UNCHANGED ts
  /\ UNCHANGED <<input, probe_done, irq, depth, files, proc, work>>

AllocatesInput ==
  \/ /\ Reaches("allocate", "read_id")
     /\ input' = "allocated"
     /\ UNCHANGED <<gpio, ts, probe_done, failed, irq, depth, files, proc, work>>
  \/ FailsAt("allocate") /\ UNCHANGED proc

ReadsId ==
  \/ /\ Reaches("read_id", "register")
     /\ UNCHANGED <<gpio, ts, input, probe_done, failed, irq, depth, files, proc, work>>
  \/ FailsAt("read_id") /\ UNCHANGED proc

RegistersInput ==
  \/ /\ Reaches("register", "request_irq")
     /\ input' = "registered"
     /\ UNCHANGED <<gpio, ts, probe_done, failed, irq, depth, files, proc, work>>
  \/ FailsAt("register") /\ UNCHANGED proc

RequestsIrq ==
  \/ /\ Reaches("request_irq", "mask")
     /\ irq' = TRUE
     /\ UNCHANGED <<gpio, ts, input, probe_done, failed, depth, files, proc, work>>
  \/ FailsAt("request_irq") /\ UNCHANGED proc

\* Mutant: the interrupt stays on until the work is done.
MasksNot ==
  /\ Reaches("mask", "files")
  /\ UNCHANGED <<gpio, ts, input, probe_done, failed, irq, depth, files, proc, work>>

\* disable_irq waits for a handler that runs.
MasksIrq ==
  /\ Reaches("mask", "files")
  /\ ~handler
  /\ depth' = depth + 1
  /\ UNCHANGED <<gpio, ts, input, probe_done, failed, irq, files, proc, work>>

\* sec_ts_raw_device_init and sec_ts_fn_init: what could not be made is
\* missing, and the probe goes on.
MakesFiles ==
  /\ Reaches("files", "proc")
  /\ files' \in BOOLEAN
  /\ UNCHANGED <<gpio, ts, input, probe_done, failed, irq, depth, proc, work>>

\* sec_ts_test_proc_init.
MakesProcFile ==
  \/ /\ Reaches("proc", "queue")
     /\ proc' = TRUE
     /\ UNCHANGED <<gpio, ts, input, probe_done, failed, irq, depth, files, work>>
  \/ FailsAt("proc") /\ UNCHANGED proc

QueuesWork ==
  \/ /\ Reaches("queue", "end")
     /\ work' = "timer"
     /\ UNCHANGED <<gpio, ts, input, probe_done, failed, irq, depth, files, proc>>
  \/ FailsAt("queue") /\ UNCHANGED proc

EndsProbe ==
  /\ Reaches("end", "bound")
  /\ probe_done' = TRUE
  /\ UNCHANGED <<gpio, ts, input, failed, irq, depth, files, proc, work>>

sec_ts_probe ==
  \/ SetsUp \/ AllocatesInput \/ ReadsId \/ RegistersInput \/ RequestsIrq
  \/ MasksIrq \/ MakesFiles \/ MakesProcFile \/ QueuesWork \/ EndsProbe

-----------------------------------------------------------------------------
(* sec_ts_remove and sec_ts_exit.                                          *)

\* Mutant: the interrupt is kept.
FreesIrqNot ==
  /\ Reaches("bound", "removing")
  /\ UNCHANGED <<gpio, ts, input, probe_done, failed, irq, depth, files, proc, work>>

\* free_irq waits for a handler that runs.
FreesIrq ==
  /\ Reaches("bound", "removing")
  /\ ~handler
  /\ irq' = FALSE
  /\ UNCHANGED <<gpio, ts, input, probe_done, failed, depth, files, proc, work>>

FreesData ==
  /\ Reaches("removing", "removed")
  /\ input' = "freed" /\ ts' = "freed"
  /\ UNCHANGED <<gpio, probe_done, failed, irq, depth, files, proc, work>>

\* i2c_del_driver has unbound the client; destroy_workqueue waits for what is
\* queued, not for a timer that has yet to queue it.
Unloads ==
  /\ loaded /\ client \in {"unbound", "failed", "removed"}
  /\ work \notin {"queued", "running"}
  /\ loaded' = FALSE
  /\ UNCHANGED <<selftest, life, files, proc, irq, depth, handler, work, reset>>

-----------------------------------------------------------------------------
(* Those who use ts.                                                       *)

HandlerStarts ==
  /\ irq /\ depth = 0 /\ ~handler
  /\ handler' = TRUE
  /\ UNCHANGED <<selftest, life, left, irq, depth, work, reset>>

\* An event of the sensor's own failure schedules the reset.
HandlerEnds ==
  /\ handler
  /\ handler' = FALSE
  /\ \/ reset' = TRUE
     \/ UNCHANGED reset
  /\ UNCHANGED <<selftest, life, left, irq, depth, work>>

TimerFires ==
  /\ work = "timer"
  /\ work' = IF loaded THEN "queued" ELSE "skipped"
  /\ UNCHANGED <<selftest, life, left, irq, depth, handler, reset>>

\* sec_ts_fwupdate_work gives up if probe has not ended; a freed ts may tell
\* it either.
WorkStarts ==
  /\ work = "queued"
  /\ \/ (probe_done \/ ts = "freed") /\ work' = "running"
     \/ (~probe_done \/ ts = "freed") /\ work' = "skipped"
  /\ UNCHANGED <<selftest, life, left, irq, depth, handler, reset>>

\* Mutant: a failed update returns with the interrupt masked.
WorkEndsMasked ==
  /\ work = "running"
  /\ work' = "done"
  /\ depth' \in {depth, depth - 1}
  /\ UNCHANGED <<selftest, life, left, irq, handler, reset>>

\* The update has failed or not: device_mutex is freed and the mask lifted.
WorkEnds ==
  /\ work = "running"
  /\ work' = "done"
  /\ depth' = depth - 1
  /\ UNCHANGED <<selftest, life, left, irq, handler, reset>>

\* sec_ts_reset_work only waits.
ResetEnds ==
  /\ reset
  /\ reset' = FALSE
  /\ UNCHANGED <<selftest, life, left, irq, depth, handler, work>>

\* sec_ts_selftest_open masks the interrupt and waits for its handler.
OpenStarts(o) ==
  /\ proc /\ ~handler
  /\ Starts(o)
  /\ depth' = depth + 1
  /\ UNCHANGED <<life, left, irq, handler, work, reset>>

OpenProceeds(o) ==
  /\ Proceeds(o)
  /\ UNCHANGED <<life, left, irq, depth, handler, work, reset>>

OpenUnmasks(o) ==
  /\ Unmasks(o)
  /\ depth' = depth - 1
  /\ UNCHANGED <<life, left, irq, handler, work, reset>>

Open(o) == OpenStarts(o) \/ OpenProceeds(o) \/ OpenUnmasks(o)

Next ==
  \/ sec_ts_probe \/ FreesIrq \/ FreesData \/ Unloads
  \/ HandlerStarts \/ HandlerEnds \/ TimerFires \/ WorkStarts \/ WorkEnds
  \/ ResetEnds
  \/ \E o \in Opens : Open(o)

Spec == Init /\ [][Next]_vars

\* Timers fire and what is queued runs.
Fairness == WF_vars(TimerFires) /\ WF_vars(WorkStarts) /\ WF_vars(WorkEnds)
FairSpec == Spec /\ Fairness

-----------------------------------------------------------------------------
TypeOK ==
  /\ SelftestTypeOK
  /\ client \in ProbeSteps \union {"unbound", "failed", "bound", "removing", "removed"}
  /\ {gpio, irq, handler, files, proc, probe_done, loaded} \subseteq BOOLEAN
  /\ ts \in {"none", "live", "freed"}
  /\ input \in {"none", "allocated", "registered", "freed"}
  /\ depth \in Nat
  /\ work \in WorkSteps /\ reset \in BOOLEAN
  /\ failed \in ProbeSteps \union {"nowhere", "setup"}

\* Opens whose mask on the interrupt is in place.
Masking == {o \in UnderWay : step[o] # "free"}

\* The interrupt handler runs only with the driver's data and a registered
\* input device: before the mask of probe, after the work, and never after a
\* failed probe, which leaves the interrupt requested but masked, nor after a
\* removal, whatever the work does later.
HandlerHasItsData == handler => ts = "live" /\ input = "registered"

HandlerMayRun == handler \/ (irq /\ depth = 0)
WorkIsDue == work \in {"timer", "queued", "running"}
OpensAreDue == proc \/ UnderWay # {}

\* Who may use ts after its kfree: never the interrupt, which always finds it;
\* after a failed probe only the files it had made, and a reset the sensor asked for before the
\* interrupt was masked; after a removal also the work.  A module that is
\* unloaded leaves no work queued or running.
UsersOfFreedAreKnown ==
  /\ HandlerHasItsData
  /\ ts = "freed" => ~HandlerMayRun /\ client \in {"removed", "failed"}
  /\ client = "failed" =>
       /\ ~WorkIsDue
       /\ files \/ reset => failed \in {"proc", "queue"}
       /\ OpensAreDue => failed = "queue"
  /\ ~loaded => ~(work \in {"queued", "running"}) /\ ts # "live"

\* The mask of probe is lifted once the driver is bound, whether the update
\* fails or not, unless the driver is removed or the timer was faster than
\* the end of probe.
TouchComesUp ==
  client = "bound" ~>
    \/ depth = Cardinality(Masking)
    \/ client # "bound"
    \/ work = "skipped"

-----------------------------------------------------------------------------
(* The inductive invariant behind AloneReportIsOwned and                   *)
(* UsersOfFreedAreKnown: what is there at each step of the client, and     *)
(* that as many masks are in place as probe and the opens owe.             *)

Bound == {"bound", "removing", "removed"}
AfterMask == {"files", "proc", "queue", "end"} \union Bound

\* The client has come to one of these steps, or failed at one of them.
Came(steps) == client \in steps \/ (client = "failed" /\ failed \in steps)

\* The mask of probe stays until the work lifts it.
OwedByProbe == IF Came(AfterMask) /\ work # "done" THEN 1 ELSE 0
DepthIsOwed == depth = OwedByProbe + Cardinality(Masking)

ClientIsHere ==
  /\ client = "failed" =>
       failed \in {"setup", "allocate", "read_id", "register", "request_irq", "proc", "queue"}
  /\ client = "unbound" => ts = "none"
  /\ ts = "live" <=> client \in ProbeSteps \union {"bound", "removing"}
  /\ client \in AfterMask \union {"request_irq", "mask"} =>
       input = IF client = "removed" THEN "freed" ELSE "registered"
  /\ irq => Came((AfterMask \union {"mask"}) \ {"removing", "removed"})
  /\ probe_done => client \in Bound

LeftIsHere ==
  /\ files \/ reset => Came(AfterMask \union {"mask"})
  /\ files => client # "mask"
  /\ proc => Came({"queue", "end"} \union Bound)
  /\ UnderWay # {} => proc
  /\ work # "none" => client \in {"end"} \union Bound
  /\ work \in {"running", "done"} => client \in Bound
  /\ handler => client = "mask" \/ (client = "bound" /\ work = "done")
  /\ ~loaded => client \in {"unbound", "failed", "removed"} /\ ~(work \in {"queued", "running"})

OneIsUnderWay == ~overlapped => \A o, p \in UnderWay : o = p

IInv ==
  /\ TypeOK /\ ClientIsHere /\ LeftIsHere /\ DepthIsOwed
  /\ OneIsUnderWay /\ AloneReportIsOwned
=============================================================================
