------------------------------ MODULE SecTsFw ------------------------------
(***************************************************************************)
(* The firmware update of the sec-ts driver: the version check, the sector *)
(* erases, the page writes from the last page to the first and the final   *)
(* look at the device id, run by the work queued in probe (the image built *)
(* into the driver) and by the factory command fw_update (an image from a  *)
(* file), with failing transfers and power lost at any step.               *)
(*                                                                         *)
(* External: the flash (a page programmed without an erase, or erased      *)
(* halfway, is "torn") and the sensor's boot loader, which finds an image  *)
(* by its first page and may or may not refuse one that is not whole.      *)
(* The driver's power state stays on (SecTsIrq has it).                    *)
(***************************************************************************)
EXTENDS Naturals, FiniteSets

CONSTANTS
  Images,          \* firmware images
  Header,          \* product, major, minor, signed, chunks, pages of each
  Factory,         \* the image the sensor leaves the factory with
  BuiltIn,         \* sec_ts_fw_data
  Files,           \* images the factory command may find in a file
  PagesPerSector,  \* PAGE_PER_SECTOR
  Pages,           \* pages of the flash
  MaxFaults,       \* bound: bus transfers that may fail
  MaxCuts          \* bound: losses of power

ASSUME ImagesAssumption ==
  /\ {Factory, BuiltIn} \union Files \subseteq Images
  /\ PagesPerSector \in Nat \ {0}
  /\ Pages \in Nat \ {0}
  /\ MaxFaults \in Nat
  /\ MaxCuts \in Nat
  /\ Header \in [Images -> [product : Nat, major : Nat, minor : Nat,
                            signed : BOOLEAN, chunks : {0, 1}, pages : 1..Pages]]

Page == 0..(Pages - 1)
Erased == "erased"
Torn == "torn"
Boot == "boot"
ASSUME ContentsAssumption == {Erased, Torn, Boot} \intersect Images = {}
\* work: sec_ts_firmwarei_update_on_probe; cmd: the factory command.
Job == {"work", "cmd"}
Step == {"idle", "start", "check", "update", "erase", "busy", "write", "reset", "verify",
         "calibrate"}

VARIABLES
  flash,      \* content of each page: an image's page, erased or torn
  erasing,    \* pages of the sector erase in progress
  running,    \* the image the sensor runs, or its boot loader
  pc,         \* step of each job
  img,        \* its image
  at,         \* its next sector or page
  late,       \* it has waited for the flash more than RETRY_CNT times
  result,     \* what it returned
  faults,     \* transfers that failed so far
  cuts,       \* losses of power so far
  \* auxiliary
  silent,     \* a transfer failed and the update went on
  overlapped, \* two jobs updated at once
  replaced    \* the image whose erasure began last

driver == <<pc, img, at, late, result>>
history == <<silent, overlapped, replaced>>
vars == <<flash, erasing, running, driver, faults, cuts, history>>

TypeOK ==
  /\ flash \in [Page -> Images \union {Erased, Torn}]
  /\ erasing \in SUBSET Page
  /\ running \in Images \union {Boot}
  /\ pc \in [Job -> Step]
  /\ img \in [Job -> Images]
  /\ at \in [Job -> Page]
  /\ late \in [Job -> BOOLEAN]
  /\ result \in [Job -> {"none", "ok", "skipped", "failed"}]
  /\ faults \in 0..MaxFaults
  /\ cuts \in 0..MaxCuts
  /\ silent \in BOOLEAN
  /\ overlapped \in BOOLEAN
  /\ replaced \in Images \union {Erased, Torn}

Holds(i) == \A p \in 0..(Header[i].pages - 1) : flash[p] = i
\* The flash holds a whole image.
Whole == flash[0] \in Images /\ Holds(flash[0])
\* What a reset of the sensor may make it run.
Loadable == IF Whole THEN {flash[0]}
            ELSE {Boot} \union ({flash[0]} \intersect Images)

Init ==
  /\ flash = [p \in Page |-> IF p < Header[Factory].pages THEN Factory ELSE Erased]
  /\ erasing = {}
  /\ running = Factory
  /\ pc = [j \in Job |-> IF j = "work" THEN "start" ELSE "idle"]
  /\ img = [j \in Job |-> BuiltIn]
  /\ at = [j \in Job |-> 0]
  /\ late = [j \in Job |-> FALSE]
  /\ result = [j \in Job |-> "none"]
  /\ faults = 0
  /\ cuts = 0
  /\ silent = FALSE
  /\ overlapped = FALSE
  /\ replaced = Erased

-----------------------------------------------------------------------------
BusFault ==
  /\ faults < MaxFaults
  /\ faults' = faults + 1

Goto(j, step) == pc' = [pc EXCEPT ![j] = step]
Return(j, r) ==
  /\ Goto(j, "idle")
  /\ result' = [result EXCEPT ![j] = r]

\* The erase in progress ends.
FlashDone ==
  /\ erasing # {}
  /\ flash' = [p \in Page |-> IF p \in erasing THEN Erased ELSE flash[p]]
  /\ erasing' = {}
  /\ UNCHANGED <<running, driver, faults, cuts, history>>

\* Power is lost at any step; the next boot probes the driver again.
PowerCut ==
  /\ cuts < MaxCuts
  /\ cuts' = cuts + 1
  /\ erasing' = {}
  /\ running' \in Loadable
  /\ pc' = [j \in Job |-> IF j = "work" THEN "start" ELSE "idle"]
  /\ img' = [j \in Job |-> BuiltIn]
  /\ at' = [j \in Job |-> 0]
  /\ late' = [j \in Job |-> FALSE]
  /\ result' = [j \in Job |-> "none"]
  /\ UNCHANGED <<flash, faults, history>>

-----------------------------------------------------------------------------
Newer(i, k) ==
  \/ Header[i].major > Header[k].major
  \/ Header[i].major = Header[k].major /\ Header[i].minor > Header[k].minor

\* sec_ts_check_firmware_version without a failing read, for image i on a
\* sensor that runs r: 2 boot loader, 1 update, 0 skip, and here 3 for -1.
sec_ts_check_firmware_version(i, r) ==
  IF r = Boot THEN 2
  ELSE IF Header[i].product # Header[r].product THEN 3
  ELSE IF Newer(i, r) THEN 1 ELSE 0

\* sec_ts_fwupdate_work resets the sensor before it looks at it.
Start ==
  /\ pc["work"] = "start"
  /\ Goto("work", "check")
  /\ \/ running' \in Loadable /\ UNCHANGED faults
     \/ BusFault /\ UNCHANGED running
  /\ UNCHANGED <<flash, erasing, img, at, late, result, cuts, history>>

\* The check both jobs begin with.  The command returns 0 for a skipped
\* update like for one that was done.
Check(j) ==
  /\ pc[j] = "check"
  /\ LET c == sec_ts_check_firmware_version(img[j], running)
     IN  \/ c \in {1, 2} /\ Goto(j, "update") /\ UNCHANGED <<result, faults>>
         \/ c = 0 /\ Return(j, "skipped") /\ UNCHANGED faults
         \/ c = 3 /\ Return(j, "failed") /\ UNCHANGED faults
         \/ Return(j, "failed") /\ BusFault
  /\ UNCHANGED <<flash, erasing, running, img, at, late, cuts, history>>

\* fw_update: from a file with the version check (BUILT_IN), or without (UMS);
\* no file, or a kind of update that does not exist (FFU), change nothing.
fw_update(i) ==
  /\ pc["cmd"] = "idle"
  /\ img' = [img EXCEPT !["cmd"] = i]
  /\ \/ Goto("cmd", "check") /\ result' = [result EXCEPT !["cmd"] = "none"]
     \/ Goto("cmd", "update") /\ result' = [result EXCEPT !["cmd"] = "none"]
     \/ Return("cmd", "failed")
     \/ Return("cmd", "skipped")
  /\ UNCHANGED <<flash, erasing, running, at, late, faults, cuts, history>>

Updating(j) == pc[j] \in Step \ {"idle", "start", "check", "update"}
Busy == erasing # {}
SectorOf(p) == p \div PagesPerSector
PagesOf(s) == {p \in Page : SectorOf(p) = s}
\* Mutant: one page too many.
PagesOfImage(j) == Header[img[j]].pages
LastPage(j) == Header[img[j]].pages - 1

\* sec_ts_firmware_update: the signature, and the one or no chunk.
sec_ts_firmware_update(j) ==
  /\ pc[j] = "update"
  /\ \/ /\ ~Header[img[j]].signed
        /\ Return(j, "failed")
        /\ UNCHANGED <<at, overlapped, replaced>>
     \/ /\ Header[img[j]].signed
        /\ Goto(j, IF Header[img[j]].chunks = 0 THEN "reset" ELSE "erase")
        /\ at' = [at EXCEPT ![j] = SectorOf(LastPage(j))]
        /\ overlapped' = (overlapped \/ \E k \in Job \ {j} : Updating(k))
        /\ replaced' = IF Header[img[j]].chunks = 0 THEN replaced ELSE flash[0]
        /\ UNCHANGED result
  /\ UNCHANGED <<flash, erasing, running, img, late, faults, cuts, silent>>

\* Mutant: the loop over the pages begins one page late.
NextSectorDropsLast(j) ==
  IF at[j] = 0
  THEN /\ Goto(j, "write")
       /\ at' = [at EXCEPT ![j] = IF LastPage(j) = 0 THEN 0 ELSE LastPage(j) - 1]
  ELSE Goto(j, "erase") /\ at' = [at EXCEPT ![j] = at[j] - 1]

\* The sector done, on to the sector before it, or to the pages.
NextSector(j) ==
  IF at[j] = 0
  THEN Goto(j, "write") /\ at' = [at EXCEPT ![j] = LastPage(j)]
  ELSE Goto(j, "erase") /\ at' = [at EXCEPT ![j] = at[j] - 1]

\* sec_ts_cmd_flash_se.
sec_ts_cmd_flash_se(j) ==
  /\ pc[j] = "erase"
  /\ \/ \* the command is sent
        /\ ~Busy
        /\ erasing' = PagesOf(at[j])
        /\ flash' = [p \in Page |-> IF p \in PagesOf(at[j]) THEN Torn ELSE flash[p]]
        /\ Goto(j, "busy")
        /\ late' = [late EXCEPT ![j] = FALSE]
        /\ UNCHANGED <<at, result, faults, silent>>
     \/ \* the flash is busy, or its status cannot be read: "false", no error
        /\ \/ Busy /\ UNCHANGED faults
           \/ BusFault
        /\ NextSector(j)
        /\ silent' = TRUE
        /\ UNCHANGED <<flash, erasing, late, result>>
     \/ \* the burst fails
        /\ BusFault
        /\ Return(j, "failed")
        /\ UNCHANGED <<flash, erasing, at, late, silent>>
  /\ UNCHANGED <<running, img, cuts, overlapped, replaced>>

\* sec_ts_wait_for_flash_busy: the loop goes on after RETRY_CNT.
WaitRetryOver(j) ==
  /\ pc[j] = "busy"
  /\ Busy
  /\ late' = [late EXCEPT ![j] = TRUE]
  /\ UNCHANGED <<flash, erasing, running, pc, img, at, result, faults, cuts, history>>

WaitEnds(j) ==
  /\ pc[j] = "busy"
  /\ ~Busy
  /\ \/ late[j] /\ Return(j, "failed") /\ UNCHANGED at
     \/ ~late[j] /\ NextSector(j) /\ UNCHANGED result
  /\ UNCHANGED <<flash, erasing, running, img, late, faults, cuts, history>>

Programmed(p, i) == IF flash[p] \in {Erased, i} THEN i ELSE Torn

NextPage(j) ==
  IF at[j] = 0
  THEN Goto(j, "reset") /\ UNCHANGED at
  ELSE at' = [at EXCEPT ![j] = at[j] - 1] /\ UNCHANGED pc

\* Mutant: the pages are written from the first to the last.
PageWriteAscends(j) ==
  /\ pc[j] = "write"
  /\ LET p == LastPage(j) - at[j]
     IN  flash' = [flash EXCEPT ![p] = Programmed(p, img[j])]
  /\ NextPage(j)
  /\ UNCHANGED <<erasing, running, img, late, result, faults, cuts, history>>

\* Mutant: page 0 is left out of the loop.
PageWriteStopsEarly(j) ==
  /\ pc[j] = "write"
  /\ IF at[j] = 0 THEN UNCHANGED flash
     ELSE flash' = [flash EXCEPT ![at[j]] = Programmed(at[j], img[j])]
  /\ NextPage(j)
  /\ UNCHANGED <<erasing, running, img, late, result, faults, cuts, history>>

\* sec_ts_flashpagewrite, last page first.  It returns bool, so that an error
\* is never below zero and the loop goes on.  A busy flash may drop the page.
sec_ts_flashpagewrite(j) ==
  /\ pc[j] = "write"
  /\ \/ /\ flash' = [flash EXCEPT ![at[j]] = Programmed(at[j], img[j])]
        /\ UNCHANGED <<faults, silent>>
     \/ /\ \/ Busy /\ UNCHANGED faults
           \/ BusFault
        /\ silent' = TRUE
        /\ UNCHANGED flash
  /\ NextPage(j)
  /\ UNCHANGED <<erasing, running, img, late, result, cuts, overlapped, replaced>>

\* SW_RESET, its result ignored.
Reset(j) ==
  /\ pc[j] = "reset"
  /\ Goto(j, "verify")
  /\ \/ running' \in Loadable /\ UNCHANGED faults
     \/ BusFault /\ UNCHANGED running
  /\ UNCHANGED <<flash, erasing, img, at, late, result, cuts, history>>

\* The device id: the command is done, the work calibrates the new firmware.
Verify(j) ==
  /\ pc[j] = "verify"
  /\ \/ /\ running # Boot
        /\ IF j = "work" THEN Goto(j, "calibrate") /\ UNCHANGED result
                         ELSE Return(j, "ok")
        /\ UNCHANGED faults
     \/ /\ running = Boot
        /\ Return(j, "failed")
        /\ UNCHANGED faults
     \/ BusFault /\ Return(j, "failed")
  /\ UNCHANGED <<flash, erasing, running, img, at, late, cuts, history>>

\* CALIBRATION_OFFSET_SDC, SW_RESET and success.
Calibrate(j) ==
  /\ pc[j] = "calibrate"
  /\ \/ running' \in Loadable /\ Return(j, "ok") /\ UNCHANGED faults
     \/ BusFault /\ Return(j, "ok") /\ UNCHANGED running
     \/ BusFault /\ Return(j, "failed") /\ UNCHANGED running
  /\ UNCHANGED <<flash, erasing, img, at, late, cuts, history>>

JobStep(j) ==
  \/ j = "work" /\ Start
  \/ Check(j) \/ sec_ts_firmware_update(j) \/ sec_ts_cmd_flash_se(j)
  \/ WaitEnds(j) \/ sec_ts_flashpagewrite(j) \/ Reset(j) \/ Verify(j)
  \/ Calibrate(j)

Next ==
  \/ FlashDone \/ PowerCut
  \/ \E i \in Files : fw_update(i)
  \/ \E j \in Job : JobStep(j) \/ WaitRetryOver(j)

\* The kernel lets both jobs go on.  That an erase ends is the flash's promise
\* and not the driver's, which waits for it without end.
DriverFairness == \A j \in Job : WF_vars(JobStep(j))
FlashFairness == WF_vars(FlashDone)

Spec == Init /\ [][Next]_vars
DriverSpec == Spec /\ DriverFairness
FairSpec == DriverSpec /\ FlashFairness
-----------------------------------------------------------------------------
(* Properties.                                                             *)

\* Nothing failed unseen and no two updates ran at once.
Clean == ~silent /\ ~overlapped

\* The order of the page writes: the first page of an image is in place only
\* with all the others, unless it is the one whose erasure was cut short.
\* Whenever power is lost, the flash never shows a new header over old pages.
HeaderComesLast ==
  Clean /\ flash[0] \in Images => Whole \/ flash[0] = replaced

\* An update that reports success leaves a whole image in the flash, however
\* often power was lost before and whatever an earlier update left there.
SuccessMeansWhole ==
  [][\A j \in Job :
      /\ Updating(j) /\ result'[j] = "ok" /\ Header[img[j]].chunks = 1
      /\ Clean /\ \A k \in Job \ {j} : ~Updating(k)
      => Whole]_vars

\* The last update replaced an image older than the built-in one.
Upgrading ==
  replaced \in Images => sec_ts_check_firmware_version(BuiltIn, replaced) = 1

\* Whenever power is lost within such an update, the work of the next probe
\* sees it and makes the flash whole, if power stays, the bus is intact, the
\* flash is not too late and no command comes in between.
PartialImageIsRepaired ==
  \A n \in 0..MaxCuts :
    (pc["work"] = "start" /\ cuts = n /\ Clean /\ Upgrading /\ ~Whole /\ faults = 0)
      ~> (Whole \/ cuts # n \/ faults > 0 \/ pc["cmd"] # "idle" \/ late["work"])

\* The code of sec_ts_flashwrite leaves at a failed page with "fw write failed,
\* page_idx": the step after a failed page writes no other.
PageFailureStops ==
  [][\A j \in Job : (pc[j] = "write" /\ at[j] > 0 /\ faults' # faults)
                      => pc'[j] # "write"]_vars

-----------------------------------------------------------------------------
(* The inductive invariant behind HeaderComesLast and SuccessMeansWhole.   *)

\* The sectors of the image behind the next one are erased.
ErasedBehind(j) ==
  \A p \in Page :
    at[j] < SectorOf(p) /\ SectorOf(p) <= SectorOf(LastPage(j)) => flash[p] = Erased

EraseIsHere(j) ==
  /\ pc[j] = "erase" => ~Busy /\ flash[0] = replaced
  /\ pc[j] = "busy" =>
       /\ erasing \in {{}, PagesOf(at[j])}
       /\ \A p \in PagesOf(at[j]) : flash[p] = IF Busy THEN Torn ELSE Erased
       /\ at[j] # 0 => flash[0] = replaced
  /\ pc[j] \in {"erase", "busy"} =>
       /\ Header[img[j]].chunks = 1
       /\ at[j] <= SectorOf(LastPage(j)) /\ ErasedBehind(j)

WriteIsHere(j) ==
  /\ pc[j] = "write" =>
       /\ ~Busy /\ Header[img[j]].chunks = 1 /\ at[j] <= LastPage(j)
       /\ \A p \in Page :
            /\ p <= at[j] => flash[p] = Erased
            /\ at[j] < p /\ p <= LastPage(j) => flash[p] = img[j]
  /\ pc[j] \in {"reset", "verify", "calibrate"} =>
       ~Busy /\ (Header[img[j]].chunks = 1 => Holds(img[j]))

\* One job updates at a time, and the flash is as far as it is.
FlashIsHere ==
  /\ \A j, k \in Job : Updating(j) /\ Updating(k) => j = k
  /\ Busy => \E j \in Job : pc[j] = "busy"
  /\ \A j \in Job : EraseIsHere(j) /\ WriteIsHere(j)

\* A job has no result before it ends.
ResultsComeLast == \A j \in Job : pc[j] # "idle" => result[j] = "none"

IInv == TypeOK /\ ResultsComeLast /\ HeaderComesLast /\ (Clean => FlashIsHere)
=============================================================================
