---------------------------- MODULE SecTsFwProofs ----------------------------
(***************************************************************************)
(* For all images and headers, any number of pages and sectors, any number *)
(* of failing transfers and power losses: the types, that the header comes *)
(* last and that a success means a whole image.  Repair is liveness and is *)
(* left to the run.                                                        *)
(***************************************************************************)
EXTENDS SecTsFw, TLAPS

-----------------------------------------------------------------------------
(* Sectors and images.                                                     *)

LEMMA Sectors ==
  ASSUME NEW p \in Page, NEW q \in Page
  PROVE  /\ 0 \in Page /\ SectorOf(0) = 0
         /\ SectorOf(p) \in Page
         /\ p <= q => SectorOf(p) <= SectorOf(q)
<1>0. /\ PagesPerSector \in Nat \ {0} /\ Pages \in Nat \ {0}
      /\ p \in Nat /\ q \in Nat /\ p < Pages /\ q < Pages
  BY ImagesAssumption DEF Page
<1>1. 0 \in Page
  BY <1>0 DEF Page
<1>2. \A a \in Nat : /\ a \div PagesPerSector \in Nat
                     /\ PagesPerSector * (a \div PagesPerSector) <= a
                     /\ a < PagesPerSector * (a \div PagesPerSector) + PagesPerSector
  BY <1>0
<1>3. SectorOf(0) = 0
  BY <1>0, <1>2 DEF SectorOf
<1>4. \A a, b \in Nat : a * PagesPerSector <= b => a <= b
  BY <1>0
<1>5. SectorOf(p) \in Nat /\ SectorOf(p) <= p
  BY <1>0, <1>2 DEF SectorOf
<1>6. SectorOf(p) \in Page
  BY <1>0, <1>5 DEF Page
<1>7. p <= q => SectorOf(p) <= SectorOf(q)
  BY <1>0, <1>2 DEF SectorOf
<1> QED BY <1>1, <1>3, <1>6, <1>7

LEMMA ImageOf ==
  ASSUME TypeOK, NEW j \in Job
  PROVE  /\ img[j] \in Images /\ LastPage(j) \in Page
         /\ Header[img[j]].pages = LastPage(j) + 1
         /\ Header[img[j]].chunks \in {0, 1}
<1>1. img[j] \in Images
  BY DEF TypeOK
<1>2. Header[img[j]].pages \in 1 .. Pages /\ Header[img[j]].chunks \in {0, 1}
  BY <1>1, ImagesAssumption
<1> QED BY <1>1, <1>2, ImagesAssumption DEF LastPage, Page

-----------------------------------------------------------------------------
(* The types.                                                              *)

LEMMA InitTypeOK ==
  ASSUME Init
  PROVE  TypeOK
<1>1. flash \in [Page -> Images \union {Erased, Torn}]
  BY ImagesAssumption DEF Init
<1>2. 0 \in Page
  BY ImagesAssumption DEF Page
<1>3. /\ Factory \in Images /\ BuiltIn \in Images
      /\ 0 \in 0 .. MaxFaults /\ 0 \in 0 .. MaxCuts
  BY ImagesAssumption
<1>4. pc \in [Job -> Step]
  BY DEF Init, Step
<1>5. late \in [Job -> BOOLEAN] /\ silent \in BOOLEAN /\ overlapped \in BOOLEAN
  BY DEF Init
<1>6. /\ erasing \in SUBSET Page /\ running \in Images \union {Boot}
      /\ img \in [Job -> Images] /\ at \in [Job -> Page]
      /\ result \in [Job -> {"none", "ok", "skipped", "failed"}]
      /\ faults \in 0 .. MaxFaults /\ cuts \in 0 .. MaxCuts
      /\ replaced \in Images \union {Erased, Torn}
  BY <1>2, <1>3 DEF Init
<1> QED BY <1>1, <1>4, <1>5, <1>6 DEF TypeOK

LEMMA LoadableType ==
  ASSUME TypeOK
  PROVE  Loadable \subseteq Images \union {Boot}
<1>1. Whole => flash[0] \in Images
  BY DEF Whole
<1> QED BY <1>1 DEF Loadable

LEMMA FaultType ==
  ASSUME TypeOK, BusFault \/ UNCHANGED faults
  PROVE  faults' \in 0 .. MaxFaults
BY ImagesAssumption DEF TypeOK, BusFault

\* A job goes on, or returns with its result.
LEMMA GoesOn ==
  ASSUME TypeOK, NEW j \in Job,
         \/ \E step \in Step : Goto(j, step) /\ UNCHANGED result
         \/ \E r \in {"ok", "skipped", "failed"} : Return(j, r)
  PROVE  /\ pc' \in [Job -> Step]
         /\ result' \in [Job -> {"none", "ok", "skipped", "failed"}]
         /\ \A k \in Job \ {j} : pc'[k] = pc[k] /\ result'[k] = result[k]
         /\ pc'[j] # "idle" => UNCHANGED result
<1>1. CASE \E step \in Step : Goto(j, step) /\ UNCHANGED result
  <2>1. PICK step \in Step : pc' = [pc EXCEPT ![j] = step] /\ result' = result
    BY <1>1 DEF Goto
  <2> QED BY <2>1 DEF TypeOK
<1>2. CASE \E r \in {"ok", "skipped", "failed"} : Return(j, r)
  <2>1. PICK r \in {"ok", "skipped", "failed"} :
          pc' = [pc EXCEPT ![j] = "idle"] /\ result' = [result EXCEPT ![j] = r]
    BY <1>2 DEF Goto, Return
  <2>2. "idle" \in Step
    BY DEF Step
  <2> QED BY <2>1, <2>2 DEF TypeOK
<1> QED BY <1>1, <1>2

\* Where the erase of a sector, skipped or done, leads.
LEMMA NextSectorType ==
  ASSUME TypeOK, NEW j \in Job, NextSector(j)
  PROVE  /\ at' \in [Job -> Page]
         /\ \E step \in {"erase", "write"} : Goto(j, step)
<1>1. CASE at[j] = 0
  BY <1>1, ImageOf DEF NextSector, TypeOK
<1>2. CASE at[j] # 0
  <2>1. at[j] \in Page /\ Pages \in Nat
    BY ImagesAssumption DEF TypeOK
  <2>2. at[j] - 1 \in Page
    BY <1>2, <2>1 DEF Page
  <2> QED BY <1>2, <2>2 DEF NextSector, TypeOK
<1> QED BY <1>1, <1>2

\* Each step of a job, what it leads to and what it may change.
LEMMA StepGoesOn ==
  ASSUME TypeOK, NEW j \in Job, JobStep(j)
  PROVE  /\ \/ \E step \in Step : Goto(j, step) /\ UNCHANGED result
            \/ \E r \in {"ok", "skipped", "failed"} : Return(j, r)
         /\ pc[j] # "idle"
         /\ BusFault \/ UNCHANGED faults
         /\ UNCHANGED <<img, cuts>>
<1> USE DEF Step
<1>1. CASE j = "work" /\ Start
  BY <1>1 DEF Start
<1>2. CASE Check(j)
  BY <1>2 DEF Check
<1>3. CASE sec_ts_firmware_update(j)
  BY <1>3 DEF sec_ts_firmware_update
<1>4. CASE sec_ts_cmd_flash_se(j)
  <2>1. NextSector(j) => \E step \in Step : Goto(j, step)
    BY NextSectorType
  <2> QED BY <1>4, <2>1 DEF sec_ts_cmd_flash_se
<1>5. CASE WaitEnds(j)
  <2>1. NextSector(j) => \E step \in Step : Goto(j, step)
    BY NextSectorType
  <2> QED BY <1>5, <2>1 DEF WaitEnds
<1>6. CASE sec_ts_flashpagewrite(j)
  <2>1. pc[j] \in Step /\ (pc' = pc => Goto(j, pc[j]))
    BY DEF TypeOK, Goto
  <2>2. NextPage(j) => \E step \in Step : Goto(j, step)
    BY <2>1 DEF NextPage
  <2> QED BY <1>6, <2>2 DEF sec_ts_flashpagewrite
<1>7. CASE Reset(j)
  BY <1>7 DEF Reset
<1>8. CASE Verify(j)
  BY <1>8 DEF Verify
<1>9. CASE Calibrate(j)
  BY <1>9 DEF Calibrate
<1> QED BY <1>1, <1>2, <1>3, <1>4, <1>5, <1>6, <1>7, <1>8, <1>9 DEF JobStep

LEMMA StepTypes ==
  ASSUME TypeOK, NEW j \in Job, JobStep(j)
  PROVE  /\ flash' \in [Page -> Images \union {Erased, Torn}]
         /\ erasing' \in SUBSET Page /\ running' \in Images \union {Boot}
         /\ at' \in [Job -> Page] /\ late' \in [Job -> BOOLEAN]
         /\ silent' \in BOOLEAN /\ overlapped' \in BOOLEAN
         /\ replaced' \in Images \union {Erased, Torn}
<1>0. /\ flash \in [Page -> Images \union {Erased, Torn}]
      /\ erasing \in SUBSET Page /\ running \in Images \union {Boot}
      /\ at \in [Job -> Page] /\ late \in [Job -> BOOLEAN]
      /\ silent \in BOOLEAN /\ overlapped \in BOOLEAN
      /\ replaced \in Images \union {Erased, Torn}
  BY DEF TypeOK
<1>1. CASE j = "work" /\ Start
  BY <1>0, <1>1, LoadableType DEF Start, history
<1>2. CASE Check(j)
  BY <1>0, <1>2 DEF Check, history
<1>3. CASE sec_ts_firmware_update(j)
  <2>1. UNCHANGED <<flash, erasing, running, late, silent>> /\ overlapped' \in BOOLEAN
    BY <1>0, <1>3 DEF sec_ts_firmware_update
  <2>2. /\ at' = at \/ at' = [at EXCEPT ![j] = SectorOf(LastPage(j))]
        /\ replaced' \in {replaced, flash[0]}
    BY <1>3 DEF sec_ts_firmware_update
  <2>3. LastPage(j) \in Page /\ SectorOf(LastPage(j)) \in Page /\ 0 \in Page
    BY ImageOf, Sectors
  <2>4. flash[0] \in Images \union {Erased, Torn}
    BY <1>0, <2>3
  <2> QED BY <1>0, <2>1, <2>2, <2>3, <2>4
<1>4. CASE sec_ts_cmd_flash_se(j)
  <2>1. UNCHANGED <<running, overlapped, replaced>> /\ silent' \in BOOLEAN
    BY <1>0, <1>4 DEF sec_ts_cmd_flash_se
  <2>2. late' \in [Job -> BOOLEAN]
    BY <1>0, <1>4 DEF sec_ts_cmd_flash_se
  <2>3. at' \in [Job -> Page]
    BY <1>0, <1>4, NextSectorType DEF sec_ts_cmd_flash_se
  <2>4. erasing' \in SUBSET Page
    BY <1>0, <1>4 DEF sec_ts_cmd_flash_se, PagesOf
  <2>5. flash' \in [Page -> Images \union {Erased, Torn}]
    BY <1>0, <1>4 DEF sec_ts_cmd_flash_se
  <2> QED BY <1>0, <2>1, <2>2, <2>3, <2>4, <2>5
<1>5. CASE WaitEnds(j)
  <2>1. UNCHANGED <<flash, erasing, running, late, history>>
    BY <1>5 DEF WaitEnds
  <2>2. at' \in [Job -> Page]
    BY <1>0, <1>5, NextSectorType DEF WaitEnds
  <2> QED BY <1>0, <2>1, <2>2 DEF history
<1>6. CASE sec_ts_flashpagewrite(j)
  <2>1. UNCHANGED <<erasing, running, late, overlapped, replaced>> /\ silent' \in BOOLEAN
    BY <1>0, <1>6 DEF sec_ts_flashpagewrite
  <2>2. at[j] \in Page /\ (at[j] # 0 => at[j] - 1 \in Page)
    BY <1>0, ImagesAssumption DEF Page
  <2>3. at' \in [Job -> Page]
    BY <1>0, <1>6, <2>2 DEF sec_ts_flashpagewrite, NextPage
  <2>4. Programmed(at[j], img[j]) \in Images \union {Erased, Torn}
    BY ImageOf DEF Programmed
  <2>5. flash' \in [Page -> Images \union {Erased, Torn}]
    BY <1>0, <1>6, <2>4 DEF sec_ts_flashpagewrite
  <2> QED BY <1>0, <2>1, <2>3, <2>5
<1>7. CASE Reset(j)
  BY <1>0, <1>7, LoadableType DEF Reset, history
<1>8. CASE Verify(j)
  BY <1>0, <1>8 DEF Verify, history
<1>9. CASE Calibrate(j)
  BY <1>0, <1>9, LoadableType DEF Calibrate, history
<1> QED BY <1>1, <1>2, <1>3, <1>4, <1>5, <1>6, <1>7, <1>8, <1>9 DEF JobStep

LEMMA NextKeepsTypes ==
  ASSUME TypeOK, ResultsComeLast, [Next]_vars
  PROVE  TypeOK' /\ ResultsComeLast'
<1>1. CASE \E j \in Job : JobStep(j)
  <2>1. PICK j \in Job : JobStep(j)
    BY <1>1
  <2>2. /\ pc[j] # "idle" /\ (BusFault \/ UNCHANGED faults) /\ UNCHANGED <<img, cuts>>
    BY <2>1, StepGoesOn
  <2>3. /\ pc' \in [Job -> Step]
        /\ result' \in [Job -> {"none", "ok", "skipped", "failed"}]
        /\ \A k \in Job \ {j} : pc'[k] = pc[k] /\ result'[k] = result[k]
        /\ pc'[j] # "idle" => UNCHANGED result
    BY <2>1, StepGoesOn, GoesOn
  <2>4. faults' \in 0 .. MaxFaults
    BY <2>2, FaultType
  <2>5. img' \in [Job -> Images] /\ cuts' \in 0 .. MaxCuts
    BY <2>2 DEF TypeOK
  <2>6. TypeOK'
    BY <2>1, <2>3, <2>4, <2>5, StepTypes DEF TypeOK
  <2>7. ResultsComeLast'
    BY <2>2, <2>3 DEF ResultsComeLast
  <2> QED BY <2>6, <2>7
<1>2. CASE \E j \in Job : WaitRetryOver(j)
  <2>1. PICK j \in Job : WaitRetryOver(j)
    BY <1>2
  <2>2. late' \in [Job -> BOOLEAN]
    BY <2>1 DEF WaitRetryOver, TypeOK
  <2> QED BY <2>1, <2>2 DEF WaitRetryOver, TypeOK, ResultsComeLast, history
<1>3. CASE \E i \in Files : fw_update(i)
  <2>1. PICK i \in Files : fw_update(i)
    BY <1>3
  <2>2. /\ "cmd" \in Job /\ img' \in [Job -> Images]
    BY <2>1, ImagesAssumption DEF fw_update, TypeOK, Job
  <2>3. PICK step \in {"check", "update", "idle"}, r \in {"none", "failed", "skipped"} :
          /\ pc' = [pc EXCEPT !["cmd"] = step] /\ result' = [result EXCEPT !["cmd"] = r]
          /\ step # "idle" => r = "none"
    BY <2>1 DEF fw_update, Goto, Return
  <2>4. pc' \in [Job -> Step] /\ result' \in [Job -> {"none", "ok", "skipped", "failed"}]
    BY <2>2, <2>3 DEF TypeOK, Step
  <2>5. ResultsComeLast'
    BY <2>2, <2>3 DEF ResultsComeLast, TypeOK
  <2>6. UNCHANGED <<flash, erasing, running, at, late, faults, cuts, history>>
    BY <2>1 DEF fw_update
  <2> QED BY <2>2, <2>4, <2>5, <2>6 DEF TypeOK, history
<1>4. CASE FlashDone
  <2>1. flash' \in [Page -> Images \union {Erased, Torn}] /\ erasing' \in SUBSET Page
    BY <1>4 DEF FlashDone, TypeOK
  <2> QED BY <1>4, <2>1 DEF FlashDone, TypeOK, ResultsComeLast, driver, history
<1>5. CASE PowerCut
  <2>1. 0 \in Page /\ BuiltIn \in Images
    BY ImagesAssumption DEF Page
  <2>2. cuts' \in 0 .. MaxCuts
    BY <1>5, ImagesAssumption DEF PowerCut, TypeOK
  <2>3. /\ erasing' \in SUBSET Page /\ running' \in Images \union {Boot}
        /\ img' \in [Job -> Images] /\ at' \in [Job -> Page]
        /\ result' \in [Job -> {"none", "ok", "skipped", "failed"}]
    BY <1>5, <2>1, LoadableType DEF PowerCut
  <2>4. pc' \in [Job -> Step]
    BY <1>5 DEF PowerCut, Step
  <2>5. late' \in [Job -> BOOLEAN]
    BY <1>5 DEF PowerCut
  <2>6. UNCHANGED <<flash, faults, history>> /\ ResultsComeLast'
    BY <1>5 DEF PowerCut, ResultsComeLast
  <2> QED BY <2>2, <2>3, <2>4, <2>5, <2>6 DEF TypeOK, history
<1>6. CASE UNCHANGED vars
  BY <1>6 DEF vars, driver, history, TypeOK, ResultsComeLast
<1> QED BY <1>1, <1>2, <1>3, <1>4, <1>5, <1>6 DEF Next

-----------------------------------------------------------------------------
(* The flash, while nothing failed unseen and one job updates at a time.   *)

HeaderIsWhole == flash[0] \in Images => Whole \/ flash[0] = replaced
Finals == {"reset", "verify", "calibrate"}

LEMMA Updates ==
  ASSUME NEW j \in Job
  PROVE  /\ TypeOK => (Updating(j) <=> pc[j] \in {"erase", "busy", "write"} \union Finals)
         /\ TypeOK' => (Updating(j)' <=> pc'[j] \in {"erase", "busy", "write"} \union Finals)
BY DEF Updating, TypeOK, Step, Finals

LEMMA OneUpdates ==
  ASSUME FlashIsHere, NEW j \in Job, Updating(j)
  PROVE  \A k \in Job \ {j} : ~Updating(k)
BY DEF FlashIsHere

\* The pages of an image are those that count.
LEMMA HoldsIs ==
  ASSUME TypeOK, NEW j \in Job
  PROVE  /\ Holds(img[j]) <=> \A p \in Page : p <= LastPage(j) => flash[p] = img[j]
         /\ Holds(img[j]) => Whole /\ flash[0] = img[j]
<1>1. /\ img[j] \in Images /\ LastPage(j) \in Page
      /\ Header[img[j]].pages = LastPage(j) + 1
  BY ImageOf
<1>2. Pages \in Nat /\ LastPage(j) \in Nat /\ LastPage(j) < Pages
  BY <1>1, ImagesAssumption DEF Page
<1>3. Header[img[j]].pages - 1 = LastPage(j)
  BY <1>1, <1>2
<1>4. \A p : p \in 0 .. LastPage(j) <=> p \in Page /\ p <= LastPage(j)
  BY <1>2 DEF Page
<1>5. Holds(img[j]) <=> \A p \in 0 .. LastPage(j) : flash[p] = img[j]
  BY <1>3 DEF Holds
<1>6. 0 \in 0 .. LastPage(j)
  BY <1>2
<1>7. Holds(img[j]) => flash[0] = img[j]
  BY <1>5, <1>6
<1>8. Holds(img[j]) => Whole
  BY <1>1, <1>7 DEF Whole
<1> QED BY <1>4, <1>5, <1>7, <1>8

LEMMA HoldsPrimed ==
  ASSUME TypeOK', NEW j \in Job
  PROVE  /\ Holds(img[j])' <=> \A p \in Page : p <= LastPage(j)' => flash'[p] = img'[j]
         /\ Holds(img[j])' => Whole'
<1>1. /\ img'[j] \in Images /\ Header[img'[j]].pages \in 1 .. Pages
      /\ Pages \in Nat /\ Header[img'[j]].pages \in Nat
  <2>1. img'[j] \in Images
    BY DEF TypeOK
  <2>2. Header[img'[j]].pages \in 1 .. Pages /\ Pages \in Nat
    BY <2>1, ImagesAssumption
  <2> QED BY <2>1, <2>2
<1>2. LastPage(j)' = Header[img'[j]].pages - 1
  BY DEF LastPage
<1>3. \A p : p \in 0 .. (Header[img'[j]].pages - 1) <=> p \in Page /\ p <= LastPage(j)'
  BY <1>1, <1>2 DEF Page
<1>4. Holds(img[j])' <=> \A p \in 0 .. (Header[img'[j]].pages - 1) : flash'[p] = img'[j]
  BY DEF Holds
<1>5. 0 \in 0 .. (Header[img'[j]].pages - 1)
  BY <1>1
<1>6. Holds(img[j])' => flash'[0] = img'[j]
  BY <1>4, <1>5
<1>7. Holds(img[j])' => Whole'
  <2>1. Whole' <=> flash'[0] \in Images /\ \A p \in 0 .. (Header[flash'[0]].pages - 1) : flash'[p] = flash'[0]
    BY DEF Whole, Holds
  <2> QED BY <1>1, <1>4, <1>6, <2>1
<1> QED BY <1>3, <1>4, <1>7

\* When one job alone updates, what it did is all there is to know.
LEMMA JobAlone ==
  ASSUME TypeOK', NEW j \in Job, \A k \in Job \ {j} : ~Updating(k)',
         EraseIsHere(j)', WriteIsHere(j)', Busy' => pc'[j] = "busy"
  PROVE  FlashIsHere'
<1>1. \A k \in Job \ {j} : EraseIsHere(k)' /\ WriteIsHere(k)'
  <2> SUFFICES ASSUME NEW k \in Job \ {j}
               PROVE  EraseIsHere(k)' /\ WriteIsHere(k)'
    OBVIOUS
  <2>1. pc'[k] \notin {"erase", "busy", "write"} \union Finals
    BY Updates
  <2> QED BY <2>1 DEF EraseIsHere, WriteIsHere, Finals
<1> QED BY <1>1 DEF FlashIsHere

\* Steps that leave the flash alone, and each updating job where it is.
LEMMA StandsStill ==
  ASSUME TypeOK, TypeOK', FlashIsHere, HeaderIsWhole, UNCHANGED <<flash, erasing, replaced>>,
         \A k \in Job : \/ ~Updating(k)'
                       \/ /\ at'[k] = at[k] /\ img'[k] = img[k]
                          /\ pc'[k] = pc[k] \/ {pc[k], pc'[k]} \subseteq Finals,
         \A k \in Job : Busy /\ pc[k] = "busy" => pc'[k] = "busy"
  PROVE  FlashIsHere' /\ HeaderIsWhole'
<1>1. HeaderIsWhole'
  BY DEF HeaderIsWhole, Whole, Holds
<1>2. \A k \in Job : Updating(k)' => Updating(k)
  BY Updates
<1>3. \A k \in Job : EraseIsHere(k)' /\ WriteIsHere(k)'
  <2> SUFFICES ASSUME NEW k \in Job
               PROVE  EraseIsHere(k)' /\ WriteIsHere(k)'
    OBVIOUS
  <2>1. CASE ~Updating(k)'
    <3>1. pc'[k] \notin {"erase", "busy", "write"} \union Finals
      BY <2>1, Updates
    <3> QED BY <3>1 DEF EraseIsHere, WriteIsHere, Finals
  <2>2. CASE /\ at'[k] = at[k] /\ img'[k] = img[k]
             /\ pc'[k] = pc[k] \/ {pc[k], pc'[k]} \subseteq Finals
    <3>1. LastPage(k)' = LastPage(k) /\ ErasedBehind(k)' = ErasedBehind(k) /\ Busy' = Busy
          /\ Holds(img[k])' = Holds(img[k])
      BY <2>2 DEF LastPage, ErasedBehind, Busy, Holds
    <3>2. EraseIsHere(k) /\ WriteIsHere(k)
      BY DEF FlashIsHere
    <3>3. EraseIsHere(k)'
      BY <2>2, <3>1, <3>2 DEF EraseIsHere, Finals
    <3>4. WriteIsHere(k)'
      BY <2>2, <3>1, <3>2 DEF WriteIsHere, Finals
    <3> QED BY <3>3, <3>4
  <2> QED BY <2>1, <2>2
<1>4. Busy' => \E k \in Job : pc'[k] = "busy"
  BY DEF FlashIsHere, Busy
<1>5. \A k, i \in Job : Updating(k)' /\ Updating(i)' => k = i
  BY <1>2 DEF FlashIsHere
<1> QED BY <1>1, <1>3, <1>4, <1>5 DEF FlashIsHere

\* A job that goes on alone leaves the others where they are.
LEMMA OthersWait ==
  ASSUME TypeOK, TypeOK', NEW j \in Job, JobStep(j), \A k \in Job \ {j} : ~Updating(k)
  PROVE  \A k \in Job \ {j} : ~Updating(k)'
<1>1. \A k \in Job \ {j} : pc'[k] = pc[k]
  BY StepGoesOn, GoesOn
<1> QED BY <1>1, Updates

\* No erase goes on when nobody updates.
LEMMA BusyUpdates ==
  ASSUME TypeOK, FlashIsHere, \A k \in Job : ~Updating(k)
  PROVE  ~Busy
BY Updates DEF FlashIsHere

LEMMA UpdateStarts ==
  ASSUME TypeOK, TypeOK', FlashIsHere, HeaderIsWhole, Clean',
         NEW j \in Job, sec_ts_firmware_update(j)
  PROVE  FlashIsHere' /\ HeaderIsWhole'
<1>0. JobStep(j) /\ pc[j] = "update" /\ UNCHANGED <<flash, erasing, img>>
  BY DEF JobStep, sec_ts_firmware_update
<1>1. CASE Return(j, "failed") /\ UNCHANGED <<at, overlapped, replaced>>
  <2>1. pc' = [pc EXCEPT ![j] = "idle"]
    BY <1>1 DEF Return, Goto
  <2>2. ~Updating(j)' /\ \A k \in Job \ {j} : pc'[k] = pc[k]
    BY <2>1, Updates DEF TypeOK, Finals
  <2> QED BY <1>0, <1>1, <2>2, StandsStill
<1>2. CASE /\ Goto(j, IF Header[img[j]].chunks = 0 THEN "reset" ELSE "erase")
           /\ at' = [at EXCEPT ![j] = SectorOf(LastPage(j))]
           /\ overlapped' = (overlapped \/ \E k \in Job \ {j} : Updating(k))
           /\ replaced' = IF Header[img[j]].chunks = 0 THEN replaced ELSE flash[0]
  <2>1. \A k \in Job \ {j} : ~Updating(k)
    BY <1>2 DEF Clean
  <2>2. \A k \in Job \ {j} : ~Updating(k)'
    BY <1>0, <2>1, OthersWait
  <2>3. ~Busy /\ ~Busy'
    BY <1>0, <2>1, Updates, BusyUpdates DEF Busy, Finals
  <2>4. at'[j] = SectorOf(LastPage(j)) /\ LastPage(j)' = LastPage(j)
    BY <1>0, <1>2 DEF TypeOK, LastPage
  <2>5. CASE Header[img[j]].chunks = 0
    <3>1. pc'[j] = "reset" /\ replaced' = replaced
      BY <1>2, <2>5 DEF Goto, TypeOK
    <3>2. EraseIsHere(j)' /\ WriteIsHere(j)'
      BY <1>0, <2>3, <2>5, <3>1 DEF EraseIsHere, WriteIsHere
    <3>3. HeaderIsWhole'
      BY <1>0, <3>1 DEF HeaderIsWhole, Whole, Holds
    <3> QED BY <2>2, <2>3, <3>2, <3>3, JobAlone
  <2>6. CASE Header[img[j]].chunks # 0
    <3>1. pc'[j] = "erase" /\ replaced' = flash[0] /\ Header[img[j]].chunks = 1
      BY <1>2, <2>6, ImageOf DEF Goto, TypeOK
    <3>2. ErasedBehind(j)' /\ at'[j] <= SectorOf(LastPage(j))'
      <4>1. LastPage(j) \in Page /\ SectorOf(LastPage(j)) \in Nat
        BY ImageOf, Sectors DEF Page
      <4>2. \A p \in Page : SectorOf(p) \in Nat
        BY Sectors DEF Page
      <4>3. SectorOf(LastPage(j))' = SectorOf(LastPage(j))
        BY <2>4 DEF SectorOf
      <4> QED BY <2>4, <4>1, <4>2, <4>3 DEF ErasedBehind
    <3>3. EraseIsHere(j)' /\ WriteIsHere(j)'
      BY <1>0, <2>3, <3>1, <3>2 DEF EraseIsHere, WriteIsHere
    <3>4. HeaderIsWhole'
      BY <1>0, <3>1 DEF HeaderIsWhole
    <3> QED BY <2>2, <2>3, <3>3, <3>4, JobAlone
  <2> QED BY <2>5, <2>6
<1> QED BY <1>1, <1>2 DEF sec_ts_firmware_update

LEMMA SectorErase ==
  ASSUME TypeOK, TypeOK', FlashIsHere, HeaderIsWhole, Clean',
         NEW j \in Job, sec_ts_cmd_flash_se(j)
  PROVE  FlashIsHere' /\ HeaderIsWhole'
<1>0. /\ JobStep(j) /\ pc[j] = "erase" /\ UNCHANGED <<img, replaced>>
      /\ EraseIsHere(j) /\ Updating(j) /\ ~Busy
  BY Updates DEF JobStep, sec_ts_cmd_flash_se, FlashIsHere, EraseIsHere
<1>1. CASE Return(j, "failed") /\ UNCHANGED <<flash, erasing, at, late, silent>>
  <2>1. pc' = [pc EXCEPT ![j] = "idle"]
    BY <1>1 DEF Return, Goto
  <2>2. ~Updating(j)' /\ \A k \in Job \ {j} : pc'[k] = pc[k]
    BY <2>1, Updates DEF TypeOK, Finals
  <2> QED BY <1>0, <1>1, <2>2, StandsStill
<1>2. CASE /\ erasing' = PagesOf(at[j])
           /\ flash' = [p \in Page |-> IF p \in PagesOf(at[j]) THEN Torn ELSE flash[p]]
           /\ Goto(j, "busy") /\ UNCHANGED at
  <2>1. \A k \in Job \ {j} : ~Updating(k)'
    BY <1>0, OneUpdates, OthersWait
  <2>2. /\ pc'[j] = "busy" /\ at'[j] = at[j] /\ LastPage(j)' = LastPage(j)
        /\ PagesOf(at[j])' = PagesOf(at[j])
    BY <1>0, <1>2 DEF Goto, TypeOK, LastPage, PagesOf
  <2>3. \A p \in PagesOf(at[j]) : p \in Page /\ flash'[p] = Torn /\ Busy'
    BY <1>2 DEF PagesOf, Busy
  <2>4. \A p \in Page : SectorOf(p) # at[j] => flash'[p] = flash[p]
    BY <1>2 DEF PagesOf
  <2>5. 0 \in Page /\ SectorOf(0) = 0
    BY ImageOf, Sectors
  <2>6. at[j] # 0 => flash'[0] = replaced'
    BY <1>0, <2>4, <2>5 DEF EraseIsHere
  <2>7. at[j] = 0 => flash'[0] = Torn
    BY <2>3, <2>5 DEF PagesOf
  <2>8. ErasedBehind(j)' /\ at'[j] <= SectorOf(LastPage(j))'
    <3>1. SectorOf(LastPage(j))' = SectorOf(LastPage(j))
      BY <2>2 DEF SectorOf
    <3>2. at[j] \in Nat /\ \A p \in Page : at[j] < SectorOf(p) => SectorOf(p) # at[j]
      BY DEF TypeOK, Page
    <3> QED BY <1>0, <2>2, <2>4, <3>1, <3>2 DEF EraseIsHere, ErasedBehind
  <2>9. EraseIsHere(j)'
    BY <1>0, <1>2, <2>2, <2>3, <2>6, <2>8 DEF EraseIsHere
  <2>10. WriteIsHere(j)'
    BY <2>2 DEF WriteIsHere
  <2>11. HeaderIsWhole'
    BY <2>6, <2>7, ContentsAssumption DEF HeaderIsWhole
  <2> QED BY <2>1, <2>2, <2>9, <2>10, <2>11, JobAlone
<1>3. ~silent'
  BY DEF Clean
<1> QED BY <1>1, <1>2, <1>3 DEF sec_ts_cmd_flash_se

LEMMA EraseEnds ==
  ASSUME TypeOK, TypeOK', FlashIsHere, HeaderIsWhole, FlashDone
  PROVE  FlashIsHere' /\ HeaderIsWhole'
<1>1. PICK j \in Job : pc[j] = "busy"
  BY DEF FlashDone, FlashIsHere, Busy
<1>2. /\ Busy /\ ~Busy' /\ UNCHANGED <<pc, img, at, replaced>>
      /\ flash' = [p \in Page |-> IF p \in erasing THEN Erased ELSE flash[p]]
  BY DEF FlashDone, Busy, driver, history
<1>3. EraseIsHere(j) /\ erasing = PagesOf(at[j])
  BY <1>1, <1>2 DEF FlashIsHere, EraseIsHere, Busy
<1>4. Updating(j) /\ \A k \in Job \ {j} : ~Updating(k)'
  <2>1. Updating(j)
    BY <1>1, Updates
  <2> QED BY <1>2, <2>1, OneUpdates, Updates
<1>5. 0 \in Page /\ SectorOf(0) = 0
  BY ImageOf, Sectors
<1>6. \A p \in Page : /\ SectorOf(p) = at[j] => flash'[p] = Erased
                      /\ SectorOf(p) # at[j] => flash'[p] = flash[p]
  BY <1>2, <1>3 DEF PagesOf
<1>7. EraseIsHere(j)'
  <2>1. /\ pc'[j] = "busy" /\ at'[j] = at[j] /\ LastPage(j)' = LastPage(j)
        /\ PagesOf(at[j])' = PagesOf(at[j]) /\ SectorOf(LastPage(j))' = SectorOf(LastPage(j))
    BY <1>1, <1>2 DEF LastPage, PagesOf, SectorOf
  <2>2. at[j] # 0 => flash'[0] = replaced'
    BY <1>1, <1>2, <1>3, <1>5, <1>6 DEF EraseIsHere
  <2>3. ErasedBehind(j)'
    BY <1>1, <1>2, <1>3, <1>6, <2>1 DEF EraseIsHere, ErasedBehind
  <2>4. \A p \in PagesOf(at[j]) : flash'[p] = Erased
    BY <1>6 DEF PagesOf
  <2>5. erasing' = {}
    BY DEF FlashDone
  <2>6. Header[img[j]].chunks = 1 /\ at[j] <= SectorOf(LastPage(j))
    BY <1>1, <1>3 DEF EraseIsHere
  <2> QED BY <1>2, <2>1, <2>2, <2>3, <2>4, <2>5, <2>6 DEF EraseIsHere
<1>8. WriteIsHere(j)'
  BY <1>1, <1>2 DEF WriteIsHere
<1>9. HeaderIsWhole'
  <2>1. at[j] = 0 => flash'[0] = Erased
    BY <1>5, <1>6
  <2>2. at[j] # 0 => flash'[0] = replaced'
    BY <1>1, <1>2, <1>3, <1>5, <1>6 DEF EraseIsHere
  <2> QED BY <2>1, <2>2, ContentsAssumption DEF HeaderIsWhole
<1> QED BY <1>2, <1>4, <1>7, <1>8, <1>9, JobAlone

\* Once the last sector is erased all pages of the image are.
LEMMA SectorEnds ==
  ASSUME TypeOK, TypeOK', FlashIsHere, HeaderIsWhole, NEW j \in Job, WaitEnds(j)
  PROVE  FlashIsHere' /\ HeaderIsWhole'
<1>0. /\ JobStep(j) /\ pc[j] = "busy" /\ UNCHANGED <<flash, erasing, img, replaced>>
      /\ EraseIsHere(j) /\ Updating(j) /\ ~Busy /\ ~Busy'
  BY Updates DEF JobStep, WaitEnds, FlashIsHere, history, Busy
<1>1. CASE Return(j, "failed") /\ UNCHANGED at
  <2>1. pc' = [pc EXCEPT ![j] = "idle"]
    BY <1>1 DEF Return, Goto
  <2>2. ~Updating(j)' /\ \A k \in Job \ {j} : pc'[k] = pc[k]
    BY <2>1, Updates DEF TypeOK, Finals
  <2> QED BY <1>0, <1>1, <2>2, StandsStill
<1>2. CASE NextSector(j)
  <2>1. \A k \in Job \ {j} : ~Updating(k)'
    BY <1>0, OneUpdates, OthersWait
  <2>2. LastPage(j)' = LastPage(j) /\ SectorOf(LastPage(j))' = SectorOf(LastPage(j))
    BY <1>0 DEF LastPage, SectorOf
  <2>3. /\ at[j] \in Nat /\ LastPage(j) \in Page /\ LastPage(j) \in Nat
        /\ SectorOf(LastPage(j)) \in Nat
        /\ \A p \in Page : p \in Nat /\ SectorOf(p) \in Nat
    BY ImageOf, Sectors DEF TypeOK, Page
  <2>4. /\ Header[img[j]].chunks = 1 /\ at[j] <= SectorOf(LastPage(j))
        /\ \A p \in Page : at[j] <= SectorOf(p) /\ SectorOf(p) <= SectorOf(LastPage(j))
                           => flash[p] = Erased
    <3>1. \A p \in Page : SectorOf(p) = at[j] => flash[p] = Erased
      BY <1>0 DEF EraseIsHere, PagesOf
    <3>2. ErasedBehind(j) /\ Header[img[j]].chunks = 1 /\ at[j] <= SectorOf(LastPage(j))
      BY <1>0 DEF EraseIsHere
    <3> QED BY <2>3, <3>1, <3>2 DEF ErasedBehind
  <2>5. HeaderIsWhole'
    BY <1>0 DEF HeaderIsWhole, Whole, Holds
  <2>6. CASE at[j] = 0
    <3>1. pc'[j] = "write" /\ at'[j] = LastPage(j)
      BY <1>2, <2>6 DEF NextSector, Goto, TypeOK
    <3>2. \A p \in Page : p <= LastPage(j) => flash[p] = Erased
      BY <2>3, <2>4, <2>6, Sectors
    <3>3. EraseIsHere(j)'
      BY <3>1 DEF EraseIsHere
    <3>4. WriteIsHere(j)'
      <4>1. \A p \in Page : ~(LastPage(j) < p /\ p <= LastPage(j))
        BY <2>3
      <4> QED BY <1>0, <2>2, <2>3, <2>4, <3>1, <3>2, <4>1 DEF WriteIsHere
    <3> QED BY <1>0, <2>1, <2>5, <3>3, <3>4, JobAlone
  <2>7. CASE at[j] # 0
    <3>1. pc'[j] = "erase" /\ at'[j] = at[j] - 1
      BY <1>2, <2>7 DEF NextSector, Goto, TypeOK
    <3>2. ErasedBehind(j)' /\ at'[j] <= SectorOf(LastPage(j))'
      BY <1>0, <2>2, <2>3, <2>4, <2>7, <3>1 DEF ErasedBehind
    <3>3. EraseIsHere(j)'
      BY <1>0, <2>4, <2>7, <3>1, <3>2 DEF EraseIsHere
    <3>4. WriteIsHere(j)'
      BY <3>1 DEF WriteIsHere
    <3> QED BY <1>0, <2>1, <2>5, <3>3, <3>4, JobAlone
  <2> QED BY <2>6, <2>7
<1> QED BY <1>1, <1>2 DEF WaitEnds

\* The pages are written from the last, so that page 0 completes the image.
LEMMA PageIsWritten ==
  ASSUME TypeOK, TypeOK', FlashIsHere, HeaderIsWhole, Clean',
         NEW j \in Job, sec_ts_flashpagewrite(j)
  PROVE  FlashIsHere' /\ HeaderIsWhole'
<1>0. /\ JobStep(j) /\ pc[j] = "write" /\ UNCHANGED <<erasing, img, replaced>>
      /\ WriteIsHere(j) /\ Updating(j) /\ NextPage(j)
  BY Updates DEF JobStep, sec_ts_flashpagewrite, FlashIsHere
<1>1. /\ ~Busy /\ ~Busy' /\ Header[img[j]].chunks = 1 /\ at[j] <= LastPage(j)
      /\ \A p \in Page : /\ p <= at[j] => flash[p] = Erased
                         /\ at[j] < p /\ p <= LastPage(j) => flash[p] = img[j]
  BY <1>0 DEF WriteIsHere, Busy
<1>2. flash' = [flash EXCEPT ![at[j]] = Programmed(at[j], img[j])]
  BY DEF sec_ts_flashpagewrite, Clean
<1>3. /\ at[j] \in Page /\ at[j] \in Nat /\ 0 \in Page
      /\ \A p \in Page : p \in Nat
  BY ImageOf, Sectors DEF TypeOK, Page
<1>4. /\ flash'[at[j]] = img[j]
      /\ \A p \in Page : p # at[j] => flash'[p] = flash[p]
  BY <1>1, <1>2, <1>3 DEF Programmed, TypeOK
<1>5. \A k \in Job \ {j} : ~Updating(k)'
  BY <1>0, OneUpdates, OthersWait
<1>6. LastPage(j)' = LastPage(j) /\ img'[j] = img[j]
  BY <1>0 DEF LastPage
<1>7. LastPage(j) \in Nat /\ img[j] \in Images
  BY ImageOf DEF Page
<1>8. CASE at[j] = 0
  <2>1. pc'[j] = "reset"
    BY <1>0, <1>8 DEF NextPage, Goto, TypeOK
  <2>2. \A p \in Page : p <= LastPage(j) => flash'[p] = img[j]
    BY <1>1, <1>3, <1>4, <1>8
  <2>3. Holds(img[j])' /\ Whole'
    <3>1. TypeOK' => (Holds(img[j])' <=> \A p \in Page : p <= LastPage(j)' => flash'[p] = img'[j])
      BY HoldsPrimed
    <3>2. TypeOK' => (Holds(img[j])' => Whole')
      BY HoldsPrimed
    <3> QED BY <1>6, <2>2, <3>1, <3>2
  <2>4. EraseIsHere(j)' /\ WriteIsHere(j)'
    BY <1>1, <2>1, <2>3 DEF EraseIsHere, WriteIsHere
  <2>5. HeaderIsWhole'
    BY <2>3 DEF HeaderIsWhole
  <2> QED BY <1>1, <1>5, <2>4, <2>5, JobAlone
<1>9. CASE at[j] # 0
  <2>1. pc'[j] = "write" /\ at'[j] = at[j] - 1
    BY <1>0, <1>9 DEF NextPage, TypeOK
  <2>2. EraseIsHere(j)'
    BY <2>1 DEF EraseIsHere
  <2>3. \A p \in Page : /\ p <= at'[j] => flash'[p] = Erased
                        /\ at'[j] < p /\ p <= LastPage(j) => flash'[p] = img[j]
    BY <1>1, <1>3, <1>4, <2>1
  <2>4. at'[j] <= LastPage(j)
    BY <1>1, <1>3, <1>7, <2>1
  <2>5. WriteIsHere(j)'
    BY <1>0, <1>1, <1>6, <2>1, <2>3, <2>4 DEF WriteIsHere
  <2>6. HeaderIsWhole'
    <3>1. flash'[0] = Erased
      BY <1>1, <1>3, <1>4, <1>9
    <3> QED BY <3>1, ContentsAssumption DEF HeaderIsWhole
  <2> QED BY <1>1, <1>5, <2>2, <2>5, <2>6, JobAlone
<1> QED BY <1>8, <1>9

\* The steps before and after, of which none touches the flash.
LEMMA QuietStep ==
  ASSUME TypeOK, TypeOK', FlashIsHere, HeaderIsWhole, NEW j \in Job,
         (j = "work" /\ Start) \/ Check(j) \/ Reset(j) \/ Verify(j) \/ Calibrate(j)
  PROVE  FlashIsHere' /\ HeaderIsWhole'
<1>0. JobStep(j) /\ UNCHANGED <<flash, erasing, replaced, at, img>>
  BY DEF JobStep, Start, Check, Reset, Verify, Calibrate, history
<1>1. /\ \A k \in Job \ {j} : pc'[k] = pc[k]
      /\ pc'[j] \in {"idle", "check", "update"} \/ {pc[j], pc'[j]} \subseteq Finals
  <2>1. \A k \in Job \ {j} : pc'[k] = pc[k]
    BY <1>0, StepGoesOn, GoesOn
  <2>2. PICK step \in {"idle", "check", "update", "verify", "calibrate"} :
          /\ pc' = [pc EXCEPT ![j] = step]
          /\ step \in {"verify", "calibrate"} => pc[j] \in {"reset", "verify"}
    BY DEF Start, Check, Reset, Verify, Calibrate, Goto, Return
  <2>3. pc'[j] = step
    BY <2>2 DEF TypeOK
  <2> QED BY <2>1, <2>2, <2>3 DEF Finals
<1>2. pc[j] # "busy"
  BY DEF Start, Check, Reset, Verify, Calibrate
<1>3. \A k \in Job : \/ ~Updating(k)'
                     \/ pc'[k] = pc[k] \/ {pc[k], pc'[k]} \subseteq Finals
  BY <1>1, Updates DEF Finals
<1> QED BY <1>0, <1>1, <1>2, <1>3, StandsStill

LEMMA InitFlash ==
  ASSUME Init
  PROVE  ResultsComeLast /\ HeaderIsWhole /\ FlashIsHere
<1>1. TypeOK
  BY InitTypeOK
<1>2. /\ erasing = {} /\ \A j \in Job : pc[j] \in {"start", "idle"} /\ result[j] = "none"
      /\ \A p \in Page : p < Header[Factory].pages => flash[p] = Factory
  BY DEF Init
<1>3. /\ Header[Factory].pages \in 1 .. Pages /\ Pages \in Nat /\ Factory \in Images
  BY ImagesAssumption
<1>4. \A p \in 0 .. (Header[Factory].pages - 1) : p \in Page /\ p < Header[Factory].pages
  BY <1>3 DEF Page
<1>5. 0 \in 0 .. (Header[Factory].pages - 1)
  BY <1>3
<1>6. Whole
  BY <1>2, <1>3, <1>4, <1>5 DEF Whole, Holds
<1>7. FlashIsHere
  <2>1. \A j \in Job : ~Updating(j)
    BY <1>2 DEF Updating
  <2>2. \A j \in Job : EraseIsHere(j) /\ WriteIsHere(j)
    BY <1>2 DEF EraseIsHere, WriteIsHere
  <2> QED BY <1>2, <2>1, <2>2 DEF FlashIsHere, Busy
<1> QED BY <1>2, <1>6, <1>7 DEF ResultsComeLast, HeaderIsWhole

\* Nothing makes clean again what is not.
LEMMA CleanBefore ==
  ASSUME TypeOK, [Next]_vars, Clean'
  PROVE  Clean
<1>1. CASE \E j \in Job : JobStep(j)
  <2>1. PICK j \in Job : JobStep(j)
    BY <1>1
  <2>2. CASE sec_ts_firmware_update(j)
    <3>1. \/ overlapped' = overlapped
          \/ overlapped' = (overlapped \/ \E k \in Job \ {j} : Updating(k))
      BY <2>2 DEF sec_ts_firmware_update
    <3>2. overlapped => overlapped'
      BY <3>1
    <3>3. silent' = silent
      BY <2>2 DEF sec_ts_firmware_update
    <3> QED BY <3>2, <3>3 DEF Clean
  <2>3. CASE sec_ts_cmd_flash_se(j)
    BY <2>3 DEF sec_ts_cmd_flash_se, Clean
  <2>4. CASE sec_ts_flashpagewrite(j)
    BY <2>4 DEF sec_ts_flashpagewrite, Clean
  <2>5. CASE (j = "work" /\ Start) \/ Check(j) \/ WaitEnds(j) \/ Reset(j) \/ Verify(j) \/ Calibrate(j)
    BY <2>5 DEF Start, Check, WaitEnds, Reset, Verify, Calibrate, history, Clean
  <2> QED BY <2>1, <2>2, <2>3, <2>4, <2>5 DEF JobStep
<1>2. CASE UNCHANGED history
  BY <1>2 DEF Clean, history
<1> QED BY <1>1, <1>2 DEF Next, FlashDone, PowerCut, fw_update, WaitRetryOver, vars

LEMMA NextKeepsFlash ==
  ASSUME TypeOK, TypeOK', FlashIsHere, HeaderIsWhole, Clean', [Next]_vars
  PROVE  FlashIsHere' /\ HeaderIsWhole'
<1>1. CASE \E j \in Job : JobStep(j)
  BY <1>1, QuietStep, UpdateStarts, SectorErase, SectorEnds, PageIsWritten DEF JobStep
<1>2. CASE \E j \in Job : WaitRetryOver(j)
  BY <1>2, StandsStill DEF WaitRetryOver, history
<1>3. CASE \E i \in Files : fw_update(i)
  <2>1. PICK i \in Files : fw_update(i)
    BY <1>3
  <2>2. /\ UNCHANGED <<flash, erasing, replaced, at>> /\ pc["cmd"] = "idle" /\ "cmd" \in Job
        /\ \A k \in Job \ {"cmd"} : pc'[k] = pc[k] /\ img'[k] = img[k]
        /\ pc'["cmd"] \in {"idle", "check", "update"}
    BY <2>1 DEF fw_update, Goto, Return, history, TypeOK, Job
  <2>3. ~Updating("cmd")'
    BY <2>2, Updates DEF Finals
  <2> QED BY <2>2, <2>3, StandsStill
<1>4. CASE FlashDone
  BY <1>4, EraseEnds
<1>5. CASE PowerCut
  <2>1. /\ UNCHANGED <<flash, replaced>> /\ erasing' = {}
        /\ \A k \in Job : pc'[k] \in {"start", "idle"}
    BY <1>5 DEF PowerCut, history
  <2>2. \A k \in Job : ~Updating(k)' /\ EraseIsHere(k)' /\ WriteIsHere(k)'
    BY <2>1 DEF Updating, EraseIsHere, WriteIsHere
  <2>3. HeaderIsWhole'
    BY <2>1 DEF HeaderIsWhole, Whole, Holds
  <2> QED BY <2>1, <2>2, <2>3 DEF FlashIsHere, Busy
<1>6. CASE UNCHANGED vars
  BY <1>6, StandsStill DEF vars, driver, history
<1> QED BY <1>1, <1>2, <1>3, <1>4, <1>5, <1>6 DEF Next

-----------------------------------------------------------------------------
(* The theorems.                                                           *)

LEMMA StepKeepsIInv ==
  ASSUME IInv, [Next]_vars
  PROVE  IInv'
<1>1. TypeOK' /\ ResultsComeLast'
  BY NextKeepsTypes DEF IInv
<1>2. ASSUME Clean'
      PROVE  FlashIsHere' /\ HeaderIsWhole'
  <2>1. Clean
    BY <1>2, CleanBefore DEF IInv
  <2>2. FlashIsHere /\ HeaderIsWhole
    BY <2>1 DEF IInv, HeaderComesLast, HeaderIsWhole
  <2> QED BY <1>1, <1>2, <2>2, NextKeepsFlash DEF IInv
<1>3. HeaderComesLast'
  BY <1>2 DEF HeaderComesLast, HeaderIsWhole
<1> QED BY <1>1, <1>2, <1>3 DEF IInv

\* The inductive invariant: as long as nothing failed unseen and updates did
\* not overlap, one job updates and the flash is exactly as far as it is.
THEOREM Invariant == Spec => []IInv
<1>1. Init => IInv
  BY InitTypeOK, InitFlash DEF IInv, HeaderComesLast, HeaderIsWhole
<1> QED BY <1>1, StepKeepsIInv, PTL DEF Spec

\* Every variable keeps its type: the sectors and pages the loops of
\* sec_ts_flashwrite count down are those of the flash.
THEOREM TypeCorrect == Spec => []TypeOK
<1>1. IInv => TypeOK
  BY DEF IInv
<1> QED BY <1>1, Invariant, PTL

\* The flash never shows a header over pages that are not its own, wherever
\* power is lost in sec_ts_flashwrite.
THEOREM HeaderIsLast == Spec => []HeaderComesLast
<1>1. IInv => HeaderComesLast
  BY DEF IInv
<1> QED BY <1>1, Invariant, PTL

\* An update that returns success left a whole image in the flash
\* (sec_ts_firmware_update).
THEOREM SuccessIsWhole == Spec => SuccessMeansWhole
<1>1. ASSUME IInv, [Next]_vars
      PROVE  [\A j \in Job :
                /\ Updating(j) /\ result'[j] = "ok" /\ Header[img[j]].chunks = 1
                /\ Clean /\ \A k \in Job \ {j} : ~Updating(k)
                => Whole]_vars
  <2> SUFFICES ASSUME NEW j \in Job, Next, Updating(j), result'[j] = "ok",
                      Header[img[j]].chunks = 1, Clean
               PROVE  Whole
    BY <1>1
  <2>1. TypeOK /\ WriteIsHere(j) /\ result[j] = "none"
    BY <1>1, Updates DEF IInv, FlashIsHere, ResultsComeLast, Finals
  <2>2. pc[j] \in Finals
    <3>1. CASE \E i \in Job : JobStep(i)
      <4>1. PICK i \in Job : JobStep(i)
        BY <3>1
      <4>2. i = j
        BY <2>1, <4>1, StepGoesOn, GoesOn
      <4>3. UNCHANGED result \/ (\E r \in {"failed", "skipped"} : Return(j, r)) \/ pc[j] \in Finals
        BY <4>1, <4>2 DEF JobStep, Start, Check, sec_ts_firmware_update, sec_ts_cmd_flash_se,
           WaitEnds, sec_ts_flashpagewrite, Reset, Verify, Calibrate, Finals
      <4> QED BY <2>1, <4>3 DEF Return, TypeOK
    <3>2. CASE \E i \in Files : fw_update(i)
      <4>1. PICK i \in Files : fw_update(i)
        BY <3>2
      <4>2. \E r \in {"none", "failed", "skipped"} : result' = [result EXCEPT !["cmd"] = r]
        BY <4>1 DEF fw_update, Return
      <4> QED BY <2>1, <4>2 DEF TypeOK
    <3>3. CASE PowerCut
      BY <3>3 DEF PowerCut
    <3>4. CASE FlashDone \/ \E i \in Job : WaitRetryOver(i)
      BY <2>1, <3>4 DEF FlashDone, WaitRetryOver, driver
    <3> QED BY <3>1, <3>2, <3>3, <3>4 DEF Next
  <2>3. Holds(img[j])
    BY <2>1, <2>2 DEF WriteIsHere, Finals
  <2> QED BY <2>1, <2>3, HoldsIs
<1>2. IInv /\ [Next]_vars =>
        [\A j \in Job :
           /\ Updating(j) /\ result'[j] = "ok" /\ Header[img[j]].chunks = 1
           /\ Clean /\ \A k \in Job \ {j} : ~Updating(k)
           => Whole]_vars
  BY <1>1
<1> QED BY <1>2, Invariant, PTL DEF Spec, SuccessMeansWhole
=============================================================================
