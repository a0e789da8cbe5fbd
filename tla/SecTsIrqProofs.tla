--------------------------- MODULE SecTsIrqProofs ---------------------------
(***************************************************************************)
(* For every finite set of users: the types, that whoever masked the       *)
(* interrupt finds it masked until he lifts the mask, that masks are lost  *)
(* by the named race only, and that the holder of a mutex never waits and  *)
(* no call goes back.  The first argument counts: every step keeps depth - *)
(* Owed or, in the race, raises it by one; for the counts, at most one     *)
(* thread is between the test and the end of a factory command, which is   *)
(* what LockHeld says.                                                     *)
(***************************************************************************)
EXTENDS SecTsIrq, TLAPS, FiniteSetTheorems

AllSteps == WorkSteps \union ShutdownSteps \union UserSteps
OnSteps == {"on_enable", "on_store"}

\* The number of masking threads is a natural number.
LEMMA MaskingFinite ==
  /\ IsFiniteSet(Masking)
  /\ Cardinality(Masking) \in Nat
<1>1. IsFiniteSet({"work", "shutdown"})
  <2>1. IsFiniteSet({"work"})
    BY FS_Singleton
  <2>2. IsFiniteSet({"work"} \union {"shutdown"})
    BY <2>1, FS_AddElement
  <2> QED BY <2>2
<1>2. IsFiniteSet(Threads)
  BY <1>1, UsersAssumption, FS_Union DEF Threads
<1>3. IsFiniteSet(Masking)
  BY <1>2, FS_Subset DEF Masking
<1> QED BY <1>3, FS_CardinalityType

\* A thread that moves between two steps of the same kind leaves the number.
LEMMA SameMasking ==
  ASSUME TypeOK, NEW t \in Threads, NEW a, NEW b, Goes(t, a, b),
         a \in MaskedSteps <=> b \in MaskedSteps
  PROVE  Masking' = Masking
BY DEF TypeOK, Goes, Masking

\* A thread that begins to mask adds one.
LEMMA BeginsMasking ==
  ASSUME TypeOK, NEW t \in Threads, NEW a, NEW b, Goes(t, a, b),
         a \notin MaskedSteps, b \in MaskedSteps
  PROVE  Cardinality(Masking') = Cardinality(Masking) + 1
<1>1. Masking' = Masking \union {t} /\ t \notin Masking
  BY DEF TypeOK, Goes, Masking
<1> QED BY <1>1, MaskingFinite, FS_AddElement

\* A thread that ends masking takes one away.
LEMMA EndsMasking ==
  ASSUME TypeOK, NEW t \in Threads, NEW a, NEW b, Goes(t, a, b),
         a \in MaskedSteps, b \notin MaskedSteps
  PROVE  /\ Cardinality(Masking) \in Nat \ {0}
         /\ Cardinality(Masking') = Cardinality(Masking) - 1
<1>1. Masking' = Masking \ {t} /\ t \in Masking
  BY DEF TypeOK, Goes, Masking
<1>2. Cardinality(Masking) # 0
  BY <1>1, MaskingFinite, FS_EmptySet
<1> QED BY <1>1, <1>2, MaskingFinite, FS_RemoveElement

\* What a thread outside module_on_master leaves of the other counts.
LEMMA SamePower ==
  ASSUME TypeOK, NEW t \in Threads, NEW a, NEW b, Goes(t, a, b),
         a \notin OnSteps, b \notin OnSteps
  PROVE  /\ TurningOn' <=> TurningOn
         /\ TurnedOn' <=> TurnedOn
<1>1. ASSUME NEW u \in Users, NEW s \in OnSteps
      PROVE  pc'[u] = s <=> pc[u] = s
  BY <1>1 DEF TypeOK, Goes, OnSteps, Threads
<1> QED BY <1>1 DEF TurningOn, TurnedOn, OnSteps

\* The work's mask is only a matter of the work.
LEMMA SameWork ==
  ASSUME TypeOK, NEW t \in Threads, NEW a, NEW b, Goes(t, a, b),
         t # "work" \/ (a # "done" /\ b # "done")
  PROVE  OwedByWork' = OwedByWork
BY DEF TypeOK, Goes, OwedByWork, Threads

\* The steps stay steps.
LEMMA StepsStay ==
  ASSUME TypeOK, NEW t \in Threads, NEW a, NEW b \in AllSteps, Goes(t, a, b)
  PROVE  pc' \in [Threads -> AllSteps]
BY DEF TypeOK, Goes, AllSteps

\* A thread that does not enter a section of ts->lock leaves LockHeld.
LEMMA SameLock ==
  ASSUME TypeOK, LockHeld, NEW t \in Threads, NEW a, NEW b, Goes(t, a, b),
         lock' = lock, b \in LockSteps => a \in LockSteps
  PROVE  LockHeld'
BY DEF TypeOK, LockHeld, Goes, Threads

\* The counts are numbers.
LEMMA Counts ==
  ASSUME TypeOK
  PROVE  /\ depth \in Nat
         /\ OwedByPower \in {0, 1}
         /\ OwedByWork \in {0, 1}
         /\ Cardinality(Masking) \in Nat
         /\ Owed = Cardinality(Masking) + OwedByWork + OwedByPower
         /\ Lost = depth - Owed
BY MaskingFinite DEF TypeOK, OwedByPower, OwedByWork, Owed, Lost

\* No call turns the power on while another thread has ts->lock, and none at
\* all while nobody has.
LEMMA LockExcludes ==
  ASSUME TypeOK, LockHeld, NEW u \in Users, lock \in {u, Free}, pc[u] \notin OnSteps
  PROVE  ~TurningOn /\ ~TurnedOn
<1>1. ASSUME NEW v \in Users, pc[v] \in OnSteps
      PROVE  FALSE
  <2>1. lock = v
    BY <1>1 DEF LockHeld, OnSteps, LockSteps
  <2>2. v # Free
    BY UsersAssumption DEF Free
  <2> QED BY <1>1, <2>1, <2>2
<1> QED BY <1>1 DEF TurningOn, TurnedOn, OnSteps

-----------------------------------------------------------------------------
(* The steps.                                                              *)

\* What a step does to the invariant and to the masks nobody lifts.
Kept == TypeOK' /\ LockHeld' /\ Lost' = Lost
Raced == TypeOK' /\ LockHeld' /\ Lost' = Lost + 1 /\ Race

\* The counts after a step are numbers, too.
LEMMA CountsNext ==
  ASSUME TypeOK'
  PROVE  /\ OwedByPower' \in {0, 1}
         /\ OwedByWork' \in {0, 1}
         /\ Owed' = Cardinality(Masking') + OwedByWork' + OwedByPower'
         /\ Lost' = depth' - Owed'
BY DEF OwedByPower, OwedByWork, Owed, Lost

\* A step that touches neither depth, power nor ts->lock, between two steps of
\* the same kind, loses nothing.
LEMMA PlainStep ==
  ASSUME IInv, NEW t \in Threads, NEW a \in AllSteps, NEW b \in AllSteps,
         Goes(t, a, b),
         a \in MaskedSteps <=> b \in MaskedSteps,
         a \notin LockSteps, b \notin LockSteps,
         a # "done", b # "done",
         depth' = depth, power_status' = power_status, lock' = lock,
         device_mutex' \in Threads \union {Free}
  PROVE  Kept
<1>1. TypeOK'
  BY StepsStay DEF IInv, TypeOK, AllSteps
<1>2. LockHeld'
  BY SameLock DEF IInv
<1>3. Masking' = Masking
  BY SameMasking DEF IInv
<1>4. OwedByWork' = OwedByWork
  BY SameWork DEF IInv
<1>5. OwedByPower' = OwedByPower
  BY SamePower DEF IInv, OwedByPower, OnSteps, LockSteps
<1> QED
  BY <1>1, <1>2, <1>3, <1>4, <1>5 DEF Kept, Lost, Owed

\* disable_irq as a call begins to mask.
LEMMA MaskStep ==
  ASSUME IInv, NEW t \in Threads, NEW a \in AllSteps, NEW b \in AllSteps,
         Goes(t, a, b),
         a \notin MaskedSteps, b \in MaskedSteps,
         a \notin OnSteps, b \notin OnSteps,
         a # "done", b # "done", b \in LockSteps => a \in LockSteps,
         disable_irq, power_status' = power_status, lock' = lock,
         device_mutex' = device_mutex
  PROVE  Kept
<1>1. TypeOK'
  BY StepsStay DEF IInv, TypeOK, AllSteps, disable_irq
<1>2. LockHeld'
  BY SameLock DEF IInv
<1>3. Cardinality(Masking') = Cardinality(Masking) + 1
  BY BeginsMasking DEF IInv
<1>4. OwedByWork' = OwedByWork
  BY SameWork DEF IInv
<1>5. OwedByPower' = OwedByPower
  BY SamePower DEF IInv, OwedByPower
<1>6. depth' = depth + 1
  BY DEF disable_irq
<1>7. Lost' = Lost
  BY <1>1, <1>3, <1>4, <1>5, <1>6, Counts, CountsNext DEF IInv
<1> QED
  BY <1>1, <1>2, <1>7 DEF Kept

\* enable_irq as a call ends masking: the mask it lifts is its own.
LEMMA UnmaskStep ==
  ASSUME IInv, NEW t \in Threads, NEW a \in AllSteps, NEW b \in AllSteps,
         Goes(t, a, b),
         a \in MaskedSteps, b \notin MaskedSteps,
         a \notin LockSteps, b \notin LockSteps,
         a # "done", b # "done",
         enable_irq, power_status' = power_status, lock' = lock,
         device_mutex' = device_mutex
  PROVE  Kept
<1>1. /\ Cardinality(Masking) \in Nat \ {0}
      /\ Cardinality(Masking') = Cardinality(Masking) - 1
  BY EndsMasking DEF IInv
<1>2. depth' = depth - 1
  BY DEF enable_irq
<1>3. depth' \in Nat
  BY <1>1, <1>2, Counts DEF IInv, MaskedWhileOwed
<1>4. TypeOK'
  BY <1>3, StepsStay DEF IInv, TypeOK, AllSteps
<1>5. LockHeld'
  BY SameLock DEF IInv
<1>6. OwedByWork' = OwedByWork
  BY SameWork DEF IInv
<1>7. OwedByPower' = OwedByPower
  BY SamePower DEF IInv, OwedByPower, OnSteps, LockSteps
<1>8. Lost' = Lost
  BY <1>1, <1>2, <1>4, <1>6, <1>7, Counts, CountsNext DEF IInv
<1> QED
  BY <1>4, <1>5, <1>8 DEF Kept

\* Taking and giving back ts->lock.
LEMMA TakesLock ==
  ASSUME TypeOK, LockHeld, NEW u \in Users, NEW a, NEW b, Goes(u, a, b),
         lock = Free, lock' = u
  PROVE  LockHeld'
<1>1. \A v \in Users : v # Free
  BY UsersAssumption DEF Free
<1> QED BY <1>1 DEF TypeOK, LockHeld, Goes, Threads

LEMMA GivesLock ==
  ASSUME TypeOK, LockHeld, NEW u \in Users, NEW a, NEW b, Goes(u, a, b),
         lock = u, b \notin LockSteps, lock' = Free
  PROVE  LockHeld'
BY DEF TypeOK, LockHeld, Goes, Threads

\* Who is in a section of ts->lock is the only one.
LEMMA OnlyOne ==
  ASSUME TypeOK, LockHeld, NEW u \in Users, pc[u] \in LockSteps, NEW b, Goes(u, pc[u], b)
  PROVE  /\ lock = u
         /\ \A v \in Users : v # u => pc[v] \notin LockSteps /\ pc'[v] = pc[v]
         /\ pc'[u] = b
BY DEF TypeOK, LockHeld, Goes, Threads

\* module_off_master's test.
LEMMA OffTestsStep ==
  ASSUME IInv, NEW u \in Users, OffTests(u)
  PROVE  Kept
<1>t. u \in Threads /\ TypeOK /\ LockHeld
  BY DEF Threads, IInv
<1>1. CASE power_status /\ Goes(u, "off", "off_mask") /\ lock' = u
  <2>1. TypeOK'
    BY <1>t, <1>1, StepsStay DEF OffTests, TypeOK, AllSteps, UserSteps
  <2>2. LockHeld'
    BY <1>t, <1>1, TakesLock DEF OffTests
  <2>3. Masking' = Masking
    BY <1>t, <1>1, SameMasking DEF MaskedSteps
  <2>4. OwedByWork' = OwedByWork
    BY <1>t, <1>1, SameWork
  <2>5. OwedByPower' = OwedByPower
    BY <1>t, <1>1, SamePower DEF OffTests, OwedByPower, OnSteps
  <2> QED
    BY <2>1, <2>2, <2>3, <2>4, <2>5 DEF OffTests, Kept, Lost, Owed
<1>2. CASE ~power_status /\ Goes(u, "off", "idle") /\ UNCHANGED lock
  BY <1>t, <1>2, PlainStep
     DEF OffTests, AllSteps, UserSteps, MaskedSteps, LockSteps, TypeOK
<1> QED
  BY <1>1, <1>2 DEF OffTests

\* module_on_master's test.
LEMMA OnTestsStep ==
  ASSUME IInv, NEW u \in Users, OnTests(u)
  PROVE  Kept
<1>t. u \in Threads /\ TypeOK /\ LockHeld
  BY DEF Threads, IInv
<1>1. CASE ~power_status /\ Goes(u, "on", "on_enable") /\ lock' = u
  <2>1. TypeOK'
    BY <1>t, <1>1, StepsStay DEF OnTests, TypeOK, AllSteps, UserSteps
  <2>2. LockHeld'
    BY <1>t, <1>1, TakesLock DEF OnTests
  <2>3. Masking' = Masking
    BY <1>t, <1>1, SameMasking DEF MaskedSteps
  <2>4. OwedByWork' = OwedByWork
    BY <1>t, <1>1, SameWork
  <2>5. ~TurningOn /\ ~TurnedOn
    BY <1>t, <1>1, LockExcludes DEF OnTests, Goes, OnSteps
  <2>6. TurningOn'
    BY <1>t, <1>1 DEF TurningOn, Goes, TypeOK
  <2>7. OwedByPower' = OwedByPower
    BY <1>1, <2>5, <2>6 DEF OwedByPower
  <2> QED
    BY <2>1, <2>2, <2>3, <2>4, <2>7 DEF OnTests, Kept, Lost, Owed
<1>2. CASE power_status /\ Goes(u, "on", "idle") /\ UNCHANGED lock
  BY <1>t, <1>2, PlainStep
     DEF OnTests, AllSteps, UserSteps, MaskedSteps, LockSteps, TypeOK
<1> QED
  BY <1>1, <1>2 DEF OnTests

\* module_on_master lifts the mask of whoever turned the power off.
LEMMA OnEnablesStep ==
  ASSUME IInv, NEW u \in Users, OnEnables(u)
  PROVE  Kept
<1>t. u \in Threads /\ TypeOK /\ LockHeld /\ Goes(u, "on_enable", "on_store")
  BY DEF Threads, IInv, OnEnables
<1>o. /\ lock = u
      /\ \A v \in Users : v # u => pc[v] \notin LockSteps /\ pc'[v] = pc[v]
      /\ pc[u] = "on_enable" /\ pc'[u] = "on_store"
  BY <1>t, OnlyOne DEF Goes, LockSteps
<1>1. TurningOn /\ ~TurningOn' /\ TurnedOn'
  BY <1>o DEF TurningOn, TurnedOn, LockSteps
<1>2. OwedByPower = 1 /\ OwedByPower' = 0
  BY <1>1 DEF OwedByPower
<1>3. depth' = depth - 1 /\ depth' \in Nat
  BY <1>t, <1>2, Counts DEF OnEnables, enable_irq, IInv, MaskedWhileOwed
<1>4. TypeOK'
  BY <1>t, <1>3, StepsStay DEF OnEnables, mutexes, TypeOK, AllSteps, UserSteps
<1>5. LockHeld'
  BY <1>t, SameLock DEF OnEnables, mutexes, LockSteps
<1>6. Masking' = Masking
  BY <1>t, SameMasking DEF MaskedSteps
<1>7. OwedByWork' = OwedByWork
  BY <1>t, SameWork
<1>8. Lost' = Lost
  BY <1>2, <1>3, <1>4, <1>6, <1>7, <1>t, Counts, CountsNext
<1> QED
  BY <1>4, <1>5, <1>8 DEF Kept

\* And turns it on.
LEMMA OnStoresStep ==
  ASSUME IInv, NEW u \in Users, OnStores(u)
  PROVE  Kept
<1>t. u \in Threads /\ TypeOK /\ LockHeld /\ Goes(u, "on_store", "idle")
  BY DEF Threads, IInv, OnStores
<1>o. /\ lock = u
      /\ \A v \in Users : v # u => pc[v] \notin LockSteps /\ pc'[v] = pc[v]
      /\ pc[u] = "on_store" /\ pc'[u] = "idle"
  BY <1>t, OnlyOne DEF Goes, LockSteps
<1>1. TurnedOn /\ ~TurningOn /\ ~TurningOn'
  BY <1>o DEF TurningOn, TurnedOn, LockSteps
<1>2. OwedByPower = 0 /\ OwedByPower' = 0
  BY <1>1 DEF OwedByPower, OnStores
<1>4. TypeOK'
  BY <1>t, StepsStay DEF OnStores, TypeOK, AllSteps, UserSteps
<1>5. LockHeld'
  BY <1>t, <1>o, GivesLock DEF OnStores, LockSteps
<1>6. Masking' = Masking
  BY <1>t, SameMasking DEF MaskedSteps
<1>7. OwedByWork' = OwedByWork
  BY <1>t, SameWork
<1> QED
  BY <1>2, <1>4, <1>5, <1>6, <1>7 DEF Kept, Lost, Owed, OnStores

\* module_off_master turns the power off: its mask is module_on_master's to
\* lift, unless the power was off by then.
LEMMA OffStoresStep ==
  ASSUME IInv, NEW u \in Users, OffStores(u)
  PROVE  Kept \/ Raced
<1>t. u \in Threads /\ TypeOK /\ LockHeld /\ Goes(u, "off_store", "idle")
  BY DEF Threads, IInv, OffStores
<1>o. /\ lock = u
      /\ \A v \in Users : v # u => pc[v] \notin LockSteps /\ pc'[v] = pc[v]
      /\ pc[u] = "off_store" /\ pc'[u] = "idle"
  BY <1>t, OnlyOne DEF Goes, LockSteps
<1>1. ~TurnedOn /\ ~TurningOn /\ ~TurningOn' /\ ~TurnedOn'
  BY <1>o DEF TurningOn, TurnedOn, LockSteps
<1>2. OwedByPower = (IF power_status THEN 0 ELSE 1) /\ OwedByPower' = 1
  BY <1>1 DEF OwedByPower, OffStores
<1>4. TypeOK'
  BY <1>t, StepsStay DEF OffStores, TypeOK, AllSteps, UserSteps
<1>5. LockHeld'
  BY <1>t, <1>o, GivesLock DEF OffStores, LockSteps
<1>6. Cardinality(Masking') = Cardinality(Masking) - 1
  BY <1>t, EndsMasking DEF MaskedSteps
<1>7. OwedByWork' = OwedByWork
  BY <1>t, SameWork
<1>8. depth' = depth
  BY DEF OffStores
<1>9. Lost' = IF power_status THEN Lost ELSE Lost + 1
  BY <1>2, <1>4, <1>6, <1>7, <1>8, <1>t, Counts, CountsNext
<1>10. ~power_status => Race
  BY DEF Race
<1> QED
  BY <1>4, <1>5, <1>9, <1>10 DEF Kept, Raced

\* Shutdown turns the power off: likewise.
LEMMA StopStoresStep ==
  ASSUME IInv, StopStores
  PROVE  Kept \/ Raced
<1>t. /\ "shutdown" \in Threads /\ TypeOK /\ LockHeld
      /\ Goes("shutdown", "store", "unlock_off")
  BY DEF Threads, IInv, StopStores
<1>1. (TurningOn' <=> TurningOn) /\ (TurnedOn' <=> TurnedOn)
  BY <1>t, SamePower DEF OnSteps
<1>2. OwedByPower' = IF OwedByPower = 0 /\ ~TurnedOn THEN 1 ELSE OwedByPower
  BY <1>1 DEF OwedByPower, StopStores
<1>3. OwedByPower = 0 /\ ~TurnedOn => power_status /\ ~TurningOn
  BY DEF OwedByPower
<1>4. ~(OwedByPower = 0 /\ ~TurnedOn) => ~power_status \/ TurningOn \/ TurnedOn
  BY DEF OwedByPower
<1>5. TypeOK'
  BY <1>t, StepsStay DEF StopStores, mutexes, TypeOK, AllSteps, ShutdownSteps
<1>6. LockHeld'
  BY <1>t, SameLock DEF StopStores, mutexes, LockSteps
<1>7. Cardinality(Masking') = Cardinality(Masking) - 1
  BY <1>t, EndsMasking DEF MaskedSteps
<1>8. OwedByWork' = OwedByWork
  BY <1>t, SameWork
<1>9. depth' = depth
  BY DEF StopStores
<1>10. Lost' = IF OwedByPower = 0 /\ ~TurnedOn THEN Lost ELSE Lost + 1
  BY <1>2, <1>5, <1>7, <1>8, <1>9, <1>t, Counts, CountsNext
<1>11. ~(OwedByPower = 0 /\ ~TurnedOn) => Race
  BY <1>4 DEF Race
<1> QED
  BY <1>5, <1>6, <1>10, <1>11 DEF Kept, Raced

\* The work turns the power on: the mask of whoever had turned it off stays.
LEMMA WorkPowersOnStep ==
  ASSUME IInv, WorkPowersOn
  PROVE  Kept \/ Raced
<1>t. /\ "work" \in Threads /\ TypeOK /\ LockHeld
      /\ Goes("work", "power", "unlock")
  BY DEF Threads, IInv, WorkPowersOn
<1>1. (TurningOn' <=> TurningOn) /\ (TurnedOn' <=> TurnedOn)
  BY <1>t, SamePower DEF OnSteps
<1>2. OwedByPower' = IF TurningOn THEN OwedByPower ELSE 0
  BY <1>1 DEF OwedByPower, WorkPowersOn
<1>3. OwedByPower = 1 => ~power_status \/ TurningOn
  BY DEF OwedByPower
<1>5. TypeOK'
  BY <1>t, StepsStay DEF WorkPowersOn, mutexes, TypeOK, AllSteps, WorkSteps
<1>6. LockHeld'
  BY <1>t, SameLock DEF WorkPowersOn, mutexes, LockSteps
<1>7. Masking' = Masking
  BY <1>t, SameMasking DEF MaskedSteps
<1>8. OwedByWork' = OwedByWork
  BY <1>t, SameWork
<1>9. depth' = depth
  BY DEF WorkPowersOn
<1>10. Lost' = IF OwedByPower = 1 /\ ~TurningOn THEN Lost + 1 ELSE Lost
  BY <1>2, <1>5, <1>7, <1>8, <1>9, <1>t, Counts, CountsNext
<1>11. OwedByPower = 1 => Race
  BY <1>3 DEF Race
<1> QED
  BY <1>5, <1>6, <1>10, <1>11 DEF Kept, Raced

\* The work lifts probe's mask.
LEMMA WorkEnablesStep ==
  ASSUME IInv, WorkEnables
  PROVE  Kept
<1>t. /\ "work" \in Threads /\ TypeOK /\ LockHeld
      /\ Goes("work", "enable", "done")
  BY DEF Threads, IInv, WorkEnables
<1>1. (TurningOn' <=> TurningOn) /\ (TurnedOn' <=> TurnedOn)
  BY <1>t, SamePower DEF OnSteps
<1>2. OwedByPower' = OwedByPower
  BY <1>1 DEF OwedByPower, WorkEnables
<1>3. OwedByWork = 1 /\ OwedByWork' = 0
  BY <1>t DEF OwedByWork, Goes, TypeOK
<1>4. depth' = depth - 1 /\ depth' \in Nat
  BY <1>t, <1>3, Counts DEF WorkEnables, enable_irq, IInv, MaskedWhileOwed
<1>5. TypeOK'
  BY <1>t, <1>4, StepsStay DEF WorkEnables, mutexes, TypeOK, AllSteps, WorkSteps
<1>6. LockHeld'
  BY <1>t, SameLock DEF WorkEnables, mutexes, LockSteps
<1>7. Masking' = Masking
  BY <1>t, SameMasking DEF MaskedSteps
<1>8. Lost' = Lost
  BY <1>2, <1>3, <1>4, <1>5, <1>7, <1>t, Counts, CountsNext
<1> QED
  BY <1>5, <1>6, <1>8 DEF Kept

-----------------------------------------------------------------------------
LEMMA WorkStep ==
  ASSUME IInv, sec_ts_fwupdate_work
  PROVE  Kept \/ Raced
<1>t. "work" \in Threads
  BY DEF Threads
<1>1. CASE WorkLocks
  BY <1>t, <1>1, PlainStep
     DEF WorkLocks, LockDevice, AllSteps, WorkSteps, MaskedSteps, LockSteps
<1>2. CASE WorkPowersOn
  BY <1>2, WorkPowersOnStep
<1>3. CASE WorkUnlocks
  BY <1>t, <1>3, PlainStep
     DEF WorkUnlocks, UnlockDevice, AllSteps, WorkSteps, MaskedSteps, LockSteps
<1>4. CASE WorkEnables
  BY <1>4, WorkEnablesStep
<1> QED
  BY <1>1, <1>2, <1>3, <1>4 DEF sec_ts_fwupdate_work

LEMMA StopStep ==
  ASSUME IInv, sec_ts_stop_device
  PROVE  Kept \/ Raced
<1>t. "shutdown" \in Threads
  BY DEF Threads
<1>0. device_mutex \in Threads \union {Free}
  BY DEF IInv, TypeOK
<1>1. CASE StopLocks
  BY <1>t, <1>1, PlainStep
     DEF StopLocks, LockDevice, AllSteps, ShutdownSteps, MaskedSteps, LockSteps
<1>2. CASE StopTests
  BY <1>t, <1>0, <1>2, PlainStep
     DEF StopTests, mutexes, AllSteps, ShutdownSteps, MaskedSteps, LockSteps
<1>3. CASE StopMasks
  BY <1>t, <1>3, MaskStep
     DEF StopMasks, mutexes, AllSteps, ShutdownSteps, MaskedSteps, LockSteps, OnSteps
<1>4. CASE StopStores
  BY <1>4, StopStoresStep
<1>5. CASE StopUnlocks
  BY <1>t, <1>5, PlainStep
     DEF StopUnlocks, UnlockDevice, AllSteps, ShutdownSteps, MaskedSteps, LockSteps
<1> QED
  BY <1>1, <1>2, <1>3, <1>4, <1>5 DEF sec_ts_stop_device

LEMMA CallStep ==
  ASSUME IInv, NEW u \in Users, Call(u)
  PROVE  Kept
<1>t. u \in Threads /\ device_mutex \in Threads \union {Free}
  BY DEF Threads, IInv, TypeOK
<1>1. PICK b \in {"off", "on", "mask", "reg_store", "regread"} : Goes(u, "idle", b)
  BY DEF Call
<1> QED
  BY <1>t, <1>1, PlainStep
     DEF Call, mutexes, AllSteps, UserSteps, MaskedSteps, LockSteps

LEMMA ProceedStep ==
  ASSUME IInv, NEW u \in Users, Proceed(u)
  PROVE  Kept \/ Raced
<1>t. u \in Threads /\ device_mutex \in Threads \union {Free}
  BY DEF Threads, IInv, TypeOK
<1> USE DEF AllSteps, UserSteps, MaskedSteps, LockSteps, OnSteps
<1>1. CASE OffTests(u)
  BY <1>1, OffTestsStep
<1>2. CASE OffMasks(u)
  BY <1>t, <1>2, MaskStep DEF OffMasks, mutexes
<1>3. CASE OffStores(u)
  BY <1>3, OffStoresStep
<1>4. CASE OnTests(u)
  BY <1>4, OnTestsStep
<1>5. CASE OnEnables(u)
  BY <1>5, OnEnablesStep
<1>6. CASE OnStores(u)
  BY <1>6, OnStoresStep
<1>7. CASE Mask(u)
  BY <1>t, <1>7, MaskStep DEF Mask, mutexes
<1>8. CASE Unmask(u)
  BY <1>t, <1>8, UnmaskStep DEF Unmask, mutexes
<1>9. CASE RegLocks(u)
  BY <1>t, <1>9, PlainStep DEF RegLocks, LockDevice
<1>10. CASE RegMasks(u)
  BY <1>t, <1>10, MaskStep DEF RegMasks, mutexes
<1>11. CASE RegUnmasks(u)
  BY <1>t, <1>11, UnmaskStep DEF RegUnmasks, mutexes
<1>12. CASE RegUnlocks(u)
  BY <1>t, <1>12, PlainStep DEF RegUnlocks, UnlockDevice
<1>13. CASE ReadMasks(u)
  BY <1>t, <1>13, MaskStep DEF ReadMasks, mutexes
<1>14. CASE ReadNoMemory(u)
  BY <1>t, <1>14, PlainStep DEF ReadNoMemory, mutexes
<1>15. CASE ReadLocks(u)
  BY <1>t, <1>15, PlainStep DEF ReadLocks, LockDevice
<1>16. CASE Reads(u)
  BY <1>t, <1>16, PlainStep DEF Reads, mutexes
<1>17. CASE ReadUnlocks(u)
  BY <1>t, <1>17, PlainStep DEF ReadUnlocks, UnlockDevice
<1>18. CASE ReadUnmasks(u)
  BY <1>t, <1>18, UnmaskStep DEF ReadUnmasks, mutexes
<1> QED
  BY <1>1, <1>2, <1>3, <1>4, <1>5, <1>6, <1>7, <1>8, <1>9, <1>10, <1>11,
     <1>12, <1>13, <1>14, <1>15, <1>16, <1>17, <1>18 DEF Proceed

\* A step that changes nothing.
LEMMA StutterStep ==
  ASSUME IInv, UNCHANGED vars
  PROVE  Kept
<1>1. /\ power_status' = power_status /\ depth' = depth /\ lock' = lock
      /\ device_mutex' = device_mutex /\ pc' = pc
  BY DEF vars, mutexes
<1> QED
  BY <1>1 DEF Kept, IInv, TypeOK, LockHeld, Lost, Owed, Masking, OwedByWork,
     OwedByPower, TurningOn, TurnedOn

\* Every step keeps the count or is the race.
LEMMA Step ==
  ASSUME IInv, [Next]_vars
  PROVE  Kept \/ Raced
BY WorkStep, StopStep, CallStep, ProceedStep, StutterStep DEF Next

LEMMA StepKeepsIInv ==
  ASSUME IInv, [Next]_vars
  PROVE  IInv'
<1>1. Kept \/ Raced
  BY Step
<1>2. depth \in Nat /\ Lost \in Int
  BY Counts DEF IInv
<1>3. Lost' >= 0
  BY <1>1, <1>2 DEF Kept, Raced, IInv, MaskedWhileOwed
<1> QED
  BY <1>1, <1>3 DEF Kept, Raced, IInv, MaskedWhileOwed

LEMMA InitIInv == Init => IInv
<1> SUFFICES ASSUME Init PROVE IInv
  OBVIOUS
<1>0. "work" \in Threads /\ "shutdown" \in Threads /\ "work" \notin Users
  BY UsersAssumption DEF Threads
<1>1. TypeOK
  BY DEF Init, TypeOK, Threads, Free, WorkSteps, ShutdownSteps, UserSteps
<1>2. \A t \in Threads : pc[t] \in {"queued", "up", "idle"}
  BY DEF Init
<1>3. pc["work"] = "queued"
  BY <1>0 DEF Init
<1>4. LockHeld
  BY <1>2 DEF LockHeld, LockSteps, Threads
<1>5. Masking = {}
  BY <1>2 DEF Masking, MaskedSteps
<1>6. ~TurningOn /\ ~TurnedOn
  BY <1>2 DEF TurningOn, TurnedOn, Threads
<1>7. OwedByPower = 0 /\ OwedByWork = 1
  BY <1>3, <1>6 DEF Init, OwedByPower, OwedByWork
<1>8. Lost = 0
  BY <1>5, <1>7, FS_EmptySet DEF Lost, Owed, Init
<1> QED
  BY <1>1, <1>4, <1>8 DEF IInv, MaskedWhileOwed

\* The inductive invariant holds: the types, that the factory commands exclude
\* each other, and that nobody's mask is lifted by somebody else.
THEOREM Invariant == Spec => []IInv
<1>1. IInv /\ [Next]_vars => IInv'
  BY StepKeepsIInv
<1> QED
  BY InitIInv, <1>1, PTL DEF Spec

\* The variables of SecTsIrq keep their types; depth never falls below zero.
THEOREM TypeCorrect == Spec => []TypeOK
<1>1. IInv => TypeOK
  BY DEF IInv
<1> QED
  BY <1>1, Invariant, PTL

\* Whoever masked the interrupt finds it masked until he lifts the mask.
THEOREM MasksHold == Spec => []MaskedWhileOwed
<1>1. IInv => MaskedWhileOwed
  BY DEF IInv
<1> QED
  BY <1>1, Invariant, PTL

\* A mask is lost by the race of the two mutexes, or of the work, only.
THEOREM LossIsRace == Spec => MaskIsLostByRaceOnly
<1>1. IInv /\ [Next]_vars => [Lost' # Lost => Lost' = Lost + 1 /\ Race]_vars
  BY Step DEF Kept, Raced
<1> QED
  BY <1>1, Invariant, PTL DEF Spec, MaskIsLostByRaceOnly

-----------------------------------------------------------------------------
(* What CallsReturn rests on besides fairness: nobody holds a mutex and    *)
(* waits, and no call goes back.                                           *)

\* A step whose thread keeps, takes or frees the mutexes as its steps say.
LEMMA HoldersStep ==
  ASSUME TypeOK, HoldersGoOn, NEW t \in Threads, NEW a, NEW b, Goes(t, a, b),
         \/ lock' = lock /\ (a \in LockSteps => b \in LockSteps)
         \/ lock' = t /\ b \in LockSteps
         \/ lock' = Free,
         \/ device_mutex' = device_mutex /\ (a \in DeviceSteps => b \in DeviceSteps)
         \/ device_mutex' = t /\ b \in DeviceSteps
         \/ device_mutex' = Free
  PROVE  HoldersGoOn'
<1>1. lock' # Free => pc'[lock'] \in LockSteps
  BY DEF TypeOK, HoldersGoOn, Goes
<1>2. device_mutex' # Free => pc'[device_mutex'] \in DeviceSteps
  BY DEF TypeOK, HoldersGoOn, Goes
<1> QED
  BY <1>1, <1>2 DEF HoldersGoOn

LEMMA KernelKeepsHolders ==
  ASSUME TypeOK, HoldersGoOn, sec_ts_fwupdate_work \/ sec_ts_stop_device
  PROVE  HoldersGoOn'
<1>t. "work" \in Threads /\ "shutdown" \in Threads
  BY DEF Threads
<1> USE DEF LockSteps, DeviceSteps, mutexes, LockDevice, UnlockDevice
<1>1. CASE WorkLocks \/ WorkPowersOn
  BY <1>t, <1>1, HoldersStep DEF WorkLocks, WorkPowersOn
<1>2. CASE WorkUnlocks \/ WorkEnables
  BY <1>t, <1>2, HoldersStep DEF WorkUnlocks, WorkEnables
<1>3. CASE StopLocks \/ StopTests
  BY <1>t, <1>3, HoldersStep DEF StopLocks, StopTests
<1>4. CASE StopMasks \/ StopStores \/ StopUnlocks
  BY <1>t, <1>4, HoldersStep DEF StopMasks, StopStores, StopUnlocks
<1> QED
  BY <1>1, <1>2, <1>3, <1>4 DEF sec_ts_fwupdate_work, sec_ts_stop_device

LEMMA UsersKeepHolders ==
  ASSUME TypeOK, HoldersGoOn, NEW u \in Users, Call(u) \/ Proceed(u)
  PROVE  HoldersGoOn'
<1>t. u \in Threads
  BY DEF Threads
<1> USE DEF LockSteps, DeviceSteps, mutexes, LockDevice, UnlockDevice
<1>1. CASE Call(u)
  <2>1. PICK b \in {"off", "on", "mask", "reg_store", "regread"} : Goes(u, "idle", b)
    BY <1>1 DEF Call
  <2> QED BY <1>t, <1>1, <2>1, HoldersStep DEF Call
<1>2. CASE OffTests(u) \/ OffMasks(u) \/ OffStores(u)
  BY <1>t, <1>2, HoldersStep DEF OffTests, OffMasks, OffStores
<1>3. CASE OnTests(u) \/ OnEnables(u) \/ OnStores(u)
  BY <1>t, <1>3, HoldersStep DEF OnTests, OnEnables, OnStores
<1>4. CASE Mask(u) \/ Unmask(u)
  BY <1>t, <1>4, HoldersStep DEF Mask, Unmask
<1>5. CASE RegLocks(u) \/ RegMasks(u) \/ RegUnmasks(u) \/ RegUnlocks(u)
  BY <1>t, <1>5, HoldersStep DEF RegLocks, RegMasks, RegUnmasks, RegUnlocks
<1>6. CASE ReadMasks(u) \/ ReadNoMemory(u) \/ ReadLocks(u)
  BY <1>t, <1>6, HoldersStep DEF ReadMasks, ReadNoMemory, ReadLocks
<1>7. CASE Reads(u) \/ ReadUnlocks(u) \/ ReadUnmasks(u)
  BY <1>t, <1>7, HoldersStep DEF Reads, ReadUnlocks, ReadUnmasks
<1> QED
  BY <1>1, <1>2, <1>3, <1>4, <1>5, <1>6, <1>7 DEF Proceed

\* Whoever holds ts->lock or ts->device_mutex waits for neither: of the two
\* mutexes nobody waits forever for want of a holder that can go on, although
\* sec_ts_regread_show frees device_mutex without holding it.
THEOREM HoldersWaitForNobody == Spec => []HoldersGoOn
<1>1. Init => HoldersGoOn
  BY DEF Init, HoldersGoOn
<1>2. IInv /\ HoldersGoOn /\ [Next]_vars => HoldersGoOn'
  <2> SUFFICES ASSUME TypeOK, HoldersGoOn, [Next]_vars
               PROVE  HoldersGoOn'
    BY DEF IInv
  <2>1. CASE UNCHANGED vars
    BY <2>1 DEF vars, mutexes, HoldersGoOn
  <2> QED
    BY <2>1, KernelKeepsHolders, UsersKeepHolders DEF Next
<1> QED
  BY <1>1, <1>2, Invariant, PTL DEF Spec

\* What each step of a call has left.
LEMMA LeftOf ==
  /\ Left["off_store"] = 1 /\ Left["on_store"] = 1 /\ Left["masked"] = 1
  /\ Left["reg_unlock"] = 1 /\ Left["regread_unmask"] = 1
  /\ Left["off_mask"] = 2 /\ Left["on_enable"] = 2 /\ Left["mask"] = 2
  /\ Left["reg_masked"] = 2 /\ Left["regread_unlock"] = 2
  /\ Left["off"] = 3 /\ Left["on"] = 3
  /\ Left["reg_mask"] = 3 /\ Left["regread_locked"] = 3
  /\ Left["reg_store"] = 4 /\ Left["regread_masked"] = 4
  /\ Left["regread"] = 5 /\ Left["idle"] = 0
BY DEF Left, UserSteps

Advances ==
  \A u \in Users : pc[u] # "idle" /\ pc'[u] # pc[u] => Left[pc'[u]] < Left[pc[u]]

\* A thread other than a user, a user that begins, and one that gets nearer to
\* its end leave all calls where they are or further.
LEMMA AdvancesStep ==
  ASSUME TypeOK, NEW t \in Threads, NEW a, NEW b, Goes(t, a, b),
         t \notin Users \/ a = "idle" \/ Left[b] < Left[a]
  PROVE  Advances
BY DEF TypeOK, Goes, Advances, Threads

LEMMA UsersAdvance ==
  ASSUME TypeOK, NEW u \in Users, Call(u) \/ Proceed(u)
  PROVE  Advances
<1>t. u \in Threads
  BY DEF Threads
<1> USE LeftOf
<1>1. CASE Call(u)
  BY <1>t, <1>1, AdvancesStep DEF Call
<1>2. CASE OffTests(u) \/ OffMasks(u) \/ OffStores(u)
  BY <1>t, <1>2, AdvancesStep DEF OffTests, OffMasks, OffStores
<1>3. CASE OnTests(u) \/ OnEnables(u) \/ OnStores(u)
  BY <1>t, <1>3, AdvancesStep DEF OnTests, OnEnables, OnStores
<1>4. CASE Mask(u) \/ Unmask(u)
  BY <1>t, <1>4, AdvancesStep DEF Mask, Unmask
<1>5. CASE RegLocks(u) \/ RegMasks(u) \/ RegUnmasks(u) \/ RegUnlocks(u)
  BY <1>t, <1>5, AdvancesStep DEF RegLocks, RegMasks, RegUnmasks, RegUnlocks
<1>6. CASE ReadMasks(u) \/ ReadNoMemory(u) \/ ReadLocks(u)
  BY <1>t, <1>6, AdvancesStep DEF ReadMasks, ReadNoMemory, ReadLocks
<1>7. CASE Reads(u) \/ ReadUnlocks(u) \/ ReadUnmasks(u)
  BY <1>t, <1>7, AdvancesStep DEF Reads, ReadUnlocks, ReadUnmasks
<1> QED
  BY <1>1, <1>2, <1>3, <1>4, <1>5, <1>6, <1>7 DEF Proceed

LEMMA KernelAdvances ==
  ASSUME TypeOK, sec_ts_fwupdate_work \/ sec_ts_stop_device
  PROVE  Advances
<1>t. /\ "work" \in Threads \ Users
      /\ "shutdown" \in Threads \ Users
  BY UsersAssumption DEF Threads
<1>1. \E t \in Threads \ Users : \E a, b : Goes(t, a, b)
  BY <1>t DEF sec_ts_fwupdate_work, WorkLocks, WorkPowersOn, WorkUnlocks, WorkEnables,
     sec_ts_stop_device, StopLocks, StopTests, StopMasks, StopStores, StopUnlocks
<1> QED
  BY <1>1, AdvancesStep

\* No call ever goes back: it takes five steps at most, whatever the others,
\* the work of probe and shutdown do between them.
THEOREM NothingIsTriedAgain == Spec => CallsAdvance
<1>1. IInv /\ [Next]_vars => [Advances]_vars
  <2> SUFFICES ASSUME TypeOK, Next
               PROVE  Advances
    BY DEF IInv
  <2> QED
    BY KernelAdvances, UsersAdvance DEF Next
<1> QED
  BY <1>1, Invariant, PTL DEF Spec, CallsAdvance, Advances
=============================================================================
