--------------------------- MODULE AutoSyncProofs ---------------------------
(***************************************************************************)
(* Proofs about AutoSync for any set of coordinators, any options and any  *)
(* delays that satisfy its assumptions.                                    *)
(***************************************************************************)
EXTENDS AutoSync, Integers, FiniteSets, FiniteSetTheorems, TLAPS

-----------------------------------------------------------------------------
(* The delays.                                                             *)

(* A power of two is a positive number: it is the number of subsets of a   *)
(* set of n elements.                                                      *)
LEMMA PowerPositive ==
  ASSUME NEW n \in Nat
  PROVE  2 ^ n \in Nat \ {0}
<1> DEFINE S == 1 .. n
<1>1. IsFiniteSet(S) /\ Cardinality(S) = n
  BY FS_Interval
<1>2. /\ IsFiniteSet(SUBSET S)
      /\ Cardinality(SUBSET S) = 2 ^ n
  BY <1>1, FS_SUBSET
<1>3. Cardinality(SUBSET S) \in Nat /\ Cardinality(SUBSET S) # 0
  BY <1>2, FS_CardinalityType, FS_EmptySet
<1>4. QED
  BY <1>2, <1>3

(* The backoff of _retry_at is at least its base and at most its maximum.  *)
LEMMA RetryInBounds ==
  ASSUME NEW f \in 1 .. MaxFails
  PROVE  RetryIn(f) \in RetryBase .. RetryMax
<1>1. f - 1 \in Nat
  BY FailsAssumption
<1>2. PICK p \in Nat \ {0} : p = 2 ^ (f - 1)
  BY <1>1, PowerPositive
<1>3. RetryBase * p \in Nat /\ RetryBase * p >= RetryBase
  BY DelaysAssumption
<1>4. RetryIn(f) = IF RetryBase * p < RetryMax THEN RetryBase * p ELSE RetryMax
  BY <1>2 DEF RetryIn
<1>5. QED
  BY <1>3, <1>4, DelaysAssumption

(* Powers of two grow: a smaller set has fewer subsets.                    *)
LEMMA PowerGrows ==
  ASSUME NEW n \in Nat, NEW m \in 0 .. n
  PROVE  2 ^ m <= 2 ^ n /\ (m < n => 2 ^ m < 2 ^ n)
<1> DEFINE S == SUBSET (1 .. n)
           T == SUBSET (1 .. m)
<1>1. IsFiniteSet(S) /\ Cardinality(S) = 2 ^ n
  <2>1. IsFiniteSet(1 .. n) /\ Cardinality(1 .. n) = n
    BY FS_Interval
  <2>2. QED
    BY <2>1, FS_SUBSET
<1>2. Cardinality(T) = 2 ^ m
  <2>1. m \in Nat /\ IsFiniteSet(1 .. m) /\ Cardinality(1 .. m) = m
    BY FS_Interval
  <2>2. QED
    BY <2>1, FS_SUBSET
<1>3. T \in SUBSET S
  OBVIOUS
<1>4. m < n => n \in 1 .. n /\ n \notin 1 .. m
  OBVIOUS
<1>5. m < n => S # T
  BY <1>4
<1>6. Cardinality(T) <= Cardinality(S) /\ (Cardinality(S) = Cardinality(T) => S = T)
  BY <1>1, <1>3, FS_Subset
<1>7. 2 ^ m \in Nat /\ 2 ^ n \in Nat
  BY PowerPositive
<1> HIDE DEF S, T
<1>8. QED
  BY <1>1, <1>2, <1>5, <1>6, <1>7

(* 2 ^ 0 = 1.                                                              *)
LEMMA PowerOfNothing == 2 ^ 0 = 1
<1>1. IsFiniteSet({}) /\ Cardinality({}) = 0
  BY FS_EmptySet
<1>2. Cardinality(SUBSET {}) = 2 ^ 0
  BY <1>1, FS_SUBSET
<1>3. SUBSET {} = {{}}
  OBVIOUS
<1>4. Cardinality({{}}) = 1
  BY FS_Singleton
<1>5. QED
  BY <1>2, <1>3, <1>4

(* "back off instead of burning the proxy and the log": the delay begins   *)
(* at the base, grows with every failure in a row until it has reached the *)
(* maximum, and stays there, however many there are: counting no further   *)
(* than MaxFails, as this model does, loses nothing.                       *)
THEOREM RetryGrows ==
  ASSUME NEW f \in Nat \ {0}
  PROVE  /\ RetryIn(1) = RetryBase
         /\ \A e \in 1 .. f : RetryIn(e) <= RetryIn(f)
         /\ \A e \in 1 .. f : e < f /\ RetryIn(e) < RetryMax =>
               RetryIn(e) < RetryIn(f)
         /\ f >= MaxFails => RetryIn(f) = RetryMax
<1>1. RetryIn(1) = RetryBase
  <2>1. 1 - 1 = 0
    OBVIOUS
  <2>2. RetryIn(1) = IF RetryBase * 1 < RetryMax THEN RetryBase * 1 ELSE RetryMax
    BY <2>1, PowerOfNothing DEF RetryIn
  <2>3. QED
    BY <2>2, DelaysAssumption
<1>2. ASSUME NEW e \in 1 .. f
      PROVE  /\ RetryIn(e) <= RetryIn(f)
             /\ e < f /\ RetryIn(e) < RetryMax => RetryIn(e) < RetryIn(f)
  <2>1. f - 1 \in Nat /\ e - 1 \in 0 .. f - 1 /\ e - 1 \in Nat
    OBVIOUS
  <2>2. PICK p \in Nat \ {0} : p = 2 ^ (e - 1)
    BY <2>1, PowerPositive
  <2>3. PICK q \in Nat \ {0} : q = 2 ^ (f - 1)
    BY <2>1, PowerPositive
  <2>4. p <= q /\ (e < f => p < q)
    BY <2>1, <2>2, <2>3, PowerGrows
  <2>5. RetryBase * p <= RetryBase * q /\ (e < f => RetryBase * p < RetryBase * q)
    BY <2>4, DelaysAssumption
  <2>6. /\ RetryIn(e) = IF RetryBase * p < RetryMax THEN RetryBase * p ELSE RetryMax
        /\ RetryIn(f) = IF RetryBase * q < RetryMax THEN RetryBase * q ELSE RetryMax
    BY <2>2, <2>3 DEF RetryIn
  <2>7. RetryBase * p \in Nat /\ RetryBase * q \in Nat /\ RetryMax \in Nat
    BY DelaysAssumption
  <2>8. QED
    BY <2>5, <2>6, <2>7
<1>3. ASSUME f >= MaxFails
      PROVE  RetryIn(f) = RetryMax
  <2>1. f - 1 \in Nat /\ MaxFails - 1 \in 0 .. f - 1 /\ MaxFails - 1 \in Nat
    BY <1>3, FailsAssumption
  <2>2. PICK p \in Nat \ {0} : p = 2 ^ (MaxFails - 1)
    BY <2>1, PowerPositive
  <2>3. PICK q \in Nat \ {0} : q = 2 ^ (f - 1)
    BY <2>1, PowerPositive
  <2>4. p <= q
    BY <2>1, <2>2, <2>3, PowerGrows
  <2>5. RetryBase * p >= RetryMax
    BY <2>2, FailsAssumption
  <2>6. RetryBase * q >= RetryMax
    BY <2>4, <2>5, DelaysAssumption
  <2>7. RetryIn(f) = IF RetryBase * q < RetryMax THEN RetryBase * q ELSE RetryMax
    BY <2>3 DEF RetryIn
  <2>8. QED
    BY <2>6, <2>7, DelaysAssumption
<1>4. QED
  BY <1>1, <1>2, <1>3

(* _due_at answers an instant within one interval.                         *)
LEMMA DueInBounds ==
  ASSUME NEW a \in 0 .. Interval
  PROVE  DueIn(a) \in 1 .. Interval
  BY DelaysAssumption DEF DueIn

(* So does what _fire schedules after a sync.                              *)
LEMMA AfterRunBounds ==
  ASSUME NEW f \in 0 .. MaxFails, NEW a \in 0 .. Interval
  PROVE  AfterRun(f, a) \in 1 .. Interval
<1>1. CASE f > 0
  <2>1. RetryIn(f) \in RetryBase .. RetryMax
    BY <1>1, RetryInBounds
  <2>2. QED
    BY <1>1, <2>1, DelaysAssumption DEF AfterRun
<1>2. CASE f = 0
  BY <1>2, DueInBounds DEF AfterRun
<1>3. QED
  BY <1>1, <1>2

(* And what it schedules after a skipped sync.                              *)
LEMMA AfterSkipBounds ==
  ASSUME NEW f \in 0 .. MaxFails
  PROVE  AfterSkip(f) \in 1 .. Interval
<1>1. CASE f > 0
  <2>1. RetryIn(f) \in RetryBase .. RetryMax
    BY <1>1, RetryInBounds
  <2>2. QED
    BY <1>1, <2>1, DelaysAssumption DEF AfterSkip
<1>2. CASE f = 0
  BY <1>2, DelaysAssumption DEF AfterSkip
<1>3. QED
  BY <1>1, <1>2
-----------------------------------------------------------------------------
(* Types.                                                                  *)

(* Who refers to a coordinator: the entry, once it is being set up, every  *)
(* sync in flight, and a poll.                                             *)
RefInv ==
    /\ phase # "down" => current \in Loads
    /\ \A g \in Loads : run[g] # "none" => target[g] \in Loads
    /\ poll # "none" => phase \in {"loaded"} \cup Running

(* Every step keeps the types and the references.                          *)
LEMMA TypeStep ==
  ASSUME DataTypeOK, RefInv, Next
  PROVE  DataTypeOK' /\ RefInv'
<1>1. CASE \E g \in Loads : SetupBegin(g)
  BY <1>1, DelaysAssumption, FailsAssumption DEF DataTypeOK, RefInv,
     SetupBegin, Running, Stale, otherVars
<1>2. CASE SetupLoad
  BY <1>2, DelaysAssumption DEF DataTypeOK, RefInv, SetupLoad,
     Stale, closureVars, otherVars
<1>3. CASE SetupArm
  BY <1>3, DueInBounds DEF DataTypeOK, RefInv, SetupArm, Schedule, entryVars,
     dataVars, otherVars, histVars
<1>4. CASE SetupDone
  BY <1>4 DEF DataTypeOK, RefInv, SetupDone, Running, closureVars, dataVars,
     otherVars, histVars
<1>5. CASE SetupFails
  BY <1>5 DEF DataTypeOK, RefInv, SetupFails, Teardown, Schedule, dataVars,
     histVars
<1>6. CASE Unload
  BY <1>6 DEF DataTypeOK, RefInv, Unload, Teardown, Schedule, dataVars,
     histVars
<1>7. CASE Restart
  BY <1>7, DelaysAssumption, FailsAssumption DEF DataTypeOK, RefInv, Restart,
     Stale
<1>8. CASE \E g \in Loads : FireOrphan(g)
  BY <1>8 DEF DataTypeOK, RefInv, FireOrphan, Schedule, entryVars, dataVars,
     otherVars, histVars
<1>9. CASE \E g \in Loads : FireSkips(g)
  BY <1>9, AfterSkipBounds DEF DataTypeOK, RefInv, FireSkips, Schedule,
     entryVars, dataVars, otherVars, histVars
<1>10. CASE \E g \in Loads : FireSyncs(g)
  BY <1>10 DEF DataTypeOK, RefInv, FireSyncs, Schedule, entryVars, dataVars,
     otherVars, histVars
<1>11. CASE \E g \in Loads : RunWrites(g)
  BY <1>11, DelaysAssumption, FailsAssumption DEF DataTypeOK, RefInv,
     RunWrites, NoteSync, Stale, Unknown, entryVars, otherVars
<1>12. CASE \E g \in Loads : RunSaves(g)
  BY <1>12 DEF DataTypeOK, RefInv, RunSaves, Save, Record, entryVars,
     dataVars, otherVars
<1>13. CASE \E g \in Loads : RunEnds(g)
  <2>1. PICK g \in Loads : RunEnds(g)
    BY <1>13
  <2>2. AfterRun(fails[g], age[g]) \in 1 .. Interval
    BY AfterRunBounds DEF DataTypeOK
  <2>3. timer' \in [Loads -> 0 .. Interval \cup {Off}]
    BY <2>1, <2>2 DEF DataTypeOK, RunEnds, Schedule
  <2>4. QED
    BY <2>1, <2>3 DEF DataTypeOK, RefInv, RunEnds, entryVars, dataVars,
       otherVars, histVars
<1>14. CASE \E g \in Loads : RunFails(g)
  <2>1. PICK g \in Loads : RunFails(g)
    BY <1>14
  <2>2. fails' \in [Loads -> 0 .. MaxFails]
    <3>1. target[g] \in Loads
      BY <2>1 DEF RefInv, RunFails
    <3>2. OneMore(fails[target[g]]) \in 0 .. MaxFails
      BY <3>1, FailsAssumption DEF DataTypeOK, OneMore
    <3>3. fails' = [fails EXCEPT ![target[g]] = OneMore(fails[target[g]])]
      BY <2>1 DEF RunFails
    <3>4. QED
      BY <3>2, <3>3 DEF DataTypeOK
  <2>3. AfterRun(fails'[g], age[g]) \in 1 .. Interval
    BY <2>2, AfterRunBounds DEF DataTypeOK
  <2>4. timer' \in [Loads -> 0 .. Interval \cup {Off}]
    BY <2>1, <2>3 DEF DataTypeOK, RunFails, Schedule
  <2>5. sinceFail' \in [Loads -> 0 .. RetryBase]
    BY <2>1, DelaysAssumption DEF DataTypeOK, RunFails
  <2>6. QED
    BY <2>1, <2>2, <2>4, <2>5 DEF DataTypeOK, RefInv, RunFails, entryVars,
       otherVars
<1>15. CASE ManualStart
  BY <1>15 DEF DataTypeOK, RefInv, ManualStart, entryVars, closureVars,
     dataVars, histVars
<1>16. CASE ManualWrites
  BY <1>16, DelaysAssumption DEF DataTypeOK, RefInv, ManualWrites, NoteSync,
     ManualTarget, Stale, Unknown, entryVars, closureVars
<1>17. CASE ManualFails
  BY <1>17 DEF DataTypeOK, RefInv, ManualFails, entryVars, closureVars,
     dataVars, histVars
<1>18. CASE ManualSaves
  BY <1>18, DueInBounds DEF DataTypeOK, RefInv, ManualSaves, AfterSync, Save,
     Record, Schedule, ManualTarget, entryVars, dataVars, otherVars, histVars
<1>19. CASE ManualCancelled
  BY <1>19 DEF DataTypeOK, RefInv, ManualCancelled, entryVars, closureVars,
     dataVars
<1>20. CASE PollStart
  BY <1>20 DEF DataTypeOK, RefInv, PollStart, entryVars, closureVars,
     dataVars, histVars
<1>21. CASE PollReads
  BY <1>21, DelaysAssumption DEF DataTypeOK, RefInv, PollReads, Stale,
     Unknown, entryVars, closureVars
<1>22. CASE PollWrites
  BY <1>22, DelaysAssumption DEF DataTypeOK, RefInv, PollWrites, NoteSync,
     Running, Stale, Unknown, entryVars, closureVars
<1>23. CASE PollSaves
  BY <1>23, DueInBounds DEF DataTypeOK, RefInv, PollSaves, AfterSync, Save,
     Record, Schedule, Running, entryVars, dataVars, otherVars, histVars
<1>24. CASE \E g \in Loads : OtherSaves(g)
  BY <1>24 DEF DataTypeOK, RefInv, OtherSaves, Record, entryVars,
     closureVars, dataVars, otherVars
<1>25. CASE \E g \in Loads : OtherEnds(g)
  BY <1>25 DEF DataTypeOK, RefInv, OtherEnds, histVars, entryVars,
     closureVars, dataVars, histVars
<1>26. CASE Tick
  BY <1>26, DelaysAssumption, FailsAssumption DEF DataTypeOK, RefInv, Tick,
     Older, Collected, Stale, Unknown, entryVars, otherVars
<1>27. QED
  BY <1>1, <1>2, <1>3, <1>4, <1>5, <1>6, <1>7, <1>8, <1>9, <1>10, <1>11,
     <1>12, <1>13, <1>14, <1>15, <1>16, <1>17, <1>18, <1>19, <1>20, <1>21,
     <1>22, <1>23, <1>24, <1>25, <1>26 DEF Next, Closure, Entry, Manual, Poll, Other

(* The flags keep theirs.                                                  *)
LEMMA FlagStep ==
  ASSUME DataTypeOK, FlagTypeOK, Next
  PROVE  FlagTypeOK'
<1>1. CASE \E g \in Loads : SetupBegin(g)
  BY <1>1 DEF FlagTypeOK, SetupBegin
<1>2. CASE SetupLoad
  BY <1>2 DEF FlagTypeOK, SetupLoad, closureVars
<1>3. CASE SetupArm
  BY <1>3, OptionsAssumption DEF FlagTypeOK, SetupArm, DataTypeOK, histVars
<1>4. CASE SetupDone
  BY <1>4 DEF FlagTypeOK, SetupDone, closureVars, histVars
<1>5. CASE SetupFails
  BY <1>5 DEF FlagTypeOK, SetupFails, Teardown, histVars
<1>6. CASE Unload
  BY <1>6 DEF FlagTypeOK, Unload, Teardown, histVars
<1>7. CASE Restart
  BY <1>7 DEF FlagTypeOK, Restart
<1>8. CASE \E g \in Loads : FireOrphan(g)
  BY <1>8 DEF FlagTypeOK, FireOrphan, histVars
<1>9. CASE \E g \in Loads : FireSkips(g)
  BY <1>9 DEF FlagTypeOK, FireSkips, histVars
<1>10. CASE \E g \in Loads : FireSyncs(g)
  BY <1>10 DEF FlagTypeOK, FireSyncs, histVars
<1>11. CASE \E g \in Loads : RunWrites(g)
  BY <1>11 DEF FlagTypeOK, RunWrites
<1>12. CASE \E g \in Loads : RunSaves(g)
  BY <1>12 DEF FlagTypeOK, RunSaves, Save
<1>13. CASE \E g \in Loads : RunEnds(g)
  BY <1>13 DEF FlagTypeOK, RunEnds, histVars
<1>14. CASE \E g \in Loads : RunFails(g)
  BY <1>14 DEF FlagTypeOK, RunFails
<1>15. CASE ManualStart
  BY <1>15 DEF FlagTypeOK, ManualStart, closureVars, histVars
<1>16. CASE ManualWrites
  BY <1>16 DEF FlagTypeOK, ManualWrites, closureVars
<1>17. CASE ManualFails
  BY <1>17 DEF FlagTypeOK, ManualFails, closureVars, histVars
<1>18. CASE ManualSaves
  BY <1>18 DEF FlagTypeOK, ManualSaves, AfterSync, Save
<1>19. CASE ManualCancelled
  BY <1>19 DEF FlagTypeOK, ManualCancelled, closureVars
<1>20. CASE PollStart
  BY <1>20 DEF FlagTypeOK, PollStart, closureVars, histVars
<1>21. CASE PollReads
  BY <1>21 DEF FlagTypeOK, PollReads, closureVars
<1>22. CASE PollWrites
  BY <1>22 DEF FlagTypeOK, PollWrites, closureVars
<1>23. CASE PollSaves
  BY <1>23 DEF FlagTypeOK, PollSaves, AfterSync, Save
<1>24. CASE \E g \in Loads : OtherSaves(g)
  BY <1>24 DEF FlagTypeOK, OtherSaves, closureVars
<1>25. CASE \E g \in Loads : OtherEnds(g)
  BY <1>25 DEF FlagTypeOK, OtherEnds, histVars, closureVars
<1>26. CASE Tick
  BY <1>26 DEF FlagTypeOK, Tick, Collected
<1>27. QED
  BY <1>1, <1>2, <1>3, <1>4, <1>5, <1>6, <1>7, <1>8, <1>9, <1>10, <1>11,
     <1>12, <1>13, <1>14, <1>15, <1>16, <1>17, <1>18, <1>19, <1>20, <1>21,
     <1>22, <1>23, <1>24, <1>25, <1>26 DEF Next, Closure, Entry, Manual, Poll, Other

-----------------------------------------------------------------------------
(* The schedule is never lost.                                             *)

(* No step leaves the loaded entry without a next sync.                    *)
LEMMA ScheduledStep ==
  ASSUME DataTypeOK, FlagTypeOK, RefInv, NeverUnscheduled, Next
  PROVE  NeverUnscheduled'
<1>1. CASE \E g \in Loads : SetupBegin(g)
  BY <1>1 DEF NeverUnscheduled, Running, SetupBegin
<1>2. CASE SetupLoad
  BY <1>2 DEF NeverUnscheduled, Running, SetupLoad
<1>3. CASE SetupArm
  <2>1. current \in Loads /\ current' = current
    BY <1>3 DEF RefInv, SetupArm
  <2>2. CASE options.auto
    <3>1. timer'[current] = DueIn(age[current])
      BY <1>3, <2>1, <2>2 DEF DataTypeOK, SetupArm, Schedule
    <3>2. DueIn(age[current]) \in 1 .. Interval
      BY <2>1, DueInBounds DEF DataTypeOK
    <3>3. QED
      BY <2>1, <3>1, <3>2, LoadsAssumption DEF NeverUnscheduled
  <2>3. CASE ~ options.auto
    <3>1. mode'[current] = options.auto
      BY <1>3, <2>1 DEF FlagTypeOK, SetupArm
    <3>2. QED
      BY <2>1, <2>3, <3>1 DEF NeverUnscheduled
  <2>4. QED
    BY <2>2, <2>3
<1>4. CASE SetupDone
  BY <1>4 DEF NeverUnscheduled, Running, SetupDone, closureVars
<1>5. CASE SetupFails
  BY <1>5 DEF NeverUnscheduled, Running, SetupFails
<1>6. CASE Unload
  BY <1>6 DEF NeverUnscheduled, Running, Unload
<1>7. CASE Restart
  BY <1>7 DEF NeverUnscheduled, Running, Restart
<1>8. CASE \E g \in Loads : FireOrphan(g)
  BY <1>8, LoadsAssumption DEF RefInv, NeverUnscheduled, Running, FireOrphan,
     entryVars
<1>9. CASE \E g \in Loads : FireSkips(g)
  BY <1>9, AfterSkipBounds, LoadsAssumption DEF DataTypeOK, NeverUnscheduled,
     FireSkips, Schedule, entryVars
<1>10. CASE \E g \in Loads : FireSyncs(g)
  BY <1>10 DEF DataTypeOK, NeverUnscheduled, FireSyncs, Schedule, entryVars
<1>11. CASE \E g \in Loads : RunWrites(g)
  BY <1>11 DEF NeverUnscheduled, RunWrites, entryVars
<1>12. CASE \E g \in Loads : RunSaves(g)
  BY <1>12 DEF NeverUnscheduled, RunSaves, entryVars
<1>13. CASE \E g \in Loads : RunEnds(g)
  BY <1>13, AfterRunBounds, LoadsAssumption DEF DataTypeOK, NeverUnscheduled,
     RunEnds, Schedule, entryVars
<1>14. CASE \E g \in Loads : RunFails(g)
  BY <1>14, AfterRunBounds, TypeStep, LoadsAssumption DEF DataTypeOK,
     NeverUnscheduled, RunFails, Schedule, entryVars
<1>15. CASE ManualStart
  BY <1>15 DEF NeverUnscheduled, ManualStart, entryVars, closureVars
<1>16. CASE ManualWrites
  BY <1>16 DEF NeverUnscheduled, ManualWrites, entryVars, closureVars
<1>17. CASE ManualFails
  BY <1>17 DEF NeverUnscheduled, ManualFails, entryVars, closureVars
<1>18. CASE ManualSaves
  BY <1>18, DueInBounds, LoadsAssumption DEF DataTypeOK, RefInv,
     NeverUnscheduled, Running, ManualSaves, entryVars, AfterSync, Schedule
<1>19. CASE ManualCancelled
  BY <1>19 DEF NeverUnscheduled, ManualCancelled, entryVars, closureVars
<1>20. CASE PollStart
  BY <1>20 DEF NeverUnscheduled, PollStart, entryVars, closureVars
<1>21. CASE PollReads
  BY <1>21 DEF NeverUnscheduled, PollReads, entryVars, closureVars
<1>22. CASE PollWrites
  BY <1>22 DEF NeverUnscheduled, PollWrites, entryVars, closureVars
<1>23. CASE PollSaves
  BY <1>23, DueInBounds, LoadsAssumption DEF DataTypeOK, NeverUnscheduled,
     PollSaves, entryVars, AfterSync, Schedule
<1>24. CASE \E g \in Loads : OtherSaves(g)
  BY <1>24 DEF NeverUnscheduled, OtherSaves, entryVars, closureVars
<1>25. CASE \E g \in Loads : OtherEnds(g)
  BY <1>25 DEF NeverUnscheduled, OtherEnds, histVars, entryVars, closureVars
<1>26. CASE Tick
  BY <1>26, LoadsAssumption DEF RefInv, NeverUnscheduled, Running, Tick,
     entryVars, Collected
<1>27. QED
  BY <1>1, <1>2, <1>3, <1>4, <1>5, <1>6, <1>7, <1>8, <1>9, <1>10, <1>11,
     <1>12, <1>13, <1>14, <1>15, <1>16, <1>17, <1>18, <1>19, <1>20, <1>21,
     <1>22, <1>23, <1>24, <1>25, <1>26 DEF Next, Closure, Entry, Manual, Poll, Other

-----------------------------------------------------------------------------
(* Nor late.                                                               *)

(* sinceGood is as recent as any sync or reading that anybody remembers,   *)
(* in a coordinator or in the store.                                       *)
GoodInv ==
    /\ \A g \in Loads :
          /\ age[g] < Interval => sinceGood <= age[g]
          /\ checked[g] <= FreshFor => sinceGood <= checked[g]
    /\ stored.age < Interval => sinceGood <= stored.age
    /\ stored.checked <= FreshFor => sinceGood <= stored.checked

LateInv ==
    \A g \in Loads :
       timer[g] \in RetryMax + 1 .. Interval =>
          timer[g] + sinceGood <= Interval + FreshFor

(* What is scheduled after a sync is a retry, or due an interval after it. *)
LEMMA DueInLate ==
  ASSUME NEW a \in 0 .. Interval, NEW s \in Nat, a < Interval => s <= a
  PROVE  DueIn(a) > RetryMax => DueIn(a) + s <= Interval
  BY DelaysAssumption DEF DueIn

(* So is what _fire schedules.                                             *)
LEMMA AfterRunLate ==
  ASSUME NEW f \in 0 .. MaxFails, NEW a \in 0 .. Interval, NEW s \in Nat,
         a < Interval => s <= a
  PROVE  AfterRun(f, a) > RetryMax => AfterRun(f, a) + s <= Interval
<1>1. CASE f > 0
  <2>1. RetryIn(f) \in RetryBase .. RetryMax
    BY <1>1, RetryInBounds
  <2>2. QED
    BY <1>1, <2>1, DelaysAssumption DEF AfterRun
<1>2. CASE f = 0
  <2>1. DueIn(a) > RetryMax => DueIn(a) + s <= Interval
    BY DueInLate
  <2>2. QED
    BY <1>2, <2>1 DEF AfterRun
<1>3. QED
  BY <1>1, <1>2

(* Every write, reading, load and save keeps it so.                        *)
LEMMA GoodStep ==
  ASSUME DataTypeOK, RefInv, GoodInv, Next
  PROVE  GoodInv'
<1>1. CASE \E g \in Loads : SetupBegin(g)
  BY <1>1, DelaysAssumption DEF GoodInv, SetupBegin, Stale
<1>2. CASE SetupLoad
  BY <1>2, DelaysAssumption DEF DataTypeOK, RefInv, GoodInv, SetupLoad, Stale
<1>3. CASE SetupArm
  BY <1>3 DEF GoodInv, SetupArm, dataVars, histVars
<1>4. CASE SetupDone
  BY <1>4 DEF GoodInv, SetupDone, dataVars, histVars
<1>5. CASE SetupFails
  BY <1>5 DEF GoodInv, SetupFails, dataVars, histVars
<1>6. CASE Unload
  BY <1>6 DEF GoodInv, Unload, dataVars, histVars
<1>7. CASE Restart
  BY <1>7, DelaysAssumption DEF GoodInv, Restart, Stale
<1>8. CASE \E g \in Loads : FireOrphan(g)
  BY <1>8 DEF GoodInv, FireOrphan, dataVars, histVars
<1>9. CASE \E g \in Loads : FireSkips(g)
  BY <1>9 DEF GoodInv, FireSkips, dataVars, histVars
<1>10. CASE \E g \in Loads : FireSyncs(g)
  BY <1>10 DEF GoodInv, FireSyncs, dataVars, histVars
<1>11. CASE \E g \in Loads : RunWrites(g)
  BY <1>11 DEF DataTypeOK, GoodInv, RunWrites, NoteSync
<1>12. CASE \E g \in Loads : RunSaves(g)
  BY <1>12 DEF RefInv, GoodInv, RunSaves, Save, Record, dataVars
<1>13. CASE \E g \in Loads : RunEnds(g)
  BY <1>13 DEF GoodInv, RunEnds, dataVars, histVars
<1>14. CASE \E g \in Loads : RunFails(g)
  BY <1>14 DEF GoodInv, RunFails
<1>15. CASE ManualStart
  BY <1>15 DEF GoodInv, ManualStart, dataVars, histVars
<1>16. CASE ManualWrites
  BY <1>16 DEF DataTypeOK, GoodInv, ManualWrites, NoteSync
<1>17. CASE ManualFails
  BY <1>17 DEF GoodInv, ManualFails, dataVars, histVars
<1>18. CASE ManualSaves
  BY <1>18 DEF DataTypeOK, GoodInv, ManualSaves, AfterSync, Save, Record,
     ManualTarget, dataVars
<1>19. CASE ManualCancelled
  BY <1>19 DEF GoodInv, ManualCancelled, dataVars
<1>20. CASE PollStart
  BY <1>20 DEF GoodInv, PollStart, dataVars, histVars
<1>21. CASE PollReads
  BY <1>21, DelaysAssumption DEF DataTypeOK, GoodInv, PollReads, Stale
<1>22. CASE PollWrites
  BY <1>22 DEF DataTypeOK, GoodInv, PollWrites, NoteSync
<1>23. CASE PollSaves
  BY <1>23 DEF RefInv, GoodInv, PollSaves, AfterSync, Save, Record, dataVars,
     Running
<1>24. CASE \E g \in Loads : OtherSaves(g)
  BY <1>24 DEF RefInv, GoodInv, OtherSaves, Record, dataVars
<1>25. CASE \E g \in Loads : OtherEnds(g)
  BY <1>25 DEF RefInv, GoodInv, OtherEnds, histVars, dataVars
<1>26. CASE Tick
  BY <1>26, DelaysAssumption DEF DataTypeOK, GoodInv, Tick, Older, Collected,
     Stale
<1>27. QED
  BY <1>1, <1>2, <1>3, <1>4, <1>5, <1>6, <1>7, <1>8, <1>9, <1>10, <1>11,
     <1>12, <1>13, <1>14, <1>15, <1>16, <1>17, <1>18, <1>19, <1>20, <1>21,
     <1>22, <1>23, <1>24, <1>25, <1>26 DEF Next, Closure, Entry, Manual, Poll, Other

(* No step sets a timer later than an interval after the clock was right.  *)
LEMMA LateStep ==
  ASSUME DataTypeOK, RefInv, GoodInv, LateInv, Next
  PROVE  LateInv'
<1>1. CASE \E g \in Loads : SetupBegin(g)
  BY <1>1 DEF LateInv, SetupBegin
<1>2. CASE SetupLoad
  BY <1>2 DEF LateInv, SetupLoad, closureVars
<1>3. CASE SetupArm
  <2>1. current \in Loads /\ sinceGood' = sinceGood
    BY <1>3 DEF RefInv, SetupArm, histVars
  <2>2. DueIn(age[current]) > RetryMax =>
          DueIn(age[current]) + sinceGood <= Interval
    BY <2>1, DueInLate DEF DataTypeOK, GoodInv
  <2>3. \/ timer' = [timer EXCEPT ![current] = DueIn(age[current])]
        \/ timer' = timer
    BY <1>3 DEF SetupArm, Schedule
  <2>4. QED
    BY <2>1, <2>2, <2>3, DelaysAssumption DEF DataTypeOK, LateInv
<1>4. CASE SetupDone
  BY <1>4 DEF LateInv, SetupDone, closureVars, histVars
<1>5. CASE SetupFails
  BY <1>5, DelaysAssumption, LoadsAssumption DEF LateInv, SetupFails,
     Teardown, Schedule, histVars
<1>6. CASE Unload
  BY <1>6, DelaysAssumption, LoadsAssumption DEF LateInv, Unload, Teardown,
     Schedule, histVars
<1>7. CASE Restart
  BY <1>7, DelaysAssumption, LoadsAssumption DEF LateInv, Restart
<1>8. CASE \E g \in Loads : FireOrphan(g)
  BY <1>8, DelaysAssumption, LoadsAssumption DEF LateInv, FireOrphan,
     Schedule, histVars
<1>9. CASE \E g \in Loads : FireSkips(g)
  <2>1. PICK g \in Loads : FireSkips(g)
    BY <1>9
  <2>2. sinceGood <= FreshFor /\ sinceGood' = sinceGood
    BY <2>1, DelaysAssumption DEF DataTypeOK, GoodInv, FireSkips,
       RecentlyVerified, histVars
  <2>3. AfterSkip(fails[g]) \in 1 .. Interval
    BY AfterSkipBounds DEF DataTypeOK
  <2>4. timer' = [timer EXCEPT ![g] = AfterSkip(fails[g])]
    BY <2>1 DEF FireSkips, Schedule
  <2>5. QED
    BY <2>2, <2>3, <2>4, DelaysAssumption DEF DataTypeOK, LateInv
<1>10. CASE \E g \in Loads : FireSyncs(g)
  BY <1>10, DelaysAssumption, LoadsAssumption DEF LateInv, FireSyncs,
     Schedule, histVars
<1>11. CASE \E g \in Loads : RunWrites(g)
  BY <1>11, DelaysAssumption DEF LateInv, RunWrites, NoteSync
<1>12. CASE \E g \in Loads : RunSaves(g)
  BY <1>12 DEF LateInv, RunSaves
<1>13. CASE \E g \in Loads : RunEnds(g)
  <2>1. PICK g \in Loads : RunEnds(g)
    BY <1>13
  <2>2. AfterRun(fails[g], age[g]) > RetryMax =>
          AfterRun(fails[g], age[g]) + sinceGood <= Interval
    BY AfterRunLate DEF DataTypeOK, GoodInv
  <2>3. timer' = [timer EXCEPT ![g] = AfterRun(fails[g], age[g])]
    BY <2>1 DEF RunEnds, Schedule
  <2>4. sinceGood' = sinceGood
    BY <2>1 DEF RunEnds, histVars
  <2>5. QED
    BY <2>2, <2>3, <2>4, DelaysAssumption DEF DataTypeOK, LateInv
<1>14. CASE \E g \in Loads : RunFails(g)
  <2>1. PICK g \in Loads : RunFails(g)
    BY <1>14
  <2>2. fails'[g] \in 0 .. MaxFails
    BY TypeStep DEF DataTypeOK
  <2>3. AfterRun(fails'[g], age[g]) > RetryMax =>
          AfterRun(fails'[g], age[g]) + sinceGood <= Interval
    BY <2>2, AfterRunLate DEF DataTypeOK, GoodInv
  <2>4. /\ timer' = [timer EXCEPT ![g] = AfterRun(fails'[g], age[g])]
        /\ sinceGood' = sinceGood
    BY <2>1 DEF RunFails, Schedule
  <2>5. QED
    BY <2>3, <2>4, DelaysAssumption DEF DataTypeOK, LateInv
<1>15. CASE ManualStart
  BY <1>15 DEF LateInv, ManualStart, closureVars, histVars
<1>16. CASE ManualWrites
  BY <1>16, DelaysAssumption DEF LateInv, ManualWrites, NoteSync
<1>17. CASE ManualFails
  BY <1>17 DEF LateInv, ManualFails, closureVars, histVars
<1>18. CASE ManualSaves
  <2>1. ManualTarget \in Loads /\ sinceGood' = sinceGood
    BY <1>18 DEF DataTypeOK, ManualSaves, ManualTarget
  <2>2. DueIn(age[ManualTarget]) > RetryMax =>
          DueIn(age[ManualTarget]) + sinceGood <= Interval
    BY <2>1, DueInLate DEF DataTypeOK, GoodInv
  <2>3. \/ timer' = [timer EXCEPT ![ManualTarget] = DueIn(age[ManualTarget])]
        \/ timer' = timer
    BY <1>18 DEF ManualSaves, AfterSync, Schedule
  <2>4. QED
    BY <2>1, <2>2, <2>3, DelaysAssumption DEF DataTypeOK, LateInv
<1>19. CASE ManualCancelled
  BY <1>19 DEF LateInv, ManualCancelled, closureVars
<1>20. CASE PollStart
  BY <1>20 DEF LateInv, PollStart, closureVars, histVars
<1>21. CASE PollReads
  BY <1>21, DelaysAssumption DEF LateInv, PollReads, closureVars
<1>22. CASE PollWrites
  BY <1>22, DelaysAssumption DEF LateInv, PollWrites, NoteSync
<1>23. CASE PollSaves
  <2>1. current \in Loads /\ sinceGood' = sinceGood
    BY <1>23 DEF RefInv, PollSaves, Running
  <2>2. DueIn(age[current]) > RetryMax =>
          DueIn(age[current]) + sinceGood <= Interval
    BY <2>1, DueInLate DEF DataTypeOK, GoodInv
  <2>3. \/ timer' = [timer EXCEPT ![current] = DueIn(age[current])]
        \/ timer' = timer
    BY <1>23 DEF PollSaves, AfterSync, Schedule
  <2>4. QED
    BY <2>1, <2>2, <2>3, DelaysAssumption DEF DataTypeOK, LateInv
<1>24. CASE \E g \in Loads : OtherSaves(g)
  BY <1>24 DEF LateInv, OtherSaves, closureVars
<1>25. CASE \E g \in Loads : OtherEnds(g)
  BY <1>25 DEF LateInv, OtherEnds, histVars, closureVars
<1>26. CASE Tick
  BY <1>26, DelaysAssumption DEF DataTypeOK, LateInv, Tick, Older
<1>27. QED
  BY <1>1, <1>2, <1>3, <1>4, <1>5, <1>6, <1>7, <1>8, <1>9, <1>10, <1>11,
     <1>12, <1>13, <1>14, <1>15, <1>16, <1>17, <1>18, <1>19, <1>20, <1>21,
     <1>22, <1>23, <1>24, <1>25, <1>26 DEF Next, Closure, Entry, Manual, Poll, Other

-----------------------------------------------------------------------------
(* The backoff.                                                            *)

(* Since the failure that the backoff counts from, a write came not later. *)
Answered(g) == age[g] <= sinceFail[g] \/ sinceFail[g] = RetryBase

BackoffInv ==
    current \in Loads =>
       /\ timer[current] \in 0 .. Interval =>
             timer[current] + sinceFail[current] >= RetryBase
       /\ run[current] # "none" => target[current] = current
       /\ run[current] \in {"written", "saved"} => Answered(current)
       /\ manual = "written" /\ ManualTarget = current => Answered(current)
       /\ poll = "written" => Answered(current)

(* While the entry is set up, nothing else knows the new coordinator.      *)
NewInv ==
    phase \in {"loading", "loaded"} =>
       /\ timer[current] = Off
       /\ run[current] = "none"
       /\ sinceFail[current] = RetryBase
       /\ ~ hook[current]

(* A timer set after a write does not fire before the delay is over.       *)
LEMMA AnsweredDue ==
  ASSUME NEW a \in 0 .. Interval, NEW s \in 0 .. RetryBase,
         a <= s \/ s = RetryBase
  PROVE  DueIn(a) + s >= RetryBase
  BY DelaysAssumption DEF DueIn

(* Nor does what _fire schedules after a sync.                             *)
LEMMA AnsweredAfterRun ==
  ASSUME NEW f \in 0 .. MaxFails, NEW a \in 0 .. Interval,
         NEW s \in 0 .. RetryBase, a <= s \/ s = RetryBase
  PROVE  AfterRun(f, a) + s >= RetryBase
<1>1. CASE f > 0
  <2>1. RetryIn(f) \in RetryBase .. RetryMax
    BY <1>1, RetryInBounds
  <2>2. QED
    BY <1>1, <2>1, DelaysAssumption DEF AfterRun
<1>2. CASE f = 0
  <2>1. DueIn(a) + s >= RetryBase
    BY AnsweredDue
  <2>2. QED
    BY <1>2, <2>1 DEF AfterRun
<1>3. QED
  BY <1>1, <1>2

(* Every step keeps it so, until SetupArm.                                 *)
LEMMA NewStep ==
  ASSUME DataTypeOK, FlagTypeOK, RefInv, NewInv, Next
  PROVE  NewInv'
<1>1. CASE \E g \in Loads : SetupBegin(g)
  BY <1>1 DEF DataTypeOK, FlagTypeOK, NewInv, otherVars, SetupBegin,
     Unreferenced
<1>2. CASE SetupLoad
  BY <1>2 DEF NewInv, closureVars, otherVars, SetupLoad
<1>3. CASE SetupArm
  BY <1>3 DEF NewInv, dataVars, otherVars, histVars, SetupArm
<1>4. CASE SetupDone
  BY <1>4 DEF NewInv, dataVars, otherVars, histVars, SetupDone
<1>5. CASE SetupFails
  BY <1>5 DEF NewInv, dataVars, histVars, SetupFails, Teardown
<1>6. CASE Unload
  BY <1>6 DEF NewInv, dataVars, histVars, Unload, Teardown
<1>7. CASE Restart
  BY <1>7 DEF NewInv, Restart
<1>8. CASE \E g \in Loads : FireOrphan(g)
  BY <1>8 DEF NewInv, entryVars, dataVars, otherVars, histVars, FireOrphan,
     Schedule
<1>9. CASE \E g \in Loads : FireSkips(g)
  BY <1>9, LoadsAssumption DEF NewInv, entryVars, dataVars, otherVars,
     histVars, FireSkips, Fires, Schedule
<1>10. CASE \E g \in Loads : FireSyncs(g)
  BY <1>10, LoadsAssumption DEF NewInv, entryVars, dataVars, otherVars,
     histVars, FireSyncs, Fires, Schedule
<1>11. CASE \E g \in Loads : RunWrites(g)
  BY <1>11 DEF NewInv, entryVars, otherVars, RunWrites
<1>12. CASE \E g \in Loads : RunSaves(g)
  BY <1>12 DEF NewInv, entryVars, dataVars, otherVars, RunSaves
<1>13. CASE \E g \in Loads : RunEnds(g)
  BY <1>13 DEF NewInv, entryVars, dataVars, otherVars, histVars, RunEnds,
     Schedule
<1>14. CASE \E g \in Loads : RunFails(g)
  BY <1>14 DEF NewInv, entryVars, otherVars, RunFails, Schedule
<1>15. CASE ManualStart
  BY <1>15 DEF NewInv, entryVars, dataVars, histVars, ManualStart
<1>16. CASE ManualWrites
  BY <1>16 DEF NewInv, entryVars, closureVars, ManualWrites
<1>17. CASE ManualFails
  BY <1>17 DEF NewInv, entryVars, closureVars, dataVars, histVars,
     ManualFails
<1>18. CASE ManualSaves
  BY <1>18 DEF DataTypeOK, RefInv, NewInv, entryVars, dataVars, ManualSaves,
     AfterSync, Save, Schedule
<1>19. CASE ManualCancelled
  BY <1>19 DEF NewInv, entryVars, closureVars, dataVars, ManualCancelled
<1>20. CASE PollStart
  BY <1>20 DEF NewInv, entryVars, closureVars, dataVars, histVars, PollStart
<1>21. CASE PollReads
  BY <1>21 DEF NewInv, entryVars, closureVars, PollReads
<1>22. CASE PollWrites
  BY <1>22 DEF NewInv, entryVars, closureVars, PollWrites
<1>23. CASE PollSaves
  BY <1>23 DEF NewInv, entryVars, dataVars, PollSaves, AfterSync, Save
<1>24. CASE \E g \in Loads : OtherSaves(g)
  BY <1>24 DEF NewInv, entryVars, closureVars, dataVars, otherVars,
     OtherSaves
<1>25. CASE \E g \in Loads : OtherEnds(g)
  BY <1>25 DEF NewInv, entryVars, closureVars, dataVars, histVars, OtherEnds
<1>26. CASE Tick
  BY <1>26, LoadsAssumption DEF DataTypeOK, RefInv, NewInv, entryVars,
     otherVars, Tick, Older, Collected
<1>27. QED
  BY <1>1, <1>2, <1>3, <1>4, <1>5, <1>6, <1>7, <1>8, <1>9, <1>10, <1>11,
     <1>12, <1>13, <1>14, <1>15, <1>16, <1>17, <1>18, <1>19, <1>20, <1>21,
     <1>22, <1>23, <1>24, <1>25, <1>26 DEF Next, Closure, Entry, Manual, Poll, Other

(* No step lets the timer of the loaded entry fire before the delay.       *)
LEMMA BackoffStep ==
  ASSUME DataTypeOK, RefInv, NewInv, BackoffInv, Next
  PROVE  BackoffInv'
<1>1. CASE \E g \in Loads : SetupBegin(g)
  BY <1>1, LoadsAssumption DEF DataTypeOK, BackoffInv, Answered, otherVars,
     SetupBegin, Unreferenced
<1>2. CASE SetupLoad
  BY <1>2 DEF BackoffInv, Answered, closureVars, otherVars, SetupLoad,
     NewInv
<1>3. CASE SetupArm
  BY <1>3 DEF DataTypeOK, BackoffInv, Answered, dataVars, otherVars,
     histVars, SetupArm, NewInv
<1>4. CASE SetupDone
  BY <1>4 DEF BackoffInv, Answered, ManualTarget, closureVars, dataVars,
     otherVars, histVars, SetupDone
<1>5. CASE SetupFails
  BY <1>5, LoadsAssumption DEF BackoffInv, Answered, ManualTarget, dataVars,
     histVars, SetupFails, Teardown, Schedule
<1>6. CASE Unload
  BY <1>6, LoadsAssumption DEF BackoffInv, dataVars, histVars, Unload,
     Teardown
<1>7. CASE Restart
  BY <1>7, LoadsAssumption DEF BackoffInv, Restart
<1>8. CASE \E g \in Loads : FireOrphan(g)
  BY <1>8, LoadsAssumption DEF BackoffInv, entryVars, dataVars, otherVars,
     histVars, FireOrphan
<1>9. CASE \E g \in Loads : FireSkips(g)
  BY <1>9, DelaysAssumption DEF DataTypeOK, BackoffInv, Answered,
     ManualTarget, entryVars, dataVars, otherVars, histVars, FireSkips,
     Fires, Schedule
<1>10. CASE \E g \in Loads : FireSyncs(g)
  BY <1>10, LoadsAssumption DEF DataTypeOK, BackoffInv, Answered,
     ManualTarget, entryVars, dataVars, otherVars, histVars, FireSyncs,
     Schedule
<1>11. CASE \E g \in Loads : RunWrites(g)
  BY <1>11 DEF DataTypeOK, BackoffInv, Answered, ManualTarget, entryVars,
     otherVars, RunWrites, NoteSync
<1>12. CASE \E g \in Loads : RunSaves(g)
  BY <1>12 DEF BackoffInv, Answered, ManualTarget, entryVars, dataVars,
     otherVars, RunSaves
<1>13. CASE \E g \in Loads : RunEnds(g)
  <2>1. PICK g \in Loads : RunEnds(g)
    BY <1>13
  <2>2. /\ timer' = [timer EXCEPT ![g] = AfterRun(fails[g], age[g])]
        /\ run' = [run EXCEPT ![g] = "none"]
        /\ target' = [target EXCEPT ![g] = None]
        /\ run[g] = "saved"
        /\ UNCHANGED <<current, age, manual, manualOn, poll, sinceFail>>
    BY <2>1 DEF RunEnds, Schedule, entryVars, dataVars, otherVars, histVars
  <2>3. CASE g = current
    <3>1. age[g] <= sinceFail[g] \/ sinceFail[g] = RetryBase
      BY <2>2, <2>3 DEF BackoffInv, Answered
    <3>2. AfterRun(fails[g], age[g]) + sinceFail[g] >= RetryBase
      BY <3>1, AnsweredAfterRun DEF DataTypeOK
    <3>3. QED
      BY <2>2, <2>3, <3>2 DEF DataTypeOK, BackoffInv, Answered
  <2>4. CASE g # current
    BY <2>2, <2>4 DEF BackoffInv, Answered, ManualTarget
  <2>5. QED
    BY <2>3, <2>4
<1>14. CASE \E g \in Loads : RunFails(g)
  <2>1. PICK g \in Loads : RunFails(g)
    BY <1>14
  <2>2. /\ timer' = [timer EXCEPT ![g] = AfterRun(fails'[g], age[g])]
        /\ run' = [run EXCEPT ![g] = "none"]
        /\ target' = [target EXCEPT ![g] = None]
        /\ sinceFail' = [sinceFail EXCEPT ![g] = 0]
        /\ fails' = [fails EXCEPT ![target[g]] = OneMore(fails[target[g]])]
        /\ run[g] = "syncing" /\ manual # "written" /\ poll # "written"
        /\ UNCHANGED <<current, age, manual, manualOn, poll>>
    BY <2>1 DEF RunFails, SessionFree, Schedule, entryVars, otherVars
  <2>3. CASE g = current
    <3>1. target[g] = g
      BY <2>2, <2>3 DEF BackoffInv
    <3>2. fails'[g] \in 1 .. MaxFails
      BY <2>2, <3>1, FailsAssumption DEF DataTypeOK, OneMore
    <3>3. AfterRun(fails'[g], age[g]) \in RetryBase .. RetryMax
      BY <3>2, RetryInBounds DEF AfterRun
    <3>4. QED
      BY <2>2, <2>3, <3>3 DEF DataTypeOK, BackoffInv
  <2>4. CASE g # current
    BY <2>2, <2>4 DEF BackoffInv, Answered
  <2>5. QED
    BY <2>3, <2>4
<1>15. CASE ManualStart
  BY <1>15 DEF BackoffInv, Answered, entryVars, closureVars, dataVars,
     histVars, ManualStart
<1>16. CASE ManualWrites
  BY <1>16 DEF DataTypeOK, BackoffInv, Answered, ManualTarget, entryVars,
     closureVars, ManualWrites, NoteSync
<1>17. CASE ManualFails
  BY <1>17 DEF BackoffInv, Answered, entryVars, closureVars, dataVars,
     histVars, ManualFails
<1>18. CASE ManualSaves
  <2> DEFINE t == ManualTarget
  <2>1. /\ t \in Loads
        /\ manual = "written" /\ manual' = "none"
        /\ \/ timer' = [timer EXCEPT ![t] = DueIn(age[t])]
           \/ timer' = timer
        /\ UNCHANGED <<current, run, target, age, poll, sinceFail>>
    BY <1>18 DEF DataTypeOK, ManualSaves, AfterSync, Schedule, ManualTarget,
       entryVars, dataVars
  <2>2. CASE t = current
    <3>1. age[t] <= sinceFail[t] \/ sinceFail[t] = RetryBase
      BY <2>1, <2>2 DEF BackoffInv, Answered
    <3>2. DueIn(age[t]) + sinceFail[t] >= RetryBase
      BY <2>1, <3>1, AnsweredDue DEF DataTypeOK
    <3>3. QED
      BY <2>1, <2>2, <3>2 DEF DataTypeOK, BackoffInv, Answered
  <2>3. CASE t # current
    BY <2>1, <2>3 DEF DataTypeOK, BackoffInv, Answered
  <2>4. QED
    BY <2>2, <2>3
<1>19. CASE ManualCancelled
  BY <1>19 DEF BackoffInv, Answered, entryVars, closureVars, dataVars,
     ManualCancelled
<1>20. CASE PollStart
  BY <1>20 DEF BackoffInv, Answered, ManualTarget, entryVars, closureVars,
     dataVars, histVars, PollStart
<1>21. CASE PollReads
  BY <1>21 DEF BackoffInv, Answered, ManualTarget, entryVars, closureVars,
     PollReads
<1>22. CASE PollWrites
  BY <1>22 DEF DataTypeOK, BackoffInv, Answered, entryVars, closureVars,
     PollWrites, NoteSync
<1>23. CASE PollSaves
  <2>1. /\ current \in Loads
        /\ poll = "written" /\ poll' = "none"
        /\ \/ timer' = [timer EXCEPT ![current] = DueIn(age[current])]
           \/ timer' = timer
        /\ UNCHANGED <<current, run, target, age, manual, manualOn, sinceFail>>
    BY <1>23 DEF RefInv, Running, PollSaves, AfterSync, Schedule, entryVars,
       dataVars
  <2>2. age[current] <= sinceFail[current] \/ sinceFail[current] = RetryBase
    BY <2>1 DEF BackoffInv, Answered
  <2>3. DueIn(age[current]) + sinceFail[current] >= RetryBase
    BY <2>1, <2>2, AnsweredDue DEF DataTypeOK
  <2>4. QED
    BY <2>1, <2>3 DEF DataTypeOK, BackoffInv, Answered
<1>24. CASE \E g \in Loads : OtherSaves(g)
  BY <1>24 DEF BackoffInv, Answered, ManualTarget, entryVars, closureVars,
     dataVars, otherVars, OtherSaves
<1>25. CASE \E g \in Loads : OtherEnds(g)
  BY <1>25 DEF BackoffInv, Answered, ManualTarget, entryVars, closureVars,
     dataVars, histVars, OtherEnds
<1>26. CASE Tick
  BY <1>26, DelaysAssumption DEF DataTypeOK, BackoffInv, Answered,
     ManualTarget, entryVars, otherVars, Tick, Older, Collected
<1>27. QED
  BY <1>1, <1>2, <1>3, <1>4, <1>5, <1>6, <1>7, <1>8, <1>9, <1>10, <1>11,
     <1>12, <1>13, <1>14, <1>15, <1>16, <1>17, <1>18, <1>19, <1>20, <1>21,
     <1>22, <1>23, <1>24, <1>25, <1>26 DEF Next, Closure, Entry, Manual, Poll, Other

-----------------------------------------------------------------------------
(* The store.                                                              *)

(* From the write to its save, and at most one sync is there at a time.    *)
OneWriter ==
    /\ \A g, h \in Loads : run[g] = "written" /\ run[h] = "written" => g = h
    /\ \A g \in Loads :
          run[g] = "written" => manual # "written" /\ poll # "written"
    /\ ~ (manual = "written" /\ poll = "written")

(* The sync now between its write and its save is one of the coordinator.  *)
Pending(g) ==
    \/ \E h \in Loads : run[h] = "written" /\ target[h] = g
    \/ manual = "written" /\ ManualTarget = g
    \/ poll = "written" /\ current = g

(* What a sync is about to save is no older than what is there.            *)
Newest(g) ==
    /\ age[g] <= stored.age
    /\ current \in Loads => age[g] <= age[current]

StoreInv ==
    /\ phase # "down" /\ ~ Pending(current) =>
          unsaved \/ stored.age <= age[current]
    /\ \A h \in Loads : run[h] = "written" => Newest(target[h])
    /\ manual = "written" /\ manualOn \in Loads => Newest(manualOn)

(* SessionFree keeps a second sync out.                                    *)
LEMMA OneWriterStep ==
  ASSUME DataTypeOK, OneWriter, Next
  PROVE  OneWriter'
<1>1. CASE \E g \in Loads : SetupBegin(g)
  BY <1>1 DEF OneWriter, SetupBegin, otherVars
<1>2. CASE SetupLoad
  BY <1>2 DEF OneWriter, SetupLoad, otherVars, closureVars
<1>3. CASE SetupArm
  BY <1>3 DEF OneWriter, SetupArm, otherVars
<1>4. CASE SetupDone
  BY <1>4 DEF OneWriter, SetupDone, otherVars, closureVars
<1>5. CASE SetupFails
  BY <1>5 DEF OneWriter, SetupFails
<1>6. CASE Unload
  BY <1>6 DEF OneWriter, Unload
<1>7. CASE Restart
  BY <1>7 DEF OneWriter, Restart
<1>8. CASE \E g \in Loads : FireOrphan(g)
  BY <1>8 DEF OneWriter, FireOrphan, otherVars
<1>9. CASE \E g \in Loads : FireSkips(g)
  BY <1>9 DEF OneWriter, FireSkips, otherVars
<1>10. CASE \E g \in Loads : FireSyncs(g)
  BY <1>10 DEF OneWriter, FireSyncs, otherVars
<1>11. CASE \E g \in Loads : RunWrites(g)
  BY <1>11 DEF OneWriter, RunWrites, SessionFree, otherVars
<1>12. CASE \E g \in Loads : RunSaves(g)
  BY <1>12 DEF OneWriter, RunSaves, otherVars
<1>13. CASE \E g \in Loads : RunEnds(g)
  BY <1>13 DEF OneWriter, RunEnds, otherVars
<1>14. CASE \E g \in Loads : RunFails(g)
  BY <1>14 DEF OneWriter, RunFails, otherVars
<1>15. CASE ManualStart
  BY <1>15 DEF OneWriter, ManualStart, closureVars
<1>16. CASE ManualWrites
  BY <1>16 DEF OneWriter, ManualWrites, SessionFree, closureVars
<1>17. CASE ManualFails
  BY <1>17 DEF OneWriter, ManualFails, closureVars
<1>18. CASE ManualSaves
  BY <1>18 DEF OneWriter, ManualSaves
<1>19. CASE ManualCancelled
  BY <1>19 DEF OneWriter, ManualCancelled, closureVars
<1>20. CASE PollStart
  BY <1>20 DEF OneWriter, PollStart, closureVars
<1>21. CASE PollReads
  BY <1>21 DEF OneWriter, PollReads, closureVars
<1>22. CASE PollWrites
  BY <1>22 DEF OneWriter, PollWrites, SessionFree, closureVars
<1>23. CASE PollSaves
  BY <1>23 DEF OneWriter, PollSaves
<1>24. CASE \E g \in Loads : OtherSaves(g)
  BY <1>24 DEF OneWriter, OtherSaves, closureVars, otherVars
<1>25. CASE \E g \in Loads : OtherEnds(g)
  BY <1>25 DEF OneWriter, OtherEnds, histVars, closureVars, otherVars
<1>26. CASE Tick
  BY <1>26 DEF OneWriter, Tick, otherVars
<1>27. QED
  BY <1>1, <1>2, <1>3, <1>4, <1>5, <1>6, <1>7, <1>8, <1>9, <1>10, <1>11,
     <1>12, <1>13, <1>14, <1>15, <1>16, <1>17, <1>18, <1>19, <1>20, <1>21,
     <1>22, <1>23, <1>24, <1>25, <1>26 DEF Next, Closure, Entry, Manual, Poll, Other

(* What async_save_persisted may do to the store.                          *)
LEMMA Saved ==
  ASSUME FlagTypeOK, NEW g \in Loads, Save(g)
  PROVE  /\ stored'.age = age[g] \/ stored' = stored
         /\ g # current => unsaved' = unsaved
         /\ g = current => unsaved' \/ stored'.age = age[g]
<1>1. unsaved \in BOOLEAN
  BY DEF FlagTypeOK
<1>2. \/ stored' = Record(g) /\ unsaved' = (g # current /\ unsaved)
      \/ stored' = stored /\ unsaved' = (g = current \/ unsaved)
  BY DEF Save
<1>3. Record(g).age = age[g]
  BY DEF Record
<1>4. CASE g = current
  <2>1. unsaved' \/ stored' = Record(g)
    BY <1>2, <1>4, Zenon
  <2>2. QED
    BY <1>2, <1>3, <1>4, <2>1
<1>5. CASE g # current
  <2>1. unsaved' = unsaved
    BY <1>1, <1>2, <1>5
  <2>2. QED
    BY <1>2, <1>3, <1>5, <2>1
<1>6. QED
  BY <1>4, <1>5

(* A save of the loaded coordinator leaves the store as recent as it is;   *)
(* one of another, of the latest sync there is, takes nothing from it.     *)
LEMMA SaveStore ==
  ASSUME DataTypeOK, FlagTypeOK, NEW g \in Loads, Save(g), age' = age,
         current' = current, current \in Loads, age[g] <= age[current],
         g # current => unsaved \/ stored.age <= age[current]
  PROVE  unsaved' \/ stored'.age <= age'[current']
<1>1. age[g] \in Nat /\ age[current] \in Nat
  BY DelaysAssumption DEF DataTypeOK
<1>2. CASE g = current
  BY <1>1, <1>2, Saved
<1>3. CASE g # current
  BY <1>1, <1>3, Saved
<1>4. QED
  BY <1>2, <1>3

(* No save replaces what the loaded coordinator knows by something older.  *)
LEMMA StoreStep ==
  ASSUME DataTypeOK, FlagTypeOK, RefInv, OneWriter, StoreInv, Next
  PROVE  StoreInv'
<1>1. CASE \E g \in Loads : SetupBegin(g)
  BY <1>1 DEF DataTypeOK, RefInv, StoreInv, Newest, Pending, otherVars,
     SetupBegin, Unreferenced
<1>2. CASE SetupLoad
  <2>1. current \in Loads /\ current' = current
    BY <1>2 DEF RefInv, SetupLoad
  <2>2. \/ age' = [age EXCEPT ![current] = stored.age]
        \/ age' = age /\ unsaved' = unsaved
    BY <1>2 DEF SetupLoad
  <2>3. /\ age \in [Loads -> 0 .. Interval] /\ stored.age \in 0 .. Interval
        /\ stored' = stored
    BY <1>2 DEF DataTypeOK, SetupLoad
  <2>4. \A x \in Loads : Newest(x) => Newest(x)'
    BY <2>1, <2>2, <2>3, DelaysAssumption DEF Newest
  <2>5. \A h \in Loads : run[h] = "written" => target[h] \in Loads
    BY DEF RefInv
  <2>6. phase = "loading" /\ UNCHANGED <<run, target, manual, manualOn, poll>>
    BY <1>2 DEF SetupLoad, closureVars, otherVars
  <2>7. Pending(current)' <=> Pending(current)
    BY <2>1, <2>6 DEF Pending, ManualTarget
  <2>8. ~ Pending(current) => unsaved' \/ stored'.age <= age'[current]
    <3>1. CASE age' = [age EXCEPT ![current] = stored.age]
      BY <2>1, <2>3, <3>1
    <3>2. CASE age' = age /\ unsaved' = unsaved
      BY <2>3, <2>6, <3>2 DEF StoreInv
    <3>3. QED
      BY <2>2, <3>1, <3>2
  <2>9. QED
    BY <2>1, <2>4, <2>5, <2>6, <2>7, <2>8 DEF StoreInv
<1>3. CASE SetupArm
  BY <1>3 DEF StoreInv, Newest, Pending, ManualTarget, dataVars, otherVars,
     histVars, SetupArm
<1>4. CASE SetupDone
  BY <1>4 DEF StoreInv, Newest, Pending, ManualTarget, Running, closureVars,
     dataVars, otherVars, histVars, SetupDone
<1>5. CASE SetupFails
  BY <1>5 DEF StoreInv, Newest, Pending, Running, dataVars, histVars,
     SetupFails
<1>6. CASE Unload
  BY <1>6, LoadsAssumption DEF StoreInv, Newest, Pending, Running, dataVars,
     histVars, Unload
<1>7. CASE Restart
  BY <1>7 DEF StoreInv, Newest, Pending, Running, Restart
<1>8. CASE \E g \in Loads : FireOrphan(g)
  BY <1>8 DEF StoreInv, Newest, Pending, ManualTarget, entryVars, dataVars,
     otherVars, histVars, FireOrphan
<1>9. CASE \E g \in Loads : FireSkips(g)
  BY <1>9 DEF StoreInv, Newest, Pending, ManualTarget, entryVars, dataVars,
     otherVars, histVars, FireSkips
<1>10. CASE \E g \in Loads : FireSyncs(g)
  <2>1. PICK g \in Loads : FireSyncs(g)
    BY <1>10
  <2>2. /\ run[g] = "none"
        /\ run' = [run EXCEPT ![g] = "syncing"]
        /\ target' = [target EXCEPT ![g] = current]
        /\ UNCHANGED <<phase, current, age, manual, manualOn, poll, stored,
                       unsaved>>
    BY <2>1 DEF FireSyncs, Fires, entryVars, dataVars, otherVars, histVars
  <2>3. \A h \in Loads : run'[h] = "written" =>
          run[h] = "written" /\ target'[h] = target[h]
    BY <2>2
  <2>4. Pending(current) => Pending(current)'
    BY <2>2 DEF Pending, ManualTarget
  <2>5. QED
    BY <2>2, <2>3, <2>4 DEF StoreInv, Newest
<1>11. CASE \E g \in Loads : RunWrites(g)
  BY <1>11 DEF DataTypeOK, RefInv, StoreInv, Newest, Pending, entryVars,
     otherVars, RunWrites, NoteSync, SessionFree
<1>12. CASE \E g \in Loads : RunSaves(g)
  <2>1. PICK g \in Loads : RunSaves(g)
    BY <1>12
  <2> DEFINE t == target[g]
  <2>2. /\ run[g] = "written" /\ t \in Loads /\ Newest(t) /\ Save(t)
        /\ run' = [run EXCEPT ![g] = "saved"]
        /\ UNCHANGED <<phase, current, age, target, manual, manualOn, poll>>
    BY <2>1 DEF RefInv, StoreInv, RunSaves, entryVars, dataVars, otherVars
  <2>3. /\ \A h \in Loads : run'[h] # "written"
        /\ manual # "written" /\ poll # "written"
    BY <2>2 DEF DataTypeOK, OneWriter
  <2>4. Pending(current) => t = current
    BY <2>2, <2>3 DEF OneWriter, Pending
  <2>5. phase # "down" => unsaved' \/ stored'.age <= age'[current']
    BY <2>2, <2>4, SaveStore DEF RefInv, StoreInv, Newest
  <2>6. QED
    BY <2>2, <2>3, <2>5 DEF StoreInv
<1>13. CASE \E g \in Loads : RunEnds(g)
  BY <1>13 DEF StoreInv, Newest, Pending, ManualTarget, entryVars, dataVars,
     otherVars, histVars, RunEnds
<1>14. CASE \E g \in Loads : RunFails(g)
  BY <1>14 DEF StoreInv, Newest, Pending, ManualTarget, entryVars, otherVars,
     RunFails
<1>15. CASE ManualStart
  BY <1>15 DEF StoreInv, Newest, Pending, entryVars, closureVars, dataVars,
     histVars, ManualStart
<1>16. CASE ManualWrites
  BY <1>16, LoadsAssumption DEF DataTypeOK, StoreInv, Newest, Pending,
     ManualTarget, entryVars, closureVars, ManualWrites, NoteSync,
     SessionFree
<1>17. CASE ManualFails
  BY <1>17, LoadsAssumption DEF RefInv, StoreInv, Newest, Pending, Running,
     entryVars, closureVars, dataVars, histVars, ManualFails
<1>18. CASE ManualSaves
  <2> DEFINE t == ManualTarget
  <2>1. /\ manual = "written" /\ manual' = "none" /\ t # None /\ Save(t)
        /\ UNCHANGED <<phase, current, age, run, target, poll>>
    BY <1>18 DEF ManualSaves, AfterSync, entryVars, dataVars
  <2>2. /\ \A h \in Loads : run'[h] # "written"
        /\ poll # "written"
    BY <2>1 DEF OneWriter
  <2>3. t \in Loads /\ (t = current \/ Newest(t))
    BY <2>1 DEF DataTypeOK, StoreInv, ManualTarget
  <2>4. Pending(current) => t = current
    BY <2>1, <2>2 DEF Pending
  <2>5. phase # "down" => unsaved' \/ stored'.age <= age'[current']
    <3>1. ASSUME phase # "down"
          PROVE  current \in Loads /\ age[t] <= age[current]
      BY <3>1, <2>3, DelaysAssumption DEF DataTypeOK, RefInv, Newest
    <3>2. QED
      BY <2>1, <2>3, <2>4, <3>1, SaveStore DEF StoreInv
  <2>6. QED
    BY <2>1, <2>2, <2>5 DEF StoreInv
<1>19. CASE ManualCancelled
  BY <1>19 DEF DataTypeOK, FlagTypeOK, StoreInv, Newest, Pending, entryVars,
     closureVars, dataVars, ManualCancelled
<1>20. CASE PollStart
  BY <1>20 DEF StoreInv, Newest, Pending, ManualTarget, entryVars,
     closureVars, dataVars, histVars, PollStart
<1>21. CASE PollReads
  BY <1>21 DEF StoreInv, Newest, Pending, ManualTarget, entryVars,
     closureVars, PollReads
<1>22. CASE PollWrites
  BY <1>22 DEF StoreInv, Newest, Pending, entryVars, closureVars, PollWrites,
     NoteSync, SessionFree
<1>23. CASE PollSaves
  <2>1. /\ poll = "written" /\ poll' = "none" /\ current \in Loads
        /\ Save(current)
        /\ UNCHANGED <<phase, current, age, run, target, manual, manualOn>>
    BY <1>23 DEF RefInv, Running, PollSaves, AfterSync, entryVars, dataVars
  <2>2. /\ \A h \in Loads : run'[h] # "written"
        /\ manual' # "written"
    BY <2>1 DEF OneWriter
  <2>3. unsaved' \/ stored'.age <= age'[current']
    BY <2>1, SaveStore, DelaysAssumption DEF DataTypeOK
  <2>4. QED
    BY <2>1, <2>2, <2>3 DEF StoreInv
<1>24. CASE \E g \in Loads : OtherSaves(g)
  <2>1. PICK g \in Loads : OtherSaves(g)
    BY <1>24
  <2>2. /\ SessionFree /\ stored'.age = age[g]
        /\ unsaved' = (g # current /\ (unsaved \/ Outdated(g)))
        /\ UNCHANGED <<phase, current, age, run, target, manual, manualOn,
                       poll>>
    BY <2>1 DEF OtherSaves, Record, entryVars, closureVars, dataVars,
       otherVars
  <2>3. phase # "down" => unsaved' \/ stored'.age <= age'[current']
    <3>1. CASE g = current
      BY <2>2, <3>1, DelaysAssumption DEF DataTypeOK
    <3>2. CASE g # current /\ Outdated(g)
      BY <2>2, <3>2
    <3>3. CASE g # current /\ ~ Outdated(g)
      <4>1. phase # "down" => current \in Loads
        BY DEF RefInv
      <4>2. \A h \in Loads : age[h] \in Nat
        BY DelaysAssumption DEF DataTypeOK
      <4>3. phase # "down" => age[g] <= age[current]
        BY <4>1, <4>2, <3>3, LoadsAssumption DEF Outdated
      <4>4. QED
        BY <2>2, <4>3
    <3>4. QED
      BY <3>1, <3>2, <3>3
  <2>4. QED
    BY <2>2, <2>3 DEF StoreInv, SessionFree
<1>25. CASE \E g \in Loads : OtherEnds(g)
  BY <1>25 DEF StoreInv, Newest, Pending, ManualTarget, entryVars,
     closureVars, dataVars, histVars, OtherEnds
<1>26. CASE Tick
  BY <1>26, DelaysAssumption DEF DataTypeOK, RefInv, StoreInv, Newest,
     Pending, ManualTarget, Running, entryVars, otherVars, Tick, Older,
     Collected, Dead, Unreferenced
<1>27. QED
  BY <1>1, <1>2, <1>3, <1>4, <1>5, <1>6, <1>7, <1>8, <1>9, <1>10, <1>11,
     <1>12, <1>13, <1>14, <1>15, <1>16, <1>17, <1>18, <1>19, <1>20, <1>21,
     <1>22, <1>23, <1>24, <1>25, <1>26 DEF Next, Closure, Entry, Manual, Poll, Other

-----------------------------------------------------------------------------
(* The inductive invariant.                                                *)

IInv ==
    /\ TypeOK
    /\ RefInv
    /\ NeverUnscheduled
    /\ GoodInv
    /\ LateInv
    /\ NewInv
    /\ BackoffInv
    /\ OneWriter
    /\ StoreInv

(* Home Assistant starts with the entry down and nobody at work.           *)
LEMMA InitInv == Init => IInv
<1> SUFFICES ASSUME Init
             PROVE  IInv
  OBVIOUS
<1>1. DataTypeOK
  BY DelaysAssumption, FailsAssumption DEF Init, DataTypeOK, Blank, Stale,
     Unknown
<1>2. FlagTypeOK
  BY DEF Init, FlagTypeOK
<1>3. RefInv /\ NeverUnscheduled /\ NewInv /\ OneWriter
  BY DEF Init, RefInv, NeverUnscheduled, NewInv, OneWriter, Running
<1>4. GoodInv
  BY DelaysAssumption DEF Init, GoodInv, Blank, Stale
<1>5. LateInv /\ BackoffInv
  BY LoadsAssumption, DelaysAssumption DEF Init, LateInv, BackoffInv
<1>6. StoreInv
  BY DEF Init, StoreInv, Running
<1>7. QED
  BY <1>1, <1>2, <1>3, <1>4, <1>5, <1>6 DEF IInv, TypeOK

(* Every step keeps it.                                                    *)
LEMMA NextInv == IInv /\ [Next]_vars => IInv'
<1> SUFFICES ASSUME IInv, [Next]_vars
             PROVE  IInv'
  OBVIOUS
<1>1. CASE Next
  <2>1. DataTypeOK' /\ FlagTypeOK' /\ RefInv'
    BY <1>1, TypeStep, FlagStep DEF IInv, TypeOK
  <2>2. NeverUnscheduled'
    BY <1>1, ScheduledStep DEF IInv, TypeOK
  <2>3. GoodInv' /\ LateInv'
    BY <1>1, GoodStep, LateStep DEF IInv, TypeOK
  <2>4. NewInv' /\ BackoffInv'
    BY <1>1, NewStep, BackoffStep DEF IInv, TypeOK
  <2>5. OneWriter' /\ StoreInv'
    BY <1>1, OneWriterStep, StoreStep DEF IInv, TypeOK
  <2>6. QED
    BY <2>1, <2>2, <2>3, <2>4, <2>5 DEF IInv, TypeOK
<1>2. CASE UNCHANGED vars
  <2>1. TypeOK' /\ RefInv' /\ NeverUnscheduled'
    BY <1>2 DEF IInv, TypeOK, DataTypeOK, FlagTypeOK, RefInv,
       NeverUnscheduled, vars
  <2>2. GoodInv' /\ LateInv' /\ NewInv'
    BY <1>2 DEF IInv, GoodInv, LateInv, NewInv, vars
  <2>3. BackoffInv' /\ OneWriter' /\ StoreInv'
    BY <1>2 DEF IInv, BackoffInv, Answered, OneWriter, StoreInv, Pending,
       Newest, ManualTarget, vars
  <2>4. QED
    BY <2>1, <2>2, <2>3 DEF IInv
<1>3. QED
  BY <1>1, <1>2

-----------------------------------------------------------------------------
(* The theorems.                                                           *)

(* Every state of a behaviour of the automatic sync satisfies the          *)
(* inductive invariant.                                                    *)
THEOREM Invariance == Spec => []IInv
  BY InitInv, NextInv, PTL DEF Spec

(* Every variable keeps its type: in particular every timer is set for at  *)
(* most one interval, the backoff included, and counters do not run away.  *)
THEOREM TypeCorrect == Spec => []TypeOK
<1>1. IInv => TypeOK
  BY DEF IInv
<1>2. QED
  BY Invariance, <1>1, PTL

(* _fire, _reschedule and the setup between them never leave a running     *)
(* entry with automatic sync enabled without a timer or a sync in flight.  *)
THEOREM Scheduled == Spec => []NeverUnscheduled
<1>1. IInv => NeverUnscheduled
  BY DEF IInv
<1>2. QED
  BY Invariance, <1>1, PTL

(* However often Home Assistant restarts, the timer of _async_setup_auto_  *)
(* sync is not set further than an interval after the clock was right.     *)
THEOREM OnTime == Spec => []NeverLate
<1>1. IInv => NeverLate
  BY DEF IInv, RefInv, LateInv, NeverLate, Running
<1>2. QED
  BY Invariance, <1>1, PTL

(* Outside a write and its save, the store holds a last_sync as recent as  *)
(* the loaded coordinator's, unless a save failed, a task was cancelled or *)
(* a read_state or units call of an earlier load saved its record over it. *)
THEOREM StoreRecent == Spec => []StoreNotBehind
<1>1. IInv => StoreNotBehind
  <2> SUFFICES ASSUME IInv, phase = "up", SessionFree, ~ unsaved
               PROVE  stored.age <= age[current]
    BY DEF StoreNotBehind
  <2>1. ~ Pending(current)
    BY DEF SessionFree, Pending
  <2>2. QED
    BY <2>1 DEF IInv, StoreInv, Running
<1>2. QED
  BY Invariance, <1>1, PTL

(* The only step that starts a sync finds the timer of its closure at zero. *)
LEMMA OnlyFireSyncs ==
  ASSUME DataTypeOK, BackoffInv, Next, NEW c \in Loads, c = current,
         run[c] = "none", run'[c] = "syncing"
  PROVE  sinceFail[c] >= RetryBase
<1>1. CASE \E g \in Loads : SetupBegin(g)
  BY <1>1 DEF SetupBegin
<1>2. CASE SetupLoad
  BY <1>2 DEF SetupLoad, closureVars
<1>3. CASE SetupArm
  BY <1>3 DEF SetupArm
<1>4. CASE SetupDone
  BY <1>4 DEF SetupDone, closureVars
<1>5. CASE SetupFails
  BY <1>5 DEF SetupFails
<1>6. CASE Unload
  BY <1>6 DEF Unload
<1>7. CASE Restart
  BY <1>7 DEF Restart
<1>8. CASE \E g \in Loads : FireOrphan(g)
  BY <1>8 DEF FireOrphan
<1>9. CASE \E g \in Loads : FireSkips(g)
  BY <1>9 DEF FireSkips
<1>10. CASE \E g \in Loads : FireSyncs(g)
  BY <1>10, DelaysAssumption DEF DataTypeOK, FireSyncs, Fires, BackoffInv
<1>11. CASE \E g \in Loads : RunWrites(g)
  BY <1>11 DEF RunWrites
<1>12. CASE \E g \in Loads : RunSaves(g)
  BY <1>12 DEF RunSaves
<1>13. CASE \E g \in Loads : RunEnds(g)
  BY <1>13 DEF RunEnds
<1>14. CASE \E g \in Loads : RunFails(g)
  BY <1>14 DEF RunFails
<1>15. CASE ManualStart
  BY <1>15 DEF ManualStart, closureVars
<1>16. CASE ManualWrites
  BY <1>16 DEF ManualWrites, closureVars
<1>17. CASE ManualFails
  BY <1>17 DEF ManualFails, closureVars
<1>18. CASE ManualSaves
  BY <1>18 DEF ManualSaves
<1>19. CASE ManualCancelled
  BY <1>19 DEF ManualCancelled, closureVars
<1>20. CASE PollStart
  BY <1>20 DEF PollStart, closureVars
<1>21. CASE PollReads
  BY <1>21 DEF PollReads, closureVars
<1>22. CASE PollWrites
  BY <1>22 DEF PollWrites, closureVars
<1>23. CASE PollSaves
  BY <1>23 DEF PollSaves
<1>24. CASE \E g \in Loads : OtherSaves(g)
  BY <1>24 DEF OtherSaves, closureVars
<1>25. CASE \E g \in Loads : OtherEnds(g)
  BY <1>25 DEF OtherEnds, histVars, closureVars
<1>26. CASE Tick
  BY <1>26 DEF Tick
<1>27. QED
  BY <1>1, <1>2, <1>3, <1>4, <1>5, <1>6, <1>7, <1>8, <1>9, <1>10, <1>11,
     <1>12, <1>13, <1>14, <1>15, <1>16, <1>17, <1>18, <1>19, <1>20, <1>21,
     <1>22, <1>23, <1>24, <1>25, <1>26 DEF Next, Closure, Entry, Manual, Poll, Other

(* The timer of a loaded entry starts no sync within the base retry delay  *)
(* of one it started that failed.                                          *)
THEOREM Backoff == Spec => BackoffRespected
<1> DEFINE Rested ==
             \A g \in Loads :
                g = current /\ run[g] = "none" /\ run'[g] = "syncing" =>
                    sinceFail[g] >= RetryBase
<1>1. IInv /\ [Next]_vars => [Rested]_vars
  BY OnlyFireSyncs DEF IInv, TypeOK
<1>2. QED
  BY Invariance, <1>1, PTL DEF Spec, BackoffRespected
=============================================================================
