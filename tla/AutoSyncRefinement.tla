------------------------- MODULE AutoSyncRefinement -------------------------
(***************************************************************************)
(* AutoSync implements Timetable, for any coordinators, options and delays *)
(* that satisfy its assumptions; the mapping and the invariants it needs   *)
(* are those of AutoSync and AutoSyncProofs.                               *)
(***************************************************************************)
EXTENDS AutoSyncProofs

-----------------------------------------------------------------------------
(* The mapping.                                                            *)

(* What the next state of the timetable is, before and after a step.       *)
LEMMA Mapped ==
  /\ Armed \in BOOLEAN /\ Armed' \in BOOLEAN
  /\ Armed => /\ Wait = timer[current]
              /\ Rest = RetryBase - sinceFail[current]
              /\ run[current] = "none" => Trying = "none"
              /\ run[current] = "syncing" => Trying = "under way"
              /\ run[current] \in {"written", "saved"} => Trying = "written"
  /\ ~ Armed => Wait = Off /\ Rest = 0 /\ Trying = "none"
  /\ Armed' => /\ Wait' = timer'[current']
               /\ Rest' = RetryBase - sinceFail'[current']
               /\ run'[current'] = "none" => Trying' = "none"
               /\ run'[current'] = "syncing" => Trying' = "under way"
               /\ run'[current'] \in {"written", "saved"} => Trying' = "written"
  /\ ~ Armed' => Wait' = Off /\ Rest' = 0 /\ Trying' = "none"
<1>1. Armed \in BOOLEAN /\ Armed' \in BOOLEAN
  BY DEF Armed
<1>2. QED
  BY <1>1 DEF Wait, Rest, Trying

(* An armed entry has a coordinator; its timer leaves a failed sync the    *)
(* base delay.                                                             *)
LEMMA ArmedFacts ==
  ASSUME IInv, Armed
  PROVE  /\ current \in Loads /\ current # None
         /\ age[current] \in 0 .. Interval /\ fails[current] \in 0 .. MaxFails
         /\ sinceFail[current] \in 0 .. RetryBase
         /\ timer[current] \in 0 .. Interval =>
               timer[current] + sinceFail[current] >= RetryBase
         /\ run[current] # "none" => target[current] = current
         /\ run[current] \in {"none", "syncing", "written", "saved"}
<1>1. current \in Loads
  BY DEF Armed, Running, IInv, RefInv
<1>2. QED
  BY <1>1, LoadsAssumption DEF IInv, TypeOK, DataTypeOK, BackoffInv

-----------------------------------------------------------------------------
(* What is planned.                                                        *)

(* An instant _due_at answers for a last sync is in time.                  *)
LEMMA DueInDue ==
  ASSUME IInv, NEW g \in Loads
  PROVE  Plan!Due(DueIn(age[g]))
<1>1. /\ age[g] \in 0 .. Interval /\ sinceGood \in Nat
      /\ age[g] < Interval => sinceGood <= age[g]
  BY DelaysAssumption DEF IInv, TypeOK, DataTypeOK, GoodInv, Unknown
<1>2. QED
  BY <1>1, DelaysAssumption DEF DueIn, Plan!Due

(* A counted failure is followed by a backoff.                             *)
LEMMA RetryInBackoff ==
  ASSUME NEW f \in 1 .. MaxFails
  PROVE  Plan!Backoff(RetryIn(f))
  BY RetryInBounds DEF Plan!Backoff

-----------------------------------------------------------------------------
(* The steps.                                                              *)

(* Steps that leave the closure of an armed entry alone, and arm none:     *)
(* the clock may be found right in them.                                   *)
LEMMA Kept ==
  ASSUME Armed' = Armed,
         Armed => /\ current' = current
                  /\ timer'[current] = timer[current]
                  /\ run'[current] = run[current]
                  /\ sinceFail'[current] = sinceFail[current],
         sinceGood' = sinceGood \/ sinceGood' = 0
  PROVE  Plan!Next \/ UNCHANGED Plan!vars
<1>1. Wait' = Wait /\ Trying' = Trying /\ Rest' = Rest
  BY DEF Wait, Trying, Rest
<1>2. QED
  BY <1>1 DEF Plan!Next, Plan!Right, Plan!vars

(* Loading and unloading.                                                  *)
LEMMA EntryImplements ==
  ASSUME IInv, Entry
  PROVE  Plan!Next \/ UNCHANGED Plan!vars
<1>1. CASE (\E g \in Loads : SetupBegin(g)) \/ SetupLoad
  <2>1. ~ Armed /\ ~ Armed' /\ sinceGood' = sinceGood
    BY <1>1 DEF Armed, Running, SetupBegin, SetupLoad
  <2>2. QED
    BY <2>1, Mapped, Kept
<1>2. CASE SetupArm
  <2>1. /\ ~ Armed /\ current' = current /\ current \in Loads
        /\ mode'[current] = options.auto
        /\ UNCHANGED <<run, sinceFail, sinceGood>>
    BY <1>2 DEF Armed, Running, SetupArm, IInv, RefInv, TypeOK, FlagTypeOK, histVars
  <2>2. run[current] = "none" /\ sinceFail[current] = RetryBase
    BY <1>2 DEF SetupArm, IInv, NewInv
  <2>3. CASE options.auto
    <3>1. Armed'
      BY <1>2, <2>1, <2>3 DEF SetupArm, Armed, Running
    <3>2. timer'[current] = DueIn(age[current])
      BY <1>2, <2>1, <2>3 DEF SetupArm, Schedule, IInv, TypeOK, DataTypeOK
    <3>3. /\ Wait' = DueIn(age[current])
          /\ Trying' = "none" /\ Trying = "none"
          /\ Rest' = 0 /\ Rest = 0
      BY <2>1, <2>2, <3>1, <3>2, Mapped, DelaysAssumption
    <3>4. Plan!Arm
      BY <2>1, <3>1, <3>3, DueInDue DEF Plan!Arm
    <3>5. QED
      BY <3>4 DEF Plan!Next
  <2>4. CASE ~ options.auto
    <3>1. ~ Armed'
      BY <2>1, <2>4 DEF Armed
    <3>2. QED
      BY <2>1, <3>1, Mapped, Kept
  <2>5. QED
    BY <2>3, <2>4
<1>3. CASE SetupDone
  <2>1. Armed' = Armed
    BY <1>3 DEF Armed, Running, SetupDone, closureVars
  <2>2. QED
    BY <1>3, <2>1, Kept DEF SetupDone, closureVars, histVars
<1>4. CASE SetupFails \/ Unload \/ Restart
  <2>1. ~ Armed' /\ sinceGood' = sinceGood
    BY <1>4 DEF Armed, Running, SetupFails, Unload, Restart, histVars
  <2>2. CASE Armed
    <3>1. Plan!Disarm
      BY <2>1, <2>2, Mapped DEF Plan!Disarm
    <3>2. QED
      BY <3>1 DEF Plan!Next
  <2>3. CASE ~ Armed
    BY <2>1, <2>3, Mapped, Kept
  <2>4. QED
    BY <2>2, <2>3
<1>5. QED
  BY <1>1, <1>2, <1>3, <1>4 DEF Entry

(* The timer of a closure fires: of the current one, or of one left over.  *)
LEMMA FireImplements ==
  ASSUME IInv, NEW g \in Loads, FireOrphan(g) \/ FireSkips(g) \/ FireSyncs(g)
  PROVE  Plan!Next \/ UNCHANGED Plan!vars
<1>1. /\ Armed' = Armed /\ current' = current
      /\ UNCHANGED <<sinceFail, sinceGood>>
  BY DEF FireOrphan, FireSkips, FireSyncs, entryVars, histVars, Armed
<1>2. \A h \in Loads \ {g} : timer'[h] = timer[h] /\ run'[h] = run[h]
  BY DEF FireOrphan, FireSkips, FireSyncs, Schedule, IInv, TypeOK, DataTypeOK
<1>3. CASE ~ (Armed /\ g = current)
  <2>1. Armed => timer'[current] = timer[current] /\ run'[current] = run[current]
    BY <1>2, <1>3, ArmedFacts
  <2>2. QED
    BY <1>1, <2>1, Kept
<1>4. CASE Armed /\ g = current
  <2>1. timer[g] = 0 /\ run[g] = "none" /\ Rest = 0 /\ Rest' = 0
    <3>1. timer[g] = 0 /\ run[g] = "none"
      BY DEF FireOrphan, FireSkips, FireSyncs, Fires
    <3>2. sinceFail[g] = RetryBase
      BY <1>4, <3>1, ArmedFacts, DelaysAssumption
    <3>3. Rest = RetryBase - sinceFail[g] /\ Rest' = RetryBase - sinceFail[g]
      BY <1>1, <1>4, Mapped
    <3>4. QED
      BY <3>1, <3>2, <3>3, DelaysAssumption
  <2>2. Wait = 0 /\ Trying = "none"
    BY <1>4, <2>1, Mapped
  <2>3. Wait' = timer'[g]
    BY <1>1, <1>4, Mapped
  <2>4. CASE FireOrphan(g)
    BY <1>4, <2>4, ArmedFacts DEF FireOrphan
  <2>5. CASE FireSkips(g)
    <3>1. Trying' = "none"
      BY <1>1, <1>4, <2>1, <2>5, Mapped DEF FireSkips
    <3>2. sinceGood <= FreshFor /\ sinceGood \in Nat
      <4>1. checked[g] <= FreshFor /\ checked[g] \in 0 .. Stale
        BY <1>4, <2>5 DEF FireSkips, RecentlyVerified, IInv, TypeOK, DataTypeOK
      <4>2. sinceGood <= checked[g] /\ sinceGood \in 0 .. Unknown
        BY <4>1 DEF IInv, GoodInv, TypeOK, DataTypeOK
      <4>3. QED
        BY <4>1, <4>2, DelaysAssumption DEF Stale, Unknown
    <3>3. Wait' = AfterSkip(fails[g])
      BY <2>3, <2>5 DEF FireSkips, Schedule, IInv, TypeOK, DataTypeOK
    <3>4. Plan!Due(Wait') \/ Plan!Backoff(Wait')
      <4>1. CASE fails[g] > 0
        BY <1>4, <3>3, <4>1, ArmedFacts, RetryInBackoff DEF AfterSkip
      <4>2. CASE ~ (fails[g] > 0)
        BY <3>2, <3>3, <4>2, DelaysAssumption DEF AfterSkip, Plan!Due
      <4>3. QED
        BY <4>1, <4>2
    <3>5. Plan!Skip
      BY <1>1, <2>1, <2>2, <3>1, <3>2, <3>4 DEF Plan!Skip
    <3>6. QED
      BY <3>5 DEF Plan!Next
  <2>6. CASE FireSyncs(g)
    <3>1. timer'[g] = Off /\ run'[g] = "syncing"
      BY <2>6 DEF FireSyncs, Schedule, IInv, TypeOK, DataTypeOK
    <3>2. Plan!Try
      BY <1>1, <1>4, <2>1, <2>2, <2>3, <3>1, Mapped DEF Plan!Try
    <3>3. QED
      BY <3>2 DEF Plan!Next
  <2>7. QED
    BY <2>4, <2>5, <2>6
<1>5. QED
  BY <1>3, <1>4

(* A sync by a timer, of the current closure or of one left over.          *)
LEMMA RunImplements ==
  ASSUME IInv, IInv', NEW g \in Loads,
         RunWrites(g) \/ RunSaves(g) \/ RunEnds(g) \/ RunFails(g)
  PROVE  Plan!Next \/ UNCHANGED Plan!vars
<1>1. Armed' = Armed /\ current' = current
  BY DEF RunWrites, RunSaves, RunEnds, RunFails, entryVars, Armed
<1>2. \A h \in Loads \ {g} :
         timer'[h] = timer[h] /\ run'[h] = run[h] /\ sinceFail'[h] = sinceFail[h]
  BY DEF RunWrites, RunSaves, RunEnds, RunFails, Schedule, histVars, IInv,
     TypeOK, DataTypeOK
<1>3. sinceGood' = sinceGood \/ sinceGood' = 0
  BY DEF RunWrites, RunSaves, RunEnds, RunFails, NoteSync, histVars
<1>4. CASE ~ (Armed /\ g = current)
  <2>1. Armed => /\ timer'[current] = timer[current]
                 /\ run'[current] = run[current]
                 /\ sinceFail'[current] = sinceFail[current]
    BY <1>2, <1>4, ArmedFacts
  <2>2. QED
    BY <1>1, <1>3, <2>1, Kept
<1>5. CASE Armed /\ g = current
  <2>1. /\ Wait' = timer'[g] /\ Wait = timer[g]
        /\ sinceFail'[g] = sinceFail[g] => Rest' = Rest
    BY <1>1, <1>5, Mapped
  <2>2. CASE RunWrites(g)
    <3>1. /\ run[g] = "syncing" /\ run'[g] = "written" /\ sinceGood' = 0
          /\ timer' = timer /\ sinceFail' = sinceFail
      BY <2>2 DEF RunWrites, NoteSync, IInv, TypeOK, DataTypeOK
    <3>2. Plan!Write
      BY <1>1, <1>5, <2>1, <3>1, Mapped DEF Plan!Write
    <3>3. QED
      BY <3>2 DEF Plan!Next
  <2>3. CASE RunSaves(g)
    <3>1. /\ run[g] = "written" /\ run'[g] = "saved"
          /\ UNCHANGED <<timer, sinceFail, sinceGood>>
      BY <2>3 DEF RunSaves, IInv, TypeOK, DataTypeOK
    <3>2. QED
      BY <1>1, <1>5, <2>1, <3>1, Mapped DEF Plan!vars
  <2>4. CASE RunEnds(g)
    <3>1. /\ run[g] = "saved" /\ run'[g] = "none"
          /\ timer'[g] = AfterRun(fails[g], age[g])
          /\ UNCHANGED <<sinceFail, sinceGood>>
      BY <2>4 DEF RunEnds, Schedule, histVars, IInv, TypeOK, DataTypeOK
    <3>2. Plan!Due(Wait') \/ Plan!Backoff(Wait')
      <4>1. CASE fails[g] > 0
        BY <1>5, <2>1, <3>1, <4>1, ArmedFacts, RetryInBackoff DEF AfterRun
      <4>2. CASE ~ (fails[g] > 0)
        BY <2>1, <3>1, <4>2, DueInDue DEF AfterRun
      <4>3. QED
        BY <4>1, <4>2
    <3>3. Wait' >= Rest
      <4>1. timer'[g] \in 0 .. Interval
        BY <1>5, <3>1, ArmedFacts, AfterRunBounds
      <4>2. timer'[g] + sinceFail'[g] >= RetryBase
        BY <1>1, <1>5, <4>1 DEF IInv, BackoffInv
      <4>3. Rest = RetryBase - sinceFail[g] /\ sinceFail[g] \in 0 .. RetryBase
        BY <1>5, Mapped, ArmedFacts
      <4>4. QED
        BY <2>1, <3>1, <4>1, <4>2, <4>3, DelaysAssumption
    <3>4. Plan!Done
      BY <1>1, <1>5, <2>1, <3>1, <3>2, <3>3, Mapped DEF Plan!Done
    <3>5. QED
      BY <3>4 DEF Plan!Next
  <2>5. CASE RunFails(g)
    <3>1. target[g] = g
      BY <1>5, <2>5, ArmedFacts DEF RunFails
    <3>2. /\ run[g] = "syncing" /\ run'[g] = "none"
          /\ fails'[g] = OneMore(fails[g])
          /\ timer'[g] = AfterRun(fails'[g], age[g])
          /\ sinceFail'[g] = 0 /\ sinceGood' = sinceGood
      BY <2>5, <3>1 DEF RunFails, Schedule, IInv, TypeOK, DataTypeOK
    <3>3. fails'[g] \in 1 .. MaxFails
      BY <1>5, <3>2, ArmedFacts, FailsAssumption DEF OneMore
    <3>4. Plan!Backoff(Wait')
      BY <2>1, <3>2, <3>3, RetryInBackoff DEF AfterRun
    <3>5. Rest' = RetryBase
      <4>1. Rest' = RetryBase - sinceFail'[g]
        BY <1>1, <1>5, Mapped
      <4>2. QED
        BY <3>2, <4>1, DelaysAssumption
    <3>6. Plan!Fail
      BY <1>1, <1>5, <3>2, <3>4, <3>5, Mapped DEF Plan!Fail
    <3>7. QED
      BY <3>6 DEF Plan!Next
  <2>6. QED
    BY <2>2, <2>3, <2>4, <2>5
<1>6. QED
  BY <1>4, <1>5

(* A manual sync or a poll has saved: its coordinator's timer may be moved. *)
LEMMA AfterSyncImplements ==
  ASSUME IInv, IInv', NEW g \in Loads, AfterSync(g),
         UNCHANGED <<entryVars, mode, run, sinceFail, sinceGood>>
  PROVE  Plan!Next \/ UNCHANGED Plan!vars
<1>1. Armed' = Armed /\ current' = current
  BY DEF entryVars, Armed
<1>2. CASE ~ (Armed /\ g = current /\ hook[g])
  <2>1. Armed => timer'[current] = timer[current]
    BY <1>2, ArmedFacts DEF AfterSync, Schedule, IInv, TypeOK, DataTypeOK
  <2>2. QED
    BY <1>1, <2>1, Kept
<1>3. CASE Armed /\ g = current /\ hook[g]
  <2>1. timer'[g] = DueIn(age[g])
    BY <1>3 DEF AfterSync, Schedule, IInv, TypeOK, DataTypeOK
  <2>2. Wait' = DueIn(age[g]) /\ Trying' = Trying /\ Rest' = Rest
    BY <1>1, <1>3, <2>1 DEF Wait, Trying, Rest
  <2>3. Wait' >= Rest
    <3>1. timer'[g] \in 0 .. Interval
      BY <1>3, <2>1, ArmedFacts, DueInBounds
    <3>2. timer'[g] + sinceFail'[g] >= RetryBase
      BY <1>1, <1>3, <3>1 DEF IInv, BackoffInv
    <3>3. Rest = RetryBase - sinceFail[g] /\ sinceFail[g] \in 0 .. RetryBase
      BY <1>3, Mapped, ArmedFacts
    <3>4. QED
      BY <2>1, <2>2, <3>1, <3>2, <3>3, DelaysAssumption
  <2>4. Plan!Replan
    BY <1>1, <1>3, <2>2, <2>3, DueInDue DEF Plan!Replan
  <2>5. QED
    BY <2>4 DEF Plan!Next
<1>4. QED
  BY <1>2, <1>3

(* Manual syncs and polls.                                                 *)
LEMMA OthersImplement ==
  ASSUME IInv, IInv', Manual \/ Poll \/ Other
  PROVE  Plan!Next \/ UNCHANGED Plan!vars
<1>1. CASE ManualSaves
  <2>1. ManualTarget \in Loads
    BY <1>1 DEF ManualSaves, ManualTarget, IInv, TypeOK, DataTypeOK
  <2>2. QED
    BY <1>1, <2>1, AfterSyncImplements DEF ManualSaves
<1>2. CASE PollSaves
  <2>1. current \in Loads
    BY <1>2 DEF PollSaves, IInv, RefInv, Running
  <2>2. QED
    BY <1>2, <2>1, AfterSyncImplements DEF PollSaves
<1>3. CASE \/ ManualStart \/ ManualWrites \/ ManualFails \/ ManualCancelled
           \/ PollStart \/ PollReads \/ PollWrites \/ Other
  <2>1. UNCHANGED <<phase, current, mode, timer, run, sinceFail>>
    BY <1>3 DEF ManualStart, ManualWrites, ManualFails, ManualCancelled,
       PollStart, PollReads, PollWrites, Other, OtherSaves,
       OtherEnds, entryVars, closureVars,
       histVars
  <2>2. sinceGood' = sinceGood \/ sinceGood' = 0
    BY <1>3 DEF ManualStart, ManualWrites, ManualFails, ManualCancelled,
       PollStart, PollReads, PollWrites, Other, OtherSaves,
       OtherEnds, NoteSync, histVars
  <2>3. Armed' = Armed
    BY <2>1 DEF Armed
  <2>4. QED
    BY <2>1, <2>2, <2>3, Kept
<1>4. QED
  BY <1>1, <1>2, <1>3 DEF Manual, Poll

(* Time passes for the timetable as well.                                  *)
LEMMA TickImplements ==
  ASSUME IInv, Tick
  PROVE  Plan!Next
<1>1. current' = current /\ UNCHANGED <<phase, run>>
  BY DEF Tick, entryVars
<1>2. phase \in Running => current \in Loads /\ mode'[current] = mode[current]
  BY DEF Tick, Collected, Dead, IInv, RefInv, Running
<1>3. Armed' = Armed
  BY <1>1, <1>2 DEF Armed
<1>4. Trying' = Trying
  BY <1>1, <1>3 DEF Trying
<1>5. sinceGood' = IF sinceGood < Plan!Unknown THEN sinceGood + 1 ELSE sinceGood
  BY DEF Tick, Older, Unknown, Plan!Unknown
<1>6. CASE Armed
  <2>1. /\ current \in Loads /\ timer[current] \in 0 .. Interval \cup {Off}
        /\ sinceFail[current] \in 0 .. RetryBase
    BY <1>6, ArmedFacts DEF IInv, TypeOK, DataTypeOK
  <2>2. timer'[current] = IF timer[current] \in 1 .. Interval
                          THEN timer[current] - 1 ELSE timer[current]
    BY <2>1 DEF Tick
  <2>3. sinceFail'[current] = IF sinceFail[current] < RetryBase
                              THEN sinceFail[current] + 1 ELSE sinceFail[current]
    BY <2>1 DEF Tick, Collected, Dead, Older
  <2>4. Wait' = IF Wait = Off THEN Off ELSE Plan!Less(Wait)
    <3>1. Wait' = timer'[current] /\ Wait = timer[current]
      BY <1>1, <1>3, <1>6, Mapped
    <3>2. QED
      BY <2>1, <2>2, <3>1, LoadsAssumption, DelaysAssumption DEF Plan!Less
  <2>5. Rest' = Plan!Less(Rest)
    <3>1. Rest' = RetryBase - sinceFail'[current] /\ Rest = RetryBase - sinceFail[current]
      BY <1>1, <1>3, <1>6, Mapped
    <3>2. QED
      BY <2>1, <2>3, <3>1, DelaysAssumption DEF Plan!Less
  <2>6. QED
    BY <1>3, <1>4, <1>5, <2>4, <2>5 DEF Plan!Next, Plan!Tick
<1>7. CASE ~ Armed
  BY <1>3, <1>4, <1>5, <1>7, Mapped DEF Plan!Next, Plan!Tick, Plan!Less
<1>8. QED
  BY <1>6, <1>7

(* Each step of the automatic sync is a step of the timetable, or changes  *)
(* nothing in it.                                                          *)
LEMMA StepImplements ==
  ASSUME IInv, IInv', [Next]_vars
  PROVE  [Plan!Next]_(Plan!vars)
<1>1. CASE \E g \in Loads : Closure(g)
  BY <1>1, FireImplements, RunImplements DEF Closure
<1>2. CASE Entry
  BY <1>2, EntryImplements
<1>3. CASE Manual \/ Poll \/ Other
  BY <1>3, OthersImplement
<1>4. CASE Tick
  BY <1>4, TickImplements
<1>5. CASE UNCHANGED vars
  BY <1>5 DEF vars, Plan!vars, Armed, Wait, Trying, Rest
<1>6. QED
  BY <1>1, <1>2, <1>3, <1>4, <1>5 DEF Next

(* The entry starts unarmed, with a clock nobody has read.                 *)
LEMMA InitImplements == ASSUME Init PROVE Plan!Init
<1>1. ~ Armed
  BY DEF Init, Armed, Running
<1>2. QED
  BY <1>1, Mapped DEF Init, Plan!Init, Unknown, Plan!Unknown

-----------------------------------------------------------------------------
(* The theorem.                                                            *)

(* _async_setup_auto_sync and all that touches its timer implement the     *)
(* timetable.                                                              *)
THEOREM Implementation == Spec => ImplementsTimetable
<1>1. Init => Plan!Init
  BY InitImplements
<1>2. IInv /\ IInv' /\ [Next]_vars => [Plan!Next]_(Plan!vars)
  BY StepImplements
<1>3. QED
  BY <1>1, <1>2, Invariance, PTL DEF Spec, Plan!Spec, ImplementsTimetable

-----------------------------------------------------------------------------
(* What a timetable promises.                                              *)

(* The promise, and that a plan leaves the rest after a failure.           *)
PlanInv ==
  /\ Plan!TypeOK
  /\ Plan!Promise
  /\ ~ Armed => Wait = Off /\ Trying = "none" /\ Rest = 0
  /\ Wait # Off => Wait >= Rest

(* An instant planned when the clock was right s ago and r is left to rest *)
InTime(t, s, r) ==
  /\ t \in 0 .. Interval
  /\ t >= r
  /\ t > RetryMax => t + s <= Interval + FreshFor

(* What of a plan is arithmetic.                                           *)
LEMMA PlanNumbers ==
  ASSUME NEW w, NEW s \in Nat, NEW r \in 0 .. RetryBase,
         w = Off \/ InTime(w, s, r)
  PROVE  /\ w \in RetryMax + 1 .. Interval => w + s <= Interval + FreshFor
         /\ w = 0 => r = 0
         /\ w \in 0 .. Interval \cup {Off}
         /\ w # Off => w >= r
<1>1. {Interval, RetryMax, RetryBase, FreshFor} \subseteq Nat
  BY DelaysAssumption
<1>2. CASE w = Off
  <2>1. w \notin Nat
    BY <1>2, LoadsAssumption
  <2>2. w \notin RetryMax + 1 .. Interval /\ w # 0
    BY <2>1, <1>1
  <2>3. QED
    BY <1>2, <2>2
<1>3. CASE w # Off
  BY <1>3, <1>1 DEF InTime
<1>4. QED
  BY <1>2, <1>3

(* The invariant of an entry that is armed or not, from what it plans.     *)
LEMMA PlanHolds ==
  ASSUME Armed' \in BOOLEAN,
         Trying' \in {"none", "under way", "written"},
         sinceGood' \in 0 .. Plan!Unknown, sinceGood' \in Nat,
         Rest' \in 0 .. RetryBase,
         ~ Armed' => Wait' = Off /\ Trying' = "none" /\ Rest' = 0,
         Armed' => Wait' # Off \/ Trying' # "none",
         Wait' = Off \/ InTime(Wait', sinceGood', Rest')
  PROVE  PlanInv'
<1>1. /\ Wait' \in RetryMax + 1 .. Interval =>
            Wait' + sinceGood' <= Interval + FreshFor
      /\ Wait' = 0 => Rest' = 0
      /\ Wait' \in 0 .. Interval \cup {Off}
      /\ Wait' # Off => Wait' >= Rest'
  BY PlanNumbers
<1>2. Plan!TypeOK'
  BY <1>1 DEF Plan!TypeOK
<1>3. Plan!Promise'
  BY <1>1 DEF Plan!Promise
<1>4. QED
  BY <1>1, <1>2, <1>3, Zenon DEF PlanInv

(* What is planned for a clock that was right s ago is in time.            *)
LEMMA PlannedInTime ==
  ASSUME NEW t, NEW r \in 0 .. RetryBase, t >= r,
         Plan!Due(t) \/ Plan!Backoff(t)
  PROVE  InTime(t, sinceGood, r) /\ t # Off
<1>1. t \in 1 .. Interval
  BY DelaysAssumption DEF Plan!Due, Plan!Backoff
<1>2. t # Off
  BY <1>1, LoadsAssumption, DelaysAssumption
<1>3. t > RetryMax => t + sinceGood <= Interval + FreshFor
  BY <1>1, DelaysAssumption DEF Plan!Due, Plan!Backoff
<1>4. QED
  BY <1>1, <1>2, <1>3 DEF InTime

(* A backoff outlasts the rest.                                            *)
LEMMA BackoffRests ==
  ASSUME NEW t, NEW r \in 0 .. RetryBase, Plan!Backoff(t)
  PROVE  t >= r
BY DelaysAssumption DEF Plan!Backoff

(* Every step of a timetable keeps it.                                     *)
LEMMA PlanStep ==
  ASSUME PlanInv, [Plan!Next]_(Plan!vars)
  PROVE  PlanInv'
<1>0. Off # 0 /\ RetryBase \in Nat /\ Interval \in Nat /\ FreshFor \in Nat
      /\ RetryMax \in Nat
  BY LoadsAssumption, DelaysAssumption
<1>1. /\ Armed \in BOOLEAN
      /\ Trying \in {"none", "under way", "written"}
      /\ sinceGood \in 0 .. Plan!Unknown /\ Rest \in 0 .. RetryBase
      /\ ~ Armed => Wait = Off /\ Trying = "none" /\ Rest = 0
      /\ Armed => Wait # Off \/ Trying # "none"
  BY DEF PlanInv, Plan!TypeOK, Plan!Promise
<1>2. Plan!Unknown \in Nat /\ sinceGood \in Nat
      /\ 0 \in 0 .. RetryBase /\ RetryBase \in 0 .. RetryBase
      /\ 0 \in 0 .. Plan!Unknown
  <2>1. Plan!Unknown \in Nat /\ RetryBase \in Nat
    BY DelaysAssumption DEF Plan!Unknown
  <2>2. sinceGood \in 0 .. Plan!Unknown
    BY <1>1
  <2>3. sinceGood \in Nat
    BY <2>1, <2>2
  <2>4. QED
    BY <2>1, <2>3
<1>3. Wait = Off \/ InTime(Wait, sinceGood, Rest)
  <2>1. CASE Wait # Off
    <3>1. Wait \in 0 .. Interval /\ Wait >= Rest
      BY <2>1 DEF PlanInv, Plan!TypeOK
    <3>2. Wait \in RetryMax + 1 .. Interval =>
             Wait + sinceGood <= Interval + FreshFor
      BY DEF PlanInv, Plan!Promise
    <3>3. QED
      BY <3>1, <3>2, DelaysAssumption DEF InTime
  <2>2. QED
    BY <2>1
<1>4. CASE Plan!Arm
  <2>1. /\ ~ Armed /\ Armed' = TRUE /\ Plan!Due(Wait')
        /\ Trying' = Trying /\ sinceGood' = sinceGood /\ Rest' = Rest
    BY <1>4 DEF Plan!Arm
  <2>2. Rest' = 0 /\ Wait' >= 0
    BY <2>1, <1>1, DelaysAssumption DEF Plan!Due
  <2>3. InTime(Wait', sinceGood', Rest') /\ Wait' # Off
    BY <2>1, <2>2, <1>2, PlannedInTime
  <2>4. QED
    BY <2>1, <2>3, <1>1, <1>2, PlanHolds
<1>5. CASE Plan!Disarm
  <2>1. /\ Armed' = FALSE /\ Wait' = Off /\ Trying' = "none" /\ Rest' = 0
        /\ sinceGood' = sinceGood
    BY <1>5 DEF Plan!Disarm
  <2>2. QED
    BY <2>1, <1>1, <1>2, PlanHolds
<1>6. CASE Plan!Skip
  <2>1. /\ Wait = 0 /\ Rest = 0
        /\ Plan!Due(Wait') \/ Plan!Backoff(Wait')
        /\ Armed' = Armed /\ Trying' = Trying /\ sinceGood' = sinceGood
        /\ Rest' = Rest
    BY <1>6 DEF Plan!Skip
  <2>2. Armed
    <3>1. Wait # Off
      BY <2>1, <1>0
    <3>2. QED
      BY <3>1, <1>1
  <2>3. Wait' >= Rest'
    BY <2>1, DelaysAssumption DEF Plan!Due, Plan!Backoff
  <2>4. InTime(Wait', sinceGood', Rest') /\ Wait' # Off
    BY <2>1, <2>3, <1>1, PlannedInTime
  <2>5. QED
    BY <2>1, <2>2, <2>4, <1>1, <1>2, PlanHolds
<1>7. CASE Plan!Try
  <2>1. /\ Wait = 0 /\ Trying' = "under way" /\ Wait' = Off
        /\ Armed' = Armed /\ sinceGood' = sinceGood /\ Rest' = Rest
    BY <1>7 DEF Plan!Try
  <2>2. Armed
    <3>1. Wait # Off
      BY <2>1, <1>0
    <3>2. QED
      BY <3>1, <1>1
  <2>3. QED
    BY <2>1, <2>2, <1>1, <1>2, PlanHolds
<1>8. CASE Plan!Write
  <2>1. /\ Trying = "under way" /\ Trying' = "written" /\ sinceGood' = 0
        /\ Armed' = Armed /\ Wait' = Wait /\ Rest' = Rest
    BY <1>8 DEF Plan!Write
  <2>2. Armed
    BY <2>1, <1>1
  <2>3. Wait = Off \/ InTime(Wait, 0, Rest)
    BY <1>3, <1>2, DelaysAssumption DEF InTime
  <2>4. QED
    BY <2>1, <2>2, <2>3, <1>1, <1>2, PlanHolds
<1>9. CASE Plan!Done
  <2>1. /\ Trying = "written" /\ Trying' = "none"
        /\ Plan!Due(Wait') \/ Plan!Backoff(Wait')
        /\ Wait' >= Rest
        /\ Armed' = Armed /\ sinceGood' = sinceGood /\ Rest' = Rest
    BY <1>9 DEF Plan!Done
  <2>2. Armed
    BY <2>1, <1>1
  <2>3. InTime(Wait', sinceGood', Rest') /\ Wait' # Off
    BY <2>1, <1>1, PlannedInTime
  <2>4. QED
    BY <2>1, <2>2, <2>3, <1>1, <1>2, PlanHolds
<1>10. CASE Plan!Fail
  <2>1. /\ Trying = "under way" /\ Trying' = "none" /\ Plan!Backoff(Wait')
        /\ Armed' = Armed /\ sinceGood' = sinceGood /\ Rest' = RetryBase
    BY <1>10 DEF Plan!Fail
  <2>2. Armed
    BY <2>1, <1>1
  <2>3. InTime(Wait', sinceGood', Rest') /\ Wait' # Off
    BY <2>1, <1>2, BackoffRests, PlannedInTime
  <2>4. QED
    BY <2>1, <2>2, <2>3, <1>1, <1>2, PlanHolds
<1>11. CASE Plan!Right
  <2>1. /\ sinceGood' = 0 /\ Trying' = Trying
        /\ Armed' = Armed /\ Wait' = Wait /\ Rest' = Rest
    BY <1>11 DEF Plan!Right
  <2>2. Wait = Off \/ InTime(Wait, 0, Rest)
    BY <1>3, <1>2, DelaysAssumption DEF InTime
  <2>3. QED
    BY <2>1, <2>2, <1>1, <1>2, PlanHolds
<1>12. CASE Plan!Replan
  <2>1. /\ Armed /\ Plan!Due(Wait') /\ Wait' >= Rest
        /\ Armed' = Armed /\ Trying' = Trying /\ sinceGood' = sinceGood
        /\ Rest' = Rest
    BY <1>12 DEF Plan!Replan
  <2>2. InTime(Wait', sinceGood', Rest') /\ Wait' # Off
    BY <2>1, <1>1, PlannedInTime
  <2>3. QED
    BY <2>1, <2>2, <1>1, <1>2, PlanHolds
<1>13. CASE Plan!Tick
  <2>1. /\ Wait' = IF Wait = Off THEN Off ELSE Plan!Less(Wait)
        /\ Rest' = Plan!Less(Rest)
        /\ sinceGood' = IF sinceGood < Plan!Unknown THEN sinceGood + 1
                        ELSE sinceGood
        /\ Armed' = Armed /\ Trying' = Trying
    BY <1>13 DEF Plan!Tick
  <2>2. /\ Rest' \in 0 .. RetryBase /\ sinceGood' \in 0 .. Plan!Unknown
        /\ sinceGood' \in Nat /\ sinceGood' <= sinceGood + 1
        /\ Rest # 0 => Rest' = Rest - 1
        /\ Rest = 0 => Rest' = 0
    <3>1. Rest \in 0 .. RetryBase /\ sinceGood \in 0 .. Plan!Unknown
      BY <1>1
    <3>2. Rest' \in 0 .. RetryBase /\ (Rest # 0 => Rest' = Rest - 1)
          /\ (Rest = 0 => Rest' = 0)
      BY <3>1, <2>1, <1>0 DEF Plan!Less
    <3>3. sinceGood' \in 0 .. Plan!Unknown /\ sinceGood' \in Nat
          /\ sinceGood' <= sinceGood + 1
      BY <3>1, <2>1, <1>2
    <3>4. QED
      BY <3>2, <3>3
  <2>3. Wait # Off => InTime(Wait', sinceGood', Rest') /\ Wait' # Off
    <3>1. ASSUME Wait # Off
          PROVE  InTime(Wait', sinceGood', Rest')
      <4>1. InTime(Wait, sinceGood, Rest) /\ Wait' = Plan!Less(Wait)
        BY <3>1, <2>1, <1>3
      <4>2. Wait \in 0 .. Interval /\ Wait' \in 0 .. Interval /\ Wait' <= Wait
            /\ (Wait # 0 => Wait' = Wait - 1) /\ (Wait = 0 => Wait' = 0)
        BY <4>1, DelaysAssumption DEF InTime, Plan!Less
      <4>3. Wait' >= Rest'
        <5>1. Wait >= Rest /\ Rest \in 0 .. RetryBase
          BY <4>1, <1>1 DEF InTime
        <5>2. QED
          BY <5>1, <4>2, <2>2, <1>0
      <4>4. Wait' > RetryMax => Wait' + sinceGood' <= Interval + FreshFor
        BY <4>1, <4>2, <2>2, <1>2, DelaysAssumption DEF InTime
      <4>5. QED
        BY <4>2, <4>3, <4>4 DEF InTime
    <3>2. ASSUME Wait # Off
          PROVE  Wait' # Off
      BY <3>1, <3>2, LoadsAssumption, DelaysAssumption DEF InTime
    <3>3. QED
      BY <3>1, <3>2
  <2>4. ~ Armed => Wait' = Off /\ Trying' = "none" /\ Rest' = 0
    BY <2>1, <2>2, <1>1
  <2>5. Armed => Wait' # Off \/ Trying' # "none"
    BY <2>1, <2>3, <1>1
  <2>6. Wait' = Off \/ InTime(Wait', sinceGood', Rest')
    BY <2>1, <2>3
  <2>7. QED
    BY <2>1, <2>2, <2>4, <2>5, <2>6, <1>1, PlanHolds
<1>14. CASE UNCHANGED Plan!vars
  <2>1. /\ Armed' = Armed /\ Wait' = Wait /\ Trying' = Trying
        /\ sinceGood' = sinceGood /\ Rest' = Rest
    BY <1>14 DEF Plan!vars
  <2>2. QED
    BY <2>1, <1>1, <1>2, <1>3, PlanHolds
<1>15. QED
  BY <1>4, <1>5, <1>6, <1>7, <1>8, <1>9, <1>10, <1>11, <1>12, <1>13, <1>14
  DEF Plan!Next

(* A timetable keeps its promise: with the theorem before, so does the     *)
(* automatic sync, and what it promises needs no coordinator to state.     *)
THEOREM PromiseKept == Plan!Spec => []Plan!Promise
<1>1. Plan!Init => PlanInv
  <2>1. SUFFICES ASSUME Plan!Init
                 PROVE  PlanInv
    OBVIOUS
  <2>2. /\ Armed = FALSE /\ Wait = Off /\ Trying = "none"
        /\ sinceGood = Plan!Unknown /\ Rest = 0
    BY <2>1 DEF Plan!Init
  <2>3. Plan!Unknown \in 0 .. Plan!Unknown /\ 0 \in 0 .. RetryBase
        /\ Off # 0 /\ Off \notin RetryMax + 1 .. Interval
    BY LoadsAssumption, DelaysAssumption DEF Plan!Unknown
  <2>4. Plan!TypeOK
    BY <2>2, <2>3 DEF Plan!TypeOK
  <2>5. Plan!Promise
    BY <2>2, <2>3 DEF Plan!Promise
  <2>6. QED
    BY <2>2, <2>4, <2>5 DEF PlanInv
<1>2. PlanInv /\ [Plan!Next]_(Plan!vars) => PlanInv'
  BY PlanStep
<1>3. PlanInv => Plan!Promise
  BY DEF PlanInv
<1>4. QED
  BY <1>1, <1>2, <1>3, PTL DEF Plan!Spec
=============================================================================
