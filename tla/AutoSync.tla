------------------------------ MODULE AutoSync ------------------------------
(***************************************************************************)
(* The automatic time sync of one config entry (__init__.py), with what it *)
(* meets: loading, unloading and reloading of the entry, restarts of Home  *)
(* Assistant, manual syncs, climate polls that read or write the clock,    *)
(* and the persisted record of the last sync.                              *)
(*                                                                         *)
(* Every load of the entry makes a new coordinator and, unless automatic   *)
(* sync is disabled, a new timer closure.  A closure whose sync is running *)
(* when the entry is unloaded lives on.                                    *)
(*                                                                         *)
(* Instants are kept as ages and countdowns in ticks of a clock nothing    *)
(* else controls.  A sync in progress here is a call of async_execute      *)
(* (BleExecute): one at a time is in a session, and each one ends.         *)
(***************************************************************************)
EXTENDS Naturals

CONSTANTS
    Loads,          \* identities of coordinators, used again when dead
    Options,        \* combinations of options the user may choose
    None,           \* no coordinator
    Off,            \* no timer
    Interval,       \* _auto_sync_interval
    StartupDelay,   \* STARTUP_SYNC_DELAY_SECONDS
    RetryBase,      \* AUTO_SYNC_RETRY_BASE_SECONDS
    RetryMax,       \* AUTO_SYNC_RETRY_MAX_SECONDS
    FreshFor,       \* scan interval and DRIFT_CHECK_GRACE_SECONDS
    MaxFails        \* failures counted: more do not change the retry delay

ASSUME LoadsAssumption == None \notin Loads /\ Loads # {} /\ Off \notin Nat
ASSUME OptionsAssumption == Options \subseteq [auto : BOOLEAN, climate : BOOLEAN]
ASSUME DelaysAssumption ==
    /\ {Interval, StartupDelay, RetryBase, RetryMax, FreshFor} \subseteq Nat \ {0}
    /\ StartupDelay <= RetryBase
    /\ RetryBase <= RetryMax
    /\ RetryMax < Interval
ASSUME FailsAssumption ==
    MaxFails \in Nat \ {0} /\ RetryBase * 2 ^ (MaxFails - 1) >= RetryMax

VARIABLES
    phase,          \* of the entry
    current,        \* entry.runtime_data
    options,        \* auto_sync is not "disabled"; climate_sensors
    mode,           \* auto_sync_mode of each coordinator is not "disabled"
    hook,           \* its reschedule_auto_sync is set
    timer,          \* ticks until the closure fires (state["unsub"]), or Off
    run,            \* what the closure's _fire is doing
    target,         \* the coordinator its _run_auto_sync works on
    age,            \* ticks since last_sync; Interval: as long ago, or never
    checked,        \* ticks since a reading well inside the tolerance
    fails,          \* consecutive_auto_failures
    manual,         \* a button press or sync_time service call
    manualOn,       \* the coordinator it captured; None: reads runtime_data
    poll,           \* a poll of the current coordinator, after the climate
    others,         \* earlier coordinators a call that only saves still has
    stored,         \* the store's last_sync and clock_checked, as ages
    sinceGood,      \* history: ticks since the clock was known to be right
    sinceFail,      \* history: ticks since the closure's sync failed
    unsaved         \* history: the loaded coordinator's syncs are not in it

entryVars == <<phase, current, options>>
closureVars == <<mode, hook, timer, run, target>>
dataVars == <<age, checked, fails>>
otherVars == <<manual, manualOn, poll, others>>
histVars == <<sinceGood, sinceFail, unsaved>>
vars == <<phase, current, options, mode, hook, timer, run, target, age,
          checked, fails, manual, manualOn, poll, others, stored, sinceGood,
          sinceFail, unsaved>>

Stale == FreshFor + 1
Unknown == Interval + FreshFor + 1
Running == {"forwarding", "up"}

(* No last_sync and no reading.                                            *)
Blank == [age |-> Interval, checked |-> Stale]

DataTypeOK ==
    /\ phase \in {"down", "loading", "loaded", "forwarding", "up"}
    /\ current \in Loads \cup {None}
    /\ options \in Options
    /\ timer \in [Loads -> 0 .. Interval \cup {Off}]
    /\ run \in [Loads -> {"none", "syncing", "written", "saved"}]
    /\ target \in [Loads -> Loads \cup {None}]
    /\ age \in [Loads -> 0 .. Interval]
    /\ checked \in [Loads -> 0 .. Stale]
    /\ fails \in [Loads -> 0 .. MaxFails]
    /\ manual \in {"none", "syncing", "written"}
    /\ manualOn \in Loads \cup {None}
    /\ poll \in {"none", "checking", "written"}
    /\ others \subseteq Loads
    /\ stored \in [age : 0 .. Interval, checked : 0 .. Stale]
    /\ sinceGood \in 0 .. Unknown
    /\ sinceFail \in [Loads -> 0 .. RetryBase]

FlagTypeOK ==
    /\ mode \in [Loads -> BOOLEAN]
    /\ hook \in [Loads -> BOOLEAN]
    /\ unsaved \in BOOLEAN

TypeOK == DataTypeOK /\ FlagTypeOK

Init ==
    /\ phase = "down"
    /\ current = None
    /\ options \in Options
    /\ mode = [g \in Loads |-> FALSE]
    /\ hook = [g \in Loads |-> FALSE]
    /\ timer = [g \in Loads |-> Off]
    /\ run = [g \in Loads |-> "none"]
    /\ target = [g \in Loads |-> None]
    /\ age = [g \in Loads |-> Interval]
    /\ checked = [g \in Loads |-> Stale]
    /\ fails = [g \in Loads |-> 0]
    /\ manual = "none"
    /\ manualOn = None
    /\ poll = "none"
    /\ others = {}
    /\ stored = Blank
    /\ sinceGood = Unknown
    /\ sinceFail = [g \in Loads |-> RetryBase]
    /\ unsaved = FALSE

-----------------------------------------------------------------------------
(* When the timer is set for.                                              *)

(* Slip: the whole interval again at every (re)start, as                   *)
(* async_track_time_interval would.                                        *)
DueInFromNow(a) == Interval

(* _due_at: from last_sync; shortly, when overdue or never synced.         *)
DueIn(a) == IF a < Interval THEN Interval - a ELSE StartupDelay

(* Slip: the delay doubles without a limit.                                *)
RetryInUncapped(f) == RetryBase * 2 ^ (f - 1)

(* _retry_at: exponential backoff.                                         *)
RetryIn(f) ==
    LET delay == RetryBase * 2 ^ (f - 1)
    IN  IF delay < RetryMax THEN delay ELSE RetryMax

(* Slip: no more syncs once many failed in a row.                          *)
AfterRunGivesUp(f, a) ==
    IF f = MaxFails THEN Off ELSE IF f > 0 THEN RetryIn(f) ELSE DueIn(a)

(* Slip: a failed sync is simply overdue.                                  *)
AfterRunOverdue(f, a) == DueIn(a)

(* What _fire schedules when a sync ended, for f failures on its own       *)
(* coordinator, last synced a ago.                                         *)
AfterRun(f, a) == IF f > 0 THEN RetryIn(f) ELSE DueIn(a)

AfterSkip(f) == IF f > 0 THEN RetryIn(f) ELSE Interval

(* _schedule: replaces the closure's own timer.                            *)
Schedule(g, t) == timer' = [timer EXCEPT ![g] = t]

(* _clock_recently_verified, for the coordinator the sync would work on.   *)
RecentlyVerified(g) == options.climate /\ checked[g] <= FreshFor

(* One more failure, counted up to MaxFails.                               *)
OneMore(f) == IF f < MaxFails THEN f + 1 ELSE f

-----------------------------------------------------------------------------
(* Loading and unloading the entry.                                        *)

(* No closure or service call refers to the coordinator.                   *)
Unreferenced(g) ==
    /\ timer[g] = Off
    /\ run[g] = "none"
    /\ \A h \in Loads : target[h] # g
    /\ manualOn # g
    /\ g \notin others

(* Garbage: its identity is free for another load.                         *)
Dead(g) == Unreferenced(g) /\ g # current

(* async_setup_entry makes the coordinator and starts to read the store.   *)
(* A failed setup may have left its coordinator in runtime_data.           *)
SetupBegin(g) ==
    /\ phase = "down"
    /\ Unreferenced(g)
    /\ g = current => manual = "none"
    /\ phase' = "loading"
    /\ current' = g
    /\ mode' = [mode EXCEPT ![g] = FALSE]
    /\ hook' = [hook EXCEPT ![g] = FALSE]
    /\ age' = [age EXCEPT ![g] = Interval]
    /\ checked' = [checked EXCEPT ![g] = Stale]
    /\ fails' = [fails EXCEPT ![g] = 0]
    /\ sinceFail' = [sinceFail EXCEPT ![g] = RetryBase]
    /\ unsaved' = FALSE
    /\ UNCHANGED <<options, timer, run, target, otherVars, stored, sinceGood>>

(* async_load_persisted.  When the store has nothing, or cannot be read,   *)
(* the coordinator stays as it is, with a sync noted meanwhile.            *)
SetupLoad ==
    /\ phase = "loading"
    /\ phase' = "loaded"
    /\ \/ /\ age' = [age EXCEPT ![current] = stored.age]
          /\ checked' = [checked EXCEPT ![current] = stored.checked]
          /\ unsaved' = FALSE
       \/ UNCHANGED <<age, checked, unsaved>>
    /\ UNCHANGED <<current, options, closureVars, fails, otherVars, stored,
                   sinceGood, sinceFail>>

(* After the first refresh: _async_setup_auto_sync, before the platforms.  *)
SetupArm ==
    /\ phase = "loaded"
    /\ poll = "none"
    /\ phase' = "forwarding"
    /\ mode' = [mode EXCEPT ![current] = options.auto]
    /\ hook' = [hook EXCEPT ![current] = options.auto]
    /\ IF options.auto
       THEN Schedule(current, DueIn(age[current]))
       ELSE UNCHANGED timer
    /\ UNCHANGED <<current, options, run, target, dataVars, otherVars, stored,
                   histVars>>

SetupDone ==
    /\ phase = "forwarding"
    /\ phase' = "up"
    /\ UNCHANGED <<current, options, closureVars, dataVars, otherVars, stored,
                   histVars>>

(* _teardown: no more hook, and the timer, if armed, is cancelled.         *)
Teardown ==
    /\ hook' = [hook EXCEPT ![current] = FALSE]
    /\ Schedule(current, Off)

(* The setup is cancelled, or its platforms fail; runtime_data stays, and  *)
(* a poll ends with the task that waits for it.  Before SetupArm there is  *)
(* nothing to tear down.                                                   *)
SetupFails ==
    /\ phase \in {"loading", "loaded", "forwarding"}
    /\ phase' = "down"
    /\ Teardown
    /\ poll' = "none"
    /\ UNCHANGED <<current, options, mode, run, target, dataVars, manual,
                   manualOn, others, stored, histVars>>

(* An unload, on its own or for a reload with changed options: the         *)
(* teardown runs, the poll task is cancelled, runtime_data is deleted.     *)
(* Calls that captured the coordinator go on.                              *)
Unload ==
    /\ phase = "up"
    /\ phase' = "down"
    /\ current' = None
    /\ options' \in Options
    /\ Teardown
    /\ poll' = "none"
    /\ others' \in {others, others \cup {current}}
    /\ UNCHANGED <<mode, run, target, dataVars, manual, manualOn, stored,
                   histVars>>

(* Home Assistant stops or dies; only the store survives.                  *)
Restart ==
    /\ phase' = "down"
    /\ current' = None
    /\ mode' = [g \in Loads |-> FALSE]
    /\ hook' = [g \in Loads |-> FALSE]
    /\ timer' = [g \in Loads |-> Off]
    /\ run' = [g \in Loads |-> "none"]
    /\ target' = [g \in Loads |-> None]
    /\ age' = [g \in Loads |-> Interval]
    /\ checked' = [g \in Loads |-> Stale]
    /\ fails' = [g \in Loads |-> 0]
    /\ manual' = "none"
    /\ manualOn' = None
    /\ poll' = "none"
    /\ others' = {}
    /\ sinceFail' = [g \in Loads |-> RetryBase]
    /\ unsaved' = FALSE
    /\ UNCHANGED <<options, stored, sinceGood>>

-----------------------------------------------------------------------------
(* Syncs, by anybody.                                                      *)

(* From the write to its save no other session ends and nothing else is    *)
(* saved: the lock is held until the disconnect, and a save takes less     *)
(* than a connection.                                                      *)
SessionFree ==
    /\ \A g \in Loads : run[g] # "written"
    /\ manual # "written"
    /\ poll # "written"

(* note_sync on a coordinator: the write and its read-back succeeded.      *)
NoteSync(g) ==
    /\ age' = [age EXCEPT ![g] = 0]
    /\ checked' = [checked EXCEPT ![g] = 0]
    /\ sinceGood' = 0

(* What LywsdStore.async_save writes: the whole record of a coordinator.   *)
Record(g) == [age |-> age[g], checked |-> checked[g]]

(* async_save_persisted; a storage error is caught and logged.             *)
Save(g) ==
    \/ /\ stored' = Record(g)
       /\ unsaved' = (g # current /\ unsaved)
    \/ /\ unsaved' = (g = current \/ unsaved)
       /\ UNCHANGED stored

(* Slip: the timer is armed again, but nothing is saved.                   *)
AfterSyncUnsaved(g) ==
    /\ IF hook[g] THEN Schedule(g, DueIn(age[g])) ELSE UNCHANGED timer
    /\ UNCHANGED <<stored, unsaved>>

(* async_after_sync: save, then move the timer of a loaded entry.          *)
AfterSync(g) ==
    /\ Save(g)
    /\ IF hook[g] THEN Schedule(g, DueIn(age[g])) ELSE UNCHANGED timer

-----------------------------------------------------------------------------
(* The closure's timer fires.  One sync ends long before the closure's     *)
(* timer, armed meanwhile by another sync, fires again.                    *)

Fires(g) == timer[g] = 0 /\ run[g] = "none"

(* _run_auto_sync reads runtime_data outside its try: _fire dies.          *)
FireOrphan(g) ==
    /\ Fires(g)
    /\ current = None
    /\ Schedule(g, Off)
    /\ UNCHANGED <<entryVars, mode, hook, run, target, dataVars, otherVars,
                   stored, histVars>>

(* Slip: the skipped branch forgets to schedule.                           *)
FireSkipsForGood(g) ==
    /\ Fires(g)
    /\ current # None
    /\ RecentlyVerified(current)
    /\ Schedule(g, Off)
    /\ UNCHANGED <<entryVars, mode, hook, run, target, dataVars, otherVars,
                   stored, histVars>>

FireSkips(g) ==
    /\ Fires(g)
    /\ current # None
    /\ RecentlyVerified(current)
    /\ Schedule(g, AfterSkip(fails[g]))
    /\ UNCHANGED <<entryVars, mode, hook, run, target, dataVars, otherVars,
                   stored, histVars>>

FireSyncs(g) ==
    /\ Fires(g)
    /\ current # None
    /\ ~ RecentlyVerified(current)
    /\ Schedule(g, Off)
    /\ run' = [run EXCEPT ![g] = "syncing"]
    /\ target' = [target EXCEPT ![g] = current]
    /\ UNCHANGED <<entryVars, mode, hook, dataVars, otherVars, stored,
                   histVars>>

RunWrites(g) ==
    /\ run[g] = "syncing"
    /\ SessionFree
    /\ run' = [run EXCEPT ![g] = "written"]
    /\ NoteSync(target[g])
    /\ fails' = [fails EXCEPT ![target[g]] = 0]
    /\ UNCHANGED <<entryVars, mode, hook, timer, target, otherVars, stored,
                   sinceFail, unsaved>>

RunSaves(g) ==
    /\ run[g] = "written"
    /\ run' = [run EXCEPT ![g] = "saved"]
    /\ Save(target[g])
    /\ UNCHANGED <<entryVars, mode, hook, timer, target, dataVars, otherVars,
                   sinceGood, sinceFail>>

RunEnds(g) ==
    /\ run[g] = "saved"
    /\ run' = [run EXCEPT ![g] = "none"]
    /\ target' = [target EXCEPT ![g] = None]
    /\ Schedule(g, AfterRun(fails[g], age[g]))
    /\ UNCHANGED <<entryVars, mode, hook, dataVars, otherVars, stored,
                   histVars>>

(* The failure is counted on the coordinator the sync worked on; _fire     *)
(* looks at its own.                                                       *)
RunFails(g) ==
    /\ run[g] = "syncing"
    /\ SessionFree
    /\ run' = [run EXCEPT ![g] = "none"]
    /\ target' = [target EXCEPT ![g] = None]
    /\ fails' = [fails EXCEPT ![target[g]] = OneMore(@)]
    /\ Schedule(g, AfterRun(fails'[g], age[g]))
    /\ sinceFail' = [sinceFail EXCEPT ![g] = 0]
    /\ UNCHANGED <<entryVars, mode, hook, age, checked, otherVars, stored,
                   sinceGood, unsaved>>

-----------------------------------------------------------------------------
(* Manual syncs: the service captures the coordinator of the call, the     *)
(* button reads runtime_data each time it needs one.                       *)

ManualStart ==
    /\ phase = "up"
    /\ manual = "none"
    /\ manual' = "syncing"
    /\ manualOn' \in {current, None}
    /\ UNCHANGED <<entryVars, closureVars, dataVars, poll, others, stored,
                   histVars>>

ManualTarget == IF manualOn = None THEN current ELSE manualOn

ManualWrites ==
    /\ manual = "syncing"
    /\ SessionFree
    /\ ManualTarget # None
    /\ manual' = "written"
    /\ NoteSync(ManualTarget)
    /\ UNCHANGED <<entryVars, closureVars, fails, manualOn, poll, others,
                   stored, sinceFail, unsaved>>

(* Also a button press that finds no runtime_data, before or after.        *)
ManualFails ==
    /\ \/ manual = "syncing" /\ SessionFree
       \/ manual = "written" /\ ManualTarget = None
    /\ manual' = "none"
    /\ manualOn' = None
    /\ UNCHANGED <<entryVars, closureVars, dataVars, poll, others, stored,
                   histVars>>

ManualSaves ==
    /\ manual = "written"
    /\ ManualTarget # None
    /\ manual' = "none"
    /\ manualOn' = None
    /\ AfterSync(ManualTarget)
    /\ UNCHANGED <<entryVars, mode, hook, run, target, dataVars, poll, others,
                   sinceGood, sinceFail>>

(* The calling task is cancelled after the write.                          *)
ManualCancelled ==
    /\ manual = "written"
    /\ ManualTarget # None
    /\ manual' = "none"
    /\ manualOn' = None
    /\ unsaved' = (ManualTarget = current \/ unsaved)
    /\ UNCHANGED <<entryVars, closureVars, dataVars, poll, others, stored,
                   sinceGood, sinceFail>>

-----------------------------------------------------------------------------
(* Polls, which read the clock when automatic sync is enabled.             *)

PollStart ==
    /\ phase \in {"loaded"} \cup Running
    /\ options.climate /\ options.auto
    /\ poll = "none"
    /\ poll' = "checking"
    /\ UNCHANGED <<entryVars, closureVars, dataVars, manual, manualOn, others,
                   stored, histVars>>

(* The reading is well inside the tolerance, or it is not but there is     *)
(* nothing to write yet, or the write fails, or the read does.             *)
PollReads ==
    /\ poll = "checking"
    /\ SessionFree
    /\ poll' = "none"
    /\ \/ /\ checked' = [checked EXCEPT ![current] = 0]
          /\ sinceGood' = 0
       \/ /\ checked' = [checked EXCEPT ![current] = Stale]
          /\ UNCHANGED sinceGood
       \/ UNCHANGED <<checked, sinceGood>>
    /\ UNCHANGED <<entryVars, closureVars, age, fails, manual, manualOn,
                   others, stored, sinceFail, unsaved>>

PollWrites ==
    /\ poll = "checking"
    /\ SessionFree
    /\ poll' = "written"
    /\ NoteSync(current)
    /\ UNCHANGED <<entryVars, closureVars, fails, manual, manualOn, others,
                   stored, sinceFail, unsaved>>

PollSaves ==
    /\ poll = "written"
    /\ poll' = "none"
    /\ AfterSync(current)
    /\ UNCHANGED <<entryVars, mode, hook, run, target, dataVars, manual,
                   manualOn, others, sinceGood, sinceFail>>

-----------------------------------------------------------------------------
(* Calls that write no time but save the whole record: the read_state      *)
(* service and the units select capture the coordinator of their call      *)
(* before they wait for the lock.  There may be any number of them at any  *)
(* time while the entry is up; an unload ends none, and what is left of    *)
(* them afterwards saves what it captured.                                 *)

(* What an earlier coordinator saves may be older than what the loaded one *)
(* knows, whose last sync is not in the store any more.                    *)
Outdated(g) == current # None /\ age[current] < age[g]

OtherSaves(g) ==
    /\ g \in others \/ (phase = "up" /\ g = current)
    /\ SessionFree
    /\ stored' = Record(g)
    /\ unsaved' = (g # current /\ (unsaved \/ Outdated(g)))
    /\ UNCHANGED <<entryVars, closureVars, dataVars, otherVars, sinceGood,
                   sinceFail>>

(* The last call an earlier load has left behind ends.                     *)
OtherEnds(g) ==
    /\ g \in others
    /\ others' = others \ {g}
    /\ UNCHANGED <<entryVars, closureVars, dataVars, manual, manualOn, poll,
                   stored, histVars>>

-----------------------------------------------------------------------------

Older(a, top) == IF a < top THEN a + 1 ELSE a

(* A dead coordinator is garbage: what it held no longer matters.          *)
Collected(g, v, blank) == IF Dead(g) THEN blank ELSE v

Tick ==
    /\ timer' = [g \in Loads |->
                   IF timer[g] \in 1 .. Interval THEN timer[g] - 1 ELSE timer[g]]
    /\ mode' = [g \in Loads |-> Collected(g, mode[g], FALSE)]
    /\ age' = [g \in Loads |-> Collected(g, Older(age[g], Interval), Interval)]
    /\ checked' = [g \in Loads |-> Collected(g, Older(checked[g], Stale), Stale)]
    /\ fails' = [g \in Loads |-> Collected(g, fails[g], 0)]
    /\ stored' = [age |-> Older(stored.age, Interval),
                  checked |-> Older(stored.checked, Stale)]
    /\ sinceGood' = Older(sinceGood, Unknown)
    /\ sinceFail' = [g \in Loads |->
                       Collected(g, Older(sinceFail[g], RetryBase), RetryBase)]
    /\ UNCHANGED <<entryVars, hook, run, target, otherVars, unsaved>>

Closure(g) ==
    \/ FireOrphan(g)
    \/ FireSkips(g)
    \/ FireSyncs(g)
    \/ RunWrites(g)
    \/ RunSaves(g)
    \/ RunEnds(g)
    \/ RunFails(g)

Entry ==
    \/ \E g \in Loads : SetupBegin(g)
    \/ SetupLoad
    \/ SetupArm
    \/ SetupDone
    \/ SetupFails
    \/ Unload
    \/ Restart

Manual ==
    \/ ManualStart
    \/ ManualWrites
    \/ ManualFails
    \/ ManualSaves
    \/ ManualCancelled

Poll == PollStart \/ PollReads \/ PollWrites \/ PollSaves

Other == \E g \in Loads : OtherSaves(g) \/ OtherEnds(g)

Next ==
    \/ \E g \in Loads : Closure(g)
    \/ Entry
    \/ Manual
    \/ Poll
    \/ Other
    \/ Tick

Spec == Init /\ [][Next]_vars

(* Time passes, a due timer fires, a call of async_execute ends whoever    *)
(* else uses Bluetooth (EveryCallEnds of BleExecute), a save ends.         *)
Fairness ==
    /\ WF_vars(Tick)
    /\ \A g \in Loads :
          /\ WF_vars(FireOrphan(g) \/ FireSkips(g) \/ FireSyncs(g))
          /\ SF_vars(RunWrites(g) \/ RunFails(g))
          /\ WF_vars(RunSaves(g) \/ RunEnds(g))
    /\ WF_vars(ManualFails \/ ManualSaves)
    /\ WF_vars(PollSaves)

FairSpec == Spec /\ Fairness

-----------------------------------------------------------------------------
(* Properties.                                                             *)

(* A running entry with automatic sync is never left without a next sync:  *)
(* its own closure has a timer or a sync that will set one, whatever       *)
(* manual syncs, polls, failures and left-over closures did in between.    *)
NeverUnscheduled ==
    phase \in Running /\ mode[current] =>
        timer[current] # Off \/ run[current] # "none"

(* "makes the interval survive restarts": a timer further away than the    *)
(* longest retry is set for at most one interval, and the time a reading   *)
(* counts as recent, after the clock was last known to be right, however   *)
(* often Home Assistant restarted or the entry was reloaded since.         *)
NeverLate ==
    phase \in Running /\ timer[current] \in RetryMax + 1 .. Interval =>
        timer[current] + sinceGood <= Interval + FreshFor

(* "must not be retried every minute for days on end": the timer of a      *)
(* loaded entry starts no sync sooner than the base retry delay after one  *)
(* it started failed.                                                      *)
BackoffRespected ==
    [][\A g \in Loads :
         g = current /\ run[g] = "none" /\ run'[g] = "syncing" =>
             sinceFail[g] >= RetryBase]_vars

(* When no sync is between its write and its save, the store is at least   *)
(* as recent as the loaded coordinator, so that a restart forgets no sync. *)
(* The exceptions: its save failed, its task was cancelled, or a           *)
(* read_state or units call of an earlier load saved that load's older     *)
(* record over it.                                                         *)
StoreNotBehind ==
    phase = "up" /\ SessionFree /\ ~ unsaved =>
        stored.age <= age[current]

(* While the entry stays up with automatic sync, the clock is written, or  *)
(* read and found right, or a sync by its timer fails, again and again.    *)
KeepsTrying ==
    <>[](phase = "up" /\ mode[current]) =>
        []<>(sinceGood <= FreshFor \/ \E g \in Loads : g = current /\ sinceFail[g] = 0)

(* "Scheduling a single point in time": while the entry is loaded, no      *)
(* closure but its own has a timer.                                        *)
SinglePointInTime ==
    phase = "up" => \A g \in Loads : timer[g] # Off => g = current

-----------------------------------------------------------------------------
(* Implementation of what the entry relies on.                             *)

Armed == phase \in Running /\ mode[current]

(* The closure of the current coordinator, while it is armed.              *)
Wait == IF Armed THEN timer[current] ELSE Off

Trying ==
    IF ~ Armed \/ run[current] = "none" THEN "none"
    ELSE IF run[current] = "syncing" THEN "under way" ELSE "written"

Rest == IF Armed THEN RetryBase - sinceFail[current] ELSE 0

Plan == INSTANCE Timetable WITH
    armed <- Armed, wait <- Wait, trying <- Trying, since <- sinceGood,
    rest <- Rest

(* However loads, left-over closures, manual syncs, polls, failing saves   *)
(* and restarts interleave, what becomes of the timer of the loaded entry  *)
(* is a timetable: no other coordinator's failure, load or sync reaches it *)
(* but as the clock being right, and what is planned is in time.           *)
ImplementsTimetable == Plan!Spec
=============================================================================
