# A verification of hass-lywsd02

TLA+ models of the Xiaomi LYWSD02 integration for Home Assistant, the TLC
configurations that check them on small instances, and machine-checked proofs
for all instances. Paths are relative to `src/custom_components/xiaomi_lywsd/`
unless they begin with `tests/`.

- [The system](#the-system): parts, state, interactions, what is hard
- [The modules](#the-modules): how each corresponds to the code
- [The runs](#the-runs): what each asks, its bounds, the fairness assumed
- [Disagreements](#disagreements): where code and its documentation differ
- [The proofs](#the-proofs): theorems, assumptions, inductive invariants
- [Not modelled](#not-modelled) and [the plan](#the-plan)

## The system

The integration keeps the clock of an E-Ink thermometer right, changes what
its display shows and, if asked to, polls its sensors. Everything runs as tasks
of one event loop: code between two `await`s is atomic, and at every `await`
another task may run or a cancellation may arrive.

| Component | State | Operations | What makes it correct |
| --- | --- | --- | --- |
| **Bluetooth access** `__init__.py` `async_execute` | the lock shared by all entries and its queue; per call: coordinator, attempt, client, `session_open` | acquire, look up, drop stale connection, connect, run the operation, disconnect, retry | one session at a time; the connectivity sensor tells the truth; an answered write is not repeated; every call comes back |
| **Automatic sync** `__init__.py` `_async_setup_auto_sync`, `_run_auto_sync` | one timer closure per load (`state["unsub"]`), `consecutive_auto_failures`, `next_sync` | schedule, fire, skip, retry with backoff, reschedule, tear down | never without a next sync, never late, no hammering, survives restarts and reloads |
| **Coordinator** `coordinator.py` | `LywsdData`: last sync, drift, drift rate, last reading, options shown, counters; session start | poll, `note_sync`, `async_after_sync`, load, save | what it says of the clock was measured; the store is not behind |
| **Clock check** `coordinator.py` `_check_clock` | the latch `_tz_attempted`, `_tz_unsupported`; `_drift_floor_warned` | read, compare, write or hold back | a wrong clock is cured; firmware that cannot be cured is not written at every poll |
| **Clock protocol** `device/lywsd02mmc.py` | none; the clock's own | read, aim and write, read back, mode command | the second T arrives at second T; what is reported is what was measured |
| **Store** `store.py` | one record per entry | load, save, remove | a damaged or missing record is not fatal |
| **Entry lifecycle** `__init__.py` | `runtime_data`, registered services, repair issues | set up, fail, unload, reload, migrate, remove | no timer, task or service survives its entry |
| **Button, selects, services** `button.py`, `select.py`, `__init__.py` | what each captured before it waited | press, choose, call | optimistic state is rolled back to what holds |
| **Options and schedule arithmetic** `const.py` | none | clamp, choose, divide | stays within its ranges |
| **Config flow** `config_flow.py` | the flow's data | discovery, user, manual, options | one entry per address |

They meet in four ways. Polls, the timer, buttons, selects and services all call
`async_execute`, which runs their operation on the open connection. Their
operations, and `_check_clock` in the middle of a poll, call `note_sync`, and
after the session `async_after_sync`, which saves the record and calls the
coordinator's `reschedule_auto_sync`, a function of the closure. The closure
reads the coordinator it was made with, but `_run_auto_sync` works on
`entry.runtime_data`, which after a reload is another one. And a scheduled sync
is skipped on the strength of what an earlier poll has read.

What is hard in it:

- a call keeps, across its wait for the lock, a coordinator, an offset, an
  option or a previous state that others change meanwhile;
- a sync, a `read_state` or a selection in flight outlives the load that started
  it, and saves the record of a coordinator that is no longer in use;
- an attempt may fail or be cancelled at every `await`, with a connection open,
  half open or left over, before or after a write reached the clock;
- failures of one kind are retried and of another not, and a retry finds the
  clock as the failed attempt left it;
- the schedule lives in memory and is rebuilt, at each start, from a record
  that is saved some time after the fact and may be unreadable;
- the firmware is unknown: it may not keep the time, may lack or ignore the
  offset byte, may misread the mode command;
- whole seconds, unknown latencies, and comparisons that must not be off by
  half of one.

`PROJECT.json` lists each such hazard at its line, with the properties that
cover it.

## The modules

| Module | Models | Composed of |
| --- | --- | --- |
| `BleAccess` | what `async_execute` promises its callers (abstract) | |
| `BleExecute` | `async_execute`, `begin_connection`, `end_connection` | implements `BleAccess` |
| `AutoSync` | the schedule of one entry over loads and restarts, with polls, manual syncs and the store | implements `Timetable`; takes a call of `BleExecute` as one that ends |
| `ClockCheck` | `_check_clock` and the other writers of the same clock | takes a session as one step |
| `GattClock` | `get_time`, `set_time`, `set_time_format` with time in ticks, retried | inside one session at a time |
| `Selects` | both selects, `set_units`, the mode command, `read_state`, the units a poll reads, the record | inside one session at a time |
| `Timetable` | what the automatic sync promises: one timer, its due times, retries and rest (abstract) | |
| `Schedule` | the arithmetic of options, interval, drift rate and migration, as operators | |
| `Entries` | flows, migration, setup, unload, removal, services and calls of several entries | extends `Schedule` |
| `BleExecuteProofs`, `AutoSyncProofs`, `AutoSyncRefinement`, `ClockCheckProofs`, `GattClockProofs`, `SelectsProofs`, `ScheduleProofs`, `EntriesProofs` | theorems | extend their module |
| `MC...` | values for TLC | extend their module |

The layers fit by what the lower one is shown to guarantee. `BleExecute` shows
that sessions exclude each other and that each call comes back. The other modules use
that: in `AutoSync` and `ClockCheck` a session is one step or a pair of them, and
its end is fair; in `GattClock` and `Selects` the attempts of one call are not
interrupted by another's. `Entries` sees a loaded entry from outside: of its
schedule only the choice it was set up with, of a call only what it named.

### BleExecute and BleAccess

A caller is a task inside `async_execute`. `pc` is the `await` it is suspended
in: in the lock's queue, before `close_stale_connections_by_address`, in
`establish_connection`, in the operation, in `asyncio.sleep(1)` or in the
`finally` block. Each action is the code from one `await` to the next.
`DeviceMissing`, `DialFailed` and `OpEnds` are the ways an attempt ends,
`Transient` and `NotRetried` the `except` clauses, `EndAttempt` the `finally`
block, and the `Cancel...` actions the arrival of a `CancelledError` at each
kind of `await`. `LinkLost` drops the connection under an operation. A task
keeps the coordinator it found at its entry, so that two coordinators of one
clock, before and after a reload, can both be in use.

The one-second ticker of the duration sensor is folded into `connectivity`,
which it starts and stops with. `_clear_proxy_issues` is left out.

`BleAccess` is what callers rely on: calls are granted in the order they asked,
open at most `MaxRetries` sessions, one after another, come back with none open,
and do come back. `ImplementsAccess` maps `queue` to the line, `lock` to the
grant and the task whose `session_open` is set to the session.

### AutoSync

`Loads` are the coordinators, one for each load of the entry, used again when
nothing refers to them. `timer[g]` is `state["unsub"]` of the closure made with
coordinator `g`, `run[g]` what its `_fire` is doing, `target[g]` the
`entry.runtime_data` its `_run_auto_sync` works on. `DueIn` and `RetryIn` are
`_due_at` and `_retry_at`, `AfterRun` and `AfterSkip` what `_fire` schedules,
`NoteSync`, `Save` and `AfterSync` the coordinator's functions.

Instants are ages and countdowns: `age` is the time since `last_sync`, `checked`
that since a reading well inside the tolerance, `timer` that to the next firing.
`Tick` moves all of them, and waits for a timer that is due. Ages saturate where
the code no longer tells them apart, as does the failure count where the delay
has reached its maximum, so nothing is cut off by a constraint.

Setup goes through its stages (store read, first poll, timer armed, platforms
forwarded), each of which may fail or be cancelled. A load that finds the store
empty or unreadable leaves the coordinator as it is. `others` are the earlier
coordinators a `read_state` or units call still has, which saves the whole record
of the one it captured (`OtherSaves`). `Unload` stands for
an unload, also the one an options change triggers; `Restart` for the end of the
process at any point.

Assumptions of this model, all on the safe side of the delays in `const.py`
(60 s, 30 min, 6 h, at least a day):

- from its write to its save a sync has no other session ending in between
  (`SessionFree`: a disconnect and a save are shorter than another connection);
- a sync ends before a timer that was re-armed during it is due;
- the save of a service call or poll is one step; a press of the button reads
  `entry.runtime_data` again after the sync, which `ManualTarget` keeps;
- the interval is one constant: how long it is, and that a new drift rate changes
  it at the next sync, is the arithmetic of `Schedule`.

`Timetable` is what whoever relies on the clock sees of it: no coordinators,
store, polls or manual syncs, but one `wait` until the next sync, what the sync
is about (`trying`), how long ago the clock was right (`since`), and the `rest`
of the base delay after a failure. `Arm` and `Disarm` are a load and its end;
`Skip`, `Try`, `Write`, `Done` and `Fail` a firing of the timer; `Right` and
`Replan` anybody else's sync and `reschedule_auto_sync`.

### ClockCheck

One action is one poll: its reading, its decision and its write, all inside one
session. `error` is the clock's error as the code classifies it: within half the
tolerance, within it, beyond it. `Matches`, `Differs`, `Refused`, `TzStale`,
`HeldBack` are the conditions of `_check_clock` in their order, `Latch` and
`AttemptedAfterReading` what a reading leaves of the latch. A poll's write
succeeds, fails before it reached the clock, or is sent and not confirmed, which
the code does not remember; it passes its read-back (`ReadBackAgrees`) where the
clock took the time or was right before. The scheduled sync and manual ones end in
the same three ways. A manual sync captures its offset before it waits
(`ManualStart`), and writes it later. `verified` is `_clock_recently_verified`.
`firmware` never changes; what it does with a time or an offset is chosen at the
start.

`NoteSync` is a sync with its save, which may not happen: the save fails, or the
task is cancelled between the two. `record` is what the store has, `earlier` the
`last_sync` of a coordinator of before a reload that calls still have: they note
their syncs on it (`EarlierSync`) and save it (`EarlierSaves`). A load takes the
record (`Reload`) or finds nothing (`ReloadUnread`). `unsaved` is set when the
record does not hold the last sync, by one of these causes.

Assumptions: the scheduled sync looks at the reading and writes in one step (one
whose reading changes while it waits does what a manual sync of the local offset
does); of the coordinators of earlier loads one at a time is in use, the last or
one before it; what such a coordinator read last may be anything.

### GattClock

One call of `set_time` or `set_time_format` and its attempts, request by
request. `now` is the true time in ticks, `error` the clock's minus it. A request
travels `MinTrip` to `MaxTrip` each way, and a write of the second T makes the
clock T when it arrives. `age` is how old the caller's `when` is when
`set_time` reads the clock: nothing for a sync, the duration of the mode command
for a mode change. Python's floating point, exact here for quarter seconds, is
replaced by integers. `Aim`, `Wait`, `Expected` are the expressions of
`set_time`. `RequestFails` is any exception of any request, a write's before or
after it arrived; `SetTimeFails` and `SetTimeDone` are the classification at the
end of `set_time_format`. A poll that writes passes on its reading, which are
the same steps.

### Selects

A call selects units or a mode, is `read_state`, or is a poll, and happens once:
`target` is the coordinator it found and `previous` the option it will put back.
From `Acquire` on it holds the lock, over its attempts; `pc` is then the request
it waits for: `writing` and `verifying` of `set_units`, `rolling` while it puts
the original byte back, `repairing` while `set_time_format` writes the clock
after the mode command. `closing` is the time between the operation's success and
the save. `AttemptFails` is any exception of any request, a write's after it
arrived too; `Fail` is what the handlers leave. `firmware` says what the clock
does with a written byte and with the mode command. `data` holds the options of
every coordinator, `stored` those of the record, which `Close` writes whole.

What can be wrong with the option shown for a reason the code cannot help is kept
in `doubt`: the clock was changed by somebody else, a write's fate is unknown, an
option came from an entity's last state or a record that a save did not reach, a
call of an earlier coordinator changed the clock, or the option a failed call put
back overwrote a newer one. `unsaved` is the same for the record. `ShownIsClocks`
and `StoredIsShown` hold whenever these do not. The bare statements, without them,
are false.

Assumptions: a reload is one step, since entities exist only while the entry is
loaded; a poll publishes what it read when it lets go of the lock (its save is
shorter than another connection); an entity's last state is none or what the
coordinator showed.

### Schedule

`const.py`, the average in `note_sync` and the migration, operator by operator
under the names of the code, over integers: seconds, and millionths of a second
per day, below which the code takes a rate for zero. Floats are rounded down.
`auto_sync_from_v1_hours` keeps the rounding of Python (half to even) and the
order of the list that `min` breaks ties by. `Entries` runs on these operators;
what they return for every argument is proved.

### Entries

`state` is an entry's place in Home Assistant's life cycle, with the `await`s of
`async_setup_entry` between its stages: `preparing` from the migration to the
schedule, `forwarding` from there to the listener and services; `jammed` is an
entry whose platforms did not unload. `SetUpBegins` is `async_migrate_entry` and
the new coordinator, `Arm` the schedule, `SetUpDone` what comes after the
platforms. `UnloadDone` is `async_unload_entry`, with the count of entries that
decides about the services, and, in a removal, `async_remove_entry`. `SaveOptions`
is the options flow, which asks for a reload only when the listener is there
(`Listens`); an options form is open only for an entry that was set up once.

`step` and `uid` are a config flow's place and unique id. Home Assistant aborts
the other flows of an address when one creates its entry, which `Create` does; a
manual form sets its unique id and creates its entry in one step.

A call names its targets once and works through them in any order. `Enter` takes
the coordinator, also that of a setup that failed, `Missing` finds none because
the entry was unloaded, `Perform` succeeds, clears the entry's repair issues and
may save the record, `Stops` fails or is cancelled. A press of a button or a
selection is a call of one target here.

## The runs

| Run | States | Question |
| --- | --- | --- |
| `ble_execute` | three tasks, two clocks, three coordinators, three attempts | Are sessions exclusive, is the connectivity sensor truthful, is no connection left beside a new one, is a call's answer that of its last operation, is an answered write never repeated, does each step bring a call nearer its end, does every call end, is `BleAccess` implemented? |
| `auto_sync` | one load at a time, any options, polls | Is the schedule never lost, never late, the store never behind, the backoff kept, and does it keep trying? |
| `auto_sync_reload` | two coordinators, clock-only | While a sync, a call or a selection of the previous load goes on, is `Timetable` implemented, and the store behind only where that saved its record? |
| `clock_check` | two offsets, any firmware | Is no confirmed write of a stale offset repeated, the verdict on the firmware deserved, are confirmed corrections of the drift apart, is a drifted clock cured, the offset settled? |
| `gatt_clock` | quarter seconds, two attempts | Is a write aimed within the error of the latency estimate, never taken for done when the clock is wrong, never rejected when right, is the clock left as it was or right however a call fails, and are the noted drift and residual the clock's own? |
| `selects` | two calls, two coordinators, three firmwares, two attempts | Is the option shown the clock's, a success a change the clock has made, the record the option shown? |
| `entries` | two entries, two clocks, two flows, one call | Has a clock one entry, are the services there as long as needed, does a call reach all it named, do options take effect and an upgrade leave automatic sync off, does nothing outlive its entry? |

The remaining five check one property each that the code does not have; see below.

### Why the bounds are enough

- `ble_execute`: with three tasks two can wait behind a third and be cancelled
  in either order; two coordinators of one clock and a third of another cover a
  reload in flight and a bystander; of three attempts there is a first, a middle
  and a last. TLC explores all of it, with every cancellation.
- `auto_sync`: the delays keep their order, startup ≤ retry base ≤ retry
  maximum < interval, and are as small as that allows; with three counted
  failures the backoff has its base, a value in between and its cap. The two runs
  divide the work: polls and skips on one coordinator at a time, two coordinators
  without polls. What the division leaves out, three loads, or a left-over
  closure with polls, the theorems cover.
- `clock_check`: two offsets, either of them available to a service call; a
  floor of two ticks has an inside, an end and an outside; one manual sync at a
  time, of which any number may follow, and one earlier load.
- `gatt_clock`: four ticks a second, so that every phase of a call against the
  second occurs with the midpoint exact; trips of 2 to 4 ticks, in each direction
  on its own, so that the estimate is wrong by up to the whole spread; a clock
  that is right, off within the tolerance, and off beyond it; a mode command
  shorter than a second and one longer than the tolerance. The time restarts at
  each call, which nothing observes.
- `selects`: of two calls one can hold the lock while the other has read the
  option it will put back, or finish after a reload that the other began after;
  a third adds no new pair. Each firmware keeps, ignores or alters units and
  takes, refuses or misreads the mode; the nine combinations do not interact, so
  three cover each value. Bytes: both for Celsius, Fahrenheit, and one unknown.
  `View` leaves out what is written again before it is read.
- `entries`: two entries are one that goes and one that stays, or both going;
  two spellings of two addresses; flows of each kind side by side; one call of one
  or both entries. `StoredHours` has an absent, a zero and a positive option, the
  choices on and off. Entries, clocks and flows are interchangeable (symmetry),
  and `View` leaves out what is written again before it is read. More entries,
  clocks, flows, calls and options are covered by the theorems.

### Fairness

- `BleExecute!FairSpec`: tasks that can go on do (`WF` of each task's own
  steps: timeouts of bleak and of the operations end every `await`), and the
  lock is handed on. Callers need not call, and cancellations need not come.
- `AutoSync!FairSpec`: time passes, due timers fire, saves end. A sync waits
  for a session in competition with others: strong fairness, which
  `EveryCallEnds` of `BleExecute` justifies. Polls and manual syncs need not
  start, and none needs to succeed.
- `ClockCheck!FairSpec`: of infinitely many polls that could read or write, some
  succeed (`SF`). Without it a clock out of range is never cured.
  `ScheduledSpec`, used by the run that looks for a counterexample, adds that
  of the scheduled syncs that are not skipped some succeed, so that the
  counterexample is not one of a schedule that stopped.
- `GattClock` and `Selects` have no liveness property: their calls end by their
  attempt bound, and waiting for the lock is in `BleExecute`. In `Entries` nothing
  needs to happen: users and Home Assistant start every step.

## Disagreements

Each has a run in which TLC finds the counterexample.

- `ble_always_disconnects`. A cancellation inside `await client.disconnect()`
  (`__init__.py:313`) is not an `Exception`, so `end_connection` is not reached:
  the connectivity sensor stays on with no session.
- `auto_sync_single_point`. `_teardown` cancels an armed timer, not a `_fire`
  whose sync is in flight; when that ends, it arms its timer again, and after a
  reload two schedules run (`__init__.py:722`).
- `clock_check_stale_offset`. A manual sync with an offset from before summer
  time, written after a poll had corrected it, makes the next poll conclude that
  the firmware cannot keep offsets; nothing corrects it then
  (`coordinator.py:314`).
- `selects_repair`. `async_execute` wraps `LywsdClockRepairError` as
  `HomeAssistantError` (`__init__.py:308`), so the handler of `select.py:178`,
  which would keep the new mode, cannot run: the select goes back to the mode the
  clock no longer has. The test of it replaces `async_execute`.
- `entries_options`. Options saved while a setup waits, for the lock in its first
  poll for instance, find no update listener yet and take effect at the next load
  only (`__init__.py:212`). `RunsItsOptions` excludes these (`overlooked`).

Seen while modelling, and without a run:

- A skip after an earlier failure is followed by the retry delay and leaves the
  failure count, where the docstring promises a full interval from now
  (`__init__.py:612`, `:725`).
- The floor between a poll's writes counts from a verified sync, so on firmware
  whose read-back disagrees every poll writes (`coordinator.py:332`, `:339`);
  `WritesSpaced` therefore counts confirmed corrections.
- A write of a stale offset whose read-back fails or disagrees does not set
  `_tz_attempted` (`coordinator.py:359`, `:377`), so every poll repeats it, though
  the comment at `:331` says that a stale offset is cured by one write and the
  check above catches the case where it is not. `OneTzWrite` is therefore about
  writes that were read back.
- A sync that fails in its read-back may have written its offset, on any path: the
  next poll can then condemn firmware that kept an earlier one. `VerdictDeserved`
  excludes it (`disturbed`).
- A `read_state` or a selection of units that outlives a reload saves the record
  of the coordinator it captured (`__init__.py:392`, `select.py:99`), and with it
  an older `last_sync` over a newer one; a restart then plans the next sync too
  early, and polls may correct the drift again within the floor. `StoreNotBehind`
  and `WritesSpaced` name it as their exception (`unsaved`).
- A mode change aims its clock write by a time taken before the mode command, so
  the clock ends up slow by that command's duration, and the read-back is off by
  the same (`device/lywsd02mmc.py:322`); `Aimed` allows for it (`age`).
- A `set_time` whose read-back is lost is retried as a whole, and the drift noted
  is then that of the clock the first attempt has just set. `DriftMeasured` is
  therefore stated for a first attempt.
- `set_time_format` turns a failed read-back into `LywsdClockRepairError`, which
  `async_execute` retries, though it never retries `LywsdVerifyError`; it retries
  `LywsdUnsupportedError` as well, a clock write each time, and wraps it, so that
  the message of `select.py:189` is never shown.
- With latencies that differ by more than `Tolerance` minus half a second allows
  for, a good write is reported as failed: the assumption of `Deserved` below.
- `set_units` that fails its read-back after an attempt that was lost puts back
  what the lost attempt wrote; and what it puts back is not read back.
- A select's handler puts back the option it found. That changes something only
  if another call came between, and then it overwrites the newer option
  (`Overtaken`); a call still under way over a reload leaves the option of before
  in the new coordinator, and its save, of all it knows, in the record.
- With two entries, one of them disabled, the services stay when the other is
  unloaded; and they stay when the last loaded one is removed and a disabled one
  after it: `ServicesWhileLoaded` is the half that matters.
- A call that was under way when its entry was removed saves the record again
  after `async_remove_entry` deleted it (`unclean`).
- A 0.1.x poll interval of 60 to 119 seconds becomes as many minutes, cut to 60.

## The proofs

`tlapm` checks every proof; nothing is assumed but the named assumptions on the
constants, which TLC evaluates in the runs.

**BleExecute**, for any tasks, coordinators, addresses and retry count. None of
the safety properties is inductive: who may lower the connectivity flag depends
on who is past the lock, and that on the queue. `IInv` adds that the lock's
holder is the one task past it (`LockInv`), that the queue holds waiting tasks,
each once (`QueueInv`), what a task's place says of its locals (`CallInv`), that
the attempt counter bounds the sessions opened (`AttemptInv`), that another
attempt follows only a failure without an answer (`OutcomeInv`), and that no
stale connection survives from `CloseStale` on (`LinkInv`). From it:
`TypeCorrect`, `Exclusion`, `Truthful`, `OneLink`, `Faithful`, `NoRewrite`, and
`RunDown`: the places of a call are counted down (`StepsLeft`), a further attempt
is paid for by the attempt counter, and nobody else moves it (`OthersStand`). It
is the safety half of `EveryCallEnds`, which adds that the steps are taken. For
`Implementation` each action is shown to be one of `BleAccess` or a stutter.

**AutoSync**, for any number of coordinators and any delays in the order
`DelaysAssumption` names. `IInv` is a conjunction that mirrors the properties:

- `RefInv`: who refers to which coordinator;
- `GoodInv`: `sinceGood` is as recent as any sync or reading remembered in a
  coordinator or in the store, without which a timer rebuilt from the record
  could be late; `LateInv` is `NeverLate` for every closure;
- `BackoffInv`: a timer plus the time since the failure is at least the base
  delay, and every write on its way to a reschedule is as recent as that
  failure; `NewInv`: nothing else knows a coordinator that is being set up;
- `OneWriter`: one sync at a time is between write and save;
- `StoreInv`: the store is as recent as the loaded coordinator unless `unsaved`
  (see below), and a coordinator about to save its sync has the newest one.

`AutoSyncRefinement` proves that `AutoSync` implements `Timetable`
(`Implementation`). The mapping shows of all closures the one of the loaded
coordinator: its timer, its sync, and what is left of the base delay after its
failure. Each action of `AutoSync` is one of `Timetable` for that closure
(`EntryImplements`, `FireImplements`, `RunImplements`, `AfterSyncImplements`), or
leaves it alone (`OthersImplement`, `Kept`); `DueInDue` needs `GoodInv`, and the
rest `BackoffInv`. What a timetable is good for is proved of `Timetable` itself,
from ten actions instead of those of `AutoSync` (`PromiseKept`).

The exponential backoff needs 2^n to be a positive number, which is proved as
the cardinality of a power set, induction being out of the prover's reach; that
the delay grows to its maximum and stays there, so that counting no further than
`MaxFails` loses nothing (`RetryGrows`), follows in the same way. From `IInv`:
`TypeCorrect`, `Scheduled`, `OnTime`, `StoreRecent`, `Backoff`.

`StoreInv` lets go of three cases, in which a restart forgets a sync: its save
failed, its task was cancelled before the save, or a call of an earlier load
saved that load's record over it, which is older (`Outdated`). Any save of the
loaded coordinator ends them.

**ClockCheck**, for any offsets and any floor. Of all steps
only the polls, a write of somebody else that arrives, drift, a battery or offset
change and a load touch the clock and the latch (`Cases`). `SpacedInv`: a poll's
correction counts as a sync, and a record that is not `unsaved` is no older than
the last sync. `WriteInv`: once a poll's write of the offset was read back it no
longer reads as stale, by matching, by the latch or by the verdict. `LatchInv`:
while nothing has disturbed a clock that keeps the byte, the byte is what was
attempted, so that a refusal is the firmware's. From it: `TypeCorrect`,
`WrittenOnce`, `Verdict`, `Spaced`.

**GattClock**, for any number of ticks per second, latencies, mode command
times, initial errors, tolerance and retry count. The arithmetic is in four
lemmas: a whole second begins less than a second before its instant
(`WholeSecond`), a reading is right within half of one (`Reading`), the cue of a
write is between one tick and a second away (`Cue`), and a write that travels
for `out` leaves the clock off by `oneWay - out - age` (`Taken`). `IInv` adds to
the properties what each stage of an attempt knows: the estimate lies within the
latencies, `age` is nothing for a sync, an attempt has an outcome only when it
ended (`StageInv`), the clock is aimed from the write on (`AimedInv`), and the
drift is that of the call (`DriftInv`). `WhenInv` says that each
attempt writes by a `when` of its own, from which `LeftAloneOrRight` is
inductive over the retries. From it: `TypeCorrect`, `OnTheSecond`, `Right`,
`AloneOrRight`, `Drift`, `Residual`; and `Deserved` under the additional
assumption that half a second and twice the spread of the latencies are within
the tolerance.

**Selects**, for any coordinators, calls, firmware and retry count. `IInv` adds
that one call at a time has a session (`OneSession`), that what a call wants and
puts back fits its kind (`CallsFit`), and what the clock has at each request of an
attempt (`ClockFollows`): before its write what the last known state was, after
it what the firmware made of it, with `original` the byte to return to. From it:
`TypeCorrect`, `Shown`, `Success`, `Stored`. Of what a call puts back it uses only
that the option is either that of the coordinator at its start or was overtaken.

**Schedule**, for all rates, tolerances, durations and stored options:
`IntervalInRange`, `DelaysFit` (the delays are in the order `AutoSync` and
`Timetable` assume, whatever the interval), `ToleranceKept`,
`BetterClockWaitsLonger`, `UpgradeKeepsOff`, `MigratedInterval`. Of the drift
rate: one sample moves it at most half way (`SampleBounded`), it never leaves the
range of what was measured (`EstimateWithinSamples`), and a reading that is a
second off is an error of at most 2 s/day in a sample and 0.14 s/day in one of a
week, as `const.py:48` has it (`SampleResolution`), and moves a known rate by at
most a fourteenth of a second per day, however short the sample
(`SecondHardlyMoves`). Division is known to the provers by `Quotient`; a larger divisor has a smaller quotient (`QuotientOrder`), and one of
the choices is nearest (`SomeNearest`).

**Entries**, for any finite set of entries and any clocks, flows, calls and
options. The properties are about different variables, so each has an inductive
invariant of its own rather than a conjunct of one: `AddressInv` (addresses are
spelled one way, no flow at its confirmation holds one that is taken),
`ServicesInv` (inductive as it stands, because of two entries neither is the only
one: `OnlyOne`), `CallInv` (a call has done what it named and no longer has to do),
`RemovedInv` (an entry that is gone and clean has no call left that would touch
it; uses `CallInv`), `OptionsInv` (what runs follows the options, and these the
user's wish to have sync off; `UpgradeKeepsOff` carries it over the migration).
From them: `OneEntry`, `Services`, `Calls`, `Removed`, `Options`, `TypeCorrect`.

**Only model-checked**: liveness (`EveryCallEnds`, `KeepsTrying`, `DriftCured`,
`OffsetSettled`, the fairness part of `ImplementsAccess`), because the provers
do not reach fairness.

## Not modelled

- Sensor and binary sensor entities, diagnostics, translations: projections of
  the coordinator's data; no state, no decision.
- Byte layouts: calls of `struct`. Forms, schemas and titles: declarations.
- The climate notification (`read_climate`): one event and one waiter inside one
  session, undone with it.
- Which repair issue is raised, from the list of scanners: one flag stands for both.
- The parsing of a damaged record field by field: a field that cannot be read is
  one that is not there.
- Float rounding in the interval and the drift rate.
- `src/tools`: stand-alone probes, run by hand.

## The plan

In the order of what matters most, all done: 1. `BleExecute` and `BleAccess`;
2. `AutoSync`; 3. `ClockCheck`; 4. `GattClock`; 5. `Selects`; 6. `Schedule`;
7. `Entries`, which is the entry life cycle and the config flow in one module,
because the flows end in entries and the removal makes room for flows. All are
checked, and their safety properties proved.

What could follow: the interval of `AutoSync` as a variable that `Schedule`
computes at each sync, which multiplies its states by the rates; and a
composition of `Entries` with `AutoSync` for several entries, each with its own
schedule behind the one lock.
