----------------------------- MODULE ClockCheck -----------------------------
(***************************************************************************)
(* The clock check of a climate poll (_check_clock, coordinator.py) and    *)
(* the other writers of the same clock: the scheduled sync, which it may   *)
(* stand in for, and manual syncs.  The poll reads the clock and the UTC   *)
(* offset stored beside it, and writes both when the clock drifted beyond  *)
(* the tolerance or the offset is not the local one.                       *)
(*                                                                         *)
(* A poll and every other sync hold the domain lock (BleExecute), so each  *)
(* check is one step; what it captured before it got the lock is state.    *)
(* last_sync and the last reading are persisted by every save, the latch   *)
(* is not; calls of a load that outlive it save what its coordinator has.  *)
(* The firmware is an unknown: it may ignore or lack the offset byte, and  *)
(* it may not take the written time, which the read-back then shows unless *)
(* the clock was right before.                                             *)
(***************************************************************************)
EXTENDS Naturals

CONSTANTS
    Offsets,        \* UTC offsets the local time zone takes, in hours
    ServiceOffsets, \* offsets a sync_time call may name explicitly
    NoByte,         \* the clock answers without an offset byte
    None,           \* no offset
    Floor           \* DRIFT_SYNC_MIN_INTERVAL_SECONDS, in ticks

ASSUME OffsetsAssumption ==
    /\ ServiceOffsets \subseteq Offsets
    /\ NoByte \notin Offsets /\ None \notin Offsets /\ NoByte # None
ASSUME FloorAssumption == Floor \in Nat \ {0}

VARIABLES
    firmware,       \* what the clock does with a written offset and time
    error,          \* of the clock, against half the tolerance and all of it
    deviceTz,       \* the offset byte in the clock
    localTz,        \* the local UTC offset
    attempted,      \* _tz_attempted
    unsupported,    \* _tz_unsupported
    sinceSync,      \* ticks since last_sync; Floor: as long ago, or never
    verified,       \* the last reading is recent, its drift small
    pressed,        \* the offset a manual sync captured before its lock
    record,         \* the same two as the store has them
    earlier,        \* last_sync of an earlier load with calls in flight
    tzWritten,      \* history: a poll's write of this offset was read back
    disturbed,      \* history: the byte changed, or may have, since attempted
    unsaved,        \* history: last_sync is not in the record
    sinceWrite      \* history: ticks since a poll corrected the drift

deviceVars == <<firmware, error, deviceTz>>
latchVars == <<attempted, unsupported>>
dataVars == <<sinceSync, verified>>
storeVars == <<record, earlier, unsaved>>
byteVars == <<tzWritten, disturbed>>
vars == <<firmware, error, deviceTz, localTz, attempted, unsupported,
          sinceSync, verified, pressed, record, earlier, tzWritten,
          disturbed, unsaved, sinceWrite>>

Errors == {"small", "fair", "large"}
Records == [sync : 0 .. Floor, verified : BOOLEAN]
Firmwares == [offset : {"keeps", "ignores", "lacks"},
              time : {"keeps", "refuses"}]

(* A clock never synced or read; and one synced just now.                  *)
Blank == [sync |-> Floor, verified |-> FALSE]
Synced == [sync |-> 0, verified |-> TRUE]

TypeOK ==
    /\ firmware \in Firmwares
    /\ error \in Errors
    /\ deviceTz \in Offsets \cup {NoByte}
    /\ localTz \in Offsets
    /\ attempted \in Offsets \cup {None}
    /\ unsupported \in BOOLEAN
    /\ sinceSync \in 0 .. Floor
    /\ verified \in BOOLEAN
    /\ pressed \in Offsets \cup {None}
    /\ record \in Records
    /\ earlier \in 0 .. Floor \cup {None}
    /\ tzWritten \in BOOLEAN
    /\ disturbed \in BOOLEAN
    /\ unsaved \in BOOLEAN
    /\ sinceWrite \in 0 .. Floor

Init ==
    /\ firmware \in Firmwares
    /\ error \in Errors
    /\ deviceTz \in IF firmware.offset = "lacks" THEN {NoByte} ELSE Offsets
    /\ localTz \in Offsets
    /\ attempted = None
    /\ unsupported = FALSE
    /\ sinceSync = Floor
    /\ verified = FALSE
    /\ pressed = None
    /\ record = Blank
    /\ earlier = None
    /\ tzWritten = FALSE
    /\ disturbed = FALSE
    /\ unsaved = FALSE
    /\ sinceWrite = Floor

-----------------------------------------------------------------------------
(* What the reading says.                                                  *)

Matches == deviceTz = localTz

Differs == deviceTz # NoByte /\ deviceTz # localTz

(* The offset was written, and yet it still differs: the clock does not    *)
(* keep the byte.                                                          *)
Refused == Differs /\ ~ unsupported /\ attempted = localTz

(* Slip: the offset is compared with no memory of what was written.        *)
TzStaleAlways == Differs

TzStale == Differs /\ ~ unsupported /\ attempted # localTz

Drifted == error = "large"

(* Slip: a stale offset waits as well.                                     *)
HeldBackWhateverWrong == sinceSync < Floor

(* A clock that is wrong right after a sync is not written at every poll.  *)
HeldBack == Drifted /\ sinceSync < Floor

Wrong == Drifted \/ TzStale

(* Slip: remembers what the clock reports.                                 *)
AttemptedReported == IF Matches THEN None ELSE deviceTz

(* The latch, as every reading leaves it.                                  *)
AttemptedAfterReading == IF Matches THEN None ELSE attempted

Latch == unsupported' = IF Matches THEN FALSE ELSE unsupported \/ Refused

(* A write reached the clock: it takes of it what its firmware keeps.      *)
DeviceTakes(o) ==
    /\ error' = IF firmware.time = "keeps" THEN "small" ELSE error
    /\ deviceTz' = IF firmware.offset = "keeps" THEN o ELSE deviceTz
    /\ UNCHANGED firmware

(* A write counts when the time read back is right; that of a clock that   *)
(* did not take it may have been right before.  (Agreeing within           *)
(* TIME_VERIFY_TOLERANCE is within half of any tolerance.)                 *)
ReadBackAgrees == firmware.time = "keeps" \/ error = "small"

(* A sync or a poll's write is noted, and then saved, unless the save      *)
(* fails, or its task ends before it.                                      *)
NoteSync ==
    /\ sinceSync' = 0 /\ verified' = TRUE
    /\ \/ record' = Synced /\ unsaved' = FALSE
       \/ unsaved' = TRUE /\ UNCHANGED record
    /\ UNCHANGED earlier

-----------------------------------------------------------------------------
(* A poll whose clock reading succeeded; one that fails changes nothing.   *)

(* Slip: a reading that is held back counts as a sync.                     *)
PollReadsRestartingFloor ==
    /\ ~ Wrong \/ HeldBack
    /\ attempted' = AttemptedAfterReading
    /\ Latch
    /\ verified' = (error = "small")
    /\ sinceSync' = IF Drifted THEN 0 ELSE sinceSync
    /\ UNCHANGED <<deviceVars, localTz, pressed, storeVars, byteVars,
                   sinceWrite>>

PollReads ==
    /\ ~ Wrong \/ HeldBack
    /\ attempted' = AttemptedAfterReading
    /\ Latch
    /\ verified' = (error = "small")
    /\ UNCHANGED <<deviceVars, localTz, sinceSync, pressed, storeVars,
                   byteVars, sinceWrite>>

(* Slip: the attempt is remembered before its write has succeeded.         *)
PollWriteFailsRemembered ==
    /\ Wrong /\ ~ HeldBack
    /\ attempted' = IF TzStale THEN localTz ELSE AttemptedAfterReading
    /\ Latch
    /\ verified' = (error = "small")
    /\ UNCHANGED <<deviceVars, localTz, sinceSync, pressed, storeVars,
                   byteVars, sinceWrite>>

(* The write raises before it reached the clock.                           *)
PollWriteFails ==
    /\ Wrong /\ ~ HeldBack
    /\ attempted' = AttemptedAfterReading
    /\ Latch
    /\ verified' = (error = "small")
    /\ UNCHANGED <<deviceVars, localTz, sinceSync, pressed, storeVars,
                   byteVars, sinceWrite>>

(* The write was sent, but its read-back fails or disagrees: it counts as  *)
(* no attempt and no sync, and the next poll may write again.              *)
PollWriteUnconfirmed ==
    /\ Wrong /\ ~ HeldBack
    /\ DeviceTakes(localTz)
    /\ attempted' = AttemptedAfterReading
    /\ Latch
    /\ verified' = (error = "small")
    /\ disturbed' = TRUE
    /\ UNCHANGED <<localTz, sinceSync, pressed, storeVars, tzWritten,
                   sinceWrite>>

PollWrites ==
    /\ Wrong /\ ~ HeldBack
    /\ ReadBackAgrees
    /\ DeviceTakes(localTz)
    /\ attempted' = IF TzStale THEN localTz ELSE AttemptedAfterReading
    /\ Latch
    /\ NoteSync
    /\ tzWritten' = (TzStale \/ tzWritten)
    /\ disturbed' = (~ TzStale /\ disturbed)
    /\ sinceWrite' = IF Drifted THEN 0 ELSE sinceWrite
    /\ UNCHANGED <<localTz, pressed>>

-----------------------------------------------------------------------------
(* The other writers: syncs on any other path do not touch the latch.      *)

(* A write of theirs reached the clock.                                    *)
OtherWrite(o) ==
    /\ DeviceTakes(o)
    /\ tzWritten' = FALSE
    /\ disturbed' = TRUE
    /\ UNCHANGED <<localTz, latchVars, sinceWrite>>

(* It was read back, and noted on the loaded coordinator.                  *)
OtherSync(o) ==
    /\ ReadBackAgrees
    /\ OtherWrite(o)
    /\ NoteSync

(* Its read-back fails or disagrees: nothing is noted.                     *)
OtherUnconfirmed(o) ==
    /\ OtherWrite(o)
    /\ UNCHANGED <<dataVars, storeVars>>

(* It was read back, and noted on the coordinator of an earlier load,      *)
(* which its task captured.                                                *)
EarlierSync(o) ==
    /\ earlier # None
    /\ ReadBackAgrees
    /\ OtherWrite(o)
    /\ earlier' = 0
    /\ \/ record' = Synced /\ unsaved' = FALSE
       \/ UNCHANGED <<record, unsaved>>
    /\ UNCHANGED dataVars

(* The scheduled sync (AutoSync) is skipped while the clock was recently   *)
(* verified; its offset is that of the moment it writes.  (One whose       *)
(* reading changed while it waited for the lock writes as a button         *)
(* pressed then does.)                                                     *)
ScheduledWrites ==
    /\ ~ verified
    /\ OtherSync(localTz)
    /\ UNCHANGED pressed

ScheduledUnconfirmed ==
    /\ ~ verified
    /\ OtherUnconfirmed(localTz)
    /\ UNCHANGED pressed

(* The button takes the local offset when it is pressed, a service call    *)
(* takes that or the one it names.                                         *)
ManualStart ==
    /\ pressed = None
    /\ pressed' \in {localTz} \cup ServiceOffsets
    /\ UNCHANGED <<deviceVars, localTz, latchVars, dataVars, storeVars,
                   byteVars, sinceWrite>>

(* The button notes on the coordinator it finds, a service call on the one *)
(* it captured.                                                            *)
ManualWrites ==
    /\ pressed # None
    /\ OtherSync(pressed) \/ EarlierSync(pressed)
    /\ pressed' = None

ManualUnconfirmed ==
    /\ pressed # None
    /\ OtherUnconfirmed(pressed)
    /\ pressed' = None

ManualFails ==
    /\ pressed # None
    /\ pressed' = None
    /\ UNCHANGED <<deviceVars, localTz, latchVars, dataVars, storeVars,
                   byteVars, sinceWrite>>

(* The selects and the read_state service save the whole record.           *)
OtherSaves ==
    /\ record' = [sync |-> sinceSync, verified |-> verified]
    /\ unsaved' = FALSE
    /\ UNCHANGED <<deviceVars, localTz, latchVars, dataVars, pressed,
                   earlier, byteVars, sinceWrite>>

(* Those of an earlier load save what its coordinator has, whatever it     *)
(* read last.                                                              *)
EarlierSaves ==
    /\ earlier # None
    /\ record' \in [sync : {earlier}, verified : BOOLEAN]
    /\ unsaved' = (sinceSync < earlier)
    /\ UNCHANGED <<deviceVars, localTz, latchVars, dataVars, pressed,
                   earlier, byteVars, sinceWrite>>

(* A scheduled sync the earlier load left behind.                          *)
EarlierScheduled ==
    /\ EarlierSync(localTz) \/ (earlier # None /\ OtherUnconfirmed(localTz))
    /\ UNCHANGED pressed

EarlierEnds ==
    /\ earlier # None
    /\ earlier' = None
    /\ UNCHANGED <<deviceVars, localTz, latchVars, dataVars, pressed,
                   record, unsaved, byteVars, sinceWrite>>

-----------------------------------------------------------------------------
(* The world: time passes, the clock runs fast or slow, its battery is     *)
(* changed, summer time begins or ends, the entry is loaded again.         *)

Older(t) == IF t < Floor THEN t + 1 ELSE t

Tick ==
    /\ sinceSync' = Older(sinceSync)
    /\ sinceWrite' = Older(sinceWrite)
    /\ record' = [record EXCEPT !.sync = Older(record.sync)]
    /\ earlier' = IF earlier = None THEN None ELSE Older(earlier)
    /\ UNCHANGED <<deviceVars, localTz, latchVars, verified, pressed, byteVars,
                   unsaved>>

(* A reading, here or in the record, is no longer recent.                  *)
ReadingExpires ==
    /\ verified' \in {verified, FALSE}
    /\ record' \in {record, [record EXCEPT !.verified = FALSE]}
    /\ UNCHANGED <<deviceVars, localTz, latchVars, sinceSync, pressed,
                   earlier, unsaved, byteVars, sinceWrite>>

Drifts ==
    /\ \/ error = "small" /\ error' = "fair"
       \/ error = "fair" /\ error' = "large"
    /\ UNCHANGED <<firmware, deviceTz, localTz, latchVars, dataVars, pressed,
                   storeVars, byteVars, sinceWrite>>

BatteryChange ==
    /\ error' = "large"
    /\ deviceTz' \in IF deviceTz = NoByte THEN {NoByte} ELSE Offsets
    /\ tzWritten' = FALSE
    /\ disturbed' = TRUE
    /\ UNCHANGED <<firmware, localTz, latchVars, dataVars, pressed,
                   storeVars, sinceWrite>>

OffsetChange ==
    /\ localTz' \in Offsets \ {localTz}
    /\ tzWritten' = FALSE
    /\ UNCHANGED <<deviceVars, latchVars, dataVars, pressed, storeVars,
                   disturbed, sinceWrite>>

(* The old coordinator stays while calls hold it (one earlier load at a    *)
(* time: the last one, or one before it); the new one starts with an open  *)
(* latch.  A press of the button that outlives the load saves the new      *)
(* coordinator, and nothing is in it while the store is being read.        *)
NewLoad ==
    /\ attempted' = None
    /\ unsupported' = FALSE
    /\ earlier' \in {earlier, sinceSync}
    /\ tzWritten' = FALSE
    /\ disturbed' = FALSE
    /\ \/ unsaved' = FALSE /\ UNCHANGED record
       \/ unsaved' = TRUE /\ record' = Blank
    /\ UNCHANGED <<deviceVars, localTz, pressed>>

(* Slip: last_sync is forgotten with the latch.                            *)
ReloadForgetsSync ==
    /\ NewLoad
    /\ sinceSync' = Floor
    /\ verified' = record.verified
    /\ sinceWrite' = IF unsaved THEN Floor ELSE sinceWrite

(* The new coordinator has what was saved.  A poll's correction that was   *)
(* not is forgotten.                                                       *)
Reload ==
    /\ NewLoad
    /\ sinceSync' = record.sync
    /\ verified' = record.verified
    /\ sinceWrite' = IF unsaved THEN Floor ELSE sinceWrite

(* The store cannot be read, or was emptied before it was.                 *)
ReloadUnread ==
    /\ NewLoad
    /\ sinceSync' = Floor
    /\ verified' = FALSE
    /\ sinceWrite' = Floor

Poll == PollReads \/ PollWriteFails \/ PollWriteUnconfirmed \/ PollWrites

Scheduled == ScheduledWrites \/ ScheduledUnconfirmed

Manual ==
    \/ ManualStart
    \/ ManualWrites
    \/ ManualUnconfirmed
    \/ ManualFails

Others ==
    \/ OtherSaves
    \/ EarlierSaves
    \/ EarlierScheduled
    \/ EarlierEnds

World ==
    \/ Tick
    \/ ReadingExpires
    \/ Drifts
    \/ BatteryChange
    \/ OffsetChange
    \/ Reload
    \/ ReloadUnread

Next == Poll \/ Scheduled \/ Manual \/ Others \/ World

Spec == Init /\ [][Next]_vars

(* Time passes, and of the polls that read, or have something to write,    *)
(* some succeed.                                                           *)
Fairness ==
    /\ WF_vars(Tick)
    /\ SF_vars(PollReads)
    /\ SF_vars(PollWrites)

FairSpec == Spec /\ Fairness

(* Also, of the scheduled syncs that are not skipped (KeepsTrying of       *)
(* AutoSync), some succeed.                                                *)
ScheduledSpec == FairSpec /\ SF_vars(ScheduledWrites)

-----------------------------------------------------------------------------
(* Properties.                                                             *)

(* "device that ignores the offset is written once, not hourly": once a    *)
(* poll's write of the offset was read back, no poll writes the clock for  *)
(* the sake of the offset again, whether its firmware kept the byte or not *)
(* and however its time drifts meanwhile, until the local offset changes,  *)
(* the clock loses it, someone else writes the clock or the entry is       *)
(* loaded again.  (A write whose read-back fails or disagrees counts for   *)
(* nothing and may be repeated at every poll: it is no such write.)        *)
OneTzWrite ==
    [][(PollWriteUnconfirmed \/ PollWrites) /\ ~ Drifted => ~ tzWritten]_vars

(* The verdict that a clock does not keep the offset is right, unless      *)
(* something else may have changed the byte since the poll's write: the    *)
(* battery, a sync on another path, or a write, by anybody, whose          *)
(* read-back failed.                                                       *)
VerdictDeserved ==
    unsupported /\ ~ disturbed => firmware.offset = "ignores"

(* Polls correct the drift of a clock that runs away, or loses its time,   *)
(* no more than once in the floor between writes that were read back, over *)
(* reloads as well, unless the correction is not in the record that is     *)
(* loaded: it was never saved, or its save failed, a call that outlived an *)
(* earlier load replaced it, or the store could not be read.  (A write     *)
(* that is not read back starts no floor.)                                 *)
WritesSpaced ==
    [][(PollWriteUnconfirmed \/ PollWrites) /\ Drifted =>
           sinceWrite = Floor]_vars

(* Holding back the write right after a sync only delays it: on firmware   *)
(* that takes the time, polls alone bring a clock beyond the tolerance     *)
(* back, however often somebody else syncs.                                *)
DriftCured ==
    firmware.time = "keeps" /\ Drifted ~> ~ Drifted

(* On firmware that keeps the byte, a stale offset is corrected, or polls  *)
(* reach a verdict about it: they do not read it as stale for ever.        *)
OffsetSettled ==
    firmware = [offset |-> "keeps", time |-> "keeps"] /\ Differs ~>
        Matches \/ unsupported

(* "a stale offset is a wrong clock whatever the drift says": on firmware  *)
(* that keeps the byte, it is corrected.                                   *)
StaleOffsetCured ==
    firmware = [offset |-> "keeps", time |-> "keeps"] /\ Differs ~> Matches
=============================================================================
