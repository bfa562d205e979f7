-------------------------- MODULE ClockCheckProofs --------------------------
(***************************************************************************)
(* Proofs about ClockCheck for any offsets and any floor between writes.   *)
(***************************************************************************)
EXTENDS ClockCheck, TLAPS

-----------------------------------------------------------------------------
(* The inductive invariant.                                                *)

(* The types of the clock and of what polls write to it; of what is kept   *)
(* of the syncs; and of the flags.                                         *)
DeviceTypeOK ==
  /\ firmware \in Firmwares
  /\ error \in Errors
  /\ deviceTz \in Offsets \cup {NoByte}
  /\ localTz \in Offsets
  /\ attempted \in Offsets \cup {None}
  /\ pressed \in Offsets \cup {None}

SyncTypeOK ==
  /\ sinceSync \in 0 .. Floor
  /\ record \in Records
  /\ earlier \in 0 .. Floor \cup {None}
  /\ sinceWrite \in 0 .. Floor

FlagTypeOK ==
  /\ unsupported \in BOOLEAN /\ tzWritten \in BOOLEAN
  /\ disturbed \in BOOLEAN /\ verified \in BOOLEAN /\ unsaved \in BOOLEAN

(* After a poll's write of the offset it does not read as stale, until     *)
(* something else happens to it.                                           *)
WriteInv == tzWritten => ~ TzStale

(* A clock without an offset byte stays so; one that keeps it has what a   *)
(* poll wrote last, as long as nothing disturbed it.                       *)
LatchInv ==
  /\ firmware.offset = "lacks" => deviceTz = NoByte
  /\ ~ disturbed /\ attempted # None /\ firmware.offset = "keeps" =>
         deviceTz = attempted
  /\ VerdictDeserved

(* A poll's correction counts as a sync, and what is saved is no older.    *)
SpacedInv ==
  /\ sinceSync <= sinceWrite
  /\ ~ unsaved => record.sync <= sinceSync

IInv ==
  DeviceTypeOK /\ SyncTypeOK /\ FlagTypeOK /\ WriteInv /\ LatchInv /\ SpacedInv

-----------------------------------------------------------------------------
(* The steps.                                                              *)

(* What leaves the clock and the latch alone.                              *)
Aside ==
  UNCHANGED <<firmware, error, deviceTz, localTz, attempted, unsupported,
              tzWritten, disturbed>>

(* What a step does to the clock and the latch.                            *)
LEMMA Cases ==
  ASSUME DeviceTypeOK, [Next]_vars
  PROVE  \/ Poll
         \/ \E o \in Offsets : OtherWrite(o)
         \/ Drifts \/ BatteryChange \/ OffsetChange \/ NewLoad
         \/ Aside
<1>1. CASE Poll
  BY <1>1
<1>2. CASE Scheduled
  BY <1>2 DEF Scheduled, ScheduledWrites, ScheduledUnconfirmed, OtherSync,
     OtherUnconfirmed, DeviceTypeOK
<1>3. CASE Manual
  <2>1. CASE ManualWrites \/ ManualUnconfirmed
    BY <2>1 DEF ManualWrites, ManualUnconfirmed, OtherSync, EarlierSync,
       OtherUnconfirmed, DeviceTypeOK
  <2>2. CASE ManualStart \/ ManualFails
    BY <2>2 DEF ManualStart, ManualFails, Aside, deviceVars, latchVars,
       byteVars
  <2>3. QED
    BY <1>3, <2>1, <2>2 DEF Manual
<1>4. CASE Others
  <2>1. CASE EarlierScheduled
    BY <2>1 DEF EarlierScheduled, EarlierSync, OtherUnconfirmed, DeviceTypeOK
  <2>2. CASE OtherSaves \/ EarlierSaves \/ EarlierEnds
    BY <2>2 DEF OtherSaves, EarlierSaves, EarlierEnds, Aside, deviceVars,
       latchVars, byteVars
  <2>3. QED
    BY <1>4, <2>1, <2>2 DEF Others
<1>5. CASE World
  BY <1>5 DEF World, Tick, ReadingExpires, Reload, ReloadUnread, Aside,
     deviceVars, latchVars, byteVars
<1>6. CASE UNCHANGED vars
  BY <1>6 DEF vars, Aside
<1>7. QED
  BY <1>1, <1>2, <1>3, <1>4, <1>5, <1>6 DEF Next

(* A poll's write, and anybody's, reaches the clock with a legal offset.   *)
LEMMA TakenTypes ==
  ASSUME DeviceTypeOK, NEW o \in Offsets, DeviceTakes(o)
  PROVE  /\ firmware' \in Firmwares
         /\ error' \in Errors
         /\ deviceTz' \in Offsets \cup {NoByte}
BY DEF DeviceTypeOK, DeviceTakes, Errors

(* Every step keeps the types of the clock.                                *)
LEMMA DeviceTypeStep ==
  ASSUME DeviceTypeOK, [Next]_vars
  PROVE  DeviceTypeOK'
<1>1. pressed' \in Offsets \cup {None}
  <2>1. CASE ManualStart
    BY <2>1, OffsetsAssumption DEF ManualStart, DeviceTypeOK
  <2>2. CASE ManualWrites \/ ManualUnconfirmed \/ ManualFails
    BY <2>2 DEF ManualWrites, ManualUnconfirmed, ManualFails
  <2>3. CASE Poll
    BY <2>3 DEF Poll, PollReads, PollWriteFails, PollWriteUnconfirmed,
       PollWrites, DeviceTypeOK
  <2>4. CASE Scheduled \/ Others
    BY <2>4 DEF Scheduled, ScheduledWrites, ScheduledUnconfirmed, Others,
       OtherSaves, EarlierSaves, EarlierScheduled, EarlierEnds, DeviceTypeOK
  <2>5. CASE World \/ UNCHANGED vars
    BY <2>5 DEF World, Tick, ReadingExpires, Drifts, BatteryChange,
       OffsetChange, Reload, ReloadUnread, NewLoad, vars, DeviceTypeOK
  <2>6. QED
    BY <2>1, <2>2, <2>3, <2>4, <2>5 DEF Next, Manual
<1>2. CASE PollReads \/ PollWriteFails
  BY <1>1, <1>2 DEF DeviceTypeOK, PollReads, PollWriteFails,
     AttemptedAfterReading, deviceVars
<1>3. CASE PollWriteUnconfirmed \/ PollWrites
  <2>1. DeviceTakes(localTz) /\ localTz' = localTz
          /\ attempted' \in {localTz, None, attempted}
    BY <1>3 DEF PollWriteUnconfirmed, PollWrites, AttemptedAfterReading
  <2>2. QED
    BY <1>1, <2>1, TakenTypes DEF DeviceTypeOK
<1>4. CASE \E o \in Offsets : OtherWrite(o)
  BY <1>1, <1>4, TakenTypes DEF DeviceTypeOK, OtherWrite, latchVars
<1>5. CASE Drifts \/ BatteryChange \/ OffsetChange \/ NewLoad
  BY <1>1, <1>5 DEF DeviceTypeOK, Errors, Drifts, BatteryChange,
     OffsetChange, NewLoad, deviceVars, latchVars
<1>6. CASE Aside
  BY <1>1, <1>6 DEF DeviceTypeOK, Aside
<1>7. QED
  BY <1>2, <1>3, <1>4, <1>5, <1>6, Cases DEF Poll

(* A blank record and that of a new sync are records.                      *)
LEMMA RecordTypes == Blank \in Records /\ Synced \in Records
<1>1. 0 \in 0 .. Floor /\ Floor \in 0 .. Floor
  BY FloorAssumption
<1>2. TRUE \in BOOLEAN /\ FALSE \in BOOLEAN
  OBVIOUS
<1>3. QED
  BY <1>1, <1>2, Zenon DEF Records, Blank, Synced

(* A noted sync has the types of one.                                      *)
LEMMA NotedTypes ==
  ASSUME SyncTypeOK, NoteSync
  PROVE  sinceSync' \in 0 .. Floor /\ record' \in Records
           /\ earlier' \in 0 .. Floor \cup {None}
BY FloorAssumption, RecordTypes DEF SyncTypeOK, NoteSync

(* Every step keeps the types of what is kept of the syncs.                *)
LEMMA SyncTypeStep ==
  ASSUME SyncTypeOK, FlagTypeOK, [Next]_vars
  PROVE  SyncTypeOK'
<1>1. CASE UNCHANGED <<sinceSync, record, earlier, sinceWrite>>
  BY <1>1 DEF SyncTypeOK
<1>2. CASE PollReads \/ PollWriteFails \/ PollWriteUnconfirmed
  BY <1>1, <1>2 DEF PollReads, PollWriteFails, PollWriteUnconfirmed, storeVars
<1>3. CASE PollWrites
  BY <1>3, NotedTypes, FloorAssumption DEF PollWrites, SyncTypeOK
<1>4. ASSUME NEW o, OtherSync(o) PROVE SyncTypeOK'
  BY <1>4, NotedTypes DEF OtherSync, OtherWrite, SyncTypeOK
<1>5. ASSUME NEW o, EarlierSync(o) PROVE SyncTypeOK'
  BY <1>5, FloorAssumption, RecordTypes DEF EarlierSync, OtherWrite, dataVars,
     SyncTypeOK
<1>6. ASSUME NEW o, OtherUnconfirmed(o) PROVE SyncTypeOK'
  BY <1>1, <1>6 DEF OtherUnconfirmed, OtherWrite, dataVars, storeVars
<1>7. CASE Scheduled
  BY <1>4, <1>6, <1>7 DEF Scheduled, ScheduledWrites, ScheduledUnconfirmed
<1>8. CASE Manual
  BY <1>1, <1>4, <1>5, <1>6, <1>8 DEF Manual, ManualStart, ManualWrites,
     ManualUnconfirmed, ManualFails, dataVars, storeVars
<1>9. CASE OtherSaves
  BY <1>9 DEF OtherSaves, dataVars, SyncTypeOK, Records, FlagTypeOK
<1>10. CASE EarlierSaves
  BY <1>10 DEF EarlierSaves, dataVars, SyncTypeOK, Records
<1>11. CASE EarlierScheduled
  BY <1>5, <1>6, <1>11 DEF EarlierScheduled
<1>12. CASE EarlierEnds
  BY <1>12 DEF EarlierEnds, dataVars, SyncTypeOK
<1>13. CASE Tick
  <2>1. \A t \in 0 .. Floor : Older(t) \in 0 .. Floor
    BY FloorAssumption DEF Older
  <2>2. record' = [record EXCEPT !.sync = Older(record.sync)]
          /\ record.sync \in 0 .. Floor /\ record \in Records
    BY <1>13 DEF Tick, SyncTypeOK, Records
  <2>3. record' \in Records
    BY <2>1, <2>2 DEF Records
  <2>4. QED
    BY <1>13, <2>1, <2>3 DEF Tick, SyncTypeOK
<1>14. CASE ReadingExpires
  <2>1. [record EXCEPT !.verified = FALSE] \in Records
    BY DEF SyncTypeOK, Records
  <2>2. QED
    BY <1>14, <2>1 DEF ReadingExpires, SyncTypeOK
<1>15. CASE Drifts \/ BatteryChange \/ OffsetChange
  BY <1>1, <1>15 DEF Drifts, BatteryChange, OffsetChange, dataVars, storeVars
<1>16. CASE Reload \/ ReloadUnread
  <2>1. record.sync \in 0 .. Floor
    BY DEF SyncTypeOK, Records
  <2>2. record' \in {record, Blank} /\ earlier' \in {earlier, sinceSync}
          /\ sinceSync' \in {record.sync, Floor}
          /\ sinceWrite' \in {Floor, sinceWrite}
    BY <1>16 DEF Reload, ReloadUnread, NewLoad
  <2>3. QED
    BY <2>1, <2>2, FloorAssumption, RecordTypes DEF SyncTypeOK
<1>17. QED
  BY <1>1, <1>2, <1>3, <1>7, <1>8, <1>9, <1>10, <1>11, <1>12, <1>13, <1>14,
     <1>15, <1>16 DEF Next, Poll, Others, World, vars

(* And of the flags.                                                       *)
LEMMA FlagStep ==
  ASSUME SyncTypeOK, FlagTypeOK, [Next]_vars
  PROVE  FlagTypeOK'
<1>1. CASE UNCHANGED <<unsupported, tzWritten, disturbed, verified, unsaved>>
  BY <1>1 DEF FlagTypeOK
<1>2. CASE PollReads \/ PollWriteFails \/ PollWriteUnconfirmed
  BY <1>2 DEF PollReads, PollWriteFails, PollWriteUnconfirmed, Latch,
     storeVars, byteVars, FlagTypeOK
<1>3. CASE PollWrites
  BY <1>3 DEF PollWrites, Latch, NoteSync, FlagTypeOK
<1>4. ASSUME NEW o, OtherSync(o) PROVE FlagTypeOK'
  BY <1>4 DEF OtherSync, OtherWrite, NoteSync, latchVars, FlagTypeOK
<1>5. ASSUME NEW o, EarlierSync(o) PROVE FlagTypeOK'
  BY <1>5 DEF EarlierSync, OtherWrite, dataVars, latchVars, FlagTypeOK
<1>6. ASSUME NEW o, OtherUnconfirmed(o) PROVE FlagTypeOK'
  BY <1>6 DEF OtherUnconfirmed, OtherWrite, dataVars, storeVars, latchVars,
     FlagTypeOK
<1>7. CASE Scheduled
  BY <1>4, <1>6, <1>7 DEF Scheduled, ScheduledWrites, ScheduledUnconfirmed
<1>8. CASE Manual
  BY <1>1, <1>4, <1>5, <1>6, <1>8 DEF Manual, ManualStart, ManualWrites,
     ManualUnconfirmed, ManualFails, dataVars, storeVars, latchVars, byteVars
<1>9. CASE OtherSaves \/ EarlierSaves
  <2>1. (sinceSync < earlier) \in BOOLEAN /\ FALSE \in BOOLEAN
    OBVIOUS
  <2>2. unsaved' \in BOOLEAN
    BY <1>9, <2>1, Zenon DEF OtherSaves, EarlierSaves
  <2>3. UNCHANGED <<unsupported, tzWritten, disturbed, verified>>
    BY <1>9 DEF OtherSaves, EarlierSaves, dataVars, latchVars, byteVars
  <2>4. QED
    BY <2>2, <2>3 DEF FlagTypeOK
<1>10. CASE EarlierScheduled
  BY <1>5, <1>6, <1>10 DEF EarlierScheduled
<1>11. CASE EarlierEnds
  BY <1>1, <1>11 DEF EarlierEnds, dataVars, latchVars, byteVars
<1>12. CASE Tick \/ Drifts
  BY <1>1, <1>12 DEF Tick, Drifts, dataVars, storeVars, latchVars, byteVars
<1>13. CASE ReadingExpires
  BY <1>13 DEF ReadingExpires, latchVars, byteVars, FlagTypeOK
<1>14. CASE BatteryChange \/ OffsetChange
  BY <1>14 DEF BatteryChange, OffsetChange, dataVars, storeVars, latchVars,
     FlagTypeOK
<1>15. CASE Reload
  <2>1. record.verified \in BOOLEAN
    BY DEF SyncTypeOK, Records
  <2>2. QED
    BY <1>15, <2>1 DEF Reload, NewLoad, FlagTypeOK
<1>16. CASE ReloadUnread
  BY <1>16 DEF ReloadUnread, NewLoad, FlagTypeOK
<1>17. QED
  BY <1>1, <1>2, <1>3, <1>7, <1>8, <1>9, <1>10, <1>11, <1>12, <1>13, <1>14,
     <1>15, <1>16 DEF Next, Poll, Others, World, vars

(* Every step keeps the offset from being written twice.                   *)
LEMMA WriteStep ==
  ASSUME DeviceTypeOK, WriteInv, [Next]_vars
  PROVE  WriteInv'
<1>1. CASE PollReads
  BY <1>1 DEF WriteInv, TzStale, PollReads, Latch, Matches, Refused, Differs,
     AttemptedAfterReading, deviceVars, byteVars
<1>2. CASE PollWriteFails
  BY <1>2 DEF WriteInv, TzStale, PollWriteFails, Latch, Matches, Refused,
     Differs, AttemptedAfterReading, deviceVars, byteVars
<1>3. CASE PollWriteUnconfirmed
  BY <1>3 DEF WriteInv, PollWriteUnconfirmed, Latch, Matches, Refused,
     Differs, DeviceTakes, TzStale, AttemptedAfterReading
<1>4. CASE PollWrites
  <2>1. CASE TzStale
    <3>1. attempted' = localTz /\ localTz' = localTz
      BY <1>4, <2>1 DEF PollWrites
    <3>2. QED
      BY <3>1 DEF WriteInv, TzStale
  <2>2. CASE ~ TzStale
    <3>1. attempted' = AttemptedAfterReading
      BY <1>4, <2>2 DEF PollWrites
    <3>2. localTz' = localTz /\ deviceTz' \in {localTz, deviceTz}
      BY <1>4 DEF PollWrites, DeviceTakes
    <3>3. unsupported' = IF Matches THEN FALSE ELSE unsupported \/ Refused
      BY <1>4 DEF PollWrites, Latch
    <3>4. ~ TzStale'
      BY <2>2, <3>1, <3>2, <3>3 DEF TzStale, Differs, Matches,
         AttemptedAfterReading
    <3>5. QED
      BY <3>4 DEF WriteInv
  <2>3. QED
    BY <2>1, <2>2
<1>5. CASE \E o \in Offsets : OtherWrite(o)
  BY <1>5 DEF WriteInv, OtherWrite
<1>6. CASE Drifts
  BY <1>6 DEF WriteInv, TzStale, Differs, Drifts, latchVars, byteVars
<1>7. CASE BatteryChange \/ OffsetChange \/ NewLoad
  BY <1>7 DEF WriteInv, BatteryChange, OffsetChange, NewLoad
<1>8. CASE Aside
  BY <1>8 DEF WriteInv, TzStale, Differs, Aside
<1>9. QED
  BY <1>1, <1>2, <1>3, <1>4, <1>5, <1>6, <1>7, <1>8, Cases DEF Poll

(* Every step keeps what the latch says.                                   *)
LEMMA LatchStep ==
  ASSUME DeviceTypeOK, LatchInv, [Next]_vars
  PROVE  LatchInv'
<1>1. CASE PollReads
  BY <1>1, OffsetsAssumption DEF DeviceTypeOK, LatchInv, VerdictDeserved,
     Firmwares, PollReads, AttemptedAfterReading, Latch, Refused, Differs,
     deviceVars, byteVars
<1>2. CASE PollWriteFails
  BY <1>2, OffsetsAssumption DEF DeviceTypeOK, LatchInv, VerdictDeserved,
     Firmwares, PollWriteFails, AttemptedAfterReading, Latch, Refused,
     Differs, deviceVars, byteVars
<1>3. CASE PollWriteUnconfirmed
  BY <1>3 DEF LatchInv, VerdictDeserved, PollWriteUnconfirmed, DeviceTakes
<1>4. CASE PollWrites
  BY <1>4, OffsetsAssumption DEF DeviceTypeOK, LatchInv, VerdictDeserved,
     Firmwares, PollWrites, AttemptedAfterReading, Latch, Refused, Differs,
     DeviceTakes, TzStale
<1>5. CASE \E o \in Offsets : OtherWrite(o)
  BY <1>5 DEF LatchInv, VerdictDeserved, OtherWrite, DeviceTakes
<1>6. CASE Drifts
  BY <1>6 DEF LatchInv, VerdictDeserved, Drifts, latchVars, byteVars
<1>7. CASE BatteryChange
  BY <1>7 DEF LatchInv, VerdictDeserved, BatteryChange
<1>8. CASE OffsetChange
  BY <1>8 DEF LatchInv, VerdictDeserved, OffsetChange, deviceVars, latchVars
<1>9. CASE NewLoad
  BY <1>9 DEF LatchInv, VerdictDeserved, NewLoad, deviceVars
<1>10. CASE Aside
  BY <1>10 DEF LatchInv, VerdictDeserved, Aside
<1>11. QED
  BY <1>1, <1>2, <1>3, <1>4, <1>5, <1>6, <1>7, <1>8, <1>9, <1>10, Cases
     DEF Poll

(* The time since the last sync grows with that since the last correction  *)
(* by a poll, and starts again with it; a record without it is remembered. *)
LEMMA SpacedStep ==
  ASSUME SyncTypeOK, SpacedInv, [Next]_vars
  PROVE  SpacedInv'
<1> DEFINE Ages == <<sinceSync, record.sync, unsaved, sinceWrite>>
<1>1. CASE UNCHANGED Ages
  BY <1>1 DEF SpacedInv
<1>2. record.sync \in 0 .. Floor /\ sinceSync \in 0 .. Floor
        /\ sinceWrite \in 0 .. Floor
  BY DEF SyncTypeOK, Records
<1>3. ASSUME NoteSync, sinceWrite' \in {0, sinceWrite} PROVE SpacedInv'
  <2>1. sinceSync' = 0 /\ (unsaved' \/ record'.sync = 0)
    BY <1>3 DEF NoteSync, Synced
  <2>2. sinceSync' <= sinceWrite'
    BY <1>2, <1>3, <2>1
  <2>3. QED
    BY <2>1, <2>2 DEF SpacedInv
<1>4. CASE PollReads \/ PollWriteFails \/ PollWriteUnconfirmed
  BY <1>1, <1>4 DEF PollReads, PollWriteFails, PollWriteUnconfirmed, storeVars
<1>5. CASE PollWrites
  BY <1>3, <1>5 DEF PollWrites
<1>6. ASSUME NEW o, OtherSync(o) PROVE SpacedInv'
  BY <1>3, <1>6 DEF OtherSync, OtherWrite
<1>7. ASSUME NEW o, EarlierSync(o) PROVE SpacedInv'
  <2>1. UNCHANGED <<sinceSync, sinceWrite>>
    BY <1>7 DEF EarlierSync, OtherWrite, dataVars
  <2>2. CASE record' = Synced
    BY <1>2, <2>1, <2>2 DEF SpacedInv, Synced
  <2>3. CASE UNCHANGED <<record, unsaved>>
    BY <2>1, <2>3 DEF SpacedInv
  <2>4. QED
    BY <1>7, <2>2, <2>3 DEF EarlierSync
<1>8. ASSUME NEW o, OtherUnconfirmed(o) PROVE SpacedInv'
  BY <1>1, <1>8 DEF OtherUnconfirmed, OtherWrite, dataVars, storeVars
<1>9. CASE Scheduled
  BY <1>6, <1>8, <1>9 DEF Scheduled, ScheduledWrites, ScheduledUnconfirmed
<1>10. CASE Manual
  BY <1>1, <1>6, <1>7, <1>8, <1>10 DEF Manual, ManualStart, ManualWrites,
     ManualUnconfirmed, ManualFails, dataVars, storeVars
<1>11. CASE OtherSaves
  BY <1>2, <1>11 DEF OtherSaves, dataVars, SpacedInv
<1>12. CASE EarlierSaves
  <2>1. earlier \in 0 .. Floor /\ record'.sync = earlier
          /\ unsaved' = (sinceSync < earlier)
          /\ UNCHANGED <<sinceSync, sinceWrite>>
    BY <1>12 DEF EarlierSaves, SyncTypeOK, dataVars
  <2>2. ~ (sinceSync < earlier) => earlier <= sinceSync
    BY <1>2, <2>1
  <2>3. QED
    BY <2>1, <2>2 DEF SpacedInv
<1>13. CASE EarlierScheduled
  BY <1>7, <1>8, <1>13 DEF EarlierScheduled
<1>14. CASE EarlierEnds
  BY <1>1, <1>14 DEF EarlierEnds, dataVars
<1>15. CASE Tick
  <2>1. record'.sync = Older(record.sync) /\ sinceSync' = Older(sinceSync)
          /\ sinceWrite' = Older(sinceWrite) /\ unsaved' = unsaved
    BY <1>15 DEF Tick, SyncTypeOK, Records
  <2>2. \A s, t \in 0 .. Floor : s <= t => Older(s) <= Older(t)
    BY FloorAssumption DEF Older
  <2>3. sinceSync' <= sinceWrite'
    BY <1>2, <2>1, <2>2 DEF SpacedInv
  <2>4. ~ unsaved => record'.sync <= sinceSync'
    BY <1>2, <2>1, <2>2 DEF SpacedInv
  <2>5. QED
    BY <2>1, <2>3, <2>4 DEF SpacedInv
<1>16. CASE ReadingExpires
  <2>1. record'.sync = record.sync
    BY <1>16 DEF ReadingExpires, SyncTypeOK, Records
  <2>2. QED
    BY <1>1, <1>16, <2>1 DEF ReadingExpires
<1>17. CASE Drifts \/ BatteryChange \/ OffsetChange
  BY <1>1, <1>17 DEF Drifts, BatteryChange, OffsetChange, dataVars, storeVars
<1>18. CASE Reload
  <2>1. (unsaved' \/ record' = record) /\ sinceSync' = record.sync
          /\ sinceWrite' = IF unsaved THEN Floor ELSE sinceWrite
    BY <1>18 DEF Reload, NewLoad
  <2>2. sinceSync' <= sinceWrite'
    <3>1. CASE unsaved
      BY <1>2, <2>1, <3>1, FloorAssumption
    <3>2. CASE ~ unsaved
      BY <1>2, <2>1, <3>2 DEF SpacedInv
    <3>3. QED
      BY <3>1, <3>2
  <2>3. ~ unsaved' => record'.sync <= sinceSync'
    BY <1>2, <2>1
  <2>4. QED
    BY <2>2, <2>3 DEF SpacedInv
<1>19. CASE ReloadUnread
  BY <1>2, <1>19, FloorAssumption DEF ReloadUnread, NewLoad, SpacedInv
<1>20. QED
  BY <1>1, <1>4, <1>5, <1>9, <1>10, <1>11, <1>12, <1>13, <1>14, <1>15, <1>16,
     <1>17, <1>18, <1>19 DEF Next, Poll, Others, World, vars

-----------------------------------------------------------------------------
(* The theorems.                                                           *)

(* A coordinator starts with the latch open.                               *)
LEMMA InitInv == ASSUME Init PROVE IInv
<1>1. DeviceTypeOK
  BY DEF Init, DeviceTypeOK
<1>2. SyncTypeOK
  BY FloorAssumption, RecordTypes DEF Init, SyncTypeOK
<1>3. FlagTypeOK
  BY Zenon DEF Init, FlagTypeOK
<1>4. WriteInv /\ LatchInv
  BY DEF Init, WriteInv, LatchInv, VerdictDeserved
<1>5. SpacedInv
  BY FloorAssumption DEF Init, SpacedInv, Blank
<1>6. QED
  BY <1>1, <1>2, <1>3, <1>4, <1>5 DEF IInv

(* The inductive invariant of the clock check holds throughout.            *)
THEOREM Invariance == Spec => []IInv
<1>1. Init => IInv
  BY InitInv
<1>2. IInv /\ [Next]_vars => IInv'
  BY DeviceTypeStep, SyncTypeStep, FlagStep, WriteStep, LatchStep, SpacedStep
     DEF IInv
<1>3. QED
  BY <1>1, <1>2, PTL DEF Spec

(* Every variable keeps its type.                                          *)
THEOREM TypeCorrect == Spec => []TypeOK
<1>1. IInv => TypeOK
  BY DEF IInv, DeviceTypeOK, SyncTypeOK, FlagTypeOK, TypeOK
<1>2. QED
  BY Invariance, <1>1, PTL

(* Once a poll's write of the offset was read back, no poll writes for the *)
(* sake of the offset again until something else happened to it.           *)
THEOREM WrittenOnce == Spec => OneTzWrite
<1>1. IInv /\ [Next]_vars =>
        [(PollWriteUnconfirmed \/ PollWrites) /\ ~ Drifted => ~ tzWritten]_vars
  BY DEF IInv, WriteInv, PollWriteUnconfirmed, PollWrites, Wrong
<1>2. QED
  BY Invariance, <1>1, PTL DEF Spec, OneTzWrite

(* The verdict on the firmware is right, unless something else may have    *)
(* changed the byte, an unconfirmed write included.                        *)
THEOREM Verdict == Spec => []VerdictDeserved
<1>1. IInv => VerdictDeserved
  BY DEF IInv, LatchInv
<1>2. QED
  BY Invariance, <1>1, PTL

(* Polls correct the drift once in the floor between writes that were read *)
(* back, over reloads that find them in the record.                        *)
THEOREM Spaced == Spec => WritesSpaced
<1>1. IInv /\ [Next]_vars =>
        [(PollWriteUnconfirmed \/ PollWrites) /\ Drifted => sinceWrite = Floor]_vars
  <2>1. ASSUME IInv, PollWriteUnconfirmed \/ PollWrites, Drifted
        PROVE  sinceWrite = Floor
    <3>1. ~ (sinceSync < Floor)
      BY <2>1 DEF PollWriteUnconfirmed, PollWrites, HeldBack
    <3>2. sinceSync \in 0 .. Floor /\ sinceWrite \in 0 .. Floor
            /\ sinceSync <= sinceWrite
      BY <2>1 DEF IInv, SyncTypeOK, SpacedInv
    <3>3. QED
      BY <3>1, <3>2, FloorAssumption
  <2>2. QED
    BY <2>1
<1>2. QED
  BY Invariance, <1>1, PTL DEF Spec, WritesSpaced
=============================================================================
