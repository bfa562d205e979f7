------------------------------ MODULE Selects -------------------------------
(***************************************************************************)
(* The display units and the 12/24-hour mode of one clock: the two select  *)
(* entities (select.py), what set_units and set_time_format do to the      *)
(* clock, read_state and the poll that read the units, and the persisted   *)
(* record both options are part of.                                        *)
(*                                                                         *)
(* A call works on the coordinator it found when it began and remembers    *)
(* the option shown then.  It holds the domain lock over all its attempts  *)
(* (BleExecute) and writes the record when it has let go of it.  A request *)
(* to the clock may be carried out although its answer is lost.  Entities  *)
(* exist while the entry is loaded; what a call can meet before that is in *)
(* AutoSync, the arithmetic of the clock write in GattClock.               *)
(***************************************************************************)
EXTENDS Naturals

CONSTANTS
    Loads,          \* identities of coordinators, used again when dead
    Calls,          \* service calls, selections and polls, one at a time or not
    Firmwares,      \* what clocks may do with a written option
    MaxRetries,     \* retry_count
    None            \* no option known

Units == {"celsius", "fahrenheit"}
Modes == {"12h", "24h"}
Keys == {"units", "mode"}

(* decode_units: None when it raises.                                      *)
Decode(b) ==
    CASE b \in {"00", "ff"} -> "celsius" [] b = "01" -> "fahrenheit"
      [] OTHER -> None

Encode(u) == IF u = "celsius" THEN "00" ELSE "01"

Bytes == {"00", "01", "ff", "07"}

ASSUME LoadsAssumption == Loads # {}
ASSUME RetriesAssumption == MaxRetries \in Nat \ {0}
ASSUME NoneAssumption == None \notin Units \cup Modes
ASSUME FirmwaresAssumption ==
    Firmwares \subseteq [units : {"keeps", "ignores", "normalises"},
                         mode : {"takes", "refuses", "misreads"}]

VARIABLES
    firmware,       \* of this clock
    clock,          \* the units byte in the clock, and its display mode
    current,        \* entry.runtime_data
    data,           \* units and time_format of each coordinator
    stored,         \* the same of the persisted record
    pc,             \* where each call is
    kind,           \* what it is
    wanted,         \* the option selected
    target,         \* the coordinator it works on
    previous,       \* the option it restores when it fails
    attempt,        \* of the call that holds the lock
    original,       \* the units byte this attempt read before its write
    touched,        \* history: an earlier attempt may have changed the clock
    doubt,          \* history: the option may differ from the clock's
    unsaved         \* history: the record may lack the option shown

entryVars == <<firmware, current>>
callVars == <<kind, wanted, target, previous>>
vars == <<firmware, clock, current, data, stored, pc, kind, wanted,
          target, previous, attempt, original, touched, doubt, unsaved>>

Options == Units \cup Modes \cup {None}
Session == {"dialing", "writing", "verifying", "rolling", "repairing", "closing"}

(* A write of this attempt has reached the clock.                          *)
Sent == {"verifying", "rolling", "repairing"}
Landed == Sent \cup {"closing"}

TypeOK ==
    /\ firmware \in Firmwares
    /\ clock \in [units : Bytes, mode : Modes]
    /\ current \in Loads
    /\ data \in [Loads -> [Keys -> Options]]
    /\ stored \in [Keys -> Options]
    /\ pc \in [Calls -> {"new", "waiting", "over"} \cup Session]
    /\ kind \in [Calls -> {"units", "mode", "read", "poll"}]
    /\ wanted \in [Calls -> Options]
    /\ target \in [Calls -> Loads]
    /\ previous \in [Calls -> Options]
    /\ attempt \in 1 .. MaxRetries
    /\ original \in Bytes
    /\ touched \in BOOLEAN /\ unsaved \in BOOLEAN
    /\ doubt \in [Keys -> BOOLEAN]

(* Nothing is known yet, or an earlier run has left what it knew.          *)
Init ==
    /\ firmware \in Firmwares
    /\ clock \in [units : Bytes, mode : Modes]
    /\ current \in Loads
    /\ stored \in [units : {None, Decode(clock.units)}, mode : {None, clock.mode}]
    /\ data = [g \in Loads |-> stored]
    /\ pc = [c \in Calls |-> "new"]
    /\ kind = [c \in Calls |-> "read"]
    /\ wanted = [c \in Calls |-> None]
    /\ target = [c \in Calls |-> current]
    /\ previous = [c \in Calls |-> None]
    /\ attempt = 1
    /\ original = "00"
    /\ touched = FALSE
    /\ doubt = [k \in Keys |-> FALSE]
    /\ unsaved = FALSE

-----------------------------------------------------------------------------
(* The clock.                                                              *)

(* The units byte it has after a write of b.                               *)
Taken(b) ==
    CASE firmware.units = "keeps" -> b
      [] firmware.units = "ignores" -> clock.units
      [] firmware.units = "normalises" -> IF b = "00" THEN "ff" ELSE b

(* The option of key k the clock has.                                      *)
Real(k) == IF k = "units" THEN Decode(clock.units) ELSE clock.mode

Key(c) == IF kind[c] = "mode" THEN "mode" ELSE "units"

InSession(c) == pc[c] \in Session

Active(c) == pc[c] = "waiting" \/ InSession(c)

LockFree == \A c \in Calls : ~ InSession(c)

(* The phone application or a new battery: the clock has one connection.   *)
OtherChange ==
    /\ LockFree
    /\ clock' \in [units : Bytes, mode : Modes]
    /\ doubt' = [k \in Keys |-> TRUE]
    /\ UNCHANGED <<entryVars, data, stored, pc, callVars, attempt, original,
                   touched, unsaved>>

-----------------------------------------------------------------------------
(* The entry.                                                              *)

(* No record, or an unreadable one.                                        *)
Blank == [k \in Keys |-> None]

(* async_load_persisted, then async_added_to_hass of both selects: an      *)
(* option the record lacks is taken from the entity's last state, if any.  *)
SetUp(g, found, last) ==
    /\ current' = g
    /\ data' = [data EXCEPT ![g] =
         [k \in Keys |-> IF found[k] # None THEN found[k] ELSE last[k]]]
    /\ unsaved' = (found # stored)
    /\ UNCHANGED <<firmware, clock, stored, callVars, attempt, original, touched>>

DoubtLoaded(found, last, k) == IF found[k] # None THEN unsaved ELSE last[k] # None

(* The entry is unloaded and set up again; calls under way go on, and what *)
(* they do in between they might have done before.                         *)
Reload(g) ==
    /\ \A c \in Calls : Active(c) => target[c] # g
    /\ \E found \in {stored, Blank}, last \in {Blank, data[current]} :
         /\ SetUp(g, found, last)
         /\ doubt' = [k \in Keys |-> doubt[k] \/ DoubtLoaded(found, last, k)]
    /\ UNCHANGED pc

(* What a call leaves uncertain when it is cut off.                        *)
Uncertain(c, k) == InSession(c) /\ k = Key(c) /\ (touched \/ pc[c] \in Landed)

(* The process ends with whatever was under way, and the entry is set up.  *)
Restart(g) ==
    /\ pc' = [c \in Calls |-> IF Active(c) THEN "over" ELSE pc[c]]
    /\ \E found \in {stored, Blank}, last \in {Blank, data[current]} :
         /\ SetUp(g, found, last)
         /\ doubt' = [k \in Keys |->
              doubt[k] \/ DoubtLoaded(found, last, k)
                       \/ \E c \in Calls : Uncertain(c, k)]

-----------------------------------------------------------------------------
(* Calls.                                                                  *)

Start(c, what, option) ==
    /\ pc[c] = "new"
    /\ pc' = [pc EXCEPT ![c] = "waiting"]
    /\ kind' = [kind EXCEPT ![c] = what]
    /\ wanted' = [wanted EXCEPT ![c] = option]
    /\ target' = [target EXCEPT ![c] = current]
    /\ previous' = [previous EXCEPT ![c] =
                      data[current][IF what = "mode" THEN "mode" ELSE "units"]]
    /\ UNCHANGED <<entryVars, clock, data, stored, attempt, original, touched,
                   doubt, unsaved>>

Select(c) ==
    \/ \E u \in Units : Start(c, "units", u)
    \/ \E m \in Modes : Start(c, "mode", m)

ReadOrPoll(c) == Start(c, "read", None) \/ Start(c, "poll", None)

Acquire(c) ==
    /\ pc[c] = "waiting"
    /\ LockFree
    /\ pc' = [pc EXCEPT ![c] = "dialing"]
    /\ attempt' = 1
    /\ touched' = FALSE
    /\ UNCHANGED <<entryVars, clock, data, stored, callVars, original, doubt,
                   unsaved>>

(* The selects' handlers put back the option they found; the others only   *)
(* count the failure.                                                      *)
Restored(c) ==
    IF kind[c] \in {"units", "mode"}
    THEN [data EXCEPT ![target[c]] = [@ EXCEPT ![Key(c)] = previous[c]]]
    ELSE data

(* What is put back is not what was shown: another call came between.      *)
Overtaken(c) == target[c] = current /\ Restored(c) # data

(* The call gives up with an error, and the lock is free.                  *)
Fail(c, dirty) ==
    /\ pc' = [pc EXCEPT ![c] = "over"]
    /\ data' = Restored(c)
    /\ doubt' = [doubt EXCEPT ![Key(c)] = @ \/ dirty \/ Overtaken(c)]
    /\ UNCHANGED <<entryVars, stored, callVars, attempt, original, touched,
                   unsaved>>

(* The device is out of range: no retry.                                   *)
DeviceMissing(c) ==
    /\ pc[c] = "dialing"
    /\ Fail(c, touched)
    /\ UNCHANGED clock

(* Slip: counts attempts from zero.                                       *)
MayRetryOnceMore == attempt <= MaxRetries

MayRetry == attempt < MaxRetries

(* No connection, no answer, or an answer that is an error.                *)
AttemptFails(c) ==
    /\ pc[c] \in {"dialing", "writing", "verifying", "repairing"}
    /\ \/ /\ MayRetry
          /\ pc' = [pc EXCEPT ![c] = "dialing"]
          /\ attempt' = attempt + 1
          /\ touched' = (touched \/ pc[c] \in Sent)
          /\ UNCHANGED <<entryVars, data, stored, callVars, original, doubt,
                         unsaved>>
       \/ ~ MayRetry /\ Fail(c, touched \/ pc[c] \in Sent)
    /\ UNCHANGED clock

(* A cancelled task runs no handler.                                       *)
Cancel(c) ==
    /\ Active(c)
    /\ pc' = [pc EXCEPT ![c] = "over"]
    /\ doubt' = [k \in Keys |-> doubt[k] \/ Uncertain(c, k)]
    /\ UNCHANGED <<entryVars, clock, data, stored, callVars, attempt, original,
                   touched, unsaved>>

-----------------------------------------------------------------------------
(* The operations.                                                         *)

(* The operation has succeeded and notes the option o; the disconnect and  *)
(* the release of the lock are still to come.                              *)
Note(c, o) ==
    /\ data' = [data EXCEPT ![target[c]] = [@ EXCEPT ![Key(c)] = o]]
    /\ pc' = [pc EXCEPT ![c] = "closing"]
    /\ UNCHANGED <<entryVars, clock, stored, callVars, attempt, original,
                   touched, doubt, unsaved>>

Advance(c, from, to) ==
    /\ pc[c] = from
    /\ pc' = [pc EXCEPT ![c] = to]
    /\ UNCHANGED <<entryVars, data, stored, callVars, attempt, touched, doubt,
                   unsaved>>

(* set_units: remember, write, read back.                                  *)
ReadOriginal(c) ==
    /\ kind[c] = "units"
    /\ Advance(c, "dialing", "writing")
    /\ original' = clock.units
    /\ UNCHANGED clock

WriteUnits(c) ==
    /\ Advance(c, "writing", "verifying")
    /\ clock' = [clock EXCEPT !.units = Taken(Encode(wanted[c]))]
    /\ UNCHANGED original

(* Slip: any option read back will do.                                     *)
ReadBackAnything(c) == Decode(clock.units) # None

ReadBackAgrees(c) == clock.units = Encode(wanted[c])

VerifyAgrees(c) ==
    /\ pc[c] = "verifying"
    /\ ReadBackAgrees(c)
    /\ Note(c, wanted[c])

VerifyDisagrees(c) ==
    /\ ~ ReadBackAgrees(c)
    /\ Advance(c, "verifying", "rolling")
    /\ UNCHANGED <<clock, original>>

(* Slip: a failed read-back is only reported.                              *)
RollBackSkipped(c) == pc[c] = "rolling" /\ Fail(c, touched) /\ UNCHANGED clock

(* A failed read-back is not retried, whether or not the byte could be     *)
(* put back.                                                               *)
RollBack(c) ==
    /\ pc[c] = "rolling"
    /\ \/ /\ clock' = [clock EXCEPT !.units = Taken(original)]
          /\ Fail(c, touched)
       \/ /\ UNCHANGED clock
          /\ Fail(c, TRUE)

(* set_time_format: the mode command, which may be refused or be taken for *)
(* a time, and the clock write that follows it in any case.                *)
SendMode(c) ==
    /\ kind[c] = "mode"
    /\ Advance(c, "dialing", "repairing")
    /\ clock' = IF firmware.mode = "takes" THEN [clock EXCEPT !.mode = wanted[c]]
                                           ELSE clock
    /\ UNCHANGED original

(* After a refused command, a clock write that succeeds is a failure: the  *)
(* firmware does not support the mode (AttemptFails).                      *)
ClockRepaired(c) ==
    /\ pc[c] = "repairing"
    /\ firmware.mode # "refuses"
    /\ Note(c, wanted[c])

(* read_state.  A byte that means nothing is an error (AttemptFails).      *)
ReadUnits(c) ==
    /\ pc[c] = "dialing"
    /\ kind[c] = "read"
    /\ Decode(clock.units) # None
    /\ Note(c, Decode(clock.units))

(* Slip: put together when the call began.                                 *)
RecordFound(c) == [data[target[c]] EXCEPT ![Key(c)] = previous[c]]

(* What a save writes: everything its coordinator knows.                   *)
Record(c) == data[target[c]]

(* A call that succeeded lets go of the lock and saves the whole record of *)
(* its coordinator; a save that fails is only logged.                      *)
Close(c, saves) ==
    /\ pc[c] = "closing"
    /\ pc' = [pc EXCEPT ![c] = "over"]
    /\ stored' = IF saves THEN Record(c) ELSE stored
    /\ doubt' = [doubt EXCEPT ![Key(c)] = target[c] # current]
    /\ unsaved' = (~ saves \/ target[c] # current)
    /\ UNCHANGED <<entryVars, clock, data, callVars, attempt, original, touched>>

(* A poll reads the units only while they are unknown, and may fail to.    *)
Polled(c) ==
    IF data[target[c]]["units"] = None THEN Decode(clock.units)
                                       ELSE data[target[c]]["units"]

(* It saves when it wrote the clock, before it publishes what it read.     *)
PollEnds(c, reads, saves) ==
    /\ pc[c] = "dialing"
    /\ kind[c] = "poll"
    /\ pc' = [pc EXCEPT ![c] = "over"]
    /\ data' = IF reads
               THEN [data EXCEPT ![target[c]] = [@ EXCEPT !["units"] = Polled(c)]]
               ELSE data
    /\ stored' = IF saves THEN Record(c) ELSE stored
    /\ unsaved' = IF saves THEN target[c] # current ELSE unsaved
    /\ UNCHANGED <<entryVars, clock, callVars, attempt, original, touched, doubt>>

Operation(c) ==
    \/ ReadOriginal(c) \/ WriteUnits(c) \/ VerifyAgrees(c) \/ VerifyDisagrees(c)
    \/ RollBack(c)
    \/ SendMode(c) \/ ClockRepaired(c)
    \/ ReadUnits(c)

Next ==
    \/ \E c \in Calls :
         \/ Select(c) \/ ReadOrPoll(c) \/ Acquire(c)
         \/ Operation(c)
         \/ \E saves \in BOOLEAN : Close(c, saves)
         \/ \E reads, saves \in BOOLEAN : PollEnds(c, reads, saves)
         \/ DeviceMissing(c) \/ AttemptFails(c) \/ Cancel(c)
    \/ \E g \in Loads : Reload(g) \/ Restart(g)
    \/ OtherChange

Spec == Init /\ [][Next]_vars

-----------------------------------------------------------------------------
(* Properties.                                                             *)

(* A call in the middle of changing the option in the clock.               *)
Changing(k) == \E c \in Calls : Uncertain(c, k)

(* "single source of truth": an option shown is the clock's, through       *)
(* failed read-backs and rollbacks, retries, reloads and restarts, unless  *)
(* a write's fate is unknown, another call came between, or the option     *)
(* comes from an old record or entity state (doubt).  There is no          *)
(* read-back of the mode: a clock that misreads the command passes.        *)
ShownIsClocks == \A k \in Keys :
    \/ doubt[k] \/ Changing(k)
    \/ data[current][k] \in {None, Real(k)}
    \/ k = "mode" /\ firmware.mode = "misreads"

(* A call ends without an error only when the clock has the option it      *)
(* reports, and that is the one selected, whatever attempts came before.   *)
SuccessIsReal == \A c \in Calls :
    pc[c] = "closing" =>
      /\ kind[c] \in {"units", "mode"} => data[target[c]][Key(c)] = wanted[c]
      /\ \/ data[target[c]][Key(c)] = Real(Key(c))
         \/ kind[c] = "mode" /\ firmware.mode = "misreads"

(* A restart brings back no older option: the record has the one shown, or *)
(* none, however saves of several calls interleave, unless the last of     *)
(* them failed or was that of an earlier coordinator.                      *)
StoredIsShown == \A k \in Keys :
    \/ doubt[k] \/ unsaved
    \/ \E c \in Calls : pc[c] = "closing" /\ Key(c) = k
    \/ stored[k] \in {None, data[current][k]}

(* "only the clock repair failed, so keep the new option": a mode call     *)
(* whose command the clock took, but not the clock write, shows the mode.  *)
RepairKeepsMode ==
    [][\A c \in Calls :
         pc[c] = "repairing" /\ firmware.mode = "takes" /\ AttemptFails(c)
           /\ pc'[c] = "over"
         => data'[target[c]]["mode"] = wanted[c]]_vars
=============================================================================
