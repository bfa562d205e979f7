------------------------------ MODULE Entries -------------------------------
(***************************************************************************)
(* Entries from the flow that creates them to their removal: config and    *)
(* options flow, migration, setup, unload, reload, the services and the    *)
(* calls to several entries, repair issues and the record.                 *)
(*                                                                         *)
(* Home Assistant runs one setup or unload of an entry at a time, aborts   *)
(* the other flows of an address when one creates its entry, and deletes   *)
(* runtime_data in an unload that succeeds.  What runs in a loaded entry   *)
(* is in the other modules: of the options only the sync choice and        *)
(* whether polls run are kept, of a call its targets.                      *)
(***************************************************************************)
EXTENDS Schedule, FiniteSets

CONSTANTS
    Entries,        \* entry ids, never used again
    Clocks,
    Flows,          \* config flows
    Callers,        \* service calls
    StoredHours,    \* auto_sync_hours that 0.1.x may have left
    OfferedChoices  \* of automatic sync in the options form

(* An address as Bluetooth or the user spells it.                          *)
Addresses == Clocks \X {"upper", "lower"}

Upper(a) == <<a[1], "upper">>

ASSUME EntriesAssumption == IsFiniteSet(Entries)
ASSUME OfferedAssumption == OfferedChoices \subseteq AutoSyncChoices
ASSUME NoneAssumption ==
    None \notin Entries \cup Addresses \cup AutoSyncChoices
ASSUME HoursAssumption == StoredHours \subseteq Int \cup {None}

VARIABLES
    state,          \* of each entry
    address,        \* its unique id
    version, sync, polls,       \* its options; sync of version 1 is the hours
    armed,          \* the sync choice the schedule was set up with
    polling,        \* whether the coordinator polls
    removing,       \* the unload is part of a removal
    reload,         \* the update listener has asked for a reload
    services,       \* the services are registered
    record,         \* there is a persisted record
    issue,          \* each entry has a repair issue, of either kind
    step, uid,      \* of each flow: its place, its unique id
    named, todo, at, done, result,      \* of each call
    off,            \* history: the user has automatic sync turned off
    overlooked,     \* history: options were saved while a setup ran
    unclean         \* history: removed during a call, or not unloaded

optionVars == <<version, sync, polls, off>>
flowVars == <<step, uid>>
callVars == <<named, todo, at, done, result>>
runVars == <<armed, polling>>
worldVars == <<services, record, issue>>
vars == <<state, address, optionVars, runVars, removing, reload, worldVars,
          flowVars, callVars, overlooked, unclean>>

States == {"new", "idle", "failed", "preparing", "forwarding", "loaded",
           "unloading", "jammed", "gone"}

TypeOK ==
    /\ state \in [Entries -> States]
    /\ address \in [Entries -> Addresses \cup {None}]
    /\ version \in [Entries -> {1, 2}]
    /\ \A e \in Entries : IF version[e] = 1 THEN sync[e] \in StoredHours
                          ELSE sync[e] \in AutoSyncChoices \cup {None}
    /\ polls \in [Entries -> BOOLEAN] /\ off \in [Entries -> BOOLEAN]
    /\ armed \in [Entries -> AutoSyncChoices \cup {None}]
    /\ \A e \in Entries : state[e] \in {"forwarding", "loaded"} => armed[e] # None
    /\ polling \in [Entries -> BOOLEAN]
    /\ removing \in [Entries -> BOOLEAN] /\ reload \in [Entries -> BOOLEAN]
    /\ services \in BOOLEAN
    /\ record \in [Entries -> BOOLEAN]
    /\ issue \in [Entries -> BOOLEAN]
    /\ step \in [Flows -> {"idle", "confirm", "form"}]
    /\ uid \in [Flows -> Addresses \cup {None}]
    /\ named \in [Callers -> SUBSET Entries] /\ todo \in [Callers -> SUBSET Entries]
    /\ done \in [Callers -> SUBSET Entries]
    /\ at \in [Callers -> Entries \cup {None}]
    /\ result \in [Callers -> {"none", "ok", "error"}]
    /\ overlooked \in [Entries -> BOOLEAN]
    /\ unclean \subseteq Entries

(* A first start: of an installation that used 0.1.x, or of none.          *)
Init ==
    /\ state \in [Entries -> {"new", "idle"}]
    /\ address \in [Entries -> {Upper(a) : a \in Addresses} \cup {None}]
    /\ \A d, e \in Entries :
         /\ address[e] = None <=> state[e] = "new"
         /\ address[d] = address[e] => d = e \/ address[e] = None
    /\ version = [e \in Entries |-> IF state[e] = "new" THEN 2 ELSE 1]
    /\ sync \in [Entries -> StoredHours \cup {None}]
    /\ \A e \in Entries : sync[e] \in IF version[e] = 1 THEN StoredHours ELSE {None}
    /\ polls = [e \in Entries |-> FALSE]
    /\ off = [e \in Entries |->
         version[e] = 1 /\ (sync[e] = None \/ sync[e] <= 0)]
    /\ armed = [e \in Entries |-> None]
    /\ polling = [e \in Entries |-> FALSE]
    /\ removing = [e \in Entries |-> FALSE]
    /\ reload = [e \in Entries |-> FALSE]
    /\ services = FALSE
    /\ record = [e \in Entries |-> FALSE]
    /\ issue = [e \in Entries |-> FALSE]
    /\ step = [f \in Flows |-> "idle"] /\ uid = [f \in Flows |-> None]
    /\ named = [c \in Callers |-> {}] /\ todo = [c \in Callers |-> {}]
    /\ done = [c \in Callers |-> {}] /\ at = [c \in Callers |-> None]
    /\ result = [c \in Callers |-> "none"]
    /\ overlooked = [e \in Entries |-> FALSE]
    /\ unclean = {}

(* hass.config_entries.async_entries(DOMAIN)                               *)
Configured == {e \in Entries : state[e] \notin {"new", "gone"}}

Known(a) == \E e \in Configured : address[e] = a

-----------------------------------------------------------------------------
(* Config flows.                                                           *)

FlowUnchanged == UNCHANGED <<optionVars, runVars, removing, reload, worldVars,
                             callVars, overlooked, unclean>>

(* A device is discovered: nothing comes of it when another flow is at it. *)
Bluetooth(f, a) ==
    /\ step[f] = "idle"
    /\ \A g \in Flows : uid[g] # Upper(a)
    /\ ~ Known(Upper(a))
    /\ step' = [step EXCEPT ![f] = "confirm"]
    /\ uid' = [uid EXCEPT ![f] = Upper(a)]
    /\ UNCHANGED <<state, address>> /\ FlowUnchanged

(* async_step_user: a form that offers what was in range and not           *)
(* configured when it was shown.                                           *)
ShowForm(f) ==
    /\ step[f] = "idle"
    /\ \E a \in Addresses : ~ Known(Upper(a))
    /\ step' = [step EXCEPT ![f] = "form"]
    /\ UNCHANGED <<state, address, uid>> /\ FlowUnchanged

(* The flow creates its entry; the others of its address are aborted.      *)
Create(f, a) ==
    \E e \in Entries :
      /\ state[e] = "new"
      /\ state' = [state EXCEPT ![e] = "idle"]
      /\ address' = [address EXCEPT ![e] = a]
      /\ step' = [g \in Flows |-> IF g = f \/ uid[g] = a THEN "idle" ELSE step[g]]
      /\ uid' = [g \in Flows |-> IF g = f \/ uid[g] = a THEN None ELSE uid[g]]
      /\ FlowUnchanged

Confirm(f) == step[f] = "confirm" /\ Create(f, uid[f])

EndFlow(f) ==
    /\ step[f] # "idle"
    /\ step' = [step EXCEPT ![f] = "idle"]
    /\ uid' = [uid EXCEPT ![f] = None]
    /\ UNCHANGED <<state, address>> /\ FlowUnchanged

Choose(f, a) ==
    /\ step[f] = "form"
    /\ IF Known(Upper(a)) THEN EndFlow(f) ELSE Create(f, Upper(a))

(* Slip: as the user spells it.                                            *)
ManualAddressAsTyped(a) == a

ManualAddress(a) == Upper(a)

Manual(f, a) ==
    /\ step[f] = "idle"
    /\ ~ Known(ManualAddress(a))
    /\ Create(f, ManualAddress(a))

-----------------------------------------------------------------------------
(* Setup.                                                                  *)

SetUpUnchanged == UNCHANGED <<address, flowVars, callVars>>

(* async_migrate_entry: the sync choice, once.                             *)
Migrated(e) ==
    IF version[e] >= 2 THEN sync[e] ELSE auto_sync_from_v1_hours(sync[e])

(* async_migrate_entry comes first, and the new coordinator reads whether  *)
(* it polls; an earlier one is forgotten.                                  *)
SetUpBegins(e) ==
    /\ state[e] \in {"idle", "failed"}
    /\ state' = [state EXCEPT ![e] = "preparing"]
    /\ sync' = [sync EXCEPT ![e] = Migrated(e)]
    /\ version' = [version EXCEPT ![e] = 2]
    /\ polling' = [polling EXCEPT ![e] = polls[e]]
    /\ overlooked' = [overlooked EXCEPT ![e] = FALSE]
    /\ reload' = [reload EXCEPT ![e] = FALSE]
    /\ UNCHANGED <<polls, off, armed, removing, worldVars, unclean>>
    /\ SetUpUnchanged

(* The record is read, perhaps a first poll made: now the schedule.        *)
Arm(e) ==
    /\ state[e] = "preparing"
    /\ state' = [state EXCEPT ![e] = "forwarding"]
    /\ armed' = [armed EXCEPT ![e] = auto_sync_choice(sync[e])]
    /\ UNCHANGED <<optionVars, polling, removing, reload, worldVars, overlooked,
                   unclean>>
    /\ SetUpUnchanged

SetUpFails(e) ==
    /\ state[e] \in {"preparing", "forwarding"}
    /\ state' = [state EXCEPT ![e] = "failed"]
    /\ armed' = [armed EXCEPT ![e] = None]
    /\ UNCHANGED <<optionVars, polling, removing, reload, worldVars, overlooked,
                   unclean>>
    /\ SetUpUnchanged

(* Without a connectable scanner, or out of reach of one; and a connection *)
(* that worked, or an unload.                                              *)
IssueCreated(e, warns) == [issue EXCEPT ![e] = @ \/ warns]

IssuesCleared(e) == [issue EXCEPT ![e] = FALSE]

(* The platforms are there: the listener, the services, perhaps an issue.  *)
SetUpDone(e, warns) ==
    /\ state[e] = "forwarding"
    /\ state' = [state EXCEPT ![e] = "loaded"]
    /\ services' = TRUE
    /\ issue' = IssueCreated(e, warns)
    /\ UNCHANGED <<optionVars, runVars, removing, reload, record, overlooked,
                   unclean>>
    /\ SetUpUnchanged

(* The update listener, from the end of a setup to the end of an unload.   *)
Listens(e) == state[e] \in {"loaded", "unloading"}

(* The options form is saved.                                              *)
SaveOptions(e, choice, poll) ==
    /\ e \in Configured /\ version[e] = 2
    /\ <<choice, poll>> # <<sync[e], polls[e]>>
    /\ sync' = [sync EXCEPT ![e] = choice]
    /\ polls' = [polls EXCEPT ![e] = poll]
    /\ off' = [off EXCEPT ![e] = choice = "0"]
    /\ reload' = [reload EXCEPT ![e] = @ \/ Listens(e)]
    /\ overlooked' = [overlooked EXCEPT
         ![e] = @ \/ state[e] \in {"preparing", "forwarding"}]
    /\ UNCHANGED <<state, version, runVars, removing, worldVars, unclean>>
    /\ SetUpUnchanged

-----------------------------------------------------------------------------
(* Unload and removal.                                                     *)

(* The user disables, reloads or removes the entry, or the listener        *)
(* reloads it.  A reload is a setup after the unload.                      *)
UnloadBegins(e, remove) ==
    /\ state[e] = "loaded"
    /\ state' = [state EXCEPT ![e] = "unloading"]
    /\ removing' = [removing EXCEPT ![e] = remove]
    /\ UNCHANGED <<optionVars, runVars, reload, worldVars, overlooked, unclean>>
    /\ SetUpUnchanged

InUse(e) == \E c \in Callers : result[c] = "none" /\ e \in todo[c]

(* Slip: left to Home Assistant, which knows nothing of it.                *)
RecordKept(e) == record

RecordRemoved(e) == [record EXCEPT ![e] = FALSE]

(* async_remove_entry, whether or not the unload succeeded.                *)
Remove(e, unloaded) ==
    /\ state' = [state EXCEPT ![e] = "gone"]
    /\ record' = RecordRemoved(e)
    /\ unclean' = IF unloaded /\ ~ InUse(e) THEN unclean ELSE unclean \cup {e}
    /\ reload' = [reload EXCEPT ![e] = FALSE]

Stay(e, as) ==
    /\ state' = [state EXCEPT ![e] = as]
    /\ UNCHANGED <<record, unclean, reload>>

(* Slip: the services go with any entry.                                   *)
LastEntryOrNot == Cardinality(Configured) >= 1

LastEntry == Cardinality(Configured) = 1

UnloadDone(e) ==
    /\ state[e] = "unloading"
    /\ services' = (services /\ ~ LastEntry)
    /\ issue' = IssuesCleared(e)
    /\ armed' = [armed EXCEPT ![e] = None]
    /\ removing' = [removing EXCEPT ![e] = FALSE]
    /\ IF removing[e] THEN Remove(e, TRUE) ELSE Stay(e, "idle")
    /\ UNCHANGED <<optionVars, polling, overlooked>> /\ SetUpUnchanged

(* A platform did not unload: the entry stays as it is until it is removed.*)
UnloadFails(e) ==
    /\ state[e] = "unloading"
    /\ removing' = [removing EXCEPT ![e] = FALSE]
    /\ IF removing[e] THEN Remove(e, FALSE) ELSE Stay(e, "jammed")
    /\ UNCHANGED <<optionVars, runVars, services, issue, overlooked>>
    /\ SetUpUnchanged

RemoveUnloaded(e) ==
    /\ state[e] \in {"idle", "failed", "jammed"}
    /\ Remove(e, state[e] # "jammed")
    /\ UNCHANGED <<optionVars, runVars, removing, services, issue, overlooked>>
    /\ SetUpUnchanged

Restart ==
    /\ state' = [e \in Entries |-> IF e \in Configured THEN "idle" ELSE state[e]]
    /\ armed' = [e \in Entries |-> None]
    /\ removing' = [e \in Entries |-> FALSE]
    /\ reload' = [e \in Entries |-> FALSE]
    /\ services' = FALSE
    /\ issue' = [e \in Entries |-> FALSE]
    /\ step' = [f \in Flows |-> "idle"] /\ uid' = [f \in Flows |-> None]
    /\ result' = [c \in Callers |-> IF result[c] = "none" /\ named[c] # {}
                                    THEN "error" ELSE result[c]]
    /\ at' = [c \in Callers |-> None]
    /\ UNCHANGED <<address, optionVars, polling, record, named, todo, done,
                   overlooked, unclean>>

-----------------------------------------------------------------------------
(* Service calls.                                                          *)

CallUnchanged == UNCHANGED <<state, address, optionVars, runVars, removing,
                             reload, services, flowVars, overlooked, unclean>>

(* The targets are resolved once, to the entries configured then.          *)
Call(c, targets) ==
    /\ services /\ named[c] = {}
    /\ targets # {} /\ targets \subseteq Configured
    /\ named' = [named EXCEPT ![c] = targets]
    /\ todo' = [todo EXCEPT ![c] = targets]
    /\ UNCHANGED <<at, done, result, record, issue>> /\ CallUnchanged

Pending(c) == {e \in todo[c] : result[c] = "none" /\ at[c] = None}

(* The next one has a coordinator, be it that of a failed setup.           *)
Enter(c, e) ==
    /\ e \in Pending(c) /\ state[e] # "idle"
    /\ at' = [at EXCEPT ![c] = e]
    /\ UNCHANGED <<named, todo, done, result, record, issue>> /\ CallUnchanged

Missing(c, e) ==
    /\ e \in Pending(c) /\ state[e] \in {"idle", "gone"}
    /\ result' = [result EXCEPT ![c] = "error"]
    /\ UNCHANGED <<named, todo, at, done, record, issue>> /\ CallUnchanged

(* The operation succeeds, its connection clears the issues, and it saves  *)
(* the record unless it only read.                                         *)
Perform(c, saves) ==
    /\ at[c] # None
    /\ done' = [done EXCEPT ![c] = @ \cup {at[c]}]
    /\ todo' = [todo EXCEPT ![c] = @ \ {at[c]}]
    /\ at' = [at EXCEPT ![c] = None]
    /\ result' = [result EXCEPT ![c] = IF todo'[c] = {} THEN "ok" ELSE @]
    /\ record' = [record EXCEPT ![at[c]] = @ \/ saves]
    /\ issue' = IssuesCleared(at[c])
    /\ UNCHANGED named /\ CallUnchanged

(* Slip: the next one is tried all the same.                               *)
GoesOn(c) ==
    /\ at[c] # None
    /\ todo' = [todo EXCEPT ![c] = @ \ {at[c]}]
    /\ at' = [at EXCEPT ![c] = None]
    /\ result' = [result EXCEPT ![c] = IF todo'[c] = {} THEN "ok" ELSE @]
    /\ UNCHANGED <<named, done, record, issue>> /\ CallUnchanged

(* The operation fails, or is cancelled: the call ends with an error, and  *)
(* the targets that are left are not tried.                                *)
Stops(c) ==
    /\ at[c] # None
    /\ at' = [at EXCEPT ![c] = None]
    /\ result' = [result EXCEPT ![c] = "error"]
    /\ UNCHANGED <<named, todo, done, record, issue>> /\ CallUnchanged

FlowStep(f) ==
    \/ \E a \in Addresses : Bluetooth(f, a) \/ Choose(f, a) \/ Manual(f, a)
    \/ ShowForm(f) \/ Confirm(f) \/ EndFlow(f)

EntryStep(e) ==
    \/ SetUpBegins(e) \/ Arm(e) \/ SetUpFails(e)
    \/ \E warns \in BOOLEAN : SetUpDone(e, warns)
    \/ \E choice \in OfferedChoices, poll \in BOOLEAN : SaveOptions(e, choice, poll)
    \/ \E remove \in BOOLEAN : UnloadBegins(e, remove)
    \/ UnloadDone(e) \/ UnloadFails(e) \/ RemoveUnloaded(e)

CallStep(c) ==
    \/ \E targets \in SUBSET Entries : Call(c, targets)
    \/ \E e \in Entries : Enter(c, e) \/ Missing(c, e)
    \/ \E saves \in BOOLEAN : Perform(c, saves)
    \/ Stops(c)

Next ==
    \/ \E f \in Flows : FlowStep(f)
    \/ \E e \in Entries : EntryStep(e)
    \/ \E c \in Callers : CallStep(c)
    \/ Restart

Spec == Init /\ [][Next]_vars

-----------------------------------------------------------------------------
(* Properties.                                                             *)

(* A clock has one entry, whichever flows ran side by side, however its    *)
(* address was spelled.                                                    *)
OneEntryPerClock == \A d, e \in Configured :
    address[d][1] = address[e][1] => d = e

(* The services are there as long as an entry is, in whatever order others *)
(* are set up, reloaded and removed.                                       *)
ServicesWhileLoaded == (\E e \in Entries : state[e] = "loaded") => services

(* A call that ends without an error has reached every clock it named,     *)
(* though entries were reloaded or removed while it worked on others.      *)
CallTruthful == \A c \in Callers : result[c] = "ok" => done[c] = named[c]

(* A loaded entry runs with the options last saved, and one that had       *)
(* automatic sync off in 0.1.x has it off until the user turns it on;      *)
(* options saved while a setup runs are the exception.                     *)
RunsItsOptions == \A e \in Entries :
    state[e] = "loaded" /\ ~ reload[e] /\ ~ overlooked[e] =>
      /\ polling[e] = polls[e]
      /\ armed[e] = auto_sync_choice(sync[e])
      /\ armed[e] = "0" <=> off[e]

(* An entry that is gone leaves no record and no issue, unless a call to   *)
(* it was under way or it could not be unloaded.                           *)
NothingLeftBehind == \A e \in Entries :
    state[e] = "gone" /\ e \notin unclean => ~ record[e] /\ ~ issue[e]

(* "Reload changed options on every supported Home Assistant version."     *)
OptionsTakeEffect == \A e \in Entries :
    state[e] = "loaded" /\ ~ reload[e] => armed[e] = auto_sync_choice(sync[e])
=============================================================================
