--------------------------- MODULE EntriesProofs ----------------------------
(***************************************************************************)
(* Proofs about Entries, for any finite set of entry ids and any clocks,   *)
(* flows, calls and stored options.  Each property has an invariant of its *)
(* own, over the few variables it is about.                                *)
(***************************************************************************)
EXTENDS Entries, ScheduleProofs, FiniteSetTheorems

Uppers == {Upper(a) : a \in Addresses}

(* Addresses are spelled one way, and no flow holds one that is taken.     *)
AddressInv ==
    /\ state \in [Entries -> States]
    /\ address \in [Entries -> Addresses \cup {None}]
    /\ step \in [Flows -> {"idle", "confirm", "form"}]
    /\ uid \in [Flows -> Addresses \cup {None}]
    /\ \A e \in Configured : address[e] \in Uppers
    /\ \A f \in Flows : step[f] = "confirm" => uid[f] \in Uppers /\ ~ Known(uid[f])
    /\ \A d, e \in Configured : address[d] = address[e] => d = e

LEMMA UppersType ==
    /\ Uppers \subseteq Addresses
    /\ \A a \in Addresses : Upper(a) \in Uppers
    /\ \A a, b \in Uppers : a[1] = b[1] => a = b
BY DEF Uppers, Upper, Addresses

LEMMA InitAddress == Init => AddressInv
<1> SUFFICES ASSUME Init PROVE AddressInv
  OBVIOUS
<1>1. \A e \in Entries : state[e] \in States /\ address[e] \in Uppers \cup {None}
  BY DEF Init, States, Uppers
<1>2. \A e \in Configured : e \in Entries /\ state[e] = "idle" /\ address[e] # None
  BY DEF Init, Configured
<1>3. state \in [Entries -> States] /\ address \in [Entries -> Addresses \cup {None}]
  BY <1>1, UppersType DEF Init
<1> QED BY <1>1, <1>2, <1>3 DEF Init, AddressInv

(* A step that makes no entry, and moves no flow to a confirmation.        *)
LEMMA AddressKept ==
    ASSUME AddressInv, UNCHANGED address,
           state' \in [Entries -> States],
           Configured' \subseteq Configured,
           step' \in [Flows -> {"idle", "confirm", "form"}],
           uid' \in [Flows -> Addresses \cup {None}],
           \A f \in Flows : step'[f] = "confirm" => step[f] = "confirm" /\ uid'[f] = uid[f]
    PROVE  AddressInv'
BY DEF AddressInv, Known

LEMMA CreateAddress ==
    ASSUME AddressInv, NEW f \in Flows, NEW a \in Uppers, ~ Known(a), Create(f, a)
    PROVE  AddressInv'
<1>1. PICK e \in Entries :
        /\ state[e] = "new" /\ state' = [state EXCEPT ![e] = "idle"]
        /\ address' = [address EXCEPT ![e] = a]
        /\ step' = [g \in Flows |-> IF g = f \/ uid[g] = a THEN "idle" ELSE step[g]]
        /\ uid' = [g \in Flows |-> IF g = f \/ uid[g] = a THEN None ELSE uid[g]]
  BY DEF Create
<1>2. /\ Configured' = Configured \cup {e} /\ e \notin Configured
      /\ \A d \in Configured : address'[d] = address[d]
      /\ address'[e] = a
  BY <1>1 DEF AddressInv, Configured, States
<1>3. /\ state' \in [Entries -> States]
      /\ address' \in [Entries -> Addresses \cup {None}]
  BY <1>1, UppersType DEF AddressInv, States
<1>4. /\ step' \in [Flows -> {"idle", "confirm", "form"}]
      /\ uid' \in [Flows -> Addresses \cup {None}]
  BY <1>1 DEF AddressInv
<1>5. \A d \in Configured' : address'[d] \in Uppers
  BY <1>2 DEF AddressInv
<1>6. \A d, g \in Configured' : address'[d] = address'[g] => d = g
  BY <1>2 DEF AddressInv, Known
<1>7. ASSUME NEW g \in Flows, step'[g] = "confirm"
      PROVE  uid'[g] \in Uppers /\ ~ Known(uid[g])'
  <2>1. step[g] = "confirm" /\ uid'[g] = uid[g] /\ uid[g] # a
    BY <1>1, <1>7
  <2> QED BY <1>2, <2>1 DEF AddressInv, Known
<1>8. \A g \in Flows : step'[g] = "confirm" => uid'[g] \in Uppers /\ ~ Known(uid[g])'
  BY <1>7
<1> QED BY <1>3, <1>4, <1>5, <1>6, <1>8, <1>1 DEF AddressInv, Known

LEMMA NextAddress ==
    ASSUME AddressInv, [Next]_vars
    PROVE  AddressInv'
<1>1. CASE UNCHANGED vars
  BY <1>1 DEF vars, flowVars, AddressInv, Configured, Known
<1>2. ASSUME NEW f \in Flows, FlowStep(f) PROVE AddressInv'
  <2>1. ASSUME NEW a \in Addresses, Bluetooth(f, a) PROVE AddressInv'
    <3>1. /\ step' \in [Flows -> {"idle", "confirm", "form"}]
          /\ uid' \in [Flows -> Addresses \cup {None}]
      BY <2>1, UppersType DEF Bluetooth, AddressInv
    <3>2. \A g \in Flows : \/ step'[g] = step[g] /\ uid'[g] = uid[g]
                           \/ uid'[g] = Upper(a)
      BY <2>1 DEF Bluetooth, AddressInv
    <3>3. Upper(a) \in Uppers /\ ~ Known(Upper(a)) /\ UNCHANGED <<state, address>>
      BY <2>1, UppersType DEF Bluetooth
    <3> QED BY <3>1, <3>2, <3>3 DEF AddressInv, Configured, Known
  <2>2. CASE ShowForm(f)
    <3>1. /\ step' \in [Flows -> {"idle", "confirm", "form"}]
          /\ \A g \in Flows : step'[g] = "confirm" => step[g] = "confirm"
          /\ UNCHANGED <<state, address, uid>>
      BY <2>2 DEF ShowForm, AddressInv
    <3> QED BY <3>1, AddressKept DEF AddressInv, Configured
  <2>3. CASE EndFlow(f)
    <3>1. /\ step' \in [Flows -> {"idle", "confirm", "form"}]
          /\ uid' \in [Flows -> Addresses \cup {None}]
          /\ \A g \in Flows : step'[g] = "confirm" => step[g] = "confirm" /\ uid'[g] = uid[g]
          /\ UNCHANGED <<state, address>>
      BY <2>3 DEF EndFlow, AddressInv
    <3> QED BY <3>1, AddressKept DEF AddressInv, Configured
  <2>4. CASE Confirm(f)
    BY <2>4, CreateAddress DEF Confirm, AddressInv
  <2>5. ASSUME NEW a \in Addresses, Choose(f, a) PROVE AddressInv'
    BY <2>3, <2>5, UppersType, CreateAddress DEF Choose
  <2>6. ASSUME NEW a \in Addresses, Manual(f, a) PROVE AddressInv'
    BY <2>6, UppersType, CreateAddress DEF Manual, ManualAddress
  <2> QED BY <1>2, <2>1, <2>2, <2>3, <2>4, <2>5, <2>6 DEF FlowStep
<1>3. ASSUME NEW e \in Entries, EntryStep(e) PROVE AddressInv'
  <2>1. UNCHANGED <<address, step, uid>>
    BY <1>3 DEF EntryStep, SetUpBegins, Arm, SetUpFails, SetUpDone, SaveOptions,
       UnloadBegins, UnloadDone, UnloadFails, RemoveUnloaded, SetUpUnchanged, flowVars
  <2>2. e \in Configured
    BY <1>3 DEF EntryStep, SetUpBegins, Arm, SetUpFails, SetUpDone, SaveOptions,
       UnloadBegins, UnloadDone, UnloadFails, RemoveUnloaded, Configured
  <2>3. UNCHANGED state \/ \E s \in States : state' = [state EXCEPT ![e] = s]
    BY <1>3 DEF EntryStep, SetUpBegins, Arm, SetUpFails, SetUpDone, SaveOptions,
       UnloadBegins, UnloadDone, UnloadFails, RemoveUnloaded, Remove, Stay, States
  <2>4. /\ state' \in [Entries -> States]
        /\ Configured' \subseteq Configured
    BY <2>2, <2>3 DEF AddressInv, Configured
  <2> QED BY <2>1, <2>4, AddressKept DEF AddressInv
<1>4. ASSUME NEW c \in Callers, CallStep(c) PROVE AddressInv'
  <2>1. UNCHANGED <<state, address, step, uid>>
    BY <1>4 DEF CallStep, Call, Enter, Missing, Perform, Stops, CallUnchanged, flowVars
  <2> QED BY <2>1, AddressKept DEF AddressInv, Configured
<1>5. CASE Restart
  <2>1. /\ state' \in [Entries -> States]
        /\ Configured' \subseteq Configured
    BY <1>5 DEF Restart, AddressInv, Configured, States
  <2>2. /\ step' \in [Flows -> {"idle", "confirm", "form"}]
        /\ uid' \in [Flows -> Addresses \cup {None}]
        /\ \A f \in Flows : step'[f] # "confirm"
        /\ UNCHANGED address
    BY <1>5 DEF Restart
  <2> QED BY <2>1, <2>2, AddressKept
<1> QED BY <1>1, <1>2, <1>3, <1>4, <1>5 DEF Next

(* A clock has one entry, however the flows of its address interleave and  *)
(* however the user spells it.                                             *)
THEOREM OneEntry == Spec => []OneEntryPerClock
<1>1. AddressInv => OneEntryPerClock
  BY UppersType DEF AddressInv, OneEntryPerClock
<1> QED BY <1>1, InitAddress, NextAddress, PTL DEF Spec

-----------------------------------------------------------------------------
(* The services go with the last entry, so never while one is loaded.      *)
ServicesInv ==
    /\ state \in [Entries -> States]
    /\ services \in BOOLEAN
    /\ ServicesWhileLoaded

LEMMA OnlyOne ==
    ASSUME LastEntry, NEW d \in Configured, NEW e \in Configured PROVE d = e
<1>1. IsFiniteSet(Configured)
  BY EntriesAssumption, FS_Subset DEF Configured
<1>2. PICK x : Configured = {x}
  BY <1>1, FS_Singleton DEF LastEntry
<1> QED BY <1>2

LEMMA NextServices ==
    ASSUME ServicesInv, [Next]_vars
    PROVE  ServicesInv'
<1>1. CASE UNCHANGED vars
  BY <1>1 DEF vars, worldVars, ServicesInv, ServicesWhileLoaded
<1>2. ASSUME NEW f \in Flows, FlowStep(f) PROVE ServicesInv'
  <2>1. UNCHANGED services
    BY <1>2 DEF FlowStep, Bluetooth, ShowForm, Confirm, EndFlow, Choose, Manual,
       Create, FlowUnchanged, worldVars
  <2>2. UNCHANGED state \/ \E e \in Entries : state' = [state EXCEPT ![e] = "idle"]
    BY <1>2 DEF FlowStep, Bluetooth, ShowForm, Confirm, EndFlow, Choose, Manual, Create
  <2> QED BY <2>1, <2>2 DEF ServicesInv, ServicesWhileLoaded, States
<1>3. ASSUME NEW e \in Entries, EntryStep(e) PROVE ServicesInv'
  <2>1. ASSUME NEW warns \in BOOLEAN, SetUpDone(e, warns) PROVE ServicesInv'
    BY <2>1 DEF SetUpDone, ServicesInv, ServicesWhileLoaded, States
  <2>2. CASE UnloadDone(e)
    <3>1. /\ state[e] = "unloading" /\ services' = (services /\ ~ LastEntry)
          /\ \E s \in {"gone", "idle"} : state' = [state EXCEPT ![e] = s]
      BY <2>2 DEF UnloadDone, Remove, Stay
    <3>2. state' \in [Entries -> States] /\ services' \in BOOLEAN
      BY <3>1 DEF ServicesInv, States
    <3>3. ASSUME NEW d \in Entries, state'[d] = "loaded" PROVE services'
      <4>1. state[d] = "loaded" /\ d # e
        BY <3>1, <3>3 DEF ServicesInv
      <4>2. d \in Configured /\ e \in Configured
        BY <3>1, <4>1 DEF Configured
      <4> QED BY <3>1, <4>1, <4>2, OnlyOne DEF ServicesInv, ServicesWhileLoaded
    <3> QED BY <3>2, <3>3 DEF ServicesInv, ServicesWhileLoaded
  <2>3. ASSUME UNCHANGED services,
               \/ UNCHANGED state
               \/ \E s \in States \ {"loaded"} : state' = [state EXCEPT ![e] = s]
        PROVE  ServicesInv'
    BY <2>3 DEF ServicesInv, ServicesWhileLoaded
  <2> QED BY <1>3, <2>1, <2>2, <2>3 DEF EntryStep, SetUpBegins, Arm, SetUpFails,
        SaveOptions, UnloadBegins, UnloadFails, RemoveUnloaded, Remove, Stay,
        States, worldVars
<1>4. ASSUME NEW c \in Callers, CallStep(c) PROVE ServicesInv'
  <2>1. UNCHANGED <<state, services>>
    BY <1>4 DEF CallStep, Call, Enter, Missing, Perform, Stops, CallUnchanged
  <2> QED BY <2>1 DEF ServicesInv, ServicesWhileLoaded
<1>5. CASE Restart
  <2>1. /\ state' \in [Entries -> States]
        /\ \A e \in Entries : state'[e] # "loaded"
    BY <1>5 DEF Restart, ServicesInv, Configured, States
  <2>2. services' \in BOOLEAN
    BY <1>5 DEF Restart
  <2> QED BY <2>1, <2>2 DEF ServicesInv, ServicesWhileLoaded
<1> QED BY <1>1, <1>2, <1>3, <1>4, <1>5 DEF Next

LEMMA InitServices == Init => ServicesInv
<1> SUFFICES ASSUME Init PROVE ServicesInv
  OBVIOUS
<1>1. \A e \in Entries : state[e] \in {"new", "idle"}
  BY DEF Init
<1>2. state \in [Entries -> States]
  BY <1>1 DEF Init, States
<1>3. services \in BOOLEAN
  BY DEF Init
<1> QED BY <1>1, <1>2, <1>3 DEF ServicesInv, ServicesWhileLoaded

(* The services are there as long as an entry is loaded, in whatever order *)
(* entries are set up, reloaded, disabled and removed.                     *)
THEOREM Services == Spec => []ServicesWhileLoaded
<1>1. ServicesInv => ServicesWhileLoaded
  BY DEF ServicesInv
<1> QED BY <1>1, InitServices, NextServices, PTL DEF Spec

-----------------------------------------------------------------------------
(* A call has reached what it no longer has to do.                         *)
CallInv ==
    /\ named \in [Callers -> SUBSET Entries]
    /\ todo \in [Callers -> SUBSET Entries]
    /\ done \in [Callers -> SUBSET Entries]
    /\ at \in [Callers -> Entries \cup {None}]
    /\ result \in [Callers -> {"none", "ok", "error"}]
    /\ \A c \in Callers :
         /\ result[c] # "error" => named[c] = done[c] \cup todo[c]
         /\ result[c] = "ok" => todo[c] = {}
         /\ named[c] = {} => result[c] = "none"
         /\ at[c] # None => at[c] \in todo[c] /\ result[c] = "none"

LEMMA CallsUnmoved ==
    ASSUME CallInv, UNCHANGED callVars PROVE CallInv'
BY DEF CallInv, callVars

LEMMA NextCalls ==
    ASSUME CallInv, [Next]_vars
    PROVE  CallInv'
<1>1. CASE UNCHANGED vars
  BY <1>1, CallsUnmoved DEF vars
<1>2. ASSUME NEW f \in Flows, FlowStep(f) PROVE CallInv'
  BY <1>2, CallsUnmoved DEF FlowStep, Bluetooth, ShowForm, Confirm, EndFlow, Choose,
     Manual, Create, FlowUnchanged
<1>3. ASSUME NEW e \in Entries, EntryStep(e) PROVE CallInv'
  BY <1>3, CallsUnmoved DEF EntryStep, SetUpBegins, Arm, SetUpFails, SetUpDone,
     SaveOptions, UnloadBegins, UnloadDone, UnloadFails, RemoveUnloaded, SetUpUnchanged
<1>4. ASSUME NEW c \in Callers, CallStep(c) PROVE CallInv'
  <2>1. ASSUME NEW targets \in SUBSET Entries, Call(c, targets) PROVE CallInv'
    BY <2>1 DEF Call, CallInv
  <2>2. ASSUME NEW e \in Entries, Enter(c, e) PROVE CallInv'
    BY <2>2 DEF Enter, Pending, CallInv
  <2>3. ASSUME NEW e \in Entries, Missing(c, e) PROVE CallInv'
    BY <2>3 DEF Missing, Pending, CallInv
  <2>4. ASSUME NEW saves \in BOOLEAN, Perform(c, saves) PROVE CallInv'
    <3>1. at[c] \in todo[c] /\ at[c] \in Entries /\ result[c] = "none"
      BY <2>4 DEF Perform, CallInv
    <3>2. /\ named' \in [Callers -> SUBSET Entries]
          /\ todo' \in [Callers -> SUBSET Entries]
          /\ done' \in [Callers -> SUBSET Entries]
          /\ at' \in [Callers -> Entries \cup {None}]
          /\ result' \in [Callers -> {"none", "ok", "error"}]
      BY <2>4, <3>1 DEF Perform, CallInv
    <3>3. /\ done'[c] = done[c] \cup {at[c]} /\ todo'[c] = todo[c] \ {at[c]}
          /\ at'[c] = None /\ named'[c] = named[c]
          /\ result'[c] = IF todo'[c] = {} THEN "ok" ELSE "none"
      BY <2>4, <3>1 DEF Perform, CallInv
    <3>4. \A d \in Callers \ {c} :
            /\ named'[d] = named[d] /\ todo'[d] = todo[d] /\ done'[d] = done[d]
            /\ at'[d] = at[d] /\ result'[d] = result[d]
      BY <2>4 DEF Perform, CallInv
    <3>5. /\ named[c] = done[c] \cup todo[c]
          /\ named[c] # {}
      BY <3>1 DEF CallInv
    <3>6. \A d \in Callers :
            /\ result'[d] # "error" => named'[d] = done'[d] \cup todo'[d]
            /\ result'[d] = "ok" => todo'[d] = {}
            /\ named'[d] = {} => result'[d] = "none"
            /\ at'[d] # None => at'[d] \in todo'[d] /\ result'[d] = "none"
      BY <3>1, <3>3, <3>4, <3>5 DEF CallInv
    <3> QED BY <3>2, <3>6 DEF CallInv
  <2>5. CASE Stops(c)
    BY <2>5 DEF Stops, CallInv
  <2> QED BY <1>4, <2>1, <2>2, <2>3, <2>4, <2>5 DEF CallStep
<1>5. CASE Restart
  BY <1>5 DEF Restart, CallInv
<1> QED BY <1>1, <1>2, <1>3, <1>4, <1>5 DEF Next

LEMMA InitCalls == Init => CallInv
BY DEF Init, CallInv

(* A call that ends without an error has reached every clock it named,     *)
(* whatever happened to their entries meanwhile.                           *)
THEOREM Calls == Spec => []CallTruthful
<1>1. CallInv => CallTruthful
  BY DEF CallInv, CallTruthful
<1> QED BY <1>1, InitCalls, NextCalls, PTL DEF Spec

-----------------------------------------------------------------------------
(* An entry that is gone is touched by no call but those that were under   *)
(* way when it was removed, and issues come with a setup that is done.     *)
RemovedInv ==
    /\ state \in [Entries -> States]
    /\ record \in [Entries -> BOOLEAN]
    /\ issue \in [Entries -> BOOLEAN]
    /\ removing \in [Entries -> BOOLEAN]
    /\ unclean \subseteq Entries
    /\ \A e \in Entries : state[e] = "gone" /\ e \notin unclean =>
         ~ record[e] /\ ~ issue[e] /\ ~ InUse(e)
    /\ \A e \in Entries : issue[e] =>
         \/ state[e] \in {"loaded", "unloading", "jammed"}
         \/ state[e] = "gone" /\ e \in unclean

(* A step of one entry, seen by all of them.                               *)
LEMMA RemovedStep ==
    ASSUME RemovedInv, NEW e \in Entries, UNCHANGED <<todo, result>>,
           state' \in [Entries -> States],
           record' \in [Entries -> BOOLEAN],
           issue' \in [Entries -> BOOLEAN],
           removing' \in [Entries -> BOOLEAN],
           unclean' \in {unclean, unclean \cup {e}},
           \A d \in Entries \ {e} : state'[d] = state[d],
           \A d \in Entries \ {e} : record'[d] = record[d] /\ issue'[d] = issue[d],
           state'[e] = "gone" /\ e \notin unclean' =>
             ~ record'[e] /\ ~ issue'[e] /\ ~ InUse(e),
           issue'[e] => \/ state'[e] \in {"loaded", "unloading", "jammed"}
                        \/ state'[e] = "gone" /\ e \in unclean'
    PROVE  RemovedInv'
<1>1. unclean' \subseteq Entries
  BY DEF RemovedInv
<1>2. \A d \in Entries : InUse(d)' = InUse(d)
  BY DEF InUse
<1>3. \A d \in Entries \ {e} : d \in unclean' <=> d \in unclean
  OBVIOUS
<1>4. ASSUME NEW d \in Entries, state'[d] = "gone", d \notin unclean'
      PROVE  ~ record'[d] /\ ~ issue'[d] /\ ~ InUse(d)'
  <2>1. CASE d = e
    BY <1>2, <1>4, <2>1
  <2>2. CASE d # e
    BY <1>2, <1>3, <1>4, <2>2 DEF RemovedInv
  <2> QED BY <2>1, <2>2
<1>5. ASSUME NEW d \in Entries, issue'[d]
      PROVE  \/ state'[d] \in {"loaded", "unloading", "jammed"}
             \/ state'[d] = "gone" /\ d \in unclean'
  <2>1. CASE d = e
    BY <1>5, <2>1
  <2>2. CASE d # e
    BY <1>3, <1>5, <2>2 DEF RemovedInv
  <2> QED BY <2>1, <2>2
<1>6. \A d \in Entries : state'[d] = "gone" /\ d \notin unclean' =>
        ~ record'[d] /\ ~ issue'[d] /\ ~ InUse(d)'
  BY <1>4
<1>7. \A d \in Entries : issue'[d] =>
        \/ state'[d] \in {"loaded", "unloading", "jammed"}
        \/ state'[d] = "gone" /\ d \in unclean'
  BY <1>5
<1> QED BY <1>1, <1>6, <1>7 DEF RemovedInv

(* The steps that leave record, issue and unclean alone.                   *)
LEMMA OnlyMoved ==
    ASSUME RemovedInv, NEW e \in Entries, NEW s \in States,
           state' = [state EXCEPT ![e] = s], s # "gone", state[e] # "gone",
           issue[e] => s \in {"loaded", "unloading", "jammed"},
           removing' \in [Entries -> BOOLEAN],
           UNCHANGED <<record, issue, unclean, todo, result>>
    PROVE  RemovedInv'
<1>1. /\ state' \in [Entries -> States]
      /\ \A d \in Entries \ {e} : state'[d] = state[d]
      /\ state'[e] = s
  BY DEF RemovedInv
<1>2. /\ record' \in [Entries -> BOOLEAN]
      /\ issue' \in [Entries -> BOOLEAN]
      /\ unclean' \in {unclean, unclean \cup {e}}
      /\ \A d \in Entries \ {e} : record'[d] = record[d] /\ issue'[d] = issue[d]
      /\ issue'[e] = issue[e]
      /\ UNCHANGED <<todo, result>>
  BY DEF RemovedInv
<1> QED BY <1>1, <1>2, RemovedStep

(* Nothing but calls and flows moved.                                      *)
LEMMA NoEntryMoved ==
    ASSUME RemovedInv,
           UNCHANGED <<record, issue, removing, unclean, todo, result>>,
           state' \in [Entries -> States],
           \A e \in Entries : \/ state'[e] = state[e]
                              \/ state[e] = "new" /\ state'[e] = "idle"
    PROVE  RemovedInv'
BY DEF RemovedInv, InUse

LEMMA RemoveKeeps ==
    ASSUME RemovedInv, NEW e \in Entries, NEW unloaded \in BOOLEAN,
           Remove(e, unloaded), removing' \in [Entries -> BOOLEAN],
           issue' \in [Entries -> BOOLEAN],
           \A d \in Entries \ {e} : issue'[d] = issue[d],
           unloaded => ~ issue'[e],
           UNCHANGED <<todo, result>>
    PROVE  RemovedInv'
<1>1. /\ state' \in [Entries -> States]
      /\ state'[e] = "gone" /\ \A d \in Entries \ {e} : state'[d] = state[d]
  BY DEF Remove, RemovedInv, States
<1>2. record' \in [Entries -> BOOLEAN]
  BY Zenon DEF Remove, RecordRemoved, RemovedInv
<1>3. ~ record'[e] /\ \A d \in Entries \ {e} : record'[d] = record[d]
  BY DEF Remove, RecordRemoved, RemovedInv
<1>4. /\ unclean' \in {unclean, unclean \cup {e}}
      /\ e \notin unclean' => unloaded /\ ~ InUse(e)
      /\ ~ unloaded => e \in unclean'
  BY DEF Remove
<1>5. \A d \in Entries \ {e} : record'[d] = record[d] /\ issue'[d] = issue[d]
  BY <1>3
<1>6. state'[e] = "gone" /\ e \notin unclean' =>
        ~ record'[e] /\ ~ issue'[e] /\ ~ InUse(e)
  BY <1>3, <1>4
<1>7. issue'[e] => \/ state'[e] \in {"loaded", "unloading", "jammed"}
                   \/ state'[e] = "gone" /\ e \in unclean'
  BY <1>1, <1>4
<1> QED BY <1>1, <1>2, <1>4, <1>5, <1>6, <1>7, RemovedStep

LEMMA EntryRemoved ==
    ASSUME RemovedInv, NEW e \in Entries, EntryStep(e)
    PROVE  RemovedInv'
<1>0. UNCHANGED <<todo, result>>
  BY DEF EntryStep, SetUpBegins, Arm, SetUpFails, SetUpDone, SaveOptions,
     UnloadBegins, UnloadDone, UnloadFails, RemoveUnloaded, SetUpUnchanged, callVars
<1>1. issue[e] => state[e] \in {"loaded", "unloading", "jammed", "gone"}
  BY DEF RemovedInv
<1>2. CASE SetUpBegins(e) \/ Arm(e) \/ SetUpFails(e)
  <2>1. /\ state[e] \notin {"gone", "loaded", "unloading", "jammed"}
        /\ \E s \in States \ {"gone"} : state' = [state EXCEPT ![e] = s]
        /\ UNCHANGED <<record, issue, unclean, removing>>
    BY <1>2 DEF SetUpBegins, Arm, SetUpFails, States, worldVars
  <2>2. removing' \in [Entries -> BOOLEAN]
    BY <2>1 DEF RemovedInv
  <2> QED BY <1>0, <1>1, <2>1, <2>2, OnlyMoved
<1>3. ASSUME NEW warns \in BOOLEAN, SetUpDone(e, warns) PROVE RemovedInv'
  <2>1. /\ state' \in [Entries -> States]
        /\ state'[e] = "loaded" /\ \A d \in Entries \ {e} : state'[d] = state[d]
    BY <1>3 DEF SetUpDone, RemovedInv, States
  <2>2. issue' \in [Entries -> BOOLEAN]
    BY <1>3, Zenon DEF SetUpDone, IssueCreated, RemovedInv
  <2>3. /\ record' \in [Entries -> BOOLEAN] /\ removing' \in [Entries -> BOOLEAN]
        /\ unclean' \in {unclean, unclean \cup {e}}
        /\ \A d \in Entries \ {e} : record'[d] = record[d] /\ issue'[d] = issue[d]
    BY <1>3 DEF SetUpDone, IssueCreated, RemovedInv
  <2> QED BY <1>0, <2>1, <2>2, <2>3, RemovedStep
<1>4. ASSUME NEW choice \in OfferedChoices, NEW poll \in BOOLEAN,
             SaveOptions(e, choice, poll)
      PROVE  RemovedInv'
  BY <1>0, <1>4, NoEntryMoved DEF SaveOptions, worldVars, RemovedInv
<1>5. ASSUME NEW remove \in BOOLEAN, UnloadBegins(e, remove) PROVE RemovedInv'
  <2>1. /\ state[e] = "loaded" /\ state' = [state EXCEPT ![e] = "unloading"]
        /\ UNCHANGED <<record, issue, unclean>> /\ "unloading" \in States
    BY <1>5 DEF UnloadBegins, worldVars, States
  <2>2. removing' \in [Entries -> BOOLEAN]
    BY <1>5, Zenon DEF UnloadBegins, RemovedInv
  <2> QED BY <1>0, <2>1, <2>2, OnlyMoved
<1>6. CASE UnloadDone(e)
  <2>1. removing' \in [Entries -> BOOLEAN] /\ issue' \in [Entries -> BOOLEAN]
    BY <1>6, Zenon DEF UnloadDone, IssuesCleared, RemovedInv
  <2>2. ~ issue'[e] /\ \A d \in Entries \ {e} : issue'[d] = issue[d]
    BY <1>6 DEF UnloadDone, IssuesCleared, RemovedInv
  <2>3. CASE removing[e]
    <3>1. Remove(e, TRUE)
      BY <1>6, <2>3 DEF UnloadDone
    <3> QED BY <1>0, <2>1, <2>2, <3>1, RemoveKeeps
  <2>4. CASE ~ removing[e]
    <3>1. Stay(e, "idle")
      BY <1>6, <2>4 DEF UnloadDone
    <3>2. /\ state' \in [Entries -> States]
          /\ state'[e] = "idle" /\ \A d \in Entries \ {e} : state'[d] = state[d]
      BY <3>1 DEF Stay, RemovedInv, States
    <3>3. /\ record' \in [Entries -> BOOLEAN]
          /\ unclean' \in {unclean, unclean \cup {e}}
          /\ \A d \in Entries \ {e} : record'[d] = record[d] /\ issue'[d] = issue[d]
      BY <2>2, <3>1 DEF Stay, RemovedInv
    <3> QED BY <1>0, <2>1, <2>2, <3>2, <3>3, RemovedStep
  <2> QED BY <2>3, <2>4
<1>7. CASE UnloadFails(e)
  <2>1. removing' \in [Entries -> BOOLEAN]
    BY <1>7, Zenon DEF UnloadFails, RemovedInv
  <2>2. issue' = issue /\ issue \in [Entries -> BOOLEAN]
    BY <1>7 DEF UnloadFails, RemovedInv
  <2>3. CASE removing[e]
    <3>1. Remove(e, FALSE)
      BY <1>7, <2>3 DEF UnloadFails
    <3> QED BY <1>0, <2>1, <2>2, <3>1, RemoveKeeps
  <2>4. CASE ~ removing[e]
    <3>1. /\ state[e] = "unloading" /\ state' = [state EXCEPT ![e] = "jammed"]
          /\ UNCHANGED <<record, unclean>> /\ "jammed" \in States
      BY <1>7, <2>4 DEF UnloadFails, Stay, States
    <3> QED BY <1>0, <2>1, <2>2, <3>1, OnlyMoved
  <2> QED BY <2>3, <2>4
<1>8. CASE RemoveUnloaded(e)
  <2>1. /\ Remove(e, state[e] # "jammed") /\ state[e] \in {"idle", "failed", "jammed"}
        /\ (state[e] # "jammed") \in BOOLEAN
        /\ removing' = removing /\ issue' = issue
    BY <1>8 DEF RemoveUnloaded
  <2>2. removing' \in [Entries -> BOOLEAN] /\ issue' \in [Entries -> BOOLEAN]
    BY <2>1 DEF RemovedInv
  <2>3. /\ \A d \in Entries \ {e} : issue'[d] = issue[d]
        /\ state[e] # "jammed" => ~ issue'[e]
    BY <1>1, <2>1
  <2> QED BY <1>0, <2>1, <2>2, <2>3, RemoveKeeps
<1> QED BY <1>2, <1>3, <1>4, <1>5, <1>6, <1>7, <1>8 DEF EntryStep

LEMMA CallRemoved ==
    ASSUME RemovedInv, CallInv, NEW c \in Callers, CallStep(c)
    PROVE  RemovedInv'
<1>0. UNCHANGED <<state, removing, unclean>>
  BY DEF CallStep, Call, Enter, Missing, Perform, Stops, CallUnchanged
<1>1. ASSUME UNCHANGED <<record, issue>>,
             \A e \in Entries : InUse(e)' => InUse(e) \/ e \in Configured
      PROVE  RemovedInv'
  BY <1>0, <1>1 DEF RemovedInv, Configured
<1>2. ASSUME NEW targets \in SUBSET Entries, Call(c, targets) PROVE RemovedInv'
  <2>1. \A e \in Entries : InUse(e)' => InUse(e) \/ e \in Configured
    BY <1>2 DEF Call, InUse, CallInv
  <2> QED BY <1>1, <1>2, <2>1 DEF Call
<1>3. ASSUME NEW e \in Entries, Enter(c, e) PROVE RemovedInv'
  BY <1>1, <1>3 DEF Enter, InUse
<1>4. ASSUME NEW e \in Entries, Missing(c, e) PROVE RemovedInv'
  <2>1. \A d \in Entries : InUse(d)' => InUse(d)
    BY <1>4 DEF Missing, InUse, CallInv
  <2> QED BY <1>1, <1>4, <2>1 DEF Missing
<1>5. CASE Stops(c)
  <2>1. \A d \in Entries : InUse(d)' => InUse(d)
    BY <1>5 DEF Stops, InUse, CallInv
  <2> QED BY <1>1, <1>5, <2>1 DEF Stops
<1>6. ASSUME NEW saves \in BOOLEAN, Perform(c, saves) PROVE RemovedInv'
  <2> DEFINE e == at[c]
  <2>1. e \in Entries /\ InUse(e)
    BY <1>6 DEF Perform, CallInv, InUse
  <2>2. \A d \in Entries : InUse(d)' => InUse(d)
    <3>1. /\ \A b \in Callers : todo'[b] \subseteq todo[b]
          /\ \A b \in Callers \ {c} : result'[b] = result[b]
          /\ result[c] = "none"
      BY <1>6 DEF Perform, CallInv
    <3> QED BY <3>1 DEF InUse
  <2>3. /\ record' \in [Entries -> BOOLEAN] /\ issue' \in [Entries -> BOOLEAN]
    BY <1>6, <2>1, Zenon DEF Perform, IssuesCleared, RemovedInv
  <2>4. /\ ~ issue'[e]
        /\ \A d \in Entries \ {e} : record'[d] = record[d] /\ issue'[d] = issue[d]
    BY <1>6, <2>1 DEF Perform, IssuesCleared, RemovedInv
  <2>5. \A d \in Entries : state'[d] = "gone" /\ d \notin unclean' =>
          ~ record'[d] /\ ~ issue'[d] /\ ~ InUse(d)'
    BY <1>0, <2>1, <2>2, <2>4 DEF RemovedInv
  <2>6. \A d \in Entries : issue'[d] => issue[d]
    BY <2>4
  <2>7. \A d \in Entries : issue'[d] =>
          \/ state'[d] \in {"loaded", "unloading", "jammed"}
          \/ state'[d] = "gone" /\ d \in unclean'
    BY <1>0, <2>6 DEF RemovedInv
  <2> QED BY <1>0, <2>3, <2>5, <2>7 DEF RemovedInv
<1> QED BY <1>2, <1>3, <1>4, <1>5, <1>6 DEF CallStep

LEMMA NextRemoved ==
    ASSUME RemovedInv, CallInv, [Next]_vars
    PROVE  RemovedInv'
<1>1. CASE UNCHANGED vars
  BY <1>1, NoEntryMoved DEF vars, worldVars, callVars, RemovedInv
<1>2. ASSUME NEW f \in Flows, FlowStep(f) PROVE RemovedInv'
  <2>1. UNCHANGED <<record, issue, removing, unclean, todo, result>>
    BY <1>2 DEF FlowStep, Bluetooth, ShowForm, Confirm, EndFlow, Choose, Manual,
       Create, FlowUnchanged, worldVars, callVars
  <2>2. \/ UNCHANGED state
        \/ \E e \in Entries : state[e] = "new" /\ state' = [state EXCEPT ![e] = "idle"]
    BY <1>2 DEF FlowStep, Bluetooth, ShowForm, Confirm, EndFlow, Choose, Manual, Create
  <2>3. CASE UNCHANGED state
    BY <2>1, <2>3, NoEntryMoved DEF RemovedInv
  <2>4. ASSUME NEW e \in Entries, state[e] = "new", state' = [state EXCEPT ![e] = "idle"]
        PROVE  RemovedInv'
    <3>1. state' \in [Entries -> States]
      BY <2>4 DEF RemovedInv, States
    <3>2. ASSUME NEW d \in Entries
          PROVE  state'[d] = state[d] \/ (state[d] = "new" /\ state'[d] = "idle")
      BY <2>4 DEF RemovedInv
    <3> QED BY <2>1, <3>1, <3>2, NoEntryMoved
  <2> QED BY <2>2, <2>3, <2>4
<1>3. CASE Restart
  <2>1. /\ state' \in [Entries -> States]
        /\ \A e \in Entries : state'[e] = "gone" <=> state[e] = "gone"
    BY <1>3 DEF Restart, RemovedInv, Configured, States
  <2>2. /\ removing' \in [Entries -> BOOLEAN] /\ issue' \in [Entries -> BOOLEAN]
        /\ \A e \in Entries : ~ issue'[e]
        /\ UNCHANGED <<record, unclean, todo>>
    BY <1>3 DEF Restart
  <2>3. \A e \in Entries : InUse(e)' => InUse(e)
    <3>1. \A c \in Callers : result'[c] = "none" => result[c] = "none"
      BY <1>3 DEF Restart
    <3> QED BY <2>2, <3>1 DEF InUse
  <2> QED BY <2>1, <2>2, <2>3 DEF RemovedInv
<1> QED BY <1>1, <1>2, <1>3, EntryRemoved, CallRemoved DEF Next

LEMMA InitRemoved == Init => RemovedInv
<1> SUFFICES ASSUME Init PROVE RemovedInv
  OBVIOUS
<1>1. \A e \in Entries : state[e] \in {"new", "idle"}
  BY DEF Init
<1>2. state \in [Entries -> States]
  BY <1>1 DEF Init, States
<1>3. /\ record \in [Entries -> BOOLEAN] /\ issue \in [Entries -> BOOLEAN]
      /\ removing \in [Entries -> BOOLEAN] /\ unclean \subseteq Entries
      /\ \A e \in Entries : ~ issue[e]
  BY DEF Init
<1> QED BY <1>1, <1>2, <1>3 DEF RemovedInv

(* An entry that is gone leaves no record and no issue, unless a call to   *)
(* it was under way or it could not be unloaded.                           *)
THEOREM Removed == Spec => []NothingLeftBehind
<1>1. RemovedInv => NothingLeftBehind
  BY DEF RemovedInv, NothingLeftBehind
<1> QED BY <1>1, InitCalls, InitRemoved, NextCalls, NextRemoved, PTL DEF Spec

-----------------------------------------------------------------------------
(* What an entry is set up with follows its options, and those of 0.2 the  *)
(* user's wish to have automatic sync off.                                 *)
Follows(e) ==
    /\ version[e] = 1 => /\ sync[e] \in StoredHours
                         /\ off[e] <=> (sync[e] = None \/ sync[e] <= 0)
    /\ version[e] = 2 => /\ sync[e] \in AutoSyncChoices \cup {None}
                         /\ off[e] <=> auto_sync_choice(sync[e]) = "0"
    /\ state[e] \in {"preparing", "forwarding", "loaded"} =>
         /\ version[e] = 2
         /\ reload[e] \/ overlooked[e] \/ polling[e] = polls[e]
    /\ state[e] \in {"forwarding", "loaded"} =>
         /\ armed[e] # None
         /\ reload[e] \/ overlooked[e] \/ armed[e] = auto_sync_choice(sync[e])

OptionsTypes ==
    /\ state \in [Entries -> States] /\ version \in [Entries -> {1, 2}]
    /\ sync \in [Entries -> StoredHours \cup AutoSyncChoices \cup {None}]
    /\ polls \in [Entries -> BOOLEAN] /\ off \in [Entries -> BOOLEAN]
    /\ armed \in [Entries -> AutoSyncChoices \cup {None}]
    /\ polling \in [Entries -> BOOLEAN] /\ reload \in [Entries -> BOOLEAN]
    /\ overlooked \in [Entries -> BOOLEAN]

OptionsInv == OptionsTypes /\ \A e \in Entries : Follows(e)

OptionsOf(e) == <<state[e], version[e], sync[e], polls[e], off[e], armed[e],
                  polling[e], reload[e], overlooked[e]>>

LEMMA ChoiceType ==
    ASSUME NEW raw
    PROVE  auto_sync_choice(raw) \in AutoSyncChoices /\ auto_sync_choice(raw) # None
BY NoneAssumption DEF auto_sync_choice, AutoSyncChoices

LEMMA OptionsStep ==
    ASSUME OptionsInv, NEW e \in Entries, OptionsTypes',
           \A d \in Entries \ {e} : OptionsOf(d)' = OptionsOf(d), Follows(e)'
    PROVE  OptionsInv'
<1>1. ASSUME NEW d \in Entries \ {e} PROVE Follows(d)'
  <2>1. /\ state'[d] = state[d] /\ version'[d] = version[d] /\ sync'[d] = sync[d]
        /\ polls'[d] = polls[d] /\ off'[d] = off[d] /\ armed'[d] = armed[d]
        /\ polling'[d] = polling[d] /\ reload'[d] = reload[d]
        /\ overlooked'[d] = overlooked[d]
    BY DEF OptionsOf
  <2> QED BY <2>1 DEF OptionsInv, Follows
<1> QED BY <1>1 DEF OptionsInv

(* A step that ends the run of an entry, or leaves it as it was.           *)
LEMMA OptionsStand ==
    ASSUME OptionsInv, NEW e \in Entries, NEW s \in States,
           state' = [state EXCEPT ![e] = s],
           s \notin {"preparing", "forwarding", "loaded"},
           armed' \in {armed, [armed EXCEPT ![e] = None]},
           reload' \in {reload, [reload EXCEPT ![e] = FALSE]},
           UNCHANGED <<optionVars, polling, overlooked>>
    PROVE  OptionsInv'
<1>1. reload' \in [Entries -> BOOLEAN]
  BY Zenon DEF OptionsInv, OptionsTypes
<1>2. OptionsTypes'
  BY <1>1 DEF OptionsInv, OptionsTypes, optionVars
<1>3. \A d \in Entries \ {e} : OptionsOf(d)' = OptionsOf(d)
  BY DEF OptionsOf, OptionsInv, OptionsTypes, optionVars
<1>4. state'[e] = s
  BY DEF OptionsInv, OptionsTypes
<1>5. Follows(e)'
  BY <1>4 DEF OptionsInv, Follows, optionVars
<1> QED BY <1>2, <1>3, <1>5, OptionsStep

LEMMA EntryOptions ==
    ASSUME OptionsInv, NEW e \in Entries, EntryStep(e)
    PROVE  OptionsInv'
<1>0. OptionsTypes /\ Follows(e)
  BY DEF OptionsInv
<1>1. CASE SetUpBegins(e)
  <2>1. Migrated(e) \in AutoSyncChoices \cup {None}
        /\ (off[e] <=> auto_sync_choice(Migrated(e)) = "0")
    <3>1. CASE version[e] = 1
      <4>1. sync[e] \in Int \cup {None}
        BY <1>0, <3>1, HoursAssumption DEF Follows
      <4>2. Migrated(e) = auto_sync_from_v1_hours(sync[e])
        BY <3>1 DEF Migrated
      <4>3. /\ Migrated(e) \in AutoSyncChoices
            /\ Migrated(e) = "0" <=> (sync[e] = None \/ sync[e] <= 0)
        BY <4>1, <4>2, UpgradeKeepsOff
      <4> QED BY <1>0, <3>1, <4>3 DEF Follows, auto_sync_choice
    <3>2. CASE version[e] = 2
      BY <1>0, <3>2 DEF Follows, Migrated
    <3> QED BY <1>0, <3>1, <3>2 DEF OptionsTypes
  <2>2. /\ reload' \in [Entries -> BOOLEAN] /\ overlooked' \in [Entries -> BOOLEAN]
        /\ polling' \in [Entries -> BOOLEAN]
    BY <1>0, <1>1, Zenon DEF SetUpBegins, OptionsTypes
  <2>3. OptionsTypes'
    BY <1>0, <1>1, <2>1, <2>2 DEF SetUpBegins, OptionsTypes, States
  <2>4. \A d \in Entries \ {e} : OptionsOf(d)' = OptionsOf(d)
    BY <1>0, <1>1 DEF SetUpBegins, OptionsOf, OptionsTypes
  <2>5. /\ state'[e] = "preparing" /\ version'[e] = 2 /\ sync'[e] = Migrated(e)
        /\ polling'[e] = polls[e] /\ polls' = polls /\ off' = off
    BY <1>0, <1>1 DEF SetUpBegins, OptionsTypes
  <2>6. Follows(e)'
    BY <2>1, <2>5 DEF Follows
  <2> QED BY <2>3, <2>4, <2>6, OptionsStep
<1>2. CASE Arm(e)
  <2>1. OptionsTypes'
    BY <1>0, <1>2, ChoiceType DEF Arm, OptionsTypes, States, optionVars
  <2>2. \A d \in Entries \ {e} : OptionsOf(d)' = OptionsOf(d)
    BY <1>0, <1>2 DEF Arm, OptionsOf, OptionsTypes, optionVars
  <2>3. /\ state[e] = "preparing" /\ state'[e] = "forwarding"
        /\ armed'[e] = auto_sync_choice(sync[e])
        /\ UNCHANGED <<optionVars, polling, reload, overlooked>>
    BY <1>0, <1>2 DEF Arm, OptionsTypes
  <2>4. Follows(e)'
    BY <1>0, <2>3, ChoiceType DEF Follows, optionVars
  <2> QED BY <2>1, <2>2, <2>4, OptionsStep
<1>3. CASE SetUpFails(e)
  <2>1. /\ state' = [state EXCEPT ![e] = "failed"] /\ "failed" \in States
        /\ armed' = [armed EXCEPT ![e] = None] /\ reload' = reload
        /\ UNCHANGED <<optionVars, polling, overlooked>>
    BY <1>3 DEF SetUpFails, States
  <2> QED BY <2>1, OptionsStand
<1>4. ASSUME NEW warns \in BOOLEAN, SetUpDone(e, warns) PROVE OptionsInv'
  <2>1. OptionsTypes'
    BY <1>0, <1>4 DEF SetUpDone, OptionsTypes, States, optionVars, runVars
  <2>2. \A d \in Entries \ {e} : OptionsOf(d)' = OptionsOf(d)
    BY <1>0, <1>4 DEF SetUpDone, OptionsOf, OptionsTypes, optionVars, runVars
  <2>3. /\ state[e] = "forwarding" /\ state'[e] = "loaded"
        /\ UNCHANGED <<optionVars, runVars, reload, overlooked>>
    BY <1>0, <1>4 DEF SetUpDone, OptionsTypes
  <2>4. Follows(e)'
    BY <1>0, <2>3 DEF Follows, optionVars, runVars
  <2> QED BY <2>1, <2>2, <2>4, OptionsStep
<1>5. ASSUME NEW choice \in OfferedChoices, NEW poll \in BOOLEAN,
             SaveOptions(e, choice, poll)
      PROVE  OptionsInv'
  <2>1. choice \in AutoSyncChoices
    BY OfferedAssumption
  <2>2. /\ polls' \in [Entries -> BOOLEAN] /\ off' \in [Entries -> BOOLEAN]
        /\ reload' \in [Entries -> BOOLEAN] /\ overlooked' \in [Entries -> BOOLEAN]
    BY <1>0, <1>5, Zenon DEF SaveOptions, OptionsTypes
  <2>3. OptionsTypes'
    BY <1>0, <1>5, <2>1, <2>2 DEF SaveOptions, OptionsTypes, runVars
  <2>4. \A d \in Entries \ {e} : OptionsOf(d)' = OptionsOf(d)
    BY <1>0, <1>5 DEF SaveOptions, OptionsOf, OptionsTypes, runVars
  <2>5. /\ version[e] = 2 /\ sync'[e] = choice /\ UNCHANGED <<state, version, runVars>>
    BY <1>0, <1>5 DEF SaveOptions, OptionsTypes
  <2>6. off'[e] <=> choice = "0"
    BY <1>0, <1>5 DEF SaveOptions, OptionsTypes
  <2>7. /\ state[e] = "loaded" => reload'[e]
        /\ state[e] \in {"preparing", "forwarding"} => overlooked'[e]
    BY <1>0, <1>5 DEF SaveOptions, Listens, OptionsTypes
  <2>8. Follows(e)'
    BY <1>0, <2>1, <2>5, <2>6, <2>7 DEF Follows, auto_sync_choice, runVars
  <2> QED BY <2>3, <2>4, <2>8, OptionsStep
<1>6. ASSUME NEW remove \in BOOLEAN, UnloadBegins(e, remove) PROVE OptionsInv'
  <2>1. /\ state' = [state EXCEPT ![e] = "unloading"] /\ "unloading" \in States
        /\ armed' = armed /\ reload' = reload
        /\ UNCHANGED <<optionVars, polling, overlooked>>
    BY <1>6 DEF UnloadBegins, States, runVars
  <2> QED BY <2>1, OptionsStand
<1>7. CASE UnloadDone(e) \/ UnloadFails(e) \/ RemoveUnloaded(e)
  <2>1. /\ \E s \in {"gone", "idle", "jammed"} : state' = [state EXCEPT ![e] = s]
        /\ armed' \in {armed, [armed EXCEPT ![e] = None]}
        /\ reload' \in {reload, [reload EXCEPT ![e] = FALSE]}
        /\ UNCHANGED <<optionVars, polling, overlooked>>
    BY <1>7 DEF UnloadDone, UnloadFails, RemoveUnloaded, Remove, Stay, runVars
  <2> QED BY <2>1, OptionsStand DEF States
<1> QED BY <1>1, <1>2, <1>3, <1>4, <1>5, <1>6, <1>7 DEF EntryStep

LEMMA NextOptions ==
    ASSUME OptionsInv, [Next]_vars
    PROVE  OptionsInv'
<1>0. OptionsTypes
  BY DEF OptionsInv
<1>1. CASE UNCHANGED vars
  BY <1>1 DEF vars, optionVars, runVars, OptionsInv, OptionsTypes, Follows
<1>2. ASSUME NEW f \in Flows, FlowStep(f) PROVE OptionsInv'
  <2>1. UNCHANGED <<optionVars, runVars, reload, overlooked>>
    BY <1>2 DEF FlowStep, Bluetooth, ShowForm, Confirm, EndFlow, Choose, Manual,
       Create, FlowUnchanged
  <2>2. \/ UNCHANGED state
        \/ \E e \in Entries : state' = [state EXCEPT ![e] = "idle"]
    BY <1>2 DEF FlowStep, Bluetooth, ShowForm, Confirm, EndFlow, Choose, Manual, Create
  <2>3. CASE UNCHANGED state
    BY <2>1, <2>3 DEF optionVars, runVars, OptionsInv, OptionsTypes, Follows
  <2>4. ASSUME NEW e \in Entries, state' = [state EXCEPT ![e] = "idle"]
        PROVE  OptionsInv'
    <3>1. "idle" \in States /\ armed' = armed /\ reload' = reload
      BY <2>1 DEF States, runVars
    <3>2. UNCHANGED <<optionVars, polling, overlooked>>
      BY <2>1 DEF runVars
    <3> QED BY <2>4, <3>1, <3>2, OptionsStand
  <2> QED BY <2>2, <2>3, <2>4
<1>3. ASSUME NEW c \in Callers, CallStep(c) PROVE OptionsInv'
  <2>1. UNCHANGED <<state, optionVars, runVars, reload, overlooked>>
    BY <1>3 DEF CallStep, Call, Enter, Missing, Perform, Stops, CallUnchanged
  <2> QED BY <2>1 DEF optionVars, runVars, OptionsInv, OptionsTypes, Follows
<1>4. CASE Restart
  <2>1. /\ state' \in [Entries -> States]
        /\ \A e \in Entries : state'[e] \in {"new", "gone", "idle"}
    BY <1>0, <1>4 DEF Restart, OptionsTypes, Configured, States
  <2>2. /\ reload' \in [Entries -> BOOLEAN]
        /\ armed' \in [Entries -> AutoSyncChoices \cup {None}]
    BY <1>4 DEF Restart
  <2>3. UNCHANGED <<optionVars, polling, overlooked>>
    BY <1>4 DEF Restart
  <2>4. OptionsTypes'
    BY <1>0, <2>1, <2>2, <2>3 DEF OptionsTypes, optionVars
  <2>5. ASSUME NEW e \in Entries PROVE Follows(e)'
    <3>1. Follows(e)
      BY DEF OptionsInv
    <3> QED BY <2>1, <2>3, <3>1 DEF Follows, optionVars
  <2> QED BY <2>4, <2>5 DEF OptionsInv
<1> QED BY <1>1, <1>2, <1>3, <1>4, EntryOptions DEF Next

LEMMA InitOptions == Init => OptionsInv
<1> SUFFICES ASSUME Init PROVE OptionsInv
  OBVIOUS
<1>1. \A e \in Entries : state[e] \in {"new", "idle"}
  BY DEF Init
<1>2. version \in [Entries -> {1, 2}] /\ off \in [Entries -> BOOLEAN]
  BY DEF Init
<1>3. OptionsTypes
  BY <1>1, <1>2 DEF Init, OptionsTypes, States
<1>4. ASSUME NEW e \in Entries PROVE Follows(e)
  <2>1. /\ version[e] = 1 => sync[e] \in StoredHours
        /\ version[e] = 2 => sync[e] = None
    BY DEF Init
  <2>2. off[e] <=> (version[e] = 1 /\ (sync[e] = None \/ sync[e] <= 0))
    BY Zenon DEF Init
  <2>3. auto_sync_choice(None) = "auto"
    BY NoneAssumption DEF auto_sync_choice
  <2> QED BY <1>1, <2>1, <2>2, <2>3 DEF Follows
<1> QED BY <1>3, <1>4 DEF OptionsInv

(* A loaded entry runs with the options last saved, and with automatic     *)
(* sync off just if the user has it off, over an upgrade from 0.1.x too;   *)
(* options saved while a setup runs are the exception.                     *)
THEOREM Options == Spec => []RunsItsOptions
<1>1. ASSUME OptionsInv PROVE RunsItsOptions
  <2>1. ASSUME NEW e \in Entries, state[e] = "loaded", ~ reload[e], ~ overlooked[e]
        PROVE  /\ polling[e] = polls[e]
               /\ armed[e] = auto_sync_choice(sync[e])
               /\ armed[e] = "0" <=> off[e]
    <3>1. Follows(e)
      BY <1>1 DEF OptionsInv
    <3> QED BY <2>1, <3>1 DEF Follows
  <2> QED BY <2>1 DEF RunsItsOptions
<1> QED BY <1>1, InitOptions, NextOptions, PTL DEF Spec

-----------------------------------------------------------------------------
(* The variables keep their types; a schedule that runs was set up with a  *)
(* choice, whatever an earlier version left in the options.                *)
THEOREM TypeCorrect == Spec => []TypeOK
<1> DEFINE Types == /\ AddressInv /\ ServicesInv /\ CallInv
                    /\ RemovedInv /\ OptionsInv
<1>1. ASSUME Types PROVE TypeOK
  <2>1. \A e \in Entries : /\ version[e] = 1 => sync[e] \in StoredHours
                           /\ version[e] = 2 => sync[e] \in AutoSyncChoices \cup {None}
                           /\ state[e] \in {"forwarding", "loaded"} => armed[e] # None
    BY <1>1 DEF OptionsInv, Follows
  <2> QED BY <1>1, <2>1 DEF TypeOK, AddressInv, ServicesInv, CallInv, RemovedInv,
        OptionsInv, OptionsTypes
<1>2. Init => Types
  BY InitAddress, InitServices, InitCalls, InitRemoved, InitOptions
<1>3. Types /\ [Next]_vars => Types'
  BY NextAddress, NextServices, NextCalls, NextRemoved, NextOptions
<1> HIDE DEF Types
<1> QED BY <1>1, <1>2, <1>3, PTL DEF Spec
=============================================================================
