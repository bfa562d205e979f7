--------------------------- MODULE SelectsProofs ----------------------------
(***************************************************************************)
(* Proofs about Selects: options and clock agree, record and options       *)
(* agree, for any number of calls and coordinators, any firmware and any   *)
(* retry count.                                                            *)
(***************************************************************************)
EXTENDS Selects, TLAPS

OneSession == \A c, d \in Calls : InSession(c) /\ InSession(d) => c = d

(* Each kind of call has its own steps and its own options.                *)
CallsFit == \A c \in Calls :
    /\ pc[c] \in {"writing", "verifying", "rolling"} => kind[c] = "units"
    /\ pc[c] = "repairing" => kind[c] = "mode"
    /\ pc[c] = "closing" => kind[c] # "poll"
    /\ pc[c] = "dialing" /\ kind[c] = "poll" => ~ touched
    /\ kind[c] = "units" => wanted[c] \in Units
    /\ kind[c] = "mode" => wanted[c] \in Modes

(* The byte to put back is that of the option shown; a clock that ignores  *)
(* writes still has it, and one that takes the mode has taken it.          *)
ClockFollows == \A c \in Calls :
    /\ pc[c] \in {"writing", "verifying", "rolling"} =>
         /\ firmware.units = "ignores" => clock.units = original
         /\ doubt["units"] \/ touched
              \/ data[current]["units"] \in {None, Decode(original)}
    /\ pc[c] = "repairing" /\ firmware.mode = "takes" => clock.mode = wanted[c]

IInv ==
    /\ TypeOK
    /\ OneSession
    /\ CallsFit
    /\ ClockFollows
    /\ SuccessIsReal
    /\ ShownIsClocks
    /\ StoredIsShown

-----------------------------------------------------------------------------
LEMMA ValuesType ==
    /\ \A b : Decode(b) \in Options
    /\ \A u : Encode(u) \in Bytes
    /\ Blank \in [Keys -> Options]
    /\ \A c \in Calls : Key(c) \in Keys
    /\ \A k \in Keys : k = "units" \/ k = "mode"
BY DEF Decode, Encode, Bytes, Options, Units, Modes, Blank, Key, Keys

LEMMA TakenType ==
    ASSUME TypeOK, NEW b \in Bytes
    PROVE  Taken(b) \in Bytes
<1>1. firmware.units \in {"keeps", "ignores", "normalises"}
  BY FirmwaresAssumption DEF TypeOK
<1>2. clock.units \in Bytes
  BY DEF TypeOK
<1> QED BY <1>1, <1>2 DEF Taken, Bytes

(* What one attempt or call may leave behind, whoever runs it.             *)
LEMMA RestoredType ==
    ASSUME TypeOK, NEW c \in Calls
    PROVE  Restored(c) \in [Loads -> [Keys -> Options]]
BY ValuesType DEF TypeOK, Restored

LEMMA InitInv == Init => IInv
<1> SUFFICES ASSUME Init PROVE IInv
  OBVIOUS
<1>1. Decode(clock.units) \in Options /\ clock.units \in Bytes /\ clock.mode \in Modes
  BY ValuesType DEF Init
<1>2. stored \in [Keys -> Options]
  BY <1>1 DEF Init, Keys, Options, Modes
<1>3. TypeOK
  <2>1. touched \in BOOLEAN /\ unsaved \in BOOLEAN /\ doubt \in [Keys -> BOOLEAN]
    BY DEF Init
  <2>2. attempt \in 1 .. MaxRetries
    BY RetriesAssumption DEF Init
  <2>3. original \in Bytes /\ None \in Options
    BY DEF Init, Bytes, Options
  <2>4. /\ data \in [Loads -> [Keys -> Options]]
        /\ pc \in [Calls -> {"new", "waiting", "over"} \cup Session]
        /\ kind \in [Calls -> {"units", "mode", "read", "poll"}]
        /\ target \in [Calls -> Loads]
        /\ wanted \in [Calls -> Options] /\ previous \in [Calls -> Options]
    BY <1>2, <2>3 DEF Init
  <2> QED BY <1>2, <2>1, <2>2, <2>3, <2>4 DEF Init, TypeOK
<1>4. \A c \in Calls : pc[c] = "new" /\ kind[c] = "read"
  BY DEF Init
<1>5. OneSession /\ CallsFit /\ ClockFollows /\ SuccessIsReal
  BY <1>4 DEF OneSession, CallsFit, ClockFollows, SuccessIsReal, InSession, Session
<1>6. ShownIsClocks
  <2> SUFFICES ASSUME NEW k \in Keys
               PROVE  data[current][k] \in {None, Real(k)}
    BY DEF ShownIsClocks
  <2> QED BY ValuesType DEF Init, Real, Keys
<1>7. StoredIsShown
  BY <1>2 DEF StoredIsShown, Init
<1> QED BY <1>3, <1>5, <1>6, <1>7 DEF IInv

-----------------------------------------------------------------------------
LEMMA SetUpType ==
    ASSUME TypeOK, NEW g \in Loads, NEW found \in {stored, Blank},
           NEW last \in {Blank, data[current]}, SetUp(g, found, last)
    PROVE  /\ data' \in [Loads -> [Keys -> Options]]
           /\ unsaved' \in BOOLEAN /\ current' \in Loads
BY ValuesType DEF TypeOK, SetUp

LEMMA FailType ==
    ASSUME TypeOK, NEW c \in Calls, NEW dirty \in BOOLEAN, Fail(c, dirty),
           clock' \in [units : Bytes, mode : Modes]
    PROVE  TypeOK'
<1>1. data' \in [Loads -> [Keys -> Options]]
  BY RestoredType DEF Fail
<1>2. doubt' \in [Keys -> BOOLEAN]
  BY ValuesType, Zenon DEF Fail, TypeOK, Overtaken
<1>3. pc' \in [Calls -> {"new", "waiting", "over"} \cup Session]
  BY DEF Fail, TypeOK
<1> QED BY <1>1, <1>2, <1>3 DEF Fail, TypeOK, entryVars, callVars

LEMMA NoteType ==
    ASSUME TypeOK, NEW c \in Calls, NEW o \in Options, Note(c, o)
    PROVE  TypeOK'
<1>1. data' \in [Loads -> [Keys -> Options]]
  BY ValuesType DEF Note, TypeOK
<1>2. pc' \in [Calls -> {"new", "waiting", "over"} \cup Session]
  BY DEF Note, TypeOK, Session
<1> QED BY <1>1, <1>2 DEF Note, TypeOK, entryVars, callVars

(* What all steps inside a session leave alone.                            *)
Inside(c, to) ==
    /\ pc' = [pc EXCEPT ![c] = to]
    /\ UNCHANGED <<entryVars, data, stored, callVars, doubt, unsaved>>

LEMMA InsideType ==
    ASSUME TypeOK, NEW c \in Calls, NEW to \in Session, Inside(c, to),
           clock' \in [units : Bytes, mode : Modes], original' \in Bytes,
           attempt' \in 1 .. MaxRetries, touched' \in BOOLEAN
    PROVE  TypeOK'
<1>1. pc' \in [Calls -> {"new", "waiting", "over"} \cup Session]
  BY DEF Inside, TypeOK
<1> QED BY <1>1 DEF Inside, TypeOK, entryVars, callVars

-----------------------------------------------------------------------------
(* Every way for a call to give up.  It is enough that the clock is then   *)
(* known to have the option shown, or that the failure leaves doubt.       *)
LEMMA FailInv ==
    ASSUME IInv, NEW c \in Calls, InSession(c), pc[c] # "closing",
           NEW dirty \in BOOLEAN, Fail(c, dirty),
           clock' \in [units : Bytes, mode : Modes],
           \A k \in Keys : \/ dirty /\ k = Key(c)
                           \/ doubt[k]
                           \/ data[current][k] \in {None, Real(k)'}
                           \/ k = "mode" /\ firmware.mode = "misreads"
    PROVE  IInv'
<1>1. TypeOK'
  BY FailType DEF IInv
<1>2. \A d \in Calls : ~ InSession(d)'
  <2> SUFFICES ASSUME NEW d \in Calls PROVE ~ InSession(d)'
    OBVIOUS
  <2>1. CASE d = c
    BY <2>1 DEF IInv, TypeOK, Fail, InSession, Session
  <2>2. CASE d # c
    <3>1. ~ InSession(d)
      BY <2>2 DEF IInv, OneSession
    <3> QED BY <3>1, <2>2 DEF IInv, TypeOK, Fail, InSession
  <2> QED BY <2>1, <2>2
<1>3. OneSession' /\ ClockFollows' /\ SuccessIsReal'
  BY <1>2 DEF OneSession, ClockFollows, SuccessIsReal, InSession, Session
<1>4. CallsFit'
  BY <1>2, Zenon DEF CallsFit, InSession, Session, IInv, Fail, callVars
<1>5. \A d \in Calls : pc[d] # "closing"
  BY DEF IInv, OneSession, InSession, Session
<1>6. ASSUME NEW k \in Keys
      PROVE  \/ doubt'[k]
             \/ doubt[k] = doubt'[k] /\ data'[current'][k] = data[current][k]
                /\ ~ (dirty /\ k = Key(c))
  <2>0. /\ current' = current /\ data' = Restored(c) /\ Key(c) \in Keys
        /\ doubt' = [doubt EXCEPT ![Key(c)] = @ \/ dirty \/ Overtaken(c)]
        /\ doubt \in [Keys -> BOOLEAN] /\ data \in [Loads -> [Keys -> Options]]
        /\ current \in Loads /\ target[c] \in Loads
    BY ValuesType DEF Fail, entryVars, IInv, TypeOK
  <2>1. CASE k # Key(c)
    <3>1. doubt'[k] = doubt[k]
      BY <2>0, <2>1
    <3>2. data'[current][k] = data[current][k]
      BY <2>0, <2>1 DEF Restored
    <3> QED BY <3>1, <3>2, <2>0, <2>1
  <2>2. CASE k = Key(c) /\ (dirty \/ Overtaken(c))
    BY <2>0, <2>2
  <2>3. CASE k = Key(c) /\ ~ dirty /\ ~ Overtaken(c)
    <3>1. data'[current] = data[current]
      BY <2>0, <2>3 DEF Overtaken, Restored
    <3>2. doubt'[k] = doubt[k]
      BY <2>0, <2>3
    <3> QED BY <3>1, <3>2, <2>0, <2>3
  <2> QED BY <2>1, <2>2, <2>3
<1>7. ShownIsClocks'
  <2> SUFFICES ASSUME NEW k \in Keys, ~ doubt'[k],
                      ~ (k = "mode" /\ firmware.mode = "misreads")
               PROVE  data'[current'][k] \in {None, Real(k)'}
    BY DEF ShownIsClocks, Fail, entryVars
  <2> QED BY <1>6
<1>8. StoredIsShown'
  <2> SUFFICES ASSUME NEW k \in Keys, ~ doubt'[k], ~ unsaved
               PROVE  stored[k] \in {None, data'[current'][k]}
    BY DEF StoredIsShown, Fail
  <2> QED BY <1>5, <1>6 DEF IInv, StoredIsShown
<1> QED BY <1>1, <1>3, <1>4, <1>7, <1>8 DEF IInv

(* A step of the session to another of its places: no other session.       *)
LEMMA Alone ==
    ASSUME IInv, NEW c \in Calls, NEW to \in Session,
           \A d \in Calls : InSession(d) => d = c,
           pc' = [pc EXCEPT ![c] = to], UNCHANGED kind
    PROVE  /\ \A d \in Calls : d # c => ~ InSession(d) /\ ~ InSession(d)'
           /\ \A d \in Calls : d # c => pc'[d] = pc[d] /\ pc[d] \notin Session
           /\ pc'[c] = to /\ InSession(c)' /\ OneSession'
           /\ \A d \in Calls : Key(d)' = Key(d)
<1>2. \A d \in Calls : d # c => pc'[d] = pc[d]
  BY DEF IInv, TypeOK
<1>3. pc'[c] = to
  BY DEF IInv, TypeOK
<1> QED BY <1>2, <1>3 DEF InSession, OneSession, Key

(* Every success: the option noted is the clock's and the one selected.    *)
LEMMA NoteInv ==
    ASSUME IInv, NEW c \in Calls, InSession(c), pc[c] # "closing",
           kind[c] # "poll", NEW o \in Options, Note(c, o),
           kind[c] \in {"units", "mode"} => o = wanted[c],
           \/ o = Real(Key(c))
           \/ kind[c] = "mode" /\ firmware.mode = "misreads"
    PROVE  IInv'
<1>1. TypeOK'
  BY NoteType DEF IInv
<1>2. /\ \A d \in Calls : d # c => ~ InSession(d) /\ ~ InSession(d)'
      /\ \A d \in Calls : d # c => pc'[d] = pc[d] /\ pc[d] \notin Session
      /\ pc'[c] = "closing" /\ InSession(c)' /\ OneSession'
      /\ \A d \in Calls : Key(d)' = Key(d)
  <2>1. \A d \in Calls : InSession(d) => d = c
    BY DEF IInv, OneSession
  <2> QED BY <2>1, Alone DEF Note, callVars, Session
<1>3. /\ data' = [data EXCEPT ![target[c]] = [@ EXCEPT ![Key(c)] = o]]
      /\ data \in [Loads -> [Keys -> Options]] /\ target[c] \in Loads
      /\ Key(c) \in Keys /\ current \in Loads
      /\ UNCHANGED <<firmware, current, clock, stored, kind, wanted, target,
                     touched, doubt, unsaved>>
  BY ValuesType DEF Note, IInv, TypeOK, entryVars, callVars
<1>4. \A k \in Keys : k # Key(c) => data'[current][k] = data[current][k]
  BY <1>3
<1>5. data'[target[c]][Key(c)] = o
  BY <1>3
<1>6. CallsFit'
  <2>1. \A d \in Calls : d # c => pc'[d] = pc[d]
    BY <1>2
  <2> QED BY <2>1, <1>2, <1>3 DEF IInv, CallsFit
<1>7. ClockFollows'
  BY <1>2 DEF ClockFollows, Session
<1>8. SuccessIsReal'
  <2>1. \A d \in Calls : pc'[d] = "closing" => d = c
    BY <1>2 DEF Session
  <2>2. Real(Key(c))' = Real(Key(c)) /\ Key(c)' = Key(c)
    BY <1>2, <1>3 DEF Real
  <2>3. data'[target'[c]][Key(c)'] = o
    BY <1>3, <1>5, <2>2
  <2>4. \/ o = Real(Key(c))'
        \/ kind'[c] = "mode" /\ firmware'.mode = "misreads"
    BY <1>3, <2>2
  <2>5. kind'[c] \in {"units", "mode"} => o = wanted'[c]
    BY <1>3
  <2>6. /\ kind'[c] \in {"units", "mode"} => data'[target'[c]][Key(c)'] = wanted'[c]
        /\ \/ data'[target'[c]][Key(c)'] = Real(Key(c))'
           \/ kind'[c] = "mode" /\ firmware'.mode = "misreads"
    <3> QED BY <2>3, <2>4, <2>5
  <2> QED BY <2>1, <2>6 DEF SuccessIsReal
<1>9. ASSUME NEW k \in Keys, k # Key(c)
      PROVE  ~ Changing(k) /\ Real(k)' = Real(k)
  BY <1>2, <1>3, <1>9 DEF Changing, Uncertain, Real
<1>10. Uncertain(c, Key(c))'
  BY <1>2 DEF Uncertain, Landed
<1>11. ShownIsClocks'
  <2> SUFFICES ASSUME NEW k \in Keys PROVE
        \/ doubt'[k] \/ Changing(k)'
        \/ data'[current'][k] \in {None, Real(k)'}
        \/ k = "mode" /\ firmware'.mode = "misreads"
    BY DEF ShownIsClocks
  <2>1. CASE k = Key(c)
    BY <2>1, <1>10, <1>2 DEF Changing
  <2>2. CASE k # Key(c)
    BY <2>2, <1>3, <1>4, <1>9 DEF IInv, ShownIsClocks
  <2> QED BY <2>1, <2>2
<1>12. StoredIsShown'
  <2> SUFFICES ASSUME NEW k \in Keys PROVE
        \/ doubt'[k] \/ unsaved'
        \/ \E d \in Calls : pc'[d] = "closing" /\ Key(d)' = k
        \/ stored'[k] \in {None, data'[current'][k]}
    BY DEF StoredIsShown
  <2>1. CASE k = Key(c)
    BY <2>1, <1>2
  <2>2. CASE k # Key(c)
    <3>1. \A d \in Calls : pc[d] # "closing"
      BY <1>2 DEF Session
    <3> QED BY <2>2, <3>1, <1>3, <1>4 DEF IInv, StoredIsShown
  <2> QED BY <2>1, <2>2
<1> QED BY <1>1, <1>2, <1>6, <1>7, <1>8, <1>11, <1>12 DEF IInv

(* A step inside the session that writes nothing but the clock.  The part  *)
(* that differs from step to step is what the clock now has.               *)
LEMMA InsideInv ==
    ASSUME IInv, NEW c \in Calls, pc[c] # "closing",
           \A d \in Calls : InSession(d) => d = c,
           NEW to \in Session \ {"closing"}, Inside(c, to),
           clock' \in [units : Bytes, mode : Modes], original' \in Bytes,
           attempt' \in 1 .. MaxRetries, touched' \in BOOLEAN,
           CallsFit', ClockFollows',
           \A k \in Keys : Changing(k) => Uncertain(c, k)',
           \A k \in Keys : Uncertain(c, k)' \/ Real(k)' = Real(k)
    PROVE  IInv'
<1>1. TypeOK'
  BY InsideType DEF IInv
<1>2. /\ \A d \in Calls : d # c => pc'[d] = pc[d] /\ pc[d] \notin Session
      /\ pc'[c] = to /\ OneSession'
      /\ \A d \in Calls : Key(d)' = Key(d)
  BY Alone DEF Inside, callVars
<1>3. UNCHANGED <<firmware, current, data, stored, kind, wanted, target,
                  doubt, unsaved>>
  BY DEF Inside, entryVars, callVars
<1>4. \A d \in Calls : pc'[d] # "closing" /\ pc[d] # "closing"
  BY <1>2 DEF Session
<1>5. SuccessIsReal'
  BY <1>4 DEF SuccessIsReal
<1>6. ShownIsClocks'
  <2> SUFFICES ASSUME NEW k \in Keys, ~ Uncertain(c, k)' PROVE
        \/ doubt'[k]
        \/ data'[current'][k] \in {None, Real(k)'}
        \/ k = "mode" /\ firmware'.mode = "misreads"
    BY DEF ShownIsClocks, Changing
  <2>1. ~ Changing(k) /\ Real(k)' = Real(k)
    OBVIOUS
  <2> QED BY <2>1, <1>3 DEF IInv, ShownIsClocks
<1>7. StoredIsShown'
  BY <1>3, <1>4 DEF IInv, StoredIsShown
<1> QED BY <1>1, <1>2, <1>5, <1>6, <1>7 DEF IInv

-----------------------------------------------------------------------------
LEMMA Sole ==
    ASSUME IInv, NEW c \in Calls, InSession(c)
    PROVE  /\ \A d \in Calls : InSession(d) => d = c
           /\ \A k \in Keys : Changing(k) <=> Uncertain(c, k)
           /\ \A d \in Calls : d # c => pc[d] \notin Session
BY DEF IInv, OneSession, Changing, Uncertain, InSession

(* What is shown before a step of the session that has changed nothing.    *)
LEMMA Settled ==
    ASSUME IInv, NEW c \in Calls, InSession(c), NEW k \in Keys,
           ~ Uncertain(c, k)
    PROVE  \/ doubt[k]
           \/ data[current][k] \in {None, Real(k)}
           \/ k = "mode" /\ firmware.mode = "misreads"
BY Sole DEF IInv, ShownIsClocks

LEMMA AcquireInv ==
    ASSUME IInv, NEW c \in Calls, Acquire(c)
    PROVE  IInv'
<1>1. /\ pc[c] = "waiting" /\ \A d \in Calls : ~ InSession(d)
      /\ Inside(c, "dialing") /\ attempt' = 1 /\ touched' = FALSE
      /\ UNCHANGED <<clock, original>>
  BY DEF Acquire, LockFree, Inside
<1>2. /\ \A d \in Calls : d # c => pc'[d] = pc[d] /\ pc[d] \notin Session
      /\ pc'[c] = "dialing"
  BY <1>1, Alone DEF Inside, callVars, Session
<1>3. UNCHANGED <<kind, wanted, firmware>>
  BY <1>1 DEF Inside, callVars, entryVars
<1>4. CallsFit'
  BY <1>1, <1>2, <1>3 DEF CallsFit, IInv, Session
<1>5. ClockFollows'
  BY <1>2 DEF ClockFollows, Session
<1>6. \A k \in Keys : ~ Changing(k) /\ Real(k)' = Real(k)
  BY <1>1 DEF Changing, Uncertain, Real
<1>7. /\ clock' \in [units : Bytes, mode : Modes] /\ original' \in Bytes
      /\ attempt' \in 1 .. MaxRetries
  BY <1>1, RetriesAssumption DEF IInv, TypeOK
<1>8. touched' \in BOOLEAN
  BY <1>1
<1> QED BY <1>1, <1>4, <1>5, <1>6, <1>7, <1>8, InsideInv DEF Session

LEMMA DeviceMissingInv ==
    ASSUME IInv, NEW c \in Calls, DeviceMissing(c)
    PROVE  IInv'
<1>1. pc[c] = "dialing" /\ InSession(c) /\ Fail(c, touched) /\ UNCHANGED clock
  BY DEF DeviceMissing, InSession, Session
<1>2. touched \in BOOLEAN /\ clock' \in [units : Bytes, mode : Modes]
  BY <1>1 DEF IInv, TypeOK
<1>3. ASSUME NEW k \in Keys, ~ (touched /\ k = Key(c))
      PROVE  ~ Uncertain(c, k) /\ Real(k)' = Real(k)
  BY <1>1, <1>3 DEF Uncertain, Landed, Sent, Real
<1> QED BY <1>1, <1>2, <1>3, Settled, FailInv

LEMMA AttemptFailsInv ==
    ASSUME IInv, NEW c \in Calls, AttemptFails(c)
    PROVE  IInv'
<1> DEFINE dirty == touched \/ pc[c] \in Sent
<1>1. /\ pc[c] \in {"dialing", "writing", "verifying", "repairing"}
      /\ InSession(c) /\ pc[c] # "closing" /\ UNCHANGED clock
  BY DEF AttemptFails, InSession, Session
<1>2. dirty \in BOOLEAN /\ clock' \in [units : Bytes, mode : Modes]
  BY <1>1 DEF IInv, TypeOK
<1>4. \A k \in Keys : Uncertain(c, k) <=> (dirty /\ k = Key(c))
  BY <1>1 DEF Uncertain, Landed
<1>5. CASE Fail(c, dirty)
  <2>1. \A k \in Keys : Real(k)' = Real(k)
    BY <1>1 DEF Real
  <2> QED BY <1>1, <1>2, <1>4, <1>5, <2>1, Settled, FailInv
<1>6. CASE /\ MayRetry /\ Inside(c, "dialing") /\ attempt' = attempt + 1
           /\ touched' = dirty /\ UNCHANGED original
  <2>1. /\ \A d \in Calls : d # c => pc'[d] = pc[d] /\ pc[d] \notin Session
        /\ pc'[c] = "dialing" /\ InSession(c)'
        /\ \A d \in Calls : Key(d)' = Key(d)
    BY <1>1, <1>6, Sole, Alone DEF Inside, callVars, Session
  <2>2. CallsFit'
    BY <1>1, <1>6, <2>1 DEF CallsFit, IInv, Inside, callVars, Session, Sent
  <2>3. ClockFollows'
    BY <2>1 DEF ClockFollows, Session
  <2>4. \A k \in Keys : Uncertain(c, k) => Uncertain(c, k)'
    BY <1>4, <1>6, <2>1 DEF Uncertain
  <2>5. \A k \in Keys : Real(k)' = Real(k)
    BY <1>1 DEF Real
  <2>6. attempt' \in 1 .. MaxRetries /\ original' \in Bytes
    BY <1>6, RetriesAssumption DEF IInv, TypeOK, MayRetry
  <2>7. touched' \in BOOLEAN
    BY <1>2, <1>6
  <2>8. "dialing" \in Session \ {"closing"}
    BY DEF Session
  <2> QED BY <1>1, <1>2, <1>6, <2>2, <2>3, <2>4, <2>5, <2>6, <2>7, <2>8,
             Sole, InsideInv
<1> QED BY <1>5, <1>6 DEF AttemptFails, Inside
-----------------------------------------------------------------------------
(* The operations.                                                         *)

LEMMA ReadOriginalInv ==
    ASSUME IInv, NEW c \in Calls, ReadOriginal(c)
    PROVE  IInv'
<1>1. /\ pc[c] = "dialing" /\ kind[c] = "units" /\ InSession(c)
      /\ Inside(c, "writing") /\ original' = clock.units
      /\ UNCHANGED <<clock, attempt, touched, kind, wanted, firmware, current,
                     data, doubt>>
  BY DEF ReadOriginal, Advance, Inside, InSession, Session, callVars, entryVars
<1>2. /\ \A d \in Calls : d # c => pc'[d] = pc[d] /\ pc[d] \notin Session
      /\ pc'[c] = "writing" /\ InSession(c)'
  BY <1>1, Sole, Alone DEF Session, Inside, callVars
<1>3. CallsFit'
  BY <1>1, <1>2 DEF CallsFit, IInv
<1>4. doubt["units"] \/ touched \/ data[current]["units"] \in {None, Decode(clock.units)}
  <2>1. Uncertain(c, "units") => touched
    BY <1>1 DEF Uncertain, Landed, Sent
  <2> QED BY <1>1, <2>1, Settled DEF Keys, Real
<1>5. ClockFollows'
  <2> SUFFICES ASSUME NEW d \in Calls, pc'[d] \in {"writing", "verifying", "rolling"}
               PROVE  /\ clock'.units = original'
                      /\ doubt'["units"] \/ touched'
                           \/ data'[current']["units"] \in {None, Decode(original')}
    BY <1>2 DEF ClockFollows, Session
  <2> QED BY <1>1, <1>4 DEF Decode
<1>6. \A k \in Keys : Uncertain(c, k) => Uncertain(c, k)'
  BY <1>1, <1>2 DEF Uncertain, Key, Landed, Sent
<1>7. /\ clock' \in [units : Bytes, mode : Modes] /\ original' \in Bytes
      /\ attempt' \in 1 .. MaxRetries /\ \A k \in Keys : Real(k)' = Real(k)
  BY <1>1 DEF IInv, TypeOK, Real
<1>8. touched' \in BOOLEAN
  BY <1>1 DEF IInv, TypeOK
<1>9. "writing" \in Session \ {"closing"}
  BY DEF Session
<1>10. /\ pc[c] # "closing" /\ \A d \in Calls : InSession(d) => d = c
       /\ \A k \in Keys : Changing(k) => Uncertain(c, k)'
  BY <1>1, <1>6, Sole
<1>11. \A k \in Keys : Uncertain(c, k)' \/ Real(k)' = Real(k)
  BY <1>7
<1> QED BY <1>1, <1>3, <1>5, <1>7, <1>8, <1>9, <1>10, <1>11, InsideInv

LEMMA WriteUnitsInv ==
    ASSUME IInv, NEW c \in Calls, WriteUnits(c)
    PROVE  IInv'
<1>1. /\ pc[c] = "writing" /\ InSession(c) /\ Inside(c, "verifying")
      /\ clock' = [clock EXCEPT !.units = Taken(Encode(wanted[c]))]
      /\ UNCHANGED <<original, attempt, touched, kind, wanted, firmware, current,
                     data, doubt>>
  BY DEF WriteUnits, Advance, Inside, InSession, Session, callVars, entryVars
<1>2. /\ \A d \in Calls : d # c => pc'[d] = pc[d] /\ pc[d] \notin Session
      /\ pc'[c] = "verifying" /\ InSession(c)'
  BY <1>1, Sole, Alone DEF Session, Inside, callVars
<1>3. CallsFit'
  BY <1>1, <1>2 DEF CallsFit, IInv
<1>4. kind[c] = "units" /\ Key(c) = "units" /\ Key(c)' = "units"
  BY <1>1 DEF IInv, CallsFit, Key
<1>5. Taken(Encode(wanted[c])) \in Bytes
  BY ValuesType, TakenType DEF IInv
<1>6. clock' \in [units : Bytes, mode : Modes]
  BY <1>1, <1>5 DEF IInv, TypeOK
<1>7. clock'.units = Taken(Encode(wanted[c])) /\ clock'.mode = clock.mode
  BY <1>1 DEF IInv, TypeOK
<1>8. ClockFollows'
  <2>1. firmware.units = "ignores" => clock'.units = clock.units
    BY <1>7 DEF Taken
  <2> QED BY <1>1, <1>2, <2>1 DEF ClockFollows, IInv, Session
<1>9. Uncertain(c, "units")' /\ \A k \in Keys : Uncertain(c, k) => k = "units"
  BY <1>2, <1>4 DEF Uncertain, Landed, Sent
<1>10. Real("mode")' = Real("mode")
  BY <1>7 DEF Real
<1>11. original' \in Bytes /\ attempt' \in 1 .. MaxRetries
  BY <1>1 DEF IInv, TypeOK
<1>12. touched' \in BOOLEAN
  BY <1>1 DEF IInv, TypeOK
<1>13. "verifying" \in Session \ {"closing"}
  BY DEF Session
<1>14. /\ pc[c] # "closing" /\ \A d \in Calls : InSession(d) => d = c
       /\ \A k \in Keys : Changing(k) => Uncertain(c, k)'
  BY <1>1, <1>9, Sole
<1>15. \A k \in Keys : Uncertain(c, k)' \/ Real(k)' = Real(k)
  BY <1>9, <1>10 DEF Keys
<1> QED BY <1>1, <1>3, <1>6, <1>8, <1>11, <1>12, <1>13, <1>14, <1>15, InsideInv

LEMMA VerifyDisagreesInv ==
    ASSUME IInv, NEW c \in Calls, VerifyDisagrees(c)
    PROVE  IInv'
<1>1. /\ pc[c] = "verifying" /\ InSession(c) /\ Inside(c, "rolling")
      /\ UNCHANGED <<clock, original, attempt, touched, kind, wanted, firmware,
                     current, data, doubt>>
  BY DEF VerifyDisagrees, Advance, Inside, InSession, Session, callVars, entryVars
<1>2. /\ \A d \in Calls : d # c => pc'[d] = pc[d] /\ pc[d] \notin Session
      /\ pc'[c] = "rolling" /\ InSession(c)'
  BY <1>1, Sole, Alone DEF Session, Inside, callVars
<1>3. CallsFit'
  BY <1>1, <1>2 DEF CallsFit, IInv
<1>4. ClockFollows'
  BY <1>1, <1>2 DEF ClockFollows, IInv, Session
<1>5. \A k \in Keys : Uncertain(c, k) => Uncertain(c, k)'
  BY <1>1, <1>2 DEF Uncertain, Key, Landed, Sent
<1>6. /\ clock' \in [units : Bytes, mode : Modes] /\ original' \in Bytes
      /\ attempt' \in 1 .. MaxRetries /\ \A k \in Keys : Real(k)' = Real(k)
  BY <1>1 DEF IInv, TypeOK, Real
<1>7. touched' \in BOOLEAN
  BY <1>1 DEF IInv, TypeOK
<1>8. "rolling" \in Session \ {"closing"}
  BY DEF Session
<1>9. /\ pc[c] # "closing" /\ \A d \in Calls : InSession(d) => d = c
       /\ \A k \in Keys : Changing(k) => Uncertain(c, k)'
  BY <1>1, <1>5, Sole
<1>10. \A k \in Keys : Uncertain(c, k)' \/ Real(k)' = Real(k)
  BY <1>6
<1> QED BY <1>1, <1>3, <1>4, <1>6, <1>7, <1>8, <1>9, <1>10, InsideInv

(* A byte put back is the option shown again, whatever this clock does     *)
(* with what it is sent.                                                   *)
LEMMA PutBack ==
    ASSUME IInv, NEW c \in Calls, pc[c] = "rolling"
    PROVE  Decode(Taken(original)) = Decode(original)
<1>1. firmware.units \in {"keeps", "ignores", "normalises"}
  BY FirmwaresAssumption DEF IInv, TypeOK
<1>2. firmware.units = "ignores" => clock.units = original
  BY DEF IInv, ClockFollows
<1> QED BY <1>1, <1>2 DEF Taken, Decode

LEMMA RollBackInv ==
    ASSUME IInv, NEW c \in Calls, RollBack(c)
    PROVE  IInv'
<1>1. /\ pc[c] = "rolling" /\ InSession(c) /\ kind[c] = "units"
      /\ Key(c) = "units"
  BY DEF RollBack, InSession, Session, IInv, CallsFit, Key
<1>2. touched \in BOOLEAN /\ TRUE \in BOOLEAN
  BY DEF IInv, TypeOK
<1>3. \/ doubt["mode"] \/ data[current]["mode"] \in {None, clock.mode}
      \/ firmware.mode = "misreads"
  <2>1. ~ Uncertain(c, "mode")
    BY <1>1 DEF Uncertain
  <2> QED BY <1>1, <2>1, Settled DEF Keys, Real
<1>4. CASE UNCHANGED clock /\ Fail(c, TRUE)
  <2>1. clock' \in [units : Bytes, mode : Modes] /\ Real("mode")' = clock.mode
    BY <1>4 DEF IInv, TypeOK, Real
  <2> QED BY <1>1, <1>2, <1>3, <1>4, <2>1, FailInv DEF Keys
<1>5. CASE /\ clock' = [clock EXCEPT !.units = Taken(original)]
           /\ Fail(c, touched)
  <2>1. Taken(original) \in Bytes
    BY TakenType DEF IInv, TypeOK
  <2>2. /\ clock' \in [units : Bytes, mode : Modes]
        /\ clock'.units = Taken(original) /\ clock'.mode = clock.mode
    BY <1>5, <2>1 DEF IInv, TypeOK
  <2>3. Real("mode")' = clock.mode /\ Real("units")' = Decode(original)
    BY <1>1, <2>2, PutBack DEF Real, Decode
  <2>4. doubt["units"] \/ touched \/ data[current]["units"] \in {None, Decode(original)}
    BY <1>1 DEF IInv, ClockFollows
  <2> QED BY <1>1, <1>2, <1>3, <1>5, <2>2, <2>3, <2>4, FailInv DEF Keys
<1> QED BY <1>4, <1>5 DEF RollBack

LEMMA SendModeInv ==
    ASSUME IInv, NEW c \in Calls, SendMode(c)
    PROVE  IInv'
<1>1. /\ pc[c] = "dialing" /\ kind[c] = "mode" /\ InSession(c)
      /\ Inside(c, "repairing")
      /\ \/ firmware.mode # "takes" /\ clock' = clock
         \/ clock' = [clock EXCEPT !.mode = wanted[c]]
      /\ UNCHANGED <<original, attempt, touched, kind, wanted, firmware>>
  BY DEF SendMode, Advance, Inside, InSession, Session, callVars, entryVars
<1>2. /\ \A d \in Calls : d # c => pc'[d] = pc[d] /\ pc[d] \notin Session
      /\ pc'[c] = "repairing" /\ InSession(c)'
  BY <1>1, Sole, Alone DEF Session, Inside, callVars
<1>3. CallsFit'
  BY <1>1, <1>2 DEF CallsFit, IInv
<1>4. ClockFollows'
  <2>1. firmware.mode = "takes" => clock'.mode = wanted[c]
    BY <1>1 DEF IInv, TypeOK
  <2> QED BY <1>1, <1>2, <2>1 DEF ClockFollows, Session
<1>5. Key(c) = "mode" /\ Key(c)' = "mode" /\ wanted[c] \in Modes
  BY <1>1 DEF Key, IInv, CallsFit
<1>6. /\ clock' \in [units : Bytes, mode : Modes] /\ clock'.units = clock.units
      /\ original' \in Bytes /\ attempt' \in 1 .. MaxRetries
  BY <1>1, <1>5 DEF IInv, TypeOK
<1>7. Uncertain(c, "mode")' /\ \A k \in Keys : Uncertain(c, k) => k = "mode"
  BY <1>2, <1>5 DEF Uncertain, Landed, Sent
<1>8. Real("units")' = Real("units")
  BY <1>6 DEF Real, Decode
<1>9. touched' \in BOOLEAN
  BY <1>1 DEF IInv, TypeOK
<1>10. "repairing" \in Session \ {"closing"}
  BY DEF Session
<1>11. /\ pc[c] # "closing" /\ \A d \in Calls : InSession(d) => d = c
       /\ \A k \in Keys : Changing(k) => Uncertain(c, k)'
  BY <1>1, <1>7, Sole
<1>12. \A k \in Keys : Uncertain(c, k)' \/ Real(k)' = Real(k)
  BY <1>7, <1>8 DEF Keys
<1> QED BY <1>1, <1>3, <1>4, <1>6, <1>9, <1>10, <1>11, <1>12, InsideInv

LEMMA ClockRepairedInv ==
    ASSUME IInv, NEW c \in Calls, ClockRepaired(c)
    PROVE  IInv'
<1>1. InSession(c) /\ pc[c] # "closing" /\ Note(c, wanted[c])
  BY DEF ClockRepaired, InSession, Session
<1>2. kind[c] = "mode" /\ Key(c) = "mode" /\ wanted[c] \in Options
  BY DEF ClockRepaired, IInv, CallsFit, TypeOK, Key
<1>3. firmware.mode = "misreads" \/ wanted[c] = Real(Key(c))
  <2>1. firmware.mode \in {"takes", "misreads"}
    BY FirmwaresAssumption DEF IInv, TypeOK, ClockRepaired
  <2> QED BY <1>2, <2>1 DEF Real, IInv, ClockFollows, ClockRepaired
<1> QED BY <1>1, <1>2, <1>3, NoteInv
LEMMA VerifyAgreesInv ==
    ASSUME IInv, NEW c \in Calls, VerifyAgrees(c)
    PROVE  IInv'
<1>1. InSession(c) /\ pc[c] # "closing" /\ Note(c, wanted[c])
  BY DEF VerifyAgrees, InSession, Session
<1>2. /\ kind[c] = "units" /\ Key(c) = "units" /\ wanted[c] \in Options
      /\ wanted[c] \in Units
  BY DEF VerifyAgrees, IInv, CallsFit, TypeOK, Key
<1>3. Decode(Encode(wanted[c])) = wanted[c]
  BY <1>2 DEF Decode, Encode, Units
<1>4. wanted[c] = Real(Key(c))
  BY <1>2, <1>3 DEF Real, VerifyAgrees, ReadBackAgrees
<1> QED BY <1>1, <1>2, <1>4, NoteInv

LEMMA ReadUnitsInv ==
    ASSUME IInv, NEW c \in Calls, ReadUnits(c)
    PROVE  IInv'
<1>1. /\ InSession(c) /\ pc[c] # "closing" /\ kind[c] = "read"
      /\ Note(c, Decode(clock.units))
  BY DEF ReadUnits, InSession, Session
<1>2. Decode(clock.units) \in Options /\ Decode(clock.units) = Real(Key(c))
  BY <1>1, ValuesType DEF Key, Real
<1> QED BY <1>1, <1>2, NoteInv

-----------------------------------------------------------------------------
(* The end of a session that succeeded.                                    *)

LEMMA Closed ==
    ASSUME IInv, NEW c \in Calls, InSession(c), pc' = [pc EXCEPT ![c] = "over"],
           UNCHANGED <<kind, wanted>>
    PROVE  /\ \A d \in Calls : ~ InSession(d)'
           /\ OneSession' /\ CallsFit' /\ ClockFollows' /\ SuccessIsReal'
<1>1. \A d \in Calls : pc'[d] \notin Session
  <2> SUFFICES ASSUME NEW d \in Calls PROVE pc'[d] \notin Session
    OBVIOUS
  <2>1. CASE d = c
    BY <2>1 DEF IInv, TypeOK, Session
  <2>2. CASE d # c
    BY <2>2, Sole DEF IInv, TypeOK
  <2> QED BY <2>1, <2>2
<1>2. CallsFit'
  BY <1>1, Zenon DEF CallsFit, Session, IInv
<1> QED BY <1>1, <1>2 DEF OneSession, ClockFollows, SuccessIsReal, InSession, Session

LEMMA CloseInv ==
    ASSUME IInv, NEW c \in Calls, NEW saves \in BOOLEAN, Close(c, saves)
    PROVE  IInv'
<1>1. /\ pc[c] = "closing" /\ InSession(c) /\ pc' = [pc EXCEPT ![c] = "over"]
      /\ stored' = IF saves THEN Record(c) ELSE stored
      /\ doubt' = [doubt EXCEPT ![Key(c)] = target[c] # current]
      /\ unsaved' = (~ saves \/ target[c] # current)
      /\ UNCHANGED <<firmware, current, clock, data, kind, wanted, target,
                     previous, attempt, original, touched>>
  BY DEF Close, InSession, Session, entryVars, callVars
<1>2. /\ stored' \in [Keys -> Options] /\ unsaved' \in BOOLEAN
      /\ doubt' \in [Keys -> BOOLEAN] /\ Key(c) \in Keys
  <2>1. stored' \in [Keys -> Options]
    BY <1>1 DEF IInv, TypeOK, Record
  <2>2. doubt' \in [Keys -> BOOLEAN] /\ Key(c) \in Keys
    BY <1>1, ValuesType, Zenon DEF IInv, TypeOK
  <2> QED BY <1>1, <2>1, <2>2
<1>3. TypeOK'
  BY <1>1, <1>2 DEF IInv, TypeOK
<1>4. /\ \A d \in Calls : ~ InSession(d)'
      /\ OneSession' /\ CallsFit' /\ ClockFollows' /\ SuccessIsReal'
  BY <1>1, Closed
<1>5. ShownIsClocks'
  <2> SUFFICES ASSUME NEW k \in Keys, ~ doubt'[k],
                      ~ (k = "mode" /\ firmware.mode = "misreads")
               PROVE  data[current][k] \in {None, Real(k)}
    BY <1>1 DEF ShownIsClocks, Real
  <2>1. CASE k = Key(c)
    <3>1. target[c] = current
      BY <1>1, <1>2, <2>1 DEF IInv, TypeOK
    <3>2. kind[c] = "mode" => k = "mode"
      BY <2>1 DEF Key
    <3> QED BY <1>1, <2>1, <3>1, <3>2 DEF IInv, SuccessIsReal
  <2>2. CASE k # Key(c)
    <3>1. ~ doubt[k]
      BY <1>1, <2>2 DEF IInv, TypeOK
    <3>2. ~ Uncertain(c, k)
      BY <2>2 DEF Uncertain
    <3> QED BY <1>1, <3>1, <3>2, Settled
  <2> QED BY <2>1, <2>2
<1>6. StoredIsShown'
  <2>1. ~ unsaved' => stored' = data[current]
    BY <1>1 DEF Record
  <2> QED BY <1>1, <2>1 DEF StoredIsShown
<1> QED BY <1>3, <1>4, <1>5, <1>6 DEF IInv

LEMMA PollEndsInv ==
    ASSUME IInv, NEW c \in Calls, NEW reads \in BOOLEAN, NEW saves \in BOOLEAN,
           PollEnds(c, reads, saves)
    PROVE  IInv'
<1>1. /\ pc[c] = "dialing" /\ InSession(c) /\ kind[c] = "poll"
      /\ pc' = [pc EXCEPT ![c] = "over"]
      /\ data' = IF reads
                 THEN [data EXCEPT ![target[c]] = [@ EXCEPT !["units"] = Polled(c)]]
                 ELSE data
      /\ stored' = IF saves THEN Record(c) ELSE stored
      /\ unsaved' = IF saves THEN target[c] # current ELSE unsaved
      /\ UNCHANGED <<firmware, current, clock, kind, wanted, target, previous,
                     attempt, original, touched, doubt>>
  BY DEF PollEnds, InSession, Session, entryVars, callVars
<1>2. "units" \in Keys /\ Polled(c) \in Options
  BY ValuesType DEF Polled, Keys, IInv, TypeOK
<1>3. TypeOK'
  <2>1. data' \in [Loads -> [Keys -> Options]] /\ stored' \in [Keys -> Options]
    BY <1>1, <1>2 DEF IInv, TypeOK, Record
  <2>2. unsaved' \in BOOLEAN
    BY <1>1 DEF IInv, TypeOK
  <2> QED BY <1>1, <2>1, <2>2 DEF IInv, TypeOK
<1>4. /\ \A d \in Calls : ~ InSession(d)'
      /\ OneSession' /\ CallsFit' /\ ClockFollows' /\ SuccessIsReal'
  BY <1>1, Closed
<1>5. \A k \in Keys : \/ data'[current][k] = data[current][k]
                      \/ /\ k = "units" /\ data[current][k] = None
                         /\ data'[current][k] = Real(k)
  <2> SUFFICES ASSUME NEW k \in Keys, data'[current][k] # data[current][k]
               PROVE  /\ k = "units" /\ data[current][k] = None
                      /\ data'[current][k] = Real(k)
    OBVIOUS
  <2>1. /\ data \in [Loads -> [Keys -> Options]] /\ current \in Loads
        /\ target[c] \in Loads
    BY DEF IInv, TypeOK
  <2>2. reads /\ target[c] = current /\ k = "units"
    BY <1>1, <1>2, <2>1
  <2>3. data'[current][k] = Polled(c)
    BY <1>1, <1>2, <2>1, <2>2
  <2> QED BY <2>2, <2>3 DEF Polled, Real
<1>6. \A k \in Keys : ~ Uncertain(c, k)
  BY <1>1 DEF Uncertain, Landed, Sent, IInv, CallsFit
<1>7. ShownIsClocks'
  <2> SUFFICES ASSUME NEW k \in Keys, ~ doubt[k],
                      ~ (k = "mode" /\ firmware.mode = "misreads")
               PROVE  data'[current][k] \in {None, Real(k)}
    BY <1>1 DEF ShownIsClocks, Real
  <2>1. data[current][k] \in {None, Real(k)}
    BY <1>1, <1>6, Settled
  <2> QED BY <1>5, <2>1
<1>8. StoredIsShown'
  <2> SUFFICES ASSUME NEW k \in Keys, ~ doubt[k], ~ unsaved'
               PROVE  stored'[k] \in {None, data'[current][k]}
    BY <1>1 DEF StoredIsShown
  <2>1. stored'[k] \in {None, data[current][k]}
    <3>1. CASE saves
      BY <1>1, <3>1 DEF Record
    <3>2. CASE ~ saves
      <4>1. \A d \in Calls : pc[d] # "closing"
        BY <1>1, Sole DEF Session
      <4> QED BY <1>1, <3>2, <4>1 DEF IInv, StoredIsShown
    <3> QED BY <3>1, <3>2
  <2> QED BY <1>5, <2>1
<1> QED BY <1>3, <1>4, <1>7, <1>8 DEF IInv

-----------------------------------------------------------------------------
(* Steps outside a session.                                                *)

LEMMA StartInv ==
    ASSUME IInv, NEW c \in Calls, NEW what \in {"units", "mode", "read", "poll"},
           NEW option \in Options, Start(c, what, option),
           what = "units" => option \in Units,
           what = "mode" => option \in Modes
    PROVE  IInv'
<1>1. /\ pc[c] = "new" /\ pc' = [pc EXCEPT ![c] = "waiting"]
      /\ kind' = [kind EXCEPT ![c] = what]
      /\ wanted' = [wanted EXCEPT ![c] = option]
      /\ target' = [target EXCEPT ![c] = current]
      /\ UNCHANGED <<firmware, current, clock, data, stored, attempt, original,
                     touched, doubt, unsaved>>
  BY DEF Start, entryVars
<1>2. previous' \in [Calls -> Options]
  BY DEF Start, IInv, TypeOK, Keys
<1>3. TypeOK'
  <2>1. /\ pc' \in [Calls -> {"new", "waiting", "over"} \cup Session]
        /\ kind' \in [Calls -> {"units", "mode", "read", "poll"}]
        /\ wanted' \in [Calls -> Options] /\ target' \in [Calls -> Loads]
    BY <1>1 DEF IInv, TypeOK
  <2> QED BY <1>1, <1>2, <2>1 DEF IInv, TypeOK
<1>4. /\ pc[c] \notin Session /\ pc'[c] = "waiting" /\ pc'[c] \notin Session
      /\ \A d \in Calls : d # c => /\ pc'[d] = pc[d] /\ kind'[d] = kind[d]
                                   /\ wanted'[d] = wanted[d]
                                   /\ target'[d] = target[d]
      /\ kind'[c] = what /\ wanted'[c] = option
  BY <1>1 DEF IInv, TypeOK, Session
<1>5. \A d \in Calls : /\ InSession(d)' <=> InSession(d)
                       /\ pc[d] \in Session => Key(d)' = Key(d)
  BY <1>4 DEF InSession, Key
<1>6. OneSession'
  BY <1>5 DEF IInv, OneSession
<1>7. CallsFit'
  BY <1>1, <1>4 DEF IInv, CallsFit, Session
<1>8. ClockFollows'
  BY <1>1, <1>4 DEF IInv, ClockFollows, Session
<1>9. \A k \in Keys : Real(k)' = Real(k) /\ (Changing(k) => Changing(k)')
  <2> SUFFICES ASSUME NEW k \in Keys, NEW d \in Calls, Uncertain(d, k)
               PROVE  Uncertain(d, k)'
    BY <1>1 DEF Real, Changing
  <2> QED BY <1>1, <1>4, <1>5 DEF Uncertain, InSession
<1>10. SuccessIsReal'
  <2> SUFFICES ASSUME NEW d \in Calls, pc'[d] = "closing" PROVE
        /\ kind'[d] \in {"units", "mode"} => data'[target'[d]][Key(d)'] = wanted'[d]
        /\ \/ data'[target'[d]][Key(d)'] = Real(Key(d))'
           \/ kind'[d] = "mode" /\ firmware'.mode = "misreads"
    BY DEF SuccessIsReal
  <2>1. pc[d] = "closing" /\ d # c /\ Key(d)' = Key(d)
    BY <1>4, <1>5 DEF Session
  <2>2. Real(Key(d))' = Real(Key(d))
    BY <1>1, <2>1 DEF Real
  <2> QED BY <1>1, <1>4, <2>1, <2>2 DEF IInv, SuccessIsReal
<1>11. ShownIsClocks'
  BY <1>1, <1>9 DEF IInv, ShownIsClocks
<1>12. StoredIsShown'
  BY <1>1, <1>4, <1>5 DEF IInv, StoredIsShown, Session
<1> QED BY <1>3, <1>6, <1>7, <1>8, <1>10, <1>11, <1>12 DEF IInv
LEMMA CancelInv ==
    ASSUME IInv, NEW c \in Calls, Cancel(c)
    PROVE  IInv'
<1>1. /\ Active(c) /\ pc' = [pc EXCEPT ![c] = "over"]
      /\ doubt' = [k \in Keys |-> doubt[k] \/ Uncertain(c, k)]
      /\ UNCHANGED <<firmware, current, clock, data, stored, kind, wanted, target,
                     previous, attempt, original, touched, unsaved>>
  BY DEF Cancel, entryVars, callVars
<1>2. /\ pc'[c] = "over" /\ \A d \in Calls : d # c => pc'[d] = pc[d]
      /\ \A d \in Calls : Key(d)' = Key(d)
      /\ \A k \in Keys : Real(k)' = Real(k)
  BY <1>1 DEF IInv, TypeOK, Key, Real
<1>3. TypeOK'
  <2>1. doubt' \in [Keys -> BOOLEAN]
    BY <1>1, Zenon DEF IInv, TypeOK, Uncertain
  <2>2. pc' \in [Calls -> {"new", "waiting", "over"} \cup Session]
    BY <1>1 DEF IInv, TypeOK
  <2> QED BY <1>1, <2>1, <2>2 DEF IInv, TypeOK
<1>4. \A k \in Keys : doubt[k] => doubt'[k]
  BY <1>1
<1>5. \A d \in Calls : InSession(d)' => d # c /\ InSession(d) /\ pc'[d] = pc[d]
  BY <1>2 DEF InSession, Session
<1>6. OneSession'
  BY <1>5 DEF IInv, OneSession
<1>7. CallsFit'
  BY <1>1, <1>2 DEF IInv, CallsFit
<1>8. ClockFollows'
  BY <1>1, <1>2, <1>4 DEF IInv, ClockFollows, Keys
<1>9. SuccessIsReal'
  <2> SUFFICES ASSUME NEW d \in Calls, pc'[d] = "closing" PROVE
        /\ kind'[d] \in {"units", "mode"} => data'[target'[d]][Key(d)'] = wanted'[d]
        /\ \/ data'[target'[d]][Key(d)'] = Real(Key(d))'
           \/ kind'[d] = "mode" /\ firmware'.mode = "misreads"
    BY DEF SuccessIsReal
  <2>1. pc[d] = "closing" /\ Real(Key(d))' = Real(Key(d))
    BY <1>1, <1>2 DEF Real
  <2> QED BY <1>1, <1>2, <2>1 DEF IInv, SuccessIsReal
<1>10. ASSUME NEW k \in Keys, ~ doubt'[k]
       PROVE  ~ doubt[k] /\ ~ Uncertain(c, k) /\ (Changing(k) => Changing(k)')
  <2>1. ~ doubt[k] /\ ~ Uncertain(c, k)
    BY <1>1, <1>10
  <2>2. ASSUME NEW d \in Calls, Uncertain(d, k)
        PROVE  Uncertain(d, k)'
    <3>1. d # c
      BY <2>1, <2>2
    <3> QED BY <1>1, <1>2, <2>2, <3>1 DEF Uncertain, InSession
  <2> QED BY <2>1, <2>2 DEF Changing
<1>11. ShownIsClocks'
  BY <1>1, <1>2, <1>10 DEF IInv, ShownIsClocks
<1>12. StoredIsShown'
  <2> SUFFICES ASSUME NEW k \in Keys, ~ doubt'[k], ~ unsaved,
                      \A d \in Calls : ~ (pc'[d] = "closing" /\ Key(d)' = k)
               PROVE  stored[k] \in {None, data[current][k]}
    BY <1>1 DEF StoredIsShown
  <2>1. pc[c] = "closing" => Key(c) # k
    BY <1>10 DEF Uncertain, InSession, Session, Landed
  <2>2. \A d \in Calls : ~ (pc[d] = "closing" /\ Key(d) = k)
    BY <1>2, <2>1
  <2> QED BY <1>10, <2>2 DEF IInv, StoredIsShown
<1> QED BY <1>3, <1>6, <1>7, <1>8, <1>9, <1>11, <1>12 DEF IInv

LEMMA OtherChangeInv ==
    ASSUME IInv, OtherChange
    PROVE  IInv'
<1>1. /\ \A c \in Calls : ~ InSession(c)
      /\ clock' \in [units : Bytes, mode : Modes]
      /\ doubt' = [k \in Keys |-> TRUE]
      /\ UNCHANGED <<firmware, current, data, stored, pc, kind, wanted, target,
                     previous, attempt, original, touched, unsaved>>
  BY DEF OtherChange, LockFree, entryVars, callVars
<1>2. TypeOK'
  BY <1>1 DEF IInv, TypeOK
<1>3. \A c \in Calls : ~ InSession(c)' /\ pc'[c] \notin Session
  BY <1>1 DEF InSession
<1>4. OneSession' /\ ClockFollows' /\ SuccessIsReal'
  BY <1>3 DEF OneSession, ClockFollows, SuccessIsReal, Session
<1>5. CallsFit'
  BY <1>1 DEF IInv, CallsFit
<1>6. ShownIsClocks' /\ StoredIsShown'
  BY <1>1 DEF ShownIsClocks, StoredIsShown
<1> QED BY <1>2, <1>4, <1>5, <1>6 DEF IInv

-----------------------------------------------------------------------------
(* Setting up the entry.                                                   *)

(* What the new coordinator knows without doubt is what the last one knew. *)
LEMMA Loaded ==
    ASSUME IInv, NEW g \in Loads, NEW found \in {stored, Blank},
           NEW last \in {Blank, data[current]}, SetUp(g, found, last),
           NEW k \in Keys, ~ doubt[k], ~ DoubtLoaded(found, last, k)
    PROVE  \/ data'[g][k] = None
           \/ \E c \in Calls : pc[c] = "closing" /\ Key(c) = k
           \/ data'[g][k] = data[current][k]
<1>1. data'[g][k] = IF found[k] # None THEN found[k] ELSE last[k]
  BY DEF SetUp, IInv, TypeOK
<1>2. CASE found[k] = None
  BY <1>1, <1>2 DEF DoubtLoaded
<1>3. CASE found[k] # None
  <2>1. found = stored /\ ~ unsaved
    BY <1>3 DEF Blank, DoubtLoaded
  <2> QED BY <1>1, <1>3, <2>1 DEF IInv, StoredIsShown
<1> QED BY <1>2, <1>3

LEMMA LoadedStored ==
    ASSUME IInv, NEW g \in Loads, NEW found \in {stored, Blank},
           NEW last \in {Blank, data[current]}, SetUp(g, found, last)
    PROVE  StoredIsShown'
<1> SUFFICES ASSUME NEW k \in Keys, ~ unsaved', stored[k] # None
             PROVE  stored[k] = data'[current'][k]
  BY DEF StoredIsShown, SetUp
<1>1. found = stored
  BY DEF SetUp
<1> QED BY <1>1 DEF SetUp, IInv, TypeOK

LEMMA ReloadInv ==
    ASSUME IInv, NEW g \in Loads, Reload(g)
    PROVE  IInv'
<1>1. PICK found \in {stored, Blank}, last \in {Blank, data[current]} :
        /\ SetUp(g, found, last)
        /\ doubt' = [k \in Keys |-> doubt[k] \/ DoubtLoaded(found, last, k)]
  BY DEF Reload
<1>2. /\ \A c \in Calls : Active(c) => target[c] # g
      /\ current' = g
      /\ UNCHANGED <<firmware, clock, stored, pc, kind, wanted, target, previous,
                     attempt, original, touched>>
  BY <1>1 DEF Reload, SetUp, callVars
<1>3. TypeOK'
  <2>1. doubt' \in [Keys -> BOOLEAN]
    BY <1>1, Zenon DEF IInv, TypeOK, DoubtLoaded
  <2> QED BY <1>1, <1>2, <2>1, SetUpType DEF IInv, TypeOK
<1>4. \A c \in Calls : /\ InSession(c)' = InSession(c) /\ Key(c)' = Key(c)
                       /\ \A k \in Keys : Uncertain(c, k)' = Uncertain(c, k)
  BY <1>2 DEF InSession, Key, Uncertain
<1>5. \A k \in Keys : Real(k)' = Real(k)
  BY <1>2 DEF Real
<1>6. OneSession'
  BY <1>4 DEF IInv, OneSession
<1>7. CallsFit'
  BY <1>2 DEF IInv, CallsFit
<1>8. ASSUME NEW k \in Keys, ~ doubt'[k]
      PROVE  /\ ~ doubt[k]
             /\ \/ data'[g][k] = None
                \/ \E c \in Calls : pc[c] = "closing" /\ Key(c) = k
                \/ data'[g][k] = data[current][k]
  <2>1. ~ doubt[k] /\ ~ DoubtLoaded(found, last, k)
    BY <1>1, <1>8
  <2> QED BY <1>1, <2>1, Loaded
<1>9. ClockFollows'
  <2> SUFFICES ASSUME NEW c \in Calls, pc[c] \in {"writing", "verifying", "rolling"},
                      ~ doubt'["units"], ~ touched
               PROVE  data'[g]["units"] \in {None, Decode(original)}
    BY <1>2 DEF IInv, ClockFollows
  <2>1. \A d \in Calls : pc[d] # "closing"
    BY Sole DEF InSession, Session
  <2>2. ~ doubt["units"] /\ data'[g]["units"] \in {None, data[current]["units"]}
    BY <1>8, <2>1 DEF Keys
  <2> QED BY <2>2 DEF IInv, ClockFollows
<1>10. SuccessIsReal'
  <2> SUFFICES ASSUME NEW c \in Calls, pc[c] = "closing" PROVE
        /\ kind[c] \in {"units", "mode"} => data'[target[c]][Key(c)] = wanted[c]
        /\ \/ data'[target[c]][Key(c)] = Real(Key(c))
           \/ kind[c] = "mode" /\ firmware.mode = "misreads"
    BY <1>2 DEF SuccessIsReal, Key, Real
  <2>1. target[c] # g
    BY <1>2 DEF Active, InSession, Session
  <2>2. data'[target[c]] = data[target[c]]
    BY <1>1, <2>1 DEF SetUp, IInv, TypeOK
  <2> QED BY <2>2 DEF IInv, SuccessIsReal
<1>11. ShownIsClocks'
  <2> SUFFICES ASSUME NEW k \in Keys, ~ doubt'[k], ~ Changing(k),
                      ~ (k = "mode" /\ firmware.mode = "misreads")
               PROVE  data'[g][k] \in {None, Real(k)}
    BY <1>2, <1>4, <1>5 DEF ShownIsClocks, Changing
  <2>1. \A c \in Calls : ~ (pc[c] = "closing" /\ Key(c) = k)
    BY DEF Changing, Uncertain, InSession, Session, Landed
  <2>2. ~ doubt[k] /\ data'[g][k] \in {None, data[current][k]}
    BY <1>8, <2>1
  <2> QED BY <2>2 DEF IInv, ShownIsClocks
<1>12. StoredIsShown'
  BY <1>1, LoadedStored
<1> QED BY <1>3, <1>6, <1>7, <1>9, <1>10, <1>11, <1>12 DEF IInv

LEMMA RestartInv ==
    ASSUME IInv, NEW g \in Loads, Restart(g)
    PROVE  IInv'
<1>1. PICK found \in {stored, Blank}, last \in {Blank, data[current]} :
        /\ SetUp(g, found, last)
        /\ doubt' = [k \in Keys |->
             doubt[k] \/ DoubtLoaded(found, last, k)
                      \/ \E c \in Calls : Uncertain(c, k)]
  BY DEF Restart
<1>2. /\ current' = g
      /\ pc' = [c \in Calls |-> IF Active(c) THEN "over" ELSE pc[c]]
      /\ UNCHANGED <<firmware, clock, stored, kind, wanted, target, previous,
                     attempt, original, touched>>
  BY <1>1 DEF Restart, SetUp, callVars
<1>3. TypeOK'
  <2>1. doubt' \in [Keys -> BOOLEAN]
    BY <1>1, Zenon DEF IInv, TypeOK, DoubtLoaded, Uncertain
  <2>2. pc' \in [Calls -> {"new", "waiting", "over"} \cup Session]
    BY <1>2 DEF IInv, TypeOK
  <2> QED BY <1>1, <1>2, <2>1, <2>2, SetUpType DEF IInv, TypeOK
<1>4. \A c \in Calls : pc'[c] \notin Session /\ ~ InSession(c)'
  BY <1>2 DEF Active, InSession, Session
<1>5. OneSession' /\ ClockFollows' /\ SuccessIsReal'
  BY <1>4 DEF OneSession, ClockFollows, SuccessIsReal, Session
<1>6. CallsFit'
  BY <1>2, <1>4, Zenon DEF IInv, CallsFit, Session
<1>7. ShownIsClocks'
  <2> SUFFICES ASSUME NEW k \in Keys, ~ doubt'[k],
                      ~ (k = "mode" /\ firmware.mode = "misreads")
               PROVE  data'[g][k] \in {None, Real(k)}
    BY <1>2 DEF ShownIsClocks, Real
  <2>1. /\ ~ doubt[k] /\ ~ DoubtLoaded(found, last, k)
        /\ \A c \in Calls : ~ Uncertain(c, k)
    BY <1>1
  <2>2. \A c \in Calls : ~ (pc[c] = "closing" /\ Key(c) = k)
    BY <2>1 DEF Uncertain, InSession, Session, Landed
  <2>3. data'[g][k] \in {None, data[current][k]}
    BY <1>1, <2>1, <2>2, Loaded
  <2> QED BY <2>1, <2>3 DEF IInv, ShownIsClocks, Changing
<1>8. StoredIsShown'
  BY <1>1, LoadedStored
<1> QED BY <1>3, <1>5, <1>6, <1>7, <1>8 DEF IInv

-----------------------------------------------------------------------------
LEMMA NextInv == IInv /\ [Next]_vars => IInv'
<1> SUFFICES ASSUME IInv, [Next]_vars PROVE IInv'
  OBVIOUS
<1>1. CASE UNCHANGED vars
  BY <1>1, Zenon DEF IInv, vars, entryVars, callVars, TypeOK, OneSession,
     CallsFit, ClockFollows, SuccessIsReal, ShownIsClocks, StoredIsShown,
     Changing, Uncertain, InSession, Key, Real, Decode
<1>2. ASSUME NEW c \in Calls, Select(c) PROVE IInv'
  <2>1. Units \subseteq Options /\ Modes \subseteq Options
    BY DEF Options
  <2> QED BY <1>2, <2>1, StartInv DEF Select
<1>3. ASSUME NEW c \in Calls, ReadOrPoll(c) PROVE IInv'
  <2>1. None \in Options
    BY DEF Options
  <2> QED BY <1>3, <2>1, StartInv DEF ReadOrPoll
<1>4. ASSUME NEW c \in Calls, Operation(c) PROVE IInv'
  BY <1>4, ReadOriginalInv, WriteUnitsInv, VerifyAgreesInv, VerifyDisagreesInv,
     RollBackInv, SendModeInv, ClockRepairedInv, ReadUnitsInv DEF Operation
<1> QED
  BY <1>1, <1>2, <1>3, <1>4, AcquireInv, CloseInv, PollEndsInv, DeviceMissingInv,
     AttemptFailsInv, CancelInv, ReloadInv, RestartInv, OtherChangeInv DEF Next

(* The invariant that carries the others, for any number of calls and      *)
(* coordinators, any firmware and any retry count.                         *)
THEOREM Invariance == Spec => []IInv
BY InitInv, NextInv, PTL DEF Spec

(* Every variable keeps its type.                                          *)
THEOREM TypeCorrect == Spec => []TypeOK
<1>1. IInv => TypeOK
  BY DEF IInv
<1> QED BY Invariance, <1>1, PTL

(* An option shown is the clock's, through read-backs that disagree, bytes *)
(* put back, retries, reloads and restarts.                                *)
THEOREM Shown == Spec => []ShownIsClocks
<1>1. IInv => ShownIsClocks
  BY DEF IInv
<1> QED BY Invariance, <1>1, PTL

(* A selection that succeeds has reached the clock.                        *)
THEOREM Success == Spec => []SuccessIsReal
<1>1. IInv => SuccessIsReal
  BY DEF IInv
<1> QED BY Invariance, <1>1, PTL

(* The record has the option shown, or none.                               *)
THEOREM Stored == Spec => []StoredIsShown
<1>1. IInv => StoredIsShown
  BY DEF IInv
<1> QED BY Invariance, <1>1, PTL
=============================================================================
