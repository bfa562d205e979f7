-------------------------- MODULE BleExecuteProofs --------------------------
(***************************************************************************)
(* Proofs about BleExecute for any tasks, coordinators, addresses and      *)
(* retry count.  The safety properties are not inductive: who may raise or *)
(* lower the connectivity flag depends on who holds the lock, and that on  *)
(* what the queue holds.  IInv adds those facts.                           *)
(***************************************************************************)
EXTENDS BleExecute, SequenceTheorems, TLAPS

(* The lock is held by the one task that is past it.                       *)
LockInv == \A c \in Callers : Holding(c) <=> lock = c

(* The queue holds tasks that wait, each once.                             *)
QueueInv ==
    /\ \A i \in DOMAIN queue : pc[queue[i]] = "waiting"
    /\ \A i, j \in DOMAIN queue : queue[i] = queue[j] => i = j

(* What a task's place says about its locals.                              *)
CallInv ==
    \A c \in Callers :
        /\ pc[c] # "idle" => coordinator[c] \in Coordinators
        /\ sessionOpen[c] => pc[c] \in {"op", "backoff", "finally"}
        /\ sessionOpen[c] => ~ interrupted[coordinator[c]]
        /\ pc[c] = "op" => sessionOpen[c]
        /\ client[c] = "none" <=> ~ sessionOpen[c]
        /\ exit[c] # "none" <=> pc[c] = "finally"

(* The loop counter bounds the sessions opened in a call.                  *)
AttemptInv ==
    \A c \in Callers :
        /\ Holding(c) => opened <= attempt[c]
        /\ pc[c] \in {"lookup", "stale", "dialing"} => opened < attempt[c]
        /\ pc[c] = "backoff" \/ exit[c] = "retry" => attempt[c] < MaxRetries

(* Another attempt is made only after a failure without an answer.         *)
OutcomeInv ==
    \A c \in Callers :
        /\ pc[c] \in {"lookup", "stale", "dialing", "op", "backoff"} \/ exit[c] = "retry"
              => outcome[c] \in {"none", "error"}
        /\ pc[c] \in {"idle", "waiting"} => outcome[c] = "none"

(* From the moment stale connections are closed.                           *)
LinkInv ==
    \A c \in Callers :
        pc[c] \in {"dialing", "op"} => ~ stale[AddressOf[coordinator[c]]]

IInv ==
    /\ TypeOK
    /\ LockInv
    /\ QueueInv
    /\ CallInv
    /\ AttemptInv
    /\ OutcomeInv
    /\ LinkInv
    /\ ConnectivityTruthful
    /\ AnswerFaithful
-----------------------------------------------------------------------------
(* Lemmas about sequences and about the lock's holder.                     *)

(* Removing one element of a sequence keeps the others in order.           *)
LEMMA RemoveAtFacts ==
  ASSUME NEW S, NEW q \in Seq(S), NEW i \in DOMAIN q
  PROVE  /\ RemoveAt(q, i) \in Seq(S)
         /\ Len(RemoveAt(q, i)) = Len(q) - 1
         /\ \A j \in 1 .. Len(q) - 1 :
              RemoveAt(q, i)[j] = IF j < i THEN q[j] ELSE q[j + 1]
<1> DEFINE front == SubSeq(q, 1, i - 1)
           back == SubSeq(q, i + 1, Len(q))
<1>1. /\ Len(q) \in Nat
      /\ i \in 1 .. Len(q)
      /\ \A j \in 1 .. Len(q) : q[j] \in S
  BY LenProperties, ElementOfSeq
<1>2. /\ front \in Seq(S)
      /\ Len(front) = i - 1
      /\ \A j \in 1 .. i - 1 : front[j] = q[j]
  BY <1>1, SubSeqProperties
<1>3. /\ back \in Seq(S)
      /\ Len(back) = Len(q) - i
      /\ \A j \in 1 .. Len(q) - i : back[j] = q[i + j]
  BY <1>1, SubSeqProperties
<1>4. RemoveAt(q, i) = front \o back
  BY DEF RemoveAt
<1> HIDE DEF front, back
<1>5. QED
  BY <1>1, <1>2, <1>3, <1>4, ConcatProperties, SMTT(30)

(* A task past the lock is the only one, and no other has a session.       *)
LEMMA HolderAlone ==
  ASSUME IInv, NEW c \in Callers, Holding(c)
  PROVE  /\ lock = c
         /\ \A d \in Callers \ {c} : /\ pc[d] \in {"idle", "waiting"}
                                    /\ ~ sessionOpen[d]
BY DEF IInv, LockInv, CallInv, Holding

(* What a failure without an answer does to the task.                      *)
LEMMA TransientFacts ==
  ASSUME NEW c \in Callers, Transient(c)
  PROVE  \/ /\ attempt[c] < MaxRetries
            /\ pc' = [pc EXCEPT ![c] = "backoff"]
            /\ exit' = exit
         \/ \E x \in {"raw", "wrapped"} : Unwind(c, x)
BY DEF Transient, MayRetry, Exhausted

-----------------------------------------------------------------------------
(* Each action preserves the invariant.                                    *)


(* Joining the queue: the task was not in it.                              *)
LEMMA RequestStep ==
  ASSUME IInv, NEW c \in Callers, NEW k \in LoadsFor[c], Request(c, k)
  PROVE  IInv'
<1>1. TypeOK'
  <2>1. CallTypeOK'
    <3>1. queue' \in Seq(Callers) /\ k \in Coordinators
      BY AppendProperties, AddressAssumption DEF IInv, TypeOK, CallTypeOK,
         Request
    <3>2. QED
      BY <3>1 DEF IInv, TypeOK, CallTypeOK, Places, Request, histVars
  <2>2. FlagTypeOK'
    BY DEF IInv, TypeOK, FlagTypeOK, Request, histVars
  <2>3. QED
    BY <2>1, <2>2 DEF TypeOK
<1>2. LockInv'
  BY DEF IInv, Request, LockInv, Holding
<1>3. QueueInv'
  <2>1. /\ queue' = Append(queue, c)
        /\ pc' = [pc EXCEPT ![c] = "waiting"]
        /\ pc[c] = "idle"
        /\ queue \in Seq(Callers)
        /\ pc \in [Callers -> Places]
    BY DEF IInv, TypeOK, CallTypeOK, Request
  <2>2. /\ DOMAIN queue = 1 .. Len(queue)
        /\ Len(queue) \in Nat
        /\ \A i \in 1 .. Len(queue) : queue[i] \in Callers /\ pc[queue[i]] = "waiting"
    BY <2>1, LenProperties, ElementOfSeq DEF IInv, QueueInv
  <2>3. /\ DOMAIN queue' = 1 .. Len(queue) + 1
        /\ queue'[Len(queue) + 1] = c
        /\ \A i \in 1 .. Len(queue) : queue'[i] = queue[i]
    BY <2>1, <2>2, AppendProperties
  <2>4. \A i \in DOMAIN queue' : pc'[queue'[i]] = "waiting"
    BY <2>1, <2>2, <2>3
  <2>5. \A i, j \in DOMAIN queue' : queue'[i] = queue'[j] => i = j
    BY <2>1, <2>2, <2>3 DEF IInv, QueueInv
  <2>6. QED
    BY <2>4, <2>5 DEF QueueInv
<1>4. CallInv'
  BY AddressAssumption DEF IInv, TypeOK, CallTypeOK, Request, histVars,
     CallInv
<1>5. AttemptInv'
  BY DEF IInv, Request, histVars, AttemptInv, Holding
<1>6. OutcomeInv'
  BY DEF IInv, Request, histVars, OutcomeInv
<1>7. LinkInv'
  <2>1. \A d \in Callers : pc'[d] \in {"dialing", "op"} =>
           /\ pc'[d] = pc[d]
           /\ coordinator'[d] = coordinator[d]
    BY DEF IInv, Request
  <2>2. QED
    BY <2>1 DEF IInv, LinkInv, Request
<1>8. ConnectivityTruthful'
  BY DEF IInv, Request, histVars, ConnectivityTruthful, CallInv
<1>9. AnswerFaithful'
  BY DEF IInv, Request, histVars, AnswerFaithful
<1>10. QED
  BY <1>1, <1>2, <1>3, <1>4, <1>5, <1>6, <1>7, <1>8, <1>9 DEF IInv

(* Taking the lock: the head of the queue waited, and nobody else is past  *)
(* the lock.                                                               *)
LEMMA AcquireStep ==
  ASSUME IInv, NEW c \in Callers, Acquire(c)
  PROVE  IInv'
<1>0. /\ pc[c] = "waiting"
      /\ \A d \in Callers : ~ Holding(d)
      /\ \A d \in Callers : ~ sessionOpen[d]
      /\ queue' \in Seq(Callers)
      /\ Len(queue') = Len(queue) - 1
      /\ \A i \in 1 .. Len(queue) - 1 : queue'[i] = queue[i + 1]
      /\ c = queue[1]
      /\ Len(queue) \in Nat \ {0}
      /\ DOMAIN queue = 1 .. Len(queue)
      /\ DOMAIN queue' = 1 .. Len(queue')
  <2>1. /\ queue \in Seq(Callers)
        /\ queue # << >>
        /\ queue' = Tail(queue)
        /\ c = Head(queue)
        /\ lock = Nobody
    BY DEF IInv, TypeOK, CallTypeOK, Acquire, LockFree
  <2>2. /\ queue' \in Seq(Callers)
        /\ Len(queue') = Len(queue) - 1
        /\ \A i \in 1 .. Len(queue) - 1 : queue'[i] = queue[i + 1]
        /\ c = queue[1]
        /\ Len(queue) \in Nat \ {0}
        /\ DOMAIN queue = 1 .. Len(queue)
        /\ DOMAIN queue' = 1 .. Len(queue')
    BY <2>1, HeadTailProperties, EmptySeq, LenProperties
  <2>3. pc[c] = "waiting"
    BY <2>2 DEF IInv, QueueInv
  <2>4. \A d \in Callers : ~ Holding(d) /\ ~ sessionOpen[d]
    BY <2>1, CallersAssumption DEF IInv, LockInv, CallInv, Holding
  <2>5. QED
    BY <2>2, <2>3, <2>4
<1>1. TypeOK'
  <2>1. CallTypeOK'
    BY <1>0, RetriesAssumption DEF IInv, TypeOK, CallTypeOK, Places, Acquire,
       LockFree
  <2>2. FlagTypeOK'
    BY DEF IInv, TypeOK, FlagTypeOK, Acquire, LockFree
  <2>3. QED
    BY <2>1, <2>2 DEF TypeOK
<1>2. LockInv'
  BY <1>0 DEF IInv, TypeOK, CallTypeOK, Acquire, LockFree, LockInv, Holding
<1>3. QueueInv'
  <2>1. pc' = [pc EXCEPT ![c] = "lookup"]
    BY DEF Acquire
  <2>2. \A i \in DOMAIN queue' : /\ i + 1 \in DOMAIN queue
                                /\ queue'[i] = queue[i + 1]
                                /\ queue'[i] # c
                                /\ queue'[i] \in Callers
    BY <1>0, ElementOfSeq DEF IInv, QueueInv
  <2>3. \A i \in DOMAIN queue' : pc'[queue'[i]] = "waiting"
    BY <2>1, <2>2 DEF IInv, QueueInv
  <2>4. \A i, j \in DOMAIN queue' : queue'[i] = queue'[j] => i = j
    BY <1>0, <2>2 DEF IInv, QueueInv
  <2>5. QED
    BY <2>3, <2>4 DEF QueueInv
<1>4. CallInv'
  BY <1>0 DEF IInv, Acquire, LockFree, CallInv
<1>5. AttemptInv'
  <2>1. \A d \in Callers \ {c} : pc'[d] \in {"idle", "waiting"} /\ exit'[d] # "retry"
    BY <1>0 DEF IInv, CallInv, Holding, Acquire
  <2>2. /\ opened' = 0
        /\ attempt'[c] = 1
        /\ pc'[c] = "lookup"
        /\ exit'[c] # "retry"
    BY <1>0 DEF IInv, TypeOK, CallTypeOK, CallInv, Acquire
  <2>3. QED
    BY <2>1, <2>2 DEF AttemptInv, Holding
<1>6. OutcomeInv'
  BY <1>0 DEF IInv, Acquire, LockFree, OutcomeInv
<1>7. LinkInv'
  BY <1>0 DEF IInv, Acquire, LockFree, LinkInv
<1>8. ConnectivityTruthful'
  BY <1>0 DEF IInv, Acquire, LockFree, ConnectivityTruthful
<1>9. AnswerFaithful'
  BY <1>0 DEF IInv, Acquire, LockFree, AnswerFaithful
<1>10. QED
  BY <1>1, <1>2, <1>3, <1>4, <1>5, <1>6, <1>7, <1>8, <1>9 DEF IInv

(* No device: the attempt ends with an answer that is not retried.         *)
LEMMA DeviceMissingStep ==
  ASSUME IInv, NEW c \in Callers, DeviceMissing(c)
  PROVE  IInv'
<1>0. Holding(c)
  BY DEF DeviceMissing, Holding
<1>1. TypeOK'
  <2>1. CallTypeOK'
    BY DEF IInv, TypeOK, CallTypeOK, Places, Answers, DeviceMissing, Unwind,
       lockVars, histVars
  <2>2. FlagTypeOK'
    BY DEF IInv, TypeOK, FlagTypeOK, DeviceMissing, histVars
  <2>3. QED
    BY <2>1, <2>2 DEF TypeOK
<1>2. LockInv'
  BY DEF IInv, DeviceMissing, Unwind, lockVars, LockInv, Holding
<1>3. QueueInv'
  BY <1>0 DEF IInv, DeviceMissing, Unwind, lockVars, QueueInv
<1>4. CallInv'
  BY <1>0, HolderAlone DEF IInv, TypeOK, CallTypeOK, DeviceMissing, Unwind,
     CallInv
<1>5. AttemptInv'
  BY <1>0 DEF IInv, DeviceMissing, Unwind, histVars, AttemptInv, Holding
<1>6. OutcomeInv'
  BY <1>0 DEF IInv, DeviceMissing, Unwind, histVars, OutcomeInv
<1>7. LinkInv'
  BY <1>0 DEF IInv, DeviceMissing, Unwind, LinkInv
<1>8. ConnectivityTruthful'
  BY <1>0 DEF IInv, DeviceMissing, histVars, ConnectivityTruthful
<1>9. AnswerFaithful'
  BY <1>0 DEF IInv, DeviceMissing, Unwind, histVars, AnswerFaithful,
     OutcomeInv, CallInv
<1>10. QED
  BY <1>1, <1>2, <1>3, <1>4, <1>5, <1>6, <1>7, <1>8, <1>9 DEF IInv

(* A device: nothing but the place of the task changes.                    *)
LEMMA DeviceFoundStep ==
  ASSUME IInv, NEW c \in Callers, DeviceFound(c)
  PROVE  IInv'
<1>0. Holding(c)
  BY DEF DeviceFound, Holding
<1>1. TypeOK'
  <2>1. CallTypeOK'
    BY DEF IInv, TypeOK, CallTypeOK, Places, DeviceFound, lockVars, callVars,
       histVars
  <2>2. FlagTypeOK'
    BY DEF IInv, TypeOK, FlagTypeOK, DeviceFound, callVars, histVars
  <2>3. QED
    BY <2>1, <2>2 DEF TypeOK
<1>2. LockInv'
  BY DEF IInv, DeviceFound, lockVars, LockInv, Holding
<1>3. QueueInv'
  BY <1>0 DEF IInv, DeviceFound, lockVars, QueueInv
<1>4. CallInv'
  BY <1>0, HolderAlone DEF IInv, DeviceFound, callVars, CallInv
<1>5. AttemptInv'
  BY <1>0 DEF IInv, DeviceFound, callVars, histVars, AttemptInv, Holding
<1>6. OutcomeInv'
  BY <1>0, HolderAlone DEF IInv, DeviceFound, histVars, OutcomeInv
<1>7. LinkInv'
  BY <1>0, HolderAlone DEF IInv, DeviceFound, LinkInv
<1>8. ConnectivityTruthful'
  BY <1>0 DEF IInv, DeviceFound, callVars, histVars, ConnectivityTruthful
<1>9. AnswerFaithful'
  BY <1>0, HolderAlone DEF IInv, DeviceFound, AnswerFaithful
<1>10. QED
  BY <1>1, <1>2, <1>3, <1>4, <1>5, <1>6, <1>7, <1>8, <1>9 DEF IInv

(* Closing the leftovers makes the coming connection the only one.         *)
LEMMA CloseStaleStep ==
  ASSUME IInv, NEW c \in Callers, CloseStale(c)
  PROVE  IInv'
<1>0. Holding(c)
  BY DEF CloseStale, Holding
<1>1. TypeOK'
  <2>1. CallTypeOK'
    BY DEF IInv, TypeOK, CallTypeOK, Places, CloseStale, lockVars, callVars,
       histVars
  <2>2. FlagTypeOK'
    BY DEF IInv, TypeOK, FlagTypeOK, CloseStale, callVars, histVars
  <2>3. QED
    BY <2>1, <2>2 DEF TypeOK
<1>2. LockInv'
  BY DEF IInv, CloseStale, lockVars, LockInv, Holding
<1>3. QueueInv'
  BY <1>0 DEF IInv, CloseStale, lockVars, QueueInv
<1>4. CallInv'
  BY <1>0, HolderAlone DEF IInv, CloseStale, callVars, CallInv
<1>5. AttemptInv'
  BY <1>0 DEF IInv, CloseStale, callVars, histVars, AttemptInv, Holding
<1>6. OutcomeInv'
  BY <1>0, HolderAlone DEF IInv, CloseStale, histVars, OutcomeInv
<1>7. LinkInv'
  BY <1>0, AddressAssumption DEF IInv, TypeOK, FlagTypeOK, CloseStale,
     callVars, LinkInv, CallInv
<1>8. ConnectivityTruthful'
  BY <1>0 DEF IInv, CloseStale, callVars, histVars, ConnectivityTruthful
<1>9. AnswerFaithful'
  BY <1>0, HolderAlone DEF IInv, CloseStale, AnswerFaithful
<1>10. QED
  BY <1>1, <1>2, <1>3, <1>4, <1>5, <1>6, <1>7, <1>8, <1>9 DEF IInv

(* Connecting opens the one session and raises the flag of its own         *)
(* coordinator.                                                            *)
LEMMA ConnectedStep ==
  ASSUME IInv, NEW c \in Callers, Connected(c)
  PROVE  IInv'
<1>0. Holding(c)
  BY DEF Connected, BeginConnection, Holding
<1>1. TypeOK'
  <2>1. CallTypeOK'
    BY RetriesAssumption DEF IInv, TypeOK, CallTypeOK, Places, Connected,
       BeginConnection, lockVars, AttemptInv
  <2>2. FlagTypeOK'
    BY DEF IInv, TypeOK, FlagTypeOK, Connected, BeginConnection
  <2>3. QED
    BY <2>1, <2>2 DEF TypeOK
<1>2. LockInv'
  BY DEF IInv, Connected, BeginConnection, lockVars, LockInv, Holding
<1>3. QueueInv'
  BY <1>0 DEF IInv, Connected, BeginConnection, lockVars, QueueInv
<1>4. CallInv'
  BY <1>0 DEF IInv, TypeOK, CallTypeOK, FlagTypeOK, Connected,
     BeginConnection, CallInv
<1>5. AttemptInv'
  BY <1>0, HolderAlone DEF IInv, TypeOK, CallTypeOK, Connected,
     BeginConnection, AttemptInv, Holding
<1>6. OutcomeInv'
  BY <1>0 DEF IInv, Connected, BeginConnection, OutcomeInv
<1>7. LinkInv'
  BY <1>0 DEF IInv, Connected, BeginConnection, LinkInv
<1>8. ConnectivityTruthful'
  BY <1>0 DEF IInv, TypeOK, FlagTypeOK, Connected, BeginConnection,
     ConnectivityTruthful
<1>9. AnswerFaithful'
  BY <1>0 DEF IInv, Connected, BeginConnection, AnswerFaithful
<1>10. QED
  BY <1>1, <1>2, <1>3, <1>4, <1>5, <1>6, <1>7, <1>8, <1>9 DEF IInv

(* A failed connection attempt opens nothing; it backs off or gives up.    *)
LEMMA DialFailedStep ==
  ASSUME IInv, NEW c \in Callers, DialFailed(c)
  PROVE  IInv'
<1>0. Holding(c)
  BY DEF DialFailed, Holding
<1>a. \/ /\ attempt[c] < MaxRetries
         /\ pc' = [pc EXCEPT ![c] = "backoff"]
         /\ exit' = exit
      \/ \E x \in {"raw", "wrapped"} :
            /\ pc' = [pc EXCEPT ![c] = "finally"]
            /\ exit' = [exit EXCEPT ![c] = x]
  BY TransientFacts DEF DialFailed, Unwind
<1>1. TypeOK'
  <2>1. CallTypeOK'
    <3>1. /\ pc' \in [Callers -> Places]
          /\ exit' \in [Callers -> Answers \cup {"none", "retry"}]
      BY <1>a DEF IInv, TypeOK, CallTypeOK, Places, Answers
    <3>2. QED
      BY <3>1 DEF IInv, TypeOK, CallTypeOK, DialFailed, lockVars, histVars
  <2>2. FlagTypeOK'
    BY DEF IInv, TypeOK, FlagTypeOK, DialFailed, histVars
  <2>3. QED
    BY <2>1, <2>2 DEF TypeOK
<1>2. LockInv'
  BY <1>a DEF IInv, TypeOK, CallTypeOK, DialFailed, lockVars, LockInv,
     Holding
<1>3. QueueInv'
  BY <1>a, <1>0 DEF IInv, TypeOK, CallTypeOK, DialFailed, lockVars, QueueInv
<1>4. CallInv'
  BY <1>a, <1>0, HolderAlone DEF IInv, TypeOK, CallTypeOK, DialFailed,
     CallInv
<1>5. AttemptInv'
  BY <1>a, <1>0 DEF IInv, TypeOK, CallTypeOK, DialFailed, histVars,
     AttemptInv, Holding
<1>6. OutcomeInv'
  BY <1>a, <1>0 DEF IInv, TypeOK, CallTypeOK, DialFailed, histVars,
     OutcomeInv
<1>7. LinkInv'
  BY <1>a, <1>0 DEF IInv, TypeOK, CallTypeOK, DialFailed, LinkInv
<1>8. ConnectivityTruthful'
  BY <1>a, <1>0 DEF IInv, DialFailed, histVars, ConnectivityTruthful
<1>9. AnswerFaithful'
  BY <1>a, <1>0, HolderAlone DEF IInv, TypeOK, CallTypeOK, DialFailed,
     histVars, AnswerFaithful, OutcomeInv
<1>10. QED
  BY <1>1, <1>2, <1>3, <1>4, <1>5, <1>6, <1>7, <1>8, <1>9 DEF IInv

(* The end of the operation is recorded as the exit it leads to.           *)
LEMMA OpEndsStep ==
  ASSUME IInv, NEW c \in Callers, NEW o \in Outcomes \ {"none"}, OpEnds(c, o)
  PROVE  IInv'
<1>0. Holding(c)
  BY DEF OpEnds, Holding
<1>a. \/ /\ o = "error"
         /\ attempt[c] < MaxRetries
         /\ pc' = [pc EXCEPT ![c] = "backoff"]
         /\ exit' = exit
      \/ \E x \in {"raw", "wrapped", "ok", "verify", "ha"} :
            /\ o = "error" <=> x \in {"raw", "wrapped"}
            /\ o # "error" => x = o
            /\ pc' = [pc EXCEPT ![c] = "finally"]
            /\ exit' = [exit EXCEPT ![c] = x]
  BY TransientFacts DEF OpEnds, Unwind, NotRetried, Outcomes
<1>1. TypeOK'
  <2>1. CallTypeOK'
    <3>1. outcome' \in [Callers -> Outcomes]
      BY DEF IInv, TypeOK, CallTypeOK, OpEnds
    <3>2. pc' \in [Callers -> Places]
      BY <1>a DEF IInv, TypeOK, CallTypeOK, Places
    <3>3. \/ exit' = exit
          \/ \E x \in Answers : exit' = [exit EXCEPT ![c] = x]
      BY <1>a DEF Answers
    <3>4. exit' \in [Callers -> Answers \cup {"none", "retry"}]
      BY <3>3 DEF IInv, TypeOK, CallTypeOK
    <3>5. UNCHANGED <<lock, queue, coordinator, attempt, client, opened>>
      BY DEF OpEnds, lockVars
    <3>6. QED
      BY <3>1, <3>2, <3>4, <3>5 DEF IInv, TypeOK, CallTypeOK
  <2>2. FlagTypeOK'
    BY DEF IInv, TypeOK, FlagTypeOK, OpEnds
  <2>3. QED
    BY <2>1, <2>2 DEF TypeOK
<1>2. LockInv'
  BY <1>a DEF IInv, TypeOK, CallTypeOK, OpEnds, lockVars, LockInv, Holding
<1>3. QueueInv'
  BY <1>a, <1>0 DEF IInv, TypeOK, CallTypeOK, OpEnds, lockVars, QueueInv
<1>4. CallInv'
  BY <1>a, <1>0 DEF IInv, TypeOK, CallTypeOK, OpEnds, CallInv
<1>5. AttemptInv'
  BY <1>a, <1>0 DEF IInv, TypeOK, CallTypeOK, OpEnds, lockVars, AttemptInv,
     Holding
<1>6. OutcomeInv'
  BY <1>a, <1>0 DEF IInv, TypeOK, CallTypeOK, OpEnds, OutcomeInv
<1>7. LinkInv'
  BY <1>a, <1>0 DEF IInv, TypeOK, CallTypeOK, OpEnds, LinkInv
<1>8. ConnectivityTruthful'
  BY <1>a, <1>0 DEF IInv, OpEnds, ConnectivityTruthful
<1>9. AnswerFaithful'
  BY <1>a, <1>0 DEF IInv, TypeOK, CallTypeOK, OpEnds, AnswerFaithful
<1>10. QED
  BY <1>1, <1>2, <1>3, <1>4, <1>5, <1>6, <1>7, <1>8, <1>9 DEF IInv

(* A lost link does not end the session: the finally block does.           *)
LEMMA LinkLostStep ==
  ASSUME IInv, NEW c \in Callers, LinkLost(c)
  PROVE  IInv'
<1>1. TypeOK'
  <2>1. CallTypeOK'
    BY DEF IInv, TypeOK, CallTypeOK, LinkLost, lockVars, histVars
  <2>2. FlagTypeOK'
    BY DEF IInv, TypeOK, FlagTypeOK, LinkLost, histVars
  <2>3. QED
    BY <2>1, <2>2 DEF TypeOK
<1>2. LockInv'
  BY DEF IInv, LinkLost, lockVars, LockInv, Holding
<1>3. QueueInv'
  BY DEF IInv, LinkLost, lockVars, QueueInv
<1>4. CallInv'
  BY DEF IInv, LinkLost, histVars, CallInv
<1>5. AttemptInv'
  BY DEF IInv, LinkLost, histVars, AttemptInv, Holding
<1>6. OutcomeInv'
  BY DEF IInv, LinkLost, histVars, OutcomeInv
<1>7. LinkInv'
  BY DEF IInv, LinkLost, LinkInv
<1>8. ConnectivityTruthful'
  BY DEF IInv, LinkLost, histVars, ConnectivityTruthful
<1>9. AnswerFaithful'
  BY DEF IInv, LinkLost, histVars, AnswerFaithful
<1>10. QED
  BY <1>1, <1>2, <1>3, <1>4, <1>5, <1>6, <1>7, <1>8, <1>9 DEF IInv

(* The sleep after a failure without an answer ends in the finally block.  *)
LEMMA BackoffOverStep ==
  ASSUME IInv, NEW c \in Callers, BackoffOver(c)
  PROVE  IInv'
<1>0. Holding(c)
  BY DEF BackoffOver, Holding
<1>1. TypeOK'
  <2>1. CallTypeOK'
    BY DEF IInv, TypeOK, CallTypeOK, Places, BackoffOver, Unwind, lockVars,
       histVars
  <2>2. FlagTypeOK'
    BY DEF IInv, TypeOK, FlagTypeOK, BackoffOver, histVars
  <2>3. QED
    BY <2>1, <2>2 DEF TypeOK
<1>2. LockInv'
  BY DEF IInv, BackoffOver, Unwind, lockVars, LockInv, Holding
<1>3. QueueInv'
  BY <1>0 DEF IInv, BackoffOver, Unwind, lockVars, QueueInv
<1>4. CallInv'
  BY <1>0 DEF IInv, TypeOK, CallTypeOK, BackoffOver, Unwind, histVars,
     CallInv
<1>5. AttemptInv'
  BY <1>0 DEF IInv, BackoffOver, Unwind, histVars, AttemptInv, Holding
<1>6. OutcomeInv'
  BY <1>0 DEF IInv, BackoffOver, Unwind, histVars, OutcomeInv
<1>7. LinkInv'
  BY <1>0 DEF IInv, BackoffOver, Unwind, LinkInv
<1>8. ConnectivityTruthful'
  BY <1>0 DEF IInv, BackoffOver, histVars, ConnectivityTruthful
<1>9. AnswerFaithful'
  BY <1>0 DEF IInv, BackoffOver, Unwind, histVars, AnswerFaithful,
     OutcomeInv, CallInv
<1>10. QED
  BY <1>1, <1>2, <1>3, <1>4, <1>5, <1>6, <1>7, <1>8, <1>9 DEF IInv

(* The rest of the finally block lowers the flag of the session it ends.   *)
LEMMA EndSessionTruthful ==
  ASSUME IInv, NEW c \in Callers, pc[c] = "finally", EndAttempt(c),
         interrupted' = interrupted
  PROVE  ConnectivityTruthful'
<1> SUFFICES ASSUME NEW k \in Coordinators
             PROVE  connectivity'[k] <=>
                       \/ \E d \in Callers : sessionOpen'[d] /\ coordinator'[d] = k
                       \/ interrupted'[k]
  BY DEF ConnectivityTruthful
<1>1. Holding(c)
  BY DEF Holding
<1>2. \A d \in Callers : ~ sessionOpen'[d]
  BY <1>1, HolderAlone DEF IInv, TypeOK, FlagTypeOK, EndAttempt
<1>3. connectivity[k] <=>
       (sessionOpen[c] /\ coordinator[c] = k) \/ interrupted[k]
  BY <1>1, HolderAlone DEF IInv, ConnectivityTruthful
<1>4. sessionOpen[c] =>
        coordinator[c] \in Coordinators /\ ~ interrupted[coordinator[c]]
  BY DEF IInv, CallInv
<1>5. connectivity' = IF sessionOpen[c]
                     THEN [connectivity EXCEPT ![coordinator[c]] = FALSE]
                     ELSE connectivity
  BY DEF EndAttempt, EndsSession, EndConnection
<1>6. connectivity'[k] <=> interrupted[k]
  <2>1. CASE sessionOpen[c] /\ k = coordinator[c]
    BY <1>4, <1>5, <2>1 DEF IInv, TypeOK, FlagTypeOK
  <2>2. CASE ~ (sessionOpen[c] /\ k = coordinator[c])
    BY <1>3, <1>5, <2>2 DEF IInv
  <2>3. QED
    BY <2>1, <2>2
<1>7. QED
  BY <1>2, <1>6

(* The finally block of an attempt that is followed by another one.        *)
LEMMA NextAttemptStep ==
  ASSUME IInv, NEW c \in Callers, pc[c] = "finally", EndAttempt(c), exit[c] = "retry",
         stale' \in [Addresses -> BOOLEAN], UNCHANGED <<queue, interrupted>>
  PROVE  IInv'
<1>0. Holding(c)
  BY DEF Holding
<1>a. attempt[c] + 1 \in 0 .. MaxRetries
  BY RetriesAssumption DEF IInv, TypeOK, CallTypeOK, AttemptInv
<1>b. /\ pc' = [pc EXCEPT ![c] = "lookup"]
      /\ attempt' = [attempt EXCEPT ![c] = attempt[c] + 1]
      /\ client' = [client EXCEPT ![c] = "none"]
      /\ sessionOpen' = [sessionOpen EXCEPT ![c] = FALSE]
      /\ exit' = [exit EXCEPT ![c] = "none"]
      /\ connectivity' = IF sessionOpen[c]
                         THEN [connectivity EXCEPT ![coordinator[c]] = FALSE]
                         ELSE connectivity
      /\ UNCHANGED <<lock, coordinator, outcome, opened>>
  BY DEF EndAttempt, EndsSession, EndConnection, NextAttempt
<1>1. TypeOK'
  <2>1. CallTypeOK'
    BY <1>a, <1>b DEF IInv, TypeOK, CallTypeOK, Places
  <2>2. FlagTypeOK'
    BY <1>b DEF IInv, TypeOK, FlagTypeOK
  <2>3. QED
    BY <2>1, <2>2 DEF TypeOK
<1>2. LockInv'
  BY <1>b DEF IInv, LockInv, Holding
<1>3. QueueInv'
  BY <1>b, <1>0 DEF IInv, QueueInv
<1>4. CallInv'
  BY <1>b, <1>0 DEF IInv, TypeOK, CallTypeOK, FlagTypeOK, CallInv
<1>5. AttemptInv'
  BY <1>b, <1>0 DEF IInv, TypeOK, CallTypeOK, AttemptInv, Holding
<1>6. OutcomeInv'
  BY <1>b, <1>0 DEF IInv, OutcomeInv
<1>7. LinkInv'
  <2>1. \A d \in Callers : pc'[d] \in {"idle", "waiting", "lookup"}
    BY <1>b, <1>0, HolderAlone DEF IInv, TypeOK, CallTypeOK
  <2>2. QED
    BY <2>1 DEF LinkInv
<1>8. ConnectivityTruthful'
  BY EndSessionTruthful
<1>9. AnswerFaithful'
  BY <1>b, <1>0 DEF IInv, AnswerFaithful, OutcomeInv
<1>10. QED
  BY <1>1, <1>2, <1>3, <1>4, <1>5, <1>6, <1>7, <1>8, <1>9 DEF IInv

(* The finally block of the last attempt, which releases the lock.         *)
LEMMA ComeBackStep ==
  ASSUME IInv, NEW c \in Callers, pc[c] = "finally", EndAttempt(c), exit[c] # "retry",
         stale' \in [Addresses -> BOOLEAN], UNCHANGED <<queue, interrupted>>
  PROVE  IInv'
<1>0. Holding(c)
  BY DEF Holding
<1>b. /\ pc' = [pc EXCEPT ![c] = "idle"]
      /\ attempt' = [attempt EXCEPT ![c] = 0]
      /\ client' = [client EXCEPT ![c] = "none"]
      /\ sessionOpen' = [sessionOpen EXCEPT ![c] = FALSE]
      /\ exit' = [exit EXCEPT ![c] = "none"]
      /\ connectivity' = IF sessionOpen[c]
                         THEN [connectivity EXCEPT ![coordinator[c]] = FALSE]
                         ELSE connectivity
      /\ lock' = Nobody
      /\ coordinator' = [coordinator EXCEPT ![c] = Nobody]
      /\ outcome' = [outcome EXCEPT ![c] = "none"]
      /\ opened' = 0
  BY DEF EndAttempt, EndsSession, EndConnection, ComeBack
<1>1. TypeOK'
  <2>1. CallTypeOK'
    BY <1>b, RetriesAssumption DEF IInv, TypeOK, CallTypeOK, Places, Outcomes
  <2>2. FlagTypeOK'
    BY <1>b DEF IInv, TypeOK, FlagTypeOK
  <2>3. QED
    BY <2>1, <2>2 DEF TypeOK
<1>2. LockInv'
  BY <1>0, <1>b, CallersAssumption DEF IInv, TypeOK, CallTypeOK, LockInv,
     Holding
<1>3. QueueInv'
  BY <1>b, <1>0 DEF IInv, QueueInv
<1>4. CallInv'
  BY <1>b, <1>0 DEF IInv, TypeOK, CallTypeOK, FlagTypeOK, CallInv
<1>5. AttemptInv'
  BY <1>b, <1>0 DEF IInv, TypeOK, CallTypeOK, AttemptInv
<1>6. OutcomeInv'
  BY <1>b, <1>0 DEF IInv, TypeOK, CallTypeOK, OutcomeInv
<1>7. LinkInv'
  <2>1. \A d \in Callers : pc'[d] \in {"idle", "waiting"}
    BY <1>b, <1>0, HolderAlone DEF IInv, TypeOK, CallTypeOK
  <2>2. QED
    BY <2>1 DEF LinkInv
<1>8. ConnectivityTruthful'
  BY EndSessionTruthful
<1>9. AnswerFaithful'
  BY <1>b, <1>0 DEF IInv, TypeOK, CallTypeOK, AnswerFaithful
<1>10. QED
  BY <1>1, <1>2, <1>3, <1>4, <1>5, <1>6, <1>7, <1>8, <1>9 DEF IInv

(* Either way of leaving the finally block preserves the invariant.        *)
LEMMA FinallyStep ==
  ASSUME IInv, NEW c \in Callers, Disconnect(c) \/ NothingToDisconnect(c)
  PROVE  IInv'
<1>1. stale' \in [Addresses -> BOOLEAN]
  BY DEF IInv, TypeOK, FlagTypeOK, Disconnect, NothingToDisconnect
<1>2. pc[c] = "finally" /\ EndAttempt(c) /\ UNCHANGED <<queue, interrupted>>
  BY DEF Disconnect, NothingToDisconnect
<1>3. QED
  BY <1>1, <1>2, NextAttemptStep, ComeBackStep

(* Leaving the queue: the others stay, each once.                          *)
LEMMA CancelWaitingStep ==
  ASSUME IInv, NEW c \in Callers, CancelWaiting(c)
  PROVE  IInv'
<1>0. PICK n \in DOMAIN queue :
        /\ queue[n] = c
        /\ queue' \in Seq(Callers)
        /\ Len(queue') = Len(queue) - 1
        /\ \A i \in 1 .. Len(queue) - 1 :
             queue'[i] = IF i < n THEN queue[i] ELSE queue[i + 1]
        /\ Len(queue) \in Nat
        /\ DOMAIN queue = 1 .. Len(queue)
        /\ DOMAIN queue' = 1 .. Len(queue')
  <2>1. PICK n \in DOMAIN queue : queue[n] = c /\ queue' = RemoveAt(queue, n)
    BY DEF CancelWaiting
  <2>2. queue \in Seq(Callers)
    BY DEF IInv, TypeOK, CallTypeOK
  <2>3. QED
    BY <2>1, <2>2, RemoveAtFacts, LenProperties
<1>1. TypeOK'
  <2>1. CallTypeOK'
    BY <1>0 DEF IInv, TypeOK, CallTypeOK, Places, CancelWaiting, histVars
  <2>2. FlagTypeOK'
    BY DEF IInv, TypeOK, FlagTypeOK, CancelWaiting, histVars
  <2>3. QED
    BY <2>1, <2>2 DEF TypeOK
<1>2. LockInv'
  BY <1>0 DEF IInv, CancelWaiting, LockInv, Holding
<1>3. QueueInv'
  <2>1. pc' = [pc EXCEPT ![c] = "idle"]
    BY DEF CancelWaiting
  <2>2. \A i \in DOMAIN queue' :
           /\ queue'[i] = queue[IF i < n THEN i ELSE i + 1]
           /\ (IF i < n THEN i ELSE i + 1) \in DOMAIN queue \ {n}
           /\ queue'[i] \in Callers
    BY <1>0, ElementOfSeq
  <2>3. \A i \in DOMAIN queue' : queue'[i] # c
    BY <1>0, <2>2 DEF IInv, QueueInv
  <2>4. \A i \in DOMAIN queue' : pc'[queue'[i]] = "waiting"
    BY <2>1, <2>2, <2>3 DEF IInv, QueueInv
  <2>5. \A i, j \in DOMAIN queue' : queue'[i] = queue'[j] => i = j
    BY <1>0, <2>2 DEF IInv, QueueInv
  <2>6. QED
    BY <2>4, <2>5 DEF QueueInv
<1>4. CallInv'
  BY <1>0 DEF IInv, TypeOK, CallTypeOK, CancelWaiting, histVars, CallInv
<1>5. AttemptInv'
  BY <1>0 DEF IInv, CancelWaiting, histVars, AttemptInv, Holding
<1>6. OutcomeInv'
  BY <1>0 DEF IInv, CancelWaiting, histVars, OutcomeInv
<1>7. LinkInv'
  BY <1>0 DEF IInv, CancelWaiting, LinkInv
<1>8. ConnectivityTruthful'
  <2>1. ~ sessionOpen[c]
    BY DEF IInv, CallInv, CancelWaiting
  <2>2. \A d \in Callers : d # c => coordinator'[d] = coordinator[d]
    BY DEF IInv, CancelWaiting
  <2>3. UNCHANGED <<sessionOpen, connectivity, interrupted>>
    BY DEF CancelWaiting, histVars
  <2>4. QED
    BY <2>1, <2>2, <2>3 DEF IInv, ConnectivityTruthful
<1>9. AnswerFaithful'
  BY <1>0 DEF IInv, CancelWaiting, histVars, AnswerFaithful
<1>10. QED
  BY <1>1, <1>2, <1>3, <1>4, <1>5, <1>6, <1>7, <1>8, <1>9 DEF IInv

(* A cancellation inside the try block only changes the way out.           *)
LEMMA CancelAttemptStep ==
  ASSUME IInv, NEW c \in Callers, CancelAttempt(c)
  PROVE  IInv'
<1>0. Holding(c)
  BY DEF CancelAttempt, Holding
<1>1. TypeOK'
  <2>1. CallTypeOK'
    BY DEF IInv, TypeOK, CallTypeOK, Places, Answers, CancelAttempt, Unwind,
       lockVars, histVars
  <2>2. FlagTypeOK'
    BY DEF IInv, TypeOK, FlagTypeOK, CancelAttempt, histVars
  <2>3. QED
    BY <2>1, <2>2 DEF TypeOK
<1>2. LockInv'
  BY DEF IInv, CancelAttempt, Unwind, lockVars, LockInv, Holding
<1>3. QueueInv'
  BY <1>0 DEF IInv, CancelAttempt, Unwind, lockVars, QueueInv
<1>4. CallInv'
  BY <1>0 DEF IInv, TypeOK, CallTypeOK, CancelAttempt, Unwind, histVars,
     CallInv
<1>5. AttemptInv'
  BY <1>0 DEF IInv, CancelAttempt, Unwind, histVars, AttemptInv, Holding
<1>6. OutcomeInv'
  BY <1>0 DEF IInv, CancelAttempt, Unwind, histVars, OutcomeInv
<1>7. LinkInv'
  BY <1>0 DEF IInv, CancelAttempt, Unwind, LinkInv
<1>8. ConnectivityTruthful'
  BY <1>0 DEF IInv, CancelAttempt, histVars, ConnectivityTruthful
<1>9. AnswerFaithful'
  BY <1>0 DEF IInv, CancelAttempt, Unwind, histVars, AnswerFaithful,
     OutcomeInv, CallInv
<1>10. QED
  BY <1>1, <1>2, <1>3, <1>4, <1>5, <1>6, <1>7, <1>8, <1>9 DEF IInv

(* The flag stays up, which is what interrupted records.                   *)
LEMMA CancelDisconnectStep ==
  ASSUME IInv, NEW c \in Callers, CancelDisconnect(c)
  PROVE  IInv'
<1>0. Holding(c)
  BY DEF CancelDisconnect, Holding
<1>1. TypeOK'
  <2>1. CallTypeOK'
    BY RetriesAssumption DEF IInv, TypeOK, CallTypeOK, Places, Outcomes,
       CancelDisconnect, ComeBack
  <2>2. FlagTypeOK'
    BY DEF IInv, TypeOK, FlagTypeOK, CancelDisconnect, ComeBack
  <2>3. QED
    BY <2>1, <2>2 DEF TypeOK
<1>2. LockInv'
  BY CallersAssumption DEF IInv, TypeOK, CallTypeOK, CancelDisconnect,
     ComeBack, LockInv, Holding
<1>3. QueueInv'
  BY <1>0 DEF IInv, CancelDisconnect, ComeBack, QueueInv
<1>4. CallInv'
  BY <1>0, HolderAlone DEF IInv, TypeOK, CallTypeOK, FlagTypeOK,
     CancelDisconnect, ComeBack, CallInv
<1>5. AttemptInv'
  BY <1>0 DEF IInv, TypeOK, CallTypeOK, CancelDisconnect, ComeBack,
     AttemptInv
<1>6. OutcomeInv'
  BY <1>0 DEF IInv, TypeOK, CallTypeOK, CancelDisconnect, ComeBack,
     OutcomeInv
<1>7. LinkInv'
  <2>1. pc' = [pc EXCEPT ![c] = "idle"]
    BY DEF CancelDisconnect, ComeBack
  <2>2. \A d \in Callers : pc'[d] \in {"idle", "waiting"}
    BY <1>0, <2>1, HolderAlone DEF IInv, TypeOK, CallTypeOK
  <2>3. QED
    BY <2>2 DEF LinkInv
<1>8. ConnectivityTruthful'
  BY <1>0 DEF IInv, TypeOK, FlagTypeOK, CancelDisconnect, ComeBack,
     ConnectivityTruthful, CallInv
<1>9. AnswerFaithful'
  BY <1>0 DEF IInv, TypeOK, CallTypeOK, CancelDisconnect, ComeBack,
     AnswerFaithful
<1>10. QED
  BY <1>1, <1>2, <1>3, <1>4, <1>5, <1>6, <1>7, <1>8, <1>9 DEF IInv

-----------------------------------------------------------------------------
(* The invariant and the properties that follow from it.                   *)

(* The initial states satisfy the invariant.                               *)
LEMMA InitInv == Init => IInv
<1> SUFFICES ASSUME Init PROVE IInv
  OBVIOUS
<1> USE RetriesAssumption, CallersAssumption, AddressAssumption DEF Init
<1>1. TypeOK
  <2>1. CallTypeOK
    BY EmptySeq DEF CallTypeOK, Places, Outcomes
  <2>2. FlagTypeOK
    BY DEF FlagTypeOK
  <2>3. QED
    BY <2>1, <2>2 DEF TypeOK
<1>2. LockInv /\ CallInv /\ AttemptInv /\ OutcomeInv /\ LinkInv
  BY DEF LockInv, CallInv, AttemptInv, OutcomeInv, LinkInv, Holding
<1>3. QueueInv
  BY EmptySeq DEF QueueInv
<1>4. ConnectivityTruthful /\ AnswerFaithful
  BY DEF ConnectivityTruthful, AnswerFaithful
<1>5. QED
  BY <1>1, <1>2, <1>3, <1>4 DEF IInv

(* A step that changes nothing preserves it.                               *)
LEMMA StutterInv == IInv /\ UNCHANGED vars => IInv'
BY DEF IInv, vars, TypeOK, CallTypeOK, FlagTypeOK, LockInv, QueueInv,
   CallInv, AttemptInv, OutcomeInv, LinkInv, ConnectivityTruthful,
   AnswerFaithful, Holding

(* Every step of every task preserves it.                                  *)
LEMMA NextInv == IInv /\ [Next]_vars => IInv'
<1>1. ASSUME IInv, NEW c \in Callers, Progress(c)
      PROVE  IInv'
  BY <1>1, AcquireStep, DeviceMissingStep, DeviceFoundStep, CloseStaleStep,
     ConnectedStep, DialFailedStep, OpEndsStep, BackoffOverStep, FinallyStep
     DEF Progress
<1>2. ASSUME IInv, NEW c \in Callers, Environment(c)
      PROVE  IInv'
  BY <1>2, RequestStep, LinkLostStep, CancelWaitingStep, CancelAttemptStep,
     CancelDisconnectStep DEF Environment
<1>3. QED
  BY <1>1, <1>2, StutterInv DEF Next

(* The inductive invariant holds in every reachable state, for any number  *)
(* of tasks, clocks and attempts.                                          *)
THEOREM Invariance == Spec => []IInv
<1>1. QED
  BY InitInv, NextInv, PTL DEF Spec

(* Every variable of async_execute keeps its type; the loop counter and    *)
(* the number of sessions stay within retry_count.                         *)
THEOREM TypeCorrect == Spec => []TypeOK
<1>1. IInv => TypeOK
  BY DEF IInv
<1>2. QED
  BY <1>1, Invariance, PTL

(* The domain lock admits one task at a time, for any number of entries,   *)
(* clocks, cancellations and reloads.                                      *)
THEOREM Exclusion == Spec => []SessionsExclusive
<1>1. IInv => SessionsExclusive
  BY DEF IInv, LockInv, SessionsExclusive
<1>2. QED
  BY <1>1, Invariance, PTL

(* The connectivity flag of each coordinator tells the truth, except after *)
(* a disconnect that was cancelled.                                        *)
THEOREM Truthful == Spec => []ConnectivityTruthful
<1>1. IInv => ConnectivityTruthful
  BY DEF IInv
<1>2. QED
  BY <1>1, Invariance, PTL

(* An operation never runs beside a left-over connection to its clock.     *)
THEOREM OneLink == Spec => []OneLinkPerClock
<1>1. IInv => OneLinkPerClock
  BY DEF IInv, LinkInv, OneLinkPerClock
<1>2. QED
  BY <1>1, Invariance, PTL

(* What the caller gets is how the last run of its operation ended.        *)
THEOREM Faithful == Spec => []AnswerFaithful
<1>1. IInv => AnswerFaithful
  BY DEF IInv
<1>2. QED
  BY <1>1, Invariance, PTL

(* A write the clock has answered is not sent again by the retry loop.     *)
THEOREM NoRewrite == Spec => NoRewriteAfterAnswer
<1>1. IInv => [\A c \in Callers :
                 pc[c] = "dialing" /\ pc'[c] = "op" =>
                     outcome[c] \in {"none", "error"}]_vars
  BY DEF IInv, OutcomeInv
<1>2. QED
  BY <1>1, Invariance, PTL DEF NoRewriteAfterAnswer

-----------------------------------------------------------------------------
(* The number of steps of a call.                                          *)

(* A step of a task leaves the others where they are.                      *)
LEMMA OthersStand ==
  ASSUME IInv, NEW c \in Callers, NEW d \in Callers, c # d,
         Progress(d) \/ Environment(d)
  PROVE  pc'[c] = pc[c]
<1>1. \A p : pc' = [pc EXCEPT ![d] = p] => pc'[c] = pc[c]
  BY DEF IInv, TypeOK, CallTypeOK
<1>2. CASE Progress(d)
  BY <1>1, <1>2 DEF Progress, Acquire, DeviceMissing, DeviceFound, CloseStale,
     Connected, DialFailed, OpEnds, BackoffOver, Disconnect,
     NothingToDisconnect, EndAttempt, NextAttempt, ComeBack, Transient, Unwind
<1>3. CASE Environment(d)
  BY <1>1, <1>3 DEF Environment, Request, LinkLost, CancelWaiting,
     CancelAttempt, CancelDisconnect, ComeBack, Unwind
<1>4. QED
  BY <1>2, <1>3

(* The places of an attempt, from its last to its first.                   *)
LEMMA Stages ==
  /\ StepsFrom["finally"] = 1 /\ StepsFrom["backoff"] = 2
  /\ StepsFrom["op"] = 3 /\ StepsFrom["dialing"] = 4
  /\ StepsFrom["stale"] = 5 /\ StepsFrom["lookup"] = 6
BY DEF StepsFrom

(* Within an attempt the places follow each other.                         *)
LEMMA PlacesRunDown ==
  ASSUME IInv, NEW c \in Callers, Holding(c), attempt' = attempt,
         NEW p \in {"stale", "dialing", "op", "backoff", "finally"},
         pc' = [pc EXCEPT ![c] = p], StepsFrom[p] < StepsFrom[pc[c]]
  PROVE  StepsLeft(c)' \in 0 .. StepsLeft(c) - 1
<1>1. attempt[c] \in 0 .. MaxRetries /\ pc[c] \in Places \ {"idle", "waiting"}
  BY DEF IInv, TypeOK, CallTypeOK, Holding
<1>2. pc'[c] = p
  BY DEF IInv, TypeOK, CallTypeOK
<1>3. StepsFrom[p] \in Nat /\ StepsFrom[pc[c]] \in Nat
  BY <1>1 DEF StepsFrom, Places
<1>4. /\ StepsLeft(c) = 6 * (MaxRetries - attempt[c]) + StepsFrom[pc[c]]
      /\ StepsLeft(c)' = 6 * (MaxRetries - attempt[c]) + StepsFrom[p]
  BY <1>1, <1>2 DEF StepsLeft
<1>5. QED
  BY <1>1, <1>3, <1>4, RetriesAssumption

(* A call that comes back has no steps left, and had one.                  *)
LEMMA ReturnRunsDown ==
  ASSUME IInv, NEW c \in Callers, pc[c] # "idle", pc' = [pc EXCEPT ![c] = "idle"]
  PROVE  StepsLeft(c)' \in 0 .. StepsLeft(c) - 1
<1>1. attempt[c] \in 0 .. MaxRetries /\ pc[c] \in Places \ {"idle"}
  BY DEF IInv, TypeOK, CallTypeOK
<1>2. StepsLeft(c)' = 0
  BY DEF StepsLeft, IInv, TypeOK, CallTypeOK
<1>3. StepsLeft(c) \in Nat \ {0}
  <2>1. CASE pc[c] = "waiting"
    BY <2>1, RetriesAssumption DEF StepsLeft
  <2>2. CASE pc[c] # "waiting"
    <3>1. StepsFrom[pc[c]] \in Nat \ {0}
      BY <1>1, <2>2 DEF StepsFrom, Places
    <3>2. StepsLeft(c) = 6 * (MaxRetries - attempt[c]) + StepsFrom[pc[c]]
      BY <1>1, <2>2 DEF StepsLeft
    <3>3. QED
      BY <1>1, <3>1, <3>2, RetriesAssumption
  <2>3. QED
    BY <2>1, <2>2
<1>4. QED
  BY <1>2, <1>3

(* The end of an attempt is followed by the next one, which is counted, or *)
(* by the return.                                                          *)
LEMMA FinallyRunsDown ==
  ASSUME IInv, NEW c \in Callers, pc[c] = "finally", EndAttempt(c)
  PROVE  StepsLeft(c)' \in 0 .. StepsLeft(c) - 1
<1>1. CASE exit[c] = "retry"
  <2>1. /\ attempt[c] \in 0 .. MaxRetries /\ attempt[c] < MaxRetries
        /\ attempt'[c] = attempt[c] + 1 /\ pc'[c] = "lookup"
    BY <1>1 DEF IInv, TypeOK, CallTypeOK, AttemptInv, EndAttempt, NextAttempt
  <2>2. /\ StepsLeft(c) = 6 * (MaxRetries - attempt[c]) + 1
        /\ StepsLeft(c)' = 6 * (MaxRetries - (attempt[c] + 1)) + 6
    BY <2>1 DEF StepsLeft, StepsFrom
  <2>3. QED
    BY <2>1, <2>2, RetriesAssumption
<1>2. CASE exit[c] # "retry"
  BY <1>2, ReturnRunsDown DEF EndAttempt, ComeBack
<1>3. QED
  BY <1>1, <1>2

(* Each step of a task that moves it brings it nearer to its return.       *)
LEMMA StepRunsDown ==
  ASSUME IInv, NEW c \in Callers, Progress(c) \/ Environment(c),
         pc[c] # "idle", pc'[c] # pc[c]
  PROVE  StepsLeft(c)' \in 0 .. StepsLeft(c) - 1
<1>1. CASE Acquire(c)
  <2>1. pc[c] = "waiting"
    <3>1. 1 \in DOMAIN queue /\ queue[1] = c
      BY <1>1 DEF IInv, TypeOK, CallTypeOK, Acquire
    <3>2. QED
      BY <3>1 DEF IInv, QueueInv
  <2>2. pc'[c] = "lookup" /\ attempt'[c] = 1
    BY <1>1 DEF IInv, TypeOK, CallTypeOK, Acquire
  <2>3. /\ StepsLeft(c) = 6 * MaxRetries + 1
        /\ StepsLeft(c)' = 6 * (MaxRetries - 1) + 6
    BY <2>1, <2>2 DEF StepsLeft, StepsFrom
  <2>4. QED
    BY <2>3, RetriesAssumption
<1>2. CASE DeviceMissing(c) \/ DeviceFound(c)
  <2>1. pc[c] = "lookup" /\ attempt' = attempt
    BY <1>2 DEF DeviceMissing, DeviceFound, callVars
  <2>2. PICK p \in {"stale", "finally"} : pc' = [pc EXCEPT ![c] = p]
    BY <1>2 DEF DeviceMissing, DeviceFound, Unwind
  <2>3. Holding(c) /\ StepsFrom[p] < StepsFrom[pc[c]]
    BY <2>1, Stages DEF Holding
  <2>4. QED
    BY <2>1, <2>2, <2>3, PlacesRunDown
<1>3. CASE CloseStale(c)
  <2>1. pc[c] = "stale" /\ attempt' = attempt /\ pc' = [pc EXCEPT ![c] = "dialing"]
    BY <1>3 DEF CloseStale, callVars
  <2>2. Holding(c) /\ StepsFrom["dialing"] < StepsFrom[pc[c]]
    BY <2>1, Stages DEF Holding
  <2>3. QED
    BY <2>1, <2>2, PlacesRunDown
<1>4. CASE Connected(c)
  <2>1. pc[c] = "dialing" /\ attempt' = attempt /\ pc' = [pc EXCEPT ![c] = "op"]
    BY <1>4 DEF Connected
  <2>2. Holding(c) /\ StepsFrom["op"] < StepsFrom[pc[c]]
    BY <2>1, Stages DEF Holding
  <2>3. QED
    BY <2>1, <2>2, PlacesRunDown
<1>5. CASE DialFailed(c) \/ \E o \in Outcomes \ {"none"} : OpEnds(c, o)
  <2>1. pc[c] \in {"stale", "dialing", "op"} /\ attempt' = attempt
    BY <1>5 DEF DialFailed, OpEnds
  <2>2. PICK p \in {"backoff", "finally"} : pc' = [pc EXCEPT ![c] = p]
    BY <1>5 DEF DialFailed, OpEnds, Transient, Unwind
  <2>3. Holding(c) /\ StepsFrom[p] < StepsFrom[pc[c]]
    BY <2>1, Stages DEF Holding
  <2>4. QED
    BY <2>1, <2>2, <2>3, PlacesRunDown
<1>6. CASE BackoffOver(c) \/ CancelAttempt(c)
  <2>1. pc[c] \in {"stale", "dialing", "op", "backoff"} /\ attempt' = attempt
    BY <1>6 DEF BackoffOver, CancelAttempt
  <2>2. pc' = [pc EXCEPT ![c] = "finally"]
    BY <1>6 DEF BackoffOver, CancelAttempt, Unwind
  <2>3. Holding(c) /\ StepsFrom["finally"] < StepsFrom[pc[c]]
    BY <2>1, Stages DEF Holding
  <2>4. QED
    BY <2>1, <2>2, <2>3, PlacesRunDown
<1>7. CASE Disconnect(c) \/ NothingToDisconnect(c)
  BY <1>7, FinallyRunsDown DEF Disconnect, NothingToDisconnect
<1>8. CASE CancelWaiting(c) \/ CancelDisconnect(c)
  BY <1>8, ReturnRunsDown DEF CancelWaiting, CancelDisconnect, ComeBack
<1>9. CASE (\E k \in LoadsFor[c] : Request(c, k)) \/ LinkLost(c)
  BY <1>9 DEF Request, LinkLost
<1>10. QED
  BY <1>1, <1>2, <1>3, <1>4, <1>5, <1>6, <1>7, <1>8, <1>9 DEF Progress,
     Environment

(* A call comes back after a bounded number of steps of its own.           *)
THEOREM RunDown == Spec => CallsRunDown
<1>1. IInv /\ [Next]_vars =>
        [\A c \in Callers :
           pc[c] # "idle" /\ pc'[c] # pc[c] =>
               StepsLeft(c)' \in 0 .. StepsLeft(c) - 1]_vars
  <2> SUFFICES ASSUME IInv, Next, NEW c \in Callers, pc[c] # "idle", pc'[c] # pc[c]
               PROVE  StepsLeft(c)' \in 0 .. StepsLeft(c) - 1
    OBVIOUS
  <2>1. PICK d \in Callers : Progress(d) \/ Environment(d)
    BY DEF Next
  <2>2. c = d
    BY <2>1, OthersStand
  <2>3. QED
    BY <2>1, <2>2, StepRunsDown
<1>2. QED
  BY <1>1, Invariance, PTL DEF Spec, CallsRunDown

-----------------------------------------------------------------------------
(* Implementation of BleAccess.                                            *)

(* The refinement mapping names the one task with a session, or Nobody.    *)
LEMMA SessionFacts ==
  ASSUME IInv
  PROVE  /\ \A c \in Callers : sessionOpen[c] => CurrentSession = c
         /\ (\A c \in Callers : ~ sessionOpen[c]) => CurrentSession = Nobody
<1>1. \A c, d \in Callers : sessionOpen[c] /\ sessionOpen[d] => c = d
  BY DEF IInv, LockInv, CallInv, Holding
<1>2. QED
  BY <1>1 DEF CurrentSession

(* The same in the next state.                                             *)
LEMMA SessionFactsNext ==
  ASSUME IInv'
  PROVE  /\ \A c \in Callers : sessionOpen'[c] => CurrentSession' = c
         /\ (\A c \in Callers : ~ sessionOpen'[c]) => CurrentSession' = Nobody
<1>1. \A c, d \in Callers : sessionOpen'[c] /\ sessionOpen'[d] => c = d
  BY DEF IInv, LockInv, CallInv, Holding
<1>2. QED
  BY <1>1 DEF CurrentSession

(* Steps inside an attempt that touch neither the queue nor a session.     *)
LEMMA InsideAttempt ==
  ASSUME UNCHANGED <<queue, lock, opened, sessionOpen>>
  PROVE  UNCHANGED Access!vars
BY DEF Access!vars, CurrentSession

(* The end of an attempt closes the session, and may return the grant.     *)
LEMMA EndAttemptImplements ==
  ASSUME IInv, IInv', NEW c \in Callers, pc[c] = "finally", EndAttempt(c),
         queue' = queue
  PROVE  Access!Next \/ UNCHANGED Access!vars
<1>1. Holding(c) /\ lock = c /\ c # Nobody
  BY HolderAlone, CallersAssumption DEF Holding
<1>2. \A d \in Callers : ~ sessionOpen'[d]
  BY <1>1, HolderAlone DEF EndAttempt, IInv, TypeOK, FlagTypeOK
<1>3. CurrentSession' = Nobody
  BY <1>2, SessionFactsNext
<1>4. \/ UNCHANGED <<lock, opened>>
      \/ lock' = Nobody /\ opened' = 0
  BY DEF EndAttempt, NextAttempt, ComeBack
<1>5. CASE sessionOpen[c]
  <2>1. CurrentSession = c
    BY <1>5, SessionFacts
  <2>2. Access!Close
    BY <1>1, <1>3, <1>4, <2>1 DEF Access!Close
  <2>3. QED
    BY <2>2 DEF Access!Next
<1>6. CASE ~ sessionOpen[c]
  <2>1. CurrentSession = Nobody
    BY <1>1, <1>6, HolderAlone, SessionFacts
  <2>2. CASE UNCHANGED <<lock, opened>>
    BY <1>3, <2>1, <2>2 DEF Access!vars
  <2>3. CASE lock' = Nobody /\ opened' = 0
    BY <1>1, <1>3, <2>1, <2>3 DEF Access!Next, Access!Return
  <2>4. QED
    BY <1>4, <2>2, <2>3
<1>7. QED
  BY <1>5, <1>6

(* Each step of async_execute is a step of BleAccess or changes nothing    *)
(* there.                                                                  *)
LEMMA StepImplements ==
  ASSUME IInv, IInv', [Next]_vars
  PROVE  Access!Next \/ UNCHANGED Access!vars
<1>1. ASSUME NEW c \in Callers, NEW k \in LoadsFor[c], Request(c, k)
      PROVE  Access!Next
  <2>1. c # lock
    BY <1>1 DEF IInv, LockInv, Holding, Request
  <2>2. c \notin ToSet(queue)
    BY <1>1 DEF IInv, QueueInv, ToSet, Request
  <2>3. UNCHANGED <<lock, opened, CurrentSession>>
    BY <1>1 DEF Request, histVars, CurrentSession
  <2>4. Access!Ask(c)
    BY <1>1, <2>1, <2>2, <2>3 DEF Access!Ask, Access!ToSet, ToSet, Request
  <2>5. QED
    BY <2>4 DEF Access!Next
<1>2. ASSUME NEW c \in Callers, Acquire(c)
      PROVE  Access!Next
  <2>1. UNCHANGED CurrentSession
    BY <1>2 DEF Acquire, CurrentSession
  <2>2. Access!Grant
    BY <1>2, <2>1 DEF Access!Grant, Acquire, LockFree
  <2>3. QED
    BY <2>2 DEF Access!Next
<1>3. ASSUME NEW c \in Callers, Connected(c)
      PROVE  Access!Next
  <2>1. Holding(c) /\ lock = c /\ c # Nobody
    BY <1>3, HolderAlone, CallersAssumption DEF Holding, Connected,
       BeginConnection
  <2>2. CurrentSession = Nobody
    <3>1. ~ sessionOpen[c]
      BY <1>3 DEF IInv, CallInv, Connected, BeginConnection
    <3>2. QED
      BY <2>1, <3>1, HolderAlone, SessionFacts
  <2>3. CurrentSession' = c
    <3>1. sessionOpen'[c]
      BY <1>3 DEF IInv, TypeOK, FlagTypeOK, Connected, BeginConnection
    <3>2. QED
      BY <3>1, SessionFactsNext
  <2>4. opened < MaxRetries
    <3>1. opened < attempt[c]
      BY <1>3 DEF IInv, AttemptInv, Connected, BeginConnection
    <3>2. attempt[c] \in 0 .. MaxRetries /\ opened \in 0 .. MaxRetries
      BY DEF IInv, TypeOK, CallTypeOK
    <3>3. QED
      BY <3>1, <3>2, RetriesAssumption
  <2>5. Access!Open
    BY <1>3, <2>1, <2>2, <2>3, <2>4 DEF Access!Open, Connected,
       BeginConnection, lockVars
  <2>6. QED
    BY <2>5 DEF Access!Next
<1>4. ASSUME NEW c \in Callers, Disconnect(c) \/ NothingToDisconnect(c)
      PROVE  Access!Next \/ UNCHANGED Access!vars
  BY <1>4, EndAttemptImplements DEF Disconnect, NothingToDisconnect
<1>5. ASSUME NEW c \in Callers, CancelWaiting(c)
      PROVE  Access!Next
  <2>1. UNCHANGED <<lock, opened, CurrentSession>>
    BY <1>5 DEF CancelWaiting, histVars, CurrentSession
  <2>2. Access!GiveUp(c)
    BY <1>5, <2>1 DEF Access!GiveUp, Access!RemoveAt, RemoveAt, CancelWaiting
  <2>3. QED
    BY <2>2 DEF Access!Next
<1>6. ASSUME NEW c \in Callers, CancelDisconnect(c)
      PROVE  Access!Next
  <2>1. Holding(c) /\ lock = c /\ c # Nobody
    BY <1>6, HolderAlone, CallersAssumption DEF Holding, CancelDisconnect
  <2>2. CurrentSession = c
    BY <1>6, SessionFacts DEF IInv, CallInv, CancelDisconnect
  <2>3. \A d \in Callers : ~ sessionOpen'[d]
    BY <1>6, <2>1, HolderAlone DEF CancelDisconnect, IInv, TypeOK, FlagTypeOK
  <2>4. CurrentSession' = Nobody
    BY <2>3, SessionFactsNext
  <2>5. Access!Close
    BY <1>6, <2>1, <2>2, <2>4 DEF Access!Close, CancelDisconnect, ComeBack
  <2>6. QED
    BY <2>5 DEF Access!Next
<1>7. ASSUME NEW c \in Callers,
             \/ DeviceMissing(c) \/ DeviceFound(c) \/ CloseStale(c)
             \/ DialFailed(c) \/ BackoffOver(c) \/ LinkLost(c)
             \/ CancelAttempt(c)
             \/ \E o \in Outcomes \ {"none"} : OpEnds(c, o)
      PROVE  UNCHANGED Access!vars
  BY <1>7, InsideAttempt DEF DeviceMissing, DeviceFound, CloseStale,
     DialFailed, BackoffOver, LinkLost, CancelAttempt, OpEnds, lockVars,
     callVars, histVars
<1>8. ASSUME UNCHANGED vars
      PROVE  UNCHANGED Access!vars
  BY <1>8, InsideAttempt DEF vars
<1>9. QED
  BY <1>1, <1>2, <1>3, <1>4, <1>5, <1>6, <1>7, <1>8 DEF Next, Progress,
     Environment

(* async_execute implements the safety part of what its callers rely on:   *)
(* grants in the order of the requests, at most retry_count sessions per   *)
(* grant, one at a time.                                                   *)
THEOREM Implementation == Spec => Access!Safety
<1>1. Init => Access!Init
  BY DEF Init, Access!Init, CurrentSession
<1>2. IInv /\ IInv' /\ [Next]_vars => [Access!Next]_(Access!vars)
  BY StepImplements
<1>3. QED
  BY <1>1, <1>2, Invariance, PTL DEF Spec, Access!Safety
=============================================================================
