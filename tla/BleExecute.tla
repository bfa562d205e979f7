----------------------------- MODULE BleExecute -----------------------------
(***************************************************************************)
(* async_execute (__init__.py), the only way the integration reaches a     *)
(* clock over Bluetooth: take the lock shared by every config entry, then  *)
(* up to retry_count times look the device up, drop a stale connection,    *)
(* connect, run the caller's operation and disconnect.                     *)
(*                                                                         *)
(* One step ends at each await of the code, where the event loop may run   *)
(* another task or deliver a cancellation.  A caller keeps the coordinator *)
(* it read on entry (entry.runtime_data), also when the entry is reloaded  *)
(* while the caller waits: two coordinators can have the same address.     *)
(***************************************************************************)
EXTENDS Naturals, Sequences, SequencesExt

CONSTANTS
    Callers,        \* tasks: polls, button, selects, services, auto-sync
    Quiet,          \* those that pass wrap_errors=False
    Coordinators,   \* coordinator objects, of every entry and every load
    LoadsFor,       \* the coordinators of the entry each task works for
    Addresses,      \* Bluetooth addresses of the clocks
    AddressOf,      \* the address of each coordinator
    MaxRetries,     \* the retry_count option
    Nobody          \* holder of a free lock, coordinator of an idle task

ASSUME CallersAssumption == Quiet \subseteq Callers /\ Nobody \notin Callers
ASSUME AddressAssumption ==
    /\ Nobody \notin Coordinators
    /\ LoadsFor \in [Callers -> SUBSET Coordinators]
    /\ AddressOf \in [Coordinators -> Addresses]
ASSUME RetriesAssumption == MaxRetries \in Nat \ {0}

VARIABLES
    lock,           \* holder of hass.data[DOMAIN][LOCK]
    queue,          \* tasks waiting for it; asyncio.Lock is first in first out
    pc,             \* where each task is
    coordinator,    \* the coordinator a task captured on entry
    attempt,        \* the loop counter
    client,         \* the local client: not connected, connected, link lost
    sessionOpen,    \* the local session_open
    exit,           \* what the try block ended with, while finally runs
    connectivity,   \* coordinator.connectivity.data (and its ticker)
    stale,          \* addresses with a connection nobody uses any more
    outcome,        \* history: how the last operation of this call ended
    opened,         \* history: sessions opened by the lock's holder
    interrupted     \* history: last disconnect of a coordinator was cancelled

lockVars == <<lock, queue>>
callVars == <<coordinator, attempt, client, sessionOpen, exit>>
histVars == <<outcome, opened, interrupted>>
vars == <<lock, queue, pc, coordinator, attempt, client, sessionOpen, exit,
          connectivity, stale, outcome, opened, interrupted>>

Places == {"idle", "waiting", "lookup", "stale", "dialing", "op", "backoff",
           "finally"}
Outcomes == {"none", "ok", "verify", "ha", "error"}
Answers == {"ok", "verify", "ha", "raw", "wrapped", "cancelled"}

CallTypeOK ==
    /\ lock \in Callers \cup {Nobody}
    /\ queue \in Seq(Callers)
    /\ pc \in [Callers -> Places]
    /\ coordinator \in [Callers -> Coordinators \cup {Nobody}]
    /\ attempt \in [Callers -> 0 .. MaxRetries]
    /\ client \in [Callers -> {"none", "up", "down"}]
    /\ exit \in [Callers -> Answers \cup {"none", "retry"}]
    /\ outcome \in [Callers -> Outcomes]
    /\ opened \in 0 .. MaxRetries

FlagTypeOK ==
    /\ sessionOpen \in [Callers -> BOOLEAN]
    /\ connectivity \in [Coordinators -> BOOLEAN]
    /\ stale \in [Addresses -> BOOLEAN]
    /\ interrupted \in [Coordinators -> BOOLEAN]

TypeOK == CallTypeOK /\ FlagTypeOK

(* The connection flag starts FALSE; BlueZ may still hold a connection from *)
(* before Home Assistant restarted.                                         *)
Init ==
    /\ lock = Nobody
    /\ queue = << >>
    /\ pc = [c \in Callers |-> "idle"]
    /\ coordinator = [c \in Callers |-> Nobody]
    /\ attempt = [c \in Callers |-> 0]
    /\ client = [c \in Callers |-> "none"]
    /\ sessionOpen = [c \in Callers |-> FALSE]
    /\ exit = [c \in Callers |-> "none"]
    /\ connectivity = [k \in Coordinators |-> FALSE]
    /\ stale \in [Addresses -> BOOLEAN]
    /\ outcome = [c \in Callers |-> "none"]
    /\ opened = 0
    /\ interrupted = [k \in Coordinators |-> FALSE]

-----------------------------------------------------------------------------
(* Entering: the coordinator is read before the lock is asked for.         *)

Request(c, k) ==
    /\ pc[c] = "idle"
    /\ pc' = [pc EXCEPT ![c] = "waiting"]
    /\ coordinator' = [coordinator EXCEPT ![c] = k]
    /\ queue' = Append(queue, c)
    /\ UNCHANGED <<lock, attempt, client, sessionOpen, exit, connectivity,
                   stale, histVars>>

(* Slip: a lock per coordinator instead of one for the domain.             *)
LockFreePerCoordinator(c) ==
    IF lock = Nobody THEN TRUE ELSE coordinator[lock] # coordinator[c]

LockFree(c) == lock = Nobody

(* Slip: the newest waiter is served first.                                *)
AcquireNewest(c) ==
    /\ LockFree(c)
    /\ queue # << >>
    /\ c = Last(queue)
    /\ lock' = c
    /\ queue' = Front(queue)
    /\ pc' = [pc EXCEPT ![c] = "lookup"]
    /\ attempt' = [attempt EXCEPT ![c] = 1]
    /\ opened' = 0
    /\ UNCHANGED <<coordinator, client, sessionOpen, exit, connectivity,
                   stale, outcome, interrupted>>

Acquire(c) ==
    /\ LockFree(c)
    /\ queue # << >>
    /\ c = Head(queue)
    /\ lock' = c
    /\ queue' = Tail(queue)
    /\ pc' = [pc EXCEPT ![c] = "lookup"]
    /\ attempt' = [attempt EXCEPT ![c] = 1]
    /\ opened' = 0
    /\ UNCHANGED <<coordinator, client, sessionOpen, exit, connectivity,
                   stale, outcome, interrupted>>

-----------------------------------------------------------------------------
(* One attempt.                                                            *)

(* The try block is left with x; the finally block runs next.              *)
Unwind(c, x) ==
    /\ pc' = [pc EXCEPT ![c] = "finally"]
    /\ exit' = [exit EXCEPT ![c] = x]

(* async_ble_device_from_address gives no connectable device: an explicit  *)
(* HomeAssistantError, which is not retried.                               *)
DeviceMissing(c) ==
    /\ pc[c] = "lookup"
    /\ Unwind(c, "ha")
    /\ UNCHANGED <<lockVars, coordinator, attempt, client, sessionOpen,
                   connectivity, stale, histVars>>

DeviceFound(c) ==
    /\ pc[c] = "lookup"
    /\ pc' = [pc EXCEPT ![c] = "stale"]
    /\ UNCHANGED <<lockVars, callVars, connectivity, stale, histVars>>

(* Slip: connect without closing what an earlier session left.             *)
KeepStale(c) ==
    /\ pc[c] = "stale"
    /\ pc' = [pc EXCEPT ![c] = "dialing"]
    /\ UNCHANGED <<lockVars, callVars, connectivity, stale, histVars>>

CloseStale(c) ==
    /\ pc[c] = "stale"
    /\ pc' = [pc EXCEPT ![c] = "dialing"]
    /\ stale' = [stale EXCEPT ![AddressOf[coordinator[c]]] = FALSE]
    /\ UNCHANGED <<lockVars, callVars, connectivity, histVars>>

(* begin_connection and end_connection of a coordinator: the connectivity  *)
(* sensor, and with it the ticker of the connection's duration.            *)
BeginConnection(k) == connectivity' = [connectivity EXCEPT ![k] = TRUE]

EndConnection(k) == connectivity' = [connectivity EXCEPT ![k] = FALSE]

(* establish_connection succeeds.                                          *)
Connected(c) ==
    /\ pc[c] = "dialing"
    /\ pc' = [pc EXCEPT ![c] = "op"]
    /\ client' = [client EXCEPT ![c] = "up"]
    /\ sessionOpen' = [sessionOpen EXCEPT ![c] = TRUE]
    /\ BeginConnection(coordinator[c])
    /\ interrupted' = [interrupted EXCEPT ![coordinator[c]] = FALSE]
    /\ opened' = opened + 1
    /\ UNCHANGED <<lockVars, coordinator, attempt, exit, stale, outcome>>

(* Slip: one attempt too many.                                             *)
MayRetryOnceMore(c) == attempt[c] <= MaxRetries

MayRetry(c) == attempt[c] < MaxRetries

(* Slip: running out of attempts comes back as if the operation had.       *)
ExhaustedSilently(c) == "ok"

(* What the last failure is raised as.                                     *)
Exhausted(c) == IF c \in Quiet THEN "raw" ELSE "wrapped"

(* Any other exception: sleep before the next attempt, the connection still *)
(* open, or give up after the last one.                                     *)
Transient(c) ==
    IF MayRetry(c)
    THEN pc' = [pc EXCEPT ![c] = "backoff"] /\ UNCHANGED exit
    ELSE Unwind(c, Exhausted(c))

(* close_stale_connections_by_address or establish_connection raises.      *)
DialFailed(c) ==
    /\ pc[c] \in {"stale", "dialing"}
    /\ Transient(c)
    /\ UNCHANGED <<lockVars, coordinator, attempt, client, sessionOpen,
                   connectivity, stale, histVars>>

(* Slip: a failed read-back is retried like a lost link.                   *)
NotRetriedButVerify == {"ok", "ha"}

(* The operation returned, failed its read-back (LywsdVerifyError) or      *)
(* raised HomeAssistantError itself.                                       *)
NotRetried == {"ok", "verify", "ha"}

OpEnds(c, o) ==
    /\ pc[c] = "op"
    /\ IF o \in NotRetried THEN Unwind(c, o) ELSE Transient(c)
    /\ outcome' = [outcome EXCEPT ![c] = o]
    /\ UNCHANGED <<lockVars, coordinator, attempt, client, sessionOpen,
                   connectivity, stale, opened, interrupted>>

(* The clock or the proxy drops the link; client.is_connected tells.       *)
LinkLost(c) ==
    /\ client[c] = "up"
    /\ client' = [client EXCEPT ![c] = "down"]
    /\ UNCHANGED <<lockVars, pc, coordinator, attempt, sessionOpen, exit,
                   connectivity, stale, histVars>>

BackoffOver(c) ==
    /\ pc[c] = "backoff"
    /\ Unwind(c, "retry")
    /\ UNCHANGED <<lockVars, coordinator, attempt, client, sessionOpen,
                   connectivity, stale, histVars>>

-----------------------------------------------------------------------------
(* The finally block.                                                      *)

(* Slip: the next attempt is not counted.                                  *)
NextAttemptUncounted(c) ==
    /\ pc' = [pc EXCEPT ![c] = "lookup"]
    /\ UNCHANGED <<lock, coordinator, attempt, outcome, opened>>

NextAttempt(c) ==
    /\ pc' = [pc EXCEPT ![c] = "lookup"]
    /\ attempt' = [attempt EXCEPT ![c] = @ + 1]
    /\ UNCHANGED <<lock, coordinator, outcome, opened>>

ComeBack(c) ==
    /\ pc' = [pc EXCEPT ![c] = "idle"]
    /\ lock' = Nobody
    /\ coordinator' = [coordinator EXCEPT ![c] = Nobody]
    /\ attempt' = [attempt EXCEPT ![c] = 0]
    /\ outcome' = [outcome EXCEPT ![c] = "none"]
    /\ opened' = 0

(* Slip: end_connection only when the call comes back.                     *)
EndsSessionAtReturn(c) == sessionOpen[c] /\ exit[c] # "retry"

EndsSession(c) == sessionOpen[c]

(* After the disconnect: end_connection if a session was open, then the    *)
(* next attempt or back to the caller with the lock released.              *)
EndAttempt(c) ==
    /\ IF EndsSession(c)
       THEN EndConnection(coordinator[c])
       ELSE UNCHANGED connectivity
    /\ client' = [client EXCEPT ![c] = "none"]
    /\ sessionOpen' = [sessionOpen EXCEPT ![c] = FALSE]
    /\ exit' = [exit EXCEPT ![c] = "none"]
    /\ IF exit[c] = "retry" THEN NextAttempt(c) ELSE ComeBack(c)

(* A disconnect that raises is logged and may leave the connection behind. *)
Disconnect(c) ==
    /\ pc[c] = "finally"
    /\ client[c] = "up"
    /\ \E left \in BOOLEAN :
          stale' = [stale EXCEPT ![AddressOf[coordinator[c]]] = left]
    /\ EndAttempt(c)
    /\ UNCHANGED <<queue, interrupted>>

NothingToDisconnect(c) ==
    /\ pc[c] = "finally"
    /\ client[c] # "up"
    /\ EndAttempt(c)
    /\ UNCHANGED <<queue, stale, interrupted>>

-----------------------------------------------------------------------------
(* Cancellation of the calling task, at the await it is suspended in.      *)

CancelWaiting(c) ==
    /\ pc[c] = "waiting"
    /\ pc' = [pc EXCEPT ![c] = "idle"]
    /\ \E i \in DOMAIN queue :
          /\ queue[i] = c
          /\ queue' = RemoveAt(queue, i)
    /\ coordinator' = [coordinator EXCEPT ![c] = Nobody]
    /\ UNCHANGED <<lock, attempt, client, sessionOpen, exit, connectivity,
                   stale, histVars>>

(* CancelledError is not an Exception: no retry, but finally still runs.   *)
CancelAttempt(c) ==
    /\ pc[c] \in {"stale", "dialing", "op", "backoff"}
    /\ Unwind(c, "cancelled")
    /\ UNCHANGED <<lockVars, coordinator, attempt, client, sessionOpen,
                   connectivity, stale, histVars>>

(* Inside "await client.disconnect()" it passes "except Exception" and     *)
(* leaves the finally block before end_connection.                         *)
CancelDisconnect(c) ==
    /\ pc[c] = "finally"
    /\ client[c] = "up"
    /\ stale' = [stale EXCEPT ![AddressOf[coordinator[c]]] = TRUE]
    /\ interrupted' = [interrupted EXCEPT ![coordinator[c]] = TRUE]
    /\ client' = [client EXCEPT ![c] = "none"]
    /\ sessionOpen' = [sessionOpen EXCEPT ![c] = FALSE]
    /\ exit' = [exit EXCEPT ![c] = "none"]
    /\ ComeBack(c)
    /\ UNCHANGED <<queue, connectivity>>

-----------------------------------------------------------------------------

(* What the event loop and the Bluetooth stack owe to a task inside        *)
(* async_execute: every await ends.                                        *)
Progress(c) ==
    \/ Acquire(c)
    \/ DeviceMissing(c)
    \/ DeviceFound(c)
    \/ CloseStale(c)
    \/ Connected(c)
    \/ DialFailed(c)
    \/ \E o \in Outcomes \ {"none"} : OpEnds(c, o)
    \/ BackoffOver(c)
    \/ Disconnect(c)
    \/ NothingToDisconnect(c)

Environment(c) ==
    \/ \E k \in LoadsFor[c] : Request(c, k)
    \/ LinkLost(c)
    \/ CancelWaiting(c)
    \/ CancelAttempt(c)
    \/ CancelDisconnect(c)

Next == \E c \in Callers : Progress(c) \/ Environment(c)

Spec == Init /\ [][Next]_vars

(* A release wakes the first task in the queue; the event loop then runs   *)
(* it, and not only tasks that join and leave the queue.                   *)
Fairness ==
    /\ WF_vars(\E c \in Callers : Acquire(c))
    /\ \A c \in Callers : WF_vars(Progress(c))

FairSpec == Spec /\ Fairness

-----------------------------------------------------------------------------
(* Properties.                                                             *)

Holding(c) == pc[c] \notin {"idle", "waiting"}

(* No two tasks are past the lock at the same time, whichever entry and    *)
(* clock they work for (async_execute: "Acquire domain lock"), also when   *)
(* tasks are cancelled in the queue, in an attempt or in a disconnect.     *)
SessionsExclusive ==
    \A c, d \in Callers : Holding(c) /\ Holding(d) => c = d

(* The connectivity sensor of a coordinator is on exactly while a task has *)
(* a session open on that coordinator, not on another one for the same     *)
(* clock; the one exception is a disconnect cut short by a cancellation.   *)
ConnectivityTruthful ==
    \A k \in Coordinators :
        connectivity[k] <=>
            \/ \E c \in Callers : sessionOpen[c] /\ coordinator[c] = k
            \/ interrupted[k]

(* While an operation runs, its own connection is the only one to that     *)
(* clock, whatever earlier sessions or a restart left behind               *)
(* (close_stale_connections_by_address before every connect).              *)
OneLinkPerClock ==
    \A c \in Callers :
        pc[c] = "op" => ~ stale[AddressOf[coordinator[c]]]

(* A call runs its operation again only after an attempt that failed       *)
(* without an answer: never after the operation returned, raised           *)
(* HomeAssistantError or failed its read-back ("LywsdVerifyError is never  *)
(* retried").                                                              *)
NoRewriteAfterAnswer ==
    [][\A c \in Callers :
         pc[c] = "dialing" /\ pc'[c] = "op" => outcome[c] \in {"none", "error"}]_vars

(* What a call comes back with is success, or a failed read-back, exactly  *)
(* when the last run of its operation ended so, whatever the retries       *)
(* before it did; only a cancellation hides the outcome.                   *)
AnswerFaithful ==
    \A c \in Callers :
        pc[c] = "finally" /\ exit[c] \notin {"retry", "cancelled"} =>
            \A o \in {"ok", "verify"} : exit[c] = o <=> outcome[c] = o

(* Every call that asks for the lock comes back: the lock is first in      *)
(* first out and a holder has a bounded number of attempts.                *)
EveryCallEnds == \A c \in Callers : pc[c] = "waiting" ~> pc[c] = "idle"

(* How many steps an attempt takes from a place on, at most.               *)
StepsFrom == [lookup |-> 6, stale |-> 5, dialing |-> 4, op |-> 3,
              backoff |-> 2, finally |-> 1]

(* And a call, from its place in the queue to its return.                  *)
StepsLeft(c) ==
    IF pc[c] = "idle" THEN 0
    ELSE IF pc[c] = "waiting" THEN 6 * MaxRetries + 1
    ELSE 6 * (MaxRetries - attempt[c]) + StepsFrom[pc[c]]

(* Whatever fails or is cancelled at whichever await, each step brings a   *)
(* call nearer to its return: with the lock it comes back after six steps  *)
(* for each attempt of retry_count, and the lock is not held for longer.   *)
CallsRunDown ==
    [][\A c \in Callers :
         pc[c] # "idle" /\ pc'[c] # pc[c] =>
             StepsLeft(c)' \in 0 .. StepsLeft(c) - 1]_vars

(* "Acquire domain lock, connect, run op, always disconnect": a            *)
(* coordinator nobody has a session on does not say it is connected.       *)
AlwaysDisconnects ==
    \A k \in Coordinators :
        connectivity[k] => \E c \in Callers : sessionOpen[c] /\ coordinator[c] = k

-----------------------------------------------------------------------------
(* Implementation of what the callers rely on.                             *)

CurrentSession ==
    IF \E c \in Callers : sessionOpen[c]
    THEN CHOOSE c \in Callers : sessionOpen[c]
    ELSE Nobody

Access == INSTANCE BleAccess WITH
    line <- queue,
    granted <- lock,
    opened <- opened,
    session <- CurrentSession

(* async_execute grants calls in order, opens at most retry_count sessions *)
(* per call, one after the other, and comes back with none open.           *)
ImplementsAccess == Access!Spec
=============================================================================
