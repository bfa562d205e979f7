----------------------------- MODULE GattClock -----------------------------
(***************************************************************************)
(* Writing the clock over an open connection: get_time, set_time and       *)
(* set_time_format of device/lywsd02mmc.py, run and retried by             *)
(* async_execute, for a sync and for a change of the 12h/24h display mode. *)
(*                                                                         *)
(* Time is counted in ticks, Sec of them to a second.  The clock shows     *)
(* whole seconds, and each request takes its time to the clock and back,   *)
(* so that both the reading and the aim of a write rest on an estimate of  *)
(* the latency.  A poll that writes the clock passes on the reading it has *)
(* taken with the same ``when``, which are the steps of a sync.            *)
(*                                                                         *)
(* Any request may fail, before or after it reached the clock.  The        *)
(* firmware is an unknown: it may not take the time, and may take, refuse  *)
(* or misread the mode command, which carries a zero epoch.                *)
(***************************************************************************)
EXTENDS Integers

CONSTANTS
    Sec,            \* ticks per second
    MinTrip, MaxTrip, \* how long a request travels, one way
    ModeTimes,      \* how long the mode command takes until it is answered
    Skews,          \* what the clock may be off by when a call begins
    Tolerance,      \* TIME_VERIFY_TOLERANCE
    MaxRetries,     \* retry_count
    Start           \* the true time at a call, well after 1970

ASSUME SecAssumption == Sec \in Nat \ {0} /\ Sec % 2 = 0
ASSUME TripsAssumption == MinTrip \in Nat /\ MaxTrip \in Nat /\ MinTrip <= MaxTrip
ASSUME ModeTimesAssumption == ModeTimes \subseteq Nat
ASSUME SkewsAssumption == Skews \subseteq Int
ASSUME RetriesAssumption == MaxRetries \in Nat \ {0}
ASSUME StartAssumption == Start \in Nat
ASSUME ToleranceAssumption == Tolerance \in Nat

VARIABLES
    firmware,       \* what the clock does with a written time and mode
    error,          \* the clock minus the true time
    now,            \* the true time
    pc,             \* the next request of the attempt
    kind,           \* what is called: set_time or set_time_format
    attempt,        \* of async_execute
    age,            \* how long ago ``when`` was taken when the clock is read
    oneWay,         \* one_way_seconds of the reading
    drift,          \* drift_seconds of the reading
    modeError,      \* the mode command was refused
    outcome,        \* how the attempt ended
    residual,       \* residual_seconds of the result
    wandered        \* history: error at the call

deviceVars == <<firmware, error>>
callVars == <<kind, attempt, wandered>>
readingVars == <<oneWay, drift>>
vars == <<deviceVars, now, pc, callVars, age, readingVars, modeError, outcome,
          residual>>

Firmwares == [time : {"keeps", "ignores"},
              mode : {"takes", "misreads", "refuses"}]

Outcomes == {"none", "ok", "error", "verify", "repair", "unsupported"}

TypeOK ==
    /\ firmware \in Firmwares
    /\ error \in Int
    /\ now \in Nat
    /\ pc \in {"idle", "mode", "read", "write", "verify", "ended", "answered"}
    /\ kind \in {"sync", "format"}
    /\ attempt \in 1 .. MaxRetries
    /\ age \in Nat
    /\ oneWay \in Nat
    /\ drift \in Int
    /\ modeError \in BOOLEAN
    /\ outcome \in Outcomes
    /\ residual \in Int
    /\ wandered \in Int

Init ==
    /\ firmware \in Firmwares
    /\ error \in Skews
    /\ now = Start
    /\ pc = "idle"
    /\ kind = "sync"
    /\ attempt = 1
    /\ age = 0
    /\ oneWay = 0
    /\ drift = 0
    /\ modeError = FALSE
    /\ outcome = "none"
    /\ residual = 0
    /\ wandered = error

-----------------------------------------------------------------------------
(* What is read and computed.                                              *)

Trips == MinTrip .. MaxTrip

EPOCH_MIDPOINT == Sec \div 2

(* The clock answers with a whole second, here in ticks.                   *)
Epoch(at) == ((at + error) \div Sec) * Sec

(* Slip: the second the clock shows is taken for its time.                 *)
MiddleOmitted(at) == Epoch(at)

Middle(at) == Epoch(at) + EPOCH_MIDPOINT

(* What the code takes for the current time, from ``when`` on.             *)
NowTs(at) == at - age

(* Slip: the target is rounded.                                            *)
AimRounded(at) == ((NowTs(at) + oneWay + EPOCH_MIDPOINT) \div Sec) * Sec

(* The first second, in ticks, the write can still reach.                  *)
Aim(at) == ((NowTs(at) + oneWay) \div Sec) * Sec + Sec

(* Slip: the read-back is compared with the time the call began at.        *)
ExpectedAtCall(at) == Start - oneWay

(* Slip: the answer's way back is not accounted for.                       *)
ExpectedLate(at) == NowTs(at)

(* The time the read-back is compared with.                                *)
Expected(at) == NowTs(at) - oneWay

(* Slip: a clock that is slow passes.                                      *)
NotAhead(r) == r <= Tolerance

WithinTolerance(r) == r \in -Tolerance .. Tolerance

(* Slip: one attempt more than retry_count.                                *)
MayRetryOnceMore == attempt <= MaxRetries

MayRetry == attempt < MaxRetries

-----------------------------------------------------------------------------
(* An attempt begins: the connection is open, ``when`` is taken.           *)

FirstRequest(k) == IF k = "format" THEN "mode" ELSE "read"

Call(k) ==
    /\ pc = "idle"
    /\ pc' = FirstRequest(k)
    /\ kind' = k
    /\ wandered' = error
    /\ \E phase \in 0 .. Sec - 1 : now' = now + phase
    /\ UNCHANGED <<deviceVars, attempt, age, readingVars, modeError, outcome,
                   residual>>

(* Slip: a retry works with the ``when`` of the attempt before.            *)
RetryWithOldWhen ==
    /\ pc = "ended" /\ outcome \notin {"ok", "verify"}
    /\ MayRetry
    /\ attempt' = attempt + 1
    /\ \E phase \in 0 .. Sec - 1 :
         /\ now' = now + Sec + phase
         /\ age' = age + Sec + phase
    /\ modeError' = FALSE
    /\ outcome' = "none"
    /\ pc' = FirstRequest(kind)
    /\ UNCHANGED <<deviceVars, kind, readingVars, residual, wandered>>

(* A failed read-back of set_time is not retried, all else is: after a     *)
(* second and the time of a new connection.                                *)
Retry ==
    /\ pc = "ended" /\ outcome \notin {"ok", "verify"}
    /\ MayRetry
    /\ attempt' = attempt + 1
    /\ \E phase \in 0 .. Sec - 1 : now' = now + Sec + phase
    /\ age' = 0
    /\ modeError' = FALSE
    /\ outcome' = "none"
    /\ pc' = FirstRequest(kind)
    /\ UNCHANGED <<deviceVars, kind, readingVars, residual, wandered>>

Answer ==
    /\ pc = "ended"
    /\ outcome \in {"ok", "verify"} \/ ~ MayRetry
    /\ pc' = "answered"
    /\ UNCHANGED <<deviceVars, now, callVars, age, readingVars, modeError,
                   outcome, residual>>

(* Until the next call the clock wanders.  Its time begins at Start again. *)
Wander ==
    /\ pc = "answered"
    /\ pc' = "idle"
    /\ error' \in Skews
    /\ now' = Start
    /\ attempt' = 1
    /\ age' = 0
    /\ oneWay' = 0
    /\ drift' = 0
    /\ modeError' = FALSE
    /\ outcome' = "none"
    /\ residual' = 0
    /\ UNCHANGED <<firmware, kind, wandered>>

-----------------------------------------------------------------------------
(* The mode command.                                                       *)

(* It reached the clock, which may be thrown back to 1970 by it.           *)
ModeReaches(at) ==
    /\ error' = IF firmware.mode = "misreads" THEN -at ELSE error
    /\ UNCHANGED firmware

ModeAccepted ==
    /\ pc = "mode" /\ firmware.mode # "refuses"
    /\ \E d \in ModeTimes :
         /\ ModeReaches(now + d)
         /\ now' = now + d
         /\ age' = age + d
    /\ pc' = "read"
    /\ UNCHANGED <<callVars, readingVars, modeError, outcome, residual>>

(* Slip: a refused mode command ends the attempt.                          *)
ModeRefusedForGood ==
    /\ pc = "mode"
    /\ \E d \in ModeTimes :
         /\ ModeReaches(now + d) \/ UNCHANGED deviceVars
         /\ now' = now + d
         /\ age' = age + d
    /\ modeError' = TRUE
    /\ pc' = "ended"
    /\ outcome' = "unsupported"
    /\ UNCHANGED <<callVars, readingVars, residual>>

(* It raises with the link up: refused by the firmware, or some other      *)
(* failure of this one request.                                            *)
ModeRefused ==
    /\ pc = "mode"
    /\ \E d \in ModeTimes :
         /\ ModeReaches(now + d) \/ UNCHANGED deviceVars
         /\ now' = now + d
         /\ age' = age + d
    /\ modeError' = TRUE
    /\ pc' = "read"
    /\ UNCHANGED <<callVars, readingVars, outcome, residual>>

(* A lost link or a timeout is raised as it is.                            *)
ModeLost ==
    /\ pc = "mode"
    /\ \E d \in ModeTimes :
         /\ ModeReaches(now + d) \/ UNCHANGED deviceVars
         /\ now' = now + d
    /\ pc' = "ended"
    /\ outcome' = "error"
    /\ UNCHANGED <<callVars, age, readingVars, modeError, residual>>

-----------------------------------------------------------------------------
(* set_time: read, aim and write, read back.                               *)

(* set_time raises, and set_time_format says what that means.              *)
SetTimeFails(err) ==
    /\ pc' = "ended"
    /\ outcome' = IF kind = "sync" THEN err
                  ELSE IF modeError THEN "error" ELSE "repair"

SetTimeDone ==
    /\ pc' = "ended"
    /\ outcome' = IF modeError THEN "unsupported" ELSE "ok"

ReadClock ==
    /\ pc = "read"
    /\ \E out, back \in Trips :
         /\ (out + back) % 2 = 0
         /\ oneWay' = (out + back) \div 2
         /\ drift' = Middle(now + out) - (NowTs(now) + (out + back) \div 2)
         /\ now' = now + out + back
    /\ pc' = "write"
    /\ UNCHANGED <<deviceVars, callVars, age, modeError, outcome, residual>>

(* The write waits for its cue, one trip ahead of the second it sets.      *)
Wait ==
    LET wait == Aim(now) - oneWay - NowTs(now) IN IF wait > 0 THEN wait ELSE 0

ClockTakes(second, at) ==
    /\ error' = IF firmware.time = "keeps" THEN second - at ELSE error
    /\ UNCHANGED firmware

WriteClock ==
    /\ pc = "write"
    /\ \E out, back \in Trips :
         /\ ClockTakes(Aim(now), now + Wait + out)
         /\ now' = now + Wait + out + back
    /\ pc' = "verify"
    /\ UNCHANGED <<callVars, age, readingVars, modeError, outcome, residual>>

VerifyClock ==
    /\ pc = "verify"
    /\ \E out, back \in Trips :
         LET r == Middle(now + out) - Expected(now + out + back)
         IN  /\ now' = now + out + back
             /\ IF WithinTolerance(r)
                THEN SetTimeDone /\ residual' = r
                ELSE SetTimeFails("verify") /\ UNCHANGED residual
    /\ UNCHANGED <<deviceVars, callVars, age, readingVars, modeError>>

(* A request fails; a write that does may have reached the clock.          *)
RequestFails ==
    /\ pc \in {"read", "write", "verify"}
    /\ \/ UNCHANGED deviceVars
       \/ pc = "write" /\ \E out \in Trips : ClockTakes(Aim(now), now + Wait + out)
    /\ SetTimeFails("error")
    /\ UNCHANGED <<now, callVars, age, readingVars, modeError, residual>>

Next ==
    \/ \E k \in {"sync", "format"} : Call(k)
    \/ Retry
    \/ Answer
    \/ Wander
    \/ ModeAccepted
    \/ ModeRefused
    \/ ModeLost
    \/ ReadClock
    \/ WriteClock
    \/ VerifyClock
    \/ RequestFails

Spec == Init /\ [][Next]_vars

-----------------------------------------------------------------------------
(* Properties.                                                             *)

Between(x, low, high) == low <= x /\ x <= high

(* What latencies differ by at most.                                       *)
Spread == MaxTrip - MinTrip

Written == outcome \in {"ok", "unsupported"}

(* "What is left is the error in the latency estimate rather than a        *)
(* guaranteed half second": a clock that takes the time is off by no more, *)
(* and by the age of ``when`` at the reading, and so is not left in 1970,  *)
(* not even where the mode command was refused or misread.                 *)
Aimed ==
    Written /\ firmware.time = "keeps" =>
        Between(error + age, -Spread, Spread)

(* Whatever the firmware, a write is only taken for done if the clock is   *)
(* right within the tolerance, and what reading it back cannot tell.       *)
WrittenIsRight ==
    LET bound == Tolerance + EPOCH_MIDPOINT + Spread
    IN  Written => Between(error + age, -bound, bound)

(* How old ``when`` is at the write: as old as the command before it.      *)
WhenAges == IF kind = "sync" THEN {0} ELSE ModeTimes

(* However many attempts fail and wherever they do, a call leaves the      *)
(* clock's time as it found it or right, up to the age of ``when``: no     *)
(* failure has a time to undo.  (The offset byte beside it may have been   *)
(* written by an attempt that failed, as in ClockCheck.)  Only a mode      *)
(* command that is misread, and never repaired, leaves the time wrong.     *)
LeftAloneOrRight ==
    pc # "idle" /\ (kind = "sync" \/ firmware.mode # "misreads") =>
        \/ error = wandered
        \/ /\ firmware.time = "keeps"
           /\ \E d \in WhenAges : Between(error + d, -Spread, Spread)

(* A read-back fails only on firmware that does not take the time, as long *)
(* as latencies do not differ by more than the tolerance allows for.       *)
MismatchDeserved ==
    outcome = "verify" => firmware.time = "ignores"

(* The drift noted after a sync whose first attempt succeeded is what the  *)
(* clock was off by, up to half a second and the latency estimate: it is   *)
(* not biased by the link.                                                 *)
DriftMeasured ==
    outcome = "ok" /\ kind = "sync" /\ attempt = 1 =>
        Between(2 * (drift - wandered), -(Sec + Spread), Sec + Spread)

(* The residual noted after a sync, which the drift sensor shows until the *)
(* next reading, is "measured rather than assumed".                        *)
ResidualMeasured ==
    LET bound == EPOCH_MIDPOINT + Spread
    IN  outcome = "ok" => Between(residual - (error + age), -bound, bound)
=============================================================================
