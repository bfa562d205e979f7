------------------------------ MODULE Schedule ------------------------------
(***************************************************************************)
(* The arithmetic of options and schedule (const.py, note_sync, and the    *)
(* migration of 0.1.x options).  Times are whole seconds, rates whole      *)
(* millionths of a second per day, below which const.py takes one for      *)
(* zero; fractions are rounded down where the code has floats.             *)
(***************************************************************************)
EXTENDS Integers

CONSTANT
    None            \* an absent value, or one that is no number

ASSUME NoneIsNoNumber == None \notin Int

Day == 86400
Unit == 1000000     \* of a rate, in a second per day

Clamp(low, high, x) == IF x < low THEN low ELSE IF x > high THEN high ELSE x

Magnitude(x) == IF x < 0 THEN -x ELSE x

-----------------------------------------------------------------------------
(* Options (const.py).                                                     *)

MinScanInterval == 2
MaxScanInterval == 60
DefaultScanInterval == 30

scan_interval_minutes(raw) ==
    IF raw = None THEN DefaultScanInterval
                  ELSE Clamp(MinScanInterval, MaxScanInterval, raw)

FixedChoices == {"1", "7", "30", "90", "180"}
AutoSyncChoices == {"0", "auto"} \cup FixedChoices

DaysOf(choice) ==
    CASE choice = "1" -> 1 [] choice = "7" -> 7 [] choice = "30" -> 30
      [] choice = "90" -> 90 [] choice = "180" -> 180

(* Slip: the default is forgotten.                                         *)
ChoiceAsStored(raw) == raw

auto_sync_choice(raw) == IF raw \in AutoSyncChoices THEN raw ELSE "auto"

MinTolerance == 10
MaxTolerance == 3600
DefaultTolerance == 60

auto_sync_tolerance(raw) ==
    Clamp(MinTolerance, MaxTolerance, IF raw = None THEN DefaultTolerance ELSE raw)

-----------------------------------------------------------------------------
(* The interval (auto_sync_interval_days, in seconds).                     *)

MinInterval == Day
BootstrapInterval == 7 * Day
MaxInterval == 180 * Day

(* The time after which a clock of this rate is off by the tolerance.      *)
AdaptiveInterval(rate, tolerance) ==
    IF rate = 0 THEN MaxInterval
    ELSE (tolerance * Unit * Day) \div Magnitude(rate)

auto_sync_interval(choice, rate, tolerance) ==
    Clamp(MinInterval, MaxInterval,
          CASE choice = "0" -> 0
            [] choice \in FixedChoices -> DaysOf(choice) * Day
            [] choice = "auto" /\ rate # None -> AdaptiveInterval(rate, tolerance)
            [] OTHER -> BootstrapInterval)

-----------------------------------------------------------------------------
(* The delays of a sync that is overdue or has failed.                     *)

StartupSyncDelay == 60
AutoSyncRetryBase == 1800
AutoSyncRetryMax == 21600

-----------------------------------------------------------------------------
(* The drift rate (note_sync).                                             *)

MinSample == Day \div 2
FullWeight == 7 * Day

SampleRate(drift, elapsed) == (drift * Unit * Day) \div elapsed

(* Weighted by its duration, at most a half.                               *)
Blend(known, rate, elapsed) ==
    known + ((rate - known) * Clamp(0, FullWeight, elapsed)) \div (2 * FullWeight)

(* elapsed is None before the first sync.                                  *)
NewRate(known, drift, elapsed) ==
    IF elapsed = None \/ elapsed < MinSample THEN known
    ELSE IF known = None THEN SampleRate(drift, elapsed)
    ELSE Blend(known, SampleRate(drift, elapsed), elapsed)

-----------------------------------------------------------------------------
(* The migration of 0.1.x options.                                         *)

(* Half-way cases go to the even day.                                      *)
RoundedDays(hours) ==
    LET days == hours \div 24
        rest == hours % 24
    IN IF rest > 12 \/ (rest = 12 /\ days % 2 = 1) THEN days + 1 ELSE days

Distance(days, c) == Magnitude(DaysOf(c) - days)

(* Of two as close, the first in the list.                                 *)
Nearest(days, c) == \A d \in FixedChoices :
    \/ Distance(days, c) < Distance(days, d)
    \/ Distance(days, c) = Distance(days, d) /\ DaysOf(c) <= DaysOf(d)

(* Slip: the default of 0.2 for an option 0.1.x did not store.             *)
FromV1HoursByDefault(hours) ==
    IF hours = None THEN "auto" ELSE IF hours <= 0 THEN "0" ELSE "1"

auto_sync_from_v1_hours(hours) ==
    IF hours = None \/ hours <= 0 THEN "0"
    ELSE LET rounded == RoundedDays(hours)
             days == IF rounded < 1 THEN 1 ELSE rounded
         IN CHOOSE c \in FixedChoices : Nearest(days, c)

(* Below two minutes the stored value is taken for minutes.                *)
MigratedScanInterval(seconds) ==
    IF seconds = None THEN None
    ELSE Clamp(MinScanInterval, MaxScanInterval,
               IF seconds >= 120 THEN seconds \div 60 ELSE seconds)
=============================================================================
