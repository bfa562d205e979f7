--------------------------- MODULE ScheduleProofs ---------------------------
(***************************************************************************)
(* What the arithmetic of Schedule promises, for all rates, tolerances,    *)
(* samples and 0.1.x options.                                              *)
(***************************************************************************)
EXTENDS Schedule, TLAPS

LEMMA Clamped ==
    ASSUME NEW low \in Int, NEW high \in Int, low <= high, NEW x \in Int
    PROVE  /\ Clamp(low, high, x) \in low .. high
           /\ x >= low => Clamp(low, high, x) <= x
           /\ x <= high => Clamp(low, high, x) >= x
BY DEF Clamp

LEMMA MagnitudeNat ==
    ASSUME NEW x \in Int PROVE Magnitude(x) \in Nat /\ (x # 0 => Magnitude(x) > 0)
BY DEF Magnitude

(* Division as the provers know it.                                        *)
LEMMA Quotient ==
    ASSUME NEW a \in Int, NEW b \in Nat \ {0}
    PROVE  /\ (a \div b) \in Int
           /\ (a \div b) * b <= a
           /\ a < ((a \div b) + 1) * b
OBVIOUS

LEMMA QuotientOrder ==
    ASSUME NEW a \in Nat, NEW b \in Nat \ {0}, NEW c \in Nat \ {0}, b <= c
    PROVE  (a \div c) <= (a \div b)
<1> DEFINE p == a \div c
           q == a \div b
<1>1. p \in Int /\ q \in Int /\ p * c <= a /\ a < (q + 1) * b
  BY Quotient
<1>2. p >= 0
  OBVIOUS
<1> HIDE DEF p, q
<1>3. p * b <= p * c
  BY <1>1, <1>2
<1>4. p * b < (q + 1) * b
  BY <1>1, <1>3
<1>5. p < q + 1
  BY <1>1, <1>4
<1>6. p <= q
  BY <1>1, <1>5
<1> QED BY <1>6 DEF p, q

LEMMA AdaptiveType ==
    ASSUME NEW rate \in Int, NEW tolerance \in Nat
    PROVE  AdaptiveInterval(rate, tolerance) \in Nat
<1>1. Unit * Day \in Nat \ {0} /\ MaxInterval \in Nat
  BY DEF Unit, Day, MaxInterval
<1>2. tolerance * Unit * Day \in Nat
  BY DEF Unit, Day
<1>3. CASE rate = 0
  BY <1>1, <1>3 DEF AdaptiveInterval
<1>4. CASE rate # 0
  BY <1>2, <1>4, MagnitudeNat DEF AdaptiveInterval
<1> QED BY <1>3, <1>4
LEMMA ClampedInterval ==
    ASSUME NEW x \in Int
    PROVE  /\ Clamp(MinInterval, MaxInterval, x) \in MinInterval .. MaxInterval
           /\ Clamp(MinInterval, MaxInterval, x) \in Nat
           /\ x >= MinInterval => Clamp(MinInterval, MaxInterval, x) <= x
<1>1. MinInterval \in Nat /\ MaxInterval \in Nat /\ MinInterval <= MaxInterval
  BY DEF MinInterval, MaxInterval, Day
<1>2. /\ Clamp(MinInterval, MaxInterval, x) \in MinInterval .. MaxInterval
      /\ x >= MinInterval => Clamp(MinInterval, MaxInterval, x) <= x
  BY <1>1, Clamped
<1> QED BY <1>1, <1>2

LEMMA FixedType ==
    ASSUME NEW c \in FixedChoices PROVE DaysOf(c) \in 1 .. 180
BY DEF FixedChoices, DaysOf

-----------------------------------------------------------------------------
(* An automatic sync is never more than half a year away, nor more often   *)
(* than daily, whatever option is stored and whatever rate was measured:   *)
(* none, zero, tiny, absurd, of either sign.                               *)
THEOREM IntervalInRange ==
    ASSUME NEW choice, NEW rate \in Int \cup {None}, NEW tolerance \in Nat
    PROVE  auto_sync_interval(choice, rate, tolerance) \in MinInterval .. MaxInterval
<1>1. CASE choice \in FixedChoices
  <2>1. auto_sync_interval(choice, rate, tolerance)
          = Clamp(MinInterval, MaxInterval, DaysOf(choice) * Day)
    BY <1>1 DEF auto_sync_interval, FixedChoices
  <2>2. DaysOf(choice) * Day \in Int
    BY <1>1, FixedType DEF Day
  <2> QED BY <2>1, <2>2, ClampedInterval
<1>2. CASE choice \notin FixedChoices /\ choice = "auto" /\ rate # None
  <2>1. auto_sync_interval(choice, rate, tolerance)
          = Clamp(MinInterval, MaxInterval, AdaptiveInterval(rate, tolerance))
    BY <1>2 DEF auto_sync_interval
  <2>2. AdaptiveInterval(rate, tolerance) \in Int
    BY <1>2, AdaptiveType
  <2> QED BY <2>1, <2>2, ClampedInterval
<1>3. CASE choice = "0"
  <2>1. auto_sync_interval(choice, rate, tolerance)
          = Clamp(MinInterval, MaxInterval, 0)
    BY <1>3 DEF auto_sync_interval, FixedChoices
  <2> QED BY <2>1, ClampedInterval
<1>4. CASE /\ choice \notin FixedChoices /\ choice # "0"
           /\ ~ (choice = "auto" /\ rate # None)
  <2>1. auto_sync_interval(choice, rate, tolerance)
          = Clamp(MinInterval, MaxInterval, BootstrapInterval)
    BY <1>4 DEF auto_sync_interval
  <2>2. BootstrapInterval \in Int
    BY DEF BootstrapInterval, Day
  <2> QED BY <2>1, <2>2, ClampedInterval
<1> QED BY <1>1, <1>2, <1>3, <1>4

(* Whatever the option, the rate and the tolerance, the delays are in the  *)
(* order AutoSync and Timetable assume of theirs: an overdue sync starts   *)
(* no later than a first retry, and the longest retry comes before the     *)
(* next sync would have been due; five failures reach the longest.         *)
THEOREM DelaysFit ==
    ASSUME NEW choice, NEW rate \in Int \cup {None}, NEW tolerance \in Nat
    PROVE  /\ 0 < StartupSyncDelay /\ StartupSyncDelay <= AutoSyncRetryBase
           /\ AutoSyncRetryBase <= AutoSyncRetryMax
           /\ AutoSyncRetryMax < auto_sync_interval(choice, rate, tolerance)
           /\ AutoSyncRetryBase * 16 >= AutoSyncRetryMax
<1>1. AutoSyncRetryMax < MinInterval /\ MinInterval \in Nat
  BY DEF AutoSyncRetryMax, MinInterval, Day
<1>2. auto_sync_interval(choice, rate, tolerance) \in MinInterval .. MaxInterval
  BY IntervalInRange
<1> QED
  BY <1>1, <1>2
  DEF StartupSyncDelay, AutoSyncRetryBase, AutoSyncRetryMax, MaxInterval, Day

LEMMA AutoInterval ==
    ASSUME NEW rate \in Int, NEW tolerance
    PROVE  auto_sync_interval("auto", rate, tolerance) =
             Clamp(MinInterval, MaxInterval, AdaptiveInterval(rate, tolerance))
BY NoneIsNoNumber DEF auto_sync_interval, FixedChoices

(* A clock whose rate allows at least a day between syncs is off by no     *)
(* more than the tolerance when the next automatic sync is due.            *)
THEOREM ToleranceKept ==
    ASSUME NEW rate \in Int, NEW tolerance \in Nat,
           Magnitude(rate) * MinInterval <= tolerance * Unit * Day
    PROVE  Magnitude(rate) * auto_sync_interval("auto", rate, tolerance)
             <= tolerance * Unit * Day
<1> DEFINE m == Magnitude(rate)
           allowed == tolerance * Unit * Day
           days == AdaptiveInterval(rate, tolerance)
           chosen == Clamp(MinInterval, MaxInterval, days)
<1>1. m \in Nat /\ allowed \in Nat /\ days \in Nat /\ MinInterval \in Nat
  <2>1. m \in Nat /\ days \in Nat
    BY MagnitudeNat, AdaptiveType
  <2>2. allowed \in Nat /\ MinInterval \in Nat
    BY DEF Unit, Day, MinInterval
  <2> QED BY <2>1, <2>2
<1>2. chosen \in Nat /\ (days >= MinInterval => chosen <= days)
  BY <1>1, ClampedInterval
<1>3. CASE rate = 0
  <2>1. m = 0 /\ m * chosen = 0
    BY <1>2, <1>3 DEF Magnitude
  <2> QED BY <1>1, <2>1, AutoInterval
<1>4. CASE rate # 0
  <2>1. m > 0 /\ days = allowed \div m
    BY <1>4, MagnitudeNat DEF AdaptiveInterval
  <2> HIDE DEF m, allowed, days, chosen
  <2>2. days * m <= allowed /\ allowed < (days + 1) * m
    BY <1>1, <2>1, Quotient
  <2>3. m * MinInterval <= allowed
    BY DEF m, allowed
  <2>4. MinInterval < days + 1
    BY <1>1, <2>1, <2>2, <2>3
  <2>5. chosen <= days
    BY <1>1, <1>2, <2>4
  <2>6. m * chosen <= m * days
    BY <1>1, <1>2, <2>5
  <2>7. m * chosen <= allowed
    BY <1>1, <1>2, <2>2, <2>6
  <2> QED BY <2>7, AutoInterval DEF m, allowed, days, chosen
<1> QED BY <1>3, <1>4

(* A better clock is never put on a shorter cycle than a worse one, a      *)
(* measured zero included.                                                 *)
THEOREM BetterClockWaitsLonger ==
    ASSUME NEW better \in Int, NEW worse \in Int, NEW tolerance \in Nat,
           Magnitude(better) <= Magnitude(worse)
    PROVE  auto_sync_interval("auto", worse, tolerance)
             <= auto_sync_interval("auto", better, tolerance)
<1>1. AdaptiveInterval(worse, tolerance) \in Int /\ AdaptiveInterval(better, tolerance) \in Int
  BY AdaptiveType
<1>2. CASE better = 0
  <2>1. AdaptiveInterval(better, tolerance) = MaxInterval
    BY <1>2 DEF AdaptiveInterval
  <2> QED BY <1>1, <2>1, AutoInterval DEF Clamp, MinInterval, MaxInterval, Day
<1>3. CASE better # 0
  <2>1. Magnitude(better) \in Nat \ {0} /\ Magnitude(worse) \in Nat \ {0} /\ worse # 0
    BY <1>3, MagnitudeNat DEF Magnitude
  <2>2. tolerance * Unit * Day \in Nat
    BY DEF Unit, Day
  <2>3. AdaptiveInterval(worse, tolerance) <= AdaptiveInterval(better, tolerance)
    BY <1>3, <2>1, <2>2, QuotientOrder DEF AdaptiveInterval
  <2> QED BY <1>1, <2>3, AutoInterval DEF Clamp, MinInterval, MaxInterval, Day
<1> QED BY <1>2, <1>3

(* One sample moves the estimate at most half of the way to it, and never  *)
(* past it, however short, long or wild.                                   *)
THEOREM SampleBounded ==
    ASSUME NEW known \in Int, NEW rate \in Int, NEW elapsed \in Nat
    PROVE  \/ known <= Blend(known, rate, elapsed)
                /\ 2 * (Blend(known, rate, elapsed) - known) <= rate - known
           \/ rate <= Blend(known, rate, elapsed)
                /\ Blend(known, rate, elapsed) <= known
                /\ 2 * (known - Blend(known, rate, elapsed)) <= known - rate + 1
<1> DEFINE d == rate - known
           w == Clamp(0, FullWeight, elapsed)
           full == 2 * FullWeight
           q == (d * w) \div full
<1>1. d \in Int /\ w \in Nat /\ full \in Nat \ {0} /\ 2 * w <= full
  BY Clamped DEF FullWeight, Day
<1>2. d * w \in Int
  BY <1>1
<1>3. q \in Int /\ q * full <= d * w /\ d * w < (q + 1) * full
  BY <1>1, <1>2, Quotient
<1> HIDE DEF d, w, full, q
<1>4. CASE d >= 0
  <2>1. 0 <= d * w /\ 2 * (d * w) <= d * full
    BY <1>1, <1>4
  <2>2. q >= 0
    BY <1>1, <1>3, <2>1
  <2>3. 2 * (q * full) <= d * full
    BY <1>1, <1>3, <2>1
  <2>4. 2 * q <= d
    BY <1>1, <1>3, <2>3
  <2> QED BY <1>1, <2>2, <2>4 DEF Blend, d, w, full, q
<1>5. CASE d < 0
  <2>1. d * w <= 0 /\ d * full <= 2 * (d * w)
    BY <1>1, <1>5
  <2>2. q <= 0
    BY <1>1, <1>3, <2>1
  <2>3. d * full < 2 * ((q + 1) * full)
    BY <1>1, <1>3, <2>1
  <2>4. d < 2 * (q + 1)
    BY <1>1, <1>3, <2>3
  <2> QED BY <1>1, <1>3, <1>5, <2>2, <2>4 DEF Blend, d, w, full, q
<1> QED BY <1>1, <1>4, <1>5

(* A whole second more of drift in a sample of some duration.              *)
LEMMA OneSecondSample ==
    ASSUME NEW drift \in Int, NEW elapsed \in Nat \ {0}
    PROVE  LET more == SampleRate(drift + 1, elapsed) - SampleRate(drift, elapsed)
           IN  /\ SampleRate(drift, elapsed) \in Int
               /\ SampleRate(drift + 1, elapsed) \in Int
               /\ more \in Nat
               /\ (more - 1) * elapsed < Unit * Day
<1> DEFINE a == drift * Unit * Day
           b == (drift + 1) * Unit * Day
           p == a \div elapsed
           q == b \div elapsed
<1>1. a \in Int /\ b \in Int /\ b = a + Unit * Day /\ Unit * Day \in Nat
  BY DEF Unit, Day
<1>2. p \in Int /\ p * elapsed <= a /\ a < (p + 1) * elapsed
  BY <1>1, Quotient
<1>3. q \in Int /\ q * elapsed <= b /\ b < (q + 1) * elapsed
  BY <1>1, Quotient
<1>4. SampleRate(drift, elapsed) = p /\ SampleRate(drift + 1, elapsed) = q
  BY DEF SampleRate
<1> HIDE DEF a, b, p, q
<1>5. q - p \in Nat
  <2>1. p * elapsed < (q + 1) * elapsed
    BY <1>1, <1>2, <1>3
  <2>2. p < q + 1
    BY <1>2, <1>3, <2>1
  <2> QED BY <1>2, <1>3, <2>2
<1>6. (q - p - 1) * elapsed < Unit * Day
  <2>1. q * elapsed - (p + 1) * elapsed < Unit * Day
    BY <1>1, <1>2, <1>3
  <2>2. (q - p - 1) * elapsed = q * elapsed - (p + 1) * elapsed
    BY <1>2, <1>3
  <2> QED BY <2>1, <2>2
<1> QED BY <1>2, <1>3, <1>4, <1>5, <1>6

(* "±1 s over 12 hours is ±2 s/day, over a week it is ±0.14": what the     *)
(* resolution of the clock makes of a sample that counts.                  *)
THEOREM SampleResolution ==
    ASSUME NEW drift \in Int, NEW elapsed \in Nat, elapsed >= MinSample
    PROVE  LET more == SampleRate(drift + 1, elapsed) - SampleRate(drift, elapsed)
           IN  /\ more \in 0 .. 2 * Unit
               /\ elapsed >= FullWeight => more <= Unit \div 7 + 1
<1> DEFINE more == SampleRate(drift + 1, elapsed) - SampleRate(drift, elapsed)
<1>1. elapsed \in Nat \ {0}
  BY DEF MinSample, Day
<1>2. more \in Nat /\ (more - 1) * elapsed < Unit * Day
  BY <1>1, OneSecondSample
<1> HIDE DEF more
<1>3. ASSUME NEW least \in Nat, least <= elapsed, more >= 1
      PROVE  (more - 1) * least < Unit * Day
  <2>1. (more - 1) * least <= (more - 1) * elapsed
    BY <1>1, <1>2, <1>3
  <2> QED BY <1>1, <1>2, <1>3, <2>1 DEF Unit, Day
<1>4. more <= 2 * Unit
  BY <1>2, <1>3 DEF MinSample, Unit, Day
<1>5. elapsed >= FullWeight => more <= Unit \div 7 + 1
  BY <1>2, <1>3 DEF FullWeight, Unit, Day
<1> QED BY <1>2, <1>4, <1>5 DEF more

(* "A manual sync between automatic ones cannot swing the estimate": once  *)
(* a rate is known, a second read too much or too little changes it by no  *)
(* more than a fourteenth of a second per day, however short the sample.   *)
THEOREM SecondHardlyMoves ==
    ASSUME NEW known \in Int, NEW drift \in Int, NEW elapsed \in Nat
    PROVE  NewRate(known, drift + 1, elapsed) - NewRate(known, drift, elapsed)
             \in 0 .. Unit \div 14 + 2
<1>1. CASE elapsed < MinSample
  <2>1. NewRate(known, drift + 1, elapsed) = known /\ NewRate(known, drift, elapsed) = known
    BY <1>1 DEF NewRate
  <2>2. Unit \div 14 + 2 \in Nat
    BY DEF Unit
  <2>3. known - known \in 0 .. Unit \div 14 + 2
    BY <2>2
  <2> QED BY <2>1, <2>3, Zenon
<1>2. CASE elapsed >= MinSample
  <2> DEFINE p == SampleRate(drift, elapsed)
             q == SampleRate(drift + 1, elapsed)
             w == Clamp(0, FullWeight, elapsed)
             full == 2 * FullWeight
             x == ((p - known) * w) \div full
             y == ((q - known) * w) \div full
  <2>1. elapsed \in Nat \ {0}
    BY <1>2 DEF MinSample, Day
  <2>2. p \in Int /\ q \in Int /\ q - p \in Nat /\ (q - p - 1) * elapsed < Unit * Day
    BY <2>1, OneSecondSample
  <2>3. /\ w \in Nat /\ w <= elapsed /\ w <= FullWeight
        /\ full \in Nat \ {0} /\ FullWeight \in Nat
    BY <2>1 DEF Clamp, FullWeight, Day
  <2>4. /\ NewRate(known, drift, elapsed) = known + x
        /\ NewRate(known, drift + 1, elapsed) = known + y
    <3>1. known # None /\ elapsed # None
      BY NoneIsNoNumber
    <3> QED BY <1>2, <3>1 DEF NewRate, Blend, MinSample, Day
  <2> HIDE DEF p, q, w
  <2>5. (p - known) * w \in Int /\ (q - known) * w \in Int
    BY <2>2, <2>3
  <2>6. x \in Int /\ x * full <= (p - known) * w /\ (p - known) * w < (x + 1) * full
    BY <2>3, <2>5, Quotient
  <2>7. y \in Int /\ y * full <= (q - known) * w /\ (q - known) * w < (y + 1) * full
    BY <2>3, <2>5, Quotient
  <2>8. (q - known) * w = (p - known) * w + (q - p) * w
    BY <2>2, <2>3
  <2>9. 0 <= (q - p) * w /\ (q - p) * w <= Unit * Day + FullWeight
    <3>1. CASE q = p
      BY <2>2, <2>3, <3>1 DEF Unit, Day
    <3>2. CASE q # p
      <4>1. q - p - 1 \in Nat
        BY <2>2, <3>2
      <4>2. (q - p - 1) * w <= (q - p - 1) * elapsed /\ 0 <= (q - p - 1) * w
        BY <2>1, <2>3, <4>1
      <4>3. (q - p) * w = (q - p - 1) * w + w
        BY <2>2, <2>3
      <4> QED BY <2>1, <2>2, <2>3, <4>1, <4>2, <4>3 DEF Unit, Day
    <3> QED BY <3>1, <3>2
  <2> HIDE DEF x, y
  <2>10. (q - p) * w \in Int /\ full = 1209600 /\ Unit * Day + FullWeight = 86400604800
    BY <2>2, <2>3 DEF FullWeight, Unit, Day
  <2>11. y - x \in Nat
    BY <2>5, <2>6, <2>7, <2>8, <2>9, <2>10
  <2>12. y - x <= Unit \div 14 + 2
    BY <2>5, <2>6, <2>7, <2>8, <2>9, <2>10 DEF Unit
  <2> QED BY <2>4, <2>6, <2>7, <2>11, <2>12
<1> QED BY <1>1, <1>2 DEF MinSample, Day

(* The estimate stays within every range that contains what was measured:  *)
(* no weight, order or duration of samples carries it beyond the worst.    *)
THEOREM EstimateWithinSamples ==
    ASSUME NEW low \in Int, NEW high \in Int, NEW known \in (low .. high) \cup {None},
           NEW drift \in Int, NEW elapsed \in Nat \cup {None},
           elapsed # None /\ elapsed >= MinSample => SampleRate(drift, elapsed) \in low .. high
    PROVE  NewRate(known, drift, elapsed) \in (low .. high) \cup {None}
<1>1. CASE elapsed = None \/ elapsed < MinSample
  BY <1>1 DEF NewRate
<1>2. CASE ~ (elapsed = None \/ elapsed < MinSample) /\ known = None
  BY <1>2 DEF NewRate, MinSample, Day
<1>3. CASE ~ (elapsed = None \/ elapsed < MinSample) /\ known # None
  <2> DEFINE rate == SampleRate(drift, elapsed)
  <2>1. elapsed \in Nat /\ elapsed >= MinSample /\ known \in low .. high
    BY <1>3 DEF MinSample, Day
  <2>2. rate \in low .. high
    BY <2>1, NoneIsNoNumber
  <2>3. NewRate(known, drift, elapsed) = Blend(known, rate, elapsed)
    BY <1>3 DEF NewRate
  <2> HIDE DEF rate
  <2>4. Blend(known, rate, elapsed) \in Int
    <3>1. Clamp(0, FullWeight, elapsed) \in Int /\ 2 * FullWeight \in Nat \ {0}
      BY <2>1 DEF Clamp, FullWeight, Day
    <3>2. (rate - known) * Clamp(0, FullWeight, elapsed) \in Int
      BY <2>1, <2>2, <3>1
    <3> QED BY <2>1, <3>1, <3>2, Quotient DEF Blend
  <2>5. known \in Int /\ rate \in Int /\ elapsed \in Nat
    BY <2>1, <2>2
  <2>6. \/ known <= Blend(known, rate, elapsed)
             /\ 2 * (Blend(known, rate, elapsed) - known) <= rate - known
        \/ rate <= Blend(known, rate, elapsed)
             /\ Blend(known, rate, elapsed) <= known
    BY <2>5, SampleBounded
  <2>7. Blend(known, rate, elapsed) \in low .. high
    BY <2>1, <2>2, <2>4, <2>5, <2>6
  <2> QED BY <2>3, <2>7
<1> QED BY <1>1, <1>2, <1>3

-----------------------------------------------------------------------------
LEMMA SomeNearest ==
    ASSUME NEW days \in Int
    PROVE  \E c \in FixedChoices : Nearest(days, c)
<1>1. /\ Distance(days, "1") = Magnitude(1 - days)
      /\ Distance(days, "7") = Magnitude(7 - days)
      /\ Distance(days, "30") = Magnitude(30 - days)
      /\ Distance(days, "90") = Magnitude(90 - days)
      /\ Distance(days, "180") = Magnitude(180 - days)
  BY DEF Distance, DaysOf
<1>2. /\ DaysOf("1") = 1 /\ DaysOf("7") = 7 /\ DaysOf("30") = 30
      /\ DaysOf("90") = 90 /\ DaysOf("180") = 180
  BY DEF DaysOf
<1>3. CASE days <= 4
  BY <1>1, <1>2, <1>3 DEF Nearest, FixedChoices, Magnitude
<1>4. CASE days > 4 /\ days <= 18
  BY <1>1, <1>2, <1>4 DEF Nearest, FixedChoices, Magnitude
<1>5. CASE days > 18 /\ days <= 60
  BY <1>1, <1>2, <1>5 DEF Nearest, FixedChoices, Magnitude
<1>6. CASE days > 60 /\ days <= 135
  BY <1>1, <1>2, <1>6 DEF Nearest, FixedChoices, Magnitude
<1>7. CASE days > 135
  BY <1>1, <1>2, <1>7 DEF Nearest, FixedChoices, Magnitude
<1> QED BY <1>3, <1>4, <1>5, <1>6, <1>7

(* An upgrade turns automatic syncs on exactly where 0.1.x had them on:    *)
(* an option never stored, unreadable or not positive was off.             *)
THEOREM UpgradeKeepsOff ==
    ASSUME NEW hours \in Int \cup {None}
    PROVE  /\ auto_sync_from_v1_hours(hours) \in AutoSyncChoices \ {"auto"}
           /\ auto_sync_from_v1_hours(hours) = "0" <=> (hours = None \/ hours <= 0)
<1>1. CASE hours = None \/ hours <= 0
  BY <1>1 DEF auto_sync_from_v1_hours, AutoSyncChoices
<1>2. CASE ~ (hours = None \/ hours <= 0)
  <2> DEFINE rounded == RoundedDays(hours)
             days == IF rounded < 1 THEN 1 ELSE rounded
             c == CHOOSE e \in FixedChoices : Nearest(days, e)
  <2>1. hours \in Int
    BY <1>2
  <2>2. rounded \in Int
    BY <2>1 DEF RoundedDays
  <2>3. days \in Int
    BY <2>2
  <2>4. c \in FixedChoices
    BY <2>3, SomeNearest
  <2>5. auto_sync_from_v1_hours(hours) = c
    BY <1>2 DEF auto_sync_from_v1_hours
  <2> QED BY <1>2, <2>4, <2>5 DEF FixedChoices, AutoSyncChoices
<1> QED BY <1>1, <1>2

(* A migrated poll interval is one the options form offers, reading it     *)
(* again changes nothing, and from two minutes to an hour it is the old    *)
(* one in whole minutes.                                                   *)
THEOREM MigratedInterval ==
    ASSUME NEW seconds \in Int
    PROVE  /\ MigratedScanInterval(seconds) \in MinScanInterval .. MaxScanInterval
           /\ scan_interval_minutes(MigratedScanInterval(seconds))
                = MigratedScanInterval(seconds)
           /\ seconds \in 120 .. 3600 =>
                /\ 60 * MigratedScanInterval(seconds) <= seconds
                /\ seconds < 60 * (MigratedScanInterval(seconds) + 1)
<1> DEFINE minutes == IF seconds >= 120 THEN seconds \div 60 ELSE seconds
<1>1. minutes \in Int
  OBVIOUS
<1>2. MigratedScanInterval(seconds) = Clamp(MinScanInterval, MaxScanInterval, minutes)
  BY NoneIsNoNumber DEF MigratedScanInterval
<1> QED BY <1>1, <1>2, NoneIsNoNumber
    DEF Clamp, MinScanInterval, MaxScanInterval, scan_interval_minutes
=============================================================================
