-------------------------- MODULE GattClockProofs --------------------------
(***************************************************************************)
(* Proofs about GattClock: where a write puts the clock, what a read-back  *)
(* can tell and what is noted about it, for any number of ticks in a       *)
(* second, any latencies and any firmware.                                 *)
(***************************************************************************)
EXTENDS GattClock, TLAPS

-----------------------------------------------------------------------------
(* Seconds and ticks.                                                      *)

(* A second is two halves.                                                 *)
LEMMA Halves == EPOCH_MIDPOINT \in Nat /\ 2 * EPOCH_MIDPOINT = Sec
BY SecAssumption DEF EPOCH_MIDPOINT

(* The whole second of an instant begins less than a second before it.     *)
LEMMA WholeSecond ==
  ASSUME NEW x \in Int
  PROVE  /\ (x \div Sec) * Sec \in Int
         /\ (x \div Sec) * Sec <= x
         /\ x < (x \div Sec) * Sec + Sec
<1>1. x \div Sec \in Int /\ x % Sec \in 0 .. Sec - 1
  BY SecAssumption
<1>2. x = Sec * (x \div Sec) + (x % Sec)
  BY SecAssumption
<1>3. QED
  BY <1>1, <1>2, SecAssumption

(* The middle of the second the clock shows is its time within half of one. *)
LEMMA Reading ==
  ASSUME NEW at \in Int, error \in Int
  PROVE  /\ Middle(at) \in Int
         /\ Between(Middle(at) - (at + error), -EPOCH_MIDPOINT, EPOCH_MIDPOINT)
<1>1. at + error \in Int
  OBVIOUS
<1>2. /\ Epoch(at) \in Int
      /\ Epoch(at) <= at + error
      /\ at + error < Epoch(at) + Sec
  BY <1>1, WholeSecond DEF Epoch
<1>3. QED
  BY <1>2, Halves DEF Middle, Between

(* The cue of a write is yet to come: the second aimed at is less than a   *)
(* trip and more than none away.                                           *)
LEMMA Cue ==
  ASSUME now \in Int, age \in Int, oneWay \in Int
  PROVE  /\ Aim(now) \in Int
         /\ Wait = Aim(now) - oneWay - NowTs(now)
         /\ Wait \in 1 .. Sec
<1> DEFINE x == NowTs(now) + oneWay
           s == (x \div Sec) * Sec
<1>1. x \in Int /\ NowTs(now) \in Int
  BY DEF NowTs
<1>2. s \in Int /\ s <= x /\ x < s + Sec
  BY <1>1, WholeSecond
<1>3. Aim(now) = s + Sec
  BY DEF Aim
<1> HIDE DEF s
<1>4. QED
  BY <1>1, <1>2, <1>3, SecAssumption DEF Wait

(* So a write that travels for a trip sets the clock to the true time, but *)
(* for the age of ``when`` and the error of the estimate.                  *)
LEMMA Taken ==
  ASSUME now \in Int, age \in Int, oneWay \in Int, NEW out \in Int
  PROVE  Aim(now) - (now + Wait + out) = oneWay - out - age
BY Cue DEF NowTs

-----------------------------------------------------------------------------
(* The inductive invariant.                                                *)

(* An attempt has an outcome when it has ended, and only a first attempt   *)
(* or one that had none before is answered.                                *)
StageInv ==
  /\ pc \notin {"ended", "answered"} => outcome = "none"
  /\ pc = "idle" => attempt = 1
  /\ pc \in {"idle", "mode"} \/ kind = "sync" => age = 0
  /\ pc = "mode" => kind = "format"
  /\ kind = "sync" => modeError = FALSE
  /\ pc = "idle" => modeError = FALSE
  /\ pc \in {"write", "verify"} => oneWay \in Trips

(* The clock has been written, and has taken it.                           *)
AimedInv ==
  pc = "verify" \/ Written =>
      (firmware.time = "keeps" => Between(error + age, -Spread, Spread))

(* What the first reading of a sync says about the clock.                  *)
DriftInv ==
  kind = "sync" /\ attempt = 1 =>
      /\ pc = "read" => error = wandered
      /\ pc \in {"write", "verify"} \/ Written =>
             Between(2 * (drift - wandered), -(Sec + Spread), Sec + Spread)

(* The clock is written with the ``when`` of the attempt that writes it.   *)
WhenInv == pc \in {"read", "write", "verify"} => age \in WhenAges

IInv ==
  /\ TypeOK /\ StageInv
  /\ AimedInv /\ DriftInv /\ WrittenIsRight /\ ResidualMeasured
  /\ WhenInv /\ LeftAloneOrRight

-----------------------------------------------------------------------------
(* Type correctness.                                                       *)

(* Every step keeps the types.                                             *)
LEMMA TypeStep ==
  ASSUME TypeOK, [Next]_vars
  PROVE  TypeOK'
<1>1. CASE \E k \in {"sync", "format"} : Call(k)
  BY <1>1 DEF TypeOK, Call, deviceVars, readingVars, FirstRequest
<1>2. CASE Retry
  <2>1. attempt + 1 \in 1 .. MaxRetries
    BY <1>2, RetriesAssumption DEF Retry, MayRetry, TypeOK
  <2>2. now' \in Nat
    BY <1>2, SecAssumption DEF Retry, TypeOK
  <2>3. QED
    BY <1>2, <2>1, <2>2 DEF Retry, FirstRequest, TypeOK, deviceVars,
       readingVars, Outcomes
<1>3. CASE Answer
  BY <1>3 DEF TypeOK, Answer, deviceVars, callVars, readingVars
<1>4. CASE Wander
  <2>1. modeError' \in BOOLEAN
    BY <1>4 DEF Wander
  <2>2. QED
    BY <1>4, <2>1, StartAssumption, SkewsAssumption, RetriesAssumption DEF
       Wander, TypeOK, Outcomes
<1>5. CASE ModeAccepted
  BY <1>5, ModeTimesAssumption DEF TypeOK, ModeAccepted, callVars,
     readingVars, ModeReaches
<1>6. CASE ModeRefused
  BY <1>6, ModeTimesAssumption DEF TypeOK, ModeRefused, callVars,
     readingVars, deviceVars, ModeReaches
<1>7. CASE ModeLost
  BY <1>7, ModeTimesAssumption DEF TypeOK, Outcomes, ModeLost, callVars,
     readingVars, deviceVars, ModeReaches
<1>8. CASE ReadClock
  <2>1. PICK out \in Trips, back \in Trips :
          /\ (out + back) % 2 = 0
          /\ oneWay' = (out + back) \div 2
          /\ drift' = Middle(now + out) - (NowTs(now) + (out + back) \div 2)
          /\ now' = now + out + back
    BY <1>8 DEF ReadClock
  <2>2. out \in Nat /\ back \in Nat
    BY TripsAssumption DEF Trips
  <2>3. oneWay' \in Nat /\ now' \in Nat
    BY <2>1, <2>2 DEF TypeOK
  <2>4. now + out \in Int /\ error \in Int /\ NowTs(now) \in Int
    BY <2>2 DEF TypeOK, NowTs
  <2>5. drift' \in Int
    BY <2>1, <2>3, <2>4, Reading
  <2>6. QED
    BY <1>8, <2>3, <2>5 DEF ReadClock, TypeOK, deviceVars, callVars
<1>9. CASE WriteClock
  <2>1. PICK out \in Trips, back \in Trips :
          /\ ClockTakes(Aim(now), now + Wait + out)
          /\ now' = now + Wait + out + back
    BY <1>9 DEF WriteClock
  <2>2. out \in Nat /\ back \in Nat
    BY TripsAssumption DEF Trips
  <2>3. Aim(now) \in Int /\ Wait \in Nat
    BY Cue DEF TypeOK
  <2>4. error' \in Int /\ now' \in Nat /\ UNCHANGED firmware
    BY <2>1, <2>2, <2>3 DEF TypeOK, ClockTakes
  <2>5. QED
    BY <1>9, <2>4 DEF WriteClock, TypeOK, callVars, readingVars
<1>10. CASE VerifyClock
  <2>1. PICK out \in Trips, back \in Trips :
          LET r == Middle(now + out) - Expected(now + out + back)
          IN  /\ now' = now + out + back
              /\ IF WithinTolerance(r)
                 THEN SetTimeDone /\ residual' = r
                 ELSE SetTimeFails("verify") /\ UNCHANGED residual
    BY <1>10 DEF VerifyClock
  <2>2. out \in Nat /\ back \in Nat
    BY TripsAssumption DEF Trips
  <2>3. now + out \in Int /\ error \in Int /\ Expected(now + out + back) \in Int
    BY <2>2 DEF TypeOK, NowTs, Expected
  <2>4. residual' \in Int /\ now' \in Nat
    BY <2>1, <2>2, <2>3, Reading DEF TypeOK
  <2>5. pc' = "ended" /\ outcome' \in Outcomes
    BY <2>1 DEF SetTimeDone, SetTimeFails, Outcomes
  <2>6. QED
    BY <1>10, <2>4, <2>5 DEF VerifyClock, TypeOK, deviceVars, callVars,
       readingVars
<1>11. CASE RequestFails
  <2>1. error' \in Int /\ UNCHANGED firmware
    <3>1. CASE UNCHANGED deviceVars
      BY <3>1 DEF TypeOK, deviceVars
    <3>2. CASE \E out \in Trips : ClockTakes(Aim(now), now + Wait + out)
      <4>1. Aim(now) \in Int /\ Wait \in Nat
        BY Cue DEF TypeOK
      <4>2. QED
        BY <3>2, <4>1 DEF ClockTakes
    <3>3. QED
      BY <1>11, <3>1, <3>2 DEF RequestFails
  <2>2. pc' = "ended" /\ outcome' \in Outcomes
    BY <1>11 DEF RequestFails, SetTimeFails, Outcomes
  <2>3. QED
    BY <1>11, <2>1, <2>2 DEF RequestFails, TypeOK, callVars, readingVars
<1>12. CASE UNCHANGED vars
  BY <1>12 DEF TypeOK, vars, deviceVars, callVars, readingVars
<1>13. QED
  BY <1>1, <1>2, <1>3, <1>4, <1>5, <1>6, <1>7, <1>8, <1>9, <1>10, <1>11,
     <1>12 DEF Next

-----------------------------------------------------------------------------
(* The stages of an attempt.                                               *)

(* Every step keeps what the stages are.                                   *)
LEMMA StageStep ==
  ASSUME TypeOK, StageInv, [Next]_vars
  PROVE  StageInv'
<1>1. CASE \E k \in {"sync", "format"} : Call(k)
  BY <1>1 DEF StageInv, Call, FirstRequest
<1>2. CASE Retry
  BY <1>2 DEF StageInv, Retry, FirstRequest
<1>3. CASE Answer
  BY <1>3 DEF StageInv, Answer, callVars
<1>4. CASE Wander
  BY <1>4 DEF StageInv, Wander
<1>5. CASE ModeAccepted
  BY <1>5 DEF StageInv, ModeAccepted, callVars
<1>6. CASE ModeRefused
  BY <1>6 DEF StageInv, ModeRefused, callVars
<1>7. CASE ModeLost
  BY <1>7 DEF StageInv, ModeLost, callVars
<1>8. CASE ReadClock
  <2>1. PICK out \in Trips, back \in Trips :
          /\ (out + back) % 2 = 0
          /\ oneWay' = (out + back) \div 2
    BY <1>8 DEF ReadClock
  <2>2. oneWay' \in Trips
    BY <2>1, TripsAssumption DEF Trips
  <2>3. QED
    BY <1>8, <2>2 DEF ReadClock, StageInv, callVars
<1>9. CASE WriteClock
  BY <1>9 DEF StageInv, WriteClock, callVars, readingVars
<1>10. CASE VerifyClock
  BY <1>10 DEF StageInv, VerifyClock, callVars, SetTimeDone, SetTimeFails
<1>11. CASE RequestFails
  BY <1>11 DEF StageInv, RequestFails, callVars, SetTimeFails
<1>12. CASE UNCHANGED vars
  BY <1>12 DEF StageInv, vars, callVars, readingVars
<1>13. QED
  BY <1>1, <1>2, <1>3, <1>4, <1>5, <1>6, <1>7, <1>8, <1>9, <1>10, <1>11,
     <1>12 DEF Next

-----------------------------------------------------------------------------
(* Where the clock is written to.                                          *)

(* Only a write that reached the clock leads to a read-back.               *)
LEMMA AimedStep ==
  ASSUME TypeOK, StageInv, AimedInv, [Next]_vars
  PROVE  AimedInv'
<1>1. CASE \E k \in {"sync", "format"} : Call(k)
  BY <1>1 DEF AimedInv, Written, Call, deviceVars, FirstRequest
<1>2. CASE Retry
  BY <1>2 DEF AimedInv, Written, Retry, FirstRequest
<1>3. CASE Answer
  BY <1>3 DEF AimedInv, Written, Answer, deviceVars
<1>4. CASE Wander
  BY <1>4 DEF AimedInv, Written, Wander
<1>5. CASE ModeAccepted
  BY <1>5 DEF StageInv, AimedInv, Written, ModeAccepted
<1>6. CASE ModeRefused
  BY <1>6 DEF StageInv, AimedInv, Written, ModeRefused
<1>7. CASE ModeLost
  BY <1>7 DEF AimedInv, Written, ModeLost
<1>8. CASE ReadClock
  BY <1>8 DEF AimedInv, Written, ReadClock, deviceVars
<1>9. CASE WriteClock
  <2>1. PICK out \in Trips : ClockTakes(Aim(now), now + Wait + out)
    BY <1>9 DEF WriteClock
  <2>2. out \in MinTrip .. MaxTrip /\ oneWay \in MinTrip .. MaxTrip
    BY <1>9 DEF WriteClock, StageInv, Trips
  <2>3. Aim(now) - (now + Wait + out) = oneWay - out - age
    BY <2>2, Taken DEF TypeOK
  <2>4. firmware'.time = "keeps" => error' = oneWay - out - age
    BY <2>1, <2>3 DEF ClockTakes
  <2>5. age' = age
    BY <1>9 DEF WriteClock
  <2>6. QED
    BY <2>2, <2>4, <2>5, TripsAssumption DEF AimedInv, Spread, Between,
       TypeOK
<1>10. CASE VerifyClock
  BY <1>10 DEF AimedInv, VerifyClock, deviceVars
<1>11. CASE RequestFails
  BY <1>11 DEF AimedInv, Written, RequestFails, SetTimeFails
<1>12. CASE UNCHANGED vars
  BY <1>12 DEF AimedInv, Written, vars, deviceVars
<1>13. QED
  BY <1>1, <1>2, <1>3, <1>4, <1>5, <1>6, <1>7, <1>8, <1>9, <1>10, <1>11,
     <1>12 DEF Next

(* Every attempt takes its own ``when``.                                   *)
LEMMA WhenStep ==
  ASSUME TypeOK, StageInv, WhenInv, [Next]_vars
  PROVE  WhenInv'
<1>1. CASE \E k \in {"sync", "format"} : Call(k)
  BY <1>1 DEF StageInv, WhenInv, WhenAges, Call, FirstRequest
<1>2. CASE Retry
  BY <1>2 DEF WhenInv, WhenAges, Retry, FirstRequest, TypeOK
<1>3. CASE Answer \/ Wander \/ ModeLost
  BY <1>3 DEF WhenInv, Answer, Wander, ModeLost
<1>4. CASE ModeAccepted \/ ModeRefused
  <2>1. PICK d \in ModeTimes : age' = age + d
    BY <1>4 DEF ModeAccepted, ModeRefused
  <2>2. age = 0 /\ kind' = "format"
    BY <1>4 DEF StageInv, ModeAccepted, ModeRefused, callVars
  <2>3. age' = d
    BY <2>1, <2>2, ModeTimesAssumption
  <2>4. QED
    BY <2>2, <2>3 DEF WhenInv, WhenAges
<1>5. CASE ReadClock \/ WriteClock
  BY <1>5 DEF WhenInv, WhenAges, ReadClock, WriteClock, callVars
<1>6. CASE VerifyClock \/ RequestFails
  BY <1>6 DEF WhenInv, VerifyClock, RequestFails, SetTimeDone, SetTimeFails
<1>7. CASE UNCHANGED vars
  BY <1>7 DEF WhenInv, WhenAges, vars, callVars
<1>8. QED
  BY <1>1, <1>2, <1>3, <1>4, <1>5, <1>6, <1>7 DEF Next

(* A write that reaches the clock sets it right, or is not taken.          *)
LEMMA TakenRight ==
  ASSUME TypeOK, StageInv, WhenInv, LeftAloneOrRight, pc = "write",
         NEW out \in Trips, ClockTakes(Aim(now), now + Wait + out),
         pc' # "idle", UNCHANGED <<kind, wandered>>
  PROVE  LeftAloneOrRight'
<1>1. CASE firmware.time = "keeps"
  <2>1. out \in MinTrip .. MaxTrip /\ oneWay \in MinTrip .. MaxTrip
    BY DEF StageInv, Trips
  <2>2. error' = oneWay - out - age
    BY <1>1, <2>1, Taken DEF TypeOK, ClockTakes
  <2>3. Between(error' + age, -Spread, Spread)
    BY <2>1, <2>2, TripsAssumption DEF Spread, Between, TypeOK
  <2>4. age \in WhenAges' /\ firmware' = firmware
    BY DEF WhenInv, WhenAges, ClockTakes
  <2>5. QED
    BY <1>1, <2>3, <2>4 DEF LeftAloneOrRight
<1>2. CASE firmware.time # "keeps"
  BY <1>2 DEF ClockTakes, LeftAloneOrRight, WhenAges
<1>3. QED
  BY <1>1, <1>2

(* Nothing else changes the clock during a call, unless it misreads the    *)
(* mode command.                                                           *)
LEMMA LeftStep ==
  ASSUME TypeOK, StageInv, WhenInv, LeftAloneOrRight, [Next]_vars
  PROVE  LeftAloneOrRight'
<1> DEFINE Quiet == pc # "idle" /\ UNCHANGED <<firmware, error, kind, wandered>>
<1>1. ASSUME Quiet PROVE LeftAloneOrRight'
  BY <1>1 DEF LeftAloneOrRight, WhenAges
<1>2. CASE \E k \in {"sync", "format"} : Call(k)
  BY <1>2 DEF LeftAloneOrRight, Call, deviceVars
<1>3. CASE Retry \/ Answer
  BY <1>1, <1>3 DEF Retry, Answer, deviceVars, callVars
<1>4. CASE Wander
  BY <1>4 DEF LeftAloneOrRight, Wander
<1>5. CASE ModeAccepted \/ ModeRefused \/ ModeLost
  <2>1. kind = "format" /\ pc # "idle" /\ UNCHANGED <<firmware, kind, wandered>>
    BY <1>5 DEF StageInv, ModeAccepted, ModeRefused, ModeLost, ModeReaches,
       deviceVars, callVars
  <2>2. CASE firmware.mode = "misreads"
    BY <2>1, <2>2 DEF LeftAloneOrRight
  <2>3. CASE firmware.mode # "misreads"
    <3>1. error' = error
      BY <1>5, <2>3 DEF ModeAccepted, ModeRefused, ModeLost, ModeReaches,
         deviceVars
    <3>2. QED
      BY <1>1, <2>1, <3>1
  <2>4. QED
    BY <2>2, <2>3
<1>6. CASE ReadClock \/ VerifyClock
  BY <1>1, <1>6 DEF ReadClock, VerifyClock, deviceVars, callVars
<1>7. CASE WriteClock
  <2>1. PICK out \in Trips : ClockTakes(Aim(now), now + Wait + out)
    BY <1>7 DEF WriteClock
  <2>2. QED
    BY <1>7, <2>1, TakenRight DEF WriteClock, callVars
<1>8. CASE RequestFails
  <2>1. pc # "idle" /\ pc' = "ended" /\ UNCHANGED <<kind, wandered>>
    BY <1>8 DEF RequestFails, SetTimeFails, callVars
  <2>2. CASE UNCHANGED deviceVars
    BY <1>1, <2>1, <2>2 DEF deviceVars
  <2>3. CASE pc = "write" /\ \E out \in Trips : ClockTakes(Aim(now), now + Wait + out)
    BY <2>1, <2>3, TakenRight
  <2>4. QED
    BY <1>8, <2>2, <2>3 DEF RequestFails
<1>9. CASE UNCHANGED vars
  BY <1>9 DEF LeftAloneOrRight, WhenAges, vars, deviceVars, callVars
<1>10. QED
  BY <1>2, <1>3, <1>4, <1>5, <1>6, <1>7, <1>8, <1>9 DEF Next

-----------------------------------------------------------------------------
(* What a reading and a read-back say.                                     *)

(* The first reading of a sync measures what the clock is off by.          *)
LEMMA DriftStep ==
  ASSUME TypeOK, StageInv, DriftInv, [Next]_vars
  PROVE  DriftInv'
<1>1. CASE \E k \in {"sync", "format"} : Call(k)
  BY <1>1 DEF StageInv, DriftInv, Written, Call, deviceVars, FirstRequest
<1>2. CASE Retry
  BY <1>2 DEF TypeOK, DriftInv, Retry
<1>3. CASE Answer
  BY <1>3 DEF DriftInv, Written, Answer, callVars, readingVars
<1>4. CASE Wander
  BY <1>4 DEF DriftInv, Written, Wander
<1>5. CASE ModeAccepted
  BY <1>5 DEF StageInv, DriftInv, ModeAccepted, callVars
<1>6. CASE ModeRefused
  BY <1>6 DEF StageInv, DriftInv, ModeRefused, callVars
<1>7. CASE ModeLost
  BY <1>7 DEF DriftInv, Written, ModeLost
<1>8. CASE ReadClock
  <2> SUFFICES ASSUME kind = "sync", attempt = 1
               PROVE  Between(2 * (drift' - wandered), -(Sec + Spread), Sec + Spread)
    BY <1>8 DEF ReadClock, DriftInv, callVars
  <2>1. PICK out \in Trips, back \in Trips :
          /\ (out + back) % 2 = 0
          /\ drift' = Middle(now + out) - (NowTs(now) + (out + back) \div 2)
    BY <1>8 DEF ReadClock
  <2>2. /\ out \in MinTrip .. MaxTrip /\ back \in MinTrip .. MaxTrip
        /\ out \in Nat /\ back \in Nat
    BY TripsAssumption DEF Trips
  <2>3. error = wandered /\ age = 0
    BY <1>8 DEF ReadClock, StageInv, DriftInv
  <2> DEFINE m == Middle(now + out) - (now + out + error)
             o == (out + back) \div 2
  <2>4. m \in Int /\ Between(2 * m, -Sec, Sec)
    BY <2>2, Reading, Halves DEF TypeOK, Between
  <2>5. o \in Int /\ 2 * o = out + back
    BY <2>1, <2>2
  <2>6. drift' - wandered = m + out - o
    BY <2>1, <2>2, <2>3, <2>5, Reading DEF NowTs, TypeOK
  <2> HIDE DEF m, o
  <2>7. QED
    BY <2>2, <2>4, <2>5, <2>6, TripsAssumption, SecAssumption DEF Between,
       Spread
<1>9. CASE WriteClock
  BY <1>9 DEF DriftInv, WriteClock, callVars, readingVars
<1>10. CASE VerifyClock
  BY <1>10 DEF DriftInv, VerifyClock, callVars, readingVars, SetTimeDone,
     SetTimeFails
<1>11. CASE RequestFails
  BY <1>11 DEF DriftInv, Written, RequestFails, SetTimeFails
<1>12. CASE UNCHANGED vars
  BY <1>12 DEF DriftInv, Written, vars, deviceVars, callVars, readingVars
<1>13. QED
  BY <1>1, <1>2, <1>3, <1>4, <1>5, <1>6, <1>7, <1>8, <1>9, <1>10, <1>11,
     <1>12 DEF Next

(* So does the read-back, up to half a second and a latency.               *)
LEMMA ReadBack ==
  ASSUME TypeOK, oneWay \in Trips, NEW out \in Trips, NEW back \in Trips
  PROVE  LET r == Middle(now + out) - Expected(now + out + back)
         IN  /\ r \in Int
             /\ Between(r - (error + age), -(EPOCH_MIDPOINT + Spread),
                                            EPOCH_MIDPOINT + Spread)
<1> DEFINE m == Middle(now + out) - (now + out + error)
           r == Middle(now + out) - Expected(now + out + back)
<1>1. /\ out \in MinTrip .. MaxTrip /\ back \in MinTrip .. MaxTrip
      /\ oneWay \in MinTrip .. MaxTrip
      /\ out \in Nat /\ back \in Nat /\ oneWay \in Nat
  BY TripsAssumption DEF Trips
<1>2. m \in Int /\ Between(m, -EPOCH_MIDPOINT, EPOCH_MIDPOINT)
  BY <1>1, Reading DEF TypeOK
<1>3. r - (error + age) = m + oneWay - back /\ r \in Int
  BY <1>1, Reading DEF TypeOK, Expected, NowTs
<1> HIDE DEF m, r
<1>4. Between(r - (error + age), -(EPOCH_MIDPOINT + Spread), EPOCH_MIDPOINT + Spread)
  BY <1>1, <1>2, <1>3, TripsAssumption, Halves DEF Between, Spread
<1>5. QED
  BY <1>3, <1>4 DEF r

(* A write is only taken for done after a read-back within the tolerance.  *)
LEMMA RightStep ==
  ASSUME TypeOK, StageInv, WrittenIsRight, [Next]_vars
  PROVE  WrittenIsRight'
<1>1. CASE \E k \in {"sync", "format"} : Call(k)
  BY <1>1 DEF WrittenIsRight, Written, Call, deviceVars
<1>2. CASE Retry
  BY <1>2 DEF WrittenIsRight, Written, Retry
<1>3. CASE Answer
  BY <1>3 DEF WrittenIsRight, Written, Answer, deviceVars
<1>4. CASE Wander
  BY <1>4 DEF WrittenIsRight, Written, Wander
<1>5. CASE ModeAccepted
  BY <1>5 DEF StageInv, WrittenIsRight, Written, ModeAccepted
<1>6. CASE ModeRefused
  BY <1>6 DEF StageInv, WrittenIsRight, Written, ModeRefused
<1>7. CASE ModeLost
  BY <1>7 DEF WrittenIsRight, Written, ModeLost
<1>8. CASE ReadClock
  BY <1>8 DEF WrittenIsRight, Written, ReadClock, deviceVars
<1>9. CASE WriteClock
  BY <1>9 DEF StageInv, WrittenIsRight, Written, WriteClock
<1>10. CASE VerifyClock
  <2>1. PICK out \in Trips, back \in Trips :
          LET r == Middle(now + out) - Expected(now + out + back)
          IN  IF WithinTolerance(r)
              THEN SetTimeDone /\ residual' = r
              ELSE SetTimeFails("verify") /\ UNCHANGED residual
    BY <1>10 DEF VerifyClock
  <2> DEFINE r == Middle(now + out) - Expected(now + out + back)
  <2>2. r \in Int /\ Between(r - (error + age), -(EPOCH_MIDPOINT + Spread),
                                              EPOCH_MIDPOINT + Spread)
    BY <1>10, ReadBack DEF VerifyClock, StageInv
  <2> HIDE DEF r
  <2>3. CASE WithinTolerance(r)
    <3>1. Between(error + age, -(Tolerance + EPOCH_MIDPOINT + Spread),
                               Tolerance + EPOCH_MIDPOINT + Spread)
      BY <2>2, <2>3, Halves, ToleranceAssumption, TripsAssumption DEF
         WithinTolerance, Between, Spread, TypeOK
    <3>2. QED
      BY <1>10, <3>1 DEF VerifyClock, WrittenIsRight, deviceVars
  <2>4. CASE ~ WithinTolerance(r)
    BY <2>1, <2>4 DEF r, SetTimeFails, WrittenIsRight, Written
  <2>5. QED
    BY <2>3, <2>4
<1>11. CASE RequestFails
  BY <1>11 DEF WrittenIsRight, Written, RequestFails, SetTimeFails
<1>12. CASE UNCHANGED vars
  BY <1>12 DEF WrittenIsRight, Written, vars, deviceVars
<1>13. QED
  BY <1>1, <1>2, <1>3, <1>4, <1>5, <1>6, <1>7, <1>8, <1>9, <1>10, <1>11,
     <1>12 DEF Next

(* What is noted as the residual is what the read-back said.               *)
LEMMA ResidualStep ==
  ASSUME TypeOK, StageInv, ResidualMeasured, [Next]_vars
  PROVE  ResidualMeasured'
<1>1. CASE \E k \in {"sync", "format"} : Call(k)
  BY <1>1 DEF ResidualMeasured, Call, deviceVars
<1>2. CASE Retry
  BY <1>2 DEF ResidualMeasured, Retry
<1>3. CASE Answer
  BY <1>3 DEF ResidualMeasured, Answer, deviceVars
<1>4. CASE Wander
  BY <1>4 DEF ResidualMeasured, Wander
<1>5. CASE ModeAccepted
  BY <1>5 DEF StageInv, ResidualMeasured, ModeAccepted
<1>6. CASE ModeRefused
  BY <1>6 DEF StageInv, ResidualMeasured, ModeRefused
<1>7. CASE ModeLost
  BY <1>7 DEF ResidualMeasured, ModeLost
<1>8. CASE ReadClock
  BY <1>8 DEF ResidualMeasured, ReadClock, deviceVars
<1>9. CASE WriteClock
  BY <1>9 DEF StageInv, ResidualMeasured, WriteClock
<1>10. CASE VerifyClock
  <2>1. PICK out \in Trips, back \in Trips :
          LET r == Middle(now + out) - Expected(now + out + back)
          IN  IF WithinTolerance(r)
              THEN SetTimeDone /\ residual' = r
              ELSE SetTimeFails("verify") /\ UNCHANGED residual
    BY <1>10 DEF VerifyClock
  <2> DEFINE r == Middle(now + out) - Expected(now + out + back)
  <2>2. r \in Int /\ Between(r - (error + age), -(EPOCH_MIDPOINT + Spread),
                                              EPOCH_MIDPOINT + Spread)
    BY <1>10, ReadBack DEF VerifyClock, StageInv
  <2> HIDE DEF r
  <2>3. CASE WithinTolerance(r)
    <3>1. residual' = r
      BY <2>1, <2>3 DEF r
    <3>2. QED
      BY <1>10, <2>2, <3>1 DEF VerifyClock, ResidualMeasured, deviceVars
  <2>4. CASE ~ WithinTolerance(r)
    BY <2>1, <2>4 DEF r, SetTimeFails, ResidualMeasured
  <2>5. QED
    BY <2>3, <2>4
<1>11. CASE RequestFails
  BY <1>11 DEF ResidualMeasured, RequestFails, SetTimeFails
<1>12. CASE UNCHANGED vars
  BY <1>12 DEF ResidualMeasured, vars, deviceVars
<1>13. QED
  BY <1>1, <1>2, <1>3, <1>4, <1>5, <1>6, <1>7, <1>8, <1>9, <1>10, <1>11,
     <1>12 DEF Next

(* A read-back disagrees only with firmware that does not take the time.   *)
LEMMA MismatchStep ==
  ASSUME EPOCH_MIDPOINT + 2 * Spread <= Tolerance,
         IInv, MismatchDeserved, [Next]_vars
  PROVE  MismatchDeserved'
<1>1. CASE \E k \in {"sync", "format"} : Call(k)
  BY <1>1 DEF MismatchDeserved, Call, deviceVars
<1>2. CASE Retry
  BY <1>2 DEF MismatchDeserved, Retry
<1>3. CASE Answer
  BY <1>3 DEF MismatchDeserved, Answer, deviceVars
<1>4. CASE Wander
  BY <1>4 DEF MismatchDeserved, Wander
<1>5. CASE ModeAccepted
  BY <1>5 DEF MismatchDeserved, ModeAccepted, ModeReaches
<1>6. CASE ModeRefused
  BY <1>6 DEF MismatchDeserved, ModeRefused, deviceVars, ModeReaches
<1>7. CASE ModeLost
  BY <1>7 DEF MismatchDeserved, ModeLost
<1>8. CASE ReadClock
  BY <1>8 DEF MismatchDeserved, ReadClock, deviceVars
<1>9. CASE WriteClock
  BY <1>9 DEF MismatchDeserved, WriteClock, ClockTakes
<1>10. CASE VerifyClock
  <2>1. PICK out \in Trips, back \in Trips :
          LET r == Middle(now + out) - Expected(now + out + back)
          IN  IF WithinTolerance(r)
              THEN SetTimeDone /\ residual' = r
              ELSE SetTimeFails("verify") /\ UNCHANGED residual
    BY <1>10 DEF VerifyClock
  <2> DEFINE r == Middle(now + out) - Expected(now + out + back)
  <2>2. r \in Int /\ Between(r - (error + age), -(EPOCH_MIDPOINT + Spread),
                                              EPOCH_MIDPOINT + Spread)
    BY <1>10, ReadBack DEF VerifyClock, IInv, StageInv
  <2> HIDE DEF r
  <2>3. CASE WithinTolerance(r)
    BY <2>1, <2>3 DEF r, SetTimeDone, MismatchDeserved
  <2>4. CASE ~ WithinTolerance(r)
    <3>1. ~ Between(error + age, -Spread, Spread)
      BY <2>2, <2>4, Halves, ToleranceAssumption, TripsAssumption DEF
         WithinTolerance, Between, Spread, IInv, TypeOK
    <3>2. firmware.time = "ignores"
      BY <1>10, <3>1 DEF VerifyClock, IInv, AimedInv, TypeOK, Firmwares
    <3>3. QED
      BY <1>10, <3>2 DEF VerifyClock, MismatchDeserved, deviceVars
  <2>5. QED
    BY <2>3, <2>4
<1>11. CASE RequestFails
  BY <1>11 DEF MismatchDeserved, RequestFails, SetTimeFails
<1>12. CASE UNCHANGED vars
  BY <1>12 DEF MismatchDeserved, vars, deviceVars
<1>13. QED
  BY <1>1, <1>2, <1>3, <1>4, <1>5, <1>6, <1>7, <1>8, <1>9, <1>10, <1>11,
     <1>12 DEF Next

-----------------------------------------------------------------------------
(* The theorems.                                                           *)

(* The program starts in it.                                               *)
LEMMA InitInv == ASSUME Init PROVE IInv
<1>1. TypeOK
  <2>1. modeError \in BOOLEAN
    BY DEF Init
  <2>2. QED
    BY <2>1, StartAssumption, SkewsAssumption, RetriesAssumption DEF Init,
       TypeOK, Outcomes
<1>2. QED
  BY <1>1 DEF Init, IInv, StageInv, AimedInv, DriftInv, WrittenIsRight,
     ResidualMeasured, Written, WhenInv, LeftAloneOrRight

(* Every step keeps it.                                                    *)
LEMMA NextInv == ASSUME IInv, [Next]_vars PROVE IInv'
  BY TypeStep, StageStep, AimedStep, DriftStep, RightStep, ResidualStep,
     WhenStep, LeftStep DEF IInv

(* The inductive invariant of the clock writes holds throughout.           *)
THEOREM Invariance == Spec => []IInv
<1>1. Init => IInv
  BY InitInv
<1>2. IInv /\ [Next]_vars => IInv'
  BY NextInv
<1>3. QED
  BY <1>1, <1>2, PTL DEF Spec

(* Every variable keeps its type, and a call makes at most retry_count     *)
(* attempts.                                                               *)
THEOREM TypeCorrect == Spec => []TypeOK
<1>1. IInv => TypeOK
  BY DEF IInv
<1>2. QED
  BY Invariance, <1>1, PTL

(* A clock that takes the time is written to within the error of the       *)
(* latency estimate, and the age of ``when``.                              *)
THEOREM OnTheSecond == Spec => []Aimed
<1>1. IInv => Aimed
  BY DEF IInv, AimedInv, Aimed
<1>2. QED
  BY Invariance, <1>1, PTL

(* A write taken for done left the clock right, whatever the firmware.     *)
THEOREM Right == Spec => []WrittenIsRight
<1>1. IInv => WrittenIsRight
  BY DEF IInv
<1>2. QED
  BY Invariance, <1>1, PTL

(* A call leaves the clock as it found it or right, wherever its attempts  *)
(* fail.                                                                   *)
THEOREM AloneOrRight == Spec => []LeftAloneOrRight
<1>1. IInv => LeftAloneOrRight
  BY DEF IInv
<1>2. QED
  BY Invariance, <1>1, PTL

(* The drift noted after a sync is the one the clock had.                  *)
THEOREM Drift == Spec => []DriftMeasured
<1>1. IInv => DriftMeasured
  BY DEF IInv, DriftInv, DriftMeasured, Written
<1>2. QED
  BY Invariance, <1>1, PTL

(* The residual noted after a sync is the one the clock has.               *)
THEOREM Residual == Spec => []ResidualMeasured
<1>1. IInv => ResidualMeasured
  BY DEF IInv
<1>2. QED
  BY Invariance, <1>1, PTL

(* Latencies that differ by little enough never make a read-back fail.     *)
THEOREM Deserved ==
  ASSUME EPOCH_MIDPOINT + 2 * Spread <= Tolerance
  PROVE  Spec => []MismatchDeserved
<1>1. Init => MismatchDeserved
  BY DEF Init, MismatchDeserved
<1>2. IInv /\ MismatchDeserved /\ [Next]_vars => MismatchDeserved'
  BY MismatchStep
<1>3. QED
  BY Invariance, <1>1, <1>2, PTL DEF Spec
=============================================================================
