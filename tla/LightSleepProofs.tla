-------------------------- MODULE LightSleepProofs --------------------------
(***************************************************************************)
(* Theorems about the light-sleep callbacks and the status task, for any   *)
(* settings, any size of the ring of calibrations and any width of the     *)
(* awake time's result.  That the mean settles bounds a sum of any length  *)
(* and is model-checked only.                                              *)
(***************************************************************************)
EXTENDS LightSleep, TLAPS

-----------------------------------------------------------------------------
(* The status period.  The setter exchanges the period and notifies        *)
(* afterwards; between the two the task may load either period, and may    *)
(* take a notification that was meant for an earlier one.                  *)

(* A new period never leaves the status task waiting on the old one        *)
(* without a notification on its way.                                      *)
THEOREM PeriodChangeIsNoticed == LightSpec => []NoLostPeriodChange
<1>1. LightInit => NoLostPeriodChange
  BY DEF LightInit, NoLostPeriodChange
<1>2. NoLostPeriodChange /\ [LightNext]_lightVars => NoLostPeriodChange'
  <2> SUFFICES ASSUME NoLostPeriodChange, [LightNext]_lightVars
               PROVE  NoLostPeriodChange'
    OBVIOUS
  <2>1. CASE UNCHANGED status
    BY <2>1 DEF status, NoLostPeriodChange
  <2>2. CASE \E r \in PeriodSecs : SetPeriodSec(r)
    BY <2>2 DEF SetPeriodSec, NoLostPeriodChange
  <2>3. CASE SetterNotifies
    <3>1. UNCHANGED statusPc /\ notified' = (statusPc # "none")
      BY <2>3 DEF SetterNotifies
    <3>2. statusPc' = "wait" => notified'
      BY <3>1
    <3> QED
      BY <3>2 DEF NoLostPeriodChange
  <2>4. CASE StatusLoads
    BY <2>4 DEF StatusLoads, NoLostPeriodChange
  <2>5. CASE StatusTakes \/ StatusLogs
    <3>1. statusPc' # "wait"
      BY <2>5 DEF StatusTakes, StatusLogs
    <3> QED
      BY <3>1 DEF NoLostPeriodChange
  <2>6. CASE \/ \E slept \in 0..ColdMinSleepUs, cold \in Periods \cup {0} :
                  LightSleepAttempt(slept, cold)
             \/ CoreRuns \/ GetAndResetUs
             \/ \E r \in Requests : SetSamples(r)
             \/ UNCHANGED lightVars
    BY <2>1, <2>6 DEF LightSleepAttempt, CoreRuns, GetAndResetUs, SetSamples, lightVars
  <2> QED
    BY <2>2, <2>3, <2>4, <2>5, <2>6 DEF LightNext
<1> QED
  BY <1>1, <1>2, PTL DEF LightSpec

-----------------------------------------------------------------------------
(* The awake time.  The clock the reading starts from and the sleep that   *)
(* is subtracted are kept by different code (esp_timer, the callback): at  *)
(* any time they differ by exactly the time awake.                         *)
AwakeInv ==
  /\ s_accumulated_sleep_us \in Nat /\ trulyAwake \in Nat
  /\ sincePeriod = s_accumulated_sleep_us + trulyAwake

LEMMA AwakeStep == AwakeInv /\ [LightNext]_lightVars => AwakeInv'
<1> SUFFICES ASSUME AwakeInv, [LightNext]_lightVars PROVE AwakeInv'
  OBVIOUS
<1>1. CASE UNCHANGED awake
  BY <1>1 DEF AwakeInv, awake
<1>2. CASE \E slept \in 0..ColdMinSleepUs, cold \in Periods \cup {0} :
             LightSleepAttempt(slept, cold)
  <2>1. PICK slept \in 0..ColdMinSleepUs :
          /\ sincePeriod' = sincePeriod + slept
          /\ AwakeOnLightSleepExit(slept)
          /\ UNCHANGED trulyAwake
    BY <1>2 DEF LightSleepAttempt
  <2>2. slept \in Nat
    BY DEF ColdMinSleepUs
  <2>3. s_accumulated_sleep_us' = s_accumulated_sleep_us + slept
    BY <2>1, <2>2 DEF AwakeOnLightSleepExit, AwakeInv
  <2> QED
    BY <2>1, <2>2, <2>3 DEF AwakeInv
<1>3. CASE CoreRuns
  BY <1>3 DEF CoreRuns, AwakeInv
<1>4. CASE GetAndResetUs
  BY <1>4 DEF GetAndResetUs, AwakeInv
<1>5. CASE \/ \E r \in Requests : SetSamples(r)
           \/ \E r \in PeriodSecs : SetPeriodSec(r)
           \/ SetterNotifies \/ StatusLoads \/ StatusTakes \/ StatusLogs
           \/ UNCHANGED lightVars
  BY <1>1, <1>5 DEF SetSamples, SetPeriodSec, SetterNotifies, StatusLoads,
     StatusTakes, StatusLogs, lightVars
<1> QED
  BY <1>2, <1>3, <1>4, <1>5 DEF LightNext

(* A reading of the awake time is the time the core was not in light sleep *)
(* since the last reading, whenever the result's width holds it.           *)
THEOREM AwakeReadingIsTrue == LightSpec => []AwakeIsTrue
<1>1. LightInit => AwakeInv
  BY DEF LightInit, AwakeInv
<1>2. AwakeInv => AwakeIsTrue
  <2> SUFFICES ASSUME AwakeInv, trulyAwake < Word PROVE AwakeUs = trulyAwake
    BY DEF AwakeIsTrue
  <2>1. Word \in Nat \ {0}
    BY LightSleepAssumption
  <2>2. trulyAwake \in Nat
        /\ sincePeriod - s_accumulated_sleep_us = trulyAwake
    BY DEF AwakeInv
  <2>3. AwakeUs = trulyAwake % Word
    BY <2>2 DEF AwakeUs
  <2>4. trulyAwake % Word = trulyAwake
    BY <2>1, <2>2
  <2> QED
    BY <2>3, <2>4
<1> QED
  BY <1>1, <1>2, AwakeStep, PTL DEF LightSpec

-----------------------------------------------------------------------------
(* The mean of the ring.  A slot is the remainder of a counter that is     *)
(* kept below twice the ring's size.                                       *)

LEMMA SlotIs ==
  ASSUME NEW c \in Nat \ {0}, NEW x \in 0..(2 * c - 1)
  PROVE  x % c = IF x < c THEN x ELSE x - c
<1>1. ASSUME NEW q \in Int, NEW r \in 0..(c - 1) PROVE (c * q + r) % c = r
  OBVIOUS
<1>2. CASE x < c
  <2>1. x \in 0..(c - 1) /\ x = c * 0 + x
    BY <1>2
  <2>2. (c * 0 + x) % c = x
    BY <1>1, <2>1
  <2> QED
    BY <1>2, <2>1, <2>2
<1>3. CASE ~(x < c)
  <2>1. x - c \in 0..(c - 1) /\ x = c * 1 + (x - c)
    BY <1>3
  <2>2. (c * 1 + (x - c)) % c = x - c
    BY <1>1, <2>1
  <2> QED
    BY <1>3, <2>1, <2>2
<1> QED
  BY <1>2, <1>3

(* The ring holds the accepted calibrations, the newest RingMax of them,   *)
(* the i-th newest in the slot update_mean() reads for i; and s_mean is    *)
(* what update_mean() computes from it.                                    *)
Held(count, slots, values) ==
  /\ values \in Seq(Nat) /\ Len(values) = Minimum(count, RingMax)
  /\ \A i \in 1..Len(values) : slots[Slot(count, i)] = values[Len(values) + 1 - i]

RingInv ==
  /\ s_samples \in 0..RingMax
  /\ s_count \in 0..(2 * RingMax - 1) /\ s_ring \in [0..(RingMax - 1) -> Nat]
  /\ Held(s_count, s_ring, accepted)
  /\ s_mean = UpdateMean(s_ring, s_count, s_samples)

(* The slots of the values already there do not move when one is taken,    *)
(* and none of those that are kept is overwritten.                         *)
LEMMA SlotStep ==
  ASSUME NEW count \in 0..(2 * RingMax - 1)
  PROVE  /\ CountUp(count) \in 1..(2 * RingMax - 1)
         /\ Minimum(CountUp(count), RingMax) = Minimum(Minimum(count, RingMax) + 1, RingMax)
         /\ count % RingMax \in 0..(RingMax - 1)
         /\ Slot(CountUp(count), 1) = count % RingMax
         /\ \A i \in 2..Minimum(CountUp(count), RingMax) :
              /\ i - 1 \in 1..Minimum(count, RingMax)
              /\ Slot(CountUp(count), i) = Slot(count, i - 1)
              /\ Slot(count, i - 1) \in 0..(RingMax - 1) /\ Slot(count, i - 1) # count % RingMax
<1>0. RingMax \in Nat \ {0} /\ count \in Nat
  BY LightSleepAssumption
<1> DEFINE up == CountUp(count)
<1>1. up \in 1..(2 * RingMax - 1) /\ up = IF count + 1 = 2 * RingMax THEN RingMax ELSE count + 1
  BY <1>0 DEF CountUp
<1>2. Minimum(up, RingMax) = Minimum(Minimum(count, RingMax) + 1, RingMax)
  BY <1>0, <1>1 DEF Minimum
<1>3. count % RingMax = IF count < RingMax THEN count ELSE count - RingMax
  BY <1>0, SlotIs
<1> HIDE DEF up
<1>4. \A i \in 1..Minimum(up, RingMax) : up - i \in 0..(2 * RingMax - 1) /\ i <= RingMax
  BY <1>0, <1>1 DEF Minimum
<1>5. \A i \in 1..Minimum(up, RingMax) :
        Slot(up, i) = IF up - i < RingMax THEN up - i ELSE up - i - RingMax
  BY <1>0, <1>4, SlotIs DEF Slot
<1>6. 1 \in 1..Minimum(up, RingMax) /\ Minimum(up, RingMax) \in Nat
  BY <1>0, <1>1 DEF Minimum
<1>7. Slot(up, 1) = count % RingMax
  BY <1>0, <1>1, <1>3, <1>5, <1>6
<1>8. ASSUME NEW i \in 2..Minimum(up, RingMax)
      PROVE  /\ i - 1 \in 1..Minimum(count, RingMax) /\ Slot(up, i) = Slot(count, i - 1)
             /\ Slot(count, i - 1) \in 0..(RingMax - 1) /\ Slot(count, i - 1) # count % RingMax
  <2>1. i - 1 \in 1..Minimum(count, RingMax) /\ i \in 1..Minimum(up, RingMax) /\ i <= RingMax
    BY <1>0, <1>1, <1>6 DEF Minimum
  <2>2. count - (i - 1) \in 0..(2 * RingMax - 1)
    BY <1>0, <2>1 DEF Minimum
  <2>3. Slot(count, i - 1) = IF count - (i - 1) < RingMax THEN count - (i - 1)
                             ELSE count - (i - 1) - RingMax
    BY <1>0, <2>2, SlotIs DEF Slot
  <2>4. Slot(up, i) = IF up - i < RingMax THEN up - i ELSE up - i - RingMax
    BY <1>5, <2>1
  <2>5. i - 1 \in 1..(RingMax - 1)
    BY <1>0, <2>1
  <2> QED
    BY <1>0, <1>1, <1>3, <2>1, <2>2, <2>3, <2>4, <2>5
<1> QED
  BY <1>0, <1>1, <1>2, <1>3, <1>7, <1>8 DEF up

(* The newest RingMax of a sequence that one value is appended to.         *)
LEMMA NewestAppend ==
  ASSUME NEW values \in Seq(Nat), Len(values) <= RingMax, NEW period \in Nat
  PROVE  LET after == Newest(Append(values, period), RingMax)
         IN  /\ after \in Seq(Nat) /\ Len(after) = Minimum(Len(values) + 1, RingMax)
             /\ after[Len(after)] = period
             /\ \A i \in 2..Len(after) :
                  after[Len(after) + 1 - i] = values[Len(values) + 1 - (i - 1)]
<1>0. RingMax \in Nat \ {0} /\ Len(values) \in Nat
  BY LightSleepAssumption
<1> DEFINE s == Append(values, period)
           after == Newest(s, RingMax)
<1>1. s \in Seq(Nat) /\ Len(s) = Len(values) + 1 /\ s[Len(values) + 1] = period
      /\ \A i \in 1..Len(values) : s[i] = values[i]
  OBVIOUS
<1> HIDE DEF s
<1>2. CASE Len(values) < RingMax
  <2>1. after = s
    BY <1>0, <1>1, <1>2 DEF Newest
  <2>2. \A i \in 2..Len(s) : Len(s) + 1 - i \in 1..Len(values)
          /\ Len(s) + 1 - i = Len(values) + 1 - (i - 1)
    BY <1>0, <1>1
  <2>3. Len(s) = Minimum(Len(values) + 1, RingMax)
    BY <1>0, <1>1, <1>2 DEF Minimum
  <2> QED
    BY <1>1, <2>1, <2>2, <2>3 DEF s
<1>3. CASE Len(values) = RingMax
  <2>1. after = SubSeq(s, 2, RingMax + 1)
    BY <1>0, <1>1, <1>3 DEF Newest
  <2>2. after \in Seq(Nat) /\ Len(after) = RingMax
        /\ \A j \in 1..RingMax : after[j] = s[j + 1]
    BY <1>0, <1>1, <1>3, <2>1
  <2> HIDE DEF after
  <2>3. RingMax \in 1..RingMax /\ after[RingMax] = period
    BY <1>0, <1>1, <1>3, <2>2
  <2>4. ASSUME NEW i \in 2..RingMax
        PROVE  after[RingMax + 1 - i] = values[Len(values) + 1 - (i - 1)]
    <3>1. RingMax + 1 - i \in 1..RingMax
          /\ (RingMax + 1 - i) + 1 = Len(values) + 1 - (i - 1)
          /\ Len(values) + 1 - (i - 1) \in 1..Len(values)
      BY <1>0, <1>3
    <3> QED
      BY <1>1, <2>2, <3>1
  <2>5. RingMax = Minimum(Len(values) + 1, RingMax)
    BY <1>0, <1>3 DEF Minimum
  <2> QED
    BY <2>2, <2>3, <2>4, <2>5 DEF after, s
<1> QED
  BY <1>0, <1>2, <1>3

LEMMA TakeStep ==
  ASSUME RingInv, NEW period \in Nat, NEW count \in 0..(2 * RingMax - 1), NEW values,
         Take(count, period), Held(count, s_ring, values),
         accepted' = Newest(Append(values, period), RingMax), UNCHANGED s_samples
  PROVE  RingInv'
<1>0. RingMax \in Nat \ {0}
  BY LightSleepAssumption
<1>1. /\ values \in Seq(Nat) /\ Len(values) = Minimum(count, RingMax)
      /\ \A i \in 1..Len(values) : s_ring[Slot(count, i)] = values[Len(values) + 1 - i]
  BY DEF Held
<1>2. Len(values) \in Nat /\ Len(values) <= RingMax
  BY <1>0, <1>1 DEF Minimum
<1>3. /\ s_ring' = [s_ring EXCEPT ![count % RingMax] = period] /\ s_count' = CountUp(count)
      /\ s_mean' = UpdateMean(s_ring', s_count', s_samples)
  BY DEF Take
<1>4. /\ s_count' \in 1..(2 * RingMax - 1)
      /\ Minimum(s_count', RingMax) = Minimum(Minimum(count, RingMax) + 1, RingMax)
      /\ count % RingMax \in 0..(RingMax - 1) /\ Slot(s_count', 1) = count % RingMax
      /\ \A i \in 2..Minimum(s_count', RingMax) :
           /\ i - 1 \in 1..Minimum(count, RingMax) /\ Slot(s_count', i) = Slot(count, i - 1)
           /\ Slot(count, i - 1) \in 0..(RingMax - 1) /\ Slot(count, i - 1) # count % RingMax
  BY <1>3, SlotStep
<1>5. /\ accepted' \in Seq(Nat) /\ Len(accepted') = Minimum(Len(values) + 1, RingMax)
      /\ accepted'[Len(accepted')] = period
      /\ \A i \in 2..Len(accepted') :
           accepted'[Len(accepted') + 1 - i] = values[Len(values) + 1 - (i - 1)]
  BY <1>1, <1>2, NewestAppend
<1>6. s_ring \in [0..(RingMax - 1) -> Nat]
  BY DEF RingInv
<1>7. s_ring' \in [0..(RingMax - 1) -> Nat] /\ s_ring'[count % RingMax] = period
      /\ \A n \in 0..(RingMax - 1) : n # count % RingMax => s_ring'[n] = s_ring[n]
  BY <1>3, <1>4, <1>6
<1>8. Len(accepted') = Minimum(s_count', RingMax)
  BY <1>1, <1>4, <1>5
<1>9. ASSUME NEW i \in 1..Len(accepted')
      PROVE  s_ring'[Slot(s_count', i)] = accepted'[Len(accepted') + 1 - i]
  <2>1. CASE i = 1
    <3>1. Len(accepted') + 1 - 1 = Len(accepted')
      BY <1>5
    <3> QED
      BY <1>4, <1>5, <1>7, <2>1, <3>1
  <2>2. CASE i # 1
    <3>1. i \in 2..Len(accepted')
      BY <1>5, <2>2
    <3>2. i - 1 \in 1..Len(values)
      BY <1>1, <1>4, <1>8, <3>1
    <3>3. s_ring'[Slot(s_count', i)] = s_ring[Slot(count, i - 1)]
      BY <1>4, <1>7, <1>8, <3>1
    <3> QED
      BY <1>1, <1>5, <3>1, <3>2, <3>3
  <2> QED
    BY <2>1, <2>2
<1>10. s_samples' \in 0..RingMax
  BY DEF RingInv
<1>11. s_count' \in 0..(2 * RingMax - 1)
  BY <1>0, <1>4
<1>12. accepted' \in Seq(Nat)
  BY <1>5
<1>13. Held(s_count', s_ring', accepted')
  BY <1>8, <1>9, <1>12 DEF Held
<1>14. s_mean' = UpdateMean(s_ring', s_count', s_samples')
  BY <1>3
<1> QED
  BY <1>7, <1>10, <1>11, <1>13, <1>14 DEF RingInv

LEMMA NothingHeld ==
  ASSUME NEW slots
  PROVE  Held(0, slots, <<>>)
<1>1. RingMax \in Nat \ {0}
  BY LightSleepAssumption
<1>2. Minimum(0, RingMax) = 0
  BY <1>1 DEF Minimum
<1> QED
  BY <1>2 DEF Held

LEMMA RingStep == RingInv /\ [LightNext]_lightVars => RingInv'
<1> SUFFICES ASSUME RingInv, [LightNext]_lightVars PROVE RingInv'
  OBVIOUS
<1>0. RingMax \in Nat \ {0} /\ Periods \subseteq Nat
  BY LightSleepAssumption
<1>1. CASE UNCHANGED <<ring, history>>
  BY <1>1 DEF RingInv, ring, history
<1>2. ASSUME NEW slept \in 0..ColdMinSleepUs, NEW cold \in Periods \cup {0},
             LightSleepAttempt(slept, cold)
      PROVE  RingInv'
  <2>0. cold \in Nat
    BY <1>0
  <2>1. CASE AcceptCold(cold) /\ UNCHANGED s_samples
    <3>1. CASE Take(s_count, cold) /\ accepted' = Newest(Append(accepted, cold), RingMax)
      <4>1. s_count \in 0..(2 * RingMax - 1) /\ Held(s_count, s_ring, accepted)
        BY DEF RingInv
      <4> QED
        BY <2>0, <2>1, <3>1, <4>1, TakeStep
    <3>2. CASE UNCHANGED <<s_ring, s_count, s_mean, accepted>>
      BY <2>1, <3>2 DEF RingInv
    <3>3. CASE Take(0, cold) /\ accepted' = <<cold>>
      <4>1. 0 \in 0..(2 * RingMax - 1)
        BY <1>0
      <4>2. Append(<<>>, cold) = <<cold>> /\ Len(<<cold>>) = 1
        OBVIOUS
      <4>3. Newest(Append(<<>>, cold), RingMax) = <<cold>>
        BY <1>0, <4>2 DEF Newest
      <4> QED
        BY <2>0, <2>1, <3>3, <4>1, <4>3, NothingHeld, TakeStep
    <3> QED
      BY <2>1, <3>1, <3>2, <3>3 DEF AcceptCold
  <2> QED
    BY <1>1, <1>2, <2>1 DEF LightSleepAttempt, ClockOnLightSleepExit
<1>3. ASSUME NEW r \in Requests, SetSamples(r) PROVE RingInv'
  <2>1. /\ s_samples' = ClampSamples(r) /\ s_ring' = s_ring
        /\ s_mean' = UpdateMean(s_ring', s_count', s_samples')
        /\ \/ s_count' = 0 /\ accepted' = <<>>
           \/ UNCHANGED <<s_count, accepted>>
    BY <1>3 DEF SetSamples
  <2>2. ClampSamples(r) \in 0..RingMax
    BY <1>0, LightSleepAssumption DEF ClampSamples
  <2>3. s_count' \in 0..(2 * RingMax - 1) /\ Held(s_count', s_ring', accepted')
    BY <1>0, <2>1, NothingHeld DEF RingInv
  <2> QED
    BY <2>1, <2>2, <2>3 DEF RingInv
<1>4. CASE \/ CoreRuns \/ GetAndResetUs
           \/ \E r \in PeriodSecs : SetPeriodSec(r)
           \/ SetterNotifies \/ StatusLoads \/ StatusTakes \/ StatusLogs
           \/ UNCHANGED lightVars
  BY <1>1, <1>4 DEF CoreRuns, GetAndResetUs, SetPeriodSec, SetterNotifies, StatusLoads,
     StatusTakes, StatusLogs, lightVars
<1> QED
  BY <1>2, <1>3, <1>4 DEF LightNext

(* The mean handed to the sleep path is the rounded mean of exactly the    *)
(* newest s_samples accepted calibrations, for any size of the ring and    *)
(* through every wrap, rejection, restart and change of the setting.       *)
THEOREM MeanIsNewest == LightSpec => []MeanIsOfNewest
<1>1. LightInit => RingInv
  <2> SUFFICES ASSUME LightInit PROVE RingInv
    OBVIOUS
  <2>0. RingMax \in Nat \ {0} /\ Requests \subseteq Nat
    BY LightSleepAssumption
  <2>1. /\ s_count = 0 /\ accepted = <<>> /\ s_mean = 0
        /\ s_ring = [i \in 0..(RingMax - 1) |-> 0] /\ s_samples \in 0..RingMax
    <3>1. \A r \in Requests : ClampSamples(r) \in 0..RingMax
      BY <2>0 DEF ClampSamples
    <3>2. s_samples \in {ClampSamples(r) : r \in Requests}
      BY DEF LightInit
    <3>3. s_samples \in 0..RingMax
      BY <3>1, <3>2
    <3> QED
      BY <3>3 DEF LightInit
  <2>2. UpdateMean(s_ring, 0, s_samples) = 0
    <3>1. Minimum(0, s_samples) = 0
      BY <2>0, <2>1 DEF Minimum
    <3> QED
      BY <3>1 DEF UpdateMean, RoundedMean
  <2> QED
    BY <2>0, <2>1, <2>2, NothingHeld DEF RingInv
<1>2. RingInv => MeanIsOfNewest
  <2> SUFFICES ASSUME RingInv, s_samples # 0, s_count >= s_samples
               PROVE  LET nth(i) == accepted[Len(accepted) + 1 - i]
                      IN  /\ Len(accepted) >= s_samples
                          /\ s_mean = RoundedMean(
                               SumFunction([i \in 1..s_samples |-> nth(i)]), s_samples)
    BY DEF MeanIsOfNewest
  <2>0. /\ RingMax \in Nat \ {0} /\ s_samples \in 0..RingMax
        /\ s_count \in 0..(2 * RingMax - 1) /\ Len(accepted) = Minimum(s_count, RingMax)
        /\ \A i \in 1..Len(accepted) :
             s_ring[Slot(s_count, i)] = accepted[Len(accepted) + 1 - i]
        /\ s_mean = UpdateMean(s_ring, s_count, s_samples)
    BY LightSleepAssumption DEF RingInv, Held
  <2>1. Len(accepted) >= s_samples /\ Minimum(s_count, s_samples) = s_samples
        /\ Len(accepted) \in Nat
    BY <2>0 DEF Minimum
  <2>2. \A i \in 1..s_samples : i \in 1..Len(accepted)
    BY <2>0, <2>1
  <2>3. [i \in 1..s_samples |-> s_ring[Slot(s_count, i)]]
          = [i \in 1..s_samples |-> accepted[Len(accepted) + 1 - i]]
    BY <2>0, <2>2
  <2>4. s_mean = RoundedMean(SumFunction([i \in 1..s_samples |-> s_ring[Slot(s_count, i)]]),
                             s_samples)
    BY <2>0, <2>1, Zenon DEF UpdateMean
  <2> QED
    BY <2>1, <2>3, <2>4, Zenon
<1> QED
  BY <1>1, <1>2, RingStep, PTL DEF LightSpec
=============================================================================
