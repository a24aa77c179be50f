----------------------------- MODULE LightSleep -----------------------------
(***************************************************************************)
(* What runs around every automatic light sleep of the HP core:            *)
(*                                                                         *)
(*  - rtc_clock_fix.cpp: the sleep path's calibration of RTC_SLOW, taken   *)
(*    over by a wrap of rtc_clk_cal(); the ring of "cold" calibrations     *)
(*    taken by the light-sleep exit callback; the status task;             *)
(*  - hp_awake_stats.cpp: the time not spent asleep.                       *)
(*                                                                         *)
(* One core.  The core sleeps from the IDLE task only, when every task     *)
(* blocks, and both callbacks run with the scheduler held off: a sleep and *)
(* its callbacks are one step, and so is whatever a task does without      *)
(* blocking.  A log line may block, so the steps of                        *)
(* rtc_clock_fix_set_period_sec() on its two sides are two actions.        *)
(***************************************************************************)
EXTENDS Integers, Sequences, FiniteSetsExt, SequencesExt

CONSTANTS
  Periods,       \* the periods of RTC_SLOW a calibration may measure
  Bands,         \* Periods, split into those of one die temperature: closer to
                 \* each other than the jump limit
  RingMax,       \* RTC_CAL_SAMPLES_MAX
  MaxRejectRun,  \* COLD_MAX_REJECT_RUN
  Requests,      \* the numbers of samples that are asked for
  PeriodSecs,    \* the status periods that are asked for
  Word,          \* the values of a uint32_t
  MaxPeriod      \* bound: the time between two readings of the awake time

ASSUME LightSleepAssumption ==
  /\ Periods \subseteq Nat \ {0}
  /\ Requests \subseteq Nat /\ PeriodSecs \subseteq Nat
  /\ {RingMax, MaxRejectRun, Word, MaxPeriod} \subseteq Nat \ {0}
  /\ UNION Bands = Periods

VARIABLES
  \* rtc_clock_fix.cpp
  registered,   \* the exit callback is
  s_samples, s_ring, s_count, s_mean, s_reject_run,
  s_period_sec,
  statusPc,     \* the status task; "none": xTaskCreate() failed
  waitSec,      \* its period_sec
  notified,     \* its notification value
  setterPc,     \* rtc_clock_fix_set_period_sec()
  \* hp_awake_stats.cpp
  sincePeriod,  \* esp_timer_get_time() - s_period_start_us
  s_accumulated_sleep_us,
  \* history
  accepted,     \* the cold calibrations since the ring (re)started, newest last
  band, steady, \* the last `steady' cold calibrations were all of this band
  trulyAwake    \* the time awake since the last reading

ring == <<s_samples, s_ring, s_count, s_mean, s_reject_run>>
status == <<registered, s_period_sec, statusPc, waitSec, notified, setterPc>>
awake == <<sincePeriod, s_accumulated_sleep_us, trulyAwake>>
history == <<accepted, band, steady>>
lightVars == <<ring, status, awake, history>>

-----------------------------------------------------------------------------
(* Settings                                                                *)

RtcCalPeriodSecFloor == 30
RtcCalPeriodSecMax == 3600

ClampSamples(samples) == IF samples < RingMax THEN samples ELSE RingMax

ClampPeriodSec(sec) ==
  CASE sec = 0 -> 0
    [] sec # 0 /\ sec < RtcCalPeriodSecFloor -> RtcCalPeriodSecFloor
    [] OTHER -> IF sec < RtcCalPeriodSecMax THEN sec ELSE RtcCalPeriodSecMax

-----------------------------------------------------------------------------
(* The ring of cold calibrations                                           *)

ColdMaxJumpPpm == 20000

Newest(s, n) == IF Len(s) <= n THEN s ELSE SubSeq(s, Len(s) - n + 1, Len(s))

Minimum(a, b) == IF a < b THEN a ELSE b

(* The rounded mean of n values.                                           *)
RoundedMean(sum, n) == IF n # 0 THEN (sum + n \div 2) \div n ELSE 0

(* update_mean(): the newest is at (s_count - 1) % RTC_CAL_SAMPLES_MAX.    *)
(* Mutant: at s_count % RTC_CAL_SAMPLES_MAX.                               *)
MutSlot(count, i) == (count - i + 1) % RingMax
Slot(count, i) == (count - i) % RingMax
UpdateMean(slots, count, samples) ==
  LET n == Minimum(count, samples)
  IN  RoundedMean(SumFunction([i \in 1..n |-> slots[Slot(count, i)]]), n)

(* s_count only grows until the ring restarts.  Beyond RingMax its value   *)
(* matters modulo RingMax alone, so it is kept below 2 * RingMax.          *)
CountUp(count) == IF count + 1 = 2 * RingMax THEN RingMax ELSE count + 1

IsJump(period) ==
  LET diff == IF period > s_mean THEN period - s_mean ELSE s_mean - period
  IN  s_count >= s_samples /\ diff * 1000000 > s_mean * ColdMaxJumpPpm

Take(count, period) ==
  /\ s_ring' = [s_ring EXCEPT ![count % RingMax] = period]
  /\ s_count' = CountUp(count)
  /\ s_reject_run' = 0
  /\ s_mean' = UpdateMean(s_ring', s_count', s_samples)

(* Mutant: a jump is dropped however many came before it.                  *)
MutAcceptCold(period) ==
  \/ /\ ~IsJump(period)
     /\ Take(s_count, period)
     /\ accepted' = Newest(Append(accepted, period), RingMax)
  \/ /\ IsJump(period)
     /\ UNCHANGED <<s_ring, s_count, s_mean, s_reject_run, accepted>>

(* accept_cold()                                                           *)
AcceptCold(period) ==
  \/ /\ ~IsJump(period)
     /\ Take(s_count, period)
     /\ accepted' = Newest(Append(accepted, period), RingMax)
  \/ /\ IsJump(period) /\ s_reject_run + 1 < MaxRejectRun
     /\ s_reject_run' = s_reject_run + 1
     /\ UNCHANGED <<s_ring, s_count, s_mean, accepted>>
  \/ /\ IsJump(period) /\ s_reject_run + 1 >= MaxRejectRun
     /\ Take(0, period)
     /\ accepted' = <<period>>

(* The longest a settled die goes without a settled mean: each of the      *)
(* samples that enter the mean may have to wait for a run of rejections.   *)
Settling(samples) == MaxRejectRun * samples

Settles(period) ==
  /\ band' = CHOOSE b \in Bands : period \in b
  /\ steady' = IF period \in band THEN Minimum(steady + 1, Settling(RingMax)) ELSE 1

-----------------------------------------------------------------------------
(* A light sleep                                                           *)

ColdMinSleepUs == 2   \* COLD_MIN_SLEEP_US, in the unit of the awake time

(* __wrap_rtc_clk_cal(), called by ESP-IDF's light-sleep path; the two     *)
(* arguments tell that call from every other, which passes through.        *)
WrapRtcClkCal(measured) ==
  IF s_samples # 0 /\ s_count >= s_samples THEN s_mean ELSE measured

(* rtc_clock_fix.cpp's callback.  A calibration of 0 is one that failed.   *)
ClockOnLightSleepExit(slept, cold) ==
  \/ /\ registered /\ s_samples # 0 /\ slept >= ColdMinSleepUs /\ cold # 0
     /\ AcceptCold(cold)
     /\ Settles(cold)
     /\ UNCHANGED s_samples
  \/ /\ ~registered \/ s_samples = 0 \/ slept < ColdMinSleepUs \/ cold = 0
     /\ UNCHANGED <<ring, history>>

(* hp_awake_stats.cpp's callback.                                          *)
AwakeOnLightSleepExit(slept) ==
  s_accumulated_sleep_us' =
    IF slept > 0 THEN s_accumulated_sleep_us + slept ELSE s_accumulated_sleep_us

(* ESP-IDF's light-sleep path: take the calibration from the wrap (no      *)
(* state of the program), sleep, advance esp_timer by the time slept, call *)
(* the exit callbacks.  An attempt may end without a sleep.                *)
LightSleepAttempt(slept, cold) ==
  /\ sincePeriod + slept <= MaxPeriod
  /\ sincePeriod' = sincePeriod + slept
  /\ ClockOnLightSleepExit(slept, cold)
  /\ AwakeOnLightSleepExit(slept)
  /\ UNCHANGED <<status, trulyAwake>>

(* The core runs for a while.                                              *)
CoreRuns ==
  /\ sincePeriod < MaxPeriod
  /\ sincePeriod' = sincePeriod + 1
  /\ trulyAwake' = trulyAwake + 1
  /\ UNCHANGED <<ring, status, s_accumulated_sleep_us, history>>

(* hp_awake_stats_get_and_reset_us(): what it returns,                     *)
AwakeUs ==
  LET awakeFor == sincePeriod - s_accumulated_sleep_us
  IN  (IF awakeFor > 0 THEN awakeFor ELSE 0) % Word

(* Mutant: the accumulated sleep is read and not reset.                    *)
MutGetAndResetUs ==
  /\ sincePeriod' = 0
  /\ trulyAwake' = 0
  /\ UNCHANGED <<ring, status, s_accumulated_sleep_us, history>>

(* and what it resets; the publish task calls it once in a cycle.          *)
GetAndResetUs ==
  /\ sincePeriod' = 0
  /\ s_accumulated_sleep_us' = 0
  /\ trulyAwake' = 0
  /\ UNCHANGED <<ring, status, history>>

-----------------------------------------------------------------------------
(* Settings that arrive                                                    *)

(* rtc_clock_fix_set_samples(); runtime_config_apply_pending() calls it    *)
(* with a number that differs from the one in effect.                      *)
SetSamples(request) ==
  LET samples == ClampSamples(request)
      restart == s_samples = 0
  IN  /\ samples # s_samples
      /\ s_samples' = samples
      /\ s_count' = IF restart THEN 0 ELSE s_count
      /\ s_reject_run' = 0
      /\ s_mean' = UpdateMean(s_ring, s_count', samples)
      /\ accepted' = IF restart THEN <<>> ELSE accepted
      /\ steady' = 0
      /\ UNCHANGED <<s_ring, status, awake, band>>

(* rtc_clock_fix_set_period_sec(): the exchange, then, after a log line,   *)
(* the notification.                                                       *)
SetPeriodSec(request) ==
  /\ setterPc = "idle"
  /\ ClampPeriodSec(request) # s_period_sec
  /\ s_period_sec' = ClampPeriodSec(request)
  /\ setterPc' = "notify"
  /\ UNCHANGED <<ring, registered, statusPc, waitSec, notified, awake, history>>

(* Mutant: no notification when the status is turned off.                  *)
MutSetterNotifies ==
  /\ setterPc = "notify"
  /\ notified' = (notified \/ (statusPc # "none" /\ s_period_sec # 0))
  /\ setterPc' = "idle"
  /\ UNCHANGED <<ring, registered, s_period_sec, statusPc, waitSec, awake, history>>

SetterNotifies ==
  /\ setterPc = "notify"
  /\ notified' = (statusPc # "none")
  /\ setterPc' = "idle"
  /\ UNCHANGED <<ring, registered, s_period_sec, statusPc, waitSec, awake, history>>

-----------------------------------------------------------------------------
(* status_task()                                                           *)

StatusLoads ==
  /\ statusPc = "load"
  /\ waitSec' = s_period_sec
  /\ statusPc' = "wait"
  /\ UNCHANGED <<ring, registered, s_period_sec, notified, setterPc, awake, history>>

(* ulTaskNotifyTake() returns for a notification, or, unless the status is *)
(* off, when the period is over; then the status is logged.                *)
StatusTakes ==
  /\ statusPc = "wait"
  /\ notified \/ waitSec # 0
  /\ statusPc' = IF notified THEN "load" ELSE "log"
  /\ notified' = FALSE
  /\ UNCHANGED <<ring, registered, s_period_sec, waitSec, setterPc, awake, history>>

StatusLogs ==
  /\ statusPc = "log"
  /\ statusPc' = "load"
  /\ UNCHANGED <<ring, registered, s_period_sec, waitSec, notified, setterPc, awake, history>>

-----------------------------------------------------------------------------
(* rtc_clock_fix_start(), which may fail to register the callback and then *)
(* to create the task; hp_awake_stats_init(), which may not fail.          *)
LightInit ==
  /\ s_samples \in {ClampSamples(r) : r \in Requests}
  /\ s_period_sec \in {ClampPeriodSec(r) : r \in PeriodSecs}
  /\ s_ring = [i \in 0..(RingMax - 1) |-> 0]
  /\ s_count = 0 /\ s_mean = 0 /\ s_reject_run = 0
  /\ registered \in BOOLEAN
  /\ statusPc \in IF registered THEN {"load", "none"} ELSE {"none"}
  /\ waitSec = 0 /\ notified = FALSE /\ setterPc = "idle"
  /\ sincePeriod = 0 /\ s_accumulated_sleep_us = 0 /\ trulyAwake = 0
  /\ accepted = <<>> /\ band = {} /\ steady = 0

LightNext ==
  \/ \E slept \in 0..ColdMinSleepUs, cold \in Periods \cup {0} :
       LightSleepAttempt(slept, cold)
  \/ CoreRuns
  \/ GetAndResetUs
  \/ \E r \in Requests : SetSamples(r)
  \/ \E r \in PeriodSecs : SetPeriodSec(r)
  \/ SetterNotifies
  \/ StatusLoads \/ StatusTakes \/ StatusLogs

LightSpec == LightInit /\ [][LightNext]_lightVars

-----------------------------------------------------------------------------
(* Properties                                                              *)

(* rtc_clock_fix.h: "how many of the newest cold calibrations the sleep    *)
(* path averages".  Whatever the number of samples was when a value came   *)
(* in, and wherever the ring wraps, a mean the sleep path is handed is the *)
(* mean of exactly the newest s_samples accepted values.                   *)
MeanIsOfNewest ==
  s_samples # 0 /\ s_count >= s_samples =>
    LET nth(i) == accepted[Len(accepted) + 1 - i]
    IN  /\ Len(accepted) >= s_samples
        /\ s_mean = RoundedMean(SumFunction([i \in 1..s_samples |-> nth(i)]), s_samples)

(* The rejection of glitches does not lock a stale mean in: once the die   *)
(* has settled in one band for long enough, the sleep path is timed by a   *)
(* mean of that band, whatever the ring held and whatever was rejected.    *)
MeanSettles ==
  s_samples # 0 /\ steady >= Settling(s_samples) =>
    \A hot \in Periods :
      \E lo, hi \in band : lo <= WrapRtcClkCal(hot) /\ WrapRtcClkCal(hot) <= hi

(* A new status period "restarts the status task's wait" (rtc_clock_fix.h):*)
(* the task never waits on a period that is no longer in effect without a  *)
(* notification on its way, which matters most for the wait that is off.   *)
NoLostPeriodChange ==
  statusPc = "wait" /\ waitSec # s_period_sec => notified \/ setterPc = "notify"

(* A reading of the awake time is the time the core was not in light sleep *)
(* since the last reading, as long as a uint32_t holds it.                 *)
AwakeIsTrue == trulyAwake < Word => AwakeUs = trulyAwake

(* main.cpp: a failed start leaves ESP-IDF's own calibration in charge.    *)
FailedStartIsStock ==
  statusPc = "none" => \A hot \in Periods : WrapRtcClkCal(hot) = hot
=============================================================================
