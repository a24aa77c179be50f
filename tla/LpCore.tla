------------------------------- MODULE LpCore -------------------------------
(***************************************************************************)
(* The LP (low power) core program and the RTC memory block it shares with *)
(* the HP core.                                                            *)
(*                                                                         *)
(*   - one run of the LP program (lp_core/main.cpp, main()) is the chain   *)
(*     LpStart, LpConsume*, LpBegin, LpMeasure, [LpHeaterOn, LpHeaterRun,  *)
(*     LpHeaterOff,] LpCalibrate, LpDecide, LpEnd, LpWake; an action is    *)
(*     the stretch of stores between two points at which the other core    *)
(*     can observe or change something;                                    *)
(*   - lp_sensor_core_get_state() is Rd*, lp_sensor_core_ack_delivered()   *)
(*     is Ack*, lp_sensor_core_apply_config() is Cfg*: every access to the *)
(*     shared words is a step of its own.                                  *)
(*                                                                         *)
(* Spec composes the LP program with an HP side that reads at any time,    *)
(* acknowledges readings it saw flagged and rewrites the configuration.    *)
(* SensorsTask.tla composes the same actions with the real HP task.        *)
(***************************************************************************)
EXTENDS Integers, FiniteSets, Sequences

CONSTANTS
  Temps,        \* temperatures a measurement can return (whole degrees)
  Hums,         \* relative humidities a measurement can return (percent)
  BootConfig,   \* the configuration lp_sensor_core_init() writes
  Configs,      \* the configurations lp_sensor_core_apply_config() may write
  SensorMayFail,\* may every sample of a measurement fail?
  ReadAttempts, \* retries of lp_sensor_core_get_state() (10 in the code)
  MaxPolls,     \* bound: LP runs per boot
  MaxAcks,      \* bound: acknowledgements per boot
  AckOverlap,   \* may HP acknowledge before LP has consumed the previous ack?
  MaxConfigs    \* bound: live configuration changes per boot

(* The words of lp_sensor_core_config_t, in the order they are stored.     *)
ConfigFields ==
  << "sensor_samples", "temp_offset_c", "temp_min_change_c", "rh_offset_pct",
     "rh_min_change_pct", "max_skip_cycles", "heater_period_cycles",
     "high_rh_trigger_cycles" >>

ConfigField == { ConfigFields[i] : i \in 1..Len(ConfigFields) }

(* The words of a result the HP task acts on, in struct order.             *)
ResultFields ==
  << "heartbeat_counter", "sensor_ok", "cal_temp_c", "cal_hum_pct",
     "should_wake_hp", "last_heater_run_cycle" >>

ResultField == { "heartbeat_counter", "sensor_ok", "cal_temp_c",
                 "cal_hum_pct", "should_wake_hp", "last_heater_run_cycle" }

ASSUME LpConstants ==
  /\ Temps \subseteq Int /\ Temps # {}
  /\ Hums \subseteq Int /\ Hums # {}
  /\ BootConfig \in [ConfigField -> Int]
  /\ Configs \subseteq [ConfigField -> Int]
  /\ \A c \in Configs \cup {BootConfig} : c["max_skip_cycles"] \in Nat
  /\ ReadAttempts \in Nat \ {0}
  /\ MaxPolls \in Nat /\ MaxAcks \in Nat /\ MaxConfigs \in Nat
  /\ AckOverlap \in BOOLEAN /\ SensorMayFail \in BOOLEAN

VARIABLES
  config,     \* HP -> LP configuration block
  g,          \* LP -> HP result words
  result_seq, \* seqlock over g
  prev,       \* prev_delivered_temp_c / prev_delivered_hum_pct
  skipped_cycles,
  cycles_since_heater,
  high_rh_cycles,
  hp_ack_seq, \* HP -> LP acknowledgement: counter and the two values
  hp_acked,
  lastConsumedAckSeq,
  lpPc,       \* where the LP program is
  lp,         \* its locals
  ulpWake,    \* a wakeup request to the HP core is latched
  rdPc,       \* lp_sensor_core_get_state()
  rd,         \* its locals: attempt, seq_before, next word to copy
  out,        \* the caller's snapshot
  ackPc,      \* lp_sensor_core_ack_delivered()
  ackVal,     \* its arguments
  ackPoll,    \* heartbeat of the snapshot last acknowledged
  cfgPos,     \* lp_sensor_core_apply_config(): words already stored
  cfgNew,     \* its argument
  acked,      \* history: every reading passed to ack_delivered()
  configs,    \* history: live configuration changes so far
  stable,     \* history: every result the LP program made readable
  silent,     \* history: polls skipped since the last flag or ack
  rhUsed      \* history: rh_offset_pct values used by the current LP run

result == <<g, result_seq>>
baseline == <<prev, skipped_cycles, lastConsumedAckSeq>>
heater == <<cycles_since_heater, high_rh_cycles>>
ackMem == <<hp_ack_seq, hp_acked>>
lpVars == <<lpPc, lp>>
rdVars == <<rdPc, rd, out>>
ackVars == <<ackPc, ackVal, ackPoll, acked>>
cfgVars == <<config, cfgPos, cfgNew, configs>>
history == <<silent, rhUsed>>
hpVars == <<rdVars, ackVars, cfgVars>>
vars == <<result, baseline, heater, ackMem, lpVars, ulpWake, rdVars, ackVars,
          cfgVars, history, stable>>

-----------------------------------------------------------------------------
Reading == [t : Int, h : Int]
ZeroReading == [t |-> 0, h |-> 0]

(* An lp_shared_state_t of all zeroes: what load_binary leaves in RTC      *)
(* memory and what the HP task passes to get_state().                      *)
ZeroState == [f \in ResultField |-> 0]

IsOdd(n) == n % 2 = 1
Clamp(v, lo, hi) == IF v < lo THEN lo ELSE IF v > hi THEN hi ELSE v
Abs(v) == IF v < 0 THEN -v ELSE v
Flag(b) == IF b THEN 1 ELSE 0

(* kHighRhThreshold                                                        *)
HighRhThreshold == 90

(* Calibration of a raw reading by the configuration block.                *)
Calibrated(r, c) ==
  [t |-> Clamp(r.t + c["temp_offset_c"], -273, 3000),
   h |-> Clamp(r.h + c["rh_offset_pct"], 0, 100)]

(* The reading a result carries.                                           *)
CalReading(s) == [t |-> s["cal_temp_c"], h |-> s["cal_hum_pct"]]

SameAsPrevDelivered(r, p, c) ==
  /\ Abs(r.t - p.t) < c["temp_min_change_c"]
  /\ Abs(r.h - p.h) < c["rh_min_change_pct"]

LpLocals == [seq : Nat, wasOk : {0, 1}, ok : BOOLEAN, raw : Reading]

-----------------------------------------------------------------------------
(* lp_sensor_core_init() and lp_sensor_core_start(): the binary is loaded, *)
(* which zeroes the shared block and the LP statics, the configuration is  *)
(* written, and the LP timer is started.                                   *)
LpInit ==
  /\ config = BootConfig
  /\ g = ZeroState
  /\ result_seq = 0
  /\ prev = ZeroReading
  /\ skipped_cycles = 0
  /\ cycles_since_heater = 0
  /\ high_rh_cycles = 0
  /\ hp_ack_seq = 0
  /\ hp_acked = ZeroReading
  /\ lastConsumedAckSeq = 0
  /\ lpPc = "sleep"
  /\ lp = [seq |-> 0, wasOk |-> 0, ok |-> FALSE, raw |-> ZeroReading]
  /\ ulpWake = FALSE
  /\ rdPc = "idle"
  /\ rd = [attempt |-> 0, seq |-> 0, next |-> 1]
  /\ out = ZeroState
  /\ ackPc = "idle"
  /\ ackVal = ZeroReading
  /\ ackPoll = 0
  /\ cfgPos = Len(ConfigFields)
  /\ cfgNew = BootConfig
  /\ acked = {ZeroReading}
  /\ configs = 0
  /\ stable = {ZeroState}
  /\ silent = 0
  /\ rhUsed = {}

-----------------------------------------------------------------------------
(* The LP program.                                                         *)

(* The LP timer fires; the program looks for an acknowledgement.           *)
LpStart ==
  /\ lpPc = "sleep"
  /\ g["heartbeat_counter"] < MaxPolls
  /\ lpPc' = IF hp_ack_seq # lastConsumedAckSeq THEN "consumeTemp" ELSE "begin"
  /\ lp' = [lp EXCEPT !.seq = hp_ack_seq]
  /\ rhUsed' = {}
  /\ UNCHANGED <<result, baseline, heater, ackMem, ulpWake, hpVars, silent>>

LpConsumeTemp ==
  /\ lpPc = "consumeTemp"
  /\ prev' = [prev EXCEPT !.t = hp_acked.t]
  /\ lpPc' = "consumeHum"
  /\ UNCHANGED <<result, skipped_cycles, lastConsumedAckSeq, heater, ackMem,
                 lp, ulpWake, hpVars, history>>

(* Mutant: the humidity of an acknowledgement is not taken over.           *)
MutConsumeHum ==
  /\ lpPc = "consumeHum"
  /\ skipped_cycles' = 0
  /\ silent' = 0
  /\ lpPc' = "consumeSeq"
  /\ UNCHANGED <<result, prev, lastConsumedAckSeq, heater, ackMem, lp, ulpWake,
                 hpVars, rhUsed>>

LpConsumeHum ==
  /\ lpPc = "consumeHum"
  /\ prev' = [prev EXCEPT !.h = hp_acked.h]
  /\ skipped_cycles' = 0
  /\ silent' = 0
  /\ lpPc' = "consumeSeq"
  /\ UNCHANGED <<result, lastConsumedAckSeq, heater, ackMem, lp, ulpWake,
                 hpVars, rhUsed>>

(* hp_ack_seq is a plain (non-volatile) word named twice: the build may    *)
(* keep the value LpStart compared or load it again.                       *)
LpConsumeSeq ==
  /\ lpPc = "consumeSeq"
  /\ lastConsumedAckSeq' \in {lp.seq, hp_ack_seq}
  /\ lpPc' = "begin"
  /\ UNCHANGED <<result, prev, skipped_cycles, heater, ackMem, lp, ulpWake,
                 hpVars, history>>

(* wasOk is read, and the seqlock goes odd.                                *)
LpBegin ==
  /\ lpPc = "begin"
  /\ lp' = [lp EXCEPT !.wasOk = g["sensor_ok"]]
  /\ result_seq' = result_seq + 1
  /\ lpPc' = "measure"
  /\ UNCHANGED <<g, baseline, heater, ackMem, ulpWake, hpVars, history>>

HighRh(r) == Calibrated(r, config).h > HighRhThreshold

HeaterDue(since, high) ==
  \/ config["heater_period_cycles"] > 0 /\ since >= config["heater_period_cycles"]
  \/ config["high_rh_trigger_cycles"] > 0 /\ high >= config["high_rh_trigger_cycles"]

(* measureAveraged() fails only when every sample fails; a reading moves   *)
(* the heater schedule and may start a maintenance run.                    *)
LpMeasure ==
  /\ lpPc = "measure"
  /\ \/ /\ SensorMayFail
        /\ g' = [g EXCEPT !["heartbeat_counter"] = @ + 1, !["sensor_ok"] = 0]
        /\ lp' = [lp EXCEPT !.ok = FALSE]
        /\ lpPc' = "decide"
        /\ UNCHANGED <<heater, rhUsed>>
     \/ \E t \in Temps, h \in Hums :
          LET raw   == [t |-> t, h |-> h]
              since == cycles_since_heater + 1
              high  == IF HighRh(raw) THEN high_rh_cycles + 1 ELSE 0
          IN  /\ g' = [g EXCEPT !["heartbeat_counter"] = @ + 1, !["sensor_ok"] = 1]
              /\ lp' = [lp EXCEPT !.ok = TRUE, !.raw = raw]
              /\ cycles_since_heater' = since
              /\ high_rh_cycles' = high
              /\ rhUsed' = {config["rh_offset_pct"]}
              /\ lpPc' = IF HeaterDue(since, high) THEN "heaterOn" ELSE "calibrate"
  /\ UNCHANGED <<result_seq, baseline, ackMem, ulpWake, hpVars, silent>>

(* "Heater running" is published as a stable snapshot of its own.          *)
LpHeaterOn ==
  /\ lpPc = "heaterOn"
  /\ result_seq' = result_seq + 1
  /\ lpPc' = "heater"
  /\ UNCHANGED <<g, baseline, heater, ackMem, lp, ulpWake, hpVars, silent,
                 rhUsed>>

(* Mutant: writing resumes after the heater without the odd counter.       *)
MutHeaterRun ==
  /\ lpPc = "heater"
  /\ \E t \in Temps, h \in Hums : lp' = [lp EXCEPT !.raw = [t |-> t, h |-> h]]
  /\ lpPc' = "heaterLog"
  /\ UNCHANGED <<result, baseline, heater, ackMem, ulpWake, hpVars, history>>

(* runHeaterMaintenance() ends, minutes later: with a clean reading, or    *)
(* without one when even its baseline read failed.  The seqlock goes odd.  *)
LpHeaterRun ==
  /\ lpPc = "heater"
  /\ result_seq' = result_seq + 1
  /\ \/ \E t \in Temps, h \in Hums :
          /\ lp' = [lp EXCEPT !.raw = [t |-> t, h |-> h]]
          /\ lpPc' = "heaterLog"
     \/ /\ lp' = lp
        /\ lpPc' = "heaterOff"
  /\ UNCHANGED <<g, baseline, heater, ackMem, ulpWake, hpVars, history>>

LpHeaterLog ==
  /\ lpPc = "heaterLog"
  /\ g' = [g EXCEPT !["last_heater_run_cycle"] = g["heartbeat_counter"]]
  /\ lpPc' = "heaterOff"
  /\ UNCHANGED <<result_seq, baseline, heater, ackMem, lp, ulpWake, hpVars,
                 history>>

LpHeaterOff ==
  /\ lpPc = "heaterOff"
  /\ cycles_since_heater' = 0
  /\ high_rh_cycles' = 0
  /\ lpPc' = "calibrate"
  /\ UNCHANGED <<result, baseline, ackMem, lp, ulpWake, hpVars, history>>

LpCalibrate ==
  /\ lpPc = "calibrate"
  /\ LET cal == Calibrated(lp.raw, config)
     IN  g' = [g EXCEPT !["cal_temp_c"] = cal.t, !["cal_hum_pct"] = cal.h]
  /\ rhUsed' = rhUsed \cup {config["rh_offset_pct"]}
  /\ lpPc' = "decide"
  /\ UNCHANGED <<result_seq, baseline, heater, ackMem, lp, ulpWake, hpVars,
                 silent>>

(* Mutant: the skip budget is off by one.                                  *)
MutSkipThisCycle ==
  /\ lp.ok
  /\ SameAsPrevDelivered(CalReading(g), prev, config)
  /\ skipped_cycles <= config["max_skip_cycles"]

(* Mutant: the skip budget holds back changed values too.                  *)
MutSkipChanged == lp.ok /\ skipped_cycles < config["max_skip_cycles"]

(* The skip gate.  A failed measurement has no value to compare, and wakes *)
(* the HP core only when the previous one had succeeded.                   *)
SkipThisCycle ==
  /\ lp.ok
  /\ SameAsPrevDelivered(CalReading(g), prev, config)
  /\ skipped_cycles < config["max_skip_cycles"]

ValueDriven == lp.ok /\ ~SkipThisCycle

LpDecide ==
  /\ lpPc = "decide"
  /\ skipped_cycles' = IF SkipThisCycle THEN skipped_cycles + 1 ELSE skipped_cycles
  /\ g' = [g EXCEPT !["should_wake_hp"] =
                      Flag(ValueDriven \/ (lp.wasOk # 0 /\ ~lp.ok))]
  /\ silent' = IF g'["should_wake_hp"] # 0 THEN 0
               ELSE IF lp.ok THEN silent + 1 ELSE silent
  /\ lpPc' = "end"
  /\ UNCHANGED <<result_seq, prev, lastConsumedAckSeq, heater, ackMem, lp,
                 ulpWake, hpVars, rhUsed>>

LpEnd ==
  /\ lpPc = "end"
  /\ result_seq' = result_seq + 1
  /\ lpPc' = "wake"
  /\ UNCHANGED <<g, baseline, heater, ackMem, lp, ulpWake, hpVars, silent,
                 rhUsed>>

LpWake ==
  /\ lpPc = "wake"
  /\ ulpWake' = (ulpWake \/ g["should_wake_hp"] # 0)
  /\ lpPc' = "sleep"
  /\ UNCHANGED <<result, baseline, heater, ackMem, lp, hpVars, history>>

LpRun ==
  \/ LpConsumeTemp \/ LpConsumeHum \/ LpConsumeSeq
  \/ LpBegin \/ LpMeasure
  \/ LpHeaterOn \/ LpHeaterRun \/ LpHeaterLog \/ LpHeaterOff
  \/ LpCalibrate \/ LpDecide \/ LpEnd \/ LpWake

-----------------------------------------------------------------------------
(* lp_sensor_core_get_state()                                              *)

RdCall ==
  /\ rdPc \in {"idle", "clean", "fell"}
  /\ rdPc' = "seqBefore"
  /\ rd' = [attempt |-> 0, seq |-> 0, next |-> 1]
  /\ out' = ZeroState
  /\ UNCHANGED <<result, baseline, heater, ackMem, lpVars, ulpWake, ackVars,
                 cfgVars, history>>

(* Another attempt, or the fall-through after the last one.                *)
RdRetry ==
  /\ rd' = [rd EXCEPT !.attempt = @ + 1]
  /\ rdPc' = IF rd.attempt + 1 = ReadAttempts THEN "fell" ELSE "seqBefore"

(* Mutant: the copy starts one word before the struct.                     *)
MutSeqBeforeIndex ==
  /\ rdPc = "seqBefore"
  /\ IF IsOdd(result_seq)
     THEN RdRetry
     ELSE /\ rd' = [rd EXCEPT !.seq = result_seq, !.next = 0]
          /\ rdPc' = "copy"
  /\ UNCHANGED <<out, result, baseline, heater, ackMem, lpVars, ulpWake,
                 ackVars, cfgVars, history>>

(* Mutant: a write in progress (an odd counter) is not noticed.            *)
MutSeqBeforeOdd ==
  /\ rdPc = "seqBefore"
  /\ rd' = [rd EXCEPT !.seq = result_seq, !.next = 1]
  /\ rdPc' = "copy"
  /\ UNCHANGED <<out, result, baseline, heater, ackMem, lpVars, ulpWake,
                 ackVars, cfgVars, history>>

RdSeqBefore ==
  /\ rdPc = "seqBefore"
  /\ IF IsOdd(result_seq)
     THEN RdRetry
     ELSE /\ rd' = [rd EXCEPT !.seq = result_seq, !.next = 1]
          /\ rdPc' = "copy"
  /\ UNCHANGED <<out, result, baseline, heater, ackMem, lpVars, ulpWake,
                 ackVars, cfgVars, history>>

RdCopy ==
  /\ rdPc = "copy"
  /\ LET f == ResultFields[rd.next] IN out' = [out EXCEPT ![f] = g[f]]
  /\ rd' = [rd EXCEPT !.next = @ + 1]
  /\ rdPc' = IF rd.next = Len(ResultFields) THEN "seqAfter" ELSE "copy"
  /\ UNCHANGED <<result, baseline, heater, ackMem, lpVars, ulpWake, ackVars,
                 cfgVars, history>>

RdSeqAfter ==
  /\ rdPc = "seqAfter"
  /\ IF rd.seq = result_seq
     THEN rdPc' = "clean" /\ rd' = rd
     ELSE RdRetry
  /\ UNCHANGED <<out, result, baseline, heater, ackMem, lpVars, ulpWake,
                 ackVars, cfgVars, history>>

RdStep == RdSeqBefore \/ RdCopy \/ RdSeqAfter

(* The whole of get_state() as one step, for the composition with the HP   *)
(* task: the memory as it is when the LP program is not writing (this is   *)
(* what CleanReadIsCurrent says of a validated read), or the untouched     *)
(* argument when it is and every attempt found the counter odd.            *)
GetState ==
  /\ \/ ~IsOdd(result_seq) /\ out' = g /\ rdPc' = "clean"
     \/ IsOdd(result_seq) /\ out' = ZeroState /\ rdPc' = "fell"
  /\ UNCHANGED <<rd, result, baseline, heater, ackMem, lpVars, ulpWake,
                 ackVars, cfgVars, history>>

-----------------------------------------------------------------------------
(* lp_sensor_core_ack_delivered(): temperature, humidity, then the counter *)

AckTemp(s) ==
  /\ ackPc = "idle"
  /\ hp_acked' = [hp_acked EXCEPT !.t = CalReading(s).t]
  /\ ackVal' = CalReading(s)
  /\ ackPoll' = s["heartbeat_counter"]
  /\ acked' = acked \cup {CalReading(s)}
  /\ ackPc' = "hum"
  /\ UNCHANGED <<hp_ack_seq, result, baseline, heater, lpVars, ulpWake,
                 rdVars, cfgVars, history>>

AckHum ==
  /\ ackPc = "hum"
  /\ hp_acked' = [hp_acked EXCEPT !.h = ackVal.h]
  /\ ackPc' = "seq"
  /\ UNCHANGED <<hp_ack_seq, ackVal, ackPoll, acked, result, baseline, heater, lpVars,
                 ulpWake, rdVars, cfgVars, history>>

AckSeq ==
  /\ ackPc = "seq"
  /\ hp_ack_seq' = hp_ack_seq + 1
  /\ ackPc' = "idle"
  /\ UNCHANGED <<hp_acked, ackVal, ackPoll, acked, result, baseline, heater, lpVars,
                 ulpWake, rdVars, cfgVars, history>>

(* lp_sensor_core_apply_config(): one store per word.                      *)

CfgCall(c) ==
  /\ cfgPos = Len(ConfigFields)
  /\ cfgNew' = c
  /\ cfgPos' = 0
  /\ configs' = configs + 1
  /\ UNCHANGED <<config, result, baseline, heater, ackMem, lpVars, ulpWake,
                 rdVars, ackVars, history>>

CfgStore ==
  /\ cfgPos < Len(ConfigFields)
  /\ LET f == ConfigFields[cfgPos + 1]
     IN  config' = [config EXCEPT ![f] = cfgNew[f]]
  /\ cfgPos' = cfgPos + 1
  /\ UNCHANGED <<cfgNew, configs, result, baseline, heater, ackMem, lpVars,
                 ulpWake, rdVars, ackVars, history>>

-----------------------------------------------------------------------------
(* The HP side of this module: a task that reads whenever it likes and     *)
(* acknowledges a snapshot it read flagged, once per poll, and one that    *)
(* tunes.                                                                  *)
ClientAck ==
  /\ rdPc = "clean"
  /\ out["should_wake_hp"] # 0
  /\ out["heartbeat_counter"] > ackPoll
  /\ hp_ack_seq < MaxAcks
  /\ AckOverlap \/ hp_ack_seq = lastConsumedAckSeq
  /\ AckTemp(out)

ClientConfig == configs < MaxConfigs /\ \E c \in Configs : CfgCall(c)

ClientRead == ackPc = "idle" /\ RdCall

(* A result becomes readable when the LP program leaves the counter even.  *)
RecordStable ==
  stable' = IF lpPc' # lpPc /\ lpPc' \in {"heater", "wake"}
            THEN stable \cup {g} ELSE stable

Step ==
  \/ LpStart \/ LpRun
  \/ ClientRead \/ RdStep
  \/ ClientAck \/ AckHum \/ AckSeq
  \/ ClientConfig \/ CfgStore

Next == Step /\ RecordStable

Spec == LpInit /\ [][Next]_vars

-----------------------------------------------------------------------------
(* Properties.                                                             *)

LpPcs == {"sleep", "consumeTemp", "consumeHum", "consumeSeq", "begin",
          "measure", "heaterOn", "heater", "heaterLog", "heaterOff",
          "calibrate", "decide", "end", "wake"}

(* The stretch of the LP program in which the seqlock must be odd.         *)
LpWriting == {"measure", "heaterOn", "heaterLog", "heaterOff", "calibrate",
              "decide", "end"}

ConfigType ==
  /\ config \in [ConfigField -> Int] /\ cfgNew \in [ConfigField -> Int]
  /\ cfgPos \in 0..Len(ConfigFields) /\ configs \in Nat

ResultType ==
  /\ g \in [ResultField -> Int] /\ g["sensor_ok"] \in {0, 1}
  /\ result_seq \in Nat
  /\ stable \subseteq [ResultField -> Int]

BaselineType ==
  /\ prev \in Reading /\ lastConsumedAckSeq \in Nat
  /\ skipped_cycles \in Nat /\ silent \in Nat

HeaterType ==
  /\ cycles_since_heater \in Nat /\ high_rh_cycles \in Nat
  /\ rhUsed \subseteq Int

LpType == lpPc \in LpPcs /\ lp \in LpLocals /\ ulpWake \in BOOLEAN

ReaderType ==
  /\ rdPc \in {"idle", "seqBefore", "copy", "seqAfter", "clean", "fell"}
  /\ rd \in [attempt : Nat, seq : Nat, next : 1..(Len(ResultFields) + 1)]
  /\ out \in [ResultField -> Int]

AckType ==
  /\ ackPc \in {"idle", "hum", "seq"}
  /\ hp_acked \in Reading /\ ackVal \in Reading /\ acked \subseteq Reading
  /\ hp_ack_seq \in Nat /\ ackPoll \in Int

(* Every variable holds a value of its C type; in particular no copy step  *)
(* of get_state() and no store of apply_config() leaves its struct.        *)
LpTypeOK ==
  /\ ConfigType /\ ResultType /\ BaselineType /\ HeaterType
  /\ LpType /\ ReaderType /\ AckType

(* A read that get_state() accepts is never torn: all its words belong to  *)
(* one result the LP program had completed.                                *)
CleanReadIsStable == rdPc = "clean" => out \in stable

(* A read that get_state() accepts is linearizable: when the second load   *)
(* of the counter validates it, the copy equals the shared block.          *)
CleanReadIsCurrent ==
  [][rdPc # "clean" /\ rdPc' = "clean" => out' = g]_vars

(* The comment on get_state()'s fall-through: the caller sees a "possibly- *)
(* stale but not torn snapshot".                                           *)
FallThroughNotTorn == rdPc = "fell" => out \in stable

(* An acknowledgement advances the baseline "to exactly what HP confirms": *)
(* between two consumptions the baseline is a reading HP acknowledged.     *)
BaselineIsAcked ==
  lpPc \notin {"consumeTemp", "consumeHum", "consumeSeq"} => prev \in acked

(* A reading unlike everything HP ever acknowledged, by the thresholds in  *)
(* force when the LP program decides, is flagged: a failed or unconfirmed  *)
(* publish never silences the value it carried.                            *)
UndeliveredIsFlagged ==
  [][ lpPc = "decide" /\ lpPc' = "end" /\ lp.ok
        /\ (\A a \in acked : ~SameAsPrevDelivered(CalReading(g), a, config))
      => g'["should_wake_hp"] = 1 ]_vars

(* An unchanged value is held back for at most max_skip_cycles polls after *)
(* the last flag or consumed acknowledgement, whichever budget was in      *)
(* force.                                                                  *)
SilenceBounded ==
  \E c \in Configs \cup {BootConfig} : silent <= c["max_skip_cycles"]

(* shared_layout.h on the configuration block: the LP program "never       *)
(* re-reads a field mid-cycle".                                            *)
ConfigReadOnce == Cardinality(rhUsed) <= 1
=============================================================================
