------------------------- MODULE SensorsTaskProofs --------------------------
(***************************************************************************)
(* Proofs about the LP program's shared block (theorems about Spec of      *)
(* LpCore) and then about the delivery path that reads it (TaskSpec), for  *)
(* every instance: whatever is measured, however many polls, read          *)
(* attempts, heater runs, settings changes and failures there are, and     *)
(* however the two tasks and the LP program interleave.                    *)
(***************************************************************************)
EXTENDS SensorsTask, TLAPS

-----------------------------------------------------------------------------
(* THE LP PROGRAM AND THE SHARED BLOCK                                     *)

-----------------------------------------------------------------------------
(* Facts about the operators.                                              *)

(* The six words get_state() copies are the words of a result.             *)
LEMMA CopiedWords ==
  /\ Len(ResultFields) = 6
  /\ \A i \in 1..6 : ResultFields[i] \in ResultField
  /\ \A f \in ResultField : \E i \in 1..6 : ResultFields[i] = f
<1>1. Len(ResultFields) = 6
  BY DEF ResultFields
<1>2. \A i \in 1..6 : ResultFields[i] \in ResultField
  BY DEF ResultFields, ResultField
<1>3. \A f \in ResultField : \E i \in 1..6 : ResultFields[i] = f
  <2>1. /\ ResultFields[1] = "heartbeat_counter"
        /\ ResultFields[2] = "sensor_ok"
        /\ ResultFields[3] = "cal_temp_c"
        /\ ResultFields[4] = "cal_hum_pct"
        /\ ResultFields[5] = "should_wake_hp"
        /\ ResultFields[6] = "last_heater_run_cycle"
    BY DEF ResultFields
  <2>2. {1, 2, 3, 4, 5, 6} \subseteq 1..6
    OBVIOUS
  <2> QED
    BY <2>1, <2>2 DEF ResultField
<1> QED
  BY <1>1, <1>2, <1>3

(* Two results that agree on every copied word are the same result.        *)
LEMMA SameResult ==
  ASSUME NEW a \in [ResultField -> Int], NEW b \in [ResultField -> Int],
         \A i \in 1..6 : a[ResultFields[i]] = b[ResultFields[i]]
  PROVE  a = b
<1>1. \A f \in ResultField : a[f] = b[f]
  BY CopiedWords
<1> QED
  BY <1>1

(* The eight words apply_config() stores are words of the configuration.   *)
LEMMA StoredWords ==
  Len(ConfigFields) = 8 /\ \A i \in 1..8 : ConfigFields[i] \in ConfigField
<1>1. Len(ConfigFields) = 8
  BY DEF ConfigFields
<1> QED
  BY <1>1 DEF ConfigField

(* Every increment of the counter changes its parity.                      *)
LEMMA ParityFlips ==
  ASSUME NEW n \in Nat
  PROVE  IsOdd(n + 1) <=> ~IsOdd(n)
BY DEF IsOdd

(* Calibration returns a reading.                                          *)
LEMMA CalibratedType ==
  ASSUME NEW r \in Reading, NEW c \in [ConfigField -> Int]
  PROVE  Calibrated(r, c) \in Reading
<1>1. c["temp_offset_c"] \in Int /\ c["rh_offset_pct"] \in Int
  <2>1. "temp_offset_c" \in ConfigField /\ "rh_offset_pct" \in ConfigField
    <3>1. ConfigFields[2] = "temp_offset_c" /\ ConfigFields[4] = "rh_offset_pct"
      BY DEF ConfigFields
    <3> QED
      BY <3>1, StoredWords
  <2> QED
    BY <2>1
<1>2. r.t \in Int /\ r.h \in Int
  BY DEF Reading
<1> QED
  BY <1>1, <1>2 DEF Calibrated, Clamp, Reading

-----------------------------------------------------------------------------
(* Type correctness.  LpTypeOK is not inductive: that a copy step finds a  *)
(* word to copy depends on where the reader is.                            *)
ReaderInv ==
  /\ ReaderType
  /\ rdPc = "copy" => rd.next \in 1..6
  /\ rdPc = "seqAfter" => rd.next = 7

TypeInv ==
  /\ ConfigType /\ ResultType /\ BaselineType /\ HeaterType
  /\ LpType /\ ReaderInv /\ AckType

(* Words of the result the LP program names.                               *)
LEMMA ResultWords ==
  /\ "heartbeat_counter" \in ResultField /\ "sensor_ok" \in ResultField
  /\ "cal_temp_c" \in ResultField /\ "cal_hum_pct" \in ResultField
  /\ "should_wake_hp" \in ResultField
  /\ "last_heater_run_cycle" \in ResultField
BY DEF ResultField

(* What the LP program writes to its locals keeps their types.             *)
LEMMA LocalsUpdate ==
  ASSUME NEW l \in LpLocals
  PROVE  /\ \A n \in Nat : [l EXCEPT !.seq = n] \in LpLocals
         /\ \A n \in {0, 1} : [l EXCEPT !.wasOk = n] \in LpLocals
         /\ [l EXCEPT !.ok = FALSE] \in LpLocals
         /\ \A r \in Reading : [l EXCEPT !.raw = r] \in LpLocals
         /\ \A r \in Reading : [l EXCEPT !.ok = TRUE, !.raw = r] \in LpLocals
         /\ l.raw \in Reading /\ l.seq \in Nat
<1>1. \A n \in Nat : [l EXCEPT !.seq = n] \in LpLocals
  BY DEF LpLocals
<1>2. \A n \in {0, 1} : [l EXCEPT !.wasOk = n] \in LpLocals
  BY DEF LpLocals
<1>3. [l EXCEPT !.ok = FALSE] \in LpLocals
  BY DEF LpLocals
<1>4. \A r \in Reading : [l EXCEPT !.raw = r] \in LpLocals
  BY DEF LpLocals
<1>5. \A r \in Reading : [l EXCEPT !.ok = TRUE, !.raw = r] \in LpLocals
  BY DEF LpLocals
<1>6. l.raw \in Reading /\ l.seq \in Nat
  BY DEF LpLocals
<1> QED
  BY <1>1, <1>2, <1>3, <1>4, <1>5, <1>6

(* The shared block and the locals start with values of their types.       *)
LEMMA InitType == LpInit => TypeInv
<1> SUFFICES ASSUME LpInit PROVE TypeInv
  OBVIOUS
<1>1. ZeroState \in [ResultField -> Int] /\ ZeroState["sensor_ok"] = 0
  BY ResultWords DEF ZeroState
<1>2. ZeroReading \in Reading
  BY DEF ZeroReading, Reading
<1>3. ConfigType
  BY LpConstants, StoredWords DEF LpInit, ConfigType
<1>4. ResultType
  BY <1>1 DEF LpInit, ResultType
<1>5. BaselineType /\ HeaterType
  BY <1>2 DEF LpInit, BaselineType, HeaterType
<1>6. LpType
  BY <1>2 DEF LpInit, LpType, LpPcs, LpLocals
<1>7. ReaderInv
  BY <1>1, CopiedWords DEF LpInit, ReaderInv, ReaderType
<1>8. AckType
  BY <1>2 DEF LpInit, AckType
<1> QED
  BY <1>3, <1>4, <1>5, <1>6, <1>7, <1>8 DEF TypeInv

(* A part of the state that a step leaves alone keeps its types.           *)
LEMMA FrameType ==
  ASSUME TypeInv
  PROVE  /\ UNCHANGED cfgVars => ConfigType'
         /\ UNCHANGED result /\ RecordStable => ResultType'
         /\ UNCHANGED baseline /\ UNCHANGED silent => BaselineType'
         /\ UNCHANGED heater /\ UNCHANGED rhUsed => HeaterType'
         /\ UNCHANGED lpVars /\ UNCHANGED ulpWake => LpType'
         /\ UNCHANGED rdVars => ReaderInv'
         /\ UNCHANGED ackMem /\ UNCHANGED ackVars => AckType'
<1>1. UNCHANGED cfgVars => ConfigType'
  BY DEF TypeInv, ConfigType, cfgVars
<1>2. UNCHANGED result /\ RecordStable => ResultType'
  BY DEF TypeInv, ResultType, result, RecordStable
<1>3. UNCHANGED baseline /\ UNCHANGED silent => BaselineType'
  BY DEF TypeInv, BaselineType, baseline
<1>4. UNCHANGED heater /\ UNCHANGED rhUsed => HeaterType'
  BY DEF TypeInv, HeaterType, heater
<1>5. UNCHANGED lpVars /\ UNCHANGED ulpWake => LpType'
  BY DEF TypeInv, LpType, lpVars
<1>6. UNCHANGED rdVars => ReaderInv'
  BY DEF TypeInv, ReaderInv, ReaderType, rdVars
<1>7. UNCHANGED ackMem /\ UNCHANGED ackVars => AckType'
  BY DEF TypeInv, AckType, ackMem, ackVars
<1> QED
  BY <1>1, <1>2, <1>3, <1>4, <1>5, <1>6, <1>7

(* The LP program keeps the types.                                         *)
LEMMA LpKeepsType ==
  ASSUME TypeInv, LpStart \/ LpRun, RecordStable
  PROVE  TypeInv'
<1>1. UNCHANGED hpVars /\ UNCHANGED ackMem
  BY DEF LpRun, LpStart, LpConsumeTemp, LpConsumeHum, LpConsumeSeq, LpBegin,
     LpMeasure, LpHeaterOn, LpHeaterRun, LpHeaterLog, LpHeaterOff,
     LpCalibrate, LpDecide, LpEnd, LpWake
<1>2. ConfigType' /\ ReaderInv' /\ AckType'
  BY <1>1, FrameType DEF hpVars
<1>3. ASSUME g' \in [ResultField -> Int], g'["sensor_ok"] \in {0, 1},
             result_seq' \in Nat
      PROVE  ResultType'
  BY <1>3 DEF TypeInv, ResultType, RecordStable
<1>4. config["rh_offset_pct"] \in Int
  <2>1. ConfigFields[4] = "rh_offset_pct"
    BY DEF ConfigFields
  <2> QED
    BY <2>1, StoredWords DEF TypeInv, ConfigType
<1>5. \A t \in Temps, h \in Hums : [t |-> t, h |-> h] \in Reading
  BY LpConstants DEF Reading
<1>6. lp \in LpLocals /\ ulpWake \in BOOLEAN /\ hp_ack_seq \in Nat
  BY DEF TypeInv, LpType, AckType
<1>7. hp_acked \in Reading /\ prev \in Reading
  BY DEF TypeInv, AckType, BaselineType
<1> USE <1>2 DEF TypeInv
<1>11. CASE LpStart
  <2>1. LpType'
    <3>1. lp' \in LpLocals
      BY <1>6, <1>11, LocalsUpdate DEF LpStart
    <3>2. lpPc' \in LpPcs /\ UNCHANGED ulpWake
      BY <1>11 DEF LpStart, LpPcs
    <3> QED
      BY <1>6, <3>1, <3>2 DEF LpType
  <2>2. ResultType' /\ BaselineType'
    BY <1>11, FrameType DEF LpStart
  <2>3. HeaterType'
    BY <1>11 DEF LpStart, HeaterType, heater
  <2> QED
    BY <2>1, <2>2, <2>3
<1>12. CASE LpConsumeTemp
  <2>1. ResultType' /\ HeaterType'
    BY <1>12, FrameType DEF LpConsumeTemp, history
  <2>2. BaselineType'
    BY <1>7, <1>12 DEF LpConsumeTemp, BaselineType, Reading, history
  <2>3. LpType'
    BY <1>6, <1>12 DEF LpConsumeTemp, LpType, LpPcs
  <2> QED
    BY <2>1, <2>2, <2>3
<1>13. CASE LpConsumeHum
  <2>1. ResultType' /\ HeaterType'
    BY <1>13, FrameType DEF LpConsumeHum
  <2>2. BaselineType'
    BY <1>7, <1>13 DEF LpConsumeHum, BaselineType, Reading
  <2>3. LpType'
    BY <1>6, <1>13 DEF LpConsumeHum, LpType, LpPcs
  <2> QED
    BY <2>1, <2>2, <2>3
<1>14. CASE LpConsumeSeq
  <2>1. ResultType' /\ HeaterType'
    BY <1>14, FrameType DEF LpConsumeSeq, history
  <2>2. BaselineType'
    BY <1>6, <1>14, LocalsUpdate DEF LpConsumeSeq, BaselineType, history
  <2>3. LpType'
    BY <1>6, <1>14 DEF LpConsumeSeq, LpType, LpPcs
  <2> QED
    BY <2>1, <2>2, <2>3
<1>15. CASE LpBegin
  <2>1. BaselineType' /\ HeaterType'
    BY <1>15, FrameType DEF LpBegin, history
  <2>2. ResultType'
    <3>1. UNCHANGED g /\ result_seq' = result_seq + 1
      BY <1>15 DEF LpBegin
    <3> QED
      BY <1>3, <3>1 DEF ResultType
  <2>3. LpType'
    <3>1. lp' \in LpLocals
      BY <1>6, <1>15, LocalsUpdate DEF LpBegin, ResultType
    <3>2. lpPc' \in LpPcs /\ UNCHANGED ulpWake
      BY <1>15 DEF LpBegin, LpPcs
    <3> QED
      BY <1>6, <3>1, <3>2 DEF LpType
  <2> QED
    BY <2>1, <2>2, <2>3
<1>16. CASE LpMeasure
  <2>1. BaselineType' /\ UNCHANGED <<result_seq, ulpWake>>
    BY <1>16, FrameType DEF LpMeasure
  <2>2. PICK b \in {0, 1} :
          g' = [g EXCEPT !["heartbeat_counter"] = @ + 1, !["sensor_ok"] = b]
    BY <1>16 DEF LpMeasure
  <2>3. ResultType'
    <3>1. g' \in [ResultField -> Int] /\ g'["sensor_ok"] \in {0, 1}
      BY <2>2, ResultWords DEF ResultType
    <3> QED
      BY <1>3, <2>1, <3>1 DEF ResultType
  <2>4. lpPc' \in LpPcs
    BY <1>16 DEF LpMeasure, LpPcs
  <2>5. lp' \in LpLocals
    <3>1. \/ lp' = [lp EXCEPT !.ok = FALSE]
          \/ \E t \in Temps, h \in Hums :
               lp' = [lp EXCEPT !.ok = TRUE, !.raw = [t |-> t, h |-> h]]
      BY <1>16 DEF LpMeasure
    <3> QED
      BY <1>5, <1>6, <3>1, LocalsUpdate, ZenonT(30)
  <2>6. HeaterType'
    <3>1. rhUsed' = rhUsed \/ rhUsed' = {config["rh_offset_pct"]}
      BY <1>16 DEF LpMeasure
    <3>2. /\ cycles_since_heater' \in {cycles_since_heater, cycles_since_heater + 1}
          /\ high_rh_cycles' \in {0, high_rh_cycles, high_rh_cycles + 1}
      BY <1>16 DEF LpMeasure, heater
    <3>3. cycles_since_heater' \in Nat /\ high_rh_cycles' \in Nat
      BY <3>2 DEF HeaterType
    <3>4. rhUsed' \subseteq Int
      BY <1>4, <3>1 DEF HeaterType
    <3> QED
      BY <3>3, <3>4 DEF HeaterType
  <2>7. LpType'
    BY <1>6, <2>1, <2>4, <2>5 DEF LpType
  <2> QED
    BY <2>1, <2>3, <2>6, <2>7
<1>17. CASE LpHeaterOn
  <2>1. BaselineType' /\ HeaterType'
    BY <1>17, FrameType DEF LpHeaterOn
  <2>2. ResultType'
    BY <1>3, <1>17 DEF LpHeaterOn, ResultType
  <2>3. LpType'
    BY <1>6, <1>17 DEF LpHeaterOn, LpType, LpPcs
  <2> QED
    BY <2>1, <2>2, <2>3
<1>18. CASE LpHeaterRun
  <2>1. BaselineType' /\ HeaterType' /\ UNCHANGED ulpWake
    BY <1>18, FrameType DEF LpHeaterRun, history
  <2>2. ResultType'
    <3>1. UNCHANGED g /\ result_seq' = result_seq + 1
      BY <1>18 DEF LpHeaterRun
    <3> QED
      BY <1>3, <3>1 DEF ResultType
  <2>3. lp' \in LpLocals
    <3>1. lp' = lp \/ \E t \in Temps, h \in Hums :
            lp' = [lp EXCEPT !.raw = [t |-> t, h |-> h]]
      BY <1>18 DEF LpHeaterRun
    <3> QED
      BY <1>5, <1>6, <3>1, LocalsUpdate, ZenonT(30)
  <2>4. lpPc' \in LpPcs
    BY <1>18 DEF LpHeaterRun, LpPcs
  <2> QED
    BY <1>6, <2>1, <2>2, <2>3, <2>4 DEF LpType
<1>19. CASE LpHeaterLog
  <2>1. BaselineType' /\ HeaterType'
    BY <1>19, FrameType DEF LpHeaterLog, history
  <2>2. ResultType'
    BY <1>3, <1>19, ResultWords DEF LpHeaterLog, ResultType
  <2>3. LpType'
    BY <1>6, <1>19 DEF LpHeaterLog, LpType, LpPcs
  <2> QED
    BY <2>1, <2>2, <2>3
<1>20. CASE LpHeaterOff
  <2>1. ResultType' /\ BaselineType'
    BY <1>20, FrameType DEF LpHeaterOff, history
  <2>2. HeaterType' /\ LpType'
    BY <1>6, <1>20 DEF LpHeaterOff, HeaterType, LpType, LpPcs, history
  <2> QED
    BY <2>1, <2>2
<1>21. CASE LpCalibrate
  <2>1. Calibrated(lp.raw, config) \in Reading
    BY <1>6, LocalsUpdate, CalibratedType DEF ConfigType
  <2>2. ResultType'
    BY <1>3, <1>21, <2>1, ResultWords DEF LpCalibrate, ResultType, Reading
  <2>3. HeaterType'
    <3>1. rhUsed' = rhUsed \cup {config["rh_offset_pct"]} /\ UNCHANGED heater
      BY <1>21 DEF LpCalibrate
    <3> QED
      BY <1>4, <3>1 DEF HeaterType, heater
  <2>4. BaselineType'
    BY <1>21, FrameType DEF LpCalibrate
  <2>5. LpType'
    BY <1>6, <1>21 DEF LpCalibrate, LpType, LpPcs
  <2> QED
    BY <2>2, <2>3, <2>4, <2>5
<1>22. CASE LpDecide
  <2>1. ResultType'
    BY <1>3, <1>22, ResultWords DEF LpDecide, Flag, ResultType
  <2>2. BaselineType'
    BY <1>22 DEF LpDecide, BaselineType
  <2>3. HeaterType'
    BY <1>22, FrameType DEF LpDecide
  <2>4. LpType'
    BY <1>6, <1>22 DEF LpDecide, LpType, LpPcs
  <2> QED
    BY <2>1, <2>2, <2>3, <2>4
<1>23. CASE LpEnd
  <2>1. BaselineType' /\ HeaterType'
    BY <1>23, FrameType DEF LpEnd
  <2>2. ResultType'
    BY <1>3, <1>23 DEF LpEnd, ResultType
  <2>3. LpType'
    BY <1>6, <1>23 DEF LpEnd, LpType, LpPcs
  <2> QED
    BY <2>1, <2>2, <2>3
<1>24. CASE LpWake
  <2>1. ResultType' /\ BaselineType' /\ HeaterType'
    BY <1>24, FrameType DEF LpWake, history
  <2>2. ulpWake' \in BOOLEAN
    BY <1>24, Zenon DEF LpWake
  <2>3. lpPc' \in LpPcs /\ UNCHANGED lp
    BY <1>24 DEF LpWake, LpPcs
  <2> QED
    BY <1>6, <2>1, <2>2, <2>3 DEF LpType
<1> QED
  BY <1>11, <1>12, <1>13, <1>14, <1>15, <1>16, <1>17, <1>18, <1>19, <1>20,
     <1>21, <1>22, <1>23, <1>24 DEF LpRun

(* get_state() keeps the types: the copy never runs past the last word.    *)
LEMMA RdKeepsType ==
  ASSUME TypeInv, ClientRead \/ RdStep, RecordStable
  PROVE  TypeInv'
<1>1. UNCHANGED <<result, baseline, heater, ackMem, lpVars, ulpWake, ackVars,
                  cfgVars, history>>
  BY DEF ClientRead, RdStep, RdCall, RdSeqBefore, RdCopy, RdSeqAfter
<1>2. /\ ConfigType' /\ ResultType' /\ BaselineType' /\ HeaterType'
      /\ LpType' /\ AckType'
  BY <1>1, FrameType DEF history
<1> SUFFICES ReaderInv'
  BY <1>2 DEF TypeInv
<1>3. /\ rd \in [attempt : Nat, seq : Nat, next : 1..7]
      /\ out \in [ResultField -> Int] /\ g \in [ResultField -> Int]
      /\ result_seq \in Nat /\ ReadAttempts \in Nat
  BY LpConstants, CopiedWords DEF TypeInv, ReaderInv, ReaderType, ResultType
<1>4. ASSUME rdPc' \in {"idle", "seqBefore", "copy", "seqAfter", "clean", "fell"},
             rd' \in [attempt : Nat, seq : Nat, next : 1..7],
             out' \in [ResultField -> Int],
             rdPc' = "copy" => rd'.next \in 1..6,
             rdPc' = "seqAfter" => rd'.next = 7
      PROVE  ReaderInv'
  BY <1>4, CopiedWords DEF ReaderInv, ReaderType
<1>5. CASE RdCall
  <2>1. ZeroState \in [ResultField -> Int]
    BY DEF ZeroState
  <2> QED
    BY <1>4, <1>5, <2>1 DEF RdCall
<1>6. ASSUME RdRetry, UNCHANGED out
      PROVE  ReaderInv'
  BY <1>3, <1>4, <1>6 DEF RdRetry
<1>7. CASE RdSeqBefore
  <2>1. CASE IsOdd(result_seq)
    BY <1>6, <1>7, <2>1 DEF RdSeqBefore
  <2>2. CASE ~IsOdd(result_seq)
    <3>1. /\ rd' = [rd EXCEPT !.seq = result_seq, !.next = 1]
          /\ rdPc' = "copy" /\ out' = out
      BY <1>7, <2>2 DEF RdSeqBefore
    <3>2. 1 \in 1..7 /\ 1 \in 1..6
      OBVIOUS
    <3>3. /\ rd' = [attempt |-> rd.attempt, seq |-> result_seq, next |-> 1]
          /\ rd.attempt \in Nat
      BY <1>3, <3>1
    <3>4. rd' \in [attempt : Nat, seq : Nat, next : 1..7] /\ rd'.next = 1
      BY <1>3, <3>2, <3>3
    <3> QED
      BY <1>3, <1>4, <3>1, <3>2, <3>4
  <2> QED
    BY <2>1, <2>2
<1>8. CASE RdCopy
  <2>1. rd.next \in 1..6 /\ ResultFields[rd.next] \in ResultField
    BY <1>8, CopiedWords DEF RdCopy, TypeInv, ReaderInv
  <2>2. out' \in [ResultField -> Int]
    BY <1>3, <1>8, <2>1 DEF RdCopy
  <2>3. rd' = [rd EXCEPT !.next = @ + 1]
    BY <1>8 DEF RdCopy
  <2>4. rdPc' = IF rd.next = 6 THEN "seqAfter" ELSE "copy"
    BY <1>8, CopiedWords DEF RdCopy
  <2> QED
    BY <1>3, <1>4, <2>1, <2>2, <2>3, <2>4
<1>9. CASE RdSeqAfter
  BY <1>3, <1>4, <1>6, <1>9 DEF RdSeqAfter
<1> QED
  BY <1>5, <1>7, <1>8, <1>9 DEF ClientRead, RdStep

(* ack_delivered() and apply_config() keep the types.                      *)
LEMMA HpKeepsType ==
  ASSUME TypeInv, RecordStable,
         ClientAck \/ AckHum \/ AckSeq \/ ClientConfig \/ CfgStore
  PROVE  TypeInv'
<1>1. UNCHANGED <<result, baseline, heater, lpVars, ulpWake, rdVars, history>>
  BY DEF ClientAck, AckTemp, AckHum, AckSeq, ClientConfig, CfgCall, CfgStore
<1>2. /\ ResultType' /\ BaselineType' /\ HeaterType' /\ LpType' /\ ReaderInv'
  BY <1>1, FrameType DEF history
<1>3. CASE ClientAck \/ AckHum \/ AckSeq
  <2>1. ConfigType'
    BY <1>3, FrameType DEF ClientAck, AckTemp, AckHum, AckSeq
  <2>2. CASE ClientAck
    <3>1. CalReading(out) \in Reading /\ out["heartbeat_counter"] \in Int
      BY ResultWords DEF CalReading, Reading, TypeInv, ReaderInv, ReaderType
    <3>2. AckType'
      BY <2>2, <3>1 DEF ClientAck, AckTemp, TypeInv, AckType, Reading
    <3> QED
      BY <1>2, <2>1, <3>2 DEF TypeInv
  <2>3. CASE AckHum \/ AckSeq
    <3>1. AckType'
      BY <2>3 DEF AckHum, AckSeq, TypeInv, AckType, Reading
    <3> QED
      BY <1>2, <2>1, <3>1 DEF TypeInv
  <2> QED
    BY <1>3, <2>2, <2>3
<1>4. CASE ClientConfig \/ CfgStore
  <2>1. AckType'
    BY <1>4, FrameType DEF ClientConfig, CfgCall, CfgStore
  <2>2. CASE ClientConfig
    <3>1. ConfigType'
      BY <2>2, LpConstants, StoredWords DEF ClientConfig, CfgCall, TypeInv, ConfigType
    <3> QED
      BY <1>2, <2>1, <3>1 DEF TypeInv
  <2>3. CASE CfgStore
    <3>1. cfgPos + 1 \in 1..8
      BY <2>3, StoredWords DEF CfgStore, TypeInv, ConfigType
    <3>2. ConfigFields[cfgPos + 1] \in ConfigField
      BY <3>1, StoredWords
    <3>3. ConfigType'
      BY <2>3, <3>1, <3>2, StoredWords DEF CfgStore, TypeInv, ConfigType
    <3> QED
      BY <1>2, <2>1, <3>3 DEF TypeInv
  <2> QED
    BY <1>4, <2>2, <2>3
<1> QED
  BY <1>3, <1>4

(* Every step keeps the types.                                             *)
LEMMA NextType == TypeInv /\ [Next]_vars => TypeInv'
<1> SUFFICES ASSUME TypeInv, [Next]_vars PROVE TypeInv'
  OBVIOUS
<1>1. CASE Next
  BY <1>1, LpKeepsType, RdKeepsType, HpKeepsType DEF Next, Step
<1>2. CASE UNCHANGED vars
  <2>1. UNCHANGED stable /\ UNCHANGED result
    BY <1>2 DEF vars
  <2>2. ResultType'
    BY <2>1 DEF TypeInv, ResultType, result
  <2> QED
    BY <1>2, <2>2, FrameType DEF vars, history, TypeInv
<1> QED
  BY <1>1, <1>2

(* In every reachable state of the LP program and of the three HP calls    *)
(* every shared word and every local has its type.                         *)
THEOREM LpTypes == Spec => []LpTypeOK
<1>1. TypeInv => LpTypeOK
  BY DEF TypeInv, LpTypeOK, ReaderInv
<1> QED
  BY <1>1, InitType, NextType, PTL DEF Spec

-----------------------------------------------------------------------------
(* The seqlock.  That a validated read is one completed result is not      *)
(* inductive: it needs that the counter is odd exactly while the program   *)
(* writes, and that the words copied so far are still the words in memory  *)
(* as long as the counter is the one the reader noted.                     *)
OddWhileWriting == IsOdd(result_seq) <=> lpPc \in LpWriting

EvenIsStable == lpPc \notin LpWriting => g \in stable

Copying == rdPc \in {"copy", "seqAfter"}

NotedIsPast == Copying => rd.seq <= result_seq /\ ~IsOdd(rd.seq)

CopiedIsCurrent ==
  Copying /\ rd.seq = result_seq =>
    \A i \in 1..6 : i < rd.next => out[ResultFields[i]] = g[ResultFields[i]]

SeqInv ==
  /\ TypeInv
  /\ OddWhileWriting /\ EvenIsStable /\ NotedIsPast /\ CopiedIsCurrent
  /\ CleanReadIsStable

(* What a step of the LP program does to the block: nothing, or it moves   *)
(* the counter and enters or leaves the writing stretch, or it writes      *)
(* words inside that stretch.                                              *)
LEMMA LpEffect ==
  ASSUME LpStart \/ LpRun
  PROVE  \/ UNCHANGED result /\ (lpPc \in LpWriting <=> lpPc' \in LpWriting)
         \/ /\ result_seq' = result_seq + 1 /\ UNCHANGED g
            /\ lpPc \in LpWriting <=> lpPc' \notin LpWriting
         \/ UNCHANGED result_seq /\ lpPc \in LpWriting /\ lpPc' \in LpWriting
<1>1. CASE LpStart \/ LpConsumeTemp \/ LpConsumeHum \/ LpConsumeSeq \/ LpWake
  BY <1>1 DEF LpStart, LpConsumeTemp, LpConsumeHum, LpConsumeSeq, LpWake, LpWriting
<1>2. CASE LpBegin \/ LpHeaterOn \/ LpHeaterRun \/ LpEnd
  <2>1. result_seq' = result_seq + 1 /\ UNCHANGED g
    BY <1>2 DEF LpBegin, LpHeaterOn, LpHeaterRun, LpEnd
  <2>2. \/ lpPc = "begin" /\ lpPc' = "measure"
        \/ lpPc = "heaterOn" /\ lpPc' = "heater"
        \/ lpPc = "heater" /\ lpPc' \in {"heaterLog", "heaterOff"}
        \/ lpPc = "end" /\ lpPc' = "wake"
    BY <1>2 DEF LpBegin, LpHeaterOn, LpHeaterRun, LpEnd
  <2> QED
    BY <2>1, <2>2 DEF LpWriting
<1>3. CASE LpMeasure \/ LpHeaterLog \/ LpHeaterOff \/ LpCalibrate \/ LpDecide
  <2>1. UNCHANGED result_seq
    BY <1>3 DEF LpMeasure, LpHeaterLog, LpHeaterOff, LpCalibrate, LpDecide, result
  <2>2. /\ lpPc \in {"measure", "heaterLog", "heaterOff", "calibrate", "decide"}
        /\ lpPc' \in {"decide", "heaterOn", "heaterOff", "calibrate", "end"}
    BY <1>3 DEF LpMeasure, LpHeaterLog, LpHeaterOff, LpCalibrate, LpDecide
  <2> QED
    BY <2>1, <2>2 DEF LpWriting
<1> QED
  BY <1>1, <1>2, <1>3 DEF LpRun

(* Where the LP program leaves the writing stretch, it has just published. *)
LEMMA LpLeaves ==
  ASSUME LpStart \/ LpRun, lpPc \in LpWriting, lpPc' \notin LpWriting
  PROVE  lpPc' # lpPc /\ lpPc' \in {"heater", "wake"}
BY DEF LpRun, LpStart, LpConsumeTemp, LpConsumeHum, LpConsumeSeq, LpBegin,
   LpMeasure, LpHeaterOn, LpHeaterRun, LpHeaterLog, LpHeaterOff,
   LpCalibrate, LpDecide, LpEnd, LpWake, LpWriting

(* The LP program keeps the seqlock invariant.                             *)
LEMMA LpKeepsSeq ==
  ASSUME SeqInv, LpStart \/ LpRun, RecordStable
  PROVE  SeqInv'
<1>1. TypeInv'
  BY LpKeepsType DEF SeqInv
<1>2. UNCHANGED rdVars
  BY DEF LpRun, LpStart, LpConsumeTemp, LpConsumeHum, LpConsumeSeq, LpBegin,
     LpMeasure, LpHeaterOn, LpHeaterRun, LpHeaterLog, LpHeaterOff,
     LpCalibrate, LpDecide, LpEnd, LpWake, hpVars
<1>3. stable \subseteq stable'
  BY DEF RecordStable
<1>4. CleanReadIsStable'
  BY <1>2, <1>3 DEF SeqInv, CleanReadIsStable, rdVars
<1>5. result_seq \in Nat /\ rd.seq \in Nat
  BY DEF SeqInv, TypeInv, ResultType, ReaderInv, ReaderType
<1>6. CASE UNCHANGED result /\ (lpPc \in LpWriting <=> lpPc' \in LpWriting)
  <2>1. OddWhileWriting' /\ EvenIsStable'
    BY <1>3, <1>6 DEF SeqInv, OddWhileWriting, EvenIsStable, result
  <2>2. NotedIsPast' /\ CopiedIsCurrent'
    BY <1>2, <1>6 DEF SeqInv, NotedIsPast, CopiedIsCurrent, Copying, result, rdVars
  <2> QED
    BY <1>1, <1>4, <2>1, <2>2 DEF SeqInv
<1>7. CASE /\ result_seq' = result_seq + 1 /\ UNCHANGED g
           /\ lpPc \in LpWriting <=> lpPc' \notin LpWriting
  <2>1. OddWhileWriting'
    BY <1>5, <1>7, ParityFlips DEF SeqInv, OddWhileWriting
  <2>2. EvenIsStable'
    BY <1>7, LpLeaves DEF EvenIsStable, RecordStable
  <2>3. NotedIsPast' /\ CopiedIsCurrent'
    BY <1>2, <1>5, <1>7 DEF SeqInv, NotedIsPast, CopiedIsCurrent, Copying, rdVars
  <2> QED
    BY <1>1, <1>4, <2>1, <2>2, <2>3 DEF SeqInv
<1>8. CASE UNCHANGED result_seq /\ lpPc \in LpWriting /\ lpPc' \in LpWriting
  <2>1. OddWhileWriting' /\ EvenIsStable'
    BY <1>8 DEF SeqInv, OddWhileWriting, EvenIsStable
  <2>2. Copying => rd.seq # result_seq
    BY <1>8 DEF SeqInv, OddWhileWriting, NotedIsPast
  <2>3. NotedIsPast' /\ CopiedIsCurrent'
    BY <1>2, <1>8, <2>2 DEF SeqInv, NotedIsPast, CopiedIsCurrent, Copying, rdVars
  <2> QED
    BY <1>1, <1>4, <2>1, <2>3 DEF SeqInv
<1> QED
  BY <1>6, <1>7, <1>8, LpEffect

(* A read that passes the second load of the counter equals the block.     *)
LEMMA ValidatedIsCurrent ==
  ASSUME SeqInv, rdPc = "seqAfter", rd.seq = result_seq
  PROVE  out = g /\ g \in stable
<1>1. rd.next = 7
  BY DEF SeqInv, TypeInv, ReaderInv
<1>2. \A i \in 1..6 : out[ResultFields[i]] = g[ResultFields[i]]
  BY <1>1 DEF SeqInv, CopiedIsCurrent, Copying
<1>3. out \in [ResultField -> Int] /\ g \in [ResultField -> Int]
  BY DEF SeqInv, TypeInv, ReaderInv, ReaderType, ResultType
<1>4. out = g
  BY <1>2, <1>3, SameResult
<1>5. g \in stable
  BY DEF SeqInv, NotedIsPast, OddWhileWriting, EvenIsStable, Copying
<1> QED
  BY <1>4, <1>5

(* get_state() keeps the seqlock invariant.                                *)
LEMMA RdKeepsSeq ==
  ASSUME SeqInv, ClientRead \/ RdStep, RecordStable
  PROVE  SeqInv'
<1>1. TypeInv'
  BY RdKeepsType DEF SeqInv
<1>2. UNCHANGED result /\ UNCHANGED lpPc
  BY DEF ClientRead, RdStep, RdCall, RdSeqBefore, RdCopy, RdSeqAfter, lpVars
<1>3. UNCHANGED stable
  BY <1>2 DEF RecordStable
<1>4. OddWhileWriting' /\ EvenIsStable'
  BY <1>2, <1>3 DEF SeqInv, OddWhileWriting, EvenIsStable, result
<1> SUFFICES NotedIsPast' /\ CopiedIsCurrent' /\ CleanReadIsStable'
  BY <1>1, <1>4 DEF SeqInv
<1>5. /\ rd \in [attempt : Nat, seq : Nat, next : 1..7] /\ result_seq \in Nat
      /\ out \in [ResultField -> Int]
  BY CopiedWords DEF SeqInv, TypeInv, ReaderInv, ReaderType, ResultType
<1>6. ASSUME rdPc' \in {"seqBefore", "fell"}
      PROVE  NotedIsPast' /\ CopiedIsCurrent' /\ CleanReadIsStable'
  BY <1>6 DEF NotedIsPast, CopiedIsCurrent, CleanReadIsStable, Copying
<1>7. CASE RdCall
  BY <1>6, <1>7 DEF RdCall
<1>8. CASE RdSeqBefore
  <2>1. CASE IsOdd(result_seq)
    BY <1>6, <1>8, <2>1 DEF RdSeqBefore, RdRetry
  <2>2. CASE ~IsOdd(result_seq)
    <3>1. rd' = [rd EXCEPT !.seq = result_seq, !.next = 1] /\ rdPc' = "copy"
      BY <1>8, <2>2 DEF RdSeqBefore
    <3>2. rd'.seq = result_seq /\ rd'.next = 1
      BY <1>5, <3>1
    <3>3. result_seq' = result_seq
      BY <1>2 DEF result
    <3> QED
      BY <1>5, <2>2, <3>1, <3>2, <3>3
         DEF NotedIsPast, CopiedIsCurrent, CleanReadIsStable, Copying
  <2> QED
    BY <2>1, <2>2
<1>9. CASE RdCopy
  <2>1. rd.next \in 1..6 /\ Copying
    BY <1>9 DEF RdCopy, SeqInv, TypeInv, ReaderInv, Copying
  <2>2. /\ rd'.seq = rd.seq /\ rd'.next = rd.next + 1
        /\ rdPc' \in {"copy", "seqAfter"}
    BY <1>5, <1>9 DEF RdCopy
  <2>3. NotedIsPast'
    BY <1>2, <2>1, <2>2 DEF SeqInv, NotedIsPast, Copying, result
  <2>4. CopiedIsCurrent'
    <3> SUFFICES ASSUME rd.seq = result_seq, NEW i \in 1..6, i < rd.next + 1
                 PROVE  out'[ResultFields[i]] = g[ResultFields[i]]
      BY <1>2, <2>2 DEF CopiedIsCurrent, result
    <3>1. out' = [out EXCEPT ![ResultFields[rd.next]] = g[ResultFields[rd.next]]]
      BY <1>9 DEF RdCopy
    <3>2. ResultFields[i] \in ResultField /\ ResultFields[rd.next] \in ResultField
      BY <2>1, CopiedWords
    <3>3. CASE i = rd.next
      BY <1>5, <3>1, <3>2, <3>3
    <3>4. CASE i # rd.next
      <4>1. out[ResultFields[i]] = g[ResultFields[i]]
        BY <2>1, <3>4 DEF SeqInv, CopiedIsCurrent
      <4> QED
        BY <1>5, <3>1, <3>2, <4>1
    <3> QED
      BY <3>3, <3>4
  <2>5. CleanReadIsStable'
    BY <2>2 DEF CleanReadIsStable
  <2> QED
    BY <2>3, <2>4, <2>5
<1>10. CASE RdSeqAfter
  <2>1. CASE rd.seq = result_seq
    BY <1>3, <1>10, <2>1, ValidatedIsCurrent
       DEF RdSeqAfter, NotedIsPast, CopiedIsCurrent, CleanReadIsStable, Copying
  <2>2. CASE rd.seq # result_seq
    BY <1>6, <1>10, <2>2 DEF RdSeqAfter, RdRetry
  <2> QED
    BY <2>1, <2>2
<1> QED
  BY <1>7, <1>8, <1>9, <1>10 DEF ClientRead, RdStep

(* Acknowledgements and configuration changes do not touch the block.      *)
LEMMA HpKeepsSeq ==
  ASSUME SeqInv, RecordStable,
         ClientAck \/ AckHum \/ AckSeq \/ ClientConfig \/ CfgStore
  PROVE  SeqInv'
<1>1. TypeInv'
  BY HpKeepsType DEF SeqInv
<1>2. UNCHANGED <<result, lpVars, rdVars>>
  BY DEF ClientAck, AckTemp, AckHum, AckSeq, ClientConfig, CfgCall, CfgStore
<1>3. UNCHANGED stable
  BY <1>2 DEF RecordStable, lpVars
<1> QED
  BY <1>1, <1>2, <1>3 DEF SeqInv, OddWhileWriting, EvenIsStable, NotedIsPast,
     CopiedIsCurrent, CleanReadIsStable, Copying, result, lpVars, rdVars

(* The seqlock invariant holds at boot.                                    *)
LEMMA InitSeq == LpInit => SeqInv
<1> SUFFICES ASSUME LpInit PROVE SeqInv
  OBVIOUS
<1>1. TypeInv
  BY InitType
<1>2. ~IsOdd(0)
  BY DEF IsOdd
<1> QED
  BY <1>1, <1>2 DEF LpInit, SeqInv, OddWhileWriting, EvenIsStable, NotedIsPast,
     CopiedIsCurrent, CleanReadIsStable, Copying, LpWriting

(* Every step keeps the seqlock invariant.                                 *)
LEMMA NextSeq == SeqInv /\ [Next]_vars => SeqInv'
<1> SUFFICES ASSUME SeqInv, [Next]_vars PROVE SeqInv'
  OBVIOUS
<1>1. CASE Next
  BY <1>1, LpKeepsSeq, RdKeepsSeq, HpKeepsSeq DEF Next, Step
<1>2. CASE UNCHANGED vars
  <2>1. TypeInv'
    BY <1>2, NextType DEF SeqInv
  <2>2. UNCHANGED <<result, lpVars, rdVars, stable>>
    BY <1>2 DEF vars
  <2> QED
    BY <2>1, <2>2 DEF SeqInv, OddWhileWriting, EvenIsStable, NotedIsPast,
       CopiedIsCurrent, CleanReadIsStable, Copying, result, lpVars, rdVars
<1> QED
  BY <1>1, <1>2

(* get_state() never returns a torn snapshot as a validated one, however   *)
(* often the LP program runs while it copies and however many attempts it  *)
(* makes.                                                                  *)
THEOREM SeqlockIsSafe == Spec => []CleanReadIsStable
<1>1. SeqInv => CleanReadIsStable
  BY DEF SeqInv
<1> QED
  BY <1>1, InitSeq, NextSeq, PTL DEF Spec

(* At the moment get_state() validates a snapshot, the snapshot is the     *)
(* current content of the shared block: the read is linearizable.  This is *)
(* what allows SensorsTask to take the whole call as one step.             *)
THEOREM SeqlockIsLinearizable == Spec => CleanReadIsCurrent
<1>1. SeqInv /\ [Next]_vars => [rdPc # "clean" /\ rdPc' = "clean" => out' = g]_vars
  <2> SUFFICES ASSUME SeqInv, Next, rdPc # "clean", rdPc' = "clean"
               PROVE  out' = g
    OBVIOUS
  <2>1. RdSeqAfter /\ rd.seq = result_seq
    <3>1. ~UNCHANGED rdPc
      OBVIOUS
    <3>2. ClientRead \/ RdStep
      <4>1. (LpStart \/ LpRun) => UNCHANGED rdPc
        BY DEF LpRun, LpStart, LpConsumeTemp, LpConsumeHum, LpConsumeSeq, LpBegin,
           LpMeasure, LpHeaterOn, LpHeaterRun, LpHeaterLog, LpHeaterOff,
           LpCalibrate, LpDecide, LpEnd, LpWake, hpVars, rdVars
      <4>2. ClientAck \/ AckHum \/ AckSeq \/ ClientConfig \/ CfgStore
              => UNCHANGED rdPc
        BY DEF ClientAck, AckTemp, AckHum, AckSeq, ClientConfig, CfgCall, CfgStore,
           rdVars
      <4> QED
        BY <3>1, <4>1, <4>2 DEF Next, Step
    <3> QED
      BY <3>2 DEF ClientRead, RdCall, RdStep, RdSeqBefore, RdCopy, RdSeqAfter, RdRetry
  <2> QED
    BY <2>1, ValidatedIsCurrent DEF RdSeqAfter
<1> QED
  BY <1>1, InitSeq, NextSeq, PTL DEF Spec, CleanReadIsCurrent

-----------------------------------------------------------------------------
(* The acknowledgement.  Its two values and its counter are three stores   *)
(* that the LP program picks up one by one, so the invariant says what     *)
(* each side has done so far, and that a write and a consumption never     *)
(* overlap: this is where the proof needs ~AckOverlap.                     *)
Consuming == lpPc \in {"consumeTemp", "consumeHum", "consumeSeq"}

(* While HP writes, everything written before has been consumed; while LP  *)
(* consumes, HP is idle.                                                   *)
OneSideAtATime ==
  /\ ackPc # "idle" => hp_ack_seq = lastConsumedAckSeq
  /\ Consuming => hp_ack_seq # lastConsumedAckSeq /\ lp.seq = hp_ack_seq

(* What ack_delivered() has stored so far.                                 *)
WrittenSoFar ==
  /\ ackVal \in acked
  /\ hp_acked.t = ackVal.t
  /\ ackPc # "hum" => hp_acked.h = ackVal.h

(* What the LP program has taken over so far.                              *)
TakenSoFar ==
  /\ lpPc \in {"consumeHum", "consumeSeq"} => prev.t = ackVal.t
  /\ lpPc = "consumeSeq" => prev.h = ackVal.h

AckInv ==
  /\ TypeInv
  /\ OneSideAtATime /\ WrittenSoFar /\ TakenSoFar
  /\ BaselineIsAcked

(* Readings are equal when both values are.                                *)
LEMMA SameReading ==
  ASSUME NEW a \in Reading, NEW b \in Reading, a.t = b.t, a.h = b.h
  PROVE  a = b
BY DEF Reading

(* The acknowledgement invariant holds at boot.                            *)
LEMMA InitAck == LpInit => AckInv
BY InitType DEF LpInit, AckInv, OneSideAtATime, WrittenSoFar, TakenSoFar,
   BaselineIsAcked, Consuming, ZeroReading

(* The steps of an LP run after the consumption touch neither side.        *)
LEMMA LpLeavesAck ==
  ASSUME LpRun, ~LpConsumeTemp, ~LpConsumeHum, ~LpConsumeSeq
  PROVE  /\ UNCHANGED <<prev, lastConsumedAckSeq, ackMem, ackVars>>
         /\ ~Consuming /\ ~Consuming'
<1>1. UNCHANGED <<prev, lastConsumedAckSeq, ackMem, ackVars>>
  BY DEF LpRun, LpBegin, LpMeasure, LpHeaterOn, LpHeaterRun, LpHeaterLog,
     LpHeaterOff, LpCalibrate, LpDecide, LpEnd, LpWake, hpVars, baseline
<1>2. ~Consuming /\ ~Consuming'
  BY DEF LpRun, LpBegin, LpMeasure, LpHeaterOn, LpHeaterRun, LpHeaterLog,
     LpHeaterOff, LpCalibrate, LpDecide, LpEnd, LpWake, Consuming
<1> QED
  BY <1>1, <1>2

(* The LP program keeps the acknowledgement invariant.                     *)
LEMMA LpKeepsAck ==
  ASSUME AckInv, LpStart \/ LpRun, RecordStable
  PROVE  AckInv'
<1>1. TypeInv'
  BY LpKeepsType DEF AckInv
<1>2. UNCHANGED <<ackMem, ackVars>>
  BY DEF LpRun, LpStart, LpConsumeTemp, LpConsumeHum, LpConsumeSeq, LpBegin,
     LpMeasure, LpHeaterOn, LpHeaterRun, LpHeaterLog, LpHeaterOff,
     LpCalibrate, LpDecide, LpEnd, LpWake, hpVars
<1>3. /\ UNCHANGED <<hp_ack_seq, hp_acked, ackPc, ackVal, acked>>
      /\ WrittenSoFar'
  BY <1>2 DEF AckInv, WrittenSoFar, ackMem, ackVars
<1>4. /\ prev \in Reading /\ prev' \in Reading /\ ackVal \in Reading
      /\ lp \in LpLocals
      /\ ackPc \in {"idle", "hum", "seq"}
  BY <1>1 DEF AckInv, TypeInv, BaselineType, AckType, LpType
<1>5. CASE LpStart
  <2>1. lp'.seq = hp_ack_seq
    BY <1>4, <1>5 DEF LpStart, LpLocals
  <2>2. UNCHANGED <<prev, lastConsumedAckSeq>> /\ lpPc = "sleep"
        /\ lpPc' = IF hp_ack_seq # lastConsumedAckSeq THEN "consumeTemp" ELSE "begin"
    BY <1>5 DEF LpStart, baseline
  <2> QED
    BY <1>1, <1>3, <2>1, <2>2
       DEF AckInv, OneSideAtATime, TakenSoFar, BaselineIsAcked, Consuming
<1>6. CASE LpConsumeTemp
  <2>1. /\ prev'.t = hp_acked.t /\ lpPc = "consumeTemp" /\ lpPc' = "consumeHum"
        /\ UNCHANGED <<lastConsumedAckSeq, lp>>
    BY <1>4, <1>6 DEF LpConsumeTemp, Reading
  <2> QED
    BY <1>1, <1>3, <2>1
       DEF AckInv, OneSideAtATime, WrittenSoFar, TakenSoFar, BaselineIsAcked, Consuming
<1>7. CASE LpConsumeHum
  <2>1. /\ prev'.h = hp_acked.h /\ prev'.t = prev.t
        /\ lpPc = "consumeHum" /\ lpPc' = "consumeSeq"
        /\ UNCHANGED <<lastConsumedAckSeq, lp>>
    BY <1>4, <1>7 DEF LpConsumeHum, Reading
  <2>2. ackPc = "idle"
    BY <2>1 DEF AckInv, OneSideAtATime, Consuming
  <2> QED
    BY <1>1, <1>3, <2>1, <2>2
       DEF AckInv, OneSideAtATime, WrittenSoFar, TakenSoFar, BaselineIsAcked, Consuming
<1>8. CASE LpConsumeSeq
  <2>1. /\ lastConsumedAckSeq' \in {lp.seq, hp_ack_seq} /\ UNCHANGED prev
        /\ lpPc = "consumeSeq" /\ lpPc' = "begin"
    BY <1>8 DEF LpConsumeSeq
  <2>2. lastConsumedAckSeq' = hp_ack_seq
    BY <2>1 DEF AckInv, OneSideAtATime, Consuming
  <2>3. prev = ackVal
    BY <1>4, <2>1, SameReading DEF AckInv, TakenSoFar
  <2> QED
    BY <1>1, <1>3, <2>1, <2>2, <2>3
       DEF AckInv, OneSideAtATime, WrittenSoFar, TakenSoFar, BaselineIsAcked, Consuming
<1>9. CASE LpRun /\ ~LpConsumeTemp /\ ~LpConsumeHum /\ ~LpConsumeSeq
  BY <1>1, <1>3, <1>9, LpLeavesAck
     DEF AckInv, OneSideAtATime, TakenSoFar, BaselineIsAcked, Consuming
<1> QED
  BY <1>5, <1>6, <1>7, <1>8, <1>9

(* The HP calls keep the acknowledgement invariant when HP waits for the   *)
(* previous acknowledgement to be consumed.                                *)
LEMMA HpKeepsAck ==
  ASSUME AckInv, RecordStable, ~AckOverlap,
         ClientRead \/ RdStep \/ ClientAck \/ AckHum \/ AckSeq
           \/ ClientConfig \/ CfgStore
  PROVE  AckInv'
<1>1. TypeInv'
  BY RdKeepsType, HpKeepsType DEF AckInv
<1>2. UNCHANGED <<prev, lastConsumedAckSeq, lpPc, lp>>
  BY DEF ClientRead, RdStep, RdCall, RdSeqBefore, RdCopy, RdSeqAfter, ClientAck,
     AckTemp, AckHum, AckSeq, ClientConfig, CfgCall, CfgStore, baseline, lpVars
<1>3. /\ hp_acked \in Reading /\ ackVal \in Reading
      /\ ackPc \in {"idle", "hum", "seq"} /\ hp_ack_seq \in Nat
  BY DEF AckInv, TypeInv, AckType
<1>4. CASE ClientRead \/ RdStep \/ ClientConfig \/ CfgStore
  <2>1. UNCHANGED <<ackMem, ackVars>>
    BY <1>4 DEF ClientRead, RdStep, RdCall, RdSeqBefore, RdCopy, RdSeqAfter,
       ClientConfig, CfgCall, CfgStore
  <2> QED
    BY <1>1, <1>2, <2>1 DEF AckInv, OneSideAtATime, WrittenSoFar, TakenSoFar,
       BaselineIsAcked, Consuming, ackMem, ackVars
<1>5. CASE ClientAck
  <2>1. hp_ack_seq = lastConsumedAckSeq /\ UNCHANGED hp_ack_seq
    BY <1>5 DEF ClientAck, AckTemp
  <2>2. ~Consuming
    BY <2>1 DEF AckInv, OneSideAtATime
  <2>3. /\ hp_acked'.t = CalReading(out).t /\ ackVal' = CalReading(out)
        /\ acked' = acked \cup {CalReading(out)} /\ ackPc' = "hum"
    BY <1>3, <1>5 DEF ClientAck, AckTemp, Reading
  <2> QED
    BY <1>1, <1>2, <2>1, <2>2, <2>3
       DEF AckInv, OneSideAtATime, WrittenSoFar, TakenSoFar, BaselineIsAcked, Consuming
<1>6. CASE AckHum
  <2>1. /\ hp_acked'.t = hp_acked.t /\ hp_acked'.h = ackVal.h
        /\ ackPc = "hum" /\ ackPc' = "seq"
        /\ UNCHANGED <<ackVal, acked, hp_ack_seq>>
    BY <1>3, <1>6 DEF AckHum, Reading
  <2> QED
    BY <1>1, <1>2, <2>1
       DEF AckInv, OneSideAtATime, WrittenSoFar, TakenSoFar, BaselineIsAcked, Consuming
<1>7. CASE AckSeq
  <2>1. /\ ackPc = "seq" /\ ackPc' = "idle"
        /\ UNCHANGED <<hp_acked, ackVal, acked>>
    BY <1>7 DEF AckSeq
  <2>2. ~Consuming
    BY <2>1 DEF AckInv, OneSideAtATime
  <2> QED
    BY <1>1, <1>2, <2>1, <2>2
       DEF AckInv, OneSideAtATime, WrittenSoFar, TakenSoFar, BaselineIsAcked, Consuming
<1> QED
  BY <1>4, <1>5, <1>6, <1>7

(* Every step keeps the acknowledgement invariant.                         *)
LEMMA NextAck ==
  ASSUME ~AckOverlap
  PROVE  AckInv /\ [Next]_vars => AckInv'
<1> SUFFICES ASSUME AckInv, [Next]_vars PROVE AckInv'
  OBVIOUS
<1>1. CASE Next
  BY <1>1, LpKeepsAck, HpKeepsAck DEF Next, Step
<1>2. CASE UNCHANGED vars
  <2>1. TypeInv'
    BY <1>2, NextType DEF AckInv
  <2>2. UNCHANGED <<baseline, lpVars, ackMem, ackVars>>
    BY <1>2 DEF vars
  <2> QED
    BY <2>1, <2>2 DEF AckInv, OneSideAtATime, WrittenSoFar, TakenSoFar,
       BaselineIsAcked, Consuming, baseline, lpVars, ackMem, ackVars
<1> QED
  BY <1>1, <1>2

(* The baseline of the skip decision is always a reading HP acknowledged,  *)
(* never a mixture of two, if HP acknowledges only after the previous      *)
(* acknowledgement was consumed.  The build may load hp_ack_seq once or    *)
(* twice (LpConsumeSeq); both are covered.                                 *)
THEOREM BaselineNeverMixed == ~AckOverlap => (Spec => []BaselineIsAcked)
<1> SUFFICES ASSUME ~AckOverlap PROVE Spec => []BaselineIsAcked
  OBVIOUS
<1>1. AckInv /\ [Next]_vars => AckInv'
  BY NextAck
<1>2. AckInv => BaselineIsAcked
  BY DEF AckInv
<1> QED
  BY <1>1, <1>2, InitAck, PTL DEF Spec

(* A value that differs from everything HP acknowledged is flagged at its  *)
(* poll, whatever the skip budget, the heater and the settings do: a skip  *)
(* compares with the baseline, and the baseline is an acknowledged         *)
(* reading.                                                                *)
THEOREM UnackedIsFlagged == ~AckOverlap => (Spec => UndeliveredIsFlagged)
<1> SUFFICES ASSUME ~AckOverlap PROVE Spec => UndeliveredIsFlagged
  OBVIOUS
<1>1. AckInv /\ [Next]_vars => AckInv'
  BY NextAck
<1> DEFINE Undelivered ==
      \A a \in acked : ~SameAsPrevDelivered(CalReading(g), a, config)
<1>2. AckInv /\ [Next]_vars
        => [lpPc = "decide" /\ lpPc' = "end" /\ lp.ok /\ Undelivered
              => g'["should_wake_hp"] = 1]_vars
  <2> SUFFICES ASSUME AckInv, Next, lpPc = "decide", lpPc' = "end", lp.ok, Undelivered
               PROVE  g'["should_wake_hp"] = 1
    OBVIOUS
  <2>1. LpDecide
    <3>1. LpStart \/ LpRun
      BY DEF Next, Step, ClientRead, RdStep, RdCall, RdSeqBefore, RdCopy, RdSeqAfter,
         ClientAck, AckTemp, AckHum, AckSeq, ClientConfig, CfgCall, CfgStore, lpVars
    <3> QED
      BY <3>1 DEF LpRun, LpStart, LpConsumeTemp, LpConsumeHum, LpConsumeSeq, LpBegin,
         LpMeasure, LpHeaterOn, LpHeaterRun, LpHeaterLog, LpHeaterOff, LpCalibrate,
         LpEnd, LpWake
  <2>2. prev \in acked
    BY DEF AckInv, BaselineIsAcked
  <2>3. ~SkipThisCycle
    BY <2>2 DEF SkipThisCycle
  <2>4. ValueDriven
    BY <2>3 DEF ValueDriven
  <2>5. g \in [ResultField -> Int]
    BY DEF AckInv, TypeInv, ResultType
  <2>6. g' = [g EXCEPT !["should_wake_hp"] =
                Flag(ValueDriven \/ (lp.wasOk # 0 /\ ~lp.ok))]
    BY <2>1 DEF LpDecide
  <2> QED
    BY <2>4, <2>5, <2>6, ResultWords DEF Flag
<1> QED
  BY <1>1, <1>2, InitAck, PTL DEF Spec, UndeliveredIsFlagged

-----------------------------------------------------------------------------
(* The skip budget.  The program compares its own skip count with the      *)
(* budget in force; the silence HP sees is what is left of that count      *)
(* after a flag resets only the silence.                                   *)
Budgets == Configs \cup {BootConfig}

SilenceInv ==
  /\ TypeInv
  /\ silent <= skipped_cycles
  /\ cfgNew \in Budgets
  /\ \E c \in Budgets : config["max_skip_cycles"] = c["max_skip_cycles"]
  /\ SilenceBounded

(* Every budget is a number of polls.                                      *)
LEMMA BudgetType ==
  /\ BootConfig \in Budgets
  /\ \A c \in Budgets : c["max_skip_cycles"] \in Nat
BY LpConstants DEF Budgets

(* Zero polls of silence are within every budget.                          *)
LEMMA SilenceEnds == silent = 0 => SilenceBounded
<1> SUFFICES ASSUME silent = 0 PROVE SilenceBounded
  OBVIOUS
<1>1. 0 <= BootConfig["max_skip_cycles"]
  BY BudgetType
<1> QED
  BY <1>1 DEF SilenceBounded

(* The silence invariant holds at boot.                                    *)
LEMMA InitSilence == LpInit => SilenceInv
<1> SUFFICES ASSUME LpInit PROVE SilenceInv
  OBVIOUS
<1>1. TypeInv /\ SilenceBounded
  BY InitType, SilenceEnds DEF LpInit
<1>2. config = BootConfig /\ cfgNew = BootConfig /\ silent = 0 /\ skipped_cycles = 0
  BY DEF LpInit
<1> QED
  BY <1>1, <1>2, BudgetType DEF SilenceInv

(* The LP program keeps the silence invariant.                             *)
LEMMA LpKeepsSilence ==
  ASSUME SilenceInv, LpStart \/ LpRun, RecordStable
  PROVE  SilenceInv'
<1>1. TypeInv'
  BY LpKeepsType DEF SilenceInv
<1>2. UNCHANGED cfgVars
  BY DEF LpRun, LpStart, LpConsumeTemp, LpConsumeHum, LpConsumeSeq, LpBegin,
     LpMeasure, LpHeaterOn, LpHeaterRun, LpHeaterLog, LpHeaterOff,
     LpCalibrate, LpDecide, LpEnd, LpWake, hpVars
<1>3. /\ cfgNew' \in Budgets
      /\ \E c \in Budgets : config'["max_skip_cycles"] = c["max_skip_cycles"]
  BY <1>2 DEF SilenceInv, cfgVars
<1>4. silent \in Nat /\ skipped_cycles \in Nat /\ silent <= skipped_cycles
  BY DEF SilenceInv, TypeInv, BaselineType
<1> SUFFICES silent' <= skipped_cycles' /\ SilenceBounded'
  BY <1>1, <1>3 DEF SilenceInv
<1>5. CASE UNCHANGED <<silent, skipped_cycles>>
  BY <1>4, <1>5 DEF SilenceInv, SilenceBounded
<1>6. CASE silent' = 0 /\ skipped_cycles' \in Nat
  <2>1. SilenceBounded'
    <3>1. BootConfig["max_skip_cycles"] \in Nat
      BY BudgetType
    <3> QED
      BY <1>6, <3>1 DEF SilenceBounded
  <2> QED
    BY <1>6, <2>1
<1>7. CASE LpDecide
  <2>1. CASE SkipThisCycle
    <3>1. skipped_cycles' = skipped_cycles + 1 /\ silent' \in {0, silent + 1}
      BY <1>7, <2>1 DEF LpDecide, SkipThisCycle
    <3>2. PICK c \in Budgets : config["max_skip_cycles"] = c["max_skip_cycles"]
      BY DEF SilenceInv
    <3>3. skipped_cycles < c["max_skip_cycles"] /\ c["max_skip_cycles"] \in Nat
      BY <2>1, <3>2, BudgetType DEF SkipThisCycle
    <3>4. silent' <= c["max_skip_cycles"] /\ silent' <= skipped_cycles'
      BY <1>4, <3>1, <3>3
    <3> QED
      BY <3>4 DEF SilenceBounded, Budgets
  <2>2. CASE ~SkipThisCycle
    <3>1. skipped_cycles' = skipped_cycles
      BY <1>7, <2>2 DEF LpDecide
    <3>2. silent' \in {0, silent}
      <4>1. CASE lp.ok
        <5>1. g'["should_wake_hp"] = 1
          <6>1. ValueDriven
            BY <2>2, <4>1 DEF ValueDriven
          <6>2. g \in [ResultField -> Int]
            BY DEF SilenceInv, TypeInv, ResultType
          <6>3. g' = [g EXCEPT !["should_wake_hp"] =
                        Flag(ValueDriven \/ (lp.wasOk # 0 /\ ~lp.ok))]
            BY <1>7 DEF LpDecide
          <6> QED
            BY <6>1, <6>2, <6>3, ResultWords DEF Flag
        <5> QED
          BY <1>7, <5>1 DEF LpDecide
      <4>2. CASE ~lp.ok
        BY <1>7, <4>2 DEF LpDecide
      <4> QED
        BY <4>1, <4>2
    <3> QED
      BY <1>4, <1>5, <1>6, <3>1, <3>2
  <2> QED
    BY <2>1, <2>2
<1>8. CASE LpConsumeHum
  BY <1>6, <1>8 DEF LpConsumeHum
<1>9. CASE (LpStart \/ LpRun) /\ ~LpConsumeHum /\ ~LpDecide
  <2>1. UNCHANGED <<silent, skipped_cycles>>
    BY <1>9 DEF LpRun, LpStart, LpConsumeTemp, LpConsumeSeq, LpBegin, LpMeasure,
       LpHeaterOn, LpHeaterRun, LpHeaterLog, LpHeaterOff, LpCalibrate, LpEnd,
       LpWake, baseline, history
  <2> QED
    BY <1>5, <2>1
<1> QED
  BY <1>7, <1>8, <1>9

(* The HP calls keep the silence invariant: a budget is replaced by one    *)
(* store, so the LP program reads the old one or the new one.              *)
LEMMA HpKeepsSilence ==
  ASSUME SilenceInv, RecordStable,
         ClientRead \/ RdStep \/ ClientAck \/ AckHum \/ AckSeq
           \/ ClientConfig \/ CfgStore
  PROVE  SilenceInv'
<1>1. TypeInv'
  BY RdKeepsType, HpKeepsType DEF SilenceInv
<1>2. UNCHANGED <<silent, skipped_cycles>>
  BY DEF ClientRead, RdStep, RdCall, RdSeqBefore, RdCopy, RdSeqAfter, ClientAck,
     AckTemp, AckHum, AckSeq, ClientConfig, CfgCall, CfgStore, baseline, history
<1>3. silent' <= skipped_cycles' /\ SilenceBounded'
  BY <1>2 DEF SilenceInv, SilenceBounded
<1> SUFFICES /\ cfgNew' \in Budgets
             /\ \E c \in Budgets : config'["max_skip_cycles"] = c["max_skip_cycles"]
  BY <1>1, <1>3 DEF SilenceInv
<1>4. CASE ClientConfig
  BY <1>4 DEF ClientConfig, CfgCall, SilenceInv, Budgets
<1>5. CASE CfgStore
  <2>1. /\ config' = [config EXCEPT ![ConfigFields[cfgPos + 1]] =
                                      cfgNew[ConfigFields[cfgPos + 1]]]
        /\ cfgNew' = cfgNew
    BY <1>5 DEF CfgStore
  <2>2. config \in [ConfigField -> Int]
    BY DEF SilenceInv, TypeInv, ConfigType
  <2>3. "max_skip_cycles" \in ConfigField
    <3>1. ConfigFields[6] = "max_skip_cycles"
      BY DEF ConfigFields
    <3> QED
      BY <3>1, StoredWords
  <2>4. config'["max_skip_cycles"] \in
          {config["max_skip_cycles"], cfgNew["max_skip_cycles"]}
    BY <2>1, <2>2, <2>3
  <2> QED
    BY <2>1, <2>4 DEF SilenceInv
<1>6. CASE ClientRead \/ RdStep \/ ClientAck \/ AckHum \/ AckSeq
  <2>1. UNCHANGED cfgVars
    BY <1>6 DEF ClientRead, RdStep, RdCall, RdSeqBefore, RdCopy, RdSeqAfter,
       ClientAck, AckTemp, AckHum, AckSeq
  <2> QED
    BY <2>1 DEF SilenceInv, cfgVars
<1> QED
  BY <1>4, <1>5, <1>6

(* The LP program never withholds an unchanged value for more polls than   *)
(* some budget it was given allows, whatever is measured, whenever the     *)
(* budget is changed and however acknowledgements arrive.                  *)
THEOREM SilenceIsBounded == Spec => []SilenceBounded
<1>1. SilenceInv /\ [Next]_vars => SilenceInv'
  <2> SUFFICES ASSUME SilenceInv, [Next]_vars PROVE SilenceInv'
    OBVIOUS
  <2>1. CASE Next
    BY <2>1, LpKeepsSilence, HpKeepsSilence DEF Next, Step
  <2>2. CASE UNCHANGED vars
    <3>1. TypeInv'
      BY <2>2, NextType DEF SilenceInv
    <3>2. UNCHANGED <<baseline, cfgVars, silent>>
      BY <2>2 DEF vars, history
    <3> QED
      BY <3>1, <3>2 DEF SilenceInv, SilenceBounded, baseline, cfgVars
  <2> QED
    BY <2>1, <2>2
<1>2. SilenceInv => SilenceBounded
  BY DEF SilenceInv
<1> QED
  BY <1>1, <1>2, InitSilence, PTL DEF Spec

-----------------------------------------------------------------------------
(* THE DELIVERY PATH                                                       *)

-----------------------------------------------------------------------------
(* Frames: which steps leave which state alone.                            *)

(* What the hand-off between the two HP tasks is about.                    *)
handoffVars == <<pubVars, hpPc, pass, out, acked>>

(* A step of the LP program, of time, of the wakeup or of the settings.    *)
Elsewhere == \/ SleepExit \/ Tick \/ LpStep \/ LpDie \/ LpBoundReached
             \/ Retune \/ Restart

LEMMA ElsewhereLeavesHandoff == Elsewhere => UNCHANGED handoffVars
<1>1. LpRun \/ LpStart => UNCHANGED hpVars
  BY DEF LpRun, LpStart, LpConsumeTemp, LpConsumeHum, LpConsumeSeq, LpBegin,
     LpMeasure, LpHeaterOn, LpHeaterRun, LpHeaterLog, LpHeaterOff,
     LpCalibrate, LpDecide, LpEnd, LpWake
<1>2. SleepExit => UNCHANGED handoffVars
  BY DEF SleepExit, handoffVars, hpVars, rdVars, ackVars
<1>3. Tick => UNCHANGED handoffVars
  BY <1>1 DEF Tick, handoffVars, hpVars, vars, rdVars, ackVars
<1>4. LpStep => UNCHANGED handoffVars
  BY <1>1 DEF LpStep, handoffVars, hpVars, rdVars, ackVars, hpVarsAll
<1>5. LpDie \/ LpBoundReached => UNCHANGED handoffVars
  BY DEF LpDie, LpBoundReached, LpStop, handoffVars, vars, rdVars, ackVars
<1>6. Retune => UNCHANGED handoffVars
  BY DEF Retune, CfgCall, CfgStore, handoffVars, rdVars, ackVars, hpVarsAll
<1>7. Restart => UNCHANGED handoffVars
  BY DEF Restart, allVars, handoffVars, vars, rdVars, ackVars, hpVarsAll
<1> QED
  BY <1>2, <1>3, <1>4, <1>5, <1>6, <1>7 DEF Elsewhere

(* The end of a pass and the wait for the next one.                        *)
LEMMA WaitLeavesHandoff ==
  HpWrap \/ HpWake \/ HpTimeout => UNCHANGED <<pubVars, pass, out, acked>>
  BY DEF HpWrap, HpWake, HpTimeout, Wake, vars, rdVars, ackVars

-----------------------------------------------------------------------------
(* Who may confirm what                                                    *)

(* While a publish cycle runs, its outcome stands for a message that has   *)
(* reached the broker; so does the outcome of the last one.                *)
OutcomeIsGenuine ==
  /\ pubPc \in {"await", "tail"} => delivered # {}
  /\ jobOk => delivered # {}
  /\ s_last_ok => delivered # {}

LEMMA OutcomeNext == OutcomeIsGenuine /\ [TaskNext]_allVars => OutcomeIsGenuine'
<1> SUFFICES ASSUME OutcomeIsGenuine, [TaskNext]_allVars PROVE OutcomeIsGenuine'
  OBVIOUS
<1> USE DEF OutcomeIsGenuine
<1>1. CASE UNCHANGED <<pubPc, jobOk, s_last_ok, delivered>>
  BY <1>1
<1>2. CASE Elsewhere
  BY <1>1, <1>2, ElsewhereLeavesHandoff DEF handoffVars, pubVars, handoff
<1>3. CASE HpWrap \/ HpWake \/ HpTimeout
  BY <1>1, <1>3, WaitLeavesHandoff DEF pubVars, handoff
<1>4. CASE HpGate \/ HpOtaBusy \/ HpStalled \/ HpQuiet \/ HpIdleTimeout \/ HpAckStep
           \/ OtaReboot
  BY <1>1, <1>4 DEF HpGate, HpOtaBusy, HpStalled, HpQuiet, HpIdleTimeout, HpAckStep,
     OtaReboot, pubVars, handoff
<1>5. CASE HpIdle
  BY <1>1, <1>5 DEF HpIdle, handoff
<1>6. CASE HpPublish
  BY <1>6 DEF HpPublish, SendSensorData, handoff
<1>7. CASE Publisher
  <2>1. CASE PubSend
    BY <2>1 DEF PubSend, handoff
  <2>2. CASE PubTail
    BY <2>2 DEF PubTail, handoff
  <2>3. CASE PubStep /\ ~PubSend /\ ~PubTail
    BY <2>3 DEF PubStep, PubConnectFails, PubSkipConnect, PubAcked, PubNotAcked,
       PubOtaCheck, PubOtaEnds, PubFinish, PubSetIdle, handoff
  <2> QED
    BY <1>7, <2>1, <2>2, <2>3 DEF Publisher
<1>8. CASE UNCHANGED allVars
  BY <1>1, <1>8 DEF allVars, pubVars, handoff
<1> QED
  BY <1>2, <1>3, <1>4, <1>5, <1>6, <1>7, <1>8 DEF TaskNext, TaskStep, HpStep, Elsewhere

(* The rollback of a new image is cancelled only by a boot that has got a  *)
(* message through to the broker, in every environment: with lost          *)
(* connections, updates, tasks that cannot be created and publish cycles   *)
(* that outlast the sensor task's wait.                                    *)
THEOREM ConfirmationIsEarned == TaskSpec => ConfirmedAfterDelivery
<1>1. TaskInit => OutcomeIsGenuine
  BY DEF TaskInit, PubInit, OutcomeIsGenuine
<1>2. OutcomeIsGenuine /\ [TaskNext]_allVars
        => [imgPending /\ ~imgPending' /\ hpPc # "reboot" => delivered # {}]_allVars
  <2> SUFFICES ASSUME OutcomeIsGenuine, TaskNext, imgPending, ~imgPending'
               PROVE  delivered # {}
    OBVIOUS
  <2>1. HpIdle \/ UNCHANGED imgPending
    BY DEF TaskNext, TaskStep, HpStep, HpGate, HpOtaBusy, HpStalled, HpPublish, HpQuiet,
       Serviced, HpIdleTimeout, HpAckStep, HpWrap, HpWake, HpTimeout, Wake, SleepExit,
       Tick, LpStep, LpDie, LpBoundReached, LpStop, Publisher, Retune, OtaReboot, Restart,
       allVars, hpVarsAll
  <2>2. HpIdle
    BY <2>1
  <2>3. s_last_ok
    BY <2>2 DEF HpIdle
  <2> QED
    BY <2>3 DEF OutcomeIsGenuine
<1> QED
  BY <1>1, <1>2, OutcomeNext, PTL DEF TaskSpec, ConfirmedAfterDelivery

-----------------------------------------------------------------------------
(* The hand-off.  A pass learns the outcome of "the last publish", not of  *)
(* its own; that the two are the same needs that no cycle outlives the     *)
(* pass that started it.  A cycle does outlive it when it outlasts the     *)
(* 15 s wait, or when an update session takes over the publish task: the   *)
(* runs TaskStallLoss and TaskOtaAck show what happens then.               *)
Timely == "stall" \notin Env /\ "ota" \notin Env

NoUpdate == ~otaDue /\ ~otaActive /\ pubPc # "ota"

(* No publish task exists, or has anything left to do.                     *)
NoTask == pubPc = "none" /\ ~s_task_running /\ finishing = 0

(* The task of this pass: running, ended without the idle bit, ended.      *)
OwnTask ==
  \/ pubPc # "none" /\ s_task_running /\ ~idleBit /\ finishing = 0
  \/ pubPc = "none" /\ ~s_task_running /\ ~idleBit /\ finishing = 1
  \/ NoTask

TaskOfThisPass ==
  IF hpPc = "waitIdle" THEN OwnTask ELSE NoTask

(* What the running cycle, or the one that has just ended, says of the     *)
(* reading of this pass.                                                   *)
OutcomeOfThisPass ==
  hpPc = "waitIdle" =>
    /\ pubPc # "none" => job.r = CalReading(out)
    /\ pubPc \in {"await", "tail"} \/ (pubPc # "none" /\ jobOk) => CalReading(out) \in delivered
    /\ pubPc = "none" /\ s_last_ok => CalReading(out) \in delivered

(* The locals of the pass.                                                 *)
PassLocals ==
  /\ hpPc = "read" => pass = [NewPass EXCEPT !.attached = TRUE]
  /\ hpPc = "waitIdle" => ~pass.otaOnly
  /\ hpPc = "ack" => CalReading(out) \in delivered

HandoffInv ==
  /\ NoUpdate /\ TaskOfThisPass /\ OutcomeOfThisPass /\ PassLocals
  /\ AckedWasDelivered

LEMMA HandoffInit == TaskInit => HandoffInv
  BY DEF TaskInit, LpInit, PubInit, HpInit, HandoffInv, NoUpdate, TaskOfThisPass, NoTask,
     OutcomeOfThisPass, PassLocals, AckedWasDelivered

LEMMA HandoffFrame == HandoffInv /\ UNCHANGED handoffVars => HandoffInv'
  BY DEF HandoffInv, NoUpdate, TaskOfThisPass, NoTask, OwnTask, OutcomeOfThisPass,
     PassLocals, AckedWasDelivered, handoffVars, pubVars, handoff, CalReading

(* A publish step of a pass that waits for it.                             *)
LEMMA PublisherKeepsHandoff ==
  ASSUME Timely, HandoffInv, Publisher
  PROVE  HandoffInv'
<1>1. /\ UNCHANGED <<hpPc, pass, out, acked>>
  BY DEF Publisher, vars, rdVars, ackVars, hpVarsAll
<1>2. hpPc = "waitIdle" /\ pubPc # "ota"
  BY DEF HandoffInv, TaskOfThisPass, NoTask, NoUpdate, Publisher, PubStep, PubConnectFails,
     PubSkipConnect, PubSend, PubAcked, PubNotAcked, PubTail, PubOtaCheck, PubOtaEnds,
     PubFinish, PubSetIdle
<1>3. /\ NoUpdate /\ OwnTask /\ OutcomeOfThisPass /\ PassLocals /\ AckedWasDelivered
  BY <1>2 DEF HandoffInv, TaskOfThisPass
<1>4. delivered \subseteq delivered'
  BY DEF Publisher, PubStep, PubConnectFails, PubSkipConnect, PubSend, PubAcked, PubNotAcked,
     PubTail, PubOtaCheck, PubOtaEnds, PubFinish, PubSetIdle
<1>5. AckedWasDelivered' /\ PassLocals'
  BY <1>1, <1>3, <1>4 DEF AckedWasDelivered, PassLocals, CalReading
<1>6. NoUpdate'
  BY <1>3 DEF Timely, NoUpdate, Publisher, PubStep, PubConnectFails, PubSkipConnect, PubSend,
     PubAcked, PubNotAcked, PubTail, PubOtaCheck, PubOtaEnds, PubFinish, PubSetIdle
<1>7. OwnTask'
  BY <1>3 DEF OwnTask, NoTask, NoUpdate, Publisher, PubStep, PubConnectFails, PubSkipConnect,
     PubSend, PubAcked, PubNotAcked, PubTail, PubOtaCheck, PubOtaEnds, PubFinish, PubSetIdle,
     handoff
<1>8. OutcomeOfThisPass'
  <2>1. CalReading(out)' = CalReading(out)
    BY <1>1 DEF CalReading
  <2>2. CASE PubSend
    BY <1>1, <1>2, <1>3, <2>1, <2>2 DEF OutcomeOfThisPass, PubSend, handoff
  <2>3. CASE PubStep /\ ~PubSend
    BY <1>1, <1>2, <1>3, <1>4, <2>1, <2>3 DEF OutcomeOfThisPass, OwnTask, NoTask,
       PubStep, PubConnectFails, PubSkipConnect, PubAcked, PubNotAcked, PubTail, PubOtaCheck,
       PubOtaEnds, PubFinish, PubSetIdle, handoff
  <2> QED
    BY <2>2, <2>3 DEF Publisher
<1> QED
  BY <1>1, <1>2, <1>5, <1>6, <1>7, <1>8 DEF HandoffInv, TaskOfThisPass

(* A step of the sensor task itself.                                       *)
LEMMA TaskKeepsHandoff ==
  ASSUME Timely, HandoffInv, HpStep
  PROVE  HandoffInv'
<1>0. NoUpdate /\ AckedWasDelivered
  BY DEF HandoffInv
<1>1. CASE HpGate
  <2>1. UNCHANGED <<pubVars, acked>> /\ hpPc = "gate" /\ hpPc' \in {"read", "wrap"}
    BY <1>1 DEF HpGate, GetState, vars, ackVars
  <2>2. hpPc' = "read" => pass' = [NewPass EXCEPT !.attached = TRUE]
    BY <1>1 DEF HpGate
  <2> QED
    BY <2>1, <2>2 DEF HandoffInv, NoUpdate, TaskOfThisPass, NoTask, OutcomeOfThisPass,
       PassLocals, AckedWasDelivered, pubVars, handoff
<1>2. CASE HpOtaBusy \/ HpStalled \/ HpQuiet
  <2>1. UNCHANGED <<pubVars, acked>> /\ hpPc = "read" /\ hpPc' = "wrap"
    BY <1>2 DEF HpOtaBusy, HpStalled, HpQuiet, Serviced, SnapshotTaken, vars, ackVars
  <2> QED
    BY <2>1 DEF HandoffInv, NoUpdate, TaskOfThisPass, NoTask, OutcomeOfThisPass,
       PassLocals, AckedWasDelivered, pubVars, handoff
<1>3. CASE HpPublish
  <2>1. /\ UNCHANGED <<out, acked, delivered, otaDue, otaActive>>
        /\ hpPc = "read" /\ hpPc' = IF s_task_running' THEN "waitIdle" ELSE "wrap"
    BY <1>3 DEF HpPublish, SendSensorData, Serviced, SnapshotTaken, vars, rdVars, ackVars
  <2>2. ShouldWake
    BY <1>0, <1>3 DEF HpPublish, NoUpdate
  <2>3. hpPc' = "waitIdle" => ~pass'.otaOnly
    <3>1. pass' = [[pass EXCEPT !.otaOnly = ~ShouldWake, !.tried = ShouldWake]
                     EXCEPT !.progressed = Progressed]
      BY <1>3 DEF HpPublish, Serviced
    <3>2. pass = [NewPass EXCEPT !.attached = TRUE]
      BY <2>1 DEF HandoffInv, PassLocals
    <3> QED
      BY <2>2, <3>1, <3>2 DEF NewPass
  <2>4. NoTask
    BY <2>1 DEF HandoffInv, TaskOfThisPass
  <2>5. \/ /\ s_task_running' /\ ~idleBit' /\ pubPc' = "connect" /\ ~jobOk'
           /\ job' = [otaOnly |-> FALSE, r |-> CalReading(out)]
           /\ finishing' = 0
        \/ ~s_task_running' /\ pubPc' = pubPc /\ finishing' = 0
    BY <1>3, <2>2, <2>4 DEF HpPublish, SendSensorData, NoTask, handoff
  <2>6. CalReading(out)' = CalReading(out)
    BY <2>1 DEF CalReading
  <2>7. TaskOfThisPass' /\ NoUpdate'
    BY <1>0, <2>1, <2>4, <2>5 DEF TaskOfThisPass, OwnTask, NoTask, NoUpdate
  <2>8. OutcomeOfThisPass'
    BY <2>1, <2>5, <2>6 DEF OutcomeOfThisPass
  <2>9. PassLocals' /\ AckedWasDelivered'
    BY <1>0, <2>1, <2>3 DEF PassLocals, AckedWasDelivered
  <2> QED
    BY <2>7, <2>8, <2>9 DEF HandoffInv
<1>4. CASE HpIdle
  <2>1. /\ hpPc = "waitIdle" /\ idleBit
        /\ UNCHANGED <<handoff, pubPc, job, jobOk, delivered, otaDue, otaActive>>
        /\ UNCHANGED out
    BY <1>4 DEF HpIdle, AckTemp, vars, rdVars
  <2>2. NoTask /\ (s_last_ok => CalReading(out) \in delivered)
    BY <2>1 DEF HandoffInv, TaskOfThisPass, OwnTask, NoTask, OutcomeOfThisPass
  <2>3. NoTask' /\ NoUpdate'
    BY <1>0, <2>1, <2>2 DEF NoTask, NoUpdate, handoff
  <2>4. CASE s_last_ok /\ ~pass.otaOnly
    <3>1. acked' = acked \cup {CalReading(out)} /\ hpPc' = "ack"
      BY <1>4, <2>4 DEF HpIdle, AckTemp
    <3>2. AckedWasDelivered'
      BY <1>0, <2>1, <2>2, <2>4, <3>1 DEF AckedWasDelivered
    <3> QED
      BY <2>1, <2>2, <2>3, <2>4, <3>1, <3>2 DEF HandoffInv, TaskOfThisPass,
         OutcomeOfThisPass, PassLocals, CalReading
  <2>5. CASE ~(s_last_ok /\ ~pass.otaOnly)
    <3>1. acked' = acked /\ hpPc' = "wrap"
      BY <1>4, <2>5 DEF HpIdle, vars, ackVars
    <3> QED
      BY <1>0, <2>1, <2>3, <3>1 DEF HandoffInv, TaskOfThisPass, OutcomeOfThisPass,
         PassLocals, AckedWasDelivered
  <2> QED
    BY <2>4, <2>5
<1>5. CASE HpIdleTimeout
  BY <1>0, <1>5 DEF HpIdleTimeout, NoUpdate, Timely
<1>6. CASE HpAckStep
  <2>1. /\ UNCHANGED <<pubVars, out, acked>> /\ hpPc = "ack" /\ hpPc' \in {"ack", "wrap"}
    BY <1>6 DEF HpAckStep, AckHum, AckSeq, rdVars
  <2> QED
    BY <2>1 DEF HandoffInv, NoUpdate, TaskOfThisPass, NoTask, OutcomeOfThisPass,
       PassLocals, AckedWasDelivered, CalReading, pubVars, handoff
<1>7. CASE HpWrap \/ HpWake \/ HpTimeout
  <2>1. UNCHANGED <<pubVars, acked>>
    BY <1>7, WaitLeavesHandoff
  <2>2. hpPc \in {"wrap", "wait"} /\ hpPc' \in {"reboot", "wait", "gate"}
    BY <1>7 DEF HpWrap, HpWake, HpTimeout, Wake
  <2> QED
    BY <2>1, <2>2 DEF HandoffInv, NoUpdate, TaskOfThisPass, NoTask, OutcomeOfThisPass,
       PassLocals, AckedWasDelivered, pubVars, handoff
<1> QED
  BY <1>1, <1>2, <1>3, <1>4, <1>5, <1>6, <1>7 DEF HpStep

LEMMA HandoffNext ==
  ASSUME Timely
  PROVE  HandoffInv /\ [TaskNext]_allVars => HandoffInv'
<1> SUFFICES ASSUME HandoffInv, [TaskNext]_allVars PROVE HandoffInv'
  OBVIOUS
<1>1. CASE HpStep
  BY <1>1, TaskKeepsHandoff
<1>2. CASE Publisher
  BY <1>2, PublisherKeepsHandoff
<1>3. CASE Elsewhere
  BY <1>3, ElsewhereLeavesHandoff, HandoffFrame
<1>4. CASE OtaReboot
  BY <1>4 DEF OtaReboot, HandoffInv, NoUpdate
<1>5. CASE UNCHANGED allVars
  BY <1>5, HandoffFrame DEF allVars, handoffVars, vars, rdVars, ackVars, hpVarsAll
<1> QED
  BY <1>1, <1>2, <1>3, <1>4, <1>5 DEF TaskNext, TaskStep, Elsewhere

(* lp_sensor_core_ack_delivered() is called only for a reading the broker  *)
(* has received, as long as no publish cycle outlives the pass that        *)
(* started it: the "last publish" that the pass asks for is its own.       *)
THEOREM AckIsGenuine == Timely => (TaskSpec => []AckedWasDelivered)
<1> SUFFICES ASSUME Timely PROVE TaskSpec => []AckedWasDelivered
  OBVIOUS
<1>1. HandoffInv /\ [TaskNext]_allVars => HandoffInv'
  BY HandoffNext
<1>2. HandoffInv => AckedWasDelivered
  BY DEF HandoffInv
<1> QED
  BY <1>1, <1>2, HandoffInit, PTL DEF TaskSpec

(* When, moreover, the publish task can be created, a pass that set out to *)
(* publish a reading ends with it at the broker or in the history log.     *)
THEOREM NoReadingIsLost ==
  Timely /\ "task" \notin Env => (TaskSpec => []TriedIsKept)
<1> SUFFICES ASSUME Timely, "task" \notin Env PROVE TaskSpec => []TriedIsKept
  OBVIOUS
<1>1. HandoffInv /\ [TaskNext]_allVars => HandoffInv'
  BY HandoffNext
<1>2. TaskInit => TriedIsKept
  BY DEF TaskInit, HpInit, TriedIsKept
<1>3. HandoffInv /\ TriedIsKept /\ [TaskNext]_allVars => TriedIsKept'
  <2> SUFFICES ASSUME HandoffInv, TriedIsKept, [TaskNext]_allVars, hpPc' = "wrap", pass'.tried
               PROVE  (CalReading(out) \in delivered \cup backlog)'
    BY DEF TriedIsKept
  <2>0. NoUpdate
    BY DEF HandoffInv
  <2>1. CASE UNCHANGED handoffVars
    BY <2>1 DEF handoffVars, pubVars, CalReading, TriedIsKept
  <2>2. CASE HpGate
    BY <2>2 DEF HpGate, NewPass
  <2>3. CASE HpOtaBusy \/ HpStalled \/ HpQuiet
    <3>1. pass = [NewPass EXCEPT !.attached = TRUE]
      BY <2>3 DEF HandoffInv, PassLocals, HpOtaBusy, HpStalled, HpQuiet, Serviced,
         SnapshotTaken
    <3>2. ~pass'.tried
      BY <2>3, <3>1 DEF HpOtaBusy, HpStalled, HpQuiet, Serviced, NewPass
    <3> QED
      BY <3>2
  <2>4. CASE HpPublish
    <3>1. ~s_task_running' /\ SnapshotTaken
      BY <2>4 DEF HpPublish, Serviced
    <3>2. NoTask
      BY <3>1 DEF HandoffInv, TaskOfThisPass, SnapshotTaken
    <3> QED
      BY <2>4, <3>1, <3>2 DEF HpPublish, SendSensorData, NoTask
  <2>5. CASE HpIdle
    <3>1. /\ hpPc = "waitIdle" /\ idleBit /\ ~pass.otaOnly /\ UNCHANGED <<out, delivered>>
      BY <2>5 DEF HandoffInv, PassLocals, HpIdle, AckTemp, vars, rdVars
    <3>2. ~s_last_ok /\ backlog' = backlog \cup {CalReading(out)}
      BY <2>5, <3>1 DEF HpIdle
    <3> QED
      BY <3>1, <3>2 DEF CalReading
  <2>6. CASE HpIdleTimeout
    BY <2>0, <2>6 DEF HpIdleTimeout, NoUpdate, Timely
  <2>7. CASE HpAckStep
    <3>1. UNCHANGED <<pubVars, out>> /\ hpPc = "ack"
      BY <2>7 DEF HpAckStep, AckHum, AckSeq, rdVars
    <3> QED
      BY <3>1 DEF HandoffInv, PassLocals, CalReading, pubVars
  <2>8. CASE HpWrap \/ HpWake \/ HpTimeout
    BY <2>8 DEF HpWrap, HpWake, HpTimeout, Wake
  <2>9. CASE Publisher
    <3>1. UNCHANGED hpPc
      BY <2>9 DEF Publisher, hpVarsAll
    <3>2. NoTask
      BY <3>1 DEF HandoffInv, TaskOfThisPass
    <3> QED
      BY <2>9, <3>2 DEF NoTask, Publisher, PubStep, PubConnectFails, PubSkipConnect, PubSend,
         PubAcked, PubNotAcked, PubTail, PubOtaCheck, PubOtaEnds, PubFinish, PubSetIdle
  <2>10. CASE Elsewhere
    BY <2>1, <2>10, ElsewhereLeavesHandoff
  <2>11. CASE OtaReboot
    BY <2>11 DEF OtaReboot
  <2>12. CASE UNCHANGED allVars
    BY <2>1, <2>12 DEF allVars, handoffVars, vars, rdVars, ackVars, hpVarsAll
  <2> QED
    BY <2>2, <2>3, <2>4, <2>5, <2>6, <2>7, <2>8, <2>9, <2>10, <2>11, <2>12
       DEF TaskNext, TaskStep, HpStep, Elsewhere
<1> QED
  BY <1>1, <1>2, <1>3, HandoffInit, PTL DEF TaskSpec

-----------------------------------------------------------------------------
(* The heartbeat gate.  The task tells a new result from one it has seen   *)
(* by the heartbeat alone, while the LP program goes on writing.           *)
Heartbeat == g["heartbeat_counter"]

(* The gate steps: one reads the shared block, one acts on the snapshot.   *)
Reads == HpGate /\ hpPc' = "read"
Services == HpOtaBusy \/ HpStalled \/ HpPublish \/ HpQuiet

(* What the gate and the LP program's results are about.                   *)
gateVars == <<g, result_seq, lpPc, out, lastSeen, handled>>

LEMMA OtherHpSteps ==
  HpStep /\ ~Reads /\ ~Services => UNCHANGED gateVars /\ hpPc' # "read"
<1>1. HpGate /\ hpPc' # "read" => UNCHANGED gateVars
  BY DEF HpGate, gateVars, vars, result, lpVars, rdVars
<1>2. HpIdle => UNCHANGED gateVars /\ hpPc' # "read"
  BY DEF HpIdle, AckTemp, gateVars, vars, result, lpVars, rdVars
<1>3. HpIdleTimeout => UNCHANGED gateVars /\ hpPc' # "read"
  BY DEF HpIdleTimeout, gateVars, vars, result, lpVars, rdVars
<1>4. HpAckStep => UNCHANGED gateVars /\ hpPc' # "read"
  BY DEF HpAckStep, AckHum, AckSeq, gateVars, vars, result, lpVars, rdVars
<1>5. HpWrap => UNCHANGED gateVars /\ hpPc' # "read"
  BY DEF HpWrap, gateVars, vars, result, lpVars, rdVars
<1>6. HpWake \/ HpTimeout => UNCHANGED gateVars /\ hpPc' # "read"
  BY DEF HpWake, HpTimeout, Wake, gateVars, vars, result, lpVars, rdVars
<1> QED
  BY <1>1, <1>2, <1>3, <1>4, <1>5, <1>6 DEF HpStep, Reads, Services

(* A step of the LP program touches nothing of the task.                   *)
LpMoves == LpStart \/ LpRun

LEMMA LpMovesFrame ==
  (LpStep \/ Tick) /\ ~UNCHANGED gateVars
    => LpMoves /\ UNCHANGED <<out, lastSeen, handled, hpPc>>
<1>1. LpMoves => UNCHANGED hpVars
  BY DEF LpMoves, LpRun, LpStart, LpConsumeTemp, LpConsumeHum, LpConsumeSeq, LpBegin,
     LpMeasure, LpHeaterOn, LpHeaterRun, LpHeaterLog, LpHeaterOff,
     LpCalibrate, LpDecide, LpEnd, LpWake
<1>2. LpStep => LpMoves /\ UNCHANGED <<out, lastSeen, handled, hpPc>>
  BY <1>1 DEF LpMoves, LpStep, hpVars, rdVars, hpVarsAll
<1>3. Tick => UNCHANGED gateVars \/ (LpMoves /\ UNCHANGED <<out, lastSeen, handled, hpPc>>)
  <2>1. CASE Tick /\ LpStart
    BY <1>1, <2>1 DEF Tick, LpMoves, hpVars, rdVars
  <2>2. CASE Tick /\ UNCHANGED vars
    BY <2>2 DEF Tick, gateVars, vars, result, lpVars, rdVars
  <2> QED
    BY <2>1, <2>2 DEF Tick, vars
<1> QED
  BY <1>2, <1>3

LEMMA OtherSteps ==
  SleepExit \/ LpDie \/ LpBoundReached \/ Publisher \/ Retune \/ OtaReboot \/ Restart
    => UNCHANGED gateVars /\ (hpPc' = hpPc \/ hpPc' # "read")
<1>1. SleepExit => UNCHANGED gateVars /\ hpPc' = hpPc
  BY DEF SleepExit, gateVars, hpVars, result, lpVars, rdVars
<1>2. LpDie \/ LpBoundReached => UNCHANGED gateVars /\ hpPc' = hpPc
  BY DEF LpDie, LpBoundReached, LpStop, gateVars, vars, result, lpVars, rdVars
<1>3. Publisher => UNCHANGED gateVars /\ hpPc' = hpPc
  BY DEF Publisher, gateVars, vars, result, lpVars, rdVars, hpVarsAll
<1>4. Retune => UNCHANGED gateVars /\ hpPc' = hpPc
  BY DEF Retune, CfgCall, CfgStore, gateVars, result, lpVars, rdVars, hpVarsAll
<1>5. OtaReboot => UNCHANGED gateVars /\ hpPc' # "read"
  BY DEF OtaReboot, gateVars, vars, result, lpVars, rdVars
<1>6. Restart => UNCHANGED gateVars /\ hpPc' = hpPc
  BY DEF Restart, allVars, gateVars, vars, result, lpVars, rdVars, hpVarsAll
<1> QED
  BY <1>1, <1>2, <1>3, <1>4, <1>5, <1>6

(* Every step is one of four kinds.                                        *)
LEMMA FourKinds ==
  ASSUME [TaskNext]_allVars
  PROVE  \/ Reads \/ Services
         \/ LpMoves /\ UNCHANGED <<out, lastSeen, handled, hpPc>>
         \/ UNCHANGED gateVars /\ (hpPc' = hpPc \/ hpPc' # "read")
<1>1. CASE TaskNext
  <2>1. Tick => UNCHANGED hpPc
    BY DEF Tick
  <2>2. LpStep => UNCHANGED hpPc
    BY DEF LpStep, hpVarsAll
  <2> QED
    BY <1>1, <2>1, <2>2, OtherHpSteps, LpMovesFrame, OtherSteps DEF TaskNext, TaskStep
<1>2. CASE UNCHANGED allVars
  BY <1>2 DEF allVars, gateVars, vars, result, lpVars, rdVars, hpVarsAll
<1> QED
  BY <1>1, <1>2

(* get_state() as the gate sees it.                                        *)
LEMMA ReadsEffect ==
  ASSUME Reads
  PROVE  /\ UNCHANGED <<g, result_seq, lpPc, lastSeen, handled>>
         /\ \/ ~IsOdd(result_seq) /\ out' = g
            \/ IsOdd(result_seq) /\ out' = ZeroState /\ "fall" \in Env
  BY DEF Reads, HpGate, GetState, result, lpVars

(* Servicing a snapshot.                                                   *)
LEMMA ServicesEffect ==
  ASSUME Services
  PROVE  /\ UNCHANGED <<g, result_seq, lpPc, out>>
         /\ hpPc = "read" /\ hpPc' # "read"
         /\ lastSeen' = out["heartbeat_counter"]
         /\ handled' = handled \/ handled' = handled \cup {Seen(out)}
         /\ ShouldWake /\ ~otaActive => handled' = handled \cup {Seen(out)}
<1>1. /\ UNCHANGED <<g, result_seq, lpPc, out>>
      /\ hpPc = "read" /\ hpPc' # "read"
      /\ lastSeen' = out["heartbeat_counter"]
  BY DEF Services, HpOtaBusy, HpStalled, HpPublish, HpQuiet, Serviced, SnapshotTaken, vars,
     result, lpVars, rdVars
<1>2. handled' = handled \/ handled' = handled \cup {Seen(out)}
  BY DEF Services, HpOtaBusy, HpStalled, HpPublish, HpQuiet
<1>3. ShouldWake /\ ~otaActive => handled' = handled \cup {Seen(out)}
  BY DEF Services, HpOtaBusy, HpStalled, HpPublish, HpQuiet, ShouldWake, StallSuspected
<1> QED
  BY <1>1, <1>2, <1>3

(* The heartbeat is a word of the result and only grows.                   *)
HeartbeatInv == DOMAIN g = ResultField /\ Heartbeat \in Nat

LEMMA HeartbeatGrows ==
  ASSUME HeartbeatInv, LpMoves
  PROVE  HeartbeatInv' /\ Heartbeat <= Heartbeat'
<1>1. CASE LpMeasure
  <2>1. DOMAIN g' = ResultField /\ Heartbeat' = Heartbeat + 1
    BY <1>1, ResultWords DEF HeartbeatInv, Heartbeat, LpMeasure
  <2> QED
    BY <2>1 DEF HeartbeatInv
<1>2. CASE LpMoves /\ ~LpMeasure
  <2>1. DOMAIN g' = ResultField /\ Heartbeat' = Heartbeat
    BY <1>2, ResultWords DEF HeartbeatInv, Heartbeat, LpMoves, LpRun, LpStart, LpConsumeTemp,
       LpConsumeHum, LpConsumeSeq, LpBegin, LpHeaterOn, LpHeaterRun, LpHeaterLog, LpHeaterOff,
       LpCalibrate, LpDecide, LpEnd, LpWake, result
  <2> QED
    BY <2>1 DEF HeartbeatInv
<1> QED
  BY <1>1, <1>2

LEMMA SeenPoll == \A s : Seen(s).poll = s["heartbeat_counter"]
  BY DEF Seen

(* Without the fall-through of get_state() the heartbeats a task has seen  *)
(* only grow, so what it publishes is newer than all it has published.     *)
SeenInOrder ==
  /\ HeartbeatInv
  /\ lastSeen \in Nat /\ lastSeen <= Heartbeat
  /\ \A x \in handled : x.poll \in Nat /\ x.poll <= lastSeen
  /\ hpPc = "read" => /\ out["heartbeat_counter"] \in Nat
                      /\ lastSeen <= out["heartbeat_counter"]
                      /\ out["heartbeat_counter"] <= Heartbeat

LEMMA GateInit ==
  ASSUME TaskInit
  PROVE  /\ HeartbeatInv /\ Heartbeat = 0 /\ g["should_wake_hp"] = 0
         /\ lastSeen = 0 /\ handled = {} /\ hpPc = "gate"
  BY ResultWords DEF TaskInit, LpInit, HpInit, ZeroState, HeartbeatInv, Heartbeat

LEMMA SeenInOrderNext ==
  ASSUME "fall" \notin Env
  PROVE  SeenInOrder /\ [TaskNext]_allVars => SeenInOrder'
<1> SUFFICES ASSUME SeenInOrder, [TaskNext]_allVars PROVE SeenInOrder'
  OBVIOUS
<1>1. CASE Reads
  BY <1>1, ReadsEffect DEF SeenInOrder, HeartbeatInv, Heartbeat
<1>2. CASE Services
  <2>1. /\ UNCHANGED g /\ hpPc = "read" /\ hpPc' # "read"
        /\ lastSeen' = out["heartbeat_counter"]
        /\ \A x \in handled' : x \in handled \/ x.poll = out["heartbeat_counter"]
    BY <1>2, ServicesEffect, SeenPoll
  <2> QED
    BY <2>1 DEF SeenInOrder, HeartbeatInv, Heartbeat
<1>3. CASE LpMoves /\ UNCHANGED <<out, lastSeen, handled, hpPc>>
  <2>1. HeartbeatInv' /\ Heartbeat <= Heartbeat' /\ Heartbeat \in Nat /\ Heartbeat' \in Nat
    BY <1>3, HeartbeatGrows DEF SeenInOrder, HeartbeatInv
  <2> QED
    BY <1>3, <2>1 DEF SeenInOrder
<1>4. CASE UNCHANGED gateVars /\ (hpPc' = hpPc \/ hpPc' # "read")
  BY <1>4 DEF SeenInOrder, HeartbeatInv, Heartbeat, gateVars
<1> QED
  BY <1>1, <1>2, <1>3, <1>4, FourKinds

-----------------------------------------------------------------------------
(* With the fall-through, which resets the heartbeat the task remembers,   *)
(* the gate still works as long as the heater is off: a result becomes     *)
(* readable only when its heartbeat, its flag and its values are.          *)
NeverHeats ==
  \A c \in Configs \cup {BootConfig} :
    c["heater_period_cycles"] = 0 /\ c["high_rh_trigger_cycles"] = 0

HeaterIsOff ==
  /\ DOMAIN config = ConfigField
  /\ config["heater_period_cycles"] = 0 /\ config["high_rh_trigger_cycles"] = 0
  /\ cfgNew \in Configs \cup {BootConfig}
  /\ lpPc \notin {"heaterOn", "heater", "heaterLog", "heaterOff"}

LEMMA HeaterWords ==
  "heater_period_cycles" \in ConfigField /\ "high_rh_trigger_cycles" \in ConfigField
<1>1. ConfigFields[7] = "heater_period_cycles" /\ ConfigFields[8] = "high_rh_trigger_cycles"
  BY DEF ConfigFields
<1> QED
  BY <1>1, StoredWords

LEMMA HeaterInit == NeverHeats /\ TaskInit => HeaterIsOff
  BY LpConstants DEF NeverHeats, TaskInit, LpInit, HeaterIsOff

LEMMA HeaterNext ==
  ASSUME NeverHeats
  PROVE  HeaterIsOff /\ [TaskNext]_allVars => HeaterIsOff'
<1> SUFFICES ASSUME HeaterIsOff, [TaskNext]_allVars PROVE HeaterIsOff'
  OBVIOUS
<1>1. CASE LpMoves /\ UNCHANGED cfgVars
  <2>1. lpPc' \notin {"heaterOn", "heater", "heaterLog", "heaterOff"}
    <3>1. CASE LpMeasure
      <4>1. \A since, high : ~HeaterDue(since, high)
        BY DEF HeaterDue, HeaterIsOff
      <4> QED
        BY <3>1, <4>1 DEF LpMeasure
    <3>2. CASE LpMoves /\ ~LpMeasure
      BY <3>2 DEF HeaterIsOff, LpMoves, LpRun, LpStart, LpConsumeTemp, LpConsumeHum,
         LpConsumeSeq, LpBegin, LpHeaterOn, LpHeaterRun, LpHeaterLog, LpHeaterOff,
         LpCalibrate, LpDecide, LpEnd, LpWake
    <3> QED
      BY <1>1, <3>1, <3>2
  <2> QED
    BY <1>1, <2>1 DEF HeaterIsOff, cfgVars
<1>2. CASE UNCHANGED <<cfgVars, lpPc>>
  BY <1>2 DEF HeaterIsOff, cfgVars
<1>3. CASE Retune
  <2>1. CASE CfgStore
    <3>1. /\ config' = [config EXCEPT ![ConfigFields[cfgPos + 1]] =
                                        cfgNew[ConfigFields[cfgPos + 1]]]
          /\ cfgNew' = cfgNew /\ lpPc' = lpPc
      BY <2>1 DEF CfgStore, lpVars
    <3>2. /\ DOMAIN config' = ConfigField
          /\ config'["heater_period_cycles"] \in
               {config["heater_period_cycles"], cfgNew["heater_period_cycles"]}
          /\ config'["high_rh_trigger_cycles"] \in
               {config["high_rh_trigger_cycles"], cfgNew["high_rh_trigger_cycles"]}
      BY <3>1, HeaterWords DEF HeaterIsOff
    <3> QED
      BY <3>1, <3>2 DEF HeaterIsOff, NeverHeats
  <2>2. CASE \E c \in Configs : CfgCall(c)
    BY <2>2 DEF CfgCall, HeaterIsOff, lpVars
  <2> QED
    BY <1>3, <2>1, <2>2 DEF Retune
<1>4. LpMoves => UNCHANGED cfgVars
  BY DEF LpMoves, LpRun, LpStart, LpConsumeTemp, LpConsumeHum, LpConsumeSeq, LpBegin,
     LpMeasure, LpHeaterOn, LpHeaterRun, LpHeaterLog, LpHeaterOff,
     LpCalibrate, LpDecide, LpEnd, LpWake, hpVars
<1>5. CASE Tick \/ LpStep
  <2>1. CASE Tick
    BY <1>1, <1>2, <1>4, <2>1 DEF Tick, LpMoves, vars, lpVars
  <2>2. CASE LpStep
    BY <1>1, <1>4, <2>2 DEF LpStep, LpMoves
  <2> QED
    BY <1>5, <2>1, <2>2
<1>6. CASE HpStep
  <2>1. UNCHANGED <<cfgVars, lpPc>>
    BY <1>6 DEF HpStep, HpGate, GetState, HpOtaBusy, HpStalled, HpPublish, HpQuiet, Serviced,
       HpIdle, AckTemp, HpIdleTimeout, HpAckStep, AckHum, AckSeq, HpWrap, HpWake, HpTimeout,
       Wake, vars, lpVars
  <2> QED
    BY <1>2, <2>1
<1>7. CASE SleepExit \/ LpDie \/ LpBoundReached \/ Publisher \/ OtaReboot \/ Restart
           \/ UNCHANGED allVars
  <2>1. UNCHANGED <<cfgVars, lpPc>>
    BY <1>7 DEF SleepExit, LpDie, LpBoundReached, LpStop, Publisher, OtaReboot, Restart,
       allVars, vars, lpVars, hpVars
  <2> QED
    BY <1>2, <2>1
<1> QED
  BY <1>3, <1>5, <1>6, <1>7 DEF TaskNext, TaskStep

(* The stretch of a run in which its heartbeat is counted and its result   *)
(* is not yet readable.                                                    *)
Measured == {"calibrate", "decide", "end"}

(* A run without the heater, as the gate sees it.                          *)
LEMMA LpRunEffect ==
  ASSUME HeaterIsOff, HeartbeatInv, LpMoves
  PROVE  /\ HeartbeatInv'
         /\ \/ UNCHANGED g /\ lpPc \notin LpWriting /\ lpPc' \notin LpWriting
            \/ UNCHANGED g /\ lpPc \notin LpWriting /\ lpPc' = "measure"
            \/ lpPc = "measure" /\ lpPc' \in Measured /\ Heartbeat' = Heartbeat + 1
            \/ lpPc \in Measured /\ lpPc' \in Measured /\ Heartbeat' = Heartbeat
            \/ UNCHANGED g /\ lpPc \in Measured /\ lpPc' \notin LpWriting
<1>1. HeartbeatInv'
  BY HeartbeatGrows
<1>2. CASE LpStart \/ LpConsumeTemp \/ LpConsumeHum \/ LpConsumeSeq \/ LpWake
  BY <1>1, <1>2 DEF LpStart, LpConsumeTemp, LpConsumeHum, LpConsumeSeq, LpWake, LpWriting,
     result
<1>3. CASE LpBegin \/ LpEnd
  BY <1>1, <1>3 DEF LpBegin, LpEnd, LpWriting, Measured
<1>4. CASE LpMeasure
  <2>1. Heartbeat' = Heartbeat + 1
    BY <1>4, ResultWords DEF HeartbeatInv, Heartbeat, LpMeasure
  <2>2. \A since, high : ~HeaterDue(since, high)
    BY DEF HeaterDue, HeaterIsOff
  <2>3. lpPc = "measure" /\ lpPc' \in Measured
    BY <1>4, <2>2 DEF LpMeasure, Measured
  <2> QED
    BY <1>1, <2>1, <2>3
<1>5. CASE LpCalibrate \/ LpDecide
  <2>1. Heartbeat' = Heartbeat
    BY <1>5, ResultWords DEF HeartbeatInv, Heartbeat, LpCalibrate, LpDecide
  <2> QED
    BY <1>1, <1>5, <2>1 DEF LpCalibrate, LpDecide, Measured
<1>6. ~(LpHeaterOn \/ LpHeaterRun \/ LpHeaterLog \/ LpHeaterOff)
  BY DEF HeaterIsOff, LpHeaterOn, LpHeaterRun, LpHeaterLog, LpHeaterOff
<1> QED
  BY <1>2, <1>3, <1>4, <1>5, <1>6 DEF LpMoves, LpRun

LEMMA MeasuredIsWriting == Measured \subseteq LpWriting /\ "measure" \notin Measured
  BY DEF Measured, LpWriting

(* The order of the heartbeats: what the task remembers, what it holds and *)
(* what it has published are at most what LP has counted, and less than    *)
(* that while the counted result is not yet readable.                      *)
HeartbeatOrder ==
  /\ lastSeen \in Nat /\ lastSeen <= Heartbeat
  /\ hpPc = "read" => /\ out["heartbeat_counter"] \in Nat
                      /\ out["heartbeat_counter"] <= Heartbeat
  /\ \A x \in handled : x.poll \in Nat /\ x.poll <= Heartbeat
  /\ lpPc \in Measured =>
       /\ lastSeen < Heartbeat
       /\ hpPc = "read" => out["heartbeat_counter"] < Heartbeat
       /\ \A x \in handled : x.poll < Heartbeat

(* A result that is readable and was published is the one remembered, and  *)
(* the one a pass holds.                                                   *)
PublishedIsRemembered ==
  /\ lpPc \notin LpWriting =>
       \A x \in handled :
         x.poll = Heartbeat =>
           /\ lastSeen = Heartbeat
           /\ hpPc = "read" => out["heartbeat_counter"] = Heartbeat
  /\ hpPc = "read" =>
       \A x \in handled :
         x.poll = out["heartbeat_counter"] /\ out["should_wake_hp"] # 0
           => out["heartbeat_counter"] = lastSeen

OnceInv ==
  /\ HeaterIsOff /\ HeartbeatInv
  /\ result_seq \in Nat /\ OddWhileWriting
  /\ HeartbeatOrder /\ PublishedIsRemembered

LEMMA OnceInit == NeverHeats /\ TaskInit => OnceInv
<1> SUFFICES ASSUME NeverHeats, TaskInit PROVE OnceInv
  OBVIOUS
<1>1. HeaterIsOff
  BY HeaterInit
<1>2. result_seq = 0 /\ lpPc = "sleep" /\ ~IsOdd(0)
  BY DEF TaskInit, LpInit, IsOdd
<1> QED
  BY <1>1, <1>2, GateInit DEF OnceInv, OddWhileWriting, LpWriting, HeartbeatOrder, Measured,
     PublishedIsRemembered

LEMMA OnceNext ==
  ASSUME NeverHeats
  PROVE  OnceInv /\ [TaskNext]_allVars => OnceInv'
<1> SUFFICES ASSUME OnceInv, [TaskNext]_allVars PROVE OnceInv'
  OBVIOUS
<1>0. HeaterIsOff' /\ Heartbeat \in Nat
  BY HeaterNext DEF OnceInv, HeartbeatInv
<1>1. CASE Reads
  <2>1. /\ UNCHANGED <<g, result_seq, lpPc, lastSeen, handled>>
        /\ \/ lpPc \notin LpWriting /\ out' = g
           \/ lpPc \in LpWriting /\ out' = ZeroState
    BY <1>1, ReadsEffect DEF OnceInv, OddWhileWriting
  <2>2. HeartbeatInv' /\ result_seq' \in Nat /\ OddWhileWriting' /\ Heartbeat' = Heartbeat
    BY <2>1 DEF OnceInv, HeartbeatInv, Heartbeat, OddWhileWriting
  <2>3. CASE lpPc \notin LpWriting
    <3>1. out' = g /\ out'["heartbeat_counter"] = Heartbeat /\ lpPc \notin Measured
      BY <2>1, <2>3, MeasuredIsWriting DEF Heartbeat
    <3> QED
      BY <1>0, <2>1, <2>2, <2>3, <3>1 DEF OnceInv, HeartbeatOrder, PublishedIsRemembered
  <2>4. CASE lpPc \in LpWriting
    <3>1. out'["heartbeat_counter"] = 0 /\ out'["should_wake_hp"] = 0
      BY <2>1, <2>4, ResultWords DEF ZeroState
    <3> QED
      BY <1>0, <2>1, <2>2, <2>4, <3>1 DEF OnceInv, HeartbeatOrder, PublishedIsRemembered
  <2> QED
    BY <2>3, <2>4
<1>2. CASE Services
  <2>1. /\ UNCHANGED <<g, result_seq, lpPc, out>> /\ hpPc = "read" /\ hpPc' # "read"
        /\ lastSeen' = out["heartbeat_counter"]
        /\ \A x \in handled' : x \in handled \/ x.poll = out["heartbeat_counter"]
    BY <1>2, ServicesEffect, SeenPoll
  <2>2. HeartbeatInv' /\ result_seq' \in Nat /\ OddWhileWriting' /\ Heartbeat' = Heartbeat
    BY <2>1 DEF OnceInv, HeartbeatInv, Heartbeat, OddWhileWriting
  <2>3. HeartbeatOrder'
    BY <2>1, <2>2 DEF OnceInv, HeartbeatOrder
  <2>4. PublishedIsRemembered'
    BY <2>1, <2>2 DEF OnceInv, PublishedIsRemembered
  <2> QED
    BY <1>0, <2>2, <2>3, <2>4 DEF OnceInv
<1>3. CASE LpMoves /\ UNCHANGED <<out, lastSeen, handled, hpPc>>
  <2>1. result_seq' \in Nat /\ OddWhileWriting'
    BY <1>3, LpEffect, ParityFlips DEF OnceInv, OddWhileWriting, LpMoves, result
  <2>2. /\ HeartbeatInv'
        /\ \/ UNCHANGED g /\ lpPc \notin LpWriting /\ lpPc' \notin LpWriting
           \/ UNCHANGED g /\ lpPc \notin LpWriting /\ lpPc' = "measure"
           \/ lpPc = "measure" /\ lpPc' \in Measured /\ Heartbeat' = Heartbeat + 1
           \/ lpPc \in Measured /\ lpPc' \in Measured /\ Heartbeat' = Heartbeat
           \/ UNCHANGED g /\ lpPc \in Measured /\ lpPc' \notin LpWriting
    BY <1>3, LpRunEffect DEF OnceInv
  <2>3. UNCHANGED g => Heartbeat' = Heartbeat
    BY DEF Heartbeat
  <2>4. "measure" \in LpWriting /\ Measured \subseteq LpWriting /\ "measure" \notin Measured
    BY MeasuredIsWriting DEF LpWriting
  <2>5. HeartbeatOrder'
    BY <1>0, <1>3, <2>2, <2>3, <2>4 DEF OnceInv, HeartbeatOrder
  <2>6. PublishedIsRemembered'
    BY <1>0, <1>3, <2>2, <2>3, <2>4 DEF OnceInv, HeartbeatOrder, PublishedIsRemembered
  <2> QED
    BY <1>0, <2>1, <2>2, <2>5, <2>6 DEF OnceInv
<1>4. CASE UNCHANGED gateVars /\ (hpPc' = hpPc \/ hpPc' # "read")
  <2>1. Heartbeat' = Heartbeat /\ HeartbeatInv'
    BY <1>4 DEF gateVars, Heartbeat, OnceInv, HeartbeatInv
  <2> QED
    BY <1>0, <1>4, <2>1 DEF OnceInv, gateVars, OddWhileWriting, HeartbeatOrder,
       PublishedIsRemembered
<1> QED
  BY <1>1, <1>2, <1>3, <1>4, FourKinds

(* No result is published twice, however often a latched wakeup, a timeout *)
(* or a retry makes the task look at it: for every environment in which    *)
(* get_state() never uses up its attempts, and also when it does if the    *)
(* heater is off.  With the heater and the fall-through together the task  *)
(* can forget the heartbeat of a result whose flag is still the old one.   *)
THEOREM NeverPublishedTwice ==
  "fall" \notin Env \/ NeverHeats => (TaskSpec => []PublishedOnce)
<1>1. ASSUME "fall" \notin Env PROVE TaskSpec => []PublishedOnce
  <2>1. TaskInit => SeenInOrder
    BY GateInit DEF SeenInOrder
  <2>2. SeenInOrder /\ [TaskNext]_allVars => SeenInOrder'
    BY <1>1, SeenInOrderNext
  <2>3. SeenInOrder => PublishedOnce
    BY SeenPoll DEF SeenInOrder, PublishedOnce, SnapshotTaken, ShouldWake, Progressed
  <2> QED
    BY <2>1, <2>2, <2>3, PTL DEF TaskSpec
<1>2. ASSUME NeverHeats PROVE TaskSpec => []PublishedOnce
  <2>1. TaskInit => OnceInv
    BY <1>2, OnceInit
  <2>2. OnceInv /\ [TaskNext]_allVars => OnceInv'
    BY <1>2, OnceNext
  <2>3. OnceInv => PublishedOnce
    BY SeenPoll DEF OnceInv, PublishedIsRemembered, PublishedOnce, SnapshotTaken, ShouldWake,
       Progressed
  <2> QED
    BY <2>1, <2>2, <2>3, PTL DEF TaskSpec
<1> QED
  BY <1>1, <1>2

-----------------------------------------------------------------------------
(* The other side of the gate: what it holds back has been published.      *)

LEMMA NoUpdateNext ==
  ASSUME "ota" \notin Env
  PROVE  NoUpdate /\ [TaskNext]_allVars => NoUpdate'
<1> SUFFICES ASSUME NoUpdate, [TaskNext]_allVars PROVE NoUpdate'
  OBVIOUS
<1> USE DEF NoUpdate
<1>1. CASE UNCHANGED pubVars
  BY <1>1 DEF pubVars
<1>2. CASE Elsewhere
  BY <1>1, <1>2, ElsewhereLeavesHandoff DEF handoffVars
<1>3. CASE HpGate \/ HpOtaBusy \/ HpStalled \/ HpQuiet \/ HpIdleTimeout \/ HpAckStep
           \/ HpWrap \/ HpWake \/ HpTimeout \/ OtaReboot
  BY <1>1, <1>3 DEF HpGate, HpOtaBusy, HpStalled, HpQuiet, HpIdleTimeout, HpAckStep,
     HpWrap, HpWake, HpTimeout, Wake, OtaReboot
<1>4. CASE HpIdle
  BY <1>4 DEF HpIdle
<1>5. CASE HpPublish
  BY <1>5 DEF HpPublish, SendSensorData
<1>6. CASE Publisher
  BY <1>6 DEF Publisher, PubStep, PubConnectFails, PubSkipConnect, PubSend, PubAcked,
     PubNotAcked, PubTail, PubOtaCheck, PubOtaEnds, PubFinish, PubSetIdle
<1>7. CASE UNCHANGED allVars
  BY <1>1, <1>7 DEF allVars
<1> QED
  BY <1>2, <1>3, <1>4, <1>5, <1>6, <1>7 DEF TaskNext, TaskStep, HpStep, Elsewhere

(* A result the task remembers and that is flagged was published; the      *)
(* snapshot of a pass, as long as it is the newest result, is that result. *)
RememberedIsPublished ==
  /\ lpPc \notin LpWriting /\ lastSeen = Heartbeat /\ g["should_wake_hp"] # 0
       => Seen(g) \in handled
  /\ hpPc = "read" /\ lpPc \notin LpWriting /\ out["heartbeat_counter"] = Heartbeat
       => Seen(out) = Seen(g) /\ out["should_wake_hp"] = g["should_wake_hp"]
  /\ hpPc = "read" /\ out["heartbeat_counter"] = lastSeen /\ out["should_wake_hp"] # 0
       => Seen(out) \in handled

LEMMA RememberedNext ==
  ASSUME NeverHeats
  PROVE  OnceInv /\ NoUpdate /\ RememberedIsPublished /\ [TaskNext]_allVars
           => RememberedIsPublished'
<1> SUFFICES ASSUME OnceInv, NoUpdate, RememberedIsPublished, [TaskNext]_allVars
             PROVE  RememberedIsPublished'
  OBVIOUS
<1>0. /\ UNCHANGED g => Heartbeat' = Heartbeat /\ Seen(g)' = Seen(g)
      /\ UNCHANGED out => Seen(out)' = Seen(out)
  BY DEF Heartbeat, Seen, CalReading
<1>1. CASE Reads
  <2>1. /\ UNCHANGED <<g, lpPc, lastSeen, handled>>
        /\ \/ lpPc \notin LpWriting /\ out' = g
           \/ lpPc \in LpWriting /\ out' = ZeroState
    BY <1>1, ReadsEffect DEF OnceInv, OddWhileWriting
  <2>2. CASE out' = g /\ lpPc \notin LpWriting
    <3>1. Seen(out)' = Seen(g) /\ out'["heartbeat_counter"] = Heartbeat
      BY <2>2 DEF Seen, CalReading, Heartbeat
    <3> QED
      BY <1>0, <2>1, <2>2, <3>1 DEF RememberedIsPublished
  <2>3. CASE out' = ZeroState /\ lpPc \in LpWriting
    <3>1. out'["should_wake_hp"] = 0
      BY <2>3, ResultWords DEF ZeroState
    <3> QED
      BY <1>0, <2>1, <2>3, <3>1 DEF RememberedIsPublished
  <2> QED
    BY <2>1, <2>2, <2>3
<1>2. CASE Services
  <2>1. /\ UNCHANGED <<g, lpPc, out>> /\ hpPc = "read" /\ hpPc' # "read"
        /\ lastSeen' = out["heartbeat_counter"] /\ handled \subseteq handled'
        /\ ShouldWake => Seen(out) \in handled'
    BY <1>2, ServicesEffect DEF NoUpdate
  <2>2. lpPc \notin LpWriting /\ lastSeen' = Heartbeat /\ g["should_wake_hp"] # 0
          => Seen(g) \in handled'
    <3> SUFFICES ASSUME lpPc \notin LpWriting, lastSeen' = Heartbeat, g["should_wake_hp"] # 0
                 PROVE  Seen(g) \in handled'
      OBVIOUS
    <3>1. Seen(out) = Seen(g) /\ out["should_wake_hp"] # 0
      BY <2>1 DEF RememberedIsPublished
    <3>2. CASE Progressed
      BY <2>1, <3>1, <3>2 DEF ShouldWake
    <3>3. CASE ~Progressed
      BY <2>1, <3>1, <3>3 DEF Progressed, RememberedIsPublished
    <3> QED
      BY <3>2, <3>3
  <2> QED
    BY <1>0, <2>1, <2>2 DEF RememberedIsPublished
<1>3. CASE LpMoves /\ UNCHANGED <<out, lastSeen, handled, hpPc>>
  <2>1. \/ UNCHANGED g /\ lpPc \notin LpWriting /\ lpPc' \notin LpWriting
        \/ lpPc' \in LpWriting
        \/ UNCHANGED g /\ lpPc \in Measured /\ lpPc' \notin LpWriting
    BY <1>3, LpRunEffect, MeasuredIsWriting DEF OnceInv, LpWriting
  <2>2. lpPc \in Measured => /\ lastSeen # Heartbeat
                             /\ hpPc = "read" => out["heartbeat_counter"] # Heartbeat
    BY DEF OnceInv, HeartbeatOrder, HeartbeatInv
  <2> QED
    BY <1>0, <1>3, <2>1, <2>2 DEF RememberedIsPublished
<1>4. CASE UNCHANGED gateVars /\ (hpPc' = hpPc \/ hpPc' # "read")
  BY <1>0, <1>4 DEF RememberedIsPublished, gateVars
<1> QED
  BY <1>1, <1>2, <1>3, <1>4, FourKinds

(* A flag the task ignores because the heartbeat did not move is the       *)
(* leftover of a result it has already tried to publish: with the heater   *)
(* off and no update staged no flagged result is swallowed by the gate,    *)
(* also not after a fall-through of get_state() or a failed publish.       *)
THEOREM NoFlagIsSwallowed ==
  NeverHeats /\ "ota" \notin Env => (TaskSpec => []LeftoverIsHandled)
<1> SUFFICES ASSUME NeverHeats, "ota" \notin Env PROVE TaskSpec => []LeftoverIsHandled
  OBVIOUS
<1>1. TaskInit => OnceInv /\ NoUpdate /\ RememberedIsPublished
  <2> SUFFICES ASSUME TaskInit PROVE OnceInv /\ NoUpdate /\ RememberedIsPublished
    OBVIOUS
  <2>1. NoUpdate
    BY DEF TaskInit, PubInit, NoUpdate
  <2>2. RememberedIsPublished
    BY GateInit DEF RememberedIsPublished
  <2> QED
    BY <2>1, <2>2, OnceInit
<1>2. OnceInv /\ [TaskNext]_allVars => OnceInv'
  BY OnceNext
<1>3. NoUpdate /\ [TaskNext]_allVars => NoUpdate'
  BY NoUpdateNext
<1>4. OnceInv /\ NoUpdate /\ RememberedIsPublished /\ [TaskNext]_allVars
        => RememberedIsPublished'
  BY RememberedNext
<1>5. RememberedIsPublished => LeftoverIsHandled
  BY DEF RememberedIsPublished, LeftoverIsHandled, SnapshotTaken, ShouldWake, Progressed
<1> QED
  BY <1>1, <1>2, <1>3, <1>4, <1>5, PTL DEF TaskSpec

-----------------------------------------------------------------------------
(* The safeguard timeout.  The window is max_skip_cycles + 3 polls long;   *)
(* the argument counts the polls of one wait: a poll that does not lead to *)
(* a wakeup is a skipped one, and at most max_skip_cycles of them follow   *)
(* each other.                                                             *)
BootSkips == BootConfig["max_skip_cycles"]

(* No live setting allows more skips than the one the window was computed  *)
(* from at boot.                                                           *)
WindowFits == \A c \in Configs : c["max_skip_cycles"] <= BootSkips

(* The skip counter and the budget in force stay within the boot's budget. *)
BudgetInv ==
  /\ HeaterIsOff
  /\ config["max_skip_cycles"] \in Nat /\ config["max_skip_cycles"] <= BootSkips
  /\ skipped_cycles \in Nat /\ skipped_cycles <= BootSkips
  /\ ticks \in Nat
  /\ "ok" \in DOMAIN lp /\ "seq" \in DOMAIN lp
  /\ DOMAIN g = ResultField

(* Unless a measurement has failed, a decision is about a good reading.    *)
GoodPoll == ~disturbed /\ lpPc \in {"calibrate", "decide"} => lp.ok

(* The task acknowledges nothing while it waits, so only the first poll of *)
(* a wait can consume an acknowledgement and reset the skip counter.       *)
AckTakenFirst ==
  hpPc = "wait" /\ ~lpDead /\ ticks > 0 =>
    \/ Consuming /\ lp.seq = hp_ack_seq /\ ticks = 1
    \/ ~Consuming /\ lastConsumedAckSeq = hp_ack_seq

(* A wakeup is latched, delivered or about to be requested.                *)
WakeComing ==
  \/ earlyWake \/ ulpWake
  \/ lpPc \in {"end", "wake"} /\ g["should_wake_hp"] # 0

(* The poll in progress has not been decided yet.                          *)
Undecided == lpPc \notin {"sleep", "end", "wake"}

(* The polls of a wait are skipped ones, up to the one in progress.        *)
PollsCounted ==
  hpPc = "wait" /\ ~lpDead /\ ~disturbed =>
    /\ ticks <= BootSkips + 1
    /\ \/ WakeComing
       \/ ticks <= skipped_cycles
       \/ Undecided /\ ticks <= skipped_cycles + 1

GapInv == BudgetInv /\ GoodPoll /\ AckTakenFirst /\ PollsCounted /\ SafeguardIsSilent

(* The history variable only ever becomes true.                            *)
LEMMA DisturbedStays ==
  ASSUME [TaskNext]_allVars
  PROVE  disturbed => disturbed'
<1>1. CASE TaskNext
  BY <1>1, Zenon DEF TaskNext, Noted
<1>2. CASE UNCHANGED allVars
  BY <1>2, Zenon DEF allVars
<1> QED
  BY <1>1, <1>2

(* A lost wakeup or a failed measurement sets it.                          *)
LEMMA DisturbedBy ==
  ASSUME TaskNext
  PROVE  WakeLost \/ PollFailed => disturbed'
BY Zenon DEF TaskNext, Noted

(* The window in polls, and the types of the budgets.                      *)
LEMMA BootBudget ==
  /\ BootSkips \in Nat /\ SafeguardPolls = BootSkips + 3
  /\ "max_skip_cycles" \in ConfigField
  /\ \A c \in Configs : c["max_skip_cycles"] \in Nat
<1>1. ConfigFields[6] = "max_skip_cycles"
  BY DEF ConfigFields
<1> QED
  BY <1>1, StoredWords, LpConstants DEF BootSkips, SafeguardPolls

(* A booting chip has skipped nothing.                                     *)
LEMMA GapInit == NeverHeats /\ TaskInit => GapInv
<1> SUFFICES ASSUME NeverHeats, TaskInit PROVE GapInv
  OBVIOUS
<1>1. BudgetInv
  <2>1. "ok" \in DOMAIN lp /\ "seq" \in DOMAIN lp
    BY DEF TaskInit, LpInit
  <2>2. DOMAIN g = ResultField
    BY ResultWords DEF TaskInit, LpInit, ZeroState
  <2> QED
    BY <2>1, <2>2, HeaterInit, BootBudget DEF TaskInit, LpInit, HpInit, BudgetInv, BootSkips
<1> QED
  BY <1>1 DEF TaskInit, LpInit, HpInit, GapInv, GoodPoll, AckTakenFirst, PollsCounted,
     SafeguardIsSilent

(* What the argument is about.                                             *)
gapVars == <<config, cfgNew, g, lpPc, lp, skipped_cycles, lastConsumedAckSeq, hp_ack_seq,
             ulpWake, earlyWake, ticks, wakeReason, lpDead, hpPc>>

(* A step that leaves it alone keeps the invariant.                        *)
LEMMA GapFrame ==
  ASSUME GapInv, UNCHANGED gapVars, disturbed => disturbed'
  PROVE  GapInv'
<1>1. BudgetInv'
  BY DEF GapInv, BudgetInv, HeaterIsOff, gapVars
<1>2. GoodPoll' /\ SafeguardIsSilent'
  BY DEF GapInv, GoodPoll, SafeguardIsSilent, gapVars
<1>3. AckTakenFirst'
  BY DEF GapInv, AckTakenFirst, Consuming, gapVars
<1>4. PollsCounted'
  BY DEF GapInv, PollsCounted, WakeComing, Undecided, gapVars
<1> QED
  BY <1>1, <1>2, <1>3, <1>4 DEF GapInv

(* The polls of a wait: the LP timer fires.                                *)
LEMMA TickKeepsGap ==
  ASSUME GapInv, HeaterIsOff', disturbed => disturbed', Tick
  PROVE  GapInv'
<1>0. /\ BootSkips \in Nat /\ UNCHANGED <<hpPc, earlyWake, wakeReason, lpDead>>
      /\ ticks' = ticks + 1 /\ ticks \in Nat
      /\ hpPc = "wait" => ~ulpWake /\ ~earlyWake
  BY BootBudget DEF Tick, GapInv, BudgetInv
<1>1. SafeguardIsSilent'
  BY <1>0 DEF GapInv, SafeguardIsSilent
<1>2. CASE ~lpDead /\ LpStart
  <2>1. /\ lpPc = "sleep" /\ lpPc' \in {"consumeTemp", "begin"}
        /\ lpPc' = "consumeTemp" <=> hp_ack_seq # lastConsumedAckSeq
        /\ UNCHANGED <<g, skipped_cycles, lastConsumedAckSeq, hp_ack_seq, config, ulpWake>>
    BY <1>2 DEF LpStart, result, baseline, ackMem, hpVars, cfgVars
  <2>2. lp'.seq = hp_ack_seq /\ "ok" \in DOMAIN lp' /\ "seq" \in DOMAIN lp'
    BY <1>2 DEF LpStart, GapInv, BudgetInv
  <2>3. BudgetInv'
    BY <1>0, <2>1, <2>2 DEF GapInv, BudgetInv
  <2>4. AckTakenFirst'
    BY <1>0, <2>1, <2>2 DEF GapInv, AckTakenFirst, Consuming
  <2>5. GoodPoll'
    BY <2>1 DEF GoodPoll
  <2>6. PollsCounted'
    BY <1>0, <2>1 DEF GapInv, BudgetInv, PollsCounted, WakeComing, Undecided
  <2> QED
    BY <1>1, <2>3, <2>4, <2>5, <2>6 DEF GapInv
<1>3. CASE lpDead /\ UNCHANGED vars
  <2>1. UNCHANGED <<config, g, lpPc, lp, skipped_cycles>>
    BY <1>3 DEF vars, cfgVars, result, lpVars, baseline
  <2>2. BudgetInv' /\ GoodPoll'
    BY <1>0, <2>1 DEF GapInv, BudgetInv, GoodPoll
  <2> QED
    BY <1>0, <1>1, <1>3, <2>2 DEF GapInv, AckTakenFirst, PollsCounted
<1>4. lpPc # "heater"
  BY DEF GapInv, BudgetInv, HeaterIsOff
<1> QED
  BY <1>2, <1>3, <1>4 DEF Tick

(* A run of the LP program: consuming resets the skip counter in the first *)
(* poll only, and a poll that is not skipped raises its flag.              *)
LEMMA LpStepKeepsGap ==
  ASSUME GapInv, HeaterIsOff', disturbed => disturbed', PollFailed => disturbed', LpStep
  PROVE  GapInv'
<1>0. /\ BootSkips \in Nat
      /\ UNCHANGED <<hpPc, earlyWake, wakeReason, lpDead, ticks>>
  BY BootBudget DEF LpStep, hpVarsAll
<1>1. SafeguardIsSilent'
  BY <1>0 DEF GapInv, SafeguardIsSilent
<1>2. UNCHANGED <<config, hp_ack_seq>>
  BY DEF LpStep, LpRun, LpConsumeTemp, LpConsumeHum, LpConsumeSeq, LpBegin,
     LpMeasure, LpHeaterOn, LpHeaterRun, LpHeaterLog, LpHeaterOff,
     LpCalibrate, LpDecide, LpEnd, LpWake, hpVars, cfgVars, ackMem
<1>3. ASSUME UNCHANGED <<skipped_cycles, lastConsumedAckSeq, ulpWake>>,
             Consuming' <=> Consuming, lp'.seq = lp.seq,
             "ok" \in DOMAIN lp', "seq" \in DOMAIN lp',
             Undecided, DOMAIN g' = ResultField, Undecided', GoodPoll'
      PROVE  GapInv'
  <2>1. BudgetInv'
    BY <1>0, <1>2, <1>3 DEF GapInv, BudgetInv
  <2>2. AckTakenFirst'
    BY <1>0, <1>2, <1>3 DEF GapInv, AckTakenFirst
  <2>3. PollsCounted'
    BY <1>0, <1>3 DEF GapInv, PollsCounted, WakeComing, Undecided
  <2> QED
    BY <1>1, <1>3, <2>1, <2>2, <2>3 DEF GapInv
<1>4. /\ "ok" \in DOMAIN lp /\ "seq" \in DOMAIN lp /\ DOMAIN g = ResultField
      /\ skipped_cycles \in Nat /\ skipped_cycles <= BootSkips /\ ticks \in Nat
  BY DEF GapInv, BudgetInv
<1>11. CASE LpConsumeTemp
  BY <1>3, <1>4, <1>11 DEF LpConsumeTemp, result, Consuming, Undecided, GoodPoll
<1>12. CASE LpConsumeHum
  <2>1. /\ lpPc = "consumeHum" /\ lpPc' = "consumeSeq" /\ skipped_cycles' = 0
        /\ UNCHANGED <<g, lp, ulpWake, lastConsumedAckSeq>>
    BY <1>12 DEF LpConsumeHum, result
  <2>2. BudgetInv' /\ GoodPoll'
    BY <1>0, <1>2, <2>1 DEF GapInv, BudgetInv, GoodPoll
  <2>3. AckTakenFirst'
    BY <1>0, <1>2, <2>1 DEF GapInv, AckTakenFirst, Consuming
  <2>4. PollsCounted'
    <3>1. hpPc = "wait" /\ ~lpDead => ticks <= 1
      BY <1>4, <2>1 DEF GapInv, AckTakenFirst, Consuming
    <3> QED
      BY <1>0, <1>4, <2>1, <3>1 DEF GapInv, PollsCounted, Undecided
  <2> QED
    BY <1>1, <2>2, <2>3, <2>4 DEF GapInv
<1>13. CASE LpConsumeSeq
  <2>1. /\ lpPc = "consumeSeq" /\ lpPc' = "begin" /\ lastConsumedAckSeq' \in {lp.seq, hp_ack_seq}
        /\ UNCHANGED <<g, lp, ulpWake, skipped_cycles>>
    BY <1>13 DEF LpConsumeSeq, result
  <2>2. BudgetInv' /\ GoodPoll'
    BY <1>0, <1>2, <2>1 DEF GapInv, BudgetInv, GoodPoll
  <2>3. AckTakenFirst'
    BY <1>0, <1>2, <2>1 DEF GapInv, AckTakenFirst, Consuming
  <2>4. PollsCounted'
    BY <1>0, <2>1 DEF GapInv, PollsCounted, WakeComing, Undecided
  <2> QED
    BY <1>1, <2>2, <2>3, <2>4 DEF GapInv
<1>14. CASE LpBegin
  <2>1. /\ lpPc = "begin" /\ lpPc' = "measure"
        /\ UNCHANGED <<g, ulpWake, skipped_cycles, lastConsumedAckSeq>>
    BY <1>14 DEF LpBegin, baseline
  <2>2. lp'.seq = lp.seq /\ "ok" \in DOMAIN lp' /\ "seq" \in DOMAIN lp'
    BY <1>4, <1>14 DEF LpBegin
  <2> QED
    BY <1>3, <1>4, <2>1, <2>2 DEF Consuming, Undecided, GoodPoll
<1>15. CASE LpMeasure
  <2>1. /\ lpPc = "measure" /\ UNCHANGED <<ulpWake, skipped_cycles, lastConsumedAckSeq>>
    BY <1>15 DEF LpMeasure, baseline
  <2>2. lp'.seq = lp.seq /\ "ok" \in DOMAIN lp' /\ "seq" \in DOMAIN lp'
    BY <1>4, <1>15 DEF LpMeasure
  <2>3. DOMAIN g' = ResultField
    BY <1>4, <1>15 DEF LpMeasure
  <2>4. lpPc' \in {"heaterOn", "calibrate", "decide"}
    BY <1>15 DEF LpMeasure
  <2>5. GoodPoll'
    <3>1. CASE lp'.ok
      BY <3>1 DEF GoodPoll
    <3>2. CASE g'["sensor_ok"] = 0
      BY <2>1, <3>2 DEF GoodPoll, PollFailed
    <3>3. g'["sensor_ok"] = 0 \/ lp'.ok
      <4>1. \/ g' = [g EXCEPT !["heartbeat_counter"] = @ + 1, !["sensor_ok"] = 0]
            \/ \E t \in Temps, h \in Hums :
                 lp' = [lp EXCEPT !.ok = TRUE, !.raw = [t |-> t, h |-> h]]
        BY <1>15 DEF LpMeasure
      <4>2. \A r : [lp EXCEPT !.ok = TRUE, !.raw = r].ok
        BY <1>4
      <4>3. [g EXCEPT !["heartbeat_counter"] = @ + 1, !["sensor_ok"] = 0]["sensor_ok"] = 0
        BY <1>4, ResultWords
      <4> QED
        BY <4>1, <4>2, <4>3
    <3> QED
      BY <3>1, <3>2, <3>3
  <2> QED
    BY <1>3, <2>1, <2>2, <2>3, <2>4, <2>5 DEF Consuming, Undecided
<1>16. CASE LpCalibrate
  <2>1. /\ lpPc = "calibrate" /\ lpPc' = "decide"
        /\ UNCHANGED <<lp, ulpWake, skipped_cycles, lastConsumedAckSeq>>
    BY <1>16 DEF LpCalibrate, baseline
  <2>2. DOMAIN g' = ResultField
    BY <1>4, <1>16 DEF LpCalibrate
  <2>3. GoodPoll'
    BY <2>1 DEF GapInv, GoodPoll
  <2> QED
    BY <1>3, <1>4, <2>1, <2>2, <2>3 DEF Consuming, Undecided
<1>17. CASE LpDecide
  <2>1. /\ lpPc = "decide" /\ lpPc' = "end"
        /\ UNCHANGED <<lp, ulpWake, lastConsumedAckSeq>>
        /\ skipped_cycles' = IF SkipThisCycle THEN skipped_cycles + 1 ELSE skipped_cycles
        /\ g' = [g EXCEPT !["should_wake_hp"] = Flag(ValueDriven \/ (lp.wasOk # 0 /\ ~lp.ok))]
    BY <1>17 DEF LpDecide
  <2>2. /\ DOMAIN g' = ResultField
        /\ g'["should_wake_hp"] = Flag(ValueDriven \/ (lp.wasOk # 0 /\ ~lp.ok))
    BY <1>4, <2>1, ResultWords
  <2>3. SkipThisCycle => skipped_cycles < BootSkips
    BY <1>0 DEF SkipThisCycle, GapInv, BudgetInv
  <2>4. BudgetInv' /\ GoodPoll'
    BY <1>0, <1>2, <1>4, <2>1, <2>2, <2>3 DEF GapInv, BudgetInv, GoodPoll
  <2>5. AckTakenFirst'
    BY <1>0, <1>2, <2>1 DEF GapInv, AckTakenFirst, Consuming
  <2>6. ~disturbed' => SkipThisCycle \/ g'["should_wake_hp"] # 0
    BY <2>1, <2>2 DEF GapInv, GoodPoll, ValueDriven, Flag
  <2>7. PollsCounted'
    <3> SUFFICES ASSUME hpPc = "wait", ~lpDead, ~disturbed'
                 PROVE  /\ ticks <= BootSkips + 1
                        /\ g'["should_wake_hp"] # 0 \/ WakeComing' \/ ticks <= skipped_cycles'
      BY <1>0, <2>1 DEF PollsCounted, WakeComing
    <3>1. /\ ticks <= BootSkips + 1
          /\ earlyWake \/ ulpWake \/ ticks <= skipped_cycles + 1
      BY <1>4, <2>1 DEF GapInv, PollsCounted, WakeComing
    <3>2. earlyWake \/ ulpWake => WakeComing'
      BY <1>0, <2>1 DEF WakeComing
    <3> QED
      BY <2>1, <2>6, <3>1, <3>2
  <2> QED
    BY <1>1, <2>4, <2>5, <2>7 DEF GapInv
<1>18. CASE LpEnd
  <2>1. /\ lpPc = "end" /\ lpPc' = "wake"
        /\ UNCHANGED <<g, lp, ulpWake, skipped_cycles, lastConsumedAckSeq>>
    BY <1>18 DEF LpEnd, baseline
  <2>2. BudgetInv' /\ GoodPoll'
    BY <1>0, <1>2, <2>1 DEF GapInv, BudgetInv, GoodPoll
  <2>3. AckTakenFirst'
    BY <1>0, <1>2, <2>1 DEF GapInv, AckTakenFirst, Consuming
  <2>4. PollsCounted'
    BY <1>0, <2>1 DEF GapInv, PollsCounted, WakeComing, Undecided
  <2> QED
    BY <1>1, <2>2, <2>3, <2>4 DEF GapInv
<1>19. CASE LpWake
  <2>1. /\ lpPc = "wake" /\ lpPc' = "sleep"
        /\ UNCHANGED <<g, lp, skipped_cycles, lastConsumedAckSeq>>
    BY <1>19 DEF LpWake, result, baseline
  <2>2. ulpWake \/ g["should_wake_hp"] # 0 => ulpWake'
    BY <1>19, Zenon DEF LpWake
  <2>3. BudgetInv' /\ GoodPoll'
    BY <1>0, <1>2, <2>1 DEF GapInv, BudgetInv, GoodPoll
  <2>4. AckTakenFirst'
    BY <1>0, <1>2, <2>1 DEF GapInv, AckTakenFirst, Consuming
  <2>5. PollsCounted'
    BY <1>0, <2>1, <2>2 DEF GapInv, PollsCounted, WakeComing, Undecided
  <2> QED
    BY <1>1, <2>3, <2>4, <2>5 DEF GapInv
<1>20. ~(LpHeaterOn \/ LpHeaterRun \/ LpHeaterLog \/ LpHeaterOff)
  BY DEF GapInv, BudgetInv, HeaterIsOff, LpHeaterOn, LpHeaterRun, LpHeaterLog, LpHeaterOff
<1> QED
  BY <1>11, <1>12, <1>13, <1>14, <1>15, <1>16, <1>17, <1>18, <1>19, <1>20
     DEF LpStep, LpRun

(* The steps that end a pass or a wait, and those of an awake task.        *)
LEMMA HpStepKeepsGap ==
  ASSUME GapInv, HeaterIsOff', disturbed => disturbed', HpStep \/ OtaReboot
  PROVE  GapInv'
<1>0. BootSkips \in Nat /\ SafeguardPolls = BootSkips + 3
  BY BootBudget
<1>1. ASSUME UNCHANGED <<config, g, lpPc, lp, skipped_cycles>>, ticks' \in Nat
      PROVE  BudgetInv' /\ GoodPoll'
  BY <1>1 DEF GapInv, BudgetInv, GoodPoll
<1>2. UNCHANGED <<config, g, lpPc, lp, skipped_cycles, lpDead>>
  <2>1. CASE HpGate
    BY <2>1 DEF HpGate, GetState, vars, cfgVars, result, lpVars, baseline
  <2>2. CASE HpOtaBusy \/ HpStalled \/ HpPublish \/ HpQuiet
    BY <2>2 DEF HpOtaBusy, HpStalled, HpPublish, HpQuiet, Serviced, vars, cfgVars, result,
       lpVars, baseline
  <2>3. CASE HpIdle
    BY <2>3 DEF HpIdle, AckTemp, vars, cfgVars, result, lpVars, baseline
  <2>4. CASE HpAckStep
    BY <2>4 DEF HpAckStep, AckHum, AckSeq, cfgVars, result, lpVars, baseline
  <2>5. CASE HpIdleTimeout \/ HpWrap \/ HpWake \/ HpTimeout \/ OtaReboot
    BY <2>5 DEF HpIdleTimeout, HpWrap, HpWake, HpTimeout, Wake, OtaReboot, vars, cfgVars,
       result, lpVars, baseline
  <2> QED
    BY <2>1, <2>2, <2>3, <2>4, <2>5 DEF HpStep
<1>3. CASE hpPc' # "wait" /\ UNCHANGED <<wakeReason, ticks>>
  <2>1. SafeguardIsSilent'
    BY <1>2, <1>3 DEF GapInv, SafeguardIsSilent
  <2>2. ticks' \in Nat
    BY <1>3 DEF GapInv, BudgetInv
  <2> QED
    BY <1>1, <1>2, <1>3, <2>1, <2>2 DEF GapInv, AckTakenFirst, PollsCounted
<1>4. CASE hpPc' = "wait" /\ ticks' = 0 /\ UNCHANGED wakeReason
  <2>1. SafeguardIsSilent'
    BY <1>2, <1>4 DEF GapInv, SafeguardIsSilent
  <2>2. skipped_cycles' \in Nat
    BY <1>2 DEF GapInv, BudgetInv
  <2>3. ticks' <= BootSkips + 1 /\ ticks' <= skipped_cycles'
    BY <1>0, <1>4, <2>2
  <2>4. PollsCounted'
    BY <2>3 DEF PollsCounted, WakeComing, Undecided
  <2> QED
    BY <1>1, <1>2, <1>4, <2>1, <2>4 DEF GapInv, AckTakenFirst
<1>5. CASE HpWake
  <2>1. hpPc' = "gate" /\ wakeReason' = "LpWake" /\ ticks' = 0
    BY <1>5 DEF HpWake, Wake
  <2>2. BudgetInv' /\ GoodPoll'
    BY <1>1, <1>2, <2>1
  <2>3. AckTakenFirst' /\ PollsCounted' /\ SafeguardIsSilent'
    BY <2>1 DEF AckTakenFirst, PollsCounted, SafeguardIsSilent
  <2> QED
    BY <2>2, <2>3 DEF GapInv
<1>6. CASE HpTimeout
  <2>1. /\ hpPc = "wait" /\ hpPc' = "gate" /\ ticks = WaitPolls /\ ticks' = 0
        /\ wakeReason' = IF otaRetryWait THEN "OtaRetry" ELSE "Safeguard"
    BY <1>6 DEF HpTimeout, Wake
  <2>2. SafeguardIsSilent'
    <3>1. CASE lpDead \/ disturbed
      BY <1>2, <3>1 DEF SafeguardIsSilent
    <3>2. CASE ~lpDead /\ ~disturbed
      <4>1. ticks <= BootSkips + 1 /\ ticks \in Nat
        BY <2>1, <3>2 DEF GapInv, BudgetInv, PollsCounted
      <4>2. otaRetryWait
        BY <1>0, <2>1, <4>1 DEF WaitPolls
      <4> QED
        BY <2>1, <4>2 DEF SafeguardIsSilent
    <3> QED
      BY <3>1, <3>2
  <2> QED
    BY <1>1, <1>2, <2>1, <2>2 DEF GapInv, AckTakenFirst, PollsCounted
<1>7. CASE HpWrap
  BY <1>3, <1>4, <1>7 DEF HpWrap
<1>8. CASE HpGate \/ HpOtaBusy \/ HpStalled \/ HpQuiet \/ HpIdleTimeout \/ HpAckStep \/ OtaReboot
  BY <1>3, <1>8 DEF HpGate, HpOtaBusy, HpStalled, HpQuiet, Serviced, HpIdleTimeout, HpAckStep,
     OtaReboot
<1>9. CASE HpPublish
  BY <1>3, <1>9 DEF HpPublish, Serviced
<1>10. CASE HpIdle
  BY <1>3, <1>10 DEF HpIdle
<1> QED
  BY <1>5, <1>6, <1>7, <1>8, <1>9, <1>10 DEF HpStep

(* Every step keeps the invariant.                                         *)
LEMMA GapNext ==
  ASSUME NeverHeats, WindowFits
  PROVE  GapInv /\ [TaskNext]_allVars => GapInv'
<1> SUFFICES ASSUME GapInv, [TaskNext]_allVars PROVE GapInv'
  OBVIOUS
<1>0. HeaterIsOff' /\ (disturbed => disturbed')
  BY HeaterNext, DisturbedStays DEF GapInv, BudgetInv
<1>1. CASE HpStep \/ OtaReboot
  BY <1>0, <1>1, HpStepKeepsGap
<1>2. CASE Tick
  BY <1>0, <1>2, TickKeepsGap
<1>3. CASE TaskNext /\ LpStep
  BY <1>0, <1>3, LpStepKeepsGap, DisturbedBy
<1>4. CASE TaskNext /\ SleepExit
  <2>1. /\ UNCHANGED <<config, g, lpPc, lp, skipped_cycles, lastConsumedAckSeq, hp_ack_seq,
                       ticks, wakeReason, lpDead, hpPc>>
    BY <1>4 DEF SleepExit, result, baseline, ackMem, lpVars, hpVars, cfgVars
  <2>2. earlyWake' \/ disturbed'
    <3>1. ulpWake /\ ~ulpWake'
      BY <1>4, Zenon DEF SleepExit
    <3> QED
      BY <1>4, <3>1, DisturbedBy, Zenon DEF WakeLost
  <2>3. BudgetInv' /\ GoodPoll' /\ SafeguardIsSilent'
    BY <1>0, <2>1 DEF GapInv, BudgetInv, GoodPoll, SafeguardIsSilent
  <2>4. AckTakenFirst'
    BY <2>1 DEF GapInv, AckTakenFirst, Consuming
  <2>5. PollsCounted'
    BY <1>0, <2>1, <2>2 DEF GapInv, PollsCounted, WakeComing
  <2> QED
    BY <2>3, <2>4, <2>5 DEF GapInv
<1>5. CASE LpDie \/ LpBoundReached
  <2>1. UNCHANGED <<config, g, lpPc, lp, skipped_cycles, ticks>> /\ lpDead'
    BY <1>5 DEF LpDie, LpBoundReached, LpStop, vars, cfgVars, result, lpVars, baseline
  <2>2. BudgetInv' /\ GoodPoll' /\ SafeguardIsSilent'
    BY <1>0, <2>1 DEF GapInv, BudgetInv, GoodPoll, SafeguardIsSilent
  <2> QED
    BY <2>1, <2>2 DEF GapInv, AckTakenFirst, PollsCounted
<1>6. CASE Retune
  <2>1. UNCHANGED <<g, lpPc, lp, skipped_cycles, lastConsumedAckSeq, hp_ack_seq, ulpWake,
                    earlyWake, ticks, wakeReason, lpDead, hpPc>>
    BY <1>6 DEF Retune, CfgCall, CfgStore, result, lpVars, baseline, ackMem, hpVarsAll
  <2>2. config'["max_skip_cycles"] \in Nat /\ config'["max_skip_cycles"] <= BootSkips
    <3>1. CASE CfgStore
      <4>1. config' = [config EXCEPT ![ConfigFields[cfgPos + 1]] =
                                       cfgNew[ConfigFields[cfgPos + 1]]]
        BY <3>1 DEF CfgStore
      <4>2. config'["max_skip_cycles"] \in {config["max_skip_cycles"], cfgNew["max_skip_cycles"]}
        BY <4>1, BootBudget DEF GapInv, BudgetInv, HeaterIsOff
      <4>3. cfgNew["max_skip_cycles"] \in Nat /\ cfgNew["max_skip_cycles"] <= BootSkips
        BY BootBudget DEF GapInv, BudgetInv, HeaterIsOff, WindowFits, BootSkips
      <4> QED
        BY <4>2, <4>3 DEF GapInv, BudgetInv
    <3>2. CASE \E c \in Configs : CfgCall(c)
      BY <3>2 DEF CfgCall, GapInv, BudgetInv
    <3> QED
      BY <1>6, <3>1, <3>2 DEF Retune
  <2>3. BudgetInv'
    BY <1>0, <2>1, <2>2 DEF GapInv, BudgetInv
  <2>4. GoodPoll' /\ SafeguardIsSilent'
    BY <1>0, <2>1 DEF GapInv, GoodPoll, SafeguardIsSilent
  <2>5. AckTakenFirst' /\ PollsCounted'
    BY <1>0, <2>1 DEF GapInv, AckTakenFirst, Consuming, PollsCounted, WakeComing, Undecided
  <2> QED
    BY <2>3, <2>4, <2>5 DEF GapInv
<1>7. CASE Publisher \/ Restart \/ UNCHANGED allVars
  <2>1. UNCHANGED gapVars
    BY <1>7 DEF Publisher, Restart, allVars, vars, hpVarsAll, gapVars, result, baseline, ackMem,
       lpVars, cfgVars
  <2> QED
    BY <1>0, <2>1, GapFrame
<1> QED
  BY <1>1, <1>2, <1>3, <1>4, <1>5, <1>6, <1>7 DEF TaskNext, TaskStep

(* The wait's timeout is purely a safeguard: with the heater off and no    *)
(* live setting that allows more skips than the boot's, it fires only when *)
(* the LP core is dead, a wakeup was lost or a measurement failed,         *)
(* whatever is measured and acknowledged and however the two cores         *)
(* interleave.                                                             *)
THEOREM SafeguardStaysSilent ==
  NeverHeats /\ WindowFits => (TaskSpec => []SafeguardIsSilent)
<1> SUFFICES ASSUME NeverHeats, WindowFits PROVE TaskSpec => []SafeguardIsSilent
  OBVIOUS
<1>1. TaskInit => GapInv
  BY GapInit
<1>2. GapInv /\ [TaskNext]_allVars => GapInv'
  BY GapNext
<1>3. GapInv => SafeguardIsSilent
  BY DEF GapInv
<1> QED
  BY <1>1, <1>2, <1>3, PTL DEF TaskSpec

-----------------------------------------------------------------------------
(* The LP-stall supervisor.  A heater run holds the heartbeat still while  *)
(* time passes, so two silent safeguard windows in a row prove a dead LP   *)
(* core only if no heater run can fill them.  The argument is an account   *)
(* of the polls since the LP program last counted a heartbeat.             *)
HeaterFits == HeaterPolls + 1 < 2 * SafeguardPolls

(* The pass has acted on its snapshot.                                     *)
Served == hpPc \in {"waitIdle", "ack", "wrap"}

(* The LP program has started a run and not yet counted it.                *)
Uncounted == lpPc \in {"consumeTemp", "consumeHum", "consumeSeq", "begin", "measure"}

(* The polls that can have passed since the last counted heartbeat: those  *)
(* of the heater run, or all of it and the poll that started a new run.    *)
SilentPolls == IF Uncounted THEN HeaterPolls + 1 ELSE heaterTicks

(* The polls of the window the supervisor has counted as stalled.          *)
CountedPolls == IF lpStalledCycles = 0 THEN 0 ELSE SafeguardPolls

(* The polls of the window that is open, or that the pass is acting on.    *)
OpenPolls ==
  IF hpPc = "wait" THEN ticks
  ELSE IF \/ hpPc \in {"gate", "read"} /\ wakeReason = "Safeguard"
          \/ Served /\ pass.stalled
  THEN SafeguardPolls ELSE 0

StallTypes ==
  /\ ticks \in Nat /\ lpStalledCycles \in Nat
  /\ heaterTicks \in Nat /\ heaterTicks <= HeaterPolls
  /\ "stalled" \in DOMAIN pass /\ "progressed" \in DOMAIN pass

(* While the newest heartbeat is one the task has seen, the windows it has *)
(* seen without progress fit into the silence.                             *)
WindowsAreSilent ==
  hpPc # "reboot" /\ ~lpDead /\ Heartbeat = lastSeen /\ ~(Served /\ pass.progressed)
    => CountedPolls + OpenPolls <= SilentPolls

(* A window found without progress is the first one.                       *)
FirstStall ==
  ~lpDead =>
    /\ hpPc = "read" /\ ~Progressed /\ wakeReason = "Safeguard" => lpStalledCycles = 0
    /\ Served /\ pass.stalled => lpStalledCycles = 0 /\ ~pass.progressed

FreshPass == hpPc = "read" => ~pass.stalled

StallInv ==
  /\ SeenInOrder /\ StallTypes
  /\ WindowsAreSilent /\ FirstStall /\ FreshPass /\ StallRebootMeansDead

(* The lengths the account is made of.                                     *)
LEMMA WindowFacts ==
  /\ HeaterPolls \in Nat /\ SafeguardPolls \in Nat
  /\ CountedPolls \in {0, SafeguardPolls}
<1>1. HeaterPolls \in Nat /\ SafeguardPolls \in Nat
  BY TimeAssumption, BootBudget
<1>2. CountedPolls \in {0, SafeguardPolls}
  BY DEF CountedPolls
<1> QED
  BY <1>1, <1>2

(* No account exceeds one heater run and one poll.                         *)
LEMMA SilenceIsOneRun ==
  ASSUME StallTypes
  PROVE  SilentPolls \in Nat /\ SilentPolls <= HeaterPolls + 1
BY WindowFacts DEF StallTypes, SilentPolls

(* A booting chip has seen no window.                                      *)
LEMMA StallInit == TaskInit => StallInv
<1> SUFFICES ASSUME TaskInit PROVE StallInv
  OBVIOUS
<1>1. SeenInOrder
  BY GateInit DEF SeenInOrder
<1>2. /\ hpPc = "gate" /\ wakeReason = "LpWake" /\ lpStalledCycles = 0 /\ ticks = 0
      /\ heaterTicks = 0 /\ lpDead = FALSE /\ rebootCause = "none" /\ pass = NewPass
      /\ lpPc = "sleep"
  BY DEF TaskInit, HpInit, LpInit
<1>3. "stalled" \in DOMAIN pass /\ "progressed" \in DOMAIN pass
  BY <1>2 DEF NewPass
<1>4. StallTypes
  BY <1>2, <1>3, WindowFacts DEF StallTypes
<1>5. CountedPolls = 0 /\ OpenPolls = 0 /\ SilentPolls = 0
  BY <1>2 DEF CountedPolls, OpenPolls, SilentPolls, Served, Uncounted
<1> QED
  BY <1>1, <1>2, <1>4, <1>5 DEF StallInv, WindowsAreSilent, FirstStall, FreshPass, Served,
     StallRebootMeansDead

(* What the account is about.                                              *)
stallVars == <<g, lpPc, out, lastSeen, hpPc, wakeReason, pass, lpStalledCycles, ticks,
               heaterTicks, rebootCause>>

(* A step that leaves it alone keeps the invariant.                        *)
LEMMA StallFrame ==
  ASSUME StallInv, SeenInOrder', UNCHANGED stallVars, lpDead => lpDead'
  PROVE  StallInv'
<1>1. StallTypes' /\ FreshPass' /\ StallRebootMeansDead'
  BY DEF StallInv, StallTypes, FreshPass, StallRebootMeansDead, stallVars
<1>2. FirstStall'
  BY DEF StallInv, FirstStall, Served, Progressed, stallVars
<1>3. /\ CountedPolls' = CountedPolls /\ OpenPolls' = OpenPolls /\ SilentPolls' = SilentPolls
      /\ Heartbeat' = Heartbeat /\ (Served' <=> Served)
  BY DEF CountedPolls, OpenPolls, SilentPolls, Served, Uncounted, Heartbeat, stallVars
<1>4. WindowsAreSilent'
  BY <1>3 DEF StallInv, WindowsAreSilent, stallVars
<1> QED
  BY <1>1, <1>2, <1>4 DEF StallInv

(* A run either counts a heartbeat or leaves the account as it is.         *)
LEMMA LpRunCounts ==
  ASSUME HeartbeatInv, LpRun
  PROVE  \/ Heartbeat' = Heartbeat + 1
         \/ Heartbeat' = Heartbeat /\ (Uncounted' <=> Uncounted)
<1>1. CASE LpMeasure
  BY <1>1, ResultWords DEF LpMeasure, HeartbeatInv, Heartbeat
<1>2. CASE LpConsumeTemp \/ LpConsumeHum \/ LpConsumeSeq \/ LpBegin
  BY <1>2 DEF LpConsumeTemp, LpConsumeHum, LpConsumeSeq, LpBegin, result, Heartbeat, Uncounted
<1>3. CASE LpHeaterOn \/ LpHeaterRun \/ LpHeaterOff \/ LpEnd \/ LpWake
  BY <1>3 DEF LpHeaterOn, LpHeaterRun, LpHeaterOff, LpEnd, LpWake, result, Heartbeat, Uncounted
<1>4. CASE LpHeaterLog \/ LpCalibrate \/ LpDecide
  <2>1. Heartbeat' = Heartbeat
    BY <1>4, ResultWords DEF LpHeaterLog, LpCalibrate, LpDecide, HeartbeatInv, Heartbeat
  <2> QED
    BY <1>4, <2>1 DEF LpHeaterLog, LpCalibrate, LpDecide, Uncounted
<1> QED
  BY <1>1, <1>2, <1>3, <1>4 DEF LpRun

(* A counted heartbeat closes the account; nothing else of a run moves it. *)
LEMMA LpStepKeepsStall ==
  ASSUME StallInv, SeenInOrder', LpStep
  PROVE  StallInv'
<1>1. UNCHANGED <<hpPc, wakeReason, lastSeen, pass, lpStalledCycles, ticks, heaterTicks, lpDead,
                  rebootCause, out>>
  BY DEF LpStep, hpVarsAll, LpRun, LpConsumeTemp, LpConsumeHum, LpConsumeSeq, LpBegin,
     LpMeasure, LpHeaterOn, LpHeaterRun, LpHeaterLog, LpHeaterOff,
     LpCalibrate, LpDecide, LpEnd, LpWake, hpVars, rdVars
<1>2. StallTypes' /\ FreshPass' /\ StallRebootMeansDead'
  BY <1>1 DEF StallInv, StallTypes, FreshPass, StallRebootMeansDead
<1>3. FirstStall'
  BY <1>1 DEF StallInv, FirstStall, Served, Progressed
<1>4. \/ Heartbeat' = Heartbeat + 1
      \/ Heartbeat' = Heartbeat /\ (Uncounted' <=> Uncounted)
  BY LpRunCounts DEF StallInv, SeenInOrder, LpStep
<1>5. CountedPolls' = CountedPolls /\ OpenPolls' = OpenPolls /\ (Served' <=> Served)
  BY <1>1 DEF CountedPolls, OpenPolls, Served
<1>6. CASE Heartbeat' = Heartbeat + 1
  <2>1. Heartbeat' # lastSeen'
    BY <1>1, <1>6 DEF StallInv, SeenInOrder, HeartbeatInv
  <2> QED
    BY <1>2, <1>3, <2>1 DEF StallInv, WindowsAreSilent
<1>7. CASE Heartbeat' = Heartbeat /\ (Uncounted' <=> Uncounted)
  <2>1. SilentPolls' = SilentPolls
    BY <1>1, <1>7 DEF SilentPolls
  <2>2. WindowsAreSilent'
    BY <1>1, <1>5, <1>7, <2>1 DEF StallInv, WindowsAreSilent
  <2> QED
    BY <1>2, <1>3, <2>2 DEF StallInv
<1> QED
  BY <1>4, <1>6, <1>7

(* A poll interval passes: a heater run grows with the open window, and a  *)
(* run that starts closes the account of the one before.                   *)
LEMMA TickKeepsStall ==
  ASSUME StallInv, SeenInOrder', Tick
  PROVE  StallInv'
<1>1. /\ UNCHANGED <<hpPc, wakeReason, lastSeen, pass, lpStalledCycles, lpDead, rebootCause>>
      /\ ticks' = ticks + 1 /\ Blocked
  BY DEF Tick
<1>2. UNCHANGED <<g, out>>
  BY DEF Tick, LpStart, vars, result, hpVars, rdVars
<1>3. /\ \/ ~lpDead /\ lpPc = "sleep" /\ Uncounted' /\ heaterTicks' = 0
         \/ /\ ~lpDead /\ lpPc = "heater" /\ lpPc' = "heater"
            /\ heaterTicks < HeaterPolls /\ heaterTicks' = heaterTicks + 1
         \/ lpDead /\ UNCHANGED heaterTicks
  <2>1. CASE LpStart
    BY <2>1 DEF Tick, LpStart, Uncounted, vars, lpVars
  <2>2. CASE ~LpStart
    BY <2>2 DEF Tick, vars, lpVars
  <2> QED
    BY <2>1, <2>2
<1>4. StallTypes' /\ FreshPass' /\ StallRebootMeansDead'
  BY <1>1, <1>3, WindowFacts DEF StallInv, StallTypes, FreshPass, StallRebootMeansDead
<1>5. FirstStall'
  BY <1>1, <1>2 DEF StallInv, FirstStall, Served, Progressed
<1>6. /\ CountedPolls' = CountedPolls /\ (Served' <=> Served) /\ Heartbeat' = Heartbeat
      /\ OpenPolls' <= OpenPolls + 1 /\ OpenPolls \in Nat /\ OpenPolls' \in Nat
  <2>1. CountedPolls' = CountedPolls /\ (Served' <=> Served) /\ Heartbeat' = Heartbeat
    BY <1>1, <1>2 DEF CountedPolls, Served, Heartbeat
  <2>2. OpenPolls' <= OpenPolls + 1 /\ OpenPolls \in Nat /\ OpenPolls' \in Nat
    BY <1>1, WindowFacts DEF OpenPolls, Served, StallInv, StallTypes
  <2> QED
    BY <2>1, <2>2
<1>7. ~lpDead => SilentPolls \in Nat /\ SilentPolls' \in Nat /\ SilentPolls' >= SilentPolls + 1
  <2>0. heaterTicks \in Nat /\ heaterTicks <= HeaterPolls
    BY DEF StallInv, StallTypes
  <2>1. CASE ~lpDead /\ lpPc = "sleep" /\ Uncounted'
    <3>1. SilentPolls = heaterTicks /\ SilentPolls' = HeaterPolls + 1
      BY <2>1 DEF SilentPolls, Uncounted
    <3> QED
      BY <2>0, <3>1, WindowFacts
  <2>2. CASE lpPc = "heater" /\ lpPc' = "heater" /\ heaterTicks' = heaterTicks + 1
    <3>1. SilentPolls = heaterTicks /\ SilentPolls' = heaterTicks + 1
      BY <2>2 DEF SilentPolls, Uncounted
    <3> QED
      BY <2>0, <3>1
  <2> QED
    BY <1>3, <2>1, <2>2
<1>8. WindowsAreSilent'
  BY <1>1, <1>6, <1>7, WindowFacts DEF StallInv, WindowsAreSilent
<1> QED
  BY <1>4, <1>5, <1>8 DEF StallInv

(* What every step of the task leaves alone.                               *)
LEMMA HpLeavesLp ==
  ASSUME HpStep
  PROVE  UNCHANGED <<g, lpPc, heaterTicks, lpDead>>
<1>1. CASE HpGate
  BY <1>1 DEF HpGate, GetState, vars, result, lpVars
<1>2. CASE HpOtaBusy \/ HpStalled \/ HpPublish \/ HpQuiet
  BY <1>2 DEF HpOtaBusy, HpStalled, HpPublish, HpQuiet, Serviced, vars, result, lpVars
<1>3. CASE HpIdle
  BY <1>3 DEF HpIdle, AckTemp, vars, result, lpVars
<1>4. CASE HpAckStep
  BY <1>4 DEF HpAckStep, AckHum, AckSeq, result, lpVars
<1>5. CASE HpIdleTimeout \/ HpWrap \/ HpWake \/ HpTimeout
  BY <1>5 DEF HpIdleTimeout, HpWrap, HpWake, HpTimeout, Wake, vars, result, lpVars
<1> QED
  BY <1>1, <1>2, <1>3, <1>4, <1>5 DEF HpStep

(* The snapshot: a safeguard window whose snapshot shows no progress lies  *)
(* within the silence, and so does the counted one: together too long.     *)
LEMMA GateKeepsStall ==
  ASSUME HeaterFits, StallInv, SeenInOrder', "fall" \notin Env, HpGate
  PROVE  StallInv'
<1>0. /\ UNCHANGED <<g, lpPc, heaterTicks, lpDead, wakeReason, lastSeen, lpStalledCycles, ticks,
                     rebootCause>>
      /\ hpPc = "gate"
  BY HpLeavesLp DEF HpGate, HpStep
<1>1. \/ hpPc' = "read" /\ pass' = [NewPass EXCEPT !.attached = TRUE] /\ out' = g
      \/ hpPc' = "wrap" /\ pass' = NewPass
  BY DEF HpGate, GetState
<1>2. /\ "stalled" \in DOMAIN pass' /\ "progressed" \in DOMAIN pass'
      /\ ~pass'.stalled /\ ~pass'.progressed
  BY <1>1 DEF NewPass
<1>3. StallTypes' /\ FreshPass' /\ StallRebootMeansDead'
  BY <1>0, <1>2 DEF StallInv, StallTypes, FreshPass, StallRebootMeansDead
<1>4. CountedPolls' = CountedPolls /\ SilentPolls' = SilentPolls /\ Heartbeat' = Heartbeat
  BY <1>0 DEF CountedPolls, SilentPolls, Uncounted, Heartbeat
<1>5. OpenPolls = IF wakeReason = "Safeguard" THEN SafeguardPolls ELSE 0
  BY <1>0 DEF OpenPolls, Served
<1>6. OpenPolls' \in {0, OpenPolls}
  BY <1>0, <1>1, <1>2, <1>5 DEF OpenPolls, Served
<1>7. ~lpDead /\ Heartbeat = lastSeen => CountedPolls + OpenPolls <= SilentPolls
  BY <1>0 DEF StallInv, WindowsAreSilent, Served
<1>8. WindowsAreSilent'
  <2> SUFFICES ASSUME ~lpDead, Heartbeat = lastSeen
               PROVE  CountedPolls + OpenPolls' <= SilentPolls
    BY <1>0, <1>4 DEF WindowsAreSilent
  <2>1. CountedPolls \in Nat /\ OpenPolls \in Nat
    BY <1>5, WindowFacts
  <2> QED
    BY <1>6, <1>7, <2>1, SilenceIsOneRun DEF StallInv
<1>9. FirstStall'
  <2>1. Served' => ~pass'.stalled
    BY <1>2
  <2>2. ASSUME ~lpDead, hpPc' = "read", ~Progressed', wakeReason = "Safeguard"
        PROVE  lpStalledCycles = 0
    <3>1. Heartbeat = lastSeen
      BY <1>0, <1>1, <2>2 DEF Progressed, Heartbeat
    <3>2. CountedPolls + SafeguardPolls <= HeaterPolls + 1
      BY <1>5, <1>7, <2>2, <3>1, SilenceIsOneRun, WindowFacts DEF StallInv
    <3>3. CountedPolls # SafeguardPolls
      BY <3>2, WindowFacts DEF HeaterFits
    <3> QED
      BY <3>3 DEF CountedPolls
  <2> QED
    BY <1>0, <2>1, <2>2 DEF FirstStall
<1> QED
  BY <1>3, <1>8, <1>9 DEF StallInv

(* Acting on the snapshot.                                                 *)
LEMMA ServiceKeepsStall ==
  ASSUME StallInv, SeenInOrder', Services
  PROVE  StallInv'
<1>0. /\ UNCHANGED <<g, lpPc, heaterTicks, lpDead, wakeReason, lpStalledCycles, ticks,
                     rebootCause>>
      /\ hpPc = "read" /\ hpPc' \in {"waitIdle", "wrap"}
      /\ lastSeen' = out["heartbeat_counter"]
  <2>1. UNCHANGED <<g, lpPc, heaterTicks, lpDead>>
    BY HpLeavesLp DEF Services, HpStep
  <2>2. CASE HpOtaBusy \/ HpStalled \/ HpQuiet
    BY <2>1, <2>2 DEF HpOtaBusy, HpStalled, HpQuiet, Serviced, SnapshotTaken
  <2>3. CASE HpPublish
    BY <2>1, <2>3 DEF HpPublish, Serviced, SnapshotTaken
  <2> QED
    BY <2>2, <2>3 DEF Services
<1>1. /\ "stalled" \in DOMAIN pass /\ "progressed" \in DOMAIN pass /\ ~pass.stalled
  BY <1>0 DEF StallInv, StallTypes, FreshPass
<1>2. /\ "stalled" \in DOMAIN pass' /\ "progressed" \in DOMAIN pass'
      /\ pass'.progressed <=> Progressed
      /\ pass'.stalled => wakeReason = "Safeguard" /\ ~Progressed
  <2>1. CASE HpOtaBusy \/ HpQuiet
    <3>1. pass' = [[pass EXCEPT !.quiet = TRUE] EXCEPT !.progressed = Progressed]
      BY <2>1 DEF HpOtaBusy, HpQuiet, Serviced
    <3> QED
      BY <1>1, <3>1
  <2>2. CASE HpStalled
    <3>1. pass' = [[pass EXCEPT !.stalled = TRUE] EXCEPT !.progressed = Progressed]
      BY <2>2 DEF HpStalled, Serviced
    <3>2. wakeReason = "Safeguard" /\ ~Progressed
      BY <2>2 DEF HpStalled, StallSuspected
    <3> QED
      BY <1>1, <3>1, <3>2
  <2>3. CASE HpPublish
    <3>1. pass' = [[pass EXCEPT !.otaOnly = ~ShouldWake, !.tried = ShouldWake]
                    EXCEPT !.progressed = Progressed]
      BY <2>3 DEF HpPublish, Serviced
    <3> QED
      BY <1>1, <3>1
  <2> QED
    BY <2>1, <2>2, <2>3 DEF Services
<1>3. StallTypes' /\ FreshPass' /\ StallRebootMeansDead'
  BY <1>0, <1>2 DEF StallInv, StallTypes, FreshPass, StallRebootMeansDead
<1>4. CountedPolls' = CountedPolls /\ SilentPolls' = SilentPolls /\ Heartbeat' = Heartbeat
  BY <1>0 DEF CountedPolls, SilentPolls, Uncounted, Heartbeat
<1>5. FirstStall'
  BY <1>0, <1>2 DEF StallInv, FirstStall
<1>6. WindowsAreSilent'
  <2> SUFFICES ASSUME ~lpDead, Heartbeat = lastSeen', ~(Served' /\ pass'.progressed)
               PROVE  CountedPolls + OpenPolls' <= SilentPolls
    BY <1>0, <1>4 DEF WindowsAreSilent
  <2>1. ~Progressed /\ Heartbeat = lastSeen
    BY <1>0, <1>2 DEF Served, Progressed
  <2>2. CountedPolls + OpenPolls <= SilentPolls
    BY <1>0, <2>1 DEF StallInv, WindowsAreSilent, Served
  <2>3. OpenPolls = IF wakeReason = "Safeguard" THEN SafeguardPolls ELSE 0
    BY <1>0 DEF OpenPolls, Served
  <2>4. OpenPolls' = IF pass'.stalled THEN SafeguardPolls ELSE 0
    BY <1>0 DEF OpenPolls, Served
  <2>5. OpenPolls' \in {0, OpenPolls} /\ OpenPolls \in Nat
    BY <1>2, <2>3, <2>4, WindowFacts
  <2> QED
    BY <2>2, <2>5, WindowFacts, SilenceIsOneRun DEF StallInv
<1> QED
  BY <1>3, <1>5, <1>6 DEF StallInv

(* Waiting for the publish task and acknowledging change nothing of the    *)
(* account.                                                                *)
LEMMA PublishKeepsStall ==
  ASSUME StallInv, SeenInOrder', HpIdle \/ HpIdleTimeout \/ HpAckStep
  PROVE  StallInv'
<1>0. /\ UNCHANGED <<g, lpPc, heaterTicks, lpDead, wakeReason, lastSeen, lpStalledCycles, ticks,
                     rebootCause>>
      /\ hpPc \in {"waitIdle", "ack"} /\ hpPc' \in {"ack", "wrap"}
  <2>1. UNCHANGED <<g, lpPc, heaterTicks, lpDead>>
    BY HpLeavesLp DEF HpStep
  <2>2. CASE HpIdle
    BY <2>1, <2>2 DEF HpIdle
  <2>3. CASE HpIdleTimeout \/ HpAckStep
    BY <2>1, <2>3 DEF HpIdleTimeout, HpAckStep
  <2> QED
    BY <2>2, <2>3
<1>1. "stalled" \in DOMAIN pass /\ "progressed" \in DOMAIN pass
  BY DEF StallInv, StallTypes
<1>2. /\ "stalled" \in DOMAIN pass' /\ "progressed" \in DOMAIN pass'
      /\ pass'.stalled = pass.stalled /\ pass'.progressed = pass.progressed
  <2>1. pass' = pass \/ pass' = [pass EXCEPT !.publishedOk = s_last_ok]
    BY DEF HpIdle, HpIdleTimeout, HpAckStep
  <2> QED
    BY <1>1, <2>1
<1>3. StallTypes' /\ FreshPass' /\ StallRebootMeansDead'
  BY <1>0, <1>2 DEF StallInv, StallTypes, FreshPass, StallRebootMeansDead
<1>4. CountedPolls' = CountedPolls /\ SilentPolls' = SilentPolls /\ Heartbeat' = Heartbeat
  BY <1>0 DEF CountedPolls, SilentPolls, Uncounted, Heartbeat
<1>5. Served /\ Served' /\ OpenPolls' = OpenPolls
  BY <1>0, <1>2 DEF OpenPolls, Served
<1>6. FirstStall'
  BY <1>0, <1>2, <1>5 DEF StallInv, FirstStall
<1>7. WindowsAreSilent'
  BY <1>0, <1>2, <1>4, <1>5 DEF StallInv, WindowsAreSilent
<1> QED
  BY <1>3, <1>6, <1>7 DEF StallInv

(* The supervisor: a stalled pass moves its window to the counted ones,    *)
(* and there is none there yet unless the LP core is dead.                 *)
LEMMA WrapKeepsStall ==
  ASSUME StallInv, SeenInOrder', HpWrap
  PROVE  StallInv'
<1>0. /\ UNCHANGED <<g, lpPc, heaterTicks, lpDead, wakeReason, lastSeen, pass>>
      /\ hpPc = "wrap" /\ hpPc' \in {"wait", "reboot"} /\ lpStalledCycles' = StalledCycles
      /\ Served
  BY HpLeavesLp DEF HpWrap, HpStep, Served
<1>1. ticks' \in Nat /\ (hpPc' = "wait" => ticks' = 0)
  BY DEF HpWrap, StallInv, StallTypes
<1>2. StalledCycles \in Nat
  BY DEF StalledCycles, StallInv, StallTypes
<1>3. StallTypes' /\ FreshPass' /\ FirstStall'
  BY <1>0, <1>1, <1>2 DEF StallInv, StallTypes, FreshPass, FirstStall, Served
<1>4. StallRebootMeansDead'
  <2>1. CASE StallReboot
    <3>1. pass.stalled /\ lpStalledCycles + 1 >= 2 /\ lpStalledCycles \in Nat
      BY <2>1 DEF StallInv, StallTypes, StallReboot, StalledCycles, LpStallRebootThreshold
    <3>2. lpStalledCycles # 0
      BY <3>1
    <3>3. lpDead
      BY <1>0, <3>1, <3>2 DEF StallInv, FirstStall
    <3> QED
      BY <1>0, <3>3 DEF StallRebootMeansDead
  <2>2. CASE ~StallReboot
    <3>1. rebootCause' = "unconfirmed" \/ UNCHANGED rebootCause
      BY <2>2 DEF HpWrap
    <3> QED
      BY <1>0, <3>1 DEF StallInv, StallRebootMeansDead
  <2> QED
    BY <2>1, <2>2
<1>5. SilentPolls' = SilentPolls /\ Heartbeat' = Heartbeat
  BY <1>0 DEF SilentPolls, Uncounted, Heartbeat
<1>6. WindowsAreSilent'
  <2> SUFFICES ASSUME hpPc' = "wait", ~lpDead, Heartbeat = lastSeen
               PROVE  CountedPolls' + OpenPolls' <= SilentPolls
    BY <1>0, <1>5 DEF WindowsAreSilent
  <2>1. OpenPolls' = 0
    BY <1>1 DEF OpenPolls
  <2>2. SilentPolls \in Nat
    BY SilenceIsOneRun DEF StallInv
  <2>3. CASE pass.stalled
    <3>1. lpStalledCycles = 0 /\ ~pass.progressed
      BY <1>0, <2>3 DEF StallInv, FirstStall
    <3>2. CountedPolls + OpenPolls <= SilentPolls
      BY <1>0, <3>1 DEF StallInv, WindowsAreSilent
    <3>3. CountedPolls = 0 /\ OpenPolls = SafeguardPolls
      BY <1>0, <2>3, <3>1 DEF CountedPolls, OpenPolls
    <3>4. CountedPolls' \in {0, SafeguardPolls}
      BY DEF CountedPolls
    <3>5. SafeguardPolls \in Nat /\ SafeguardPolls <= SilentPolls
      BY <3>2, <3>3, WindowFacts
    <3>6. CASE CountedPolls' = 0
      BY <2>1, <2>2, <3>6
    <3>7. CASE CountedPolls' = SafeguardPolls
      BY <2>1, <3>5, <3>7
    <3> QED
      BY <3>4, <3>6, <3>7
  <2>4. CASE ~pass.stalled /\ ~pass.progressed
    <3>1. CountedPolls + OpenPolls <= SilentPolls
      BY <1>0, <2>4 DEF StallInv, WindowsAreSilent
    <3>2. OpenPolls = 0 /\ CountedPolls' = CountedPolls
      BY <1>0, <2>4 DEF CountedPolls, OpenPolls, StalledCycles
    <3> QED
      BY <2>1, <3>1, <3>2
  <2>5. CASE ~pass.stalled /\ pass.progressed
    <3>1. CountedPolls' = 0
      BY <1>0, <2>5 DEF CountedPolls, StalledCycles
    <3> QED
      BY <2>1, <2>2, <3>1
  <2> QED
    BY <2>3, <2>4, <2>5
<1> QED
  BY <1>3, <1>4, <1>6 DEF StallInv

(* The end of a wait: a timeout carries its whole window into the pass.    *)
LEMMA WakeKeepsStall ==
  ASSUME StallInv, SeenInOrder', HpWake \/ HpTimeout
  PROVE  StallInv'
<1>0. /\ UNCHANGED <<g, lpPc, heaterTicks, lpDead, lastSeen, pass, lpStalledCycles, rebootCause>>
      /\ hpPc = "wait" /\ hpPc' = "gate" /\ ticks' = 0
      /\ wakeReason' = "Safeguard" => ticks = SafeguardPolls
  <2>1. UNCHANGED <<g, lpPc, heaterTicks, lpDead>>
    BY HpLeavesLp DEF HpStep
  <2>2. CASE HpWake
    BY <2>1, <2>2 DEF HpWake, Wake
  <2>3. CASE HpTimeout
    BY <2>1, <2>3 DEF HpTimeout, Wake, WaitPolls
  <2> QED
    BY <2>2, <2>3
<1>1. StallTypes' /\ FreshPass' /\ FirstStall' /\ StallRebootMeansDead'
  BY <1>0 DEF StallInv, StallTypes, FreshPass, FirstStall, Served, StallRebootMeansDead
<1>2. CountedPolls' = CountedPolls /\ SilentPolls' = SilentPolls /\ Heartbeat' = Heartbeat
  BY <1>0 DEF CountedPolls, SilentPolls, Uncounted, Heartbeat
<1>3. OpenPolls = ticks /\ OpenPolls' \in {0, OpenPolls}
  BY <1>0 DEF OpenPolls, Served
<1>4. WindowsAreSilent'
  <2> SUFFICES ASSUME ~lpDead, Heartbeat = lastSeen
               PROVE  CountedPolls + OpenPolls' <= SilentPolls
    BY <1>0, <1>2 DEF WindowsAreSilent
  <2>1. CountedPolls + OpenPolls <= SilentPolls
    BY <1>0 DEF StallInv, WindowsAreSilent, Served
  <2>2. OpenPolls \in Nat
    BY <1>3 DEF StallInv, StallTypes
  <2> QED
    BY <1>3, <2>1, <2>2, WindowFacts, SilenceIsOneRun DEF StallInv
<1> QED
  BY <1>1, <1>4 DEF StallInv

(* Every step keeps the account.                                           *)
LEMMA StallNext ==
  ASSUME "fall" \notin Env, HeaterFits
  PROVE  StallInv /\ [TaskNext]_allVars => StallInv'
<1> SUFFICES ASSUME StallInv, [TaskNext]_allVars PROVE StallInv'
  OBVIOUS
<1>0. SeenInOrder'
  BY SeenInOrderNext DEF StallInv
<1>1. CASE HpGate
  BY <1>0, <1>1, GateKeepsStall
<1>2. CASE Services
  BY <1>0, <1>2, ServiceKeepsStall
<1>3. CASE HpIdle \/ HpIdleTimeout \/ HpAckStep
  BY <1>0, <1>3, PublishKeepsStall
<1>4. CASE HpWrap
  BY <1>0, <1>4, WrapKeepsStall
<1>5. CASE HpWake \/ HpTimeout
  BY <1>0, <1>5, WakeKeepsStall
<1>6. CASE Tick
  BY <1>0, <1>6, TickKeepsStall
<1>7. CASE LpStep
  BY <1>0, <1>7, LpStepKeepsStall
<1>8. CASE OtaReboot
  <2>1. /\ UNCHANGED <<lpStalledCycles, ticks, heaterTicks, pass>>
        /\ hpPc' = "reboot" /\ rebootCause' = "ota"
    BY <1>8 DEF OtaReboot
  <2>2. StallTypes' /\ FreshPass' /\ FirstStall'
    BY <2>1 DEF StallInv, StallTypes, FreshPass, FirstStall, Served
  <2> QED
    BY <1>0, <2>1, <2>2 DEF StallInv, WindowsAreSilent, StallRebootMeansDead
<1>9. CASE SleepExit \/ LpDie \/ LpBoundReached \/ Publisher \/ Retune \/ Restart
           \/ UNCHANGED allVars
  <2>1. CASE SleepExit \/ LpDie \/ LpBoundReached \/ Publisher
    <3>1. UNCHANGED stallVars /\ (lpDead => lpDead')
      BY <2>1 DEF SleepExit, LpDie, LpBoundReached, LpStop, Publisher, vars, hpVars, hpVarsAll,
         result, lpVars, rdVars, stallVars
    <3> QED
      BY <1>0, <3>1, StallFrame
  <2>2. CASE Retune
    <3>1. UNCHANGED stallVars /\ (lpDead => lpDead')
      BY <2>2 DEF Retune, CfgCall, CfgStore, hpVarsAll, result, lpVars, rdVars, stallVars
    <3> QED
      BY <1>0, <3>1, StallFrame
  <2>3. CASE Restart \/ UNCHANGED allVars
    <3>1. UNCHANGED stallVars /\ (lpDead => lpDead')
      BY <2>3 DEF Restart, allVars, vars, hpVarsAll, result, lpVars, rdVars, stallVars
    <3> QED
      BY <1>0, <3>1, StallFrame
  <2> QED
    BY <1>9, <2>1, <2>2, <2>3
<1> QED
  BY <1>1, <1>2, <1>3, <1>4, <1>5, <1>6, <1>7, <1>8, <1>9
     DEF TaskNext, TaskStep, HpStep, Services

(* The LP-stall supervisor restarts the chip only for a dead LP core,      *)
(* whatever wakeups are lost, provided get_state() never uses up its       *)
(* attempts and a heater run ends before two safeguard windows have        *)
(* passed.  The bound is exact: one poll more and a heater run that is     *)
(* merely long is taken for a dead LP core.                                *)
THEOREM StallRebootIsDeath ==
  "fall" \notin Env /\ HeaterFits => (TaskSpec => []StallRebootMeansDead)
<1> SUFFICES ASSUME "fall" \notin Env, HeaterFits PROVE TaskSpec => []StallRebootMeansDead
  OBVIOUS
<1>1. TaskInit => StallInv
  BY StallInit
<1>2. StallInv /\ [TaskNext]_allVars => StallInv'
  BY StallNext
<1>3. StallInv => StallRebootMeansDead
  BY DEF StallInv
<1> QED
  BY <1>1, <1>2, <1>3, PTL DEF TaskSpec
=============================================================================
