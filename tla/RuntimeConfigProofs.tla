------------------------ MODULE RuntimeConfigProofs -------------------------
(***************************************************************************)
(* Proofs about the settings of runtime_config.cpp, for every poll         *)
(* interval, every device_config.yaml and every sequence of commands,      *)
(* restarts, lost connections and failed accesses to NVS: a restart        *)
(* changes no setting that was stored, and the LP core's cycles keep what  *)
(* the settings promise.                                                   *)
(***************************************************************************)
EXTENDS RuntimeConfig, TLAPS

-----------------------------------------------------------------------------
(* The conversions                                                         *)

(* Integer division by a positive number, from both sides.                 *)
LEMMA DivBounds ==
  ASSUME NEW x \in Nat, NEW c \in Nat \ {0}
  PROVE  /\ x \div c \in Nat
         /\ (x \div c) * c <= x
         /\ x < ((x \div c) + 1) * c
  BY Z3

(* publish_gap_sec_to_skip_cycles() rounds down: the polls that are        *)
(* skipped and the one that publishes fit into the gap, one more would not.*)
LEMMA SkipCyclesFit ==
  ASSUME NEW gap \in Nat
  PROVE  LET skip == publish_gap_sec_to_skip_cycles(gap)
         IN  /\ skip \in Nat
             /\ skip > 0 => (skip + 1) * PollSec <= gap
             /\ gap < (skip + 2) * PollSec
<1>0. PollSec \in Nat \ {0}
  BY CfgAssumption
<1>1. CASE gap <= PollSec
  BY <1>0, <1>1 DEF publish_gap_sec_to_skip_cycles
<1>2. CASE gap > PollSec
  <2>1. PICK q \in Nat : /\ q = gap \div PollSec
                         /\ q * PollSec <= gap
                         /\ gap < (q + 1) * PollSec
    BY <1>0, DivBounds
  <2>2. q # 0
    BY <1>0, <1>2, <2>1
  <2>3. publish_gap_sec_to_skip_cycles(gap) = q - 1
    BY <1>0, <1>2, <2>1 DEF publish_gap_sec_to_skip_cycles
  <2>4. q - 1 \in Nat /\ (q - 1) + 1 = q /\ (q - 1) + 2 = q + 1
    BY <2>2
  <2> QED
    BY <2>1, <2>3, <2>4
<1> QED
  BY <1>0, <1>1, <1>2

(* minutes_to_lp_cycles() rounds up: the heater is never early, and late   *)
(* by less than a poll; only a zero period gives zero cycles.              *)
LEMMA HeaterCyclesCover ==
  ASSUME NEW minutes \in Nat
  PROVE  LET heater == minutes_to_lp_cycles(minutes)
         IN  /\ heater \in Nat
             /\ minutes * 60 <= heater * PollSec
             /\ minutes * 60 > (heater - 1) * PollSec
<1>0. PollSec \in Nat \ {0}
  BY CfgAssumption
<1>1. CASE minutes = 0
  <2>1. minutes_to_lp_cycles(minutes) = 0
    BY <1>1 DEF minutes_to_lp_cycles
  <2> QED
    BY <1>0, <1>1, <2>1
<1>2. CASE minutes # 0
  <2>1. PICK p \in Nat : p = minutes * 60
    OBVIOUS
  <2>2. PICK x \in Nat : x = p + PollSec - 1
    BY <1>0
  <2>3. PICK q \in Nat : /\ q = x \div PollSec
                         /\ q * PollSec <= x
                         /\ x < (q + 1) * PollSec
    BY <1>0, DivBounds
  <2>4. minutes_to_lp_cycles(minutes) = q
    BY <1>2, <2>1, <2>2, <2>3 DEF minutes_to_lp_cycles
  <2>5. (q + 1) * PollSec = q * PollSec + PollSec /\ (q - 1) * PollSec = q * PollSec - PollSec
    BY <1>0
  <2>6. p <= q * PollSec /\ p > (q - 1) * PollSec
    BY <1>0, <2>2, <2>3, <2>5
  <2> QED
    BY <2>1, <2>4, <2>6
<1> QED
  BY <1>1, <1>2

(* A received number is brought into the range of its setting.             *)
LEMMA ClampedInRange ==
  ASSUME NEW s \in Settings, NEW v \in Nat
  PROVE  Clamped(s, v) \in 0..SettingMax[s]
  BY DEF Clamped, SettingMax, Settings

-----------------------------------------------------------------------------
(* The inductive invariant                                                 *)

(* What is applied, stored and pending are numbers of their ranges.        *)
CfgRanges ==
  /\ \A s \in Settings : value[s] \in 0..SettingMax[s]
  /\ \A s \in Settings : nvs[s] = NoValue \/ nvs[s] \in 0..SettingMax[s]
  /\ \A s \in Settings : s_pending[s] = NoValue \/ s_pending[s] \in Nat

(* The LP core's fields are the conversions of the values in effect.       *)
ShadowIsConverted ==
  \A s \in Settings : s_shadow[s] = ToCycles(s, value[s])

(* Between apply_pending()'s two halves the snapshot is what the flash     *)
(* lacks: a setting it names has taken effect, and one it does not name is *)
(* as it was stored, if it was.                                            *)
SnapshotIsTheDifference ==
  pc = "persist" =>
    \A s \in Settings :
      \/ settled.set[s] # NoValue /\ value[s] = settled.set[s]
      \/ settled.set[s] = NoValue /\ (s \in nvsFailed \/ value[s] = NvsOverride(s))

CfgInv == CfgRanges /\ ShadowIsConverted /\ SnapshotIsTheDifference /\ SavedIsCurrent

LEMMA CfgInvInit == CfgInit => CfgInv
<1> SUFFICES ASSUME CfgInit PROVE CfgInv
  OBVIOUS
<1>1. \A s \in Settings : Yaml[s] \in 0..SettingMax[s]
  BY CfgAssumption DEF Settings, SettingMax
<1> QED
  BY <1>1 DEF CfgInit, CfgInv, CfgRanges, ShadowIsConverted, SnapshotIsTheDifference,
     SavedIsCurrent, NvsOverride, Unset

(* A step that leaves the values, their conversions and the flash alone    *)
(* and does not begin persisting.                                          *)
LEMMA QuietStep ==
  ASSUME CfgInv, UNCHANGED <<value, s_shadow, settled, nvs, nvsFailed>>,
         \A s \in Settings : s_pending'[s] = NoValue \/ s_pending'[s] \in Nat,
         pc' = pc \/ (pc # "persist" /\ pc' # "persist")
  PROVE  CfgInv'
  BY DEF CfgInv, CfgRanges, ShadowIsConverted, SnapshotIsTheDifference, SavedIsCurrent,
     NvsOverride

LEMMA ApplyPendingStep == CfgInv /\ ApplyPending => CfgInv'
<1> SUFFICES ASSUME CfgInv, ApplyPending PROVE CfgInv'
  OBVIOUS
<1> DEFINE set == [s \in Settings |-> settle(s).set]
<1>1. /\ settled'.set = set
      /\ value' = [s \in Settings |-> IF set[s] = NoValue THEN value[s] ELSE set[s]]
      /\ s_shadow' = [s \in Settings |-> IF set[s] = NoValue THEN s_shadow[s]
                                         ELSE ToCycles(s, set[s])]
      /\ s_pending' = Unset /\ pc' = "persist" /\ pc = "apply"
      /\ UNCHANGED <<nvs, nvsFailed>>
  BY DEF ApplyPending, lost
<1>2. ASSUME NEW s \in Settings
      PROVE  set[s] = NoValue \/ set[s] \in 0..SettingMax[s]
  <2>1. set[s] = NoValue \/ (s_pending[s] # NoValue /\ set[s] = Clamped(s, s_pending[s]))
    BY DEF settle
  <2>2. s_pending[s] # NoValue => s_pending[s] \in Nat
    BY DEF CfgInv, CfgRanges
  <2> QED
    BY <2>1, <2>2, ClampedInRange
<1> HIDE DEF set
<1>3. ASSUME NEW s \in Settings
      PROVE  /\ value'[s] = IF set[s] = NoValue THEN value[s] ELSE set[s]
             /\ s_shadow'[s] = IF set[s] = NoValue THEN s_shadow[s] ELSE ToCycles(s, set[s])
             /\ s_pending'[s] = NoValue
  BY <1>1 DEF Unset
<1>4. CfgRanges'
  BY <1>1, <1>2, <1>3 DEF CfgInv, CfgRanges
<1>5. ShadowIsConverted'
  <2>1. SUFFICES ASSUME NEW s \in Settings PROVE s_shadow'[s] = ToCycles(s, value'[s])
    BY DEF ShadowIsConverted, ToCycles, publish_gap_sec_to_skip_cycles, minutes_to_lp_cycles
  <2>2. s_shadow[s] = ToCycles(s, value[s])
    BY DEF CfgInv, ShadowIsConverted
  <2> QED
    BY <1>3, <2>2
<1>6. SnapshotIsTheDifference'
  <2>1. \A s \in Settings : s \in nvsFailed \/ value[s] = NvsOverride(s)
    BY <1>1 DEF CfgInv, SavedIsCurrent
  <2> QED
    BY <1>1, <1>3, <2>1 DEF SnapshotIsTheDifference, NvsOverride
<1>7. SavedIsCurrent'
  BY <1>1 DEF SavedIsCurrent
<1> QED
  BY <1>4, <1>5, <1>6, <1>7 DEF CfgInv

(* What is stored is what was applied; what is not stored is recorded as   *)
(* such, and the other settings are not touched.                           *)
LEMMA PersistStep == CfgInv /\ Persist => CfgInv'
<1> SUFFICES ASSUME CfgInv, Persist PROVE CfgInv'
  OBVIOUS
<1>1. UNCHANGED <<value, s_shadow, s_pending>> /\ pc = "persist" /\ pc' = "close"
  BY DEF Persist
<1>2. PICK unsaved \in SUBSET Changed :
        /\ nvs' = [s \in Settings |-> IF s \in Changed \ unsaved THEN settled.set[s]
                                      ELSE nvs[s]]
        /\ nvsFailed' = (nvsFailed \ Changed) \cup unsaved
  BY DEF Persist
<1>3. ASSUME NEW s \in Settings
      PROVE  /\ nvs'[s] = NoValue \/ nvs'[s] \in 0..SettingMax[s]
             /\ s \in nvsFailed' \/ value[s] = IF nvs'[s] = NoValue THEN Yaml[s] ELSE nvs'[s]
  <2>1. value[s] \in 0..SettingMax[s] /\ (nvs[s] = NoValue \/ nvs[s] \in 0..SettingMax[s])
    BY DEF CfgInv, CfgRanges
  <2>2. CASE s \in Changed \ unsaved
    <3>1. nvs'[s] = settled.set[s] /\ settled.set[s] # NoValue
      BY <1>2, <2>2 DEF Changed
    <3>2. value[s] = settled.set[s]
      BY <1>1, <3>1 DEF CfgInv, SnapshotIsTheDifference
    <3> QED
      BY <2>1, <3>1, <3>2
  <2>3. CASE s \in unsaved
    BY <1>2, <2>1, <2>3
  <2>4. CASE s \notin Changed
    <3>1. nvs'[s] = nvs[s] /\ settled.set[s] = NoValue
      BY <1>2, <2>4 DEF Changed
    <3>2. s \in nvsFailed \/ value[s] = NvsOverride(s)
      BY <1>1, <3>1 DEF CfgInv, SnapshotIsTheDifference
    <3>3. s \in nvsFailed => s \in nvsFailed'
      BY <1>2, <2>4
    <3> QED
      BY <2>1, <3>1, <3>2, <3>3 DEF NvsOverride
  <2> QED
    BY <2>2, <2>3, <2>4
<1>4. CfgRanges'
  BY <1>1, <1>3 DEF CfgInv, CfgRanges
<1>5. ShadowIsConverted'
  BY <1>1 DEF CfgInv, ShadowIsConverted
<1>6. SavedIsCurrent' /\ SnapshotIsTheDifference'
  BY <1>1, <1>3 DEF SavedIsCurrent, SnapshotIsTheDifference, NvsOverride
<1> QED
  BY <1>4, <1>5, <1>6 DEF CfgInv

(* A restart reads from flash what was in effect, or, in the middle of     *)
(* apply_pending(), what was in effect before it; what it cannot read is   *)
(* recorded.                                                               *)
LEMMA RebootStep == CfgInv /\ Reboot => CfgInv'
<1> SUFFICES ASSUME CfgInv, Reboot PROVE CfgInv'
  OBVIOUS
<1>1. /\ s_shadow' = [s \in Settings |-> ToCycles(s, value'[s])]
      /\ s_pending' = Unset /\ pc' = "sleep" /\ nvs' = nvs
  BY DEF Reboot
<1>2. PICK unread \in SUBSET Settings :
        /\ value' = [s \in Settings |-> IF s \in unread THEN Yaml[s] ELSE NvsOverride(s)]
        /\ nvsFailed' = unread
  BY DEF Reboot
<1>3. ASSUME NEW s \in Settings
      PROVE  /\ value'[s] \in 0..SettingMax[s]
             /\ s \in nvsFailed' \/ value'[s] = NvsOverride(s)
             /\ s_shadow'[s] = ToCycles(s, value'[s])
             /\ s_pending'[s] = NoValue
  <2>1. Yaml[s] \in 0..SettingMax[s] /\ NvsOverride(s) \in 0..SettingMax[s]
    BY CfgAssumption DEF CfgInv, CfgRanges, NvsOverride, Settings, SettingMax
  <2>2. value'[s] = IF s \in unread THEN Yaml[s] ELSE NvsOverride(s)
    BY <1>2
  <2>3. s_shadow'[s] = ToCycles(s, value'[s]) /\ s_pending'[s] = NoValue
    BY <1>1 DEF Unset
  <2> QED
    BY <1>2, <2>1, <2>2, <2>3
<1>4. CfgRanges'
  BY <1>1, <1>3 DEF CfgInv, CfgRanges
<1>5. ShadowIsConverted'
  BY <1>3 DEF ShadowIsConverted, ToCycles, publish_gap_sec_to_skip_cycles,
              minutes_to_lp_cycles
<1>6. SavedIsCurrent' /\ SnapshotIsTheDifference'
  BY <1>1, <1>3 DEF SavedIsCurrent, SnapshotIsTheDifference, NvsOverride
<1> QED
  BY <1>4, <1>5, <1>6 DEF CfgInv

LEMMA CfgInvNext == CfgInv /\ [CfgNext]_cfgVars => CfgInv'
<1> SUFFICES ASSUME CfgInv, [CfgNext]_cfgVars PROVE CfgInv'
  OBVIOUS
<1>0. \A s \in Settings : s_pending[s] = NoValue \/ s_pending[s] \in Nat
  BY DEF CfgInv, CfgRanges
<1>1. CASE CycleBegins
  BY <1>0, <1>1, QuietStep DEF CycleBegins, ram, lost
<1>2. CASE StateAcked
  BY <1>0, <1>2, QuietStep DEF StateAcked, lost
<1>3. CASE OnMqttData
  <2>1. \A s \in Settings : s_pending'[s] = NoValue \/ s_pending'[s] \in Nat
    BY <1>0, <1>3 DEF OnMqttData
  <2> QED
    BY <1>3, <2>1, QuietStep DEF OnMqttData, lost
<1>4. CASE ApplyPending
  BY <1>4, ApplyPendingStep
<1>5. CASE Persist
  BY <1>5, PersistStep
<1>6. CASE CloseSession
  BY <1>0, <1>6, QuietStep DEF CloseSession, ram, lost
<1>7. CASE ConnectionLost
  BY <1>0, <1>7, QuietStep DEF ConnectionLost, ram
<1>8. CASE Reboot
  BY <1>8, RebootStep
<1>9. CASE BrokerReads
  BY <1>0, <1>9, QuietStep DEF BrokerReads, ram
<1>10. ASSUME NEW r \in Requests, Command(r) PROVE CfgInv'
  BY <1>0, <1>10, QuietStep DEF Command, ram
<1>11. CASE UNCHANGED cfgVars
  BY <1>0, <1>11, QuietStep DEF cfgVars, ram, lost
<1> QED
  BY <1>1, <1>2, <1>3, <1>4, <1>5, <1>6, <1>7, <1>8, <1>9, <1>10, <1>11 DEF CfgNext, CycleStep

LEMMA CfgInvHolds == CfgSpec => []CfgInv
  BY CfgInvInit, CfgInvNext, PTL DEF CfgSpec

-----------------------------------------------------------------------------
(* The theorems                                                            *)

(* A restart changes no setting: whatever Home Assistant sent, whichever   *)
(* restarts cut runtime_config_apply_pending() in two, and whichever echo  *)
(* came back, outside that function the value in effect is the one the     *)
(* next boot resolves from NVS, for every setting that NVS did not itself  *)
(* fail to store or to read: a failure for one setting harms no other, and *)
(* the next change of the setting makes it good.                           *)
THEOREM RestartChangesNothing == CfgSpec => []SavedIsCurrent
<1>1. CfgInv => SavedIsCurrent
  BY DEF CfgInv
<1> QED
  BY <1>1, CfgInvHolds, PTL

(* For every poll interval and every value Home Assistant can set, the LP  *)
(* core's cycle counts keep the promise of the setting, after a live       *)
(* change as after a boot: the publish gap is not exceeded and no poll is  *)
(* wasted, the heater is not early and less than a poll late.              *)
THEOREM CyclesKeepThePromise == CfgSpec => []CyclesMatchSettings
<1>1. CfgInv => CyclesMatchSettings
  <2> SUFFICES ASSUME CfgInv PROVE CyclesMatchSettings
    OBVIOUS
  <2>1. PICK gap \in Nat : gap = value["max_publish_gap_sec"]
    BY DEF CfgInv, CfgRanges, Settings, SettingMax
  <2>2. PICK minutes \in Nat : minutes = value["heater_period_minutes"]
    BY DEF CfgInv, CfgRanges, Settings, SettingMax
  <2>3. s_shadow["max_publish_gap_sec"] = publish_gap_sec_to_skip_cycles(gap)
    BY <2>1 DEF CfgInv, ShadowIsConverted, Settings, ToCycles
  <2>4. s_shadow["heater_period_minutes"] = minutes_to_lp_cycles(minutes)
    BY <2>2 DEF CfgInv, ShadowIsConverted, Settings, ToCycles
  <2> QED
    BY <2>1, <2>2, <2>3, <2>4, SkipCyclesFit, HeaterCyclesCover DEF CyclesMatchSettings
<1> QED
  BY <1>1, CfgInvHolds, PTL
=============================================================================
