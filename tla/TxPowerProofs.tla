--------------------------- MODULE TxPowerProofs ----------------------------
(***************************************************************************)
(* Proofs about the TX-power trial of TxPower, for every set of requests   *)
(* and of powers that work, and any number of requests and restarts.       *)
(***************************************************************************)
EXTENDS TxPower, TLAPS

-----------------------------------------------------------------------------
(* Type correctness                                                        *)

(* A clamped value is a power the radio can be set to.                     *)
LEMMA ClampedType == \A v \in Int : Clamped(v) \in Dbm
BY DEF Clamped, Dbm, TxMin, TxMax

(* The value in effect is one, too.                                        *)
LEMMA AcceptedType == TxTypeOK => Accepted \in Dbm
BY DEF TxTypeOK, Accepted

(* runtime_config_tx_power_note_cycle_result() keeps the types of what it  *)
(* writes.                                                                 *)
LEMMA NoteType ==
  ASSUME TxTypeOK, NEW result \in BOOLEAN, NEW failed \in BOOLEAN,
         Note(result, failed)
  PROVE  /\ known_good' \in Dbm /\ pending' \in Dbm /\ active' \in Dbm /\ radio' \in Dbm
         /\ has_pending' \in BOOLEAN /\ first_attach_done' \in BOOLEAN
         /\ has_rejected' \in BOOLEAN
         /\ unconfirmed' \in 0..(RevertAfterCycles - 1)
         /\ rejected' \in Dbm /\ promoted' \in Dbm /\ nvsPending' \in Dbm
         /\ nvsKnownGood' \in NvsEntry /\ nvsKnownGood'.v \in Dbm
         /\ nvsFlag' \in {0, 1} /\ evidence' \in Nat
         /\ torn' \subseteq {"apply", "unpin"}
<1>1. CASE NoTrial
  BY <1>1 DEF NoTrial, TxTypeOK, ram, nvs
<1>2. CASE NoteOk
  <2>1. nvsKnownGood' \in NvsEntry /\ nvsKnownGood'.v \in Dbm
    BY <1>2 DEF NoteOk, Written, TxTypeOK, NvsEntry, Dbm, TxMin, TxMax
  <2>2. has_pending' \in BOOLEAN
    BY <1>2 DEF NoteOk
  <2> QED
    BY <1>2, <2>1, <2>2 DEF NoteOk, Written, TxTypeOK, RevertAfterCycles
<1>3. CASE NoteFailed(failed)
  <2>1. has_pending' \in BOOLEAN /\ has_rejected' \in BOOLEAN
    BY <1>3 DEF NoteFailed, TxTypeOK
  <2>2. unconfirmed' \in 0..(RevertAfterCycles - 1) /\ evidence' \in Nat
    <3>1. \/ unconfirmed + 1 < RevertAfterCycles /\ unconfirmed' = unconfirmed + 1
          \/ unconfirmed' = 0
      BY <1>3 DEF NoteFailed
    <3>2. evidence' = evidence + 1 \/ evidence' = evidence
      BY <1>3 DEF NoteFailed
    <3> QED
      BY <3>1, <3>2 DEF TxTypeOK, RevertAfterCycles
  <2>3. active' \in Dbm /\ radio' \in Dbm /\ rejected' \in Dbm /\ nvsFlag' \in {0, 1}
    BY <1>3 DEF NoteFailed, Written, TxTypeOK, SetTxPowerDbm
  <2>4. torn' \subseteq {"apply", "unpin"}
    BY <1>3 DEF NoteFailed, TxTypeOK
  <2> QED
    BY <1>3, <2>1, <2>2, <2>3, <2>4 DEF NoteFailed, TxTypeOK
<1> QED
  BY <1>1, <1>2, <1>3 DEF Note

LEMMA InitTypes == TxInit => TxTypeOK
<1> SUFFICES ASSUME TxInit PROVE TxTypeOK
  OBVIOUS
<1>1. /\ has_pending \in BOOLEAN /\ first_attach_done \in BOOLEAN
      /\ has_rejected \in BOOLEAN /\ session \in BOOLEAN /\ waiting \in BOOLEAN
  BY DEF TxInit
<1> QED
  BY <1>1, TxConstants
     DEF TxInit, TxTypeOK, PubStates, Dbm, TxMin, TxMax, TableMax, RevertAfterCycles,
         NoValue, NvsEntry

LEMMA NextTypes == TxTypeOK /\ [TxNext]_txVars => TxTypeOK'
<1> SUFFICES ASSUME TxTypeOK, [TxNext]_txVars PROVE TxTypeOK'
  OBVIOUS
<1> USE DEF mqtt, nvs, task, ghosts, ota
<1>1. ASSUME GateFails PROVE TxTypeOK'
  <2>1. Note(FALSE, TRUE)
    BY <1>1 DEF GateFails
  <2> HIDE DEF nvs
  <2> QED
    BY <1>1, <2>1, NoteType DEF GateFails, TxTypeOK
<1>2. ASSUME GateOk PROVE TxTypeOK'
  <2>1. /\ waiting' \in BOOLEAN /\ first_attach_done' \in BOOLEAN
        /\ has_pending' \in BOOLEAN /\ has_rejected' \in BOOLEAN
        /\ pub' \in PubStates
        /\ outcome' \in {"none", "noValues", "acked", "failed"}
    BY <1>2 DEF GateOk, NoteFirstAttach, TxTypeOK, PubStates, ram
  <2> QED
    BY <1>2, <2>1 DEF GateOk, NoteFirstAttach, Written, TxTypeOK, ram, SetTxPowerDbm,
                      RevertAfterCycles
<1>3. ASSUME PassEnds PROVE TxTypeOK'
  <2>1. Note(outcome = "acked", outcome = "failed")
    BY <1>3 DEF PassEnds
  <2>2. (outcome = "acked") \in BOOLEAN /\ (outcome = "failed") \in BOOLEAN
    OBVIOUS
  <2> QED
    BY <1>3, <2>1, <2>2, NoteType DEF PassEnds, TxTypeOK, PubStates
<1>4. ASSUME PassTimesOut PROVE TxTypeOK'
  <2>1. CASE UNCHANGED <<ram, nvs, radio, promoted, evidence, torn>>
    BY <1>4, <2>1 DEF PassTimesOut, TxTypeOK, ram
  <2>2. CASE Note(FALSE, TRUE) \/ Note(FALSE, FALSE)
    BY <1>4, <2>2, NoteType DEF PassTimesOut, TxTypeOK
  <2> QED
    BY <1>4, <2>1, <2>2 DEF PassTimesOut
<1>5. ASSUME PubFails PROVE TxTypeOK'
  <2>1. broker' \in Int
    BY <1>5, AcceptedType DEF PubFails, TxTypeOK, Dbm
  <2> QED
    BY <1>5, <2>1 DEF PubFails, TxTypeOK, PubStates, ram
<1>6. ASSUME PubAcked PROVE TxTypeOK'
  <2>1. broker' \in Int /\ inbox' \in Int
    BY <1>6, AcceptedType DEF PubAcked, TxTypeOK, Dbm
  <2> QED
    BY <1>6, <2>1 DEF PubAcked, TxTypeOK, PubStates, ram
<1>7. ASSUME Receive PROVE TxTypeOK'
  BY <1>7 DEF Receive, TxTypeOK, ram
<1>8. ASSUME ApplyPending PROVE TxTypeOK'
  <2>1. pub' \in PubStates
    BY <1>8 DEF ApplyPending, AfterApply, PubStates
  <2>2. inbox' \in Int
    BY <1>8 DEF ApplyPending, NoValue
  <2>3. CASE ApplyTrial
    BY <1>8, <2>1, <2>2, <2>3, ClampedType DEF ApplyPending, ApplyTrial, TxTypeOK
  <2>4. CASE ApplyNothing \/ ApplyRejected \/ ApplyClampedAway
    <3>1. broker' \in Int
      BY <2>4, AcceptedType
         DEF ApplyNothing, ApplyRejected, ApplyClampedAway, Echo, TxTypeOK, Dbm
    <3> QED
      BY <1>8, <2>1, <2>2, <2>4, <3>1
         DEF ApplyPending, ApplyNothing, ApplyRejected, ApplyClampedAway, TxTypeOK, ram
  <2> QED
    BY <1>8, <2>3, <2>4 DEF ApplyPending
<1>9. ASSUME ApplyTrialRest PROVE TxTypeOK'
  <2>1. broker' \in Int
    BY <1>9 DEF ApplyTrialRest, Echo, TxTypeOK, Dbm
  <2>2. has_rejected' \in BOOLEAN
    BY <1>9 DEF ApplyTrialRest
  <2>3. /\ nvsPending' \in Dbm /\ nvsFlag' \in {0, 1} /\ pub' \in PubStates
        /\ torn' \subseteq {"apply", "unpin"}
    BY <1>9 DEF ApplyTrialRest, AfterApply, PubStates, Written, TxTypeOK
  <2> QED
    BY <1>9, <2>1, <2>2, <2>3 DEF ApplyTrialRest, SetTxPowerDbm, TxTypeOK, RevertAfterCycles
<1>10. ASSUME OtaSkipped \/ PubGone PROVE TxTypeOK'
  <2>1. pub' \in PubStates /\ session' \in BOOLEAN
    BY <1>10 DEF OtaSkipped, PubGone, PubStates, TxTypeOK
  <2>2. CASE OtaSkipped
    BY <2>1, <2>2 DEF OtaSkipped, TxTypeOK, ram
  <2>3. CASE PubGone
    BY <2>1, <2>3 DEF PubGone, TxTypeOK, ram
  <2> QED
    BY <1>10, <2>2, <2>3
<1>11. ASSUME SessionBegins \/ PinMax PROVE TxTypeOK'
  <2>1. session' \in BOOLEAN /\ pub' \in PubStates
    BY <1>11 DEF SessionBegins, PinMax, PubStates, TxTypeOK
  <2>2. CASE SessionBegins
    BY <2>1, <2>2 DEF SessionBegins, TxTypeOK, ram
  <2>3. CASE PinMax
    <3>1. radio' \in Dbm
      BY <2>3 DEF PinMax, SetTxPowerDbm, TableMax, Dbm, TxMin, TxMax
    <3> QED
      BY <2>1, <2>3, <3>1 DEF PinMax, TxTypeOK, ram
  <2> QED
    BY <1>11, <2>2, <2>3
<1>12. ASSUME SessionEnds \/ UnpinLoads \/ UnpinSets PROVE TxTypeOK'
  <2>1. session' \in BOOLEAN /\ pub' \in PubStates
    BY <1>12 DEF SessionEnds, UnpinLoads, UnpinSets, PubStates, TxTypeOK
  <2>2. CASE SessionEnds
    BY <2>1, <2>2 DEF SessionEnds, TxTypeOK, ram
  <2>3. CASE UnpinLoads
    BY <2>1, <2>3 DEF UnpinLoads, TxTypeOK, ram
  <2>4. CASE UnpinSets
    BY <2>1, <2>4 DEF UnpinSets, SetTxPowerDbm, TxTypeOK, ram
  <2> QED
    BY <1>12, <2>2, <2>3, <2>4
<1>13. ASSUME NEW v \in Requests, Request(v) PROVE TxTypeOK'
  BY <1>13, TxConstants DEF Request, TxTypeOK, ram
<1>14. ASSUME Reboot PROVE TxTypeOK'
  <2>1. known_good' \in Dbm
    BY <1>14, TxConstants, ClampedType DEF Reboot, NvsOverride, TxTypeOK, Dbm
  <2>2. /\ has_pending' \in BOOLEAN /\ first_attach_done' \in BOOLEAN
        /\ has_rejected' \in BOOLEAN /\ session' \in BOOLEAN /\ waiting' \in BOOLEAN
    BY <1>14 DEF Reboot
  <2> QED
    BY <1>14, <2>1, <2>2 DEF Reboot, TxTypeOK, PubStates, TableMax, Dbm, TxMin, TxMax,
                                 NoValue, RevertAfterCycles
<1>15. ASSUME UNCHANGED txVars PROVE TxTypeOK'
  BY <1>15 DEF txVars, ram, TxTypeOK
<1> QED
  BY <1>1, <1>2, <1>3, <1>4, <1>5, <1>6, <1>7, <1>8, <1>9, <1>10, <1>11, <1>12, <1>13,
     <1>14, <1>15 DEF TxNext

(* Every power the device keeps, in RAM or in NVS, is one the radio can be *)
(* set to, and the count of failed cycles stays below the revert limit.    *)
THEOREM TxTypes == TxSpec => []TxTypeOK
BY InitTypes, NextTypes, PTL DEF TxSpec

-----------------------------------------------------------------------------
(* The power the radio is set to                                           *)

(* What the trial's bookkeeping relies on: a publish task runs only after  *)
(* the first attach of its boot, a session is on from its pin to its end,  *)
(* a trial that is on is the one in effect except in the middle of an      *)
(* apply, and what an apply or an unpin holds is current unless a revert   *)
(* came into it.                                                           *)
TrialInv ==
  /\ pub # "none" => first_attach_done
  /\ session <=> pub \in {"otaPin", "ota"}
  /\ pub = "apply" /\ "apply" \notin torn => has_pending
  /\ first_attach_done /\ has_pending /\ pub # "apply" => active = pending
  /\ pub = "unpin" /\ "unpin" \notin torn => unpinTo = active

PowerInv == TxTypeOK /\ TrialInv /\ RadioPower

(* A note outside a session leaves a trial on, untouched or promoted, or   *)
(* reverts it: the radio is then at the known-good power, and only an      *)
(* apply or an unpin that is under way is not done yet.                    *)
LEMMA NoteOutcome ==
  ASSUME NEW result \in BOOLEAN, NEW failed \in BOOLEAN, Note(result, failed),
         has_pending \in BOOLEAN
  PROVE  /\ first_attach_done' = first_attach_done
         /\ pending' = pending
         /\ \/ UNCHANGED <<known_good, has_pending, active, radio, torn>>
            \/ /\ result /\ has_pending /\ ~has_pending'
               /\ known_good' = pending /\ UNCHANGED <<active, radio, torn>>
            \/ /\ ~has_pending' /\ known_good' = known_good
               /\ radio' = known_good /\ active' = known_good
               /\ torn' = {pub} \cap {"apply", "unpin"}
<1>1. CASE NoTrial
  BY <1>1 DEF NoTrial, ram
<1>2. CASE result /\ NoteOk
  BY <1>2 DEF NoteOk
<1>3. CASE NoteFailed(failed)
  BY <1>3 DEF NoteFailed, SetTxPowerDbm
<1> QED
  BY <1>1, <1>2, <1>3 DEF Note

(* Either way the bookkeeping and the radio agree, or the note is recorded *)
(* as one that came into an apply or an unpin.                             *)
LEMMA NoteKeepsPower ==
  ASSUME PowerInv, NEW result \in BOOLEAN, NEW failed \in BOOLEAN,
         Note(result, failed), ~session, result => pub = "done",
         pub' = pub \/ (pub = "done" /\ pub' = "none"),
         UNCHANGED <<session, unpinTo>>
  PROVE  (TrialInv /\ RadioPower)'
<1> USE DEF PowerInv
<1>1. has_pending \in BOOLEAN
  BY DEF TxTypeOK
<1>2. first_attach_done' = first_attach_done /\ pending' = pending
  BY <1>1, NoteOutcome
<1>3. CASE UNCHANGED <<known_good, has_pending, active, radio, torn>>
  BY <1>2, <1>3 DEF TrialInv, RadioPower, SessionTail
<1>4. CASE /\ result /\ has_pending /\ ~has_pending'
           /\ known_good' = pending /\ UNCHANGED <<active, radio, torn>>
  BY <1>2, <1>4 DEF TrialInv, RadioPower, SessionTail
<1>5. CASE /\ ~has_pending' /\ known_good' = known_good
           /\ radio' = known_good /\ active' = known_good
           /\ torn' = {pub} \cap {"apply", "unpin"}
  <2>1. TrialInv'
    BY <1>2, <1>5 DEF TrialInv
  <2>2. RadioPower'
    BY <1>2, <1>5 DEF TrialInv, RadioPower, SessionTail
  <2> QED
    BY <2>1, <2>2
<1> QED
  BY <1>1, <1>3, <1>4, <1>5, NoteOutcome

LEMMA InitPower == TxInit => PowerInv
<1> SUFFICES ASSUME TxInit PROVE PowerInv
  OBVIOUS
<1>1. TrialInv /\ RadioPower
  BY DEF TxInit, TrialInv, RadioPower, SessionTail
<1> QED
  BY <1>1, InitTypes DEF PowerInv

LEMMA NextPower ==
  ASSUME PowerInv, [TxNext]_txVars
  PROVE  (TrialInv /\ RadioPower)'
<1> DEFINE Goal == (TrialInv /\ RadioPower)'
<1> USE DEF task, ota
<1>1. ASSUME GateFails PROVE Goal
  <2>1. Note(FALSE, TRUE) /\ ~session /\ UNCHANGED <<ota, task>>
    BY <1>1 DEF GateFails
  <2> QED
    BY <2>1, NoteKeepsPower
<1>2. ASSUME GateOk PROVE Goal
  <2>1. UNCHANGED <<ota, torn>> /\ NoteFirstAttach
    BY <1>2 DEF GateOk, ghosts
  <2>2. pub' = pub \/ (pub = "none" /\ pub' \in {"connect", "otaCheck"})
    BY <1>2 DEF GateOk
  <2>3. first_attach_done'
    BY <2>1 DEF NoteFirstAttach, ram
  <2>4. CASE first_attach_done
    BY <2>1, <2>2, <2>3, <2>4
       DEF NoteFirstAttach, ram, PowerInv, TrialInv, RadioPower, SessionTail
  <2>5. CASE ~first_attach_done
    BY <2>1, <2>2, <2>3, <2>5
       DEF NoteFirstAttach, SetTxPowerDbm, PowerInv, TrialInv, RadioPower, SessionTail
  <2> QED
    BY <2>4, <2>5
<1>3. ASSUME PassEnds PROVE Goal
  <2>1. /\ Note(outcome = "acked", outcome = "failed")
        /\ pub = "done" /\ pub' = "none" /\ UNCHANGED ota
    BY <1>3 DEF PassEnds
  <2>2. (outcome = "acked") \in BOOLEAN /\ (outcome = "failed") \in BOOLEAN
    OBVIOUS
  <2>3. ~session
    BY <2>1 DEF PowerInv, TrialInv
  <2> QED
    BY <2>1, <2>2, <2>3, NoteKeepsPower
<1>4. ASSUME PassTimesOut PROVE Goal
  <2>1. UNCHANGED <<pub, ota>>
    BY <1>4 DEF PassTimesOut
  <2>2. CASE UNCHANGED <<ram, nvs, radio, promoted, evidence, torn>>
    BY <2>1, <2>2 DEF ram, PowerInv, TrialInv, RadioPower, SessionTail
  <2>3. CASE ~session /\ Note(FALSE, TRUE)
    BY <2>1, <2>3, NoteKeepsPower
  <2>4. CASE ~session /\ Note(FALSE, FALSE)
    BY <2>1, <2>4, NoteKeepsPower
  <2> QED
    BY <1>4, <2>2, <2>3, <2>4 DEF PassTimesOut
<1>5. ASSUME PubFails \/ PubAcked \/ Receive \/ OtaSkipped \/ PubGone PROVE Goal
  BY <1>5 DEF PubFails, PubAcked, Receive, OtaSkipped, PubGone, ram, ghosts, PowerInv,
              TrialInv, RadioPower, SessionTail
<1>6. ASSUME ApplyPending PROVE Goal
  <2>1. pub = "tail" /\ UNCHANGED <<ota, torn>>
    BY <1>6 DEF ApplyPending
  <2>2. CASE ApplyTrial /\ pub' = "apply"
    BY <2>1, <2>2 DEF ApplyTrial, PowerInv, TrialInv, RadioPower, SessionTail
  <2>3. CASE (ApplyNothing \/ ApplyRejected \/ ApplyClampedAway) /\ pub' = AfterApply
    <3>1. pub' \in {"otaCheck", "done"}
      BY <2>3 DEF AfterApply
    <3>2. UNCHANGED <<ram, radio>>
      BY <2>3 DEF ApplyNothing, ApplyRejected, ApplyClampedAway
    <3> QED
      BY <2>1, <3>1, <3>2 DEF ram, PowerInv, TrialInv, RadioPower, SessionTail
  <2> QED
    BY <1>6, <2>2, <2>3 DEF ApplyPending
<1>7. ASSUME ApplyTrialRest PROVE Goal
  <2>1. /\ pub = "apply" /\ pub' \in {"otaCheck", "done"}
        /\ radio' = pending /\ active' = pending
        /\ torn' = IF has_pending THEN {} ELSE torn
        /\ UNCHANGED <<known_good, pending, has_pending, first_attach_done, ota>>
    BY <1>7 DEF ApplyTrialRest, AfterApply, SetTxPowerDbm
  <2>2. ~has_pending => "apply" \in torn'
    BY <2>1 DEF PowerInv, TrialInv
  <2> QED
    BY <2>1, <2>2 DEF PowerInv, TrialInv, RadioPower, SessionTail
<1>8. ASSUME SessionBegins \/ PinMax \/ SessionEnds PROVE Goal
  BY <1>8 DEF SessionBegins, PinMax, SessionEnds, SetTxPowerDbm, ram, ghosts, PowerInv,
              TrialInv, RadioPower, SessionTail
<1>9. ASSUME UnpinLoads PROVE Goal
  <2>1. /\ pub = "otaEnd" /\ pub' = "unpin" /\ unpinTo' = active
        /\ torn' = torn \ {"unpin"} /\ UNCHANGED <<ram, radio, session>>
    BY <1>9 DEF UnpinLoads
  <2> QED
    BY <2>1 DEF ram, PowerInv, TrialInv, RadioPower, SessionTail
<1>10. ASSUME UnpinSets PROVE Goal
  BY <1>10 DEF UnpinSets, SetTxPowerDbm, ram, ghosts, PowerInv, TrialInv, RadioPower,
               SessionTail
<1>11. ASSUME NEW v \in Requests, Request(v) PROVE Goal
  BY <1>11 DEF Request, ram, PowerInv, TrialInv, RadioPower, SessionTail
<1>12. ASSUME Reboot PROVE Goal
  BY <1>12 DEF Reboot, TrialInv, RadioPower, SessionTail
<1>13. ASSUME UNCHANGED txVars PROVE Goal
  BY <1>13 DEF txVars, ram, ghosts, PowerInv, TrialInv, RadioPower, SessionTail
<1> QED
  BY <1>1, <1>2, <1>3, <1>4, <1>5, <1>6, <1>7, <1>8, <1>9, <1>10, <1>11, <1>12, <1>13
     DEF TxNext

(* Wherever the sensor task's note comes, a download has the table's       *)
(* maximum and otherwise the radio is at the power the device reports,     *)
(* known-good or on trial, but for a revert in the middle of an unpin or   *)
(* of an apply.                                                            *)
THEOREM RadioAtKnownPower == TxSpec => []RadioPower
<1>1. PowerInv /\ [TxNext]_txVars => PowerInv'
  BY NextPower, NextTypes DEF PowerInv
<1>2. PowerInv => RadioPower
  BY DEF PowerInv
<1> QED
  BY <1>1, <1>2, InitPower, PTL DEF TxSpec

-----------------------------------------------------------------------------
(* Promotion                                                               *)

(* A trial of an earlier boot is gone once the device has attached.        *)
BootInv ==
  /\ pub # "none" => first_attach_done
  /\ first_attach_done /\ has_pending => trialBoot = boots

LEMMA NextBoot == BootInv /\ [TxNext]_txVars => BootInv'
<1> SUFFICES ASSUME BootInv, [TxNext]_txVars PROVE BootInv'
  OBVIOUS
<1> USE DEF task, ghosts, BootInv
<1>1. ASSUME NEW result, NEW failed, Note(result, failed)
      PROVE  first_attach_done' = first_attach_done /\ (has_pending' => has_pending)
  BY <1>1 DEF Note, NoTrial, NoteOk, NoteFailed, ram
<1>2. ASSUME GateFails \/ PassEnds \/ PassTimesOut PROVE BootInv'
  <2>1. first_attach_done' = first_attach_done /\ (has_pending' => has_pending)
    <3>1. \/ UNCHANGED ram
          \/ Note(FALSE, TRUE) \/ Note(FALSE, FALSE)
          \/ Note(outcome = "acked", outcome = "failed")
      BY <1>2 DEF GateFails, PassEnds, PassTimesOut
    <3>2. CASE UNCHANGED ram
      BY <3>2 DEF ram
    <3>3. CASE Note(FALSE, TRUE) \/ Note(FALSE, FALSE)
      BY <3>3, <1>1
    <3>4. CASE Note(outcome = "acked", outcome = "failed")
      BY <3>4, <1>1
    <3> QED
      BY <3>1, <3>2, <3>3, <3>4
  <2>2. UNCHANGED <<boots, trialBoot>> /\ (pub' = pub \/ pub' = "none")
    BY <1>2 DEF GateFails, PassEnds, PassTimesOut
  <2> QED
    BY <2>1, <2>2
<1>3. ASSUME GateOk PROVE BootInv'
  BY <1>3 DEF GateOk, NoteFirstAttach, ram
<1>4. ASSUME PubFails \/ PubAcked \/ Receive PROVE BootInv'
  BY <1>4 DEF PubFails, PubAcked, Receive, ram
<1>5. ASSUME ApplyPending PROVE BootInv'
  <2>1. first_attach_done /\ boots' = boots
    BY <1>5 DEF ApplyPending
  <2>2. CASE ApplyTrial
    BY <2>1, <2>2 DEF ApplyTrial
  <2>3. CASE ApplyNothing \/ ApplyRejected \/ ApplyClampedAway
    <3>1. UNCHANGED <<ram, trialBoot>>
      BY <2>3 DEF ApplyNothing, ApplyRejected, ApplyClampedAway
    <3> QED
      BY <2>1, <3>1 DEF ram
  <2> QED
    BY <1>5, <2>2, <2>3 DEF ApplyPending
<1>6. ASSUME \/ ApplyTrialRest \/ OtaSkipped \/ SessionBegins \/ PinMax
             \/ SessionEnds \/ UnpinLoads \/ UnpinSets \/ PubGone
      PROVE  BootInv'
  BY <1>6 DEF ApplyTrialRest, OtaSkipped, SessionBegins, PinMax, SessionEnds, UnpinLoads,
              UnpinSets, PubGone, ram
<1>7. ASSUME NEW v \in Requests, Request(v) PROVE BootInv'
  BY <1>7 DEF Request, ram
<1>8. ASSUME Reboot PROVE BootInv'
  BY <1>8 DEF Reboot
<1>9. ASSUME UNCHANGED txVars PROVE BootInv'
  BY <1>9 DEF txVars, ram
<1> QED
  BY <1>2, <1>3, <1>4, <1>5, <1>6, <1>7, <1>8, <1>9 DEF TxNext

(* The known-good power changes, between two boots, only to a value whose  *)
(* trial was begun in this boot, wherever the two tasks are.               *)
THEOREM PromotionIsOfThisBoot == TxSpec => PromotedInItsBoot
<1>1. TxInit => BootInv
  BY DEF TxInit, BootInv
<1>2. TxTypeOK /\ BootInv /\ [TxNext]_txVars =>
        [known_good' # known_good /\ boots' = boots => trialBoot = boots]_txVars
  <2> SUFFICES ASSUME TxTypeOK, BootInv, TxNext, known_good' # known_good, boots' = boots
               PROVE  trialBoot = boots
    OBVIOUS
  <2> USE DEF task, ghosts, ram
  <2>1. ~Reboot
    BY DEF Reboot, TxTypeOK
  <2>2. PassEnds /\ NoteOk
    BY <2>1 DEF TxNext, GateFails, GateOk, NoteFirstAttach, PassEnds, PassTimesOut,
         Note, NoTrial, NoteFailed, PubFails, PubAcked, Receive, ApplyPending, ApplyTrial,
         ApplyNothing, ApplyRejected, ApplyClampedAway, ApplyTrialRest, OtaSkipped,
         SessionBegins, PinMax, SessionEnds, UnpinLoads, UnpinSets, PubGone, Request
  <2> QED
    BY <2>2 DEF PassEnds, NoteOk, BootInv
<1> QED
  BY <1>1, <1>2, NextBoot, TxTypes, PTL DEF TxSpec, PromotedInItsBoot
=============================================================================
