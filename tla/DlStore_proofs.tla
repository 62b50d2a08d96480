--------------------------- MODULE DlStore_proofs ---------------------------
(***************************************************************************)
(* For any number of saves and faults: one fault, wherever it falls, leaves *)
(* the old record or the new one; a finished film always has a record; and *)
(* what a load returns never goes back.                                    *)
(***************************************************************************)
EXTENDS DlStore, TLAPS

Saving == pc \in {"write", "swap", "rename"}

(* What no fault can break. *)
Order ==
  /\ main <= pending /\ tmp <= pending
  /\ Readable(tmp) => main <= tmp
  /\ Saving => ~deleting /\ Readable(pending)
  /\ pc = "write" => tmp = Torn
  /\ pc \in {"swap", "rename"} => tmp = pending
  /\ pc = "gone" /\ ~deleting => acked = Absent
  /\ pc \in {"rm_main", "rm_tmp", "rm_again"} => deleting
  /\ pc = "off" => hurt > 0

(* Without a fault the record on the disk is the one the manager has, up to  *)
(* the moment the save under way replaces it, and a removal removes.         *)
Acked ==
  hurt = 0 => /\ pc \in {"idle", "write", "swap"} => main = acked
              /\ pc = "idle" => tmp = Absent /\ ~deleting
              /\ pc \in {"rename", "rm_tmp", "rm_again", "gone"} => main = Absent
              /\ pc \in {"rm_again", "gone"} => tmp = Absent

(* Without a fault the media is there only with a record, and goes first.    *)
MediaFirst ==
  hurt = 0 /\ media => ~deleting /\ (pc = "rename" \/ Readable(main))

IInv == TypeOK /\ Order /\ Acked /\ MediaFirst /\ CrashLeavesOldOrNew /\ MediaHasRecord

LEMMA InitHolds == Init => IInv
<1> SUFFICES ASSUME Init PROVE IInv
  OBVIOUS
<1>1. ~media /\ ~deleting /\ media \in BOOLEAN /\ deleting \in BOOLEAN
  BY DEF Init
<1>2. /\ main = Absent /\ tmp = Absent /\ pc = "gone" /\ acked = Absent
      /\ pending = 0 /\ faults = 0 /\ hurt = 0
  BY DEF Init
<1> QED
  BY StoreAssumption, <1>1, <1>2
  DEF IInv, TypeOK, Order, Acked, MediaFirst, CrashLeavesOldOrNew, MediaHasRecord,
      Saving, Readable, Load, Absent, Torn

(* Every step keeps the invariant: a save, a removal and the arrival of the  *)
(* media each move on by one file, a fault leaves the healthy case, and only  *)
(* a rename or the end of a removal leads back into it.                      *)
LEMMA StepKeeps == IInv /\ [Next]_vars => IInv'
<1> SUFFICES ASSUME IInv, [Next]_vars PROVE IInv'
  OBVIOUS
<1> USE StoreAssumption
    DEF IInv, TypeOK, Order, Acked, MediaFirst, CrashLeavesOldOrNew, MediaHasRecord,
        Saving, Readable, Load, Absent, Torn, faultVars
<1>1. CASE SaveBegin
  BY <1>1 DEF SaveBegin
<1>2. CASE WriteDone
  <2>1. pending \in Nat /\ main \in Nat
    BY <1>2
  <2>2. tmp' = pending /\ pc' = "swap" /\ pc = "write"
    BY <1>2 DEF WriteDone
  <2>3. UNCHANGED <<main, media, acked, pending, deleting, faults, hurt>>
    BY <1>2 DEF WriteDone
  <2> QED
    BY <2>1, <2>2, <2>3
<1>3. CASE WriteFailed
  BY <1>3 DEF WriteFailed
<1>4. CASE RemoveOld
  BY <1>4 DEF RemoveOld, Fault
<1>5. CASE RenameDone
  BY <1>5 DEF RenameDone
<1>6. CASE RenameFailed
  BY <1>6 DEF RenameFailed, Fault
<1>7. CASE MediaArrives
  BY <1>7 DEF MediaArrives
<1>8. CASE RemoveMedia
  <2>1. /\ pc = "idle" /\ pc' = "rm_main"
        /\ UNCHANGED <<main, tmp, acked, pending>>
    BY <1>8 DEF RemoveMedia
  <2>2. deleting' /\ deleting' \in BOOLEAN
    BY <1>8 DEF RemoveMedia
  <2>3. CASE media /\ media' = media /\ Fault
    BY <2>1, <2>2, <2>3 DEF Fault
  <2>4. CASE ~media' /\ media' \in BOOLEAN /\ UNCHANGED faultVars
    BY <2>1, <2>2, <2>4
  <2> QED
    BY <1>8, <2>3, <2>4 DEF RemoveMedia
<1>9. CASE RemoveMain
  BY <1>9 DEF RemoveMain, Fault
<1>10. CASE RemoveTmp
  BY <1>10 DEF RemoveTmp, Fault
<1>15. CASE RemoveAgain
  <2>1. /\ pc = "rm_again" /\ pc' = "gone" /\ deleting
        /\ UNCHANGED <<main, tmp, acked, pending, deleting>>
    BY <1>15 DEF RemoveAgain
  <2>2. CASE media /\ media' = media /\ Fault
    BY <2>1, <2>2 DEF Fault
  <2>3. CASE /\ ~media' /\ media' \in BOOLEAN /\ faults' = faults
             /\ hurt' = IF main = Absent /\ tmp = Absent THEN 0 ELSE hurt
    BY <2>1, <2>3
  <2> QED
    BY <1>15, <2>2, <2>3 DEF RemoveAgain
<1>11. CASE MakeDir
  <2>1. /\ pc = "gone" /\ pc' = "write" /\ tmp' = Torn /\ acked' = Absent
        /\ pending < MaxVersion /\ pending' = pending + 1
        /\ UNCHANGED <<main, media, faults, hurt>>
    BY <1>11 DEF MakeDir
  <2>2. ~deleting' /\ deleting' \in BOOLEAN
    BY <1>11 DEF MakeDir
  <2> QED
    BY <2>1, <2>2
<1>12. CASE Crash
  BY <1>12 DEF Crash, Fault
<1>13. CASE Boot
  <2>1. /\ pc = "off" /\ pc' = "write" /\ tmp' = Torn /\ acked' = Load
        /\ pending < MaxVersion /\ pending' = pending + 1
        /\ UNCHANGED <<main, media, faults, hurt>>
    BY <1>13 DEF Boot
  <2>2. ~deleting' /\ deleting' \in BOOLEAN
    BY <1>13 DEF Boot
  <2> QED
    BY <2>1, <2>2
<1>14. CASE UNCHANGED vars
  BY <1>14 DEF vars
<1> QED
  BY <1>1, <1>2, <1>3, <1>4, <1>5, <1>6, <1>7, <1>8, <1>9, <1>10, <1>11, <1>12, <1>13, <1>14,
     <1>15
  DEF Next

LEMMA Invariant == Spec => []IInv
  BY InitHolds, StepKeeps, PTL DEF Spec

(* dl_store.h's promise: after one power cut, with no failed removal or rename *)
(* since the last save that went through, the record read back is the one the  *)
(* manager had or the one it was saving.                                       *)
THEOREM CrashLeavesOldOrNewAlways == Spec => []CrashLeavesOldOrNew
<1>1. IInv => CrashLeavesOldOrNew
  BY DEF IInv
<1> QED
  BY Invariant, <1>1, PTL

(* dl_store_remove_item removes the media first: one power cut never leaves a  *)
(* film on the disk that no record points at.                                  *)
THEOREM MediaHasRecordAlways == Spec => []MediaHasRecord
<1>1. IInv => MediaHasRecord
  BY DEF IInv
<1> QED
  BY Invariant, <1>1, PTL

(* write_text_atomic and load_with_fallback together: whatever fails, however  *)
(* often, a load never returns a record older than an earlier load did while   *)
(* the item exists.                                                            *)
THEOREM LoadNeverGoesBackAlways == Spec => LoadNeverGoesBack
<1>1. IInv /\ [Next]_vars => [Load # Absent /\ Load' # Absent => Load' >= Load]_vars
  <2> SUFFICES ASSUME IInv, [Next]_vars PROVE Load # Absent /\ Load' # Absent => Load' >= Load
    OBVIOUS
  <2> USE DEF IInv, TypeOK, Order, Saving, Readable, Load, Absent, Torn
  <2>1. CASE SaveBegin \/ WriteDone \/ WriteFailed
    BY <2>1 DEF SaveBegin, WriteDone, WriteFailed
  <2>2. CASE RemoveOld \/ RenameDone \/ RenameFailed
    BY <2>2 DEF RemoveOld, RenameDone, RenameFailed
  <2>3. CASE MediaArrives \/ RemoveMedia \/ RemoveMain \/ RemoveTmp \/ RemoveAgain
    BY <2>3 DEF MediaArrives, RemoveMedia, RemoveMain, RemoveTmp, RemoveAgain
  <2>4. CASE MakeDir \/ Crash \/ Boot
    BY <2>4 DEF MakeDir, Crash, Boot
  <2>5. CASE UNCHANGED vars
    BY <2>5 DEF vars
  <2> QED
    BY <2>1, <2>2, <2>3, <2>4, <2>5 DEF Next
<1> QED
  BY Invariant, <1>1, PTL DEF Spec, LoadNeverGoesBack
=============================================================================
