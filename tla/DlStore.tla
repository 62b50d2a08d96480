------------------------------- MODULE DlStore -------------------------------
(***************************************************************************)
(* One item directory of offline/dl_store.cpp, file by file: the record    *)
(* (state.txt), its state.txt.tmp and the finished media.  DlManager       *)
(* treats a save and a removal as one step each; here they are the calls   *)
(* they consist of, any of which may fail or be the last before the power  *)
(* goes.  Every platform call is taken to be on the disk when it returns.  *)
(***************************************************************************)
EXTENDS Integers

CONSTANTS
  MaxVersion,  \* bound: records written in a behaviour
  MaxFaults    \* bound: power cuts, and removals and renames that fail

ASSUME StoreAssumption == MaxVersion \in Nat /\ MaxFaults \in Nat

VARIABLES
  main,     \* state.txt: Absent, Torn, or the version of the record in it
  tmp,      \* state.txt.tmp
  media,    \* is media.ts there?
  pc,       \* the call under way; "idle" between calls, "off" after a power cut
  acked,    \* the version the last successful save or load gave the manager
  pending,  \* the version of the last save begun
  deleting, \* a removal has begun and the item is not back
  faults,
  hurt      \* history: faults since a save last went through, or the item last went

faultVars == <<faults, hurt>>
vars == <<main, tmp, media, pc, acked, pending, deleting, faultVars>>

Absent == 0
Torn   == -1   \* read_text or the parser rejects it

Readable(f) == f > 0

Fault == faults < MaxFaults /\ faults' = faults + 1 /\ hurt' = hurt + 1

\* A faulty variant: the .tmp is taken for the newer one.
LoadTmpFirst == IF Readable(tmp) THEN tmp ELSE IF Readable(main) THEN main ELSE Absent

\* load_with_fallback: the file, else the .tmp.
Load == IF Readable(main) THEN main ELSE IF Readable(tmp) THEN tmp ELSE Absent

-----------------------------------------------------------------------------
(* write_text_atomic *)

\* A faulty variant: the old record goes before the new one is written.
RemoveThenSave ==
  /\ pc = "idle" /\ ~deleting /\ pending < MaxVersion
  /\ pending' = pending + 1
  /\ main' = Absent /\ tmp' = Torn
  /\ pc' = "write"
  /\ UNCHANGED <<media, acked, deleting, faultVars>>

\* dl_plat_write_file starts by emptying the .tmp.
SaveBegin ==
  /\ pc = "idle" /\ ~deleting /\ pending < MaxVersion
  /\ pending' = pending + 1
  /\ tmp' = Torn
  /\ pc' = "write"
  /\ UNCHANGED <<main, media, acked, deleting, faultVars>>

WriteDone ==
  /\ pc = "write"
  /\ tmp' = pending
  /\ pc' = "swap"
  /\ UNCHANGED <<main, media, acked, pending, deleting, faultVars>>

WriteFailed ==
  /\ pc = "write"
  /\ tmp' = Absent
  /\ pc' = "idle"
  /\ UNCHANGED <<main, media, acked, pending, deleting, faultVars>>

\* The old file goes first: lv2's rename does not promise to replace it.
RemoveOld ==
  /\ pc = "swap"
  /\ \/ main' = Absent /\ UNCHANGED faultVars
     \/ main # Absent /\ main' = main /\ Fault
  /\ pc' = "rename"
  /\ UNCHANGED <<tmp, media, acked, pending, deleting>>

RenameDone ==
  /\ pc = "rename" /\ main = Absent
  /\ main' = tmp /\ tmp' = Absent
  /\ acked' = pending
  /\ pc' = "idle"
  /\ hurt' = 0
  /\ UNCHANGED <<media, pending, deleting, faults>>

RenameFailed ==
  /\ pc = "rename"
  /\ IF main # Absent THEN UNCHANGED faultVars ELSE Fault
  /\ pc' = "idle"
  /\ UNCHANGED <<main, tmp, media, acked, pending, deleting>>

-----------------------------------------------------------------------------
(* dl_store_remove_item, and the item's other changes *)

\* A complete transfer puts the media in place (attempt() in dl_manager.cpp).
MediaArrives ==
  /\ pc = "idle" /\ ~deleting /\ ~media /\ Readable(main)
  /\ media' = TRUE
  /\ UNCHANGED <<main, tmp, pc, acked, pending, deleting, faultVars>>

\* A faulty variant: the record goes before the media.
RecordFirst ==
  /\ pc = "idle"
  /\ deleting' = TRUE
  /\ main' = Absent /\ tmp' = Absent
  /\ pc' = "rm_main"
  /\ UNCHANGED <<media, acked, pending, faultVars>>

\* Media first: it is the space the user is asking for back.
RemoveMedia ==
  /\ pc = "idle"
  /\ deleting' = TRUE
  /\ \/ media' = FALSE /\ UNCHANGED faultVars
     \/ media /\ media' = media /\ Fault
  /\ pc' = "rm_main"
  /\ UNCHANGED <<main, tmp, acked, pending>>

RemoveMain ==
  /\ pc = "rm_main"
  /\ \/ main' = Absent /\ UNCHANGED faultVars
     \/ main # Absent /\ main' = main /\ Fault
  /\ pc' = "rm_tmp"
  /\ UNCHANGED <<tmp, media, acked, pending, deleting>>

RemoveTmp ==
  /\ pc = "rm_tmp"
  /\ \/ tmp' = Absent /\ UNCHANGED faultVars
     \/ tmp # Absent /\ tmp' = tmp /\ Fault
  /\ pc' = "rm_again"
  /\ UNCHANGED <<main, media, acked, pending, deleting>>

\* The media is in the list of all files too; then the directory, which goes
\* only when it is empty.  The manager forgets the item either way.
RemoveAgain ==
  /\ pc = "rm_again"
  /\ \/ /\ media' = FALSE /\ faults' = faults
        /\ hurt' = IF main = Absent /\ tmp = Absent THEN 0 ELSE hurt
     \/ media /\ media' = media /\ Fault
  /\ pc' = "gone"
  /\ UNCHANGED <<main, tmp, acked, pending, deleting>>

\* dl_enqueue makes the directory, or finds one that would not go, and saves the
\* item's first record.
MakeDir ==
  /\ pc = "gone" /\ pending < MaxVersion
  /\ pending' = pending + 1
  /\ acked' = Absent
  /\ deleting' = FALSE
  /\ tmp' = Torn
  /\ pc' = "write"
  /\ UNCHANGED <<main, media, faultVars>>

Crash ==
  /\ pc # "off" /\ Fault
  /\ pc' = "off"
  /\ UNCHANGED <<main, tmp, media, acked, pending, deleting>>

\* restore_one takes what it can load, or a record rebuilt from the files, and
\* dl_manager_init saves it straight away.
Boot ==
  /\ pc = "off" /\ pending < MaxVersion
  /\ acked' = Load
  /\ pending' = pending + 1
  /\ deleting' = FALSE
  /\ tmp' = Torn
  /\ pc' = "write"
  /\ UNCHANGED <<main, media, faultVars>>

Init ==
  /\ main = Absent /\ tmp = Absent /\ media = FALSE
  /\ pc = "gone" /\ acked = Absent /\ pending = 0
  /\ deleting = FALSE /\ faults = 0 /\ hurt = 0

Next ==
  \/ SaveBegin \/ WriteDone \/ WriteFailed \/ RemoveOld \/ RenameDone \/ RenameFailed
  \/ MediaArrives \/ RemoveMedia \/ RemoveMain \/ RemoveTmp \/ RemoveAgain \/ MakeDir
  \/ Crash \/ Boot

Spec == Init /\ [][Next]_vars

-----------------------------------------------------------------------------
(* Properties *)

TypeOK ==
  /\ main \in 0..MaxVersion /\ tmp \in {Torn} \cup 0..MaxVersion
  /\ media \in BOOLEAN /\ deleting \in BOOLEAN
  /\ pc \in {"idle", "write", "swap", "rename", "rm_main", "rm_tmp", "rm_again",
             "gone", "off"}
  /\ acked \in 0..MaxVersion /\ pending \in 0..MaxVersion
  /\ faults \in 0..MaxFaults /\ hurt \in 0..faults

\* dl_store.h: "a crash at any point leaves either the old record or the new
\* one readable".  That is one fault: a rename that fails and then a power cut
\* can lose both, until a save has gone through again.
CrashLeavesOldOrNew ==
  pc = "off" /\ hurt <= 1 /\ ~deleting => Load \in {acked, pending}

\* dl_store_remove_item: no crash strands a finished file that no record
\* points at.  (A file that will not go and then a power cut do strand it; the
\* next start rebuilds a record from it.)
MediaHasRecord == pc = "off" /\ hurt <= 1 /\ media => Load # Absent

\* A save never brings back what an earlier one replaced: what a load returns
\* only ever gets newer, while the item exists.
LoadNeverGoesBack ==
  [][Load # Absent /\ Load' # Absent => Load' >= Load]_vars

=============================================================================
