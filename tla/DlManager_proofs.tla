-------------------------- MODULE DlManager_proofs --------------------------
(***************************************************************************)
(* For any number of items and slots, any server, any limits and any       *)
(* number of power cuts, in three layers:                                  *)
(*   IInv   the state is well typed, at most one item transfers and the    *)
(*          table says which, no item is retried beyond its attempts;      *)
(*   Owners every directory has its entry, an empty slot is empty;         *)
(*   Sound  the table, the records and the files tell the same story.      *)
(* The last one needs that no item is added again while its removal is     *)
(* pending (DlManager_readd shows what happens otherwise).                 *)
(***************************************************************************)
EXTENDS DlManager, FiniteSetTheorems, TLAPS

(* The inductive invariant.  The bound on attempts has to hold wherever a   *)
(* record lives, because records travel from the table to the worker, to    *)
(* the disk and back: hence the sets of good records, slots, directories.   *)
(* A record in use names an item, so that its directory exists.             *)

Within(rec) ==
  rec.state \in {"QUEUED", "DOWNLOADING"} =>
    /\ rec.attempts < MaxAttempts
    /\ rec.err = "BAD_MEDIA" => rec.attempts < MediaMaxAttempts

GoodRec == {rec \in Rec : Within(rec)}

GoodSlot ==
  {slot \in [used : BOOLEAN, active : BOOLEAN, removing : BOOLEAN, ctl : Ctls,
             due : BOOLEAN, rec : GoodRec] : slot.used => slot.rec.id \in Ids}

GoodDir ==
  {d \in [dir : BOOLEAN, saved : BOOLEAN, rec : GoodRec, part : 0..Size, media : 0..Size] :
     d.saved => d.rec.id \in Ids}

GoodDisk == [Ids -> GoodDir]

Scalars ==
  /\ ready \in BOOLEAN /\ nextSeq \in Nat \ {0}
  /\ auth \in 0..MaxToken /\ session \in 1..MaxToken
  /\ authHold \in BOOLEAN /\ spaceHold \in BOOLEAN
  /\ suspended \in BOOLEAN /\ playBlock \in BOOLEAN
  /\ pc \in {"off", "idle", "pick", "start", "connect", "head", "body",
             "verify", "rename", "finish"}
  /\ cur \in 0..NSlots /\ have0 \in 0..Size /\ tok \in 0..MaxToken
  /\ out \in Outcome
  /\ space \in {"OK", "LOW"} /\ lengthNamed \in BOOLEAN
  /\ crashes \in Nat /\ damages \in Nat

WorkerRec == InAttempt => r.state = "DOWNLOADING"

IInv ==
  /\ Scalars
  /\ slots \in [Slots -> GoodSlot]
  /\ disk \in GoodDisk
  /\ r \in GoodRec
  /\ OneTransfer
  /\ WorkerRec

-----------------------------------------------------------------------------
(* The rules of dl_model *)

\* Every arm of the switch that finish() and restore_one rely on.
LEMMA ApplyIs ==
  /\ Apply("DOWNLOADING", "COMPLETE") = "COMPLETED"
  /\ Apply("DOWNLOADING", "CANCEL") = "CANCELLED"
  /\ Apply("DOWNLOADING", "PAUSE") = "PAUSED"
  /\ Apply("DOWNLOADING", "INTERRUPTED") = "QUEUED"
  /\ Apply("DOWNLOADING", "FAIL_RETRY") = "QUEUED"
  /\ Apply("DOWNLOADING", "FAIL") = "FAILED"
  /\ Apply("QUEUED", "START") = "DOWNLOADING"
  BY DEF Apply, Legal, Transitions, States

\* A legal event moves to a state, and only START to DOWNLOADING.
LEMMA ApplyLegal ==
  ASSUME NEW st \in States, NEW ev \in Events, Legal(st, ev)
  PROVE  /\ Apply(st, ev) \in States
         /\ ev # "START" => Apply(st, ev) # "DOWNLOADING"
         /\ Apply(st, ev) = "QUEUED" /\ st # "DOWNLOADING" => ev \in {"RESUME", "RETRY"}
  BY DEF Apply, Legal, Transitions, States, Events

\* What an HTTP status turns into is an error of the model.
LEMMA StatusError ==
  ASSUME NEW status \in Nat PROVE ErrorForStatus(status) \in Errors
  BY DEF ErrorForStatus, Errors, TransientErrors, PermanentErrors

-----------------------------------------------------------------------------
(* Records, directories and slots *)

LEMMA EmptyIsGood == EmptyRec \in GoodRec /\ EmptySlot \in GoodSlot /\ EmptyDir \in GoodDir
  BY ConstantsAssumption DEF EmptyRec, EmptySlot, EmptyDir, GoodRec, GoodSlot, GoodDir,
     Rec, Within, States, Errors, TransientErrors, PermanentErrors, Ctls

LEMMA SaveGood ==
  ASSUME NEW d \in GoodDisk, NEW rec \in GoodRec
  PROVE  Save(d, rec) \in GoodDisk
  BY DEF Save, GoodDisk, GoodDir

LEMMA PartGood ==
  ASSUME NEW d \in GoodDisk, NEW id, NEW n \in 0..Size
  PROVE  SetPart(d, id, n) \in GoodDisk
  BY DEF SetPart, GoodDisk, GoodDir

-----------------------------------------------------------------------------
(* The table: the two ways a slot changes, and the worker's steps *)

\* A call on a slot the worker is not on leaves OneTransfer alone, if what it
\* puts there is idle.
LEMMA IdleSlot ==
  ASSUME IInv, NEW s \in Slots, ~slots[s].active,
         NEW new \in GoodSlot,
         ~new.active, ~new.removing, new.ctl = "NONE", new.rec.state # "DOWNLOADING",
         slots' = [slots EXCEPT ![s] = new],
         UNCHANGED <<pc, cur, r>>
  PROVE  /\ slots' \in [Slots -> GoodSlot]
         /\ OneTransfer'
         /\ WorkerRec'
  <1>1. slots' \in [Slots -> GoodSlot]
    BY DEF IInv
  <1>2. s # cur
    BY DEF IInv, OneTransfer
  <1>3. \A t \in Slots : t # s => slots'[t] = slots[t]
    BY DEF IInv
  <1>4. slots'[s] = new
    BY DEF IInv
  <1>5. OneTransfer'
    BY <1>2, <1>3, <1>4 DEF IInv, OneTransfer, InAttempt
  <1> QED
    BY <1>1, <1>5 DEF IInv, WorkerRec, InAttempt

\* A call on the active item changes what is posted to it and nothing else.
LEMMA PostedSlot ==
  ASSUME IInv, NEW s \in Slots, slots[s].active,
         NEW new \in GoodSlot,
         new.used, new.active, new.rec = slots[s].rec, new.removing <=> new.ctl = "REMOVE",
         slots' = [slots EXCEPT ![s] = new],
         UNCHANGED <<pc, cur, r>>
  PROVE  /\ slots' \in [Slots -> GoodSlot]
         /\ OneTransfer'
         /\ WorkerRec'
  <1>1. slots' \in [Slots -> GoodSlot]
    BY DEF IInv
  <1>2. s = cur
    BY DEF IInv, OneTransfer
  <1>3. \A t \in Slots : t # s => slots'[t] = slots[t]
    BY DEF IInv
  <1>4. slots'[s] = new
    BY DEF IInv
  <1>5. OneTransfer'
    BY <1>2, <1>3, <1>4 DEF IInv, OneTransfer, InAttempt
  <1> QED
    BY <1>1, <1>5 DEF IInv, WorkerRec, InAttempt

\* A step inside attempt() that touches only the worker's copy, and in that
\* only the bytes.
LEMMA AttemptStep ==
  ASSUME IInv, InAttempt, InAttempt', UNCHANGED <<slots, cur>>,
         NEW done \in 0..Size, NEW total \in 0..Size,
         r' = [r EXCEPT !.done = done, !.total = total]
  PROVE  /\ slots' \in [Slots -> GoodSlot]
         /\ r' \in GoodRec
         /\ OneTransfer'
         /\ WorkerRec'
  <1>1. r' \in GoodRec /\ r'.id = r.id /\ r'.state = r.state
    BY DEF IInv, GoodRec, Rec, Within
  <1> QED
    BY <1>1 DEF IInv, OneTransfer, WorkerRec

\* publish(): the table's copy of the active record takes the bytes.
LEMMA PublishStep ==
  ASSUME IInv, InAttempt, InAttempt', cur' = cur,
         NEW rec \in GoodRec, rec.id = r.id, rec.state = r.state,
         slots' = Published(rec), r' = rec
  PROVE  /\ slots' \in [Slots -> GoodSlot]
         /\ slots'[cur].rec \in GoodRec
         /\ OneTransfer'
         /\ WorkerRec'
  <1>1. cur \in Slots
    BY DEF IInv, Scalars, OneTransfer, Slots
  <1>2. slots[cur] \in GoodSlot /\ slots[cur].rec \in GoodRec
    BY <1>1 DEF IInv, GoodSlot
  <1> DEFINE new == [slots[cur].rec EXCEPT !.done = rec.done, !.total = rec.total]
  <1>3. new \in GoodRec /\ new.id = slots[cur].rec.id /\ new.state = slots[cur].rec.state
    BY <1>2 DEF GoodRec, Rec, Within
  <1>4. slots' = [slots EXCEPT ![cur] = [@ EXCEPT !.rec = new]]
    BY DEF Published
  <1>5. [slots[cur] EXCEPT !.rec = new] \in GoodSlot
    BY <1>2, <1>3 DEF GoodSlot
  <1>6. slots' \in [Slots -> GoodSlot] /\ slots'[cur] = [slots[cur] EXCEPT !.rec = new]
    BY <1>1, <1>4, <1>5 DEF IInv
  <1>7. \A t \in Slots : t # cur => slots'[t] = slots[t]
    BY <1>4 DEF IInv
  <1>8. /\ slots'[cur].used = slots[cur].used /\ slots'[cur].active = slots[cur].active
        /\ slots'[cur].ctl = slots[cur].ctl /\ slots'[cur].removing = slots[cur].removing
        /\ slots'[cur].rec.id = slots[cur].rec.id
        /\ slots'[cur].rec.state = slots[cur].rec.state
        /\ slots'[cur].rec \in GoodRec
    BY <1>2, <1>3, <1>6 DEF GoodSlot
  <1> HIDE DEF new
  <1>9. OneTransfer'
    <2>1. InAttempt' <=> cur' # 0
      BY DEF IInv, OneTransfer
    <2>2. ASSUME NEW t \in Slots
          PROVE  /\ slots'[t].active <=> t = cur'
                 /\ slots'[t].active => slots'[t].used /\ r'.id = slots'[t].rec.id
                 /\ slots'[t].rec.state = "DOWNLOADING" <=> t = cur'
                 /\ slots'[t].ctl # "NONE" => t = cur'
                 /\ slots'[t].removing <=> slots'[t].ctl = "REMOVE"
      <3>1. CASE t = cur
        BY <1>8, <3>1 DEF IInv, OneTransfer
      <3>2. CASE t # cur
        BY <1>7, <3>2 DEF IInv, OneTransfer
      <3> QED BY <3>1, <3>2
    <2> QED
      BY <2>1, <2>2 DEF OneTransfer
  <1> QED
    BY <1>6, <1>8, <1>9 DEF IInv, WorkerRec

\* finish(): the slot is idle again, and so is the worker.
LEMMA FinishSlot ==
  ASSUME IInv, InAttempt, pc' = "idle", cur' = 0, r' = EmptyRec,
         NEW new \in GoodSlot,
         ~new.active, ~new.removing, new.ctl = "NONE", new.rec.state # "DOWNLOADING",
         slots' = [slots EXCEPT ![cur] = new]
  PROVE  /\ slots' \in [Slots -> GoodSlot]
         /\ OneTransfer'
         /\ WorkerRec'
  <1>1. cur \in Slots
    BY DEF IInv, Scalars, OneTransfer, Slots
  <1>2. slots' \in [Slots -> GoodSlot] /\ slots'[cur] = new
    BY <1>1 DEF IInv
  <1>3. \A t \in Slots : t # cur => slots'[t] = slots[t] /\ t # 0
    BY ConstantsAssumption DEF IInv, Slots
  <1>4. OneTransfer'
    BY <1>1, <1>2, <1>3, ConstantsAssumption DEF IInv, OneTransfer, InAttempt, Slots
  <1> QED
    BY <1>2, <1>4 DEF WorkerRec, InAttempt

-----------------------------------------------------------------------------
(* The user's calls *)

\* A call that gives an idle entry another record, one that does not transfer.
LEMMA IdleRecord ==
  ASSUME IInv, NEW s \in Visible, ~slots[s].active,
         NEW rec \in GoodRec, rec.state # "DOWNLOADING", rec.id \in Ids, NEW due \in BOOLEAN,
         slots' = [slots EXCEPT ![s] = [@ EXCEPT !.rec = rec, !.due = due]],
         UNCHANGED <<pc, cur, r>>
  PROVE  /\ slots' \in [Slots -> GoodSlot]
         /\ OneTransfer'
         /\ WorkerRec'
  <1> DEFINE new == [slots[s] EXCEPT !.rec = rec, !.due = due]
  <1>1. s \in Slots /\ ~slots[s].removing /\ slots[s] \in GoodSlot
    BY DEF Visible, Used, IInv
  <1>2. slots[s].ctl = "NONE"
    BY <1>1 DEF IInv, OneTransfer
  <1>3. new \in GoodSlot
    BY <1>1 DEF GoodSlot
  <1>4. /\ ~new.active /\ ~new.removing /\ new.ctl = "NONE"
        /\ new.rec.state # "DOWNLOADING"
    BY <1>1, <1>2 DEF GoodSlot
  <1>5. slots' = [slots EXCEPT ![s] = new]
    BY <1>1 DEF IInv
  <1> QED
    BY <1>1, <1>3, <1>4, <1>5, IdleSlot

\* The record of an entry of the table is a good one.
LEMMA SlotRecord ==
  ASSUME IInv, NEW s \in Slots
  PROVE  /\ slots[s] \in GoodSlot /\ slots[s].rec \in GoodRec /\ slots[s].rec \in Rec
         /\ slots[s].used => slots[s].rec.id \in Ids
  BY DEF IInv, GoodSlot, GoodRec

\* Nothing but table, disk and queue counter changes.
LEMMA ScalarsKept ==
  ASSUME IInv, nextSeq' \in Nat \ {0}, UNCHANGED <<ready, gateVars, envVars>>,
         UNCHANGED <<pc, cur, have0, tok, out>>
  PROVE  Scalars'
  BY DEF IInv, Scalars, gateVars, envVars

LEMMA EnqueueNewKeeps ==
  ASSUME IInv, NEW id \in Ids, NEW hint \in {0, Size}, EnqueueNew(id, hint)
  PROVE  IInv'
  <1> DEFINE rec == [EmptyRec EXCEPT !.id = id, !.seq = nextSeq, !.total = hint, !.url = TRUE]
             new == [EmptySlot EXCEPT !.used = TRUE, !.rec = rec]
  <1>1. nextSeq \in Nat /\ hint \in 0..Size
    BY ConstantsAssumption DEF IInv, Scalars
  <1>2. rec \in GoodRec
    BY <1>1, EmptyIsGood DEF EmptyRec, GoodRec, Rec, Within
  <1>3. rec.state = "QUEUED" /\ rec.id = id
    BY DEF EmptyRec
  <1> HIDE DEF rec
  <1>4. new \in GoodSlot /\ ~new.active /\ ~new.removing /\ new.ctl = "NONE"
        /\ new.rec.state # "DOWNLOADING"
    BY <1>2, <1>3 DEF EmptySlot, GoodSlot, Ctls
  <1> HIDE DEF new
  <1>5. PICK s \in Slots : FirstFree(s) /\ slots' = [slots EXCEPT ![s] = new]
    BY DEF EnqueueNew, new, rec
  <1>6. ~slots[s].active
    BY <1>5 DEF FirstFree, Free, Used, IInv, OneTransfer
  <1>7. UNCHANGED <<pc, cur, r>>
    BY DEF EnqueueNew, workerVars
  <1>8. slots' \in [Slots -> GoodSlot] /\ OneTransfer' /\ WorkerRec'
    BY <1>4, <1>5, <1>6, <1>7, IdleSlot
  <1>9. disk' \in GoodDisk
    <2>1. [disk EXCEPT ![id] = [@ EXCEPT !.dir = TRUE]] \in GoodDisk
      BY DEF IInv, GoodDisk, GoodDir
    <2> QED
      BY <1>2, <2>1, SaveGood DEF EnqueueNew, rec
  <1>10. Scalars'
    BY <1>1, ScalarsKept DEF EnqueueNew, workerVars
  <1> QED
    BY <1>7, <1>8, <1>9, <1>10 DEF IInv

\* Nothing counts against a record that starts again.
LEMMA FirstAttempt ==
  /\ 0 \in 0..MaxAttempts /\ 0 < MaxAttempts /\ 0 < MediaMaxAttempts
  /\ "NONE" \in Errors /\ 0 \in 0..Size
  BY ConstantsAssumption DEF Errors

\* A record queued with a clean slate.
LEMMA QueuedAgain ==
  ASSUME NEW base \in Rec,
         NEW rec, rec = [base EXCEPT !.state = "QUEUED", !.err = "NONE", !.attempts = 0]
  PROVE  rec \in GoodRec /\ rec.state = "QUEUED" /\ rec.id = base.id
  <1>1. "QUEUED" \in States
    BY DEF States
  <1>2. rec \in Rec
    BY <1>1, FirstAttempt DEF Rec
  <1>3. rec.state = "QUEUED" /\ rec.id = base.id /\ rec.err = "NONE" /\ rec.attempts = 0
    BY DEF Rec
  <1> QED
    BY <1>2, <1>3, FirstAttempt DEF GoodRec, Within

\* Nothing vouches for the partial of a CORRUPT entry; the rest of its record
\* stays as it was.
LEMMA UnvouchedIs ==
  ASSUME NEW old \in Rec
  PROVE  /\ Unvouched(old) \in Rec
         /\ Unvouched(old).state = old.state
         /\ Unvouched(old).attempts = old.attempts
         /\ Unvouched(old).err = old.err
         /\ Unvouched(old).id = old.id
  <1>1. 0 \in 0..Size
    BY ConstantsAssumption
  <1>2. CASE old.err = "CORRUPT"
    BY <1>1, <1>2 DEF Unvouched, Rec
  <1>3. CASE old.err # "CORRUPT"
    BY <1>3 DEF Unvouched
  <1> QED
    BY <1>2, <1>3

LEMMA RequeueKeeps ==
  ASSUME IInv, NEW s \in Slots, Requeue(s)
  PROVE  IInv'
  <1> DEFINE old == slots[s].rec
             rec == [Unvouched(old) EXCEPT !.state = "QUEUED", !.err = "NONE",
                                           !.attempts = 0, !.url = TRUE]
  <1>1. s \in Visible /\ old.state # "DOWNLOADING" /\ old.id \in Ids
    BY SlotRecord DEF Requeue, Requeueable, Visible, Used
  <1>2. ~slots[s].active
    BY <1>1 DEF IInv, OneTransfer
  <1>3. old \in Rec
    BY SlotRecord
  <1>4. rec \in GoodRec /\ rec.state = "QUEUED" /\ rec.id = old.id
    <2> DEFINE base == [Unvouched(old) EXCEPT !.url = TRUE]
    <2>1. Unvouched(old) \in Rec
      BY <1>3, UnvouchedIs
    <2>2. base \in Rec /\ base.id = old.id
      BY <1>3, <2>1, UnvouchedIs DEF Rec
    <2>3. rec = [base EXCEPT !.state = "QUEUED", !.err = "NONE", !.attempts = 0]
      BY <2>1 DEF Rec
    <2> HIDE DEF base, rec
    <2> QED
      BY <2>2, <2>3, QueuedAgain
  <1>5. rec.state = "QUEUED"
    BY <1>4
  <1>6. slots' = [slots EXCEPT ![s] = [@ EXCEPT !.rec = rec, !.due = TRUE]]
        /\ disk' = Save(DropUnvouched(old), rec)
    BY DEF Requeue
  <1> HIDE DEF rec
  <1>7. UNCHANGED <<pc, cur, r>>
    BY DEF Requeue, workerVars
  <1>8. slots' \in [Slots -> GoodSlot] /\ OneTransfer' /\ WorkerRec'
    BY <1>1, <1>2, <1>4, <1>5, <1>6, <1>7, IdleRecord
  <1>9. disk' \in GoodDisk
    BY <1>4, <1>6, PartGood, SaveGood, ConstantsAssumption DEF DropUnvouched, IInv
  <1>10. Scalars'
    BY ScalarsKept DEF Requeue, workerVars, IInv, Scalars
  <1> QED
    BY <1>7, <1>8, <1>9, <1>10 DEF IInv

LEMMA RequeueRefusedKeeps ==
  ASSUME IInv, NEW s \in Slots, RequeueRefused(s)
  PROVE  IInv'
  <1> DEFINE rec == Unvouched(slots[s].rec)
  <1>1. s \in Visible /\ slots[s].rec.state = "FAILED" /\ slots[s].rec \in Rec
        /\ slots[s] \in GoodSlot /\ slots[s].rec.id \in Ids
    BY SlotRecord DEF RequeueRefused, Visible, Used
  <1>2. ~slots[s].active
    BY <1>1 DEF IInv, OneTransfer
  <1>3. rec \in GoodRec /\ rec.state = "FAILED" /\ rec.id \in Ids
    BY <1>1, UnvouchedIs DEF GoodRec, Within
  <1>4. slots' = [slots EXCEPT ![s] = [@ EXCEPT !.rec = rec, !.due = slots[s].due]]
    BY <1>1 DEF RequeueRefused, IInv, GoodSlot
  <1> HIDE DEF rec
  <1>5. slots[s].due \in BOOLEAN
    BY <1>1 DEF GoodSlot
  <1>6. UNCHANGED <<pc, cur, r>>
    BY DEF RequeueRefused, workerVars
  <1>7. slots' \in [Slots -> GoodSlot] /\ OneTransfer' /\ WorkerRec'
    BY <1>1, <1>2, <1>3, <1>4, <1>5, <1>6, IdleRecord
  <1>8. disk' \in GoodDisk
    BY PartGood, ConstantsAssumption DEF RequeueRefused, DropUnvouched, IInv
  <1>9. Scalars'
    BY ScalarsKept DEF RequeueRefused, workerVars, IInv, Scalars
  <1> QED
    BY <1>6, <1>7, <1>8, <1>9 DEF IInv

\* A call on the active item: only what is posted to it changes.
LEMMA PostKeeps ==
  ASSUME IInv, NEW s \in Slots, NEW ctl \in {"PAUSE", "CANCEL"}, Post(s, ctl)
  PROVE  IInv'
  <1> DEFINE new == [slots[s] EXCEPT !.ctl = ctl]
  <1>1. slots[s] \in GoodSlot /\ slots[s].active /\ slots[s].used /\ ~slots[s].removing
    BY SlotRecord DEF Post, Visible, Used
  <1>2. ctl \in Ctls /\ ctl # "REMOVE"
    BY DEF Ctls
  <1>3. new \in GoodSlot /\ new.used /\ new.active /\ new.rec = slots[s].rec
        /\ ~new.removing /\ new.ctl # "REMOVE"
    BY <1>1, <1>2 DEF GoodSlot
  <1>4. slots' = [slots EXCEPT ![s] = new]
    BY DEF Post
  <1> HIDE DEF new
  <1>5. UNCHANGED <<pc, cur, r>>
    BY DEF Post, workerVars
  <1>6. slots' \in [Slots -> GoodSlot] /\ OneTransfer' /\ WorkerRec'
    BY <1>1, <1>3, <1>4, <1>5, PostedSlot
  <1>7. Scalars'
    BY ScalarsKept DEF Post, workerVars, IInv, Scalars
  <1> QED
    BY <1>5, <1>6, <1>7 DEF Post, IInv

LEMMA WithdrawKeeps ==
  ASSUME IInv, NEW s \in Slots, Withdraw(s)
  PROVE  IInv'
  <1> DEFINE new == [slots[s] EXCEPT !.ctl = "NONE"]
  <1>1. slots[s] \in GoodSlot /\ slots[s].active /\ slots[s].used /\ ~slots[s].removing
    BY SlotRecord DEF Withdraw, Visible, Used
  <1>2. new \in GoodSlot /\ new.used /\ new.active /\ new.rec = slots[s].rec
        /\ ~new.removing /\ new.ctl # "REMOVE"
    BY <1>1 DEF GoodSlot, Ctls
  <1>3. slots' = [slots EXCEPT ![s] = new]
    BY DEF Withdraw
  <1> HIDE DEF new
  <1>4. UNCHANGED <<pc, cur, r>>
    BY DEF Withdraw, workerVars
  <1>5. slots' \in [Slots -> GoodSlot] /\ OneTransfer' /\ WorkerRec'
    BY <1>1, <1>2, <1>3, <1>4, PostedSlot
  <1>6. Scalars'
    BY ScalarsKept DEF Withdraw, workerVars, IInv, Scalars
  <1> QED
    BY <1>4, <1>5, <1>6 DEF Withdraw, IInv

LEMMA RemoveActiveKeeps ==
  ASSUME IInv, NEW s \in Slots, RemoveActive(s)
  PROVE  IInv'
  <1> DEFINE new == [slots[s] EXCEPT !.ctl = "REMOVE", !.removing = TRUE]
  <1>1. slots[s] \in GoodSlot /\ slots[s].active /\ slots[s].used
    BY SlotRecord DEF RemoveActive, Visible, Used
  <1>2. new \in GoodSlot /\ new.used /\ new.active /\ new.rec = slots[s].rec
        /\ new.removing /\ new.ctl = "REMOVE"
    BY <1>1 DEF GoodSlot, Ctls
  <1>3. slots' = [slots EXCEPT ![s] = new]
    BY DEF RemoveActive
  <1> HIDE DEF new
  <1>4. UNCHANGED <<pc, cur, r>>
    BY DEF RemoveActive, workerVars
  <1>5. slots' \in [Slots -> GoodSlot] /\ OneTransfer' /\ WorkerRec'
    BY <1>1, <1>2, <1>3, <1>4, PostedSlot
  <1>6. Scalars'
    BY ScalarsKept DEF RemoveActive, workerVars, IInv, Scalars
  <1> QED
    BY <1>4, <1>5, <1>6 DEF RemoveActive, IInv

LEMMA RemoveIdleKeeps ==
  ASSUME IInv, NEW s \in Slots, RemoveIdle(s)
  PROVE  IInv'
  <1>1. ~slots[s].active /\ slots' = [slots EXCEPT ![s] = EmptySlot]
    BY DEF RemoveIdle
  <1>2. ~EmptySlot.active /\ ~EmptySlot.removing /\ EmptySlot.ctl = "NONE"
        /\ EmptySlot.rec.state # "DOWNLOADING"
    BY DEF EmptySlot, EmptyRec
  <1>3. UNCHANGED <<pc, cur, r>>
    BY DEF RemoveIdle, workerVars
  <1>4. slots' \in [Slots -> GoodSlot] /\ OneTransfer' /\ WorkerRec'
    BY <1>1, <1>2, <1>3, EmptyIsGood, IdleSlot
  <1>5. disk' \in GoodDisk
    BY EmptyIsGood DEF RemoveIdle, IInv, GoodDisk
  <1>6. Scalars'
    BY ScalarsKept DEF RemoveIdle, workerVars, IInv, Scalars
  <1> QED
    BY <1>3, <1>4, <1>5, <1>6 DEF IInv

\* transition() on an idle item leaves a good record in the table and on disk.
LEMMA IdleTransitionKeeps ==
  ASSUME IInv, NEW s \in Slots, NEW ev,
         NEW rec \in GoodRec, rec.state # "DOWNLOADING", rec.id \in Ids,
         NEW due \in BOOLEAN, NEW d \in GoodDisk, IdleTransition(s, ev, rec, due, d)
  PROVE  IInv'
  <1>1. s \in Visible /\ ~slots[s].active
        /\ slots' = [slots EXCEPT ![s] = [@ EXCEPT !.rec = rec, !.due = due]]
        /\ disk' = Save(d, rec)
    BY DEF IdleTransition
  <1>2. UNCHANGED <<pc, cur, r>>
    BY DEF IdleTransition, workerVars
  <1>3. slots' \in [Slots -> GoodSlot] /\ OneTransfer' /\ WorkerRec'
    BY <1>1, <1>2, IdleRecord
  <1>4. disk' \in GoodDisk
    BY <1>1, SaveGood
  <1>5. Scalars'
    BY ScalarsKept DEF IdleTransition, workerVars, IInv, Scalars
  <1> QED
    BY <1>2, <1>3, <1>4, <1>5 DEF IInv

\* What a user's event makes of an idle item's record.
LEMMA MovedIs ==
  ASSUME IInv, NEW s \in Slots, ~slots[s].active,
         NEW ev \in {"PAUSE", "CANCEL", "RESUME", "RETRY"}, Legal(slots[s].rec.state, ev)
  PROVE  /\ Moved(s, ev) \in Rec
         /\ Moved(s, ev).id = slots[s].rec.id
         /\ Moved(s, ev).state # "DOWNLOADING"
         /\ ev \in {"PAUSE", "CANCEL"} => Moved(s, ev).state # "QUEUED"
  <1>1. slots[s].rec \in Rec /\ slots[s].rec.state # "DOWNLOADING"
    BY SlotRecord DEF IInv, OneTransfer
  <1> DEFINE st == Apply(slots[s].rec.state, ev)
  <1>2. ev \in Events /\ slots[s].rec.state \in States
    BY <1>1 DEF Events, Rec
  <1>3. st \in States /\ st # "DOWNLOADING" /\ (ev \in {"PAUSE", "CANCEL"} => st # "QUEUED")
    BY <1>1, <1>2, ApplyLegal
  <1> HIDE DEF st
  <1>4. Moved(s, ev) = [slots[s].rec EXCEPT !.state = st]
    BY <1>1 DEF Moved, st, Rec
  <1> QED
    BY <1>1, <1>3, <1>4 DEF Rec

LEMMA PauseIdleKeeps ==
  ASSUME IInv, NEW s \in Slots, PauseIdle(s)
  PROVE  IInv'
  <1>1. ~slots[s].active /\ Legal(slots[s].rec.state, "PAUSE")
    BY DEF PauseIdle, IdleTransition
  <1>2. Moved(s, "PAUSE") \in GoodRec /\ Moved(s, "PAUSE").state # "DOWNLOADING"
    BY <1>1, MovedIs DEF GoodRec, Within
  <1>3. slots[s].due \in BOOLEAN /\ Moved(s, "PAUSE").id \in Ids
    BY <1>1, SlotRecord, MovedIs DEF GoodSlot, PauseIdle, IdleTransition, Visible, Used
  <1>4. disk \in GoodDisk
    BY DEF IInv
  <1> QED
    BY <1>2, <1>3, <1>4, IdleTransitionKeeps DEF PauseIdle

LEMMA AgainKeeps ==
  ASSUME IInv, NEW s \in Slots, NEW ev \in {"RESUME", "RETRY"}, Again(s, ev)
  PROVE  IInv'
  <1> DEFINE base == Moved(s, ev)
             rec == [base EXCEPT !.err = "NONE", !.attempts = 0]
  <1>1. IdleTransition(s, ev, rec, TRUE, disk)
    BY DEF Again
  <1>2. base \in Rec /\ base.state # "DOWNLOADING" /\ base.id \in Ids
    BY <1>1, MovedIs, SlotRecord DEF IdleTransition, Visible, Used
  <1> HIDE DEF base
  <1>3. /\ rec \in Rec /\ rec.state = base.state /\ rec.id = base.id
        /\ rec.err = "NONE" /\ rec.attempts = 0
    BY <1>2, FirstAttempt DEF Rec
  <1> HIDE DEF rec
  <1>4. rec \in GoodRec
    BY <1>3, FirstAttempt DEF GoodRec, Within
  <1>5. disk \in GoodDisk
    BY DEF IInv
  <1> QED
    BY <1>1, <1>2, <1>3, <1>4, <1>5, IdleTransitionKeeps

LEMMA CancelIdleKeeps ==
  ASSUME IInv, NEW s \in Slots, CancelIdle(s)
  PROVE  IInv'
  <1> DEFINE base == Moved(s, "CANCEL")
             rec == [base EXCEPT !.done = 0, !.err = "NONE"]
             d == SetPart(disk, slots[s].rec.id, 0)
  <1>1. IdleTransition(s, "CANCEL", rec, slots[s].due, d)
    BY DEF CancelIdle
  <1>2. base \in Rec /\ base.state \notin {"DOWNLOADING", "QUEUED"} /\ base.id \in Ids
    BY <1>1, MovedIs, SlotRecord DEF IdleTransition, Visible, Used
  <1> HIDE DEF base
  <1>3. rec \in Rec /\ rec.state = base.state /\ rec.id = base.id
    BY <1>2, FirstAttempt DEF Rec
  <1> HIDE DEF rec
  <1>4. rec \in GoodRec
    BY <1>2, <1>3 DEF GoodRec, Within
  <1>5. d \in GoodDisk
    BY PartGood, FirstAttempt DEF IInv
  <1> HIDE DEF d
  <1>6. slots[s].due \in BOOLEAN
    BY SlotRecord DEF GoodSlot
  <1> QED
    BY <1>1, <1>2, <1>3, <1>4, <1>5, <1>6, IdleTransitionKeeps

\* Whatever the user asks for.
LEMMA UserCallKeeps ==
  ASSUME IInv, UserCall PROVE IInv'
  <1>1. CASE \E id \in Ids, hint \in Hints : EnqueueNew(id, hint)
    BY <1>1, EnqueueNewKeeps, ConstantsAssumption
  <1>2. ASSUME NEW s \in Slots,
               \/ Requeue(s) \/ RequeueRefused(s)
               \/ PauseIdle(s) \/ Again(s, "RESUME") \/ Again(s, "RETRY") \/ CancelIdle(s)
               \/ RemoveIdle(s)
               \/ Post(s, "PAUSE") \/ Post(s, "CANCEL") \/ Withdraw(s) \/ RemoveActive(s)
        PROVE  IInv'
    BY <1>2, RequeueKeeps, RequeueRefusedKeeps, PostKeeps, WithdrawKeeps, PauseIdleKeeps,
       AgainKeeps, CancelIdleKeeps, RemoveActiveKeeps, RemoveIdleKeeps
  <1> QED
    BY <1>1, <1>2 DEF UserCall, Calling

-----------------------------------------------------------------------------
(* The worker *)

\* The outcomes an attempt can end with are outcomes.
LEMMA EndIs ==
  ASSUME NEW kind \in {"DONE", "CTL", "SUSPENDED", "FAIL", "SPACE"}, NEW err \in Errors,
         NEW moved \in BOOLEAN, End(kind, err, moved)
  PROVE  out' \in Outcome /\ pc' = "finish"
  BY DEF End, Outcome

\* The errors the worker names.
LEMMA NamedErrors ==
  /\ {"NONE", "NO_SPACE", "DISK", "BAD_RESPONSE", "BAD_MEDIA"} \subseteq Errors
  /\ NetErrors \subseteq Errors
  BY ConstantsAssumption DEF Errors, TransientErrors, PermanentErrors

LEMMA MovesBool == ASSUME IInv PROVE Moves \in BOOLEAN
  BY DEF Moves, IInv, Scalars, GoodRec, Rec

\* A step inside attempt() that leaves the table alone and has nothing new in
\* the worker's record but its bytes.
LEMMA AttemptKeeps ==
  ASSUME IInv, InAttempt, InAttempt', UNCHANGED <<slots, cur>>,
         NEW done \in 0..Size, NEW total \in 0..Size,
         r' = [r EXCEPT !.done = done, !.total = total],
         Scalars', disk' \in GoodDisk
  PROVE  IInv'
  BY AttemptStep DEF IInv

\* The same with no change to the record at all.
LEMMA QuietKeeps ==
  ASSUME IInv, InAttempt, InAttempt', UNCHANGED <<slots, cur, r>>,
         Scalars', disk' \in GoodDisk
  PROVE  IInv'
  BY DEF IInv, OneTransfer, WorkerRec

LEMMA GateKeeps == ASSUME IInv, Gate PROVE IInv'
  <1> USE DEF Gate, tableVars, envVars
  <1>1. Scalars'
    BY DEF IInv, Scalars
  <1>2. OneTransfer' /\ WorkerRec'
    BY DEF IInv, OneTransfer, WorkerRec, InAttempt
  <1> QED
    BY <1>1, <1>2 DEF IInv

LEMMA NothingDueKeeps == ASSUME IInv, NothingDue PROVE IInv'
  <1> USE DEF NothingDue, tableVars, gateVars, envVars
  <1>1. Scalars'
    BY DEF IInv, Scalars
  <1>2. OneTransfer' /\ WorkerRec'
    BY DEF IInv, OneTransfer, WorkerRec, InAttempt
  <1> QED
    BY <1>1, <1>2 DEF IInv

LEMMA PickKeeps == ASSUME IInv, NEW s \in Slots, Pick(s) PROVE IInv'
  <1> DEFINE rec == Moved(s, "START")
             new == [slots[s] EXCEPT !.active = TRUE, !.ctl = "NONE", !.rec = rec]
  <1>1. pc = "pick" /\ s \in Visible /\ slots[s].rec.state = "QUEUED"
    BY DEF Pick, Pickable
  <1>2. slots[s] \in GoodSlot /\ slots[s].rec \in GoodRec /\ slots[s].used /\ ~slots[s].removing
    BY <1>1, SlotRecord DEF Visible, Used
  <1>3. rec = [slots[s].rec EXCEPT !.state = "DOWNLOADING"]
    BY <1>1, <1>2, ApplyIs DEF Moved, GoodRec, Rec
  <1>4. rec \in GoodRec /\ rec.state = "DOWNLOADING" /\ rec.id = slots[s].rec.id
    BY <1>1, <1>2, <1>3 DEF GoodRec, Rec, Within, States
  <1>5. slots' = [slots EXCEPT ![s] = new] /\ disk' = Save(disk, rec) /\ r' = rec
        /\ cur' = s /\ pc' = "start"
    BY DEF Pick
  <1> HIDE DEF rec
  <1>6. new \in GoodSlot /\ new.active /\ new.used /\ new.ctl = "NONE" /\ ~new.removing
        /\ new.rec = rec
    BY <1>2, <1>4 DEF GoodSlot, Ctls
  <1> HIDE DEF new
  <1>7. slots' \in [Slots -> GoodSlot] /\ slots'[s] = new
        /\ \A t \in Slots : t # s => slots'[t] = slots[t]
    BY <1>5, <1>6 DEF IInv
  <1>8. cur = 0 /\ s # 0
    BY <1>1, ConstantsAssumption DEF IInv, OneTransfer, InAttempt, Slots
  <1>9. OneTransfer'
    <2>1. InAttempt' /\ cur' # 0
      BY <1>5, <1>8 DEF InAttempt
    <2>2. ASSUME NEW t \in Slots
          PROVE  /\ slots'[t].active <=> t = cur'
                 /\ slots'[t].active => slots'[t].used /\ r'.id = slots'[t].rec.id
                 /\ slots'[t].rec.state = "DOWNLOADING" <=> t = cur'
                 /\ slots'[t].ctl # "NONE" => t = cur'
                 /\ slots'[t].removing <=> slots'[t].ctl = "REMOVE"
      <3>1. CASE t = s
        BY <1>4, <1>5, <1>6, <1>7, <3>1
      <3>2. CASE t # s
        BY <1>5, <1>7, <1>8, <3>2, ConstantsAssumption DEF IInv, OneTransfer, Slots
      <3> QED BY <3>1, <3>2
    <2> QED
      BY <2>1, <2>2 DEF OneTransfer
  <1>10. Scalars'
    BY <1>5 DEF Pick, gateVars, envVars, IInv, Scalars, Slots
  <1>11. disk' \in GoodDisk
    BY <1>4, <1>5, SaveGood DEF IInv
  <1> QED
    BY <1>4, <1>5, <1>7, <1>9, <1>10, <1>11 DEF IInv, WorkerRec

\* The item an attempt is about.
LEMMA CurrentItem ==
  ASSUME IInv, InAttempt
  PROVE  /\ cur \in Slots /\ slots[cur].used /\ slots[cur].active
         /\ slots[cur].rec.id = r.id /\ slots[cur] \in GoodSlot
         /\ r.id \in Ids /\ disk[r.id] \in GoodDir /\ disk \in GoodDisk
         /\ r \in GoodRec /\ r \in Rec /\ r.state = "DOWNLOADING"
  <1>1. cur \in Slots
    BY DEF IInv, Scalars, OneTransfer, Slots
  <1>2. slots[cur].active /\ slots[cur].used /\ r.id = slots[cur].rec.id
    BY <1>1 DEF IInv, OneTransfer
  <1>3. r.id \in Ids
    BY <1>1, <1>2, SlotRecord
  <1> QED
    BY <1>1, <1>2, <1>3 DEF IInv, GoodDisk, WorkerRec, GoodRec

\* The bytes of the record, given as an EXCEPT of both.
LEMMA BytesOf ==
  ASSUME NEW rec \in Rec, NEW n
  PROVE  /\ rec.done \in 0..Size /\ rec.total \in 0..Size
         /\ [rec EXCEPT !.done = n] = [rec EXCEPT !.done = n, !.total = rec.total]
         /\ [rec EXCEPT !.total = n] = [rec EXCEPT !.done = rec.done, !.total = n]
  BY DEF Rec

LEMMA AttemptStartKeeps == ASSUME IInv, AttemptStart PROVE IInv'
  <1> DEFINE part == disk[r.id].part
             keep == IF r.total > 0 /\ part > r.total THEN 0 ELSE part
  <1>1. InAttempt /\ InAttempt'
    BY DEF AttemptStart, InAttempt, SpaceRefused, End
  <1>2. part \in 0..Size
    BY <1>1, CurrentItem DEF GoodDir
  <1>3. keep \in 0..Size
    BY <1>2, FirstAttempt
  <1>4. disk' = SetPart(disk, r.id, keep) /\ r' = [r EXCEPT !.done = keep] /\ have0' = keep
    BY DEF AttemptStart
  <1> HIDE DEF keep
  <1>5. disk' \in GoodDisk
    BY <1>1, <1>3, <1>4, PartGood, CurrentItem
  <1>6. Scalars'
    <2>1. CASE SpaceRefused
      <3>1. out' \in Outcome /\ pc' = "finish"
        BY <2>1, NamedErrors, EndIs DEF SpaceRefused
      <3> QED
        BY <1>3, <1>4, <2>1, <3>1 DEF AttemptStart, SpaceRefused, IInv, Scalars, tableVars, envVars
    <2>2. CASE pc' = "connect" /\ UNCHANGED <<spaceHold, out>>
      BY <1>3, <1>4, <2>2 DEF AttemptStart, IInv, Scalars, tableVars, envVars
    <2> QED
      BY <2>1, <2>2 DEF AttemptStart
  <1>7. UNCHANGED <<slots, cur>>
    BY DEF AttemptStart, tableVars
  <1>8. r.total \in 0..Size /\ r' = [r EXCEPT !.done = keep, !.total = r.total]
    BY <1>1, <1>4, BytesOf, CurrentItem
  <1> QED
    BY <1>1, <1>3, <1>5, <1>6, <1>7, <1>8, AttemptKeeps

\* What a write that fails leaves in the file fits in it.
LEMMA BadWrite ==
  ASSUME IInv, InAttempt, NEW n \in AfterBadWrite
  PROVE  n \in 0..Size /\ r.done <= n /\ SetPart(disk, r.id, n) \in GoodDisk
  <1>1. r.done \in 0..Size /\ disk \in GoodDisk
    BY CurrentItem DEF Rec
  <1>2. n \in 0..Size /\ r.done <= n
    BY <1>1, ConstantsAssumption DEF AfterBadWrite
  <1> QED
    BY <1>1, <1>2, PartGood

\* The ends of a body before its time: the last write may have been a bad one.
BodyEnds == BodyStop \/ BodyFail \/ BodySpace

LEMMA BodyEndsIs ==
  ASSUME BodyEnds
  PROVE  /\ pc = "body" /\ InAttempt /\ UNCHANGED <<slots, cur, r, have0, lengthNamed>>
         /\ disk' = disk \/ \E n \in AfterBadWrite : disk' = SetPart(disk, r.id, n)
         /\ pc' = "finish" /\ out'.kind # "DONE"
  <1>1. CASE BodyStop
    BY <1>1 DEF BodyStop, StopKind, End, InAttempt, tableVars, envVars
  <1>2. CASE BodyFail
    BY <1>2 DEF BodyFail, End, InAttempt, tableVars, envVars
  <1>3. CASE BodySpace
    BY <1>3 DEF BodySpace, End, InAttempt, tableVars, envVars
  <1> QED
    BY <1>1, <1>2, <1>3 DEF BodyEnds

\* The steps that leave the record alone.
LEMMA QuietSteps ==
  ASSUME IInv, Connect \/ HeadStop \/ HeadFail \/ HeadRefused \/ VerifyEmpty \/ BodyEnds
  PROVE  IInv'
  <1>1. /\ InAttempt /\ InAttempt' /\ UNCHANGED <<slots, cur, r>>
        /\ disk' = disk \/ BodyEnds
    BY BodyEndsIs DEF Connect, HeadStop, HeadFail, HeadRefused, VerifyEmpty, End, InAttempt,
       tableVars
  <1>2. out' \in Outcome /\ pc' \in {"head", "finish"}
    <2>1. \A status \in Nat : ErrorForStatus(status) \in Errors
      BY StatusError
    <2>2. 401 \in Nat /\ Statuses \subseteq Nat
      BY ConstantsAssumption
    <2>3. StopKind \in {"CTL", "SUSPENDED"}
      BY DEF StopKind
    <2>4. out \in Outcome
      BY DEF IInv, Scalars
    <2>5. CASE Connect
      BY <2>4, <2>5, NamedErrors, EndIs DEF Connect
    <2>6. CASE HeadStop \/ HeadFail \/ VerifyEmpty
      BY <2>3, <2>6, NamedErrors, EndIs DEF HeadStop, HeadFail, VerifyEmpty
    <2>7. CASE HeadRefused
      BY <2>1, <2>2, <2>7, EndIs DEF HeadRefused
    <2>8. CASE BodyEnds
      BY <2>3, <2>8, NamedErrors, MovesBool, EndIs DEF BodyEnds, BodyStop, BodyFail, BodySpace
    <2> QED
      BY <2>5, <2>6, <2>7, <2>8
  <1>3. Scalars'
    BY <1>1, <1>2 DEF Connect, HeadStop, HeadFail, HeadRefused, VerifyEmpty, BodyEnds, BodyStop,
       BodyFail, BodySpace, tableVars, gateVars, envVars, IInv, Scalars
  <1>4. disk' \in GoodDisk
    BY <1>1, BodyEndsIs, BadWrite DEF IInv
  <1> QED
    BY <1>1, <1>3, <1>4, QuietKeeps

\* What the server names as the length of the body is a length.
LEMMA WholeLength == \A total \in WholeLengths : total \in {0, Size} /\ total \in 0..Size
  BY ConstantsAssumption DEF WholeLengths

LEMMA HeadUncutKeeps == ASSUME IInv, HeadUncut PROVE IInv'
  <1>1. InAttempt /\ InAttempt' /\ UNCHANGED <<slots, cur, disk>>
    BY DEF HeadUncut, End, InAttempt, tableVars
  <1>2. PICK total \in WholeLengths : r' = [r EXCEPT !.total = total]
    BY DEF HeadUncut
  <1>3. r.done \in 0..Size /\ r' = [r EXCEPT !.done = r.done, !.total = total]
    BY <1>1, <1>2, BytesOf, CurrentItem
  <1>4. out' \in Outcome /\ pc' = "finish"
    BY NamedErrors, EndIs DEF HeadUncut
  <1>5. Scalars' /\ disk' \in GoodDisk
    BY <1>1, <1>4 DEF HeadUncut, tableVars, gateVars, envVars, IInv, Scalars
  <1> QED
    BY <1>1, <1>3, <1>5, WholeLength, AttemptKeeps

\* A body that is all here: the head says so, or its end has come.
LEMMA CompleteKeeps == ASSUME IInv, HeadComplete \/ BodyEnd PROVE IInv'
  <1>1. InAttempt /\ InAttempt' /\ UNCHANGED <<slots, cur, disk>>
    BY DEF HeadComplete, BodyEnd, InAttempt, tableVars
  <1>2. r \in Rec
    BY <1>1, CurrentItem
  <1>3. r.done \in 0..Size /\ r' = [r EXCEPT !.done = r.done, !.total = r.done]
    BY <1>2, BytesOf DEF HeadComplete, BodyEnd
  <1>4. Scalars' /\ disk' \in GoodDisk
    BY <1>1 DEF HeadComplete, BodyEnd, tableVars, gateVars, envVars, IInv, Scalars
  <1> QED
    BY <1>1, <1>3, <1>4, AttemptKeeps

\* Bytes that turned out to be useless.
LEMMA DiscardKeeps == ASSUME IInv, HeadInconsistent \/ VerifyBad PROVE IInv'
  <1>1. InAttempt /\ InAttempt' /\ UNCHANGED <<slots, cur>>
        /\ disk' = SetPart(disk, r.id, 0) /\ r' = [r EXCEPT !.done = 0]
    BY DEF HeadInconsistent, VerifyBad, InAttempt, End, tableVars
  <1>2. r \in Rec
    BY <1>1, CurrentItem
  <1>3. r.total \in 0..Size /\ r' = [r EXCEPT !.done = 0, !.total = r.total]
    BY <1>1, <1>2, BytesOf
  <1>4. disk' \in GoodDisk
    BY <1>1, FirstAttempt, PartGood, CurrentItem
  <1>5. out' \in Outcome /\ pc' = "finish"
    BY NamedErrors, EndIs DEF HeadInconsistent, VerifyBad
  <1>6. Scalars'
    BY <1>5 DEF HeadInconsistent, VerifyBad, tableVars, gateVars, envVars, IInv, Scalars
  <1> QED
    BY <1>1, <1>3, <1>4, <1>6, FirstAttempt, AttemptKeeps

LEMMA VerifyGoodKeeps == ASSUME IInv, VerifyGood PROVE IInv'
  <1>1. InAttempt /\ InAttempt' /\ UNCHANGED <<slots, cur, r>>
    BY DEF VerifyGood, InAttempt, tableVars
  <1>2. Scalars'
    BY DEF VerifyGood, tableVars, gateVars, envVars, IInv, Scalars
  <1>3. disk' \in GoodDisk
    BY FirstAttempt DEF VerifyGood, IInv, GoodDisk, GoodDir
  <1> QED
    BY <1>1, <1>2, <1>3, QuietKeeps

LEMMA RenameKeeps == ASSUME IInv, Rename PROVE IInv'
  <1>1. InAttempt /\ InAttempt' /\ UNCHANGED <<slots, cur, r>>
    BY DEF Rename, End, InAttempt, tableVars
  <1>2. out' \in Outcome /\ pc' = "finish"
    BY NamedErrors, MovesBool, EndIs DEF Rename
  <1>3. Scalars'
    BY <1>2 DEF Rename, tableVars, gateVars, envVars, IInv, Scalars
  <1>4. disk' \in GoodDisk
    <2>1. disk \in GoodDisk /\ disk[r.id] \in GoodDir /\ r.id \in Ids
      BY <1>1, CurrentItem
    <2>2. [disk[r.id] EXCEPT !.media = disk[r.id].part, !.part = 0] \in GoodDir
      BY <2>1, FirstAttempt DEF GoodDir
    <2> QED
      BY <2>1, <2>2 DEF Rename, GoodDisk
  <1> QED
    BY <1>1, <1>3, <1>4, QuietKeeps

LEMMA HeadBodyKeeps ==
  ASSUME IInv, NEW rec, HeadBody(rec),
         NEW done \in 0..Size, NEW total \in 0..Size,
         rec = [r EXCEPT !.done = done, !.total = total]
  PROVE  IInv'
  <1> DEFINE d == SetPart(disk, r.id, rec.done)
  <1>1. InAttempt /\ InAttempt' /\ cur' = cur /\ r' = rec
    BY DEF HeadBody, SpaceRefused, End, InAttempt
  <1>2. r \in Rec /\ r \in GoodRec
    BY <1>1, CurrentItem
  <1>3. rec \in GoodRec /\ rec.id = r.id /\ rec.state = r.state /\ rec.done \in 0..Size
    BY <1>2 DEF GoodRec, Rec, Within
  <1>4. d \in GoodDisk
    BY <1>1, <1>3, PartGood, CurrentItem
  <1> HIDE DEF d
  <1>5. CASE disk' = d /\ SpaceRefused /\ UNCHANGED slots
    <2>1. out' \in Outcome /\ pc' = "finish"
      BY <1>5, NamedErrors, EndIs DEF SpaceRefused
    <2>2. Scalars'
      BY <1>5, <2>1 DEF HeadBody, SpaceRefused, envVars, IInv, Scalars
    <2> QED
      BY <1>1, <1>4, <1>5, <2>2, AttemptKeeps
  <1>6. CASE slots' = Published(rec) /\ disk' = Save(d, Published(rec)[cur].rec)
             /\ pc' = "body" /\ UNCHANGED <<spaceHold, out>>
    <2>1. slots' \in [Slots -> GoodSlot] /\ slots'[cur].rec \in GoodRec /\ OneTransfer' /\ WorkerRec'
      BY <1>1, <1>3, <1>6, PublishStep
    <2>2. disk' \in GoodDisk
      BY <1>4, <1>6, <2>1, SaveGood
    <2>3. Scalars'
      BY <1>6 DEF HeadBody, envVars, IInv, Scalars
    <2> QED
      BY <1>1, <1>3, <2>1, <2>2, <2>3 DEF IInv
  <1>7. CASE disk' = d /\ End("FAIL", "DISK", FALSE) /\ UNCHANGED <<slots, spaceHold>>
    <2>1. out' \in Outcome /\ pc' = "finish"
      BY <1>7, NamedErrors, EndIs
    <2>2. Scalars'
      BY <1>7, <2>1 DEF HeadBody, envVars, IInv, Scalars
    <2> QED
      BY <1>1, <1>4, <1>7, <2>2, AttemptKeeps
  <1> QED
    BY <1>5, <1>6, <1>7 DEF HeadBody, d

LEMMA HeadKeeps == ASSUME IInv, HeadPartial \/ HeadWhole PROVE IInv'
  <1>1. r \in Rec
    BY CurrentItem DEF HeadPartial, HeadWhole, HeadBody, InAttempt
  <1>2. Size \in 0..Size /\ 0 \in 0..Size
    BY ConstantsAssumption
  <1>3. CASE HeadPartial
    <2>1. r.done \in 0..Size
          /\ [r EXCEPT !.total = Size] = [r EXCEPT !.done = r.done, !.total = Size]
      BY <1>1, BytesOf
    <2> QED
      BY <1>2, <1>3, <2>1, HeadBodyKeeps DEF HeadPartial
  <1>4. CASE HeadWhole
    BY <1>2, <1>4, WholeLength, HeadBodyKeeps DEF HeadWhole
  <1> QED
    BY <1>3, <1>4

LEMMA BodyRecvKeeps == ASSUME IInv, BodyRecv PROVE IInv'
  <1> DEFINE d == SetPart(disk, r.id, r'.done)
  <1>1. InAttempt /\ InAttempt' /\ cur' = cur /\ r' = [r EXCEPT !.done = @ + 1] /\ r.done < Size
    BY DEF BodyRecv, InAttempt
  <1>2. r \in Rec /\ r \in GoodRec
    BY <1>1, CurrentItem
  <1>3. r.done + 1 \in 0..Size /\ r.total \in 0..Size
    BY <1>1, <1>2, ConstantsAssumption DEF Rec
  <1>4. r' = [r EXCEPT !.done = r.done + 1, !.total = r.total]
    BY <1>1, <1>2, BytesOf
  <1>5. r' \in GoodRec /\ r'.id = r.id /\ r'.state = r.state /\ r'.done \in 0..Size
    BY <1>1, <1>2, <1>3 DEF GoodRec, Rec, Within
  <1>6. d \in GoodDisk
    BY <1>1, <1>5, PartGood, CurrentItem
  <1> HIDE DEF d
  <1>7. Scalars'
    BY DEF BodyRecv, gateVars, envVars, IInv, Scalars
  <1>8. CASE slots' = Published(r') /\ (disk' = Save(d, slots'[cur].rec) \/ disk' = d)
    <2>1. slots' \in [Slots -> GoodSlot] /\ slots'[cur].rec \in GoodRec /\ OneTransfer' /\ WorkerRec'
      BY <1>1, <1>5, <1>8, PublishStep
    <2>2. disk' \in GoodDisk
      BY <1>6, <1>8, <2>1, SaveGood
    <2> QED
      BY <1>5, <1>7, <2>1, <2>2 DEF IInv
  <1>9. CASE slots' = slots /\ disk' = d
    BY <1>1, <1>3, <1>4, <1>6, <1>7, <1>9, AttemptKeeps
  <1> QED
    BY <1>8, <1>9 DEF BodyRecv, d

\* finish() with any good record that no longer transfers.
LEMMA SettleKeeps ==
  ASSUME IInv, InAttempt, pc' = "idle", cur' = 0, r' = EmptyRec,
         NEW rec \in GoodRec, rec.state # "DOWNLOADING", rec.id = r.id,
         NEW due \in BOOLEAN, NEW d \in GoodDisk,
         Ctl # "REMOVE", Settle(rec, due, d)
  PROVE  /\ slots' \in [Slots -> GoodSlot]
         /\ OneTransfer' /\ WorkerRec'
         /\ disk' \in GoodDisk
  <1> DEFINE new == [slots[cur] EXCEPT !.active = FALSE, !.ctl = "NONE", !.due = due, !.rec = rec]
  <1>1. slots[cur] \in GoodSlot /\ cur \in Slots /\ r.id \in Ids
    BY CurrentItem
  <1>2. ~slots[cur].removing
    BY <1>1 DEF Ctl, IInv, OneTransfer
  <1>3. new \in GoodSlot /\ ~new.active /\ ~new.removing /\ new.ctl = "NONE" /\ new.rec = rec
    BY <1>1, <1>2 DEF GoodSlot, Ctls
  <1>4. slots' = [slots EXCEPT ![cur] = new]
    BY DEF Settle
  <1> HIDE DEF new
  <1>5. slots' \in [Slots -> GoodSlot] /\ OneTransfer' /\ WorkerRec'
    BY <1>3, <1>4, FinishSlot
  <1>6. disk' \in GoodDisk
    BY SaveGood DEF Settle
  <1> QED
    BY <1>5, <1>6

\* The count of failures after this one.
LEMMA AttemptsNowIs ==
  ASSUME IInv, InAttempt
  PROVE  /\ AttemptsNow \in 0..MaxAttempts
         /\ out.err = "AUTH" => AttemptsNow < MaxAttempts
         /\ AttemptsNow < AttemptsLimit =>
              AttemptsNow < MaxAttempts /\ (out.err = "BAD_MEDIA" => AttemptsNow < MediaMaxAttempts)
  <1>1. r.attempts \in 0..MaxAttempts /\ r.attempts < MaxAttempts
    BY CurrentItem DEF GoodRec, Rec, Within
  <1>2. MaxAttempts \in Nat \ {0} /\ MediaMaxAttempts \in 1..MaxAttempts
    BY ConstantsAssumption
  <1>3. ~Retryable("AUTH")
    BY DEF Retryable, TransientErrors
  <1> DEFINE n == AttemptsNow
  <1>4. n \in {r.attempts, 1, r.attempts + 1}
    BY DEF AttemptsNow
  <1>5. out.err = "AUTH" => n = r.attempts
    BY <1>3 DEF AttemptsNow
  <1> HIDE DEF n
  <1>6. n \in 0..MaxAttempts
    BY <1>1, <1>2, <1>4
  <1>7. ASSUME n < AttemptsLimit
        PROVE  n < MaxAttempts /\ (out.err = "BAD_MEDIA" => n < MediaMaxAttempts)
    <2>1. CASE out.err = "BAD_MEDIA"
      BY <1>2, <1>6, <1>7, <2>1 DEF AttemptsLimit
    <2>2. CASE out.err # "BAD_MEDIA"
      BY <1>7, <2>2 DEF AttemptsLimit
    <2> QED BY <2>1, <2>2
  <1> QED
    BY <1>1, <1>5, <1>6, <1>7 DEF n

\* The record a failed attempt leaves.
LEMMA FailedIs ==
  ASSUME IInv, InAttempt, NEW ev \in {"FAIL_RETRY", "FAIL"}
  PROVE  /\ Failed(ev).state = Apply("DOWNLOADING", ev) /\ Failed(ev).state # "DOWNLOADING"
         /\ Failed(ev).id = r.id
         /\ ev = "FAIL" => Failed(ev) \in GoodRec
         /\ AttemptsNow < MaxAttempts /\ (out.err = "BAD_MEDIA" => AttemptsNow < MediaMaxAttempts)
              => Failed(ev) \in GoodRec
  <1> DEFINE st == Apply("DOWNLOADING", ev)
             rec == [r EXCEPT !.state = st, !.err = out.err, !.attempts = AttemptsNow]
  <1>1. r \in Rec /\ r.state = "DOWNLOADING" /\ AttemptsNow \in 0..MaxAttempts
    BY CurrentItem, AttemptsNowIs
  <1>2. out.err \in Errors
    BY DEF IInv, Scalars, Outcome
  <1>3. st \in States /\ st # "DOWNLOADING" /\ (ev = "FAIL" => st = "FAILED")
    BY ApplyIs DEF States
  <1> HIDE DEF st
  <1>4. Failed(ev) = rec
    BY <1>1 DEF Failed, st
  <1>5. /\ rec \in Rec /\ rec.state = st /\ rec.id = r.id
        /\ rec.err = out.err /\ rec.attempts = AttemptsNow
    BY <1>1, <1>2, <1>3 DEF Rec
  <1> HIDE DEF rec
  <1>6. ev = "FAIL" => rec \in GoodRec
    BY <1>3, <1>5 DEF GoodRec, Within
  <1>7. AttemptsNow < MaxAttempts /\ (out.err = "BAD_MEDIA" => AttemptsNow < MediaMaxAttempts)
          => rec \in GoodRec
    BY <1>5 DEF GoodRec, Within
  <1> QED
    BY <1>3, <1>4, <1>5, <1>6, <1>7 DEF st

\* A record an attempt leaves with its bytes and its errors as they stand.
LEMMA SettledRecord ==
  ASSUME IInv, InAttempt, NEW ev \in {"COMPLETE", "CANCEL", "PAUSE", "INTERRUPTED"},
         NEW err \in Errors, NEW done \in 0..Size, NEW rec,
         \/ /\ ev = "COMPLETE"
            /\ rec = [r EXCEPT !.state = Apply(@, ev), !.err = err, !.attempts = 0]
         \/ ev = "CANCEL" /\ rec = [r EXCEPT !.state = Apply(@, ev), !.done = done, !.err = err]
         \/ ev = "PAUSE" /\ rec = [r EXCEPT !.state = Apply(@, ev)]
         \/ ev = "PAUSE" /\ rec = [r EXCEPT !.state = Apply(@, ev), !.err = err]
         \/ ev = "INTERRUPTED" /\ rec = [r EXCEPT !.state = Apply(@, ev)]
  PROVE  rec \in GoodRec /\ rec.state # "DOWNLOADING" /\ rec.id = r.id
  <1>1. r \in Rec /\ r \in GoodRec /\ r.state = "DOWNLOADING"
    BY CurrentItem
  <1>2. {"COMPLETED", "CANCELLED", "PAUSED", "QUEUED"} \subseteq States
    BY DEF States
  <1> DEFINE st == Apply("DOWNLOADING", ev)
  <1>3. st \in States /\ st # "DOWNLOADING" /\ (ev # "INTERRUPTED" => st # "QUEUED")
    BY <1>2, ApplyIs
  <1> HIDE DEF st
  <1>4. CASE ev = "COMPLETE"
    <2>1. rec = [r EXCEPT !.state = st, !.err = err, !.attempts = 0]
      BY <1>1, <1>4 DEF st
    <2>2. rec \in Rec /\ rec.state = st /\ rec.id = r.id
      BY <1>1, <1>3, <2>1, FirstAttempt DEF Rec
    <2> QED BY <1>3, <1>4, <2>2 DEF GoodRec, Within
  <1>5. CASE ev = "CANCEL"
    <2>1. rec = [r EXCEPT !.state = st, !.done = done, !.err = err]
      BY <1>1, <1>5 DEF st
    <2>2. rec \in Rec /\ rec.state = st /\ rec.id = r.id
      BY <1>1, <1>3, <2>1 DEF Rec
    <2> QED BY <1>3, <1>5, <2>2 DEF GoodRec, Within
  <1>6. CASE ev = "PAUSE"
    <2>1. rec = [r EXCEPT !.state = st] \/ rec = [r EXCEPT !.state = st, !.err = err]
      BY <1>1, <1>6 DEF st
    <2>2. rec \in Rec /\ rec.state = st /\ rec.id = r.id
      BY <1>1, <1>3, <2>1 DEF Rec
    <2> QED BY <1>3, <1>6, <2>2 DEF GoodRec, Within
  <1>7. CASE ev = "INTERRUPTED"
    <2>1. rec = [r EXCEPT !.state = st]
      BY <1>1, <1>7 DEF st
    <2>2. rec \in Rec /\ rec.state = st /\ rec.id = r.id
          /\ rec.attempts = r.attempts /\ rec.err = r.err
      BY <1>1, <1>3, <2>1 DEF Rec
    <2> QED BY <1>1, <1>3, <2>2 DEF GoodRec, Within
  <1> QED
    BY <1>4, <1>5, <1>6, <1>7

LEMMA FinishKeeps == ASSUME IInv, Finish PROVE IInv'
  <1>1. InAttempt /\ pc' = "idle" /\ cur' = 0 /\ r' = EmptyRec
    BY DEF Finish, InAttempt
  <1>2. disk \in GoodDisk /\ out.err \in Errors /\ slots[cur].due \in BOOLEAN /\ 0 \in 0..Size
    BY <1>1, CurrentItem, FirstAttempt DEF GoodSlot, IInv, Scalars, Outcome
  <1>3. {"NONE"} \subseteq Errors
    BY NamedErrors
  <1> DEFINE Kept == slots' \in [Slots -> GoodSlot] /\ OneTransfer' /\ WorkerRec'
                     /\ disk' \in GoodDisk
  <1>4. ASSUME FinishRemoved PROVE Kept
    <2>1. ~EmptySlot.active /\ ~EmptySlot.removing /\ EmptySlot.ctl = "NONE"
          /\ EmptySlot.rec.state # "DOWNLOADING"
      BY DEF EmptySlot, EmptyRec
    <2>2. slots' \in [Slots -> GoodSlot] /\ OneTransfer' /\ WorkerRec'
      BY <1>1, <1>4, <2>1, EmptyIsGood, FinishSlot DEF FinishRemoved
    <2>3. disk' \in GoodDisk
      BY <1>2, <1>4, EmptyIsGood DEF FinishRemoved, GoodDisk
    <2> QED BY <2>2, <2>3
  <1>5. ASSUME FinishDone PROVE Kept
    <2> DEFINE rec == [r EXCEPT !.state = Apply(@, "COMPLETE"), !.err = "NONE", !.attempts = 0]
    <2>1. Ctl # "REMOVE" /\ Settle(rec, slots[cur].due, disk)
      BY <1>5 DEF FinishDone
    <2> HIDE DEF rec
    <2>2. rec \in GoodRec /\ rec.state # "DOWNLOADING" /\ rec.id = r.id
      BY <1>1, <1>2, <1>3, SettledRecord DEF rec
    <2> QED BY <1>1, <1>2, <2>1, <2>2, SettleKeeps
  <1>6. ASSUME FinishCancelled PROVE Kept
    <2> DEFINE rec == [r EXCEPT !.state = Apply(@, "CANCEL"), !.done = 0, !.err = "NONE"]
               d == SetPart(disk, r.id, 0)
    <2>1. Ctl # "REMOVE" /\ Settle(rec, slots[cur].due, d)
      BY <1>6 DEF FinishCancelled
    <2>2. d \in GoodDisk
      BY <1>2, PartGood
    <2> HIDE DEF rec, d
    <2>3. rec \in GoodRec /\ rec.state # "DOWNLOADING" /\ rec.id = r.id
      BY <1>1, <1>2, <1>3, SettledRecord DEF rec
    <2> QED BY <1>1, <1>2, <2>1, <2>2, <2>3, SettleKeeps
  <1>7. ASSUME FinishPaused PROVE Kept
    <2> DEFINE rec == [r EXCEPT !.state = Apply(@, "PAUSE")]
    <2>1. Ctl # "REMOVE" /\ Settle(rec, slots[cur].due, disk)
      BY <1>7 DEF FinishPaused
    <2> HIDE DEF rec
    <2>2. rec \in GoodRec /\ rec.state # "DOWNLOADING" /\ rec.id = r.id
      BY <1>1, <1>2, <1>3, SettledRecord DEF rec
    <2> QED BY <1>1, <1>2, <2>1, <2>2, SettleKeeps
  <1>8. ASSUME FinishSpace PROVE Kept
    <2> DEFINE rec == [r EXCEPT !.state = Apply(@, "PAUSE"), !.err = out.err]
    <2>1. Ctl # "REMOVE" /\ Settle(rec, TRUE, disk)
      BY <1>8 DEF FinishSpace
    <2> HIDE DEF rec
    <2>2. rec \in GoodRec /\ rec.state # "DOWNLOADING" /\ rec.id = r.id
      BY <1>1, <1>2, SettledRecord DEF rec
    <2> QED BY <1>1, <1>2, <2>1, <2>2, SettleKeeps
  <1>9. ASSUME FinishSuspended PROVE Kept
    <2> DEFINE rec == [r EXCEPT !.state = Apply(@, "INTERRUPTED")]
    <2>1. Ctl # "REMOVE" /\ Settle(rec, TRUE, disk)
      BY <1>9 DEF FinishSuspended
    <2> HIDE DEF rec
    <2>2. rec \in GoodRec /\ rec.state # "DOWNLOADING" /\ rec.id = r.id
      BY <1>1, <1>2, <1>3, SettledRecord DEF rec
    <2> QED BY <1>1, <1>2, <2>1, <2>2, SettleKeeps
  <1>10. ASSUME FinishAuth PROVE Kept
    <2>1. Failed("FAIL_RETRY") \in GoodRec /\ Failed("FAIL_RETRY").state # "DOWNLOADING"
          /\ Failed("FAIL_RETRY").id = r.id
      BY <1>1, <1>10, AttemptsNowIs, FailedIs DEF FinishAuth
    <2> QED BY <1>1, <1>2, <1>10, <2>1, SettleKeeps DEF FinishAuth
  <1>11. ASSUME FinishRetry PROVE Kept
    <2>1. Failed("FAIL_RETRY") \in GoodRec /\ Failed("FAIL_RETRY").state # "DOWNLOADING"
          /\ Failed("FAIL_RETRY").id = r.id
      BY <1>1, <1>11, AttemptsNowIs, FailedIs DEF FinishRetry
    <2> QED BY <1>1, <1>2, <1>11, <2>1, SettleKeeps DEF FinishRetry
  <1>12. ASSUME FinishFailed PROVE Kept
    <2>1. Failed("FAIL") \in GoodRec /\ Failed("FAIL").state # "DOWNLOADING"
          /\ Failed("FAIL").id = r.id
      BY <1>1, FailedIs
    <2> QED BY <1>1, <1>2, <1>12, <2>1, SettleKeeps DEF FinishFailed
  <1>13. Kept
    BY <1>4, <1>5, <1>6, <1>7, <1>8, <1>9, <1>10, <1>11, <1>12 DEF Finish
  <1>14. authHold' \in BOOLEAN
    BY DEF Finish, FinishRemoved, FinishDone, FinishCancelled, FinishPaused, FinishSpace,
       FinishSuspended, FinishAuth, FinishRetry, FinishFailed, IInv, Scalars
  <1>15. Scalars'
    <2>1. NoOutcome \in Outcome
      BY NamedErrors DEF NoOutcome, Outcome
    <2>2. 0 \in 0..NSlots /\ 0 \in 0..MaxToken
      BY ConstantsAssumption
    <2> QED
      BY <1>1, <1>2, <1>14, <2>1, <2>2 DEF Finish, envVars, IInv, Scalars
  <1>16. r' \in GoodRec
    BY <1>1, EmptyIsGood
  <1> QED
    BY <1>13, <1>15, <1>16 DEF IInv

LEMMA WorkerKeeps == ASSUME IInv, Worker PROVE IInv'
  BY GateKeeps, PickKeeps, NothingDueKeeps, AttemptStartKeeps, QuietSteps, CompleteKeeps,
     DiscardKeeps, HeadKeeps, HeadUncutKeeps, BodyRecvKeeps, VerifyGoodKeeps, RenameKeeps,
     FinishKeeps
  DEF Worker, BodyEnds

-----------------------------------------------------------------------------
(* Restore *)

\* What restore_one makes of a directory is a good record of an item, and none
\* that transfers.
LEMMA RestoredIs ==
  ASSUME IInv, NEW id \in Ids, NEW seq \in Nat, NEW known
  PROVE  /\ Restored(id, seq, known) \in GoodRec
         /\ Restored(id, seq, known).id \in Ids
         /\ Restored(id, seq, known).state # "DOWNLOADING"
  <1> DEFINE rec == disk[id].rec
             media == disk[id].media
             part == disk[id].part
  <1>1. /\ rec \in Rec /\ rec \in GoodRec /\ media \in 0..Size /\ part \in 0..Size
        /\ disk[id].saved \in BOOLEAN /\ (disk[id].saved => rec.id \in Ids)
    BY DEF IInv, GoodDisk, GoodDir, GoodRec
  <1>2. {"COMPLETED", "FAILED", "QUEUED"} \subseteq States /\ {"NONE", "CORRUPT"} \subseteq Errors
    BY DEF States, Errors, PermanentErrors
  <1>3. KeptPart(id) \in 0..Size
    BY <1>1, FirstAttempt DEF KeptPart
  <1>4. CASE ~disk[id].saved
    <2> DEFINE base == [EmptyRec EXCEPT !.id = id, !.seq = seq]
    <2>1. base \in Rec /\ base.id = id
      BY EmptyIsGood DEF EmptyRec, GoodRec, Rec
    <2>2. Restored(id, seq, known) = Rebuilt(id, seq, known)
      BY <1>4 DEF Restored
    <2>3. Rebuilt(id, seq, known) \in
            {[base EXCEPT !.state = "COMPLETED", !.done = media, !.total = media],
             [base EXCEPT !.state = "FAILED", !.err = "CORRUPT", !.done = part]}
      BY DEF Rebuilt
    <2> HIDE DEF base, media, part
    <2>4. /\ Rebuilt(id, seq, known) \in Rec /\ Rebuilt(id, seq, known).id = id
          /\ Rebuilt(id, seq, known).state \in {"COMPLETED", "FAILED"}
      <3>1. CASE Rebuilt(id, seq, known) = [base EXCEPT !.state = "COMPLETED", !.done = media, !.total = media]
        BY <1>1, <1>2, <2>1, <3>1 DEF Rec
      <3>2. CASE Rebuilt(id, seq, known) = [base EXCEPT !.state = "FAILED", !.err = "CORRUPT", !.done = part]
        BY <1>1, <1>2, <2>1, <3>2 DEF Rec
      <3> QED BY <2>3, <3>1, <3>2
    <2> QED
      BY <2>2, <2>4 DEF GoodRec, Within
  <1>5. CASE disk[id].saved /\ MediaWhole(id)
    <2>1. Restored(id, seq, known) = [rec EXCEPT !.state = "COMPLETED", !.err = "NONE",
                                          !.done = media, !.total = media]
      BY <1>5 DEF Restored
    <2> HIDE DEF rec, media
    <2>2. /\ Restored(id, seq, known) \in Rec /\ Restored(id, seq, known).id = rec.id
          /\ Restored(id, seq, known).state = "COMPLETED"
      BY <1>1, <1>2, <2>1 DEF Rec
    <2> QED
      BY <1>1, <1>5, <2>2 DEF GoodRec, Within
  <1>6. CASE disk[id].saved /\ ~MediaWhole(id) /\ rec.state = "COMPLETED"
    <2>1. Restored(id, seq, known) = [rec EXCEPT !.state = "FAILED", !.err = "CORRUPT", !.done = part]
      BY <1>6 DEF Restored
    <2> HIDE DEF rec, part
    <2> QED
      BY <1>1, <1>2, <1>6, <2>1 DEF GoodRec, Rec, Within
  <1>7. CASE disk[id].saved /\ ~MediaWhole(id) /\ rec.state # "COMPLETED"
    <2> DEFINE st == IF rec.state = "DOWNLOADING" THEN "QUEUED" ELSE rec.state
    <2>1. Restored(id, seq, known) = [rec EXCEPT !.state = st, !.done = KeptPart(id)]
      BY <1>1, <1>7, ApplyIs DEF Restored, Rec
    <2>2. st \in States /\ st # "DOWNLOADING"
          /\ (st = "QUEUED" => rec.state \in {"QUEUED", "DOWNLOADING"})
      BY <1>1, <1>2 DEF Rec
    <2> HIDE DEF st, rec
    <2>3. /\ Restored(id, seq, known) \in Rec /\ Restored(id, seq, known).id = rec.id
          /\ Restored(id, seq, known).state = st /\ Restored(id, seq, known).err = rec.err
          /\ Restored(id, seq, known).attempts = rec.attempts
      BY <1>1, <1>3, <2>1, <2>2 DEF Rec
    <2> QED
      BY <1>1, <1>7, <2>2, <2>3 DEF GoodRec, Within
  <1> QED
    BY <1>1, <1>4, <1>5, <1>6, <1>7

LEMMA RestoreKeeps == ASSUME IInv, Restore PROVE IInv'
  <1>1. PICK place \in Placements, last \in SavedSeqs \cup {0}, known \in SUBSET Bare :
          /\ LET rec == [id \in Dirs |-> Restored(id, PlaceInLine(place, last, id), known)]
             IN /\ slots' = [s \in Slots |->
                     IF \E id \in Dirs : place[id] = s
                     THEN [EmptySlot EXCEPT !.used = TRUE,
                                            !.rec = rec[CHOOSE id \in Dirs : place[id] = s]]
                     ELSE EmptySlot]
                /\ disk' = [id \in Ids |->
                     IF id \in Dirs /\ place[id] \in Slots
                     THEN [disk[id] EXCEPT !.saved = TRUE, !.rec = rec[id], !.part = KeptPart(id)]
                     ELSE disk[id]]
          /\ nextSeq' = last + 1 + Cardinality({id \in Dirs : ~disk[id].saved})
    BY DEF Restore
  <1> DEFINE rec == [id \in Dirs |-> Restored(id, PlaceInLine(place, last, id), known)]
  <1>2. Dirs \subseteq Ids /\ IsFiniteSet(Dirs)
    BY ConstantsAssumption, FS_Subset DEF Dirs
  <1>3. last \in Nat
    BY <1>2 DEF SavedSeqs, IInv, GoodDisk, GoodDir, GoodRec, Rec
  <1>4. \A S \in SUBSET Dirs : Cardinality(S) \in Nat
    BY <1>2, FS_Subset, FS_CardinalityType
  <1>5. \A id \in Dirs : PlaceInLine(place, last, id) \in Nat
    <2> TAKE id \in Dirs
    <2>1. {j \in Dirs : ~disk[j].saved /\ place[j] <= place[id]} \in SUBSET Dirs
      OBVIOUS
    <2>2. Cardinality({j \in Dirs : ~disk[j].saved /\ place[j] <= place[id]}) \in Nat
      BY <1>4, <2>1
    <2> QED
      BY <1>3, <2>2 DEF PlaceInLine
  <1>6. \A id \in Dirs : rec[id] \in GoodRec /\ rec[id].id \in Ids /\ rec[id].state # "DOWNLOADING"
    BY <1>2, <1>5, RestoredIs
  <1>7. /\ slots' = [s \in Slots |->
                     IF \E id \in Dirs : place[id] = s
                     THEN [EmptySlot EXCEPT !.used = TRUE,
                                            !.rec = rec[CHOOSE id \in Dirs : place[id] = s]]
                     ELSE EmptySlot]
        /\ disk' = [id \in Ids |->
                     IF id \in Dirs /\ place[id] \in Slots
                     THEN [disk[id] EXCEPT !.saved = TRUE, !.rec = rec[id], !.part = KeptPart(id)]
                     ELSE disk[id]]
    BY <1>1
  <1> HIDE DEF rec
  <1>8. \A s \in Slots :
          /\ slots'[s] \in GoodSlot
          /\ ~slots'[s].active /\ ~slots'[s].removing /\ slots'[s].ctl = "NONE"
          /\ slots'[s].rec.state # "DOWNLOADING"
    <2> TAKE s \in Slots
    <2>1. CASE \E id \in Dirs : place[id] = s
      <3> DEFINE id == CHOOSE id \in Dirs : place[id] = s
                 new == [EmptySlot EXCEPT !.used = TRUE, !.rec = rec[id]]
      <3>1. id \in Dirs
        BY <2>1
      <3>2. slots'[s] = new
        BY <1>7, <2>1
      <3> HIDE DEF id
      <3>3. new \in GoodSlot /\ ~new.active /\ ~new.removing /\ new.ctl = "NONE"
            /\ new.rec = rec[id]
        BY <1>6, <3>1 DEF EmptySlot, GoodSlot, Ctls
      <3> QED
        BY <1>6, <3>1, <3>2, <3>3
    <2>2. CASE ~ \E id \in Dirs : place[id] = s
      <3>1. slots'[s] = EmptySlot
        BY <1>7, <2>2
      <3> QED
        BY <3>1, EmptyIsGood DEF EmptySlot, EmptyRec
    <2> QED BY <2>1, <2>2
  <1>9. slots' \in [Slots -> GoodSlot]
    BY <1>7, <1>8
  <1>10. disk' \in GoodDisk
    <2>1. \A id \in Ids : disk'[id] \in GoodDir
      <3> TAKE id \in Ids
      <3>1. disk[id] \in GoodDir
        BY DEF IInv, GoodDisk
      <3>2. KeptPart(id) \in 0..Size
        BY <3>1, FirstAttempt DEF KeptPart, GoodDir
      <3>3. CASE id \in Dirs /\ place[id] \in Slots
        BY <1>6, <1>7, <3>1, <3>2, <3>3 DEF GoodDir
      <3>4. CASE ~(id \in Dirs /\ place[id] \in Slots)
        BY <1>7, <3>1, <3>4
      <3> QED BY <3>3, <3>4
    <2> QED
      BY <1>7, <2>1 DEF GoodDisk
  <1>11. pc' = "idle" /\ cur = 0 /\ cur' = 0 /\ r' = r
    BY DEF Restore, IInv, OneTransfer, InAttempt
  <1>12. OneTransfer' /\ WorkerRec'
    <2>1. \A s \in Slots : s # 0
      BY ConstantsAssumption DEF Slots
    <2> QED
      BY <1>8, <1>11, <2>1 DEF OneTransfer, WorkerRec, InAttempt
  <1>13. nextSeq' \in Nat \ {0}
    <2> DEFINE c == Cardinality({id \in Dirs : ~disk[id].saved})
    <2>1. c \in Nat
      BY <1>4
    <2>2. nextSeq' = last + 1 + c
      BY <1>1
    <2> HIDE DEF c
    <2> QED
      BY <1>3, <2>1, <2>2
  <1>14. Scalars'
    BY <1>13 DEF Restore, envVars, IInv, Scalars
  <1> QED
    BY <1>9, <1>10, <1>11, <1>12, <1>14 DEF IInv

-----------------------------------------------------------------------------
(* Everything else that happens *)

\* What memory starts from.
LEMMA Zeros ==
  /\ 0 \in 0..NSlots /\ 0 \in 0..Size /\ 0 \in 0..MaxToken /\ 1 \in 1..MaxToken
  /\ \A t \in 1..MaxToken : t \in 0..MaxToken /\ (t < MaxToken => t + 1 \in 1..MaxToken)
  /\ 1 \in Nat \ {0} /\ 0 \in Nat
  BY ConstantsAssumption

\* An empty table and an idle worker.
LEMMA EmptyTable ==
  ASSUME slots' = [s \in Slots |-> EmptySlot], cur' = 0, pc' \in {"off", "idle"}
  PROVE  slots' \in [Slots -> GoodSlot] /\ OneTransfer' /\ WorkerRec'
  <1>1. \A s \in Slots : s # 0 /\ slots'[s] = EmptySlot
    BY ConstantsAssumption DEF Slots
  <1>2. slots' \in [Slots -> GoodSlot]
    BY EmptyIsGood
  <1>3. /\ ~EmptySlot.active /\ ~EmptySlot.removing /\ EmptySlot.ctl = "NONE"
        /\ EmptySlot.rec.state # "DOWNLOADING"
    BY DEF EmptySlot, EmptyRec
  <1> QED
    BY <1>1, <1>2, <1>3 DEF OneTransfer, WorkerRec, InAttempt

LEMMA NoOutcomeIs == NoOutcome \in Outcome
  BY NamedErrors DEF NoOutcome, Outcome

LEMMA PowerOffKeeps == ASSUME IInv, NEW d \in GoodDisk, PowerOff(d) PROVE IInv'
  <1>1. slots' \in [Slots -> GoodSlot] /\ OneTransfer' /\ WorkerRec'
    BY EmptyTable DEF PowerOff
  <1>2. Scalars'
    <2>1. crashes' \in Nat
      BY DEF PowerOff, IInv, Scalars
    <2> QED
      BY <2>1, NoOutcomeIs, Zeros DEF PowerOff, IInv, Scalars
  <1> QED
    BY <1>1, <1>2, EmptyIsGood DEF PowerOff, IInv

LEMMA GoneGood ==
  ASSUME NEW d \in GoodDir, NEW rest \in {d, EmptyDir}
  PROVE  [rest EXCEPT !.dir = d.dir, !.media = 0, !.part = 0] \in GoodDir
  <1>1. rest \in GoodDir
    BY EmptyIsGood
  <1>2. d.dir \in BOOLEAN /\ 0 \in 0..Size
    BY ConstantsAssumption DEF GoodDir
  <1> QED
    BY <1>1, <1>2 DEF GoodDir

LEMMA CrashKeeps ==
  ASSUME IInv,
         \/ Crash
         \/ \E id \in Ids : CrashInEnqueue(id)
         \/ \E s \in Slots : CrashInRemove(s)
  PROVE  IInv'
  <1>1. disk \in GoodDisk
    BY DEF IInv
  <1>2. CASE Crash
    BY <1>1, <1>2, PowerOffKeeps DEF Crash
  <1>3. ASSUME NEW id \in Ids, CrashInEnqueue(id) PROVE IInv'
    <2>1. [disk EXCEPT ![id].dir = TRUE] \in GoodDisk
      BY <1>1 DEF GoodDisk, GoodDir
    <2> QED
      BY <1>3, <2>1, PowerOffKeeps DEF CrashInEnqueue
  <1>4. ASSUME NEW s \in Slots, CrashInRemove(s) PROVE IInv'
    <2> DEFINE id == slots[s].rec.id
    <2>1. PICK rest \in {disk[id], EmptyDir} :
             PowerOff([disk EXCEPT ![id] =
                         [rest EXCEPT !.dir = disk[id].dir, !.media = 0, !.part = 0]])
      BY <1>4 DEF CrashInRemove
    <2> DEFINE gone == [rest EXCEPT !.dir = disk[id].dir, !.media = 0, !.part = 0]
    <2>2. id \in Ids => gone \in GoodDir
      BY <1>1, GoneGood DEF GoodDisk
    <2>3. PowerOff([disk EXCEPT ![id] = gone])
      BY <2>1
    <2> HIDE DEF gone
    <2>4. [disk EXCEPT ![id] = gone] \in GoodDisk
      BY <1>1, <2>2 DEF GoodDisk
    <2> QED
      BY <2>3, <2>4, PowerOffKeeps
  <1> QED
    BY <1>2, <1>3, <1>4

\* The writers of the gates, the clock, the HDD and the server.
LEMMA GatesKeep ==
  ASSUME IInv,
         SignIn \/ SignOut \/ PlayHeavy \/ PlayLightOrEnd \/ SvcStop \/ SpaceChange \/ Revoke
  PROVE  IInv'
  <1> USE DEF tableVars, gateVars, workerVars, envVars
  <1>1. UNCHANGED <<slots, disk, pc, cur, r>>
    BY DEF SignIn, SignOut, PlayHeavy, PlayLightOrEnd, SvcStop, SpaceChange, Revoke
  <1>2. slots' \in [Slots -> GoodSlot] /\ OneTransfer' /\ WorkerRec'
    BY <1>1 DEF IInv, OneTransfer, WorkerRec, InAttempt
  <1>3. UNCHANGED <<nextSeq, have0, tok, out, crashes, damages>>
    BY DEF SignIn, SignOut, PlayHeavy, PlayLightOrEnd, SvcStop, SpaceChange, Revoke
  <1>4. /\ ready' \in BOOLEAN /\ auth' \in 0..MaxToken /\ session' \in 1..MaxToken
        /\ authHold' \in BOOLEAN /\ spaceHold' \in BOOLEAN
        /\ suspended' \in BOOLEAN /\ playBlock' \in BOOLEAN
        /\ space' \in {"OK", "LOW"} /\ lengthNamed' \in BOOLEAN
    <2>1. /\ ready \in BOOLEAN /\ auth \in 0..MaxToken /\ session \in 1..MaxToken
          /\ authHold \in BOOLEAN /\ spaceHold \in BOOLEAN
          /\ suspended \in BOOLEAN /\ playBlock \in BOOLEAN
          /\ space \in {"OK", "LOW"} /\ lengthNamed \in BOOLEAN
      BY DEF IInv, Scalars
    <2>2. CASE Revoke
      BY <2>1, <2>2, Zeros DEF Revoke
    <2>3. CASE SignIn
      BY <2>1, <2>3, Zeros DEF SignIn
    <2>4. CASE SignOut \/ PlayHeavy
      BY <2>1, <2>4, Zeros DEF SignOut, PlayHeavy
    <2>5. CASE PlayLightOrEnd \/ SvcStop \/ SpaceChange
      BY <2>1, <2>5 DEF PlayLightOrEnd, SvcStop, SpaceChange
    <2> QED BY <2>2, <2>3, <2>4, <2>5
  <1> QED
    BY <1>1, <1>2, <1>3, <1>4 DEF IInv, Scalars

LEMMA SvcJoinedKeeps == ASSUME IInv, SvcJoined PROVE IInv'
  <1>1. cur = 0 /\ UNCHANGED <<cur, r, disk>>
    BY DEF SvcJoined, IInv, OneTransfer, InAttempt
  <1>2. slots' \in [Slots -> GoodSlot] /\ OneTransfer' /\ WorkerRec'
    BY <1>1, EmptyTable DEF SvcJoined
  <1>3. Scalars'
    BY Zeros DEF SvcJoined, envVars, IInv, Scalars
  <1> QED
    BY <1>1, <1>2, <1>3 DEF IInv

LEMMA TickKeeps == ASSUME IInv, NEW s \in Slots, Tick(s) PROVE IInv'
  <1>1. /\ slots' = [slots EXCEPT ![s].due = TRUE] /\ UNCHANGED <<pc, cur, r, disk>>
    BY DEF Tick, workerVars
  <1>2. slots[s] \in GoodSlot
    BY SlotRecord
  <1>3. \A t \in Slots :
          /\ slots'[t] \in GoodSlot
          /\ slots'[t].used = slots[t].used /\ slots'[t].active = slots[t].active
          /\ slots'[t].rec = slots[t].rec /\ slots'[t].ctl = slots[t].ctl
          /\ slots'[t].removing = slots[t].removing
    BY <1>1, <1>2 DEF IInv, GoodSlot
  <1>4. slots' \in [Slots -> GoodSlot]
    BY <1>1, <1>3 DEF IInv
  <1>5. OneTransfer' /\ WorkerRec'
    BY <1>1, <1>3 DEF IInv, OneTransfer, WorkerRec, InAttempt
  <1>6. Scalars'
    BY ScalarsKept DEF Tick, workerVars, IInv, Scalars
  <1> QED
    BY <1>1, <1>4, <1>5, <1>6 DEF IInv

LEMMA DamageKeeps == ASSUME IInv, NEW id \in Ids, Damage(id) PROVE IInv'
  <1>1. UNCHANGED <<slots, pc, cur, r>>
    BY DEF Damage, tableVars, workerVars
  <1>2. slots' \in [Slots -> GoodSlot] /\ OneTransfer' /\ WorkerRec'
    BY <1>1 DEF IInv, OneTransfer, WorkerRec, InAttempt
  <1>3. disk' \in GoodDisk
    <2>1. disk[id] \in GoodDir /\ Size \in Nat
      BY ConstantsAssumption DEF IInv, GoodDisk
    <2>2. ASSUME NEW n \in 0..(disk[id].media - 1), disk' = [disk EXCEPT ![id].media = n]
          PROVE  disk' \in GoodDisk
      <3>1. n \in 0..Size
        BY <2>1 DEF GoodDir
      <3>2. [disk[id] EXCEPT !.media = n] \in GoodDir
        BY <2>1, <3>1 DEF GoodDir
      <3> QED
        BY <2>2, <3>2 DEF IInv, GoodDisk
    <2>3. CASE disk' = [disk EXCEPT ![id] = [@ EXCEPT !.saved = FALSE, !.rec = EmptyRec]]
      <3>1. [disk[id] EXCEPT !.saved = FALSE, !.rec = EmptyRec] \in GoodDir
        BY <2>1, EmptyIsGood DEF GoodDir
      <3> QED
        BY <2>3, <3>1 DEF IInv, GoodDisk
    <2> QED
      BY <2>2, <2>3 DEF Damage
  <1>4. Scalars'
    BY DEF Damage, tableVars, gateVars, workerVars, IInv, Scalars
  <1> QED
    BY <1>1, <1>2, <1>3, <1>4 DEF IInv

LEMMA EnvironmentKeeps == ASSUME IInv, Environment PROVE IInv'
  BY CrashKeeps, GatesKeep, SvcJoinedKeeps, TickKeeps, DamageKeeps DEF Environment

-----------------------------------------------------------------------------
(* The invariant, and what follows from it *)

LEMMA InitGood == ASSUME Init PROVE IInv
  <1>1. slots \in [Slots -> GoodSlot] /\ disk \in GoodDisk /\ r \in GoodRec
    BY EmptyIsGood DEF Init, GoodDisk
  <1>2. OneTransfer /\ WorkerRec
    <2>1. \A s \in Slots : s # 0 /\ slots[s] = EmptySlot
      BY ConstantsAssumption DEF Init, Slots
    <2> QED
      BY <2>1 DEF Init, OneTransfer, WorkerRec, InAttempt, EmptySlot, EmptyRec
  <1>3. lengthNamed \in BOOLEAN
    BY ConstantsAssumption DEF Init
  <1>4. Scalars
    BY <1>3, NoOutcomeIs, Zeros DEF Init, Scalars
  <1> QED
    BY <1>1, <1>2, <1>4 DEF IInv

LEMMA StepGood == ASSUME IInv, [Next]_vars PROVE IInv'
  <1>1. CASE Next
    BY <1>1, UserCallKeeps, WorkerKeeps, RestoreKeeps, EnvironmentKeeps DEF Next
  <1>2. CASE UNCHANGED vars
    <2>1. UNCHANGED <<slots, disk, pc, cur, r>>
      BY <1>2 DEF vars, tableVars, workerVars
    <2>2. Scalars'
      BY <1>2 DEF vars, tableVars, gateVars, workerVars, envVars, IInv, Scalars
    <2> QED
      BY <2>1, <2>2 DEF IInv, OneTransfer, WorkerRec, InAttempt
  <1> QED
    BY <1>1, <1>2

LEMMA IInvImplies == ASSUME IInv PROVE TypeOK /\ OneTransfer /\ RetriesAreBounded
  <1>1. TypeOK
    <2>1. GoodSlot \subseteq Slot /\ GoodRec \subseteq Rec
      BY DEF GoodSlot, Slot, GoodRec
    <2>2. GoodDir \subseteq [dir : BOOLEAN, saved : BOOLEAN, rec : Rec,
                             part : 0..Size, media : 0..Size]
      BY <2>1 DEF GoodDir
    <2> QED
      BY <2>1, <2>2 DEF IInv, Scalars, GoodDisk, TypeOK
  <1>2. RetriesAreBounded
    BY SlotRecord DEF RetriesAreBounded, GoodRec, Within, Visible, Used
  <1> QED
    BY <1>1, <1>2 DEF IInv

LEMMA IInvAlways == Spec => []IInv
  <1>1. Init => IInv
    BY InitGood
  <1>2. IInv /\ [Next]_vars => IInv'
    BY StepGood
  <1> QED
    BY <1>1, <1>2, PTL DEF Spec

\* Every variable of the manager keeps its type, whatever the server answers,
\* the user asks for and the power does.
THEOREM TypeOKAlways == Spec => []TypeOK
  BY IInvAlways, IInvImplies, PTL

\* dl_manager_step transfers one item at a time, and the table always says
\* which: no call of the user, no ending of attempt() and no restart leaves a
\* slot DOWNLOADING, active or with a control posted that nobody will take up.
THEOREM OneTransferAlways == Spec => []OneTransfer
  BY IInvAlways, IInvImplies, PTL

\* An item waits in the queue only while attempts are left: finish() puts none
\* back whose attempts are spent, however the errors of one item follow each
\* other, and a restart reads none back.
THEOREM RetriesAreBoundedAlways == Spec => []RetriesAreBounded
  BY IInvAlways, IInvImplies, PTL

-----------------------------------------------------------------------------
(* The table and the directories                                           *)
(*                                                                         *)
(* Whatever the user does, a directory belongs to an entry of the table,   *)
(* and it is the power cut that decides what the next table is made of.    *)

(* Memory: the table is filled by a restart and only then, and an unused    *)
(* slot is an empty one.                                                    *)
Table ==
  /\ ready <=> pc # "off"
  /\ \A s \in Slots : ~slots[s].used => slots[s] = EmptySlot
  /\ ~ready => Used = {}

(* Disk: a record is its directory's; there is no directory without an      *)
(* entry, and, while there is no table, no more of them than it has slots.  *)
Owned ==
  /\ \A id \in Ids : disk[id].saved => disk[id].rec.id = id
  /\ ready => \A id \in Dirs : \E s \in Used : slots[s].rec.id = id
  /\ ~ready => Cardinality(Dirs) <= NSlots

Owners == IInv /\ Table /\ Owned

\* A step on one entry of the table and its directory: the entry stays the
\* item's, COMPLETED stays COMPLETED, and so do the other entries as they are.
SlotStep(s) ==
  /\ s \in Used /\ slots'[s].used
  /\ slots'[s].rec.id = slots[s].rec.id
  /\ slots[s].rec.state = "COMPLETED" => slots'[s].rec.state = "COMPLETED"
  /\ \A t \in Slots \ {s} : slots'[t] = slots[t]

DirStep(id) ==
  /\ disk'[id].dir = disk[id].dir
  /\ disk'[id].saved => disk'[id].rec.id = id
  /\ \A i \in Ids \ {id} : disk'[i] = disk[i]

OnAir == /\ UNCHANGED <<ready, nextSeq, damages, lengthNamed>>
         /\ pc' = "off" <=> pc = "off"

EntryStep(s) == SlotStep(s) /\ DirStep(slots[s].rec.id) /\ OnAir

\* A step that concerns neither table nor disk.
AsideStep == UNCHANGED <<slots, disk>> /\ OnAir

LEMMA EntryStepOwns ==
  ASSUME Owners, IInv', NEW s \in Slots, EntryStep(s)
  PROVE  Table' /\ Owned'
  <1> DEFINE id == slots[s].rec.id
  <1>1. id \in Ids /\ s \in Used
    BY SlotRecord DEF EntryStep, SlotStep, Used, Owners
  <1>2. \A t \in Slots : slots'[t].used = slots[t].used /\ slots'[t].rec.id = slots[t].rec.id
    BY <1>1 DEF EntryStep, SlotStep, Used, Owners, IInv, GoodSlot
  <1>3. Used' = Used
    BY <1>2 DEF Used
  <1>4. Table'
    BY <1>1, <1>3 DEF EntryStep, SlotStep, OnAir, Owners, Table, Used
  <1>5. \A i \in Ids : disk'[i].dir = disk[i].dir /\ (disk'[i].saved => disk'[i].rec.id = i)
    BY <1>1 DEF EntryStep, DirStep, Owners, Owned
  <1>6. Dirs' = Dirs
    BY <1>5 DEF Dirs
  <1>7. ready' = ready
    BY DEF EntryStep, OnAir
  <1>8. (ready => \A i \in Dirs : \E t \in Used : slots[t].rec.id = i)'
    BY <1>2, <1>3, <1>6, <1>7 DEF Owners, Owned, Used
  <1>9. (~ready => Cardinality(Dirs) <= NSlots)'
    BY <1>6, <1>7 DEF Owners, Owned
  <1> QED
    BY <1>4, <1>5, <1>8, <1>9 DEF Owned

LEMMA AsideStepOwns ==
  ASSUME Owners, AsideStep
  PROVE  Table' /\ Owned'
  BY DEF Owners, AsideStep, OnAir, Table, Owned, Used, Dirs

-----------------------------------------------------------------------------
(* What the helpers of the store write *)

LEMMA SaveIs ==
  ASSUME NEW d \in GoodDisk, NEW rec, rec.id \in Ids
  PROVE  /\ \A i \in Ids \ {rec.id} : Save(d, rec)[i] = d[i]
         /\ Save(d, rec)[rec.id].dir = d[rec.id].dir
         /\ Save(d, rec)[rec.id].part = d[rec.id].part
         /\ Save(d, rec)[rec.id].media = d[rec.id].media
         /\ d[rec.id].dir => /\ Save(d, rec)[rec.id].saved
                             /\ Save(d, rec)[rec.id].rec = rec
         /\ ~d[rec.id].dir => Save(d, rec) = d
  <1>1. d[rec.id] \in GoodDir
    BY DEF GoodDisk
  <1>2. CASE d[rec.id].dir
    <2> DEFINE new == [d[rec.id] EXCEPT !.saved = TRUE, !.rec = rec]
    <2>1. Save(d, rec) = [d EXCEPT ![rec.id] = new]
      BY <1>2 DEF Save
    <2>2. /\ new.dir = d[rec.id].dir /\ new.part = d[rec.id].part /\ new.media = d[rec.id].media
          /\ new.rec = rec
      BY <1>1 DEF GoodDir
    <2>3. new.saved
      BY <1>1 DEF GoodDir
    <2> HIDE DEF new
    <2> QED
      BY <1>2, <2>1, <2>2, <2>3 DEF GoodDisk
  <1>3. CASE ~d[rec.id].dir
    BY <1>3 DEF Save
  <1> QED BY <1>2, <1>3

LEMMA SetPartIs ==
  ASSUME NEW d \in GoodDisk, NEW id \in Ids, NEW n
  PROVE  /\ \A i \in Ids \ {id} : SetPart(d, id, n)[i] = d[i]
         /\ SetPart(d, id, n)[id].dir = d[id].dir
         /\ SetPart(d, id, n)[id].saved = d[id].saved
         /\ SetPart(d, id, n)[id].rec = d[id].rec
         /\ SetPart(d, id, n)[id].media = d[id].media
         /\ SetPart(d, id, n)[id].part = n
  BY DEF SetPart, GoodDisk, GoodDir

\* The ways the manager writes to an item's directory while it has an entry.
LEMMA DirStepIs ==
  ASSUME Owners, NEW id \in Ids, NEW n \in 0..Size, NEW d \in {disk, SetPart(disk, id, n)},
         NEW rec, rec.id = id, disk' = d \/ disk' = Save(d, rec)
  PROVE  DirStep(id)
  <1>1. disk \in GoodDisk
    BY DEF Owners, IInv
  <1>2. /\ d[id].dir = disk[id].dir /\ d[id].saved = disk[id].saved /\ d[id].rec = disk[id].rec
        /\ \A i \in Ids \ {id} : d[i] = disk[i]
    BY <1>1, SetPartIs
  <1>3. d \in GoodDisk
    BY <1>1, PartGood
  <1>4. CASE disk' = d
    BY <1>2, <1>4 DEF DirStep, Owners, Owned
  <1>5. CASE disk' = Save(d, rec)
    BY <1>2, <1>3, <1>5, SaveIs DEF DirStep, Owners, Owned
  <1> QED BY <1>4, <1>5

-----------------------------------------------------------------------------
(* Every step but the few that make or take an entry is an EntryStep *)

\* dl_model knows no event that leaves COMPLETED.
LEMMA CompletedIsEnd == \A ev : ~Legal("COMPLETED", ev)
  BY DEF Legal, Transitions

\* A slot rewritten in place.
LEMMA SlotStepIs ==
  ASSUME IInv, NEW s \in Used, NEW new, slots' = [slots EXCEPT ![s] = new],
         new.used, new.rec.id = slots[s].rec.id,
         slots[s].rec.state = "COMPLETED" => new.rec.state = "COMPLETED"
  PROVE  SlotStep(s)
  <1>1. s \in Slots /\ slots' = [slots EXCEPT ![s] = new]
    BY DEF Used
  <1>2. slots'[s] = new /\ \A t \in Slots \ {s} : slots'[t] = slots[t]
    BY <1>1 DEF IInv
  <1> QED
    BY <1>2 DEF SlotStep

\* ... by another record of the same item.
LEMMA RecordStepIs ==
  ASSUME IInv, NEW s \in Used, NEW rec, NEW due,
         slots' = [slots EXCEPT ![s] = [@ EXCEPT !.rec = rec, !.due = due]],
         rec.id = slots[s].rec.id,
         slots[s].rec.state = "COMPLETED" => rec.state = "COMPLETED"
  PROVE  SlotStep(s)
  <1> DEFINE new == [slots[s] EXCEPT !.rec = rec, !.due = due]
  <1>1. s \in Slots /\ slots[s] \in GoodSlot
    BY SlotRecord DEF Used
  <1>2. slots' = [slots EXCEPT ![s] = new]
    BY <1>1 DEF IInv
  <1>3. new.rec = rec
    BY <1>1 DEF GoodSlot
  <1>4. new.used = slots[s].used
    BY <1>1 DEF GoodSlot
  <1> HIDE DEF new
  <1>5. new.used
    BY <1>4 DEF Used
  <1> QED
    BY <1>2, <1>3, <1>5, SlotStepIs

LEMMA IdleIsEntryStep ==
  ASSUME Owners, NEW s \in Slots, NEW ev, NEW rec, NEW due,
         NEW d \in {disk, SetPart(disk, slots[s].rec.id, 0)},
         rec.id = slots[s].rec.id, IdleTransition(s, ev, rec, due, d)
  PROVE  EntryStep(s)
  <1>1. s \in Used /\ slots[s].rec.id \in Ids
    BY SlotRecord DEF IdleTransition, Visible, Used, Owners
  <1>2. slots[s].rec.state # "COMPLETED"
    BY CompletedIsEnd DEF IdleTransition
  <1>3. SlotStep(s)
    BY <1>1, <1>2, RecordStepIs DEF IdleTransition, Owners
  <1>4. DirStep(slots[s].rec.id)
    BY <1>1, DirStepIs, FirstAttempt DEF IdleTransition
  <1> QED
    BY <1>3, <1>4 DEF EntryStep, OnAir, IdleTransition, workerVars, envVars

\* What is posted to the active item, and a backoff that runs out, leave the
\* record in the table alone.
LEMMA PostedIsEntryStep ==
  ASSUME Owners, NEW s \in Slots,
         \/ Post(s, "PAUSE") \/ Post(s, "CANCEL") \/ Withdraw(s) \/ RemoveActive(s) \/ Tick(s)
  PROVE  /\ EntryStep(s) /\ UNCHANGED <<disk, pc, cur, r, out, damages>>
         /\ slots'[s].rec = slots[s].rec /\ slots'[s].active = slots[s].active
  <1>1. slots[s] \in GoodSlot /\ slots[s].used /\ slots[s].rec.id \in Ids
    BY SlotRecord DEF Post, Withdraw, RemoveActive, Tick, Visible, Used, Owners
  <1>2. PICK new : /\ slots' = [slots EXCEPT ![s] = new]
                   /\ \/ \E c : new = [slots[s] EXCEPT !.ctl = c]
                      \/ new = [slots[s] EXCEPT !.ctl = "REMOVE", !.removing = TRUE]
                      \/ new = [slots[s] EXCEPT !.due = TRUE]
    <2>1. CASE Post(s, "PAUSE") \/ Post(s, "CANCEL") \/ Withdraw(s)
      BY <2>1 DEF Post, Withdraw, Owners, IInv
    <2>2. CASE RemoveActive(s)
      BY <2>2 DEF RemoveActive, Owners, IInv
    <2>3. CASE Tick(s)
      BY <2>3 DEF Tick, Owners, IInv
    <2> QED BY <2>1, <2>2, <2>3
  <1>3. new.rec = slots[s].rec
    BY <1>1, <1>2 DEF GoodSlot
  <1>4. new.used = slots[s].used
    BY <1>1, <1>2 DEF GoodSlot
  <1>5. new.active = slots[s].active
    BY <1>1, <1>2 DEF GoodSlot
  <1>6. s \in Used /\ new.used
    BY <1>1, <1>4 DEF Used
  <1>7. SlotStep(s)
    BY <1>2, <1>3, <1>6, SlotStepIs DEF Owners
  <1>8. UNCHANGED <<disk, pc, cur, r, out>> /\ OnAir /\ damages' = damages
    BY DEF Post, Withdraw, RemoveActive, Tick, OnAir, workerVars, envVars
  <1>9. DirStep(slots[s].rec.id)
    BY <1>1, <1>8 DEF DirStep, Owners, Owned
  <1>10. slots'[s] = new
    BY <1>2 DEF Owners, IInv
  <1> QED
    BY <1>3, <1>5, <1>7, <1>8, <1>9, <1>10 DEF EntryStep

LEMMA RequeueIsEntryStep ==
  ASSUME Owners, NEW s \in Slots, Requeue(s) \/ RequeueRefused(s)
  PROVE  EntryStep(s)
  <1> DEFINE old == slots[s].rec
             rec == [Unvouched(old) EXCEPT !.state = "QUEUED", !.err = "NONE",
                                           !.attempts = 0, !.url = TRUE]
  <1>1. s \in Used /\ old.id \in Ids /\ old \in Rec /\ old.state # "COMPLETED"
    BY SlotRecord DEF Requeue, RequeueRefused, Requeueable, Visible, Used, Owners
  <1>2. Unvouched(old) \in Rec /\ Unvouched(old).id = old.id
    BY <1>1, UnvouchedIs
  <1>3. rec.id = old.id
    BY <1>2 DEF Rec
  <1>4. DropUnvouched(old) \in {disk, SetPart(disk, old.id, 0)}
    BY DEF DropUnvouched
  <1> HIDE DEF rec
  <1>5. CASE Requeue(s)
    <2>1. slots' = [slots EXCEPT ![s] = [@ EXCEPT !.rec = rec, !.due = TRUE]]
          /\ disk' = Save(DropUnvouched(old), rec)
      BY <1>5 DEF Requeue, rec
    <2>2. SlotStep(s)
      BY <1>1, <1>3, <2>1, RecordStepIs DEF Owners
    <2>3. DirStep(old.id)
      BY <1>1, <1>3, <1>4, <2>1, DirStepIs, FirstAttempt
    <2> QED
      BY <1>5, <2>2, <2>3 DEF EntryStep, OnAir, Requeue, workerVars, envVars
  <1>6. CASE RequeueRefused(s)
    <2>1. slots' = [slots EXCEPT ![s] = [@ EXCEPT !.rec = Unvouched(old), !.due = slots[s].due]]
      BY <1>1, <1>6, SlotRecord DEF RequeueRefused, Owners, IInv, GoodSlot
    <2>2. SlotStep(s)
      BY <1>1, <1>2, <2>1, RecordStepIs DEF Owners
    <2>3. DirStep(old.id)
      BY <1>1, <1>2, <1>4, <1>6, DirStepIs, FirstAttempt DEF RequeueRefused
    <2> QED
      BY <1>6, <2>2, <2>3 DEF EntryStep, OnAir, RequeueRefused, workerVars, envVars
  <1> QED BY <1>5, <1>6

LEMMA ControlIsEntryStep ==
  ASSUME Owners, NEW s \in Slots,
         PauseIdle(s) \/ Again(s, "RESUME") \/ Again(s, "RETRY") \/ CancelIdle(s)
  PROVE  EntryStep(s)
  <1>1. ASSUME NEW ev \in {"PAUSE", "CANCEL", "RESUME", "RETRY"}, NEW rec, NEW due,
               NEW d \in {disk, SetPart(disk, slots[s].rec.id, 0)},
               IdleTransition(s, ev, rec, due, d),
               \/ rec = Moved(s, ev)
               \/ rec = [Moved(s, ev) EXCEPT !.err = "NONE", !.attempts = 0]
               \/ rec = [Moved(s, ev) EXCEPT !.done = 0, !.err = "NONE"]
        PROVE  EntryStep(s)
    <2>1. Moved(s, ev) \in Rec /\ Moved(s, ev).id = slots[s].rec.id
      BY <1>1, MovedIs DEF IdleTransition, Owners
    <2>2. rec.id = slots[s].rec.id
      BY <1>1, <2>1 DEF Rec
    <2> QED
      BY <1>1, <2>2, IdleIsEntryStep
  <1>2. CASE PauseIdle(s)
    BY <1>1, <1>2 DEF PauseIdle
  <1>3. CASE Again(s, "RESUME")
    BY <1>1, <1>3 DEF Again
  <1>4. CASE Again(s, "RETRY")
    BY <1>1, <1>4 DEF Again
  <1>5. CASE CancelIdle(s)
    BY <1>1, <1>5 DEF CancelIdle
  <1> QED BY <1>2, <1>3, <1>4, <1>5

LEMMA PickIsEntryStep ==
  ASSUME Owners, NEW s \in Slots, Pick(s)
  PROVE  EntryStep(s)
  <1> DEFINE rec == Moved(s, "START")
             new == [slots[s] EXCEPT !.active = TRUE, !.ctl = "NONE", !.rec = rec]
  <1>1. /\ s \in Used /\ slots[s].rec.id \in Ids /\ slots[s] \in GoodSlot
        /\ slots[s].rec \in Rec /\ slots[s].rec.state = "QUEUED"
    BY SlotRecord DEF Pick, Pickable, Visible, Used, Owners
  <1>2. rec.id = slots[s].rec.id
    BY <1>1 DEF Moved, Rec
  <1>3. slots' = [slots EXCEPT ![s] = new] /\ disk' = Save(disk, rec)
    BY <1>1 DEF Pick, Owners, IInv
  <1> HIDE DEF rec
  <1>4. new.rec = rec
    BY <1>1 DEF GoodSlot
  <1>5. new.used = slots[s].used
    BY <1>1 DEF GoodSlot
  <1>6. new.used
    BY <1>1, <1>5 DEF Used
  <1> HIDE DEF new
  <1>7. SlotStep(s)
    BY <1>1, <1>2, <1>3, <1>4, <1>6, SlotStepIs DEF Owners
  <1>8. DirStep(slots[s].rec.id)
    BY <1>1, <1>2, <1>3, DirStepIs, FirstAttempt
  <1> QED
    BY <1>7, <1>8 DEF EntryStep, OnAir, Pick, envVars

\* The transfer writes to the item of the slot it is on.
LEMMA AttemptIsEntryStep ==
  ASSUME Owners, InAttempt, UNCHANGED slots \/ (\E rec : slots' = Published(rec)),
         DirStep(r.id), OnAir
  PROVE  EntryStep(cur)
  <1>1. /\ cur \in Used /\ slots[cur] \in GoodSlot /\ slots[cur].rec \in Rec
        /\ slots[cur].rec.id = r.id /\ cur \in Slots
    BY CurrentItem, SlotRecord DEF Used, Owners
  <1>2. CASE UNCHANGED slots
    BY <1>1, <1>2 DEF EntryStep, SlotStep, Used
  <1>3. ASSUME NEW rec, slots' = Published(rec)
        PROVE  EntryStep(cur)
    <2> DEFINE bytes == [slots[cur].rec EXCEPT !.done = rec.done, !.total = rec.total]
    <2>1. slots' = [slots EXCEPT ![cur] = [@ EXCEPT !.rec = bytes, !.due = slots[cur].due]]
      BY <1>1, <1>3 DEF Published, Owners, IInv, GoodSlot
    <2>2. bytes.id = slots[cur].rec.id /\ bytes.state = slots[cur].rec.state
      BY <1>1 DEF Rec
    <2> HIDE DEF bytes
    <2>3. SlotStep(cur)
      BY <1>1, <2>1, <2>2, RecordStepIs DEF Owners
    <2> QED
      BY <1>1, <2>3 DEF EntryStep
  <1> QED BY <1>2, <1>3

\* publish(): the active record takes the bytes, and keeps all else.
LEMMA PublishedIs ==
  ASSUME IInv, InAttempt, NEW rec
  PROVE  LET new == Published(rec)[cur].rec
         IN /\ new.id = r.id /\ new.seq = slots[cur].rec.seq
            /\ new.state = slots[cur].rec.state
            /\ new.done = rec.done /\ new.total = rec.total
            /\ Published(rec)[cur].active /\ Published(rec)[cur].used
            /\ \A t \in Slots \ {cur} : Published(rec)[t] = slots[t]
  <1> DEFINE bytes == [slots[cur].rec EXCEPT !.done = rec.done, !.total = rec.total]
  <1>1. /\ cur \in Slots /\ slots[cur] \in GoodSlot /\ slots[cur].rec \in Rec
        /\ slots[cur].rec.id = r.id /\ slots[cur].active /\ slots[cur].used
    BY CurrentItem, SlotRecord
  <1>2. Published(rec) = [slots EXCEPT ![cur] = [@ EXCEPT !.rec = bytes]]
    BY DEF Published
  <1>3. /\ bytes.id = slots[cur].rec.id /\ bytes.state = slots[cur].rec.state
        /\ bytes.seq = slots[cur].rec.seq /\ bytes.done = rec.done /\ bytes.total = rec.total
    BY <1>1 DEF Rec
  <1> HIDE DEF bytes
  <1>4. Published(rec)[cur] = [slots[cur] EXCEPT !.rec = bytes]
        /\ \A t \in Slots \ {cur} : Published(rec)[t] = slots[t]
    BY <1>1, <1>2 DEF IInv
  <1>5. Published(rec)[cur].rec = bytes
    BY <1>1, <1>4 DEF GoodSlot
  <1>6. Published(rec)[cur].active = slots[cur].active
    BY <1>1, <1>4 DEF GoodSlot
  <1>7. Published(rec)[cur].used = slots[cur].used
    BY <1>1, <1>4 DEF GoodSlot
  <1> QED
    BY <1>1, <1>3, <1>4, <1>5, <1>6, <1>7

\* The steps of attempt().
InTransfer ==
  \/ AttemptStart \/ Connect
  \/ HeadStop \/ HeadFail \/ HeadRefused \/ HeadComplete \/ HeadInconsistent
  \/ HeadPartial \/ HeadWhole \/ HeadUncut
  \/ BodyRecv \/ BodyEnd \/ BodyEnds
  \/ VerifyEmpty \/ VerifyBad \/ VerifyGood \/ Rename

LEMMA TransferIsEntryStep ==
  ASSUME Owners, InTransfer
  PROVE  EntryStep(cur) /\ InAttempt
  <1>1. CASE Connect \/ HeadStop \/ HeadFail \/ HeadRefused \/ HeadComplete \/ HeadUncut
             \/ BodyEnd \/ VerifyEmpty
    <2>1. InAttempt /\ UNCHANGED <<slots, disk>> /\ OnAir
      BY <1>1 DEF Connect, HeadStop, HeadFail, HeadRefused, HeadComplete, HeadUncut, BodyEnd,
         VerifyEmpty, InAttempt, End, OnAir, tableVars, envVars
    <2>2. DirStep(r.id)
      BY <2>1, CurrentItem DEF DirStep, Owners, Owned
    <2> QED BY <2>1, <2>2, AttemptIsEntryStep
  <1>2. CASE AttemptStart \/ HeadInconsistent \/ VerifyBad
    <2>1. InAttempt /\ UNCHANGED slots /\ OnAir
      BY <1>2 DEF AttemptStart, HeadInconsistent, VerifyBad, SpaceRefused,
         InAttempt, End, OnAir, tableVars, envVars
    <2>2. /\ r.id \in Ids /\ disk[r.id].part \in 0..Size /\ 0 \in 0..Size
      BY <2>1, CurrentItem, FirstAttempt DEF Owners, GoodDir
    <2>3. PICK n \in 0..Size : disk' = SetPart(disk, r.id, n)
      BY <1>2, <2>2 DEF AttemptStart, HeadInconsistent, VerifyBad
    <2>4. DirStep(r.id)
      BY <2>2, <2>3, DirStepIs
    <2> QED BY <2>1, <2>4, AttemptIsEntryStep
  <1>3. ASSUME NEW rec, HeadBody(rec), rec.done \in 0..Size
        PROVE  EntryStep(cur) /\ InAttempt
    <2>1. InAttempt /\ OnAir /\ (UNCHANGED slots \/ slots' = Published(rec))
      BY <1>3 DEF HeadBody, SpaceRefused, InAttempt, End, OnAir, envVars
    <2>2. r.id \in Ids /\ Published(rec)[cur].rec.id = r.id
      BY <2>1, CurrentItem, PublishedIs DEF Owners
    <2>3. DirStep(r.id)
      BY <1>3, <2>2, DirStepIs DEF HeadBody
    <2> QED BY <2>1, <2>3, AttemptIsEntryStep
  <1>4. CASE HeadPartial \/ HeadWhole
    <2>1. r \in Rec /\ 0 \in 0..Size
      BY <1>4, FirstAttempt DEF HeadPartial, HeadWhole, HeadBody, Owners, IInv, GoodRec
    <2>2. CASE HeadPartial
      <3>1. [r EXCEPT !.total = Size].done \in 0..Size
        BY <2>1 DEF Rec
      <3> QED
        BY <1>3, <2>2, <3>1 DEF HeadPartial
    <2>3. CASE HeadWhole
      <3>1. PICK total \in WholeLengths : HeadBody([r EXCEPT !.done = 0, !.total = total])
        BY <2>3 DEF HeadWhole
      <3>2. [r EXCEPT !.done = 0, !.total = total].done \in 0..Size
        BY <2>1 DEF Rec
      <3> QED
        BY <1>3, <3>1, <3>2
    <2> QED BY <1>4, <2>2, <2>3
  <1>5. CASE BodyRecv
    <2>1. InAttempt /\ OnAir /\ (UNCHANGED slots \/ slots' = Published(r')) /\ cur' = cur
      BY <1>5 DEF BodyRecv, InAttempt, OnAir, envVars
    <2>2. /\ r.id \in Ids /\ Published(r')[cur].rec.id = r.id /\ r \in Rec
      BY <2>1, CurrentItem, PublishedIs DEF Owners
    <2>3. r'.done \in 0..Size
      BY <1>5, <2>2, ConstantsAssumption DEF BodyRecv, Rec
    <2>4. \/ disk' = SetPart(disk, r.id, r'.done)
          \/ disk' = Save(SetPart(disk, r.id, r'.done), Published(r')[cur].rec)
      BY <1>5 DEF BodyRecv
    <2>5. DirStep(r.id)
      BY <2>2, <2>3, <2>4, DirStepIs
    <2> QED BY <2>1, <2>5, AttemptIsEntryStep
  <1>6. CASE VerifyGood \/ Rename
    <2>1. InAttempt /\ UNCHANGED slots /\ OnAir
      BY <1>6 DEF VerifyGood, Rename, InAttempt, End, OnAir, tableVars, envVars
    <2>2. r.id \in Ids /\ disk \in GoodDisk /\ disk[r.id] \in GoodDir
      BY <2>1, CurrentItem DEF Owners
    <2>3. PICK d : /\ disk' = [disk EXCEPT ![r.id] = d]
                   /\ d.dir = disk[r.id].dir
                   /\ d.saved = disk[r.id].saved /\ d.rec = disk[r.id].rec
      BY <1>6, <2>2 DEF VerifyGood, Rename, GoodDisk, GoodDir
    <2>4. DirStep(r.id)
      BY <2>2, <2>3 DEF DirStep, GoodDisk, Owners, Owned
    <2> QED BY <2>1, <2>4, AttemptIsEntryStep
  <1>7. CASE BodyEnds
    <2>1. InAttempt /\ UNCHANGED slots
      BY <1>7, BodyEndsIs
    <2>2. OnAir
      BY <1>7 DEF BodyEnds, BodyStop, BodyFail, BodySpace, End, OnAir, tableVars, envVars
    <2>3. r.id \in Ids
      BY <2>1, CurrentItem DEF Owners
    <2>4. ASSUME disk' = disk PROVE DirStep(r.id)
      BY <2>1, <2>3, <2>4, CurrentItem DEF DirStep, Owners, Owned
    <2>5. ASSUME NEW n \in AfterBadWrite, disk' = SetPart(disk, r.id, n)
          PROVE  DirStep(r.id)
      <3>1. n \in 0..Size
        BY <2>1, BadWrite DEF Owners
      <3> QED
        BY <2>3, <2>5, <3>1, DirStepIs
    <2>6. disk' = disk \/ \E n \in AfterBadWrite : disk' = SetPart(disk, r.id, n)
      BY <1>7, BodyEndsIs
    <2>7. DirStep(r.id)
      BY <2>4, <2>5, <2>6
    <2> QED BY <2>1, <2>2, <2>7, AttemptIsEntryStep
  <1> QED
    BY <1>1, <1>2, <1>4, <1>5, <1>6, <1>7 DEF InTransfer

\* finish() on any ending but a removal.
LEMMA SettleIsEntryStep ==
  ASSUME Owners, InAttempt, OnAir, NEW rec, rec.id = r.id, NEW due,
         NEW d \in {disk, SetPart(disk, r.id, 0)}, Settle(rec, due, d)
  PROVE  EntryStep(cur) /\ slots'[cur].rec = rec /\ ~slots'[cur].active
  <1> DEFINE new == [slots[cur] EXCEPT !.active = FALSE, !.ctl = "NONE", !.due = due, !.rec = rec]
  <1>1. /\ cur \in Used /\ cur \in Slots /\ slots[cur] \in GoodSlot /\ slots[cur].used
        /\ slots[cur].rec.id = r.id /\ slots[cur].active /\ r.id \in Ids
    BY CurrentItem DEF Used, Owners
  <1>2. slots' = [slots EXCEPT ![cur] = new] /\ disk' = Save(d, rec)
    BY DEF Settle
  <1>3. new.rec = rec
    BY <1>1 DEF GoodSlot
  <1>4. new.used = slots[cur].used
    BY <1>1 DEF GoodSlot
  <1>5. ~new.active
    BY <1>1 DEF GoodSlot
  <1> HIDE DEF new
  <1>6. new.used
    BY <1>1, <1>4
  <1>7. slots[cur].rec.state = "DOWNLOADING"
    BY <1>1 DEF Owners, IInv, OneTransfer
  <1>8. SlotStep(cur)
    BY <1>1, <1>2, <1>3, <1>6, <1>7, SlotStepIs DEF Owners
  <1>9. DirStep(r.id)
    BY <1>1, <1>2, DirStepIs, FirstAttempt
  <1>10. slots'[cur] = new
    BY <1>1, <1>2 DEF Owners, IInv
  <1> QED
    BY <1>1, <1>3, <1>5, <1>8, <1>9, <1>10 DEF EntryStep

-----------------------------------------------------------------------------
(* The steps that make an entry, take one, or clear the table *)

\* finish() and dl_remove: the entry and its directory go together.
RemovalStep(s) ==
  /\ s \in Used /\ ready
  /\ slots' = [slots EXCEPT ![s] = EmptySlot]
  /\ disk' = [disk EXCEPT ![slots[s].rec.id] = EmptyDir]
  /\ OnAir

LEMMA RemovalOwns ==
  ASSUME Owners, NEW s \in Slots, RemovalStep(s)
  PROVE  Table' /\ Owned'
  <1> DEFINE id == slots[s].rec.id
  <1>1. id \in Ids /\ slots \in [Slots -> GoodSlot] /\ disk \in GoodDisk
    BY SlotRecord DEF RemovalStep, Used, Owners, IInv
  <1>2. slots'[s] = EmptySlot /\ \A t \in Slots \ {s} : slots'[t] = slots[t]
    BY <1>1 DEF RemovalStep
  <1>3. disk'[id] = EmptyDir /\ \A i \in Ids \ {id} : disk'[i] = disk[i]
    BY <1>1 DEF RemovalStep, GoodDisk
  <1>4. ~EmptySlot.used /\ ~EmptyDir.dir /\ ~EmptyDir.saved
    BY DEF EmptySlot, EmptyDir
  <1>5. ready' /\ ready /\ (pc' = "off" <=> pc = "off")
    BY DEF RemovalStep, OnAir
  <1>6. Table'
    BY <1>2, <1>5 DEF Owners, Table
  <1>7. \A i \in Ids : disk'[i].saved => disk'[i].rec.id = i
    BY <1>1, <1>3, <1>4 DEF Owners, Owned
  <1>8. \A i \in Dirs' : \E t \in Used' : slots'[t].rec.id = i
    <2> TAKE i \in Dirs'
    <2>1. i \in Dirs /\ i # id
      BY <1>3, <1>4 DEF Dirs
    <2>2. PICK t \in Used : slots[t].rec.id = i
      BY <1>5, <2>1 DEF Owners, Owned
    <2>3. t \in Slots \ {s}
      BY <2>1, <2>2 DEF Used
    <2> QED
      BY <1>2, <2>2, <2>3 DEF Used
  <1> QED
    BY <1>5, <1>6, <1>7, <1>8 DEF Owned

LEMMA RemovalSteps ==
  ASSUME Owners
  PROVE  /\ \A s \in Slots : RemoveIdle(s) => RemovalStep(s)
         /\ Finish /\ FinishRemoved => RemovalStep(cur)
  <1>1. ASSUME NEW s \in Slots, RemoveIdle(s) PROVE RemovalStep(s)
    BY <1>1 DEF RemoveIdle, RemovalStep, Visible, OnAir, workerVars, envVars
  <1>2. ASSUME Finish, FinishRemoved PROVE RemovalStep(cur)
    <2>1. InAttempt /\ pc = "finish" /\ pc' = "idle" /\ UNCHANGED <<ready, nextSeq, damages, lengthNamed>>
      BY <1>2 DEF Finish, InAttempt, envVars
    <2>2. cur \in Used /\ slots[cur].rec.id = r.id /\ ready
      BY <2>1, CurrentItem DEF Owners, Table, Used
    <2> QED
      BY <1>2, <2>1, <2>2 DEF FinishRemoved, RemovalStep, OnAir
  <1> QED BY <1>1, <1>2

\* dl_enqueue: the directory, the record in it and the entry.
Fresh(id, hint) ==
  [EmptyRec EXCEPT !.id = id, !.seq = nextSeq, !.total = hint, !.url = TRUE]

FreshSlot(id, hint) == [EmptySlot EXCEPT !.used = TRUE, !.rec = Fresh(id, hint)]

LEMMA EnqueueIs ==
  ASSUME IInv, NEW id \in Ids, NEW hint \in Hints, EnqueueNew(id, hint)
  PROVE  /\ \E s \in Slots :
              /\ ~slots[s].used
              /\ slots'[s] = FreshSlot(id, hint)
              /\ \A t \in Slots \ {s} : slots'[t] = slots[t]
         /\ \A i \in Ids \ {id} : disk'[i] = disk[i]
         /\ disk'[id].dir /\ disk'[id].saved /\ disk'[id].rec = Fresh(id, hint)
         /\ disk'[id].part = disk[id].part /\ disk'[id].media = disk[id].media
         /\ Fresh(id, hint).id = id
         /\ nextSeq' = nextSeq + 1
         /\ UNCHANGED <<ready, damages, lengthNamed, pc, cur, r, out>>
  <1> DEFINE d == [disk EXCEPT ![id] = [@ EXCEPT !.dir = TRUE]]
  <1>1. Fresh(id, hint).id = id
    BY DEF Fresh, EmptyRec
  <1>2. PICK s \in Slots : FirstFree(s) /\ slots' = [slots EXCEPT ![s] = FreshSlot(id, hint)]
    BY DEF EnqueueNew, Fresh, FreshSlot
  <1>3. /\ ~slots[s].used /\ slots'[s] = FreshSlot(id, hint)
        /\ \A t \in Slots \ {s} : slots'[t] = slots[t]
    BY <1>2 DEF FirstFree, Free, Used, IInv
  <1>4. d \in GoodDisk /\ d[id].dir /\ d[id].part = disk[id].part /\ d[id].media = disk[id].media
        /\ \A i \in Ids \ {id} : d[i] = disk[i]
    BY DEF IInv, GoodDisk, GoodDir
  <1>5. disk' = Save(d, Fresh(id, hint))
    BY DEF EnqueueNew, Fresh
  <1> HIDE DEF d
  <1>6. /\ \A i \in Ids \ {id} : disk'[i] = disk[i]
        /\ disk'[id].dir /\ disk'[id].saved /\ disk'[id].rec = Fresh(id, hint)
        /\ disk'[id].part = disk[id].part /\ disk'[id].media = disk[id].media
    BY <1>1, <1>4, <1>5, SaveIs
  <1>7. nextSeq' = nextSeq + 1 /\ UNCHANGED <<ready, damages, lengthNamed, pc, cur, r, out>>
    BY DEF EnqueueNew, workerVars, envVars
  <1> QED
    BY <1>1, <1>3, <1>6, <1>7

LEMMA EnqueueOwns ==
  ASSUME Owners, NEW id \in Ids, NEW hint \in Hints, EnqueueNew(id, hint)
  PROVE  Table' /\ Owned'
  <1>1. PICK s \in Slots : /\ ~slots[s].used /\ slots'[s] = FreshSlot(id, hint)
                           /\ \A t \in Slots \ {s} : slots'[t] = slots[t]
    BY EnqueueIs DEF Owners
  <1>2. /\ \A i \in Ids \ {id} : disk'[i] = disk[i]
        /\ disk'[id].dir /\ disk'[id].saved /\ disk'[id].rec.id = id
        /\ ready' = ready /\ pc' = pc
    BY EnqueueIs DEF Owners
  <1>3. FreshSlot(id, hint).used /\ FreshSlot(id, hint).rec.id = id
    BY EnqueueIs DEF FreshSlot, EmptySlot, Owners
  <1>4. ready
    BY DEF EnqueueNew
  <1>5. Table'
    BY <1>1, <1>2, <1>3, <1>4 DEF Owners, Table
  <1>6. \A i \in Ids : disk'[i].saved => disk'[i].rec.id = i
    BY <1>2 DEF Owners, Owned
  <1>7. \A i \in Dirs' : \E t \in Used' : slots'[t].rec.id = i
    <2> TAKE i \in Dirs'
    <2>1. CASE i = id
      BY <1>1, <1>3, <2>1 DEF Used
    <2>2. CASE i # id
      <3>1. i \in Dirs
        BY <1>2, <2>2 DEF Dirs
      <3>2. PICK t \in Used : slots[t].rec.id = i
        BY <1>4, <3>1 DEF Owners, Owned
      <3>3. t \in Slots \ {s}
        BY <1>1, <3>2 DEF Used
      <3> QED
        BY <1>1, <3>2, <3>3 DEF Used
    <2> QED BY <2>1, <2>2
  <1> QED
    BY <1>2, <1>4, <1>5, <1>6, <1>7 DEF Owned

\* There are never more directories than slots, and fewer when one is free.
LEMMA DirsFit ==
  ASSUME Owners
  PROVE  /\ IsFiniteSet(Dirs) /\ Cardinality(Dirs) \in Nat /\ Cardinality(Dirs) <= NSlots
         /\ ready /\ Free # {} => Cardinality(Dirs) < NSlots
  <1>1. Dirs \subseteq Ids /\ IsFiniteSet(Dirs)
    BY ConstantsAssumption, FS_Subset DEF Dirs
  <1>2. IsFiniteSet(Slots) /\ Cardinality(Slots) = NSlots
    BY ConstantsAssumption, FS_Interval DEF Slots
  <1>3. Used \subseteq Slots /\ IsFiniteSet(Used) /\ Cardinality(Used) <= NSlots
        /\ (Cardinality(Used) = NSlots => Used = Slots)
    BY <1>2, FS_Subset DEF Used
  <1>4. Cardinality(Dirs) \in Nat /\ Cardinality(Used) \in Nat
    BY <1>1, <1>3, FS_CardinalityType
  <1>5. ASSUME ready PROVE Cardinality(Dirs) <= Cardinality(Used)
    <2> DEFINE f == [id \in Dirs |-> CHOOSE s \in Used : slots[s].rec.id = id]
    <2>1. \A id \in Dirs : f[id] \in Used /\ slots[f[id]].rec.id = id
      BY <1>5 DEF Owners, Owned
    <2>2. f \in [Dirs -> Used]
      BY <2>1
    <2> HIDE DEF f
    <2>3. f \in Injection(Dirs, Used)
      BY <2>1, <2>2 DEF Injection, IsInjective
    <2> QED
      BY <1>3, <2>3, FS_Injection
  <1>6. ASSUME ready, Free # {} PROVE Cardinality(Used) < NSlots
    BY <1>3, <1>4, <1>6, ConstantsAssumption DEF Free
  <1> QED
    BY <1>1, <1>3, <1>4, <1>5, <1>6, ConstantsAssumption DEF Owners, Owned

\* Memory is lost, the directories stay as they are.
LEMMA ClearedOwns ==
  ASSUME slots' = [s \in Slots |-> EmptySlot], ready' = FALSE, pc' = "off",
         \A id \in Ids : disk'[id].saved => disk'[id].rec.id = id,
         Cardinality(Dirs') <= NSlots
  PROVE  Table' /\ Owned'
  <1>1. ~EmptySlot.used
    BY DEF EmptySlot
  <1>2. \A s \in Slots : slots'[s] = EmptySlot
    OBVIOUS
  <1>3. Used' = {}
    BY <1>1, <1>2 DEF Used
  <1> QED
    BY <1>2, <1>3 DEF Table, Owned

LEMMA CrashOwns ==
  ASSUME Owners,
         \/ Crash
         \/ \E id \in Ids : CrashInEnqueue(id)
         \/ \E s \in Slots : CrashInRemove(s)
         \/ SvcJoined
  PROVE  Table' /\ Owned'
  <1>1. disk \in GoodDisk
    BY DEF Owners, IInv
  <1>2. slots' = [s \in Slots |-> EmptySlot] /\ ready' = FALSE /\ pc' = "off"
    BY DEF Crash, CrashInEnqueue, CrashInRemove, PowerOff, SvcJoined
  <1>3. CASE Crash \/ SvcJoined
    <2>1. disk' = disk
      BY <1>3 DEF Crash, PowerOff, SvcJoined
    <2>2. Dirs' = Dirs
      BY <2>1 DEF Dirs
    <2> QED
      BY <1>2, <2>1, <2>2, DirsFit, ClearedOwns DEF Owners, Owned
  <1>4. ASSUME NEW id \in Ids, CrashInEnqueue(id)
        PROVE  Table' /\ Owned'
    <2>1. ready /\ Free # {} /\ id \notin Dirs /\ disk' = [disk EXCEPT ![id].dir = TRUE]
      BY <1>4 DEF CrashInEnqueue, PowerOff, Dirs
    <2>2. \A i \in Ids : disk'[i].saved = disk[i].saved /\ disk'[i].rec = disk[i].rec
                         /\ (disk'[i].dir <=> disk[i].dir \/ i = id)
      BY <1>1, <2>1 DEF GoodDisk, GoodDir
    <2>3. Dirs' = Dirs \cup {id}
      BY <2>2 DEF Dirs
    <2>4. Cardinality(Dirs) \in Nat /\ Cardinality(Dirs) < NSlots /\ IsFiniteSet(Dirs)
      BY <2>1, DirsFit
    <2>5. Cardinality(Dirs') = Cardinality(Dirs) + 1
      BY <2>1, <2>3, <2>4, FS_AddElement
    <2>6. Cardinality(Dirs') <= NSlots
      BY <2>4, <2>5, ConstantsAssumption
    <2> QED
      BY <1>2, <2>2, <2>6, ClearedOwns DEF Owners, Owned
  <1>5. ASSUME NEW s \in Slots, CrashInRemove(s)
        PROVE  Table' /\ Owned'
    <2> DEFINE id == slots[s].rec.id
    <2>1. id \in Ids
      BY <1>5, SlotRecord DEF CrashInRemove, Used, Owners
    <2>2. PICK rest \in {disk[id], EmptyDir} :
            disk' = [disk EXCEPT ![id] = [rest EXCEPT !.dir = disk[id].dir, !.media = 0, !.part = 0]]
      BY <1>5 DEF CrashInRemove, PowerOff
    <2> DEFINE gone == [rest EXCEPT !.dir = disk[id].dir, !.media = 0, !.part = 0]
    <2>3. rest \in GoodDir /\ ~EmptyDir.saved
      BY <1>1, <2>1, EmptyIsGood DEF GoodDisk, EmptyDir
    <2>4. gone.dir = disk[id].dir /\ gone.saved = rest.saved /\ gone.rec = rest.rec
      BY <2>3 DEF GoodDir
    <2>5. disk' = [disk EXCEPT ![id] = gone]
      BY <2>2
    <2> HIDE DEF gone, id
    <2>6. \A i \in Ids : disk'[i].dir = disk[i].dir
      BY <1>1, <2>1, <2>4, <2>5 DEF GoodDisk
    <2>7. Dirs' = Dirs
      BY <2>6 DEF Dirs
    <2>8. \A i \in Ids : disk'[i].saved => disk'[i].rec.id = i
      BY <1>1, <2>1, <2>2, <2>3, <2>4, <2>5 DEF GoodDisk, Owners, Owned
    <2> QED
      BY <1>2, <2>7, <2>8, DirsFit, ClearedOwns
  <1> QED BY <1>3, <1>4, <1>5

LEMMA DamageOwns ==
  ASSUME Owners, NEW id \in Ids, Damage(id)
  PROVE  Table' /\ Owned'
  <1>1. PICK d : /\ disk' = [disk EXCEPT ![id] = d]
                 /\ d.dir = disk[id].dir
                 /\ d.saved => disk[id].saved /\ d.rec = disk[id].rec
    <2>1. disk[id] \in GoodDir
      BY DEF Owners, IInv, GoodDisk
    <2>2. ASSUME NEW n, disk' = [disk EXCEPT ![id].media = n]
          PROVE  \E d : /\ disk' = [disk EXCEPT ![id] = d] /\ d.dir = disk[id].dir
                        /\ d.saved => disk[id].saved /\ d.rec = disk[id].rec
      <3> DEFINE new == [disk[id] EXCEPT !.media = n]
      <3>1. disk' = [disk EXCEPT ![id] = new]
        BY <2>2 DEF Owners, IInv, GoodDisk
      <3>2. new.dir = disk[id].dir /\ new.saved = disk[id].saved /\ new.rec = disk[id].rec
        BY <2>1 DEF GoodDir
      <3> QED
        BY <3>1, <3>2
    <2>3. ASSUME disk' = [disk EXCEPT ![id] = [@ EXCEPT !.saved = FALSE, !.rec = EmptyRec]]
          PROVE  \E d : /\ disk' = [disk EXCEPT ![id] = d] /\ d.dir = disk[id].dir
                        /\ d.saved => disk[id].saved /\ d.rec = disk[id].rec
      <3> DEFINE new == [disk[id] EXCEPT !.saved = FALSE, !.rec = EmptyRec]
      <3>1. disk' = [disk EXCEPT ![id] = new]
        BY <2>3 DEF Owners, IInv, GoodDisk
      <3>2. new.dir = disk[id].dir /\ ~new.saved
        BY <2>1 DEF GoodDir
      <3> QED
        BY <3>1, <3>2
    <2> QED
      BY <2>2, <2>3 DEF Damage
  <1>2. \A i \in Ids : /\ disk'[i].dir = disk[i].dir
                       /\ disk'[i].saved => disk[i].saved /\ disk'[i].rec = disk[i].rec
    BY <1>1 DEF Owners, IInv, GoodDisk
  <1>3. Dirs' = Dirs
    BY <1>2 DEF Dirs
  <1>4. UNCHANGED <<slots, ready, pc>>
    BY DEF Damage, tableVars, workerVars
  <1> QED
    BY <1>2, <1>3, <1>4 DEF Owners, Table, Owned, Used

-----------------------------------------------------------------------------
(* Restore, directory by directory *)

\* What restore_one decides about one directory.
LEMMA RestoredAs ==
  ASSUME Owners, NEW id \in Ids, NEW seq \in Nat, NEW known,
         NEW rec, rec = Restored(id, seq, known)
  PROVE  /\ rec.id = id
         /\ rec.seq = IF disk[id].saved THEN disk[id].rec.seq ELSE seq
         /\ rec.state = "COMPLETED" =>
              rec.done = disk[id].media /\ rec.total = disk[id].media /\ disk[id].media > 0
         /\ rec.state # "COMPLETED" =>
              /\ rec.done = KeptPart(id)
              /\ rec.total \in {0, disk[id].rec.total}
              /\ \/ disk[id].media = 0 \/ ~disk[id].saved
                 \/ disk[id].rec.total \notin {0, disk[id].media}
         /\ rec.state = "CANCELLED" => disk[id].saved /\ disk[id].rec.state = "CANCELLED"
  <1> DEFINE old == disk[id].rec
             media == disk[id].media
             part == disk[id].part
  <1>1. /\ old \in Rec /\ disk[id].saved \in BOOLEAN /\ (disk[id].saved => old.id = id)
        /\ media \in Nat
    BY DEF Owners, Owned, IInv, GoodDisk, GoodDir, GoodRec
  <1>2. CASE ~disk[id].saved
    <2> DEFINE base == [EmptyRec EXCEPT !.id = id, !.seq = seq]
    <2>1. /\ base \in Rec /\ base.id = id /\ base.seq = seq /\ base.total = 0
          /\ rec = Rebuilt(id, seq, known) /\ KeptPart(id) = part
      BY <1>2, EmptyIsGood DEF EmptyRec, GoodRec, Rec, Restored, KeptPart, Oversized
    <2>2. CASE media > 0 /\ id \in known
      <3>1. rec = [base EXCEPT !.state = "COMPLETED", !.done = media, !.total = media]
        BY <2>1, <2>2 DEF Rebuilt
      <3> HIDE DEF base, media, part, old
      <3>2. /\ rec.id = base.id /\ rec.seq = base.seq /\ rec.state = "COMPLETED"
            /\ rec.done = media /\ rec.total = media
        BY <2>1, <3>1 DEF Rec
      <3> QED
        BY <1>2, <2>1, <2>2, <3>2 DEF media
    <2>3. CASE ~(media > 0 /\ id \in known)
      <3>1. rec = [base EXCEPT !.state = "FAILED", !.err = "CORRUPT", !.done = part]
        BY <2>1, <2>3 DEF Rebuilt
      <3> HIDE DEF base, media, part, old
      <3>2. /\ rec.id = base.id /\ rec.seq = base.seq /\ rec.state = "FAILED"
            /\ rec.done = part /\ rec.total = base.total
        BY <2>1, <3>1 DEF Rec
      <3> QED
        BY <1>2, <2>1, <3>2
    <2> QED BY <2>2, <2>3
  <1>3. CASE disk[id].saved /\ MediaWhole(id)
    <2>1. rec = [old EXCEPT !.state = "COMPLETED", !.err = "NONE", !.done = media, !.total = media]
      BY <1>3 DEF Restored
    <2> HIDE DEF old, media
    <2>2. /\ rec.id = old.id /\ rec.seq = old.seq /\ rec.state = "COMPLETED"
          /\ rec.done = media /\ rec.total = media
      BY <1>1, <2>1 DEF Rec
    <2> QED
      BY <1>1, <1>3, <2>2 DEF old, media, MediaWhole
  <1>4. CASE disk[id].saved /\ ~MediaWhole(id) /\ old.state = "COMPLETED"
    <2>1. rec = [old EXCEPT !.state = "FAILED", !.err = "CORRUPT", !.done = part]
          /\ KeptPart(id) = part
      BY <1>4 DEF Restored, KeptPart, Oversized
    <2> HIDE DEF old, part
    <2>2. /\ rec.id = old.id /\ rec.seq = old.seq /\ rec.state = "FAILED"
          /\ rec.done = part /\ rec.total = old.total
      BY <1>1, <2>1 DEF Rec
    <2> QED
      BY <1>1, <1>4, <2>1, <2>2 DEF old, MediaWhole
  <1>5. CASE disk[id].saved /\ ~MediaWhole(id) /\ old.state # "COMPLETED"
    <2> DEFINE st == IF old.state = "DOWNLOADING" THEN "QUEUED" ELSE old.state
    <2>1. rec = [old EXCEPT !.state = st, !.done = KeptPart(id)]
      BY <1>1, <1>5, ApplyIs DEF Restored, Rec
    <2>2. st # "COMPLETED" /\ (st = "CANCELLED" => old.state = "CANCELLED")
      BY <1>5
    <2> HIDE DEF st, old
    <2>3. /\ rec.id = old.id /\ rec.seq = old.seq /\ rec.state = st
          /\ rec.done = KeptPart(id) /\ rec.total = old.total
      BY <1>1, <2>1 DEF Rec
    <2> QED
      BY <1>1, <1>5, <2>2, <2>3 DEF old, MediaWhole
  <1> QED BY <1>1, <1>2, <1>3, <1>4, <1>5

\* The table dl_manager_init makes of the directories: place says which slot
\* each one gets, last which place in line the saved ones end at, known the
\* finished films whose metadata can be read.
RestoredTable(place, last, known) ==
  /\ \A id \in Dirs : place[id] \in Slots
  /\ \A i, j \in Dirs : place[i] = place[j] => i = j
  /\ last \in Nat
  /\ \A id \in Dirs : disk[id].saved => disk[id].rec.seq <= last
  /\ \A id \in Dirs : PlaceInLine(place, last, id) \in Nat
  /\ \A id \in Dirs :
       /\ slots'[place[id]].used /\ ~slots'[place[id]].active
       /\ slots'[place[id]].rec = Restored(id, PlaceInLine(place, last, id), known)
       /\ disk'[id].dir /\ disk'[id].saved
       /\ disk'[id].rec = Restored(id, PlaceInLine(place, last, id), known)
       /\ disk'[id].part = KeptPart(id) /\ disk'[id].media = disk[id].media
  /\ \A s \in Slots : slots'[s] = EmptySlot \/ \E id \in Dirs : place[id] = s
  /\ \A id \in Ids \ Dirs : disk'[id] = disk[id]
  /\ nextSeq' = last + 1 + Cardinality({id \in Dirs : ~disk[id].saved})

LEMMA RestoreIs ==
  ASSUME Owners, Restore
  PROVE  \E place, last, known : RestoredTable(place, last, known)
  <1>1. PICK place \in Placements, last \in SavedSeqs \cup {0}, known \in SUBSET Bare :
          /\ \A k \in SavedSeqs : k <= last
          /\ LET rec == [id \in Dirs |-> Restored(id, PlaceInLine(place, last, id), known)]
             IN /\ slots' = [s \in Slots |->
                     IF \E id \in Dirs : place[id] = s
                     THEN [EmptySlot EXCEPT !.used = TRUE,
                                            !.rec = rec[CHOOSE id \in Dirs : place[id] = s]]
                     ELSE EmptySlot]
                /\ disk' = [id \in Ids |->
                     IF id \in Dirs /\ place[id] \in Slots
                     THEN [disk[id] EXCEPT !.saved = TRUE, !.rec = rec[id], !.part = KeptPart(id)]
                     ELSE disk[id]]
          /\ nextSeq' = last + 1 + Cardinality({id \in Dirs : ~disk[id].saved})
    BY DEF Restore
  <1> DEFINE rec == [id \in Dirs |-> Restored(id, PlaceInLine(place, last, id), known)]
  <1>2. Dirs \subseteq Ids /\ IsFiniteSet(Dirs) /\ Cardinality(Dirs) \in Nat
        /\ Cardinality(Dirs) <= NSlots
    BY DirsFit DEF Dirs
  <1>3. place \in [Dirs -> 1..Cardinality(Dirs)]
        /\ \A i, j \in Dirs : place[i] = place[j] => i = j
    BY DEF Placements
  <1>4. \A id \in Dirs : place[id] \in Slots
    BY <1>2, <1>3, ConstantsAssumption DEF Slots
  <1>5. last \in Nat
    BY <1>2 DEF SavedSeqs, Owners, IInv, GoodDisk, GoodDir, GoodRec, Rec
  <1>6. \A id \in Dirs : disk[id].saved => disk[id].rec.seq <= last
    BY <1>1 DEF SavedSeqs
  <1>7. \A id \in Dirs : PlaceInLine(place, last, id) \in Nat
    <2> TAKE id \in Dirs
    <2> DEFINE before == {j \in Dirs : ~disk[j].saved /\ place[j] <= place[id]}
    <2>1. Cardinality(before) \in Nat
      BY <1>2, FS_Subset, FS_CardinalityType
    <2>2. PlaceInLine(place, last, id) = last + Cardinality(before)
      BY DEF PlaceInLine
    <2> HIDE DEF before
    <2> QED
      BY <1>5, <2>1, <2>2
  <1>8. /\ slots' = [s \in Slots |->
                     IF \E id \in Dirs : place[id] = s
                     THEN [EmptySlot EXCEPT !.used = TRUE,
                                            !.rec = rec[CHOOSE id \in Dirs : place[id] = s]]
                     ELSE EmptySlot]
        /\ disk' = [id \in Ids |->
                     IF id \in Dirs /\ place[id] \in Slots
                     THEN [disk[id] EXCEPT !.saved = TRUE, !.rec = rec[id], !.part = KeptPart(id)]
                     ELSE disk[id]]
    BY <1>1
  <1>9. \A id \in Dirs : rec[id] = Restored(id, PlaceInLine(place, last, id), known)
    OBVIOUS
  <1> HIDE DEF rec
  <1>10. \A id \in Dirs :
           /\ slots'[place[id]].used /\ ~slots'[place[id]].active
           /\ slots'[place[id]].rec = rec[id]
    <2> TAKE id \in Dirs
    <2> DEFINE new == [EmptySlot EXCEPT !.used = TRUE, !.rec = rec[id]]
    <2>1. (CHOOSE i \in Dirs : place[i] = place[id]) = id
      BY <1>3
    <2>2. slots'[place[id]] = new
      BY <1>4, <1>8, <2>1
    <2>3. new.used /\ ~new.active /\ new.rec = rec[id]
      BY DEF EmptySlot
    <2> QED
      BY <2>2, <2>3
  <1>11. \A s \in Slots : slots'[s] = EmptySlot \/ \E id \in Dirs : place[id] = s
    BY <1>8
  <1>12. \A id \in Dirs :
           /\ disk'[id].dir /\ disk'[id].saved
           /\ disk'[id].rec = rec[id]
           /\ disk'[id].part = KeptPart(id) /\ disk'[id].media = disk[id].media
    <2> TAKE id \in Dirs
    <2> DEFINE new == [disk[id] EXCEPT !.saved = TRUE, !.rec = rec[id], !.part = KeptPart(id)]
    <2>1. disk[id] \in GoodDir /\ disk[id].dir
      BY <1>2 DEF Owners, IInv, GoodDisk, Dirs
    <2>2. disk'[id] = new
      BY <1>2, <1>4, <1>8
    <2>3. new.rec = rec[id] /\ new.part = KeptPart(id) /\ new.media = disk[id].media
      BY <2>1 DEF GoodDir
    <2>4. new.saved
      BY <2>1 DEF GoodDir
    <2>5. new.dir = disk[id].dir
      BY <2>1 DEF GoodDir
    <2> HIDE DEF new
    <2> QED
      BY <2>1, <2>2, <2>3, <2>4, <2>5
  <1>13. \A id \in Ids \ Dirs : disk'[id] = disk[id]
    BY <1>8
  <1>14. nextSeq' = last + 1 + Cardinality({id \in Dirs : ~disk[id].saved})
    BY <1>1
  <1>15. RestoredTable(place, last, known)
    BY <1>3, <1>4, <1>5, <1>6, <1>7, <1>9, <1>10, <1>11, <1>12, <1>13, <1>14
    DEF RestoredTable
  <1> QED
    BY <1>15

LEMMA RestoreOwns ==
  ASSUME Owners, Restore
  PROVE  Table' /\ Owned'
  <1>1. PICK place, last, known : RestoredTable(place, last, known)
    BY RestoreIs
  <1>2. ready' /\ pc' = "idle"
    BY DEF Restore
  <1>3. \A id \in Dirs : disk'[id].rec.id = id /\ slots'[place[id]].rec.id = id
    BY <1>1, RestoredAs DEF RestoredTable, Dirs
  <1>4. Table'
    BY <1>1, <1>2 DEF RestoredTable, Table
  <1>5. \A id \in Ids : disk'[id].saved => disk'[id].rec.id = id
    BY <1>1, <1>3 DEF RestoredTable, Owners, Owned
  <1>6. Dirs' \subseteq Dirs
    BY <1>1 DEF RestoredTable, Dirs
  <1>7. \A id \in Dirs : \E s \in Used' : slots'[s].rec.id = id
    BY <1>1, <1>3 DEF RestoredTable, Used
  <1> QED
    BY <1>2, <1>4, <1>5, <1>6, <1>7 DEF Owned

-----------------------------------------------------------------------------
(* The endings of an attempt *)

\* What finish() makes of an attempt that was not removed: a completed film, a
\* cancelled item without bytes, or an entry with the bytes the attempt left.
Ended(rec, due, d) ==
  /\ Settle(rec, due, d)
  /\ rec.id = r.id /\ rec.seq = r.seq /\ rec.total = r.total
  /\ \/ /\ out.kind = "DONE"
        /\ rec.state = "COMPLETED" /\ rec.done = r.done /\ d = disk
     \/ /\ Ctl = "CANCEL" /\ out.kind = "CTL"
        /\ rec.state = "CANCELLED" /\ rec.done = 0 /\ d = SetPart(disk, r.id, 0)
     \/ /\ out.kind # "DONE" /\ ~(Ctl = "CANCEL" /\ out.kind = "CTL")
        /\ rec.state \in {"PAUSED", "QUEUED", "FAILED"} /\ rec.done = r.done /\ d = disk

LEMMA FinishEnds ==
  ASSUME IInv, Finish
  PROVE  FinishRemoved \/ \E rec, due, d : Ended(rec, due, d)
  <1>1. pc = "finish" /\ r \in Rec /\ r.state = "DOWNLOADING"
    BY CurrentItem DEF Finish, InAttempt
  <1>2. CASE FinishDone
    <2> DEFINE rec == [r EXCEPT !.state = "COMPLETED", !.err = "NONE", !.attempts = 0]
    <2>1. Settle(rec, slots[cur].due, disk) /\ out.kind = "DONE"
      BY <1>1, <1>2, ApplyIs DEF FinishDone
    <2>2. /\ rec.id = r.id /\ rec.seq = r.seq /\ rec.total = r.total
          /\ rec.state = "COMPLETED" /\ rec.done = r.done
      BY <1>1 DEF Rec
    <2> HIDE DEF rec
    <2>3. Ended(rec, slots[cur].due, disk)
      BY <2>1, <2>2 DEF Ended
    <2> QED BY <2>3
  <1>3. CASE FinishCancelled
    <2> DEFINE rec == [r EXCEPT !.state = "CANCELLED", !.done = 0, !.err = "NONE"]
    <2>1. /\ Settle(rec, slots[cur].due, SetPart(disk, r.id, 0))
          /\ Ctl = "CANCEL" /\ out.kind = "CTL"
      BY <1>1, <1>3, ApplyIs DEF FinishCancelled
    <2>2. /\ rec.id = r.id /\ rec.seq = r.seq /\ rec.total = r.total
          /\ rec.state = "CANCELLED" /\ rec.done = 0
      BY <1>1 DEF Rec
    <2> HIDE DEF rec
    <2>3. Ended(rec, slots[cur].due, SetPart(disk, r.id, 0))
      BY <2>1, <2>2 DEF Ended
    <2> QED BY <2>3
  <1>4. ASSUME NEW st \in {"PAUSED", "QUEUED", "FAILED"}, NEW err, NEW n, NEW due, NEW rec,
               rec = [r EXCEPT !.state = st, !.err = err, !.attempts = n],
               Settle(rec, due, disk),
               out.kind # "DONE", ~(Ctl = "CANCEL" /\ out.kind = "CTL")
        PROVE  \E rec1, due1, d1 : Ended(rec1, due1, d1)
    <2>1. /\ rec.id = r.id /\ rec.seq = r.seq /\ rec.total = r.total
          /\ rec.state = st /\ rec.done = r.done
      BY <1>1, <1>4 DEF Rec
    <2>2. Ended(rec, due, disk)
      BY <1>4, <2>1 DEF Ended
    <2> QED BY <2>2
  <1>5. \A st, err, n :
          /\ [r EXCEPT !.state = st] = [r EXCEPT !.state = st, !.err = r.err, !.attempts = r.attempts]
          /\ [r EXCEPT !.state = st, !.err = err]
               = [r EXCEPT !.state = st, !.err = err, !.attempts = r.attempts]
    BY <1>1 DEF Rec
  <1>6. CASE FinishPaused
    <2>1. Settle([r EXCEPT !.state = "PAUSED", !.err = r.err, !.attempts = r.attempts],
                 slots[cur].due, disk)
      BY <1>1, <1>5, <1>6, ApplyIs DEF FinishPaused
    <2> QED BY <1>4, <1>6, <2>1 DEF FinishPaused
  <1>7. CASE FinishSpace
    <2>1. Settle([r EXCEPT !.state = "PAUSED", !.err = out.err, !.attempts = r.attempts], TRUE, disk)
      BY <1>1, <1>5, <1>7, ApplyIs DEF FinishSpace
    <2> QED BY <1>4, <1>7, <2>1 DEF FinishSpace
  <1>8. CASE FinishSuspended
    <2>1. Settle([r EXCEPT !.state = "QUEUED", !.err = r.err, !.attempts = r.attempts], TRUE, disk)
      BY <1>1, <1>5, <1>8, ApplyIs DEF FinishSuspended
    <2> QED BY <1>4, <1>8, <2>1 DEF FinishSuspended
  <1>9. /\ Failed("FAIL_RETRY")
             = [r EXCEPT !.state = "QUEUED", !.err = out.err, !.attempts = AttemptsNow]
        /\ Failed("FAIL") = [r EXCEPT !.state = "FAILED", !.err = out.err, !.attempts = AttemptsNow]
    BY <1>1, ApplyIs DEF Failed
  <1>10. CASE FinishAuth
    BY <1>4, <1>9, <1>10 DEF FinishAuth
  <1>11. CASE FinishRetry
    BY <1>4, <1>9, <1>11 DEF FinishRetry
  <1>12. CASE FinishFailed
    BY <1>4, <1>9, <1>12 DEF FinishFailed
  <1> QED
    BY <1>2, <1>3, <1>6, <1>7, <1>8, <1>10, <1>11, <1>12 DEF Finish

LEMMA FinishIsEntryStep ==
  ASSUME Owners, Finish, NEW rec, NEW due, NEW d, Ended(rec, due, d)
  PROVE  EntryStep(cur) /\ slots'[cur].rec = rec /\ ~slots'[cur].active
  <1>1. InAttempt /\ OnAir
    BY DEF Finish, InAttempt, OnAir, envVars
  <1>2. Settle(rec, due, d) /\ rec.id = r.id /\ d \in {disk, SetPart(disk, r.id, 0)}
    BY DEF Ended
  <1> QED
    BY <1>1, <1>2, SettleIsEntryStep

-----------------------------------------------------------------------------
(* The kinds of step there are *)

Cleared ==
  \/ Crash
  \/ \E id \in Ids : CrashInEnqueue(id)
  \/ \E s \in Slots : CrashInRemove(s)
  \/ SvcJoined

LEMMA AsideIs ==
  ASSUME \/ Gate \/ NothingDue \/ UNCHANGED vars
         \/ SignIn \/ SignOut \/ PlayHeavy \/ PlayLightOrEnd \/ SvcStop \/ SpaceChange \/ Revoke
  PROVE  AsideStep
  BY DEF AsideStep, OnAir, Gate, NothingDue, SignIn, SignOut, PlayHeavy, PlayLightOrEnd,
     SvcStop, SpaceChange, Revoke, vars, tableVars, gateVars, workerVars, envVars

LEMMA StepKinds ==
  ASSUME Owners, [Next]_vars
  PROVE  \/ \E s \in Slots : EntryStep(s) \/ RemovalStep(s)
         \/ AsideStep
         \/ \E id \in Ids, hint \in Hints : EnqueueNew(id, hint)
         \/ Cleared
         \/ Restore
         \/ \E id \in Ids : Damage(id)
  <1>1. CASE UserCall
    <2>1. ASSUME NEW s \in Slots,
                 \/ Requeue(s) \/ RequeueRefused(s)
                 \/ PauseIdle(s) \/ Again(s, "RESUME") \/ Again(s, "RETRY") \/ CancelIdle(s)
                 \/ RemoveIdle(s)
                 \/ Post(s, "PAUSE") \/ Post(s, "CANCEL") \/ Withdraw(s) \/ RemoveActive(s)
          PROVE  EntryStep(s) \/ RemovalStep(s)
      BY <2>1, RequeueIsEntryStep, ControlIsEntryStep, PostedIsEntryStep, RemovalSteps
    <2> QED
      BY <1>1, <2>1 DEF UserCall, Calling
  <1>2. CASE Worker
    <2>1. InAttempt => cur \in Slots
      BY CurrentItem DEF Owners
    <2>2. CASE Finish
      <3>1. InAttempt
        BY <2>2 DEF Finish, InAttempt
      <3> QED
        BY <2>1, <2>2, <3>1, FinishEnds, FinishIsEntryStep, RemovalSteps DEF Owners
    <2>3. CASE InTransfer
      BY <2>1, <2>3, TransferIsEntryStep
    <2> QED
      BY <1>2, <2>2, <2>3, PickIsEntryStep, AsideIs DEF Worker, InTransfer, BodyEnds
  <1>3. CASE Environment
    BY <1>3, AsideIs, PostedIsEntryStep DEF Environment, Cleared
  <1> QED
    BY <1>1, <1>2, <1>3, AsideIs DEF Next

LEMMA OwnersKept == ASSUME Owners, [Next]_vars PROVE Owners'
  <1>1. IInv'
    BY StepGood DEF Owners
  <1>2. Table' /\ Owned'
    BY <1>1, StepKinds, EntryStepOwns, RemovalOwns, AsideStepOwns, EnqueueOwns, CrashOwns,
       RestoreOwns, DamageOwns DEF Cleared
  <1> QED
    BY <1>1, <1>2 DEF Owners

LEMMA OwnersStart == ASSUME Init PROVE Owners
  <1>1. ~EmptySlot.used /\ ~EmptyDir.dir /\ ~EmptyDir.saved
    BY DEF EmptySlot, EmptyDir
  <1>2. Used = {} /\ Dirs = {}
    BY <1>1 DEF Init, Used, Dirs
  <1>3. Cardinality(Dirs) = 0
    BY <1>2, FS_EmptySet
  <1>4. Table
    BY <1>2 DEF Init, Table
  <1>5. Cardinality(Dirs) <= NSlots
    BY <1>3, ConstantsAssumption
  <1>6. \A id \in Ids : ~disk[id].saved
    BY <1>1 DEF Init
  <1>7. Owned
    BY <1>2, <1>5, <1>6 DEF Owned, Init
  <1> QED
    BY <1>4, <1>7, InitGood DEF Owners

LEMMA OwnersAlways == Spec => []Owners
  <1>1. Init => Owners
    BY OwnersStart
  <1>2. Owners /\ [Next]_vars => Owners'
    BY OwnersKept
  <1> QED
    BY <1>1, <1>2, PTL DEF Spec

-----------------------------------------------------------------------------
(* What follows whatever the user does *)

\* While the app runs a directory belongs to an entry the user sees or to an
\* item whose removal still waits for the worker: what has been removed, by the
\* call itself or by the finish() of the transfer, is gone from the disk too,
\* and no later restart finds it.  (Of a removal that waits it says nothing: a
\* power cut undoes it.)
THEOREM RemovedIsGoneAlways == Spec => []RemovedIsGone
  <1>1. ASSUME Owners, ready, NEW id \in Ids, disk[id].dir
        PROVE  SlotsOf(id) # {} \/ RemovalPending(id)
    <2>1. PICK s \in Used : slots[s].rec.id = id
      BY <1>1 DEF Owners, Owned, Dirs
    <2>2. CASE slots[s].removing
      BY <2>1, <2>2 DEF RemovalPending
    <2>3. CASE ~slots[s].removing
      BY <2>1, <2>3 DEF SlotsOf, Visible
    <2> QED BY <2>2, <2>3
  <1>2. Owners => RemovedIsGone
    BY <1>1 DEF RemovedIsGone
  <1> QED
    BY <1>2, OwnersAlways, PTL

LEMMA CompletedStays ==
  ASSUME Owners, [Next]_vars, NEW s \in Slots, slots[s].rec.state = "COMPLETED", ready'
  PROVE  slots'[s].rec.state = "COMPLETED" \/ ~slots'[s].used
  <1>1. slots[s].used
    BY DEF Owners, Table, EmptySlot, EmptyRec
  <1>2. ready
    BY <1>1 DEF Owners, Table, Used
  <1>3. ASSUME NEW t \in Slots, EntryStep(t)
        PROVE  slots'[s].rec.state = "COMPLETED"
    BY <1>3 DEF EntryStep, SlotStep
  <1>4. ASSUME NEW t \in Slots, RemovalStep(t)
        PROVE  slots'[s].rec.state = "COMPLETED" \/ ~slots'[s].used
    BY <1>4 DEF RemovalStep, Owners, IInv, EmptySlot
  <1>5. ASSUME NEW id \in Ids, NEW hint \in Hints, EnqueueNew(id, hint)
        PROVE  slots'[s].rec.state = "COMPLETED"
    <2>1. PICK t \in Slots : ~slots[t].used /\ \A u \in Slots \ {t} : slots'[u] = slots[u]
      BY <1>5, EnqueueIs DEF Owners
    <2> QED
      BY <1>1, <2>1
  <1>6. CASE AsideStep
    BY <1>6 DEF AsideStep
  <1>7. ~Cleared
    BY DEF Cleared, Crash, CrashInEnqueue, CrashInRemove, PowerOff, SvcJoined
  <1>8. ~Restore
    BY <1>2 DEF Restore, Owners, Table
  <1>9. \A id \in Ids : ~Damage(id)
    BY <1>2 DEF Damage, Owners, Table
  <1> QED
    BY <1>3, <1>4, <1>5, <1>6, <1>7, <1>8, <1>9, StepKinds

\* A finished download is never lost to a late call, a retry or an attempt:
\* while the app runs, the only way out of COMPLETED is the user removing it.
THEOREM CompletedIsFinalAlways == Spec => CompletedIsFinal
  <1>1. Owners /\ Next =>
          \A s \in Slots :
            slots[s].rec.state = "COMPLETED" /\ ready' =>
              \/ slots'[s].rec.state = "COMPLETED"
              \/ ~slots'[s].used
    BY CompletedStays
  <1> QED
    BY <1>1, OwnersAlways, PTL DEF Spec, CompletedIsFinal

LEMMA FinishObeys ==
  ASSUME IInv, Next, NEW s \in Slots, slots[s].active, pc = "finish", pc' = "idle"
  PROVE  /\ slots[s].ctl = "REMOVE" => ~slots'[s].used /\ ~disk'[r.id].dir
         /\ slots[s].ctl = "CANCEL" /\ out.kind = "CTL" =>
              slots'[s].rec.state = "CANCELLED" /\ disk'[r.id].part = 0
  <1>1. s = cur /\ InAttempt
    BY DEF IInv, OneTransfer, InAttempt
  <1>2. Finish
    <2>1. ~UserCall
      BY DEF UserCall, EnqueueNew, Requeue, RequeueRefused, PauseIdle, Again, CancelIdle,
         IdleTransition, RemoveIdle, Post, Withdraw, RemoveActive, workerVars
    <2>2. ~Restore
      BY DEF Restore
    <2>3. ~Environment
      BY DEF Environment, SignIn, SignOut, PlayHeavy, PlayLightOrEnd, SvcStop, SvcJoined, Crash,
         CrashInEnqueue, CrashInRemove, PowerOff, Damage, Tick, SpaceChange, Revoke, workerVars
    <2>4. Worker
      BY <2>1, <2>2, <2>3 DEF Next
    <2> QED
      BY <2>4 DEF Worker, Gate, Pick, NothingDue, AttemptStart, Connect, HeadStop, HeadFail,
         HeadRefused, HeadComplete, HeadInconsistent, HeadPartial, HeadWhole, HeadBody, HeadUncut,
         BodyRecv, BodyEnd, BodyStop, BodyFail, BodySpace, VerifyEmpty, VerifyBad, VerifyGood,
         Rename, End
  <1>3. slots[cur] \in GoodSlot /\ r.id \in Ids /\ disk \in GoodDisk
        /\ slots \in [Slots -> GoodSlot] /\ cur \in Slots
    BY <1>1, CurrentItem DEF IInv
  <1>4. ASSUME slots[cur].ctl = "REMOVE"
        PROVE  ~slots'[cur].used /\ ~disk'[r.id].dir
    <2>1. FinishRemoved
      BY <1>2, <1>4 DEF Finish, FinishDone, FinishCancelled, FinishPaused, FinishSpace,
         FinishSuspended, FinishAuth, FinishRetry, FinishFailed, Ctl
    <2> QED
      BY <1>3, <2>1 DEF FinishRemoved, EmptySlot, EmptyDir, GoodDisk
  <1>5. ASSUME slots[cur].ctl = "CANCEL", out.kind = "CTL"
        PROVE  slots'[cur].rec.state = "CANCELLED" /\ disk'[r.id].part = 0
    <2>1. PICK rec, due, d : Ended(rec, due, d)
      BY <1>2, <1>5, FinishEnds DEF FinishRemoved, Ctl
    <2>2. /\ Settle(rec, due, d) /\ rec.id = r.id
          /\ rec.state = "CANCELLED" /\ d = SetPart(disk, r.id, 0)
      BY <1>5, <2>1 DEF Ended, Ctl
    <2>3. slots'[cur].rec = rec
      BY <1>3, <2>2 DEF Settle, GoodSlot
    <2>4. d \in GoodDisk /\ d[r.id].part = 0
      BY <1>3, <2>2, PartGood, SetPartIs, FirstAttempt
    <2>5. disk'[r.id].part = 0
      BY <1>3, <2>2, <2>4, SaveIs DEF Settle
    <2> QED
      BY <2>2, <2>3, <2>5
  <1> QED
    BY <1>1, <1>4, <1>5

\* "Control calls on the active item are posted to it and take effect":
\* finish() obeys a removal however the attempt ended, and a cancel when it was
\* the cancel that ended it.
THEOREM StopIsObeyedAlways == Spec => StopIsObeyed
  <1>1. IInv /\ Next =>
          \A s \in Slots :
            slots[s].active /\ pc = "finish" /\ pc' = "idle" =>
              /\ slots[s].ctl = "REMOVE" => ~slots'[s].used /\ ~disk'[r.id].dir
              /\ slots[s].ctl = "CANCEL" /\ out.kind = "CTL" =>
                   slots'[s].rec.state = "CANCELLED" /\ disk'[r.id].part = 0
    BY FinishObeys
  <1> QED
    BY <1>1, IInvAlways, PTL DEF Spec, StopIsObeyed
-----------------------------------------------------------------------------
(* The books                                                               *)
(*                                                                         *)
(* What the records on disk promise for a restart needs that nobody adds   *)
(* an item again whose removal is pending: the removal would take the new  *)
(* item's directory with it.                                               *)

OncePerItem == ~ReAddWhileRemoving

(* A record on disk has a place in line, and a cancelled item no bytes.     *)
SavedRec(id) ==
  /\ disk[id].rec.seq > 0
  /\ disk[id].rec.state = "CANCELLED" => disk[id].part = 0

(* The lengths a body can have: the film's, or whatever has come when the   *)
(* server does not name it.                                                 *)
Lengths == IF lengthNamed THEN {0, Size} ELSE 0..Size

(* What only the manager wrote: the record names no length that the files   *)
(* contradict, and a finished film has one.                                 *)
Undamaged(id) ==
  damages = 0 =>
    LET d == disk[id]
    IN /\ d.media \in Lengths /\ d.rec.total \in Lengths
       /\ d.rec.total = 0 \/ d.part <= d.rec.total
       /\ d.media > 0 => d.saved /\ d.part = 0 /\ d.rec.total \in {0, d.media}

(* The records together: no two have the same place in line.                *)
Saved ==
  /\ \A id \in Ids : ~disk[id].dir => disk[id] = EmptyDir
  /\ \A id \in Ids : disk[id].saved => SavedRec(id)
  /\ \A id \in Ids : Undamaged(id)
  /\ \A i, j \in Ids :
       disk[i].saved /\ disk[j].saved /\ disk[i].rec.seq = disk[j].rec.seq => i = j

(* An entry of the table is on disk, in the same state and place in line;   *)
(* an idle one claims no byte that is not there, a completed one the film.  *)
Entry(s) ==
  LET rec == slots[s].rec
      d == disk[slots[s].rec.id]
  IN /\ d.saved /\ d.rec.seq = rec.seq /\ d.rec.state = rec.state
     /\ rec.seq < nextSeq
     /\ damages = 0 => rec.total \in Lengths
     /\ ~slots[s].active /\ rec.state # "COMPLETED" =>
          /\ rec.done <= d.part
          /\ rec.state = "CANCELLED" => rec.done = 0 /\ d.part = 0
          /\ damages = 0 => /\ d.media = 0
                            /\ rec.total = 0 \/ d.part <= rec.total
     /\ rec.state = "COMPLETED" /\ damages = 0 =>
          d.media > 0 /\ rec.done = d.media /\ rec.total = d.media

Entries ==
  /\ \A s \in Used : Entry(s)
  /\ \A s, t \in Used : slots[s].rec.id = slots[t].rec.id => s = t

(* The transfer: the worker counts the bytes on disk, all of them unless a  *)
(* write went wrong; what is verified and renamed has the length the record *)
(* will name; and the lengths fit the files at every point where the power  *)
(* may go.                                                                  *)
Achieved == pc = "finish" /\ out.kind = "DONE"

Transfer ==
  InAttempt =>
    LET d == disk[r.id]
    IN /\ r.seq = slots[cur].rec.seq
       /\ pc \in {"connect", "head", "body", "verify", "rename"} => r.done = d.part
       /\ pc = "finish" /\ ~Achieved => r.done <= d.part
       /\ pc \in {"verify", "rename"} \/ Achieved => r.total = r.done
       /\ pc = "rename" \/ Achieved => r.done > 0
       /\ damages = 0 =>
            /\ r.total \in Lengths
            /\ r.total = 0 \/ d.part <= r.total
            /\ d.media = IF Achieved THEN r.done ELSE 0
            /\ pc \in {"start", "connect", "head", "body"} => d.rec.total = r.total
            /\ pc = "body" => r.total = Size \/ (r.total = 0 /\ ~lengthNamed)
            /\ pc \in {"verify", "rename"} \/ Achieved => d.rec.total \in {0, r.total}

Books == Saved /\ Entries /\ Transfer

Sound == Owners /\ Books

\* The entry of a slot in use, and its directory.
LEMMA EntryIs ==
  ASSUME Sound, NEW s \in Used
  PROVE  /\ s \in Slots /\ slots[s].used /\ slots[s] \in GoodSlot /\ slots[s].rec \in Rec
         /\ slots[s].rec.id \in Ids /\ disk[slots[s].rec.id] \in GoodDir
         /\ Entry(s) /\ disk[slots[s].rec.id].saved /\ disk[slots[s].rec.id].dir
         /\ SavedRec(slots[s].rec.id) /\ Undamaged(slots[s].rec.id)
  <1>1. s \in Slots /\ slots[s].used /\ slots[s] \in GoodSlot /\ slots[s].rec \in Rec
        /\ slots[s].rec.id \in Ids
    BY SlotRecord DEF Used, Sound, Owners
  <1>2. Entry(s) /\ disk[slots[s].rec.id].saved
    BY DEF Sound, Books, Entries, Entry
  <1>3. disk[slots[s].rec.id].dir
    BY <1>1, <1>2 DEF Sound, Books, Saved, EmptyDir
  <1> QED
    BY <1>1, <1>2, <1>3 DEF Sound, Books, Saved, Owners, IInv, GoodDisk

\* What a length can be.
LEMMA InLengths == 0 \in Lengths /\ Size \in Lengths /\ Lengths \subseteq 0..Size
  BY ConstantsAssumption DEF Lengths

\* A step on one entry keeps the books, if it leaves that entry in order.
LEMMA EntryStepBooks ==
  ASSUME Sound, NEW s \in Slots, EntryStep(s),
         slots'[s].rec.seq = slots[s].rec.seq,
         Entry(s)', SavedRec(slots[s].rec.id)', Undamaged(slots[s].rec.id)'
  PROVE  Saved' /\ Entries'
  <1> DEFINE id == slots[s].rec.id
  <1>1. s \in Used /\ id \in Ids /\ disk[id].saved /\ disk[id].dir
        /\ disk[id].rec.seq = slots[s].rec.seq
    BY EntryIs DEF EntryStep, SlotStep, Entry
  <1>2. /\ slots'[s].used /\ slots'[s].rec.id = id
        /\ \A t \in Slots \ {s} : slots'[t] = slots[t]
    BY DEF EntryStep, SlotStep
  <1>3. disk'[id].dir /\ \A i \in Ids \ {id} : disk'[i] = disk[i]
    BY <1>1 DEF EntryStep, DirStep
  <1>4. disk'[id].saved /\ disk'[id].rec.seq = disk[id].rec.seq
    BY <1>1, <1>2 DEF Entry
  <1>5. nextSeq' = nextSeq /\ damages' = damages /\ Lengths' = Lengths
    BY DEF EntryStep, OnAir, Lengths
  <1>6. \A i \in Ids : ~disk'[i].dir => disk'[i] = EmptyDir
    BY <1>3 DEF Sound, Books, Saved
  <1>7. \A i \in Ids : disk'[i].saved => SavedRec(i)'
    <2> TAKE i \in Ids
    <2>1. CASE i = id
      BY <1>2, <2>1 DEF SavedRec
    <2>2. CASE i # id
      BY <1>3, <2>2 DEF Sound, Books, Saved, SavedRec
    <2> QED BY <2>1, <2>2
  <1>8. \A i \in Ids : Undamaged(i)'
    <2> TAKE i \in Ids
    <2>1. CASE i = id
      BY <1>2, <2>1 DEF Undamaged
    <2>2. CASE i # id
      BY <1>3, <1>5, <2>2 DEF Sound, Books, Saved, Undamaged
    <2> QED BY <2>1, <2>2
  <1>9. \A i \in Ids : disk'[i].saved = disk[i].saved /\ disk'[i].rec.seq = disk[i].rec.seq
    <2>1. disk'[id].saved = disk[id].saved
      BY <1>1, <1>4 DEF Sound, Owners, IInv, GoodDisk, GoodDir, EntryStep, DirStep
    <2> QED BY <1>3, <1>4, <2>1
  <1>10. Saved'
    BY <1>6, <1>7, <1>8, <1>9 DEF Sound, Books, Saved
  <1>11. Used' = Used
    BY <1>1, <1>2 DEF Used
  <1>12. \A t \in Slots : slots'[t].rec.id = slots[t].rec.id
    BY <1>2
  <1>13. \A t \in Used' : Entry(t)'
    <2> TAKE t \in Used'
    <2>1. CASE t = s
      BY <2>1
    <2>2. CASE t # s
      <3>1. t \in Used /\ t \in Slots /\ slots[t].rec.id # id /\ slots[t].rec.id \in Ids /\ Entry(t)
        BY <1>1, <1>11, <2>2, EntryIs DEF Sound, Books, Entries
      <3>2. slots'[t] = slots[t] /\ disk'[slots[t].rec.id] = disk[slots[t].rec.id]
        BY <1>2, <1>3, <2>2, <3>1
      <3> QED
        BY <1>5, <3>1, <3>2 DEF Entry
    <2> QED BY <2>1, <2>2
  <1>14. Entries'
    BY <1>11, <1>12, <1>13 DEF Sound, Books, Entries, Used
  <1> QED
    BY <1>10, <1>14

\* ... and the transfer does not notice what happens to another entry.
LEMMA OtherTransfer ==
  ASSUME Sound, NEW s \in Slots, EntryStep(s), s # cur, UNCHANGED <<pc, cur, r, out>>
  PROVE  Transfer'
  <1>1. CASE InAttempt
    <2>1. cur \in Slots /\ cur \in Used /\ slots[cur].rec.id = r.id /\ r.id \in Ids
      BY <1>1, CurrentItem DEF Used, Sound, Owners
    <2>2. slots'[cur] = slots[cur] /\ UNCHANGED <<damages, lengthNamed>>
      BY <2>1 DEF EntryStep, SlotStep, OnAir
    <2>3. s \in Used /\ slots[s].rec.id # r.id
      BY <2>1 DEF EntryStep, SlotStep, Sound, Books, Entries
    <2>4. disk'[r.id] = disk[r.id]
      BY <2>1, <2>3 DEF EntryStep, DirStep
    <2>5. Lengths' = Lengths
      BY <2>2 DEF Lengths
    <2> QED
      BY <2>2, <2>4, <2>5 DEF Sound, Books, Transfer, Achieved, InAttempt
  <1>2. CASE ~InAttempt
    BY <1>2 DEF Transfer, InAttempt
  <1> QED BY <1>1, <1>2

-----------------------------------------------------------------------------
(* The user's calls keep the books *)

\* A partial that was truncated still fits the length the whole of it fitted.
LEMMA ShorterFits ==
  ASSUME NEW p \in Nat, NEW q \in {0, p}, NEW t \in Nat, t = 0 \/ p <= t
  PROVE  t = 0 \/ q <= t
  OBVIOUS

\* The lengths an undamaged idle item knows, on the disk and in the table, fit
\* its partial, kept or truncated.
LEMMA PartFits ==
  ASSUME NEW s, ~slots[s].active, slots[s].rec.state # "COMPLETED",
         Entry(s), Undamaged(slots[s].rec.id), damages = 0,
         disk[slots[s].rec.id].part \in Nat,
         slots[s].rec.total \in Nat, disk[slots[s].rec.id].rec.total \in Nat
  PROVE  /\ disk[slots[s].rec.id].media = 0
         /\ \A t \in {0, slots[s].rec.total, disk[slots[s].rec.id].rec.total} :
            \A q \in {0, disk[slots[s].rec.id].part} : t = 0 \/ q <= t
         /\ slots[s].rec.total \in Lengths /\ disk[slots[s].rec.id].rec.total \in Lengths
  <1>1. /\ disk[slots[s].rec.id].media = 0 /\ slots[s].rec.total \in Lengths
        /\ slots[s].rec.total = 0 \/ disk[slots[s].rec.id].part <= slots[s].rec.total
    BY DEF Entry
  <1>2. /\ disk[slots[s].rec.id].rec.total \in Lengths
        /\ \/ disk[slots[s].rec.id].rec.total = 0
           \/ disk[slots[s].rec.id].part <= disk[slots[s].rec.id].rec.total
    BY DEF Undamaged
  <1> QED
    BY <1>1, <1>2, ShorterFits

\* A call on an entry the worker is not on: the record it leaves claims the
\* bytes it leaves, and what is saved agrees with it.
LEMMA IdleBooks ==
  ASSUME Sound, NEW s \in Used, ~slots[s].active, slots[s].rec.state # "COMPLETED",
         EntryStep(s), UNCHANGED <<pc, cur, r, out>>,
         slots'[s].rec.seq = slots[s].rec.seq,
         slots'[s].rec.state \in {"PAUSED", "QUEUED", "CANCELLED", "FAILED"},
         slots'[s].rec.total \in {0, slots[s].rec.total},
         slots'[s].rec.done <= disk'[slots[s].rec.id].part,
         disk'[slots[s].rec.id].part \in {0, disk[slots[s].rec.id].part},
         slots'[s].rec.state = "CANCELLED" =>
           slots'[s].rec.done = 0 /\ disk'[slots[s].rec.id].part = 0,
         disk'[slots[s].rec.id].saved,
         disk'[slots[s].rec.id].media = disk[slots[s].rec.id].media,
         disk'[slots[s].rec.id].rec.seq = slots'[s].rec.seq,
         disk'[slots[s].rec.id].rec.state = slots'[s].rec.state,
         disk'[slots[s].rec.id].rec.total \in
           {0, slots[s].rec.total, disk[slots[s].rec.id].rec.total}
  PROVE  Books'
  <1> DEFINE id == slots[s].rec.id
  <1>1. /\ s \in Slots /\ Entry(s) /\ SavedRec(id) /\ Undamaged(id)
    BY EntryIs
  <1>2. slots'[s].rec.id = id /\ UNCHANGED <<nextSeq, damages>> /\ Lengths' = Lengths
    BY DEF EntryStep, SlotStep, OnAir, Lengths
  <1>3. s # cur
    BY <1>1 DEF Sound, Owners, IInv, OneTransfer
  <1>4. /\ 0 \in Lengths
        /\ disk[id].part \in Nat /\ slots[s].rec.total \in Nat /\ disk[id].rec.total \in Nat
    <2>1. disk[id] \in GoodDir /\ slots[s].rec \in Rec
      BY EntryIs
    <2> QED
      BY <2>1, InLengths DEF GoodDir, GoodRec, Rec
  <1>7. Entry(s)'
    <2> DEFINE rec == slots'[s].rec
               d == disk'[id]
    <2>1. /\ rec.state # "COMPLETED" /\ d.saved /\ d.rec.seq = rec.seq /\ d.rec.state = rec.state
          /\ rec.seq < nextSeq /\ rec.done <= d.part
          /\ rec.state = "CANCELLED" => rec.done = 0 /\ d.part = 0
      BY <1>1 DEF Entry
    <2>2. damages = 0 => /\ rec.total \in Lengths /\ d.media = 0
                         /\ rec.total = 0 \/ d.part <= rec.total
      BY <1>1, <1>4 DEF Entry
    <2> QED
      BY <1>2, <2>1, <2>2 DEF Entry
  <1>5. SavedRec(slots[s].rec.id)'
    BY <1>1, <1>2 DEF SavedRec, Entry
  <1>6. Undamaged(slots[s].rec.id)'
    <2> DEFINE d == disk'[id]
    <2>1. damages = 0 => /\ d.media = 0 /\ d.rec.total \in Lengths
                         /\ d.rec.total = 0 \/ d.part <= d.rec.total
      BY <1>1, <1>4, PartFits
    <2> QED
      BY <1>2, <1>4, <2>1 DEF Undamaged
  <1> QED
    BY <1>1, <1>3, <1>5, <1>6, <1>7, EntryStepBooks, OtherTransfer DEF Books

\* transition() on an idle item.
LEMMA TransitionBooks ==
  ASSUME Sound, NEW s \in Slots, NEW ev, NEW rec, NEW due,
         NEW d \in {disk, SetPart(disk, slots[s].rec.id, 0)},
         IdleTransition(s, ev, rec, due, d),
         rec.id = slots[s].rec.id, rec.seq = slots[s].rec.seq, rec.total = slots[s].rec.total,
         rec.state \in {"PAUSED", "QUEUED", "CANCELLED"},
         rec.done = 0 \/ (d = disk /\ rec.done = slots[s].rec.done),
         rec.state = "CANCELLED" => rec.done = 0 /\ d[slots[s].rec.id].part = 0
  PROVE  Books'
  <1> DEFINE id == slots[s].rec.id
  <1>1. s \in Used /\ ~slots[s].active /\ slots[s].rec.state # "COMPLETED"
    BY CompletedIsEnd DEF IdleTransition, Visible
  <1>2. /\ id \in Ids /\ disk \in GoodDisk /\ disk[id].dir /\ disk[id].saved /\ Entry(s)
        /\ slots[s] \in GoodSlot /\ disk[id] \in GoodDir
    BY <1>1, EntryIs DEF Sound, Owners, IInv
  <1>3. EntryStep(s)
    BY IdleIsEntryStep DEF Sound
  <1>4. UNCHANGED <<pc, cur, r, out>>
    BY DEF IdleTransition, workerVars
  <1>5. /\ d \in GoodDisk /\ d[id].dir /\ d[id].media = disk[id].media
        /\ d[id].part \in {0, disk[id].part} /\ d[id].part \in Nat
    BY <1>2, SetPartIs, PartGood, FirstAttempt DEF GoodDir
  <1>6. slots[s].rec.done <= disk[id].part
    BY <1>1, <1>2 DEF Entry
  <1>7. rec.done <= d[id].part
    BY <1>5, <1>6
  <1>8. /\ disk'[id].saved /\ disk'[id].rec = rec
        /\ disk'[id].part = d[id].part /\ disk'[id].media = disk[id].media
    BY <1>2, <1>5, SaveIs DEF IdleTransition
  <1>9. slots'[s].rec = rec
    BY <1>2 DEF IdleTransition, Sound, Owners, IInv, GoodSlot
  <1> QED
    BY <1>1, <1>3, <1>4, <1>5, <1>7, <1>8, <1>9, IdleBooks

\* Where the events of the user lead.
LEMMA ApplyUser ==
  ASSUME NEW st \in States, NEW ev \in {"PAUSE", "CANCEL", "RESUME", "RETRY"}, Legal(st, ev)
  PROVE  Apply(st, ev) = CASE ev = "PAUSE" -> "PAUSED"
                           [] ev = "CANCEL" -> "CANCELLED"
                           [] ev \in {"RESUME", "RETRY"} -> "QUEUED"
  BY DEF Apply, Legal, Transitions, States

LEMMA ControlBooks ==
  ASSUME Sound, NEW s \in Slots,
         PauseIdle(s) \/ Again(s, "RESUME") \/ Again(s, "RETRY") \/ CancelIdle(s)
  PROVE  Books'
  <1>1. ASSUME NEW ev \in {"PAUSE", "CANCEL", "RESUME", "RETRY"}, Legal(slots[s].rec.state, ev)
        PROVE  /\ Moved(s, ev) \in Rec
               /\ Moved(s, ev).id = slots[s].rec.id /\ Moved(s, ev).seq = slots[s].rec.seq
               /\ Moved(s, ev).total = slots[s].rec.total /\ Moved(s, ev).done = slots[s].rec.done
               /\ Moved(s, ev).state = Apply(slots[s].rec.state, ev)
    <2> DEFINE st == Apply(slots[s].rec.state, ev)
    <2>1. slots[s].rec \in Rec /\ slots[s].rec.state \in States
      BY SlotRecord DEF Sound, Owners, Rec
    <2>2. st \in States
      BY <1>1, <2>1, ApplyLegal DEF Events
    <2>3. Moved(s, ev) = [slots[s].rec EXCEPT !.state = st]
      BY <2>1 DEF Moved, Rec
    <2> HIDE DEF st
    <2> QED
      BY <2>1, <2>2, <2>3 DEF Rec, st
  <1>2. slots[s].rec.state \in States
    BY SlotRecord DEF Sound, Owners, Rec
  <1>3. CASE PauseIdle(s)
    <2>1. IdleTransition(s, "PAUSE", Moved(s, "PAUSE"), slots[s].due, disk)
      BY <1>3 DEF PauseIdle
    <2>2. Legal(slots[s].rec.state, "PAUSE")
      BY <2>1 DEF IdleTransition
    <2>3. Moved(s, "PAUSE").state = "PAUSED"
      BY <1>1, <1>2, <2>2, ApplyUser
    <2> QED
      BY <1>1, <2>1, <2>2, <2>3, TransitionBooks
  <1>4. ASSUME NEW ev \in {"RESUME", "RETRY"}, Again(s, ev) PROVE Books'
    <2> DEFINE base == Moved(s, ev)
               rec == [base EXCEPT !.err = "NONE", !.attempts = 0]
    <2>1. IdleTransition(s, ev, rec, TRUE, disk)
      BY <1>4 DEF Again
    <2>2. Legal(slots[s].rec.state, ev)
      BY <2>1 DEF IdleTransition
    <2>3. /\ base \in Rec /\ base.id = slots[s].rec.id /\ base.seq = slots[s].rec.seq
          /\ base.total = slots[s].rec.total /\ base.done = slots[s].rec.done
          /\ base.state = "QUEUED"
      BY <1>1, <1>2, <2>2, ApplyUser
    <2> HIDE DEF base
    <2>4. /\ rec.id = base.id /\ rec.seq = base.seq /\ rec.total = base.total
          /\ rec.done = base.done /\ rec.state = base.state
      BY <2>3 DEF Rec
    <2> HIDE DEF rec
    <2> QED
      BY <2>1, <2>3, <2>4, TransitionBooks
  <1>5. CASE CancelIdle(s)
    <2> DEFINE base == Moved(s, "CANCEL")
               rec == [base EXCEPT !.done = 0, !.err = "NONE"]
               d == SetPart(disk, slots[s].rec.id, 0)
    <2>1. IdleTransition(s, "CANCEL", rec, slots[s].due, d)
      BY <1>5 DEF CancelIdle
    <2>2. Legal(slots[s].rec.state, "CANCEL")
      BY <2>1 DEF IdleTransition
    <2>3. /\ base \in Rec /\ base.id = slots[s].rec.id /\ base.seq = slots[s].rec.seq
          /\ base.total = slots[s].rec.total /\ base.state = "CANCELLED"
      BY <1>1, <1>2, <2>2, ApplyUser
    <2> HIDE DEF base
    <2>4. /\ rec.id = base.id /\ rec.seq = base.seq /\ rec.total = base.total
          /\ rec.done = 0 /\ rec.state = base.state
      BY <2>3 DEF Rec
    <2> HIDE DEF rec
    <2>5. d[slots[s].rec.id].part = 0
      <3>1. s \in Used
        BY <2>1 DEF IdleTransition, Visible
      <3> QED
        BY <3>1, EntryIs, SetPartIs DEF Sound, Owners, IInv
    <2> HIDE DEF d
    <2>6. d \in {disk, SetPart(disk, slots[s].rec.id, 0)}
      BY DEF d
    <2> QED
      BY <2>1, <2>3, <2>4, <2>5, <2>6, TransitionBooks
  <1> QED
    BY <1>3, <1>4, <1>5

LEMMA RequeueBooks ==
  ASSUME Sound, NEW s \in Slots, Requeue(s) \/ RequeueRefused(s)
  PROVE  Books'
  <1> DEFINE old == slots[s].rec
             id == slots[s].rec.id
             rec == [Unvouched(old) EXCEPT !.state = "QUEUED", !.err = "NONE",
                                           !.attempts = 0, !.url = TRUE]
             d == DropUnvouched(old)
  <1>1. /\ s \in Used /\ old.state \in {"FAILED", "CANCELLED"}
    BY DEF Requeue, RequeueRefused, Requeueable, Visible
  <1>2. /\ old \in Rec /\ id \in Ids /\ disk \in GoodDisk /\ disk[id].dir /\ disk[id].saved
        /\ Entry(s) /\ slots[s] \in GoodSlot /\ disk[id].part \in Nat
    BY <1>1, EntryIs DEF GoodDir, Sound, Owners, IInv
  <1>3. ~slots[s].active
    BY <1>1 DEF Sound, Owners, IInv, OneTransfer
  <1>4. EntryStep(s)
    BY RequeueIsEntryStep DEF Sound
  <1>5. UNCHANGED <<pc, cur, r, out>>
    BY DEF Requeue, RequeueRefused, workerVars
  <1>6. /\ Unvouched(old) \in Rec /\ Unvouched(old).id = id /\ Unvouched(old).state = old.state
    BY <1>2, UnvouchedIs
  <1>7. /\ Unvouched(old).seq = old.seq
        /\ Unvouched(old).total \in {0, old.total}
        /\ Unvouched(old).done = IF old.err = "CORRUPT" THEN 0 ELSE old.done
    BY <1>2 DEF Unvouched, Rec
  <1>8. old.done <= disk[id].part
    BY <1>1, <1>2, <1>3 DEF Entry
  <1>9. /\ d \in GoodDisk /\ d[id].dir /\ d[id].saved /\ d[id].rec = disk[id].rec
        /\ d[id].media = disk[id].media /\ d[id].part \in {0, disk[id].part}
        /\ Unvouched(old).done <= d[id].part
    <2>1. CASE old.err = "CORRUPT"
      <3>1. d = SetPart(disk, id, 0)
        BY <2>1 DEF DropUnvouched
      <3> HIDE DEF d
      <3> QED
        BY <1>2, <1>7, <2>1, <3>1, SetPartIs, PartGood, FirstAttempt
    <2>2. CASE old.err # "CORRUPT"
      BY <1>2, <1>7, <1>8, <2>2 DEF DropUnvouched
    <2> QED BY <2>1, <2>2
  <1> HIDE DEF d
  <1>10. /\ rec.id = id /\ rec.seq = old.seq /\ rec.state = "QUEUED"
         /\ rec.total = Unvouched(old).total /\ rec.done = Unvouched(old).done
    BY <1>6, <1>7 DEF Rec
  <1> HIDE DEF rec
  <1>11. CASE Requeue(s)
    <2>1. slots'[s].rec = rec
      BY <1>2, <1>11 DEF Requeue, Sound, Owners, IInv, GoodSlot, rec
    <2>2. disk' = Save(d, rec)
      BY <1>11 DEF Requeue, rec, d
    <2>3. /\ disk'[id].saved /\ disk'[id].rec = rec
          /\ disk'[id].part = d[id].part /\ disk'[id].media = disk[id].media
      BY <1>2, <1>9, <1>10, <2>2, SaveIs
    <2> QED
      BY <1>1, <1>3, <1>4, <1>5, <1>7, <1>9, <1>10, <2>1, <2>3, IdleBooks
  <1>12. CASE RequeueRefused(s)
    <2>1. slots'[s].rec = Unvouched(old) /\ disk' = d /\ old.state = "FAILED"
      BY <1>2, <1>12 DEF RequeueRefused, Sound, Owners, IInv, GoodSlot, d
    <2> QED
      BY <1>1, <1>2, <1>3, <1>4, <1>5, <1>6, <1>7, <1>9, <2>1, IdleBooks DEF Entry
  <1> QED BY <1>11, <1>12

\* What is posted to the worker, and time.
LEMMA PostedBooks ==
  ASSUME Sound, NEW s \in Slots,
         \/ Post(s, "PAUSE") \/ Post(s, "CANCEL") \/ Withdraw(s) \/ RemoveActive(s) \/ Tick(s)
  PROVE  Books'
  <1>1. /\ EntryStep(s) /\ UNCHANGED <<disk, pc, cur, r, out, damages>>
        /\ slots'[s].rec = slots[s].rec /\ slots'[s].active = slots[s].active
    BY PostedIsEntryStep DEF Sound
  <1>2. s \in Used /\ nextSeq' = nextSeq /\ lengthNamed' = lengthNamed /\ Lengths' = Lengths
    BY <1>1 DEF EntryStep, SlotStep, OnAir, Lengths
  <1>3. Entry(s)'
    BY <1>1, <1>2, EntryIs DEF Entry
  <1>4. SavedRec(slots[s].rec.id)' /\ Undamaged(slots[s].rec.id)'
    BY <1>1, <1>2, EntryIs DEF SavedRec, Undamaged
  <1>5. Transfer'
    <2>1. CASE s = cur
      BY <1>1, <1>2, <2>1 DEF Sound, Books, Transfer, Achieved, InAttempt
    <2>2. CASE s # cur
      BY <1>1, <2>2, OtherTransfer
    <2> QED BY <2>1, <2>2
  <1> QED
    BY <1>1, <1>3, <1>4, <1>5, EntryStepBooks DEF Books

-----------------------------------------------------------------------------
(* The worker keeps the books *)

\* The item of the transfer: its entry, its directory, and the worker's copy.
LEMMA TransferIs ==
  ASSUME Sound, InAttempt
  PROVE  /\ cur \in Used /\ cur \in Slots /\ slots[cur].active /\ slots[cur].rec.id = r.id
         /\ slots[cur].rec.state = "DOWNLOADING"
         /\ r \in Rec /\ r.id \in Ids /\ disk \in GoodDisk /\ disk[r.id] \in GoodDir
         /\ disk[r.id].dir /\ disk[r.id].saved
         /\ disk[r.id].rec.seq = r.seq /\ disk[r.id].rec.state = "DOWNLOADING"
         /\ slots[cur].rec.seq = r.seq
         /\ r.done \in 0..Size /\ disk[r.id].part \in 0..Size
         /\ damages = 0 => slots[cur].rec.total \in Lengths /\ r.total \in Lengths
         /\ Undamaged(r.id)
  <1>1. /\ cur \in Used /\ cur \in Slots /\ slots[cur].active /\ slots[cur].rec.id = r.id
        /\ r \in Rec /\ r.id \in Ids /\ disk \in GoodDisk /\ disk[r.id] \in GoodDir
    BY CurrentItem DEF Sound, Owners, Used
  <1>2. slots[cur].rec.state = "DOWNLOADING"
    BY <1>1 DEF Sound, Owners, IInv, OneTransfer
  <1>3. Entry(cur) /\ Undamaged(r.id) /\ disk[r.id].dir
    BY <1>1, EntryIs
  <1>4. r.done \in 0..Size /\ disk[r.id].part \in 0..Size
    BY <1>1 DEF Rec, GoodDir
  <1> QED
    BY <1>1, <1>2, <1>3, <1>4 DEF Entry, Sound, Books, Transfer

\* A step of attempt() keeps the table and the records in order, whatever
\* bytes it moves.
LEMMA AttemptBooks ==
  ASSUME Sound, InTransfer,
         UNCHANGED slots \/ \E rec : /\ slots' = Published(rec)
                                     /\ damages = 0 => rec.total \in Lengths,
         disk'[r.id].saved,
         disk'[r.id].rec.seq = r.seq, disk'[r.id].rec.state = "DOWNLOADING",
         \A id \in Ids : id = r.id => Undamaged(id)'
  PROVE  Saved' /\ Entries'
  <1>1. InAttempt /\ EntryStep(cur)
    BY TransferIsEntryStep DEF Sound
  <1>2. PICK s \in Slots : s = cur
    BY <1>1, TransferIs
  <1>3. s \in Used /\ slots[s].rec.id = r.id /\ r.id \in Ids /\ EntryStep(s)
    BY <1>1, <1>2, TransferIs
  <1>4. /\ slots'[s].rec.id = r.id /\ slots'[s].rec.seq = slots[s].rec.seq
        /\ slots'[s].rec.state = "DOWNLOADING" /\ slots'[s].active
        /\ damages = 0 => slots'[s].rec.total \in Lengths
    <2>1. CASE UNCHANGED slots
      BY <1>1, <1>2, <2>1, TransferIs
    <2>2. CASE \E rec : slots' = Published(rec) /\ (damages = 0 => rec.total \in Lengths)
      BY <1>1, <1>2, <2>2, TransferIs, PublishedIs DEF Sound, Owners
    <2> QED BY <2>1, <2>2
  <1>5. UNCHANGED <<nextSeq, damages>> /\ Lengths' = Lengths
    BY <1>1 DEF EntryStep, OnAir, Lengths
  <1>6. slots[s].rec.seq = r.seq /\ slots[s].rec.seq < nextSeq /\ SavedRec(r.id)
        /\ disk[r.id].rec.seq = r.seq
    BY <1>1, <1>2, <1>3, TransferIs, EntryIs DEF Entry
  <1>7. Entry(s)'
    BY <1>4, <1>5, <1>6 DEF Entry
  <1>8. SavedRec(slots[s].rec.id)'
    BY <1>4, <1>6 DEF SavedRec
  <1>9. Undamaged(slots[s].rec.id)'
    BY <1>3, <1>4 DEF Undamaged
  <1> QED
    BY <1>3, <1>4, <1>7, <1>8, <1>9, EntryStepBooks

\* The bytes, before the attempt has ended.
LEMMA BytesAre ==
  ASSUME Sound, pc \in {"start", "connect", "head", "body", "verify", "rename"}
  PROVE  /\ InAttempt
         /\ pc # "start" => r.done = disk[r.id].part
         /\ pc \in {"verify", "rename"} => r.total = r.done
         /\ pc = "rename" => r.done > 0
         /\ damages = 0 =>
              /\ disk[r.id].media = 0
              /\ r.total \in Lengths
              /\ r.total = 0 \/ disk[r.id].part <= r.total
              /\ pc \in {"start", "connect", "head", "body"} => disk[r.id].rec.total = r.total
              /\ pc = "body" => r.total = Size \/ (r.total = 0 /\ ~lengthNamed)
              /\ pc \in {"verify", "rename"} => disk[r.id].rec.total \in {0, r.total}
  BY DEF Sound, Books, Transfer, Achieved, InAttempt

LEMMA QuietBooks ==
  ASSUME Sound, Connect \/ HeadStop \/ HeadFail \/ HeadRefused \/ HeadUncut \/ HeadComplete
                \/ BodyEnd \/ VerifyEmpty
  PROVE  Books'
  <1>1. /\ InTransfer /\ InAttempt /\ UNCHANGED <<slots, disk, cur>>
        /\ pc \in {"connect", "head", "body", "verify"}
    BY DEF InTransfer, Connect, HeadStop, HeadFail, HeadRefused, HeadUncut, HeadComplete, BodyEnd,
       VerifyEmpty, InAttempt, tableVars
  <1>2. UNCHANGED <<damages, lengthNamed>> /\ Lengths' = Lengths
    BY <1>1, TransferIsEntryStep DEF EntryStep, OnAir, Sound, Lengths
  <1>3. \A id \in Ids : id = r.id => Undamaged(id)'
    BY <1>1, <1>2, TransferIs DEF Undamaged
  <1>4. Saved' /\ Entries'
    BY <1>1, <1>3, TransferIs, AttemptBooks
  <1>5. r.done = disk[r.id].part /\ disk[r.id].part \in 0..Size /\ r \in Rec
    BY <1>1, BytesAre, TransferIs
  <1>6. CASE HeadComplete \/ BodyEnd
    <2>1. /\ r' = [r EXCEPT !.total = r.done] /\ pc' = "verify" /\ pc \in {"head", "body"}
          /\ r.done = Size \/ (pc = "body" /\ r.total = 0)
      BY <1>6 DEF HeadComplete, BodyEnd
    <2>2. /\ r'.id = r.id /\ r'.seq = r.seq /\ r'.done = r.done /\ r'.total = r.done
      BY <1>5, <2>1 DEF Rec
    <2>3. damages = 0 => r.done \in Lengths /\ disk[r.id].rec.total \in {0, r.done}
      BY <1>1, <1>5, <2>1, BytesAre, InLengths, ConstantsAssumption DEF Lengths
    <2>4. damages = 0 => disk[r.id].media = 0
      BY <1>1, BytesAre
    <2> QED
      BY <1>1, <1>2, <1>4, <1>5, <2>1, <2>2, <2>3, <2>4, TransferIs DEF Books, Transfer, Achieved
  <1>7. CASE Connect \/ HeadStop \/ HeadFail \/ HeadRefused \/ HeadUncut \/ VerifyEmpty
    <2>1. /\ r' = r \/ \E total \in WholeLengths : r' = [r EXCEPT !.total = total]
          /\ pc' = "finish" \/ (pc' = "head" /\ pc = "connect" /\ r' = r)
      BY <1>7 DEF Connect, HeadStop, HeadFail, HeadRefused, HeadUncut, VerifyEmpty, End
    <2>2. /\ r'.id = r.id /\ r'.seq = r.seq /\ r'.done = r.done
          /\ r'.total = r.total \/ r'.total \in {0, Size}
      BY <1>5, <2>1, WholeLength DEF Rec
    <2>3. StopKind # "DONE"
      BY DEF StopKind
    <2>4. pc' = "finish" => out'.kind # "DONE"
      BY <1>7, <2>3 DEF Connect, HeadStop, HeadFail, HeadRefused, HeadUncut, VerifyEmpty, End
    <2>5. damages = 0 => /\ r'.total \in Lengths
                         /\ r'.total = 0 \/ disk[r.id].part <= r'.total
                         /\ disk[r.id].media = 0
                         /\ pc = "connect" => disk[r.id].rec.total = r.total
      BY <1>1, <1>5, <2>2, BytesAre, InLengths
    <2> QED
      BY <1>1, <1>2, <1>4, <1>5, <2>1, <2>2, <2>4, <2>5, TransferIs DEF Books, Transfer, Achieved
  <1> QED
    BY <1>6, <1>7

\* A body that ends before its time: the file may hold more than was counted.
LEMMA BodyEndsBooks ==
  ASSUME Sound, BodyEnds
  PROVE  Books'
  <1>1. /\ InTransfer /\ InAttempt /\ UNCHANGED <<slots, cur, r, lengthNamed>> /\ pc = "body"
        /\ pc' = "finish" /\ out'.kind # "DONE"
        /\ disk' = disk \/ \E n \in AfterBadWrite : disk' = SetPart(disk, r.id, n)
    BY BodyEndsIs DEF InTransfer
  <1>2. damages' = damages /\ Lengths' = Lengths
    BY <1>1, TransferIsEntryStep DEF EntryStep, OnAir, Sound, Lengths
  <1>3. /\ disk'[r.id].saved = disk[r.id].saved /\ disk'[r.id].rec = disk[r.id].rec
        /\ disk'[r.id].media = disk[r.id].media
        /\ disk'[r.id].part \in 0..Size /\ r.done <= disk'[r.id].part
    <2>1. CASE disk' = disk
      BY <1>1, <2>1, TransferIs, BytesAre
    <2>2. ASSUME NEW n \in AfterBadWrite, disk' = SetPart(disk, r.id, n)
          PROVE  /\ disk'[r.id].saved = disk[r.id].saved /\ disk'[r.id].rec = disk[r.id].rec
                 /\ disk'[r.id].media = disk[r.id].media
                 /\ disk'[r.id].part \in 0..Size /\ r.done <= disk'[r.id].part
      <3>1. n \in 0..Size /\ r.done <= n
        BY <1>1, BadWrite DEF Sound, Owners
      <3> QED
        BY <1>1, <2>2, <3>1, TransferIs, SetPartIs
    <2> QED
      BY <1>1, <2>1, <2>2
  <1>4. damages = 0 => /\ disk[r.id].media = 0 /\ disk[r.id].rec.total = r.total
                       /\ r.total \in {0, Size} /\ r.total \in Lengths
                       /\ 0 \in Lengths
    BY <1>1, BytesAre, InLengths
  <1>5. \A id \in Ids : id = r.id => Undamaged(id)'
    BY <1>2, <1>3, <1>4 DEF Undamaged
  <1>6. Saved' /\ Entries'
    BY <1>1, <1>3, <1>5, TransferIs, AttemptBooks
  <1> QED
    BY <1>1, <1>2, <1>3, <1>4, <1>6, TransferIs DEF Books, Transfer, Achieved

\* The steps that set the length of the partial, and the worker's copy to it.
LEMMA PartBooks ==
  ASSUME Sound, AttemptStart \/ HeadInconsistent \/ VerifyBad
  PROVE  Books'
  <1>1. /\ InTransfer /\ UNCHANGED <<slots, cur>>
        /\ pc \in {"start", "head", "verify"}
        /\ \E n \in {0, disk[r.id].part} :
             disk' = SetPart(disk, r.id, n) /\ r' = [r EXCEPT !.done = n]
    BY DEF InTransfer, AttemptStart, HeadInconsistent, VerifyBad, SpaceRefused, tableVars
  <1>2. InAttempt
    BY <1>1 DEF InAttempt
  <1>3. PICK n \in {0, disk[r.id].part} :
          disk' = SetPart(disk, r.id, n) /\ r' = [r EXCEPT !.done = n]
    BY <1>1
  <1>4. /\ disk'[r.id].saved /\ disk'[r.id].rec = disk[r.id].rec /\ disk'[r.id].part = n
        /\ disk'[r.id].media = disk[r.id].media /\ n \in Nat
    BY <1>2, <1>3, TransferIs, SetPartIs
  <1>5. UNCHANGED <<damages, lengthNamed>> /\ Lengths' = Lengths
    BY <1>1, TransferIsEntryStep DEF EntryStep, OnAir, Sound, Lengths
  <1>6. damages = 0 => /\ disk[r.id].media = 0 /\ r.total \in Lengths
                       /\ r.total = 0 \/ n <= r.total
                       /\ 0 \in Lengths
                       /\ disk[r.id].rec.total \in Lengths
                       /\ disk[r.id].rec.total = 0 \/ n <= disk[r.id].rec.total
    BY <1>1, <1>2, <1>3, InLengths, BytesAre, TransferIs DEF Undamaged
  <1>7. \A id \in Ids : id = r.id => Undamaged(id)'
    BY <1>4, <1>5, <1>6 DEF Undamaged
  <1>8. Saved' /\ Entries'
    BY <1>1, <1>2, <1>4, <1>7, TransferIs, AttemptBooks
  <1>9. /\ ~Achieved' /\ pc' \in {"connect", "finish"}
        /\ pc' = "connect" => pc = "start"
    BY DEF AttemptStart, HeadInconsistent, VerifyBad, SpaceRefused, End, Achieved
  <1>10. r'.id = r.id /\ r'.seq = r.seq /\ r'.total = r.total /\ r'.done = n
    BY <1>2, <1>3, TransferIs DEF Rec
  <1>11. damages = 0 /\ pc = "start" => disk[r.id].rec.total = r.total
    BY <1>1, BytesAre
  <1> QED
    BY <1>1, <1>2, <1>4, <1>5, <1>6, <1>8, <1>9, <1>10, <1>11, TransferIs DEF Books, Transfer

LEMMA HeadBodyBooks ==
  ASSUME Sound, InTransfer, NEW done \in {0, r.done}, NEW total \in WholeLengths, NEW rec,
         HeadBody(rec), rec = [r EXCEPT !.done = done, !.total = total]
  PROVE  Books'
  <1> DEFINE d == SetPart(disk, r.id, rec.done)
  <1>1. pc = "head" /\ InAttempt /\ r' = rec /\ cur' = cur
    BY DEF HeadBody, InAttempt
  <1>2. /\ rec.id = r.id /\ rec.seq = r.seq /\ rec.total = total /\ rec.done = done
        /\ done \in 0..Size /\ done <= disk[r.id].part
    BY <1>1, TransferIs, BytesAre, FirstAttempt DEF Rec
  <1>3. /\ d \in GoodDisk /\ d[r.id].saved /\ d[r.id].dir /\ d[r.id].rec = disk[r.id].rec
        /\ d[r.id].part = done /\ d[r.id].media = disk[r.id].media
    BY <1>1, <1>2, TransferIs, SetPartIs, PartGood
  <1> HIDE DEF d
  <1>4. UNCHANGED <<damages, lengthNamed>> /\ Lengths' = Lengths
    BY TransferIsEntryStep DEF EntryStep, OnAir, Sound, Lengths
  <1>5. /\ disk'[r.id].saved /\ disk'[r.id].rec.seq = r.seq
        /\ disk'[r.id].rec.state = "DOWNLOADING"
        /\ disk'[r.id].part = done /\ disk'[r.id].media = disk[r.id].media
        /\ disk'[r.id].rec.total = IF pc' = "body" THEN total ELSE disk[r.id].rec.total
        /\ pc' \in {"body", "finish"}
    <2>1. CASE disk' = d /\ pc' = "finish"
      BY <1>1, <1>3, <2>1, TransferIs
    <2>2. CASE disk' = Save(d, Published(rec)[cur].rec) /\ pc' = "body"
      <3>1. /\ Published(rec)[cur].rec.id = r.id /\ Published(rec)[cur].rec.seq = r.seq
            /\ Published(rec)[cur].rec.state = "DOWNLOADING"
            /\ Published(rec)[cur].rec.total = total
        BY <1>1, <1>2, TransferIs, PublishedIs DEF Sound, Owners
      <3> DEFINE new == Published(rec)[cur].rec
      <3>2. /\ disk' = Save(d, new) /\ new.id = r.id /\ new.seq = r.seq
            /\ new.state = "DOWNLOADING" /\ new.total = total
        BY <2>2, <3>1
      <3> HIDE DEF new
      <3>3. /\ disk'[r.id].saved /\ disk'[r.id].rec = new
            /\ disk'[r.id].part = done /\ disk'[r.id].media = disk[r.id].media
        BY <1>1, <1>3, <3>2, TransferIs, SaveIs
      <3> QED
        BY <2>2, <3>2, <3>3
    <2> QED
      BY <2>1, <2>2 DEF HeadBody, SpaceRefused, End, d
  <1>6. UNCHANGED slots \/ slots' = Published(rec)
    BY DEF HeadBody
  <1>7. damages = 0 => /\ disk[r.id].media = 0 /\ 0 \in Lengths /\ total \in Lengths
                       /\ total = Size \/ (total = 0 /\ ~lengthNamed)
                       /\ disk[r.id].rec.total \in Lengths
                       /\ disk[r.id].rec.total = 0 \/ disk[r.id].part <= disk[r.id].rec.total
    BY <1>1, InLengths, BytesAre, TransferIs DEF Undamaged, WholeLengths
  <1>8. disk[r.id].part \in Nat /\ (damages = 0 => disk[r.id].rec.total \in Nat) /\ done \in Nat
        /\ Size \in Nat
    BY <1>1, <1>2, <1>7, InLengths, TransferIs, ConstantsAssumption
  <1>9. \A id \in Ids : id = r.id => Undamaged(id)'
    BY <1>2, <1>4, <1>5, <1>7, <1>8 DEF Undamaged
  <1>10. Saved' /\ Entries'
    BY <1>2, <1>5, <1>6, <1>7, <1>9, AttemptBooks
  <1>11. ~Achieved'
    BY DEF HeadBody, SpaceRefused, End, Achieved
  <1>12. slots'[cur].rec.seq = r.seq
    BY <1>1, <1>6, TransferIs, PublishedIs DEF Sound, Owners
  <1> QED
    BY <1>1, <1>2, <1>4, <1>5, <1>7, <1>8, <1>10, <1>11, <1>12 DEF Books, Transfer

LEMMA HeadBooks ==
  ASSUME Sound, HeadPartial \/ HeadWhole
  PROVE  Books'
  <1>1. pc = "head" /\ InTransfer /\ InAttempt
    BY DEF HeadPartial, HeadWhole, HeadBody, InTransfer, InAttempt
  <1>2. r \in Rec
    BY <1>1, TransferIs
  <1>3. CASE HeadPartial
    <2>1. [r EXCEPT !.total = Size] = [r EXCEPT !.done = r.done, !.total = Size]
      BY <1>2, BytesOf
    <2>2. Size \in WholeLengths
      BY DEF WholeLengths
    <2> QED
      BY <1>1, <1>3, <2>1, <2>2, HeadBodyBooks DEF HeadPartial
  <1>4. CASE HeadWhole
    BY <1>1, <1>4, HeadBodyBooks DEF HeadWhole
  <1> QED
    BY <1>3, <1>4

LEMMA BodyRecvBooks ==
  ASSUME Sound, BodyRecv
  PROVE  Books'
  <1> DEFINE d == SetPart(disk, r.id, r'.done)
  <1>1. /\ pc = "body" /\ pc' = "body" /\ InAttempt /\ InTransfer /\ UNCHANGED cur
        /\ r' = [r EXCEPT !.done = r.done + 1] /\ r.done < Size
    BY DEF BodyRecv, InAttempt, InTransfer
  <1>2. /\ r'.id = r.id /\ r'.seq = r.seq /\ r'.total = r.total /\ r'.done \in 0..Size
    BY <1>1, TransferIs, ConstantsAssumption DEF Rec
  <1>3. /\ d \in GoodDisk /\ d[r.id].saved /\ d[r.id].dir /\ d[r.id].rec = disk[r.id].rec
        /\ d[r.id].part = r'.done /\ d[r.id].media = disk[r.id].media
    BY <1>1, <1>2, TransferIs, SetPartIs, PartGood
  <1> HIDE DEF d
  <1>4. UNCHANGED <<damages, lengthNamed>> /\ Lengths' = Lengths
    BY <1>1, TransferIsEntryStep DEF EntryStep, OnAir, Sound, Lengths
  <1>5. /\ disk'[r.id].saved /\ disk'[r.id].rec.seq = r.seq
        /\ disk'[r.id].rec.state = "DOWNLOADING"
        /\ disk'[r.id].rec.total \in {r.total, disk[r.id].rec.total}
        /\ disk'[r.id].part = r'.done /\ disk'[r.id].media = disk[r.id].media
    <2>1. CASE disk' = d
      BY <1>1, <1>3, <2>1, TransferIs
    <2>2. CASE disk' = Save(d, Published(r')[cur].rec)
      <3>1. /\ Published(r')[cur].rec.id = r.id /\ Published(r')[cur].rec.seq = r.seq
            /\ Published(r')[cur].rec.state = "DOWNLOADING"
            /\ Published(r')[cur].rec.total = r.total
        BY <1>1, <1>2, TransferIs, PublishedIs DEF Sound, Owners
      <3> DEFINE new == Published(r')[cur].rec
      <3>2. /\ disk' = Save(d, new) /\ new.id = r.id /\ new.seq = r.seq
            /\ new.state = "DOWNLOADING" /\ new.total = r.total
        BY <2>2, <3>1
      <3> HIDE DEF new
      <3>3. /\ disk'[r.id].saved /\ disk'[r.id].rec = new
            /\ disk'[r.id].part = r'.done /\ disk'[r.id].media = disk[r.id].media
        BY <1>1, <1>3, <3>2, TransferIs, SaveIs
      <3> QED
        BY <1>1, <3>2, <3>3, TransferIs
    <2> QED
      BY <2>1, <2>2 DEF BodyRecv, d
  <1>6. UNCHANGED slots \/ slots' = Published(r')
    BY DEF BodyRecv
  <1>9. damages = 0 => /\ disk[r.id].media = 0 /\ disk[r.id].rec.total = r.total
                       /\ r.total \in Lengths /\ 0 \in Lengths
                       /\ r.total = Size \/ (r.total = 0 /\ ~lengthNamed)
    BY <1>1, BytesAre, InLengths
  <1>10. \A id \in Ids : id = r.id => Undamaged(id)'
    BY <1>2, <1>4, <1>5, <1>9 DEF Undamaged
  <1>7. Saved' /\ Entries'
    BY <1>1, <1>2, <1>5, <1>6, <1>9, <1>10, TransferIs, AttemptBooks
  <1>8. slots'[cur].rec.seq = r.seq
    BY <1>1, <1>6, TransferIs, PublishedIs DEF Sound, Owners
  <1> QED
    BY <1>1, <1>2, <1>4, <1>5, <1>7, <1>8, <1>9, TransferIs DEF Books, Transfer, Achieved

LEMMA RenameBooks ==
  ASSUME Sound, VerifyGood \/ Rename
  PROVE  Books'
  <1>1. /\ pc \in {"verify", "rename"} /\ InAttempt /\ InTransfer /\ UNCHANGED <<slots, cur, r>>
    BY DEF VerifyGood, Rename, InAttempt, InTransfer, tableVars
  <1>2. /\ r.done = disk[r.id].part /\ r.total = r.done
        /\ pc = "rename" => r.done > 0
        /\ damages = 0 => /\ disk[r.id].media = 0 /\ r.total \in Lengths
                          /\ disk[r.id].rec.total \in {0, r.total}
    BY <1>1, BytesAre
  <1>3. UNCHANGED <<damages, lengthNamed>> /\ Lengths' = Lengths
    BY <1>1, TransferIsEntryStep DEF EntryStep, OnAir, Sound, Lengths
  <1>4. PICK e : /\ disk' = [disk EXCEPT ![r.id] = e]
                 /\ e.saved = disk[r.id].saved /\ e.rec = disk[r.id].rec
                 /\ \/ ~Achieved' /\ e.part = r.done /\ e.media \in {0, disk[r.id].media}
                       /\ pc' \in {"rename", "finish"} /\ r.done > 0
                    \/ Achieved' /\ e.part = 0 /\ e.media = r.done /\ r.done > 0 /\ pc' = "finish"
    <2>1. CASE VerifyGood
      <3> DEFINE e == [disk[r.id] EXCEPT !.media = 0]
      <3>1. disk' = [disk EXCEPT ![r.id] = e] /\ ~Achieved' /\ pc' = "rename" /\ r.done > 0
        BY <1>1, <2>1, TransferIs DEF VerifyGood, Achieved, GoodDisk
      <3>2. e.saved = disk[r.id].saved /\ e.rec = disk[r.id].rec /\ e.part = r.done /\ e.media = 0
        BY <1>1, <1>2, TransferIs DEF GoodDir
      <3> QED BY <3>1, <3>2
    <2>2. CASE Rename /\ disk' = disk /\ End("FAIL", "DISK", FALSE)
      <3> DEFINE e == disk[r.id]
      <3>1. /\ disk' = [disk EXCEPT ![r.id] = e] /\ ~Achieved' /\ pc' = "finish"
            /\ r.done > 0
        BY <1>1, <1>2, <2>2, TransferIs DEF Rename, End, Achieved, GoodDisk
      <3> QED BY <1>2, <3>1
    <2>3. CASE /\ Rename
               /\ disk' = [disk EXCEPT ![r.id] = [@ EXCEPT !.media = disk[r.id].part, !.part = 0]]
               /\ End("DONE", "NONE", Moves)
      <3> DEFINE e == [disk[r.id] EXCEPT !.media = disk[r.id].part, !.part = 0]
      <3>1. /\ disk' = [disk EXCEPT ![r.id] = e] /\ Achieved' /\ pc' = "finish"
            /\ r.done > 0
        BY <1>1, <1>2, <2>3, TransferIs DEF Rename, End, Achieved, GoodDisk
      <3>2. e.saved = disk[r.id].saved /\ e.rec = disk[r.id].rec /\ e.part = 0 /\ e.media = r.done
        BY <1>1, <1>2, TransferIs DEF GoodDir
      <3> QED BY <3>1, <3>2
    <2> QED
      BY <2>1, <2>2, <2>3 DEF Rename
  <1>5. disk'[r.id] = e
    BY <1>1, <1>4, TransferIs DEF GoodDisk
  <1>6. damages = 0 => e.media = IF Achieved' THEN r.done ELSE 0
    BY <1>2, <1>4
  <1>7. e.saved /\ e.rec.seq = r.seq /\ e.rec.state = "DOWNLOADING"
    BY <1>1, <1>4, TransferIs
  <1>9. /\ r.done \in Nat /\ 0 \in Lengths
        /\ damages = 0 => /\ e.media \in Lengths /\ e.rec.total \in Lengths
                          /\ e.rec.total \in {0, r.done}
    BY <1>1, <1>2, <1>4, <1>6, InLengths, TransferIs
  <1>10. \A id \in Ids : id = r.id => Undamaged(id)'
    BY <1>3, <1>4, <1>5, <1>6, <1>7, <1>9 DEF Undamaged
  <1>8. Saved' /\ Entries'
    BY <1>1, <1>5, <1>7, <1>10, AttemptBooks
  <1> QED
    BY <1>1, <1>2, <1>3, <1>4, <1>5, <1>6, <1>8, <1>9, TransferIs DEF Books, Transfer

\* The oldest due item starts: an idle entry, with the bytes of its partial.
LEMMA PickBooks ==
  ASSUME Sound, NEW s \in Slots, Pick(s)
  PROVE  Books'
  <1> DEFINE id == slots[s].rec.id
             rec == [slots[s].rec EXCEPT !.state = "DOWNLOADING"]
             new == [slots[s] EXCEPT !.active = TRUE, !.ctl = "NONE", !.rec = rec]
  <1>1. /\ s \in Used /\ slots[s].rec.state = "QUEUED" /\ slots[s] \in GoodSlot
        /\ slots[s].rec \in Rec /\ id \in Ids /\ disk \in GoodDisk /\ disk[id].dir /\ Entry(s)
        /\ Undamaged(id)
    BY EntryIs DEF Pick, Pickable, Visible, Sound, Owners, IInv
  <1>2. ~slots[s].active
    <2>1. cur = 0 /\ s # 0
      BY ConstantsAssumption DEF Pick, Sound, Owners, IInv, OneTransfer, InAttempt, Slots
    <2> QED
      BY <2>1 DEF Sound, Owners, IInv, OneTransfer
  <1>3. Moved(s, "START") = rec
    BY <1>1, ApplyIs DEF Moved
  <1>4. /\ rec.id = id /\ rec.seq = slots[s].rec.seq /\ rec.total = slots[s].rec.total
        /\ rec.state = "DOWNLOADING"
    BY <1>1 DEF Rec
  <1>5. /\ slots' = [slots EXCEPT ![s] = new] /\ disk' = Save(disk, rec) /\ r' = rec
        /\ cur' = s /\ pc' = "start"
    BY <1>1, <1>3 DEF Pick, Sound, Owners, IInv
  <1> HIDE DEF rec
  <1>6. new.rec = rec
    BY <1>1 DEF GoodSlot
  <1>7. new.active
    BY <1>1 DEF GoodSlot
  <1> HIDE DEF new
  <1>8. slots'[s] = new
    BY <1>5 DEF Sound, Owners, IInv
  <1>9. slots'[s].rec = rec /\ slots'[s].active
    BY <1>6, <1>7, <1>8
  <1>10. /\ disk'[id].saved /\ disk'[id].rec = rec /\ disk'[id].media = disk[id].media
         /\ disk'[id].part = disk[id].part
    BY <1>1, <1>4, <1>5, SaveIs
  <1>11. EntryStep(s)
    BY PickIsEntryStep DEF Sound
  <1>12. UNCHANGED <<nextSeq, damages, lengthNamed>> /\ Lengths' = Lengths
    BY <1>11 DEF EntryStep, OnAir, Lengths
  <1>13. damages = 0 => /\ slots[s].rec.total \in Lengths /\ disk[id].media = 0
                        /\ slots[s].rec.total = 0 \/ disk[id].part <= slots[s].rec.total
    BY <1>1, <1>2 DEF Entry
  <1>14. Entry(s)'
    BY <1>1, <1>4, <1>9, <1>10, <1>12, <1>13 DEF Entry
  <1>15. SavedRec(slots[s].rec.id)' /\ Undamaged(slots[s].rec.id)'
    <2>1. slots'[s].rec.id = id /\ disk[id].rec.seq = slots[s].rec.seq /\ disk[id].rec.seq > 0
      BY <1>1, <1>4, <1>9, EntryIs DEF Entry, SavedRec
    <2>2. SavedRec(slots[s].rec.id)'
      BY <1>4, <1>10, <2>1 DEF SavedRec
    <2>3. Undamaged(slots[s].rec.id)'
      BY <1>4, <1>10, <1>12, <1>13, <2>1, InLengths DEF Undamaged
    <2> QED
      BY <2>2, <2>3
  <1>16. Saved' /\ Entries'
    BY <1>4, <1>9, <1>11, <1>14, <1>15, EntryStepBooks
  <1>17. Transfer'
    BY <1>4, <1>5, <1>9, <1>10, <1>12, <1>13 DEF Transfer, Achieved
  <1> QED
    BY <1>16, <1>17 DEF Books

\* finish(): the entry is idle again, with what the attempt left on disk.
LEMMA EndedBooks ==
  ASSUME Sound, Finish, NEW rec, NEW due, NEW d, Ended(rec, due, d)
  PROVE  Books'
  <1>1. pc = "finish" /\ pc' = "idle" /\ InAttempt
    BY DEF Finish, InAttempt
  <1>2. PICK s \in Slots : s = cur
    BY <1>1, TransferIs
  <1>3. /\ s \in Used /\ slots[s].rec.id = r.id /\ r.id \in Ids /\ disk \in GoodDisk
        /\ disk[r.id].dir /\ slots[s].rec.seq = r.seq /\ disk[r.id].rec.seq = r.seq
        /\ r.done \in Nat /\ disk[r.id].part \in Nat
    BY <1>1, <1>2, TransferIs
  <1>4. EntryStep(s) /\ slots'[s].rec = rec /\ ~slots'[s].active
    BY <1>2, FinishIsEntryStep DEF Sound
  <1>5. UNCHANGED <<nextSeq, damages>> /\ Lengths' = Lengths
    BY <1>4 DEF EntryStep, OnAir, Lengths
  <1>6. rec.id = r.id /\ rec.seq = r.seq /\ rec.total = r.total /\ disk' = Save(d, rec)
    BY DEF Ended, Settle
  <1>7. /\ d \in GoodDisk /\ d[r.id].dir /\ d[r.id].media = disk[r.id].media
        /\ d[r.id].part = IF d = disk THEN disk[r.id].part ELSE 0
    <2>1. d \in {disk, SetPart(disk, r.id, 0)}
      BY DEF Ended
    <2> QED
      BY <1>3, <2>1, SetPartIs, PartGood, FirstAttempt
  <1>8. /\ disk'[r.id].saved /\ disk'[r.id].rec = rec
        /\ disk'[r.id].media = disk[r.id].media /\ disk'[r.id].part = d[r.id].part
    BY <1>3, <1>6, <1>7, SaveIs
  <1>9. /\ out.kind # "DONE" => r.done <= disk[r.id].part
        /\ out.kind = "DONE" => r.total = r.done /\ r.done > 0
        /\ damages = 0 => /\ r.total \in Lengths
                          /\ r.total = 0 \/ disk[r.id].part <= r.total
                          /\ disk[r.id].media = IF out.kind = "DONE" THEN r.done ELSE 0
                          /\ disk[r.id].media > 0 => disk[r.id].part = 0
    BY <1>1, TransferIs DEF Sound, Books, Transfer, Achieved, Undamaged
  <1>10. \/ out.kind = "DONE" /\ rec.state = "COMPLETED" /\ rec.done = r.done
         \/ /\ out.kind # "DONE" /\ rec.state \in {"PAUSED", "QUEUED", "FAILED", "CANCELLED"}
            /\ rec.done <= d[r.id].part
            /\ rec.state = "CANCELLED" => rec.done = 0 /\ d[r.id].part = 0
    <2>1. CASE out.kind = "DONE"
      BY <1>6, <1>9, <2>1 DEF Ended
    <2>2. CASE Ctl = "CANCEL" /\ out.kind = "CTL"
      <3>1. rec.state = "CANCELLED" /\ rec.done = 0 /\ d = SetPart(disk, r.id, 0)
        BY <2>2 DEF Ended
      <3>2. d[r.id].part = 0
        BY <1>3, <3>1, SetPartIs
      <3> QED
        BY <2>2, <3>1, <3>2
    <2>3. CASE out.kind # "DONE" /\ ~(Ctl = "CANCEL" /\ out.kind = "CTL")
      BY <1>7, <1>9, <2>3 DEF Ended
    <2> QED BY <2>1, <2>2, <2>3
  <1>11. Entry(s)'
    <2>1. slots[s].rec.seq < nextSeq
      BY <1>3, EntryIs DEF Entry
    <2> DEFINE e == disk'[r.id]
    <2>2. /\ e.saved /\ e.rec.seq = rec.seq /\ e.rec.state = rec.state
          /\ rec.seq < nextSeq /\ rec.total = r.total /\ e.media = disk[r.id].media
          /\ e.part = d[r.id].part
      BY <1>3, <1>6, <1>8, <2>1
    <2>3. damages = 0 => rec.total \in Lengths
      BY <1>6, <1>9
    <2>4. rec.state # "COMPLETED" =>
            /\ rec.done <= e.part
            /\ rec.state = "CANCELLED" => rec.done = 0 /\ e.part = 0
            /\ damages = 0 => e.media = 0 /\ (rec.total = 0 \/ e.part <= rec.total)
      <3>1. r.total \in Nat
        BY <1>1, TransferIs DEF Rec
      <3> QED
        BY <1>3, <1>7, <1>9, <1>10, <2>2, <3>1
    <2>5. rec.state = "COMPLETED" /\ damages = 0 =>
            e.media > 0 /\ rec.done = e.media /\ rec.total = e.media
      BY <1>9, <1>10, <2>2
    <2> QED
      BY <1>3, <1>4, <1>5, <1>6, <2>2, <2>3, <2>4, <2>5 DEF Entry
  <1>12. SavedRec(slots[s].rec.id)'
    <2>1. disk[r.id].rec.seq > 0
      BY <1>3, EntryIs DEF SavedRec
    <2> QED
      BY <1>3, <1>4, <1>6, <1>8, <1>10, <2>1 DEF SavedRec
  <1>13. Undamaged(slots[s].rec.id)'
    <2> DEFINE e == disk'[r.id]
    <2>1. damages = 0 => /\ e.media \in Lengths /\ e.rec.total \in Lengths
                         /\ e.rec.total = 0 \/ e.part <= e.rec.total
                         /\ e.media > 0 => e.part = 0 /\ e.rec.total = e.media
      <3>1. r.total \in Nat
        BY <1>1, TransferIs DEF Rec
      <3> QED
        BY <1>3, <1>6, <1>7, <1>8, <1>9, <3>1, InLengths
    <2> QED
      BY <1>3, <1>4, <1>5, <1>6, <1>8, <2>1 DEF Undamaged
  <1>14. Saved' /\ Entries'
    BY <1>3, <1>4, <1>6, <1>11, <1>12, <1>13, EntryStepBooks
  <1> QED
    BY <1>1, <1>14 DEF Books, Transfer, InAttempt

-----------------------------------------------------------------------------
(* An entry goes, one comes *)

\* The entry and its directory go together, and nobody else has either.
LEMMA RemovalBooks ==
  ASSUME Sound, NEW s \in Slots, RemovalStep(s)
  PROVE  Saved' /\ Entries'
  <1> DEFINE id == slots[s].rec.id
  <1>1. s \in Used /\ id \in Ids /\ disk \in GoodDisk /\ slots \in [Slots -> GoodSlot]
    BY EntryIs DEF RemovalStep, Sound, Owners, IInv
  <1>2. slots'[s] = EmptySlot /\ \A t \in Slots \ {s} : slots'[t] = slots[t]
    BY <1>1 DEF RemovalStep
  <1>3. disk'[id] = EmptyDir /\ \A i \in Ids \ {id} : disk'[i] = disk[i]
    BY <1>1 DEF RemovalStep, GoodDisk
  <1>4. UNCHANGED <<nextSeq, damages>> /\ Lengths' = Lengths /\ 0 \in Lengths
    BY InLengths DEF RemovalStep, OnAir, Lengths
  <1>5. /\ ~EmptySlot.used /\ ~EmptyDir.saved /\ EmptyDir.media = 0 /\ EmptyDir.rec.total = 0
    BY DEF EmptySlot, EmptyDir, EmptyRec
  <1>6. \A i \in Ids : disk'[i].saved => i # id /\ SavedRec(i)'
    BY <1>3, <1>5 DEF Sound, Books, Saved, SavedRec
  <1>7. \A i \in Ids : Undamaged(i)'
    BY <1>3, <1>4, <1>5 DEF Sound, Books, Saved, Undamaged
  <1>8. Saved'
    BY <1>3, <1>6, <1>7 DEF Sound, Books, Saved
  <1>9. \A t \in Used' : t \in Used /\ t # s /\ slots'[t] = slots[t]
    BY <1>2, <1>5 DEF Used
  <1>10. \A t \in Used' : Entry(t)'
    <2> TAKE t \in Used'
    <2>1. t \in Used /\ slots'[t] = slots[t] /\ slots[t].rec.id # id /\ slots[t].rec.id \in Ids
          /\ Entry(t)
      BY <1>1, <1>9, EntryIs DEF Sound, Books, Entries
    <2>2. disk'[slots[t].rec.id] = disk[slots[t].rec.id]
      BY <1>3, <2>1
    <2> QED
      BY <1>4, <2>1, <2>2 DEF Entry
  <1>11. Entries'
    BY <1>9, <1>10 DEF Sound, Books, Entries
  <1> QED BY <1>8, <1>11

\* finish() of an item to be removed, and dl_remove of an idle one.
LEMMA RemovedBooks ==
  ASSUME Sound, (Finish /\ FinishRemoved) \/ (\E s \in Slots : RemoveIdle(s))
  PROVE  Books'
  <1>1. CASE Finish /\ FinishRemoved
    <2>1. InAttempt /\ pc' = "idle"
      BY <1>1 DEF Finish, InAttempt
    <2>2. cur \in Slots
      BY <2>1, TransferIs
    <2>3. Saved' /\ Entries'
      BY <1>1, <2>2, RemovalSteps, RemovalBooks DEF Sound
    <2> QED
      BY <2>1, <2>3 DEF Books, Transfer, InAttempt
  <1>2. ASSUME NEW s \in Slots, RemoveIdle(s)
        PROVE  Books'
    <2>1. RemovalStep(s)
      BY <1>2, RemovalSteps DEF Sound
    <2>2. Saved' /\ Entries'
      BY <2>1, RemovalBooks
    <2>3. s \in Used /\ s # cur /\ UNCHANGED <<pc, cur, r, out, damages, lengthNamed>>
      BY <1>2 DEF RemoveIdle, Visible, workerVars, envVars, Sound, Owners, IInv, OneTransfer
    <2>4. Transfer'
      <3>1. CASE InAttempt
        <4>1. /\ cur \in Slots /\ cur \in Used /\ slots[cur].rec.id = r.id /\ r.id \in Ids
              /\ slots[s].rec.id # r.id /\ slots[s].rec.id \in Ids
          BY <2>3, <3>1, TransferIs, EntryIs DEF Sound, Books, Entries
        <4>2. slots'[cur] = slots[cur] /\ disk'[r.id] = disk[r.id]
          BY <2>1, <2>3, <4>1 DEF RemovalStep, Sound, Owners, IInv, GoodDisk
        <4> QED
          BY <2>3, <4>2 DEF Sound, Books, Transfer, Achieved, InAttempt, Lengths
      <3>2. CASE ~InAttempt
        BY <2>3, <3>2 DEF Transfer, InAttempt
      <3> QED BY <3>1, <3>2
    <2> QED
      BY <2>2, <2>4 DEF Books
  <1> QED BY <1>1, <1>2

\* dl_enqueue of an item that has no entry, and so no directory.
LEMMA EnqueueBooks ==
  ASSUME OncePerItem, Sound, NEW id \in Ids, NEW hint \in Hints, EnqueueNew(id, hint)
  PROVE  Books'
  <1> DEFINE rec == Fresh(id, hint)
  <1>1. PICK s \in Slots : /\ ~slots[s].used /\ slots'[s] = FreshSlot(id, hint)
                           /\ \A t \in Slots \ {s} : slots'[t] = slots[t]
    BY EnqueueIs DEF Sound, Owners
  <1>2. /\ \A i \in Ids \ {id} : disk'[i] = disk[i]
        /\ disk'[id].dir /\ disk'[id].saved /\ disk'[id].rec = rec
        /\ disk'[id].part = disk[id].part /\ disk'[id].media = disk[id].media
        /\ rec.id = id /\ nextSeq' = nextSeq + 1
        /\ UNCHANGED <<damages, lengthNamed, pc, cur, r, out>> /\ Lengths' = Lengths
    BY EnqueueIs DEF Sound, Owners, Lengths
  <1>3. /\ rec.seq = nextSeq /\ rec.total = hint /\ rec.state = "QUEUED" /\ rec.done = 0
        /\ hint \in Lengths /\ hint \in Nat /\ 0 \in Lengths /\ nextSeq \in Nat /\ nextSeq > 0
    BY ConstantsAssumption, InLengths DEF Fresh, EmptyRec, Sound, Owners, IInv, Scalars
  <1>4. /\ FreshSlot(id, hint).used /\ FreshSlot(id, hint).rec = rec
    BY DEF FreshSlot, EmptySlot
  <1> HIDE DEF rec
  <1>5. \A t \in Used : slots[t].rec.id # id /\ t \in Slots /\ t # s /\ slots'[t] = slots[t]
    BY <1>1 DEF EnqueueNew, OncePerItem, Used
  <1>6. disk[id] = EmptyDir
    <2>1. id \notin Dirs
      BY <1>5 DEF EnqueueNew, Sound, Owners, Owned
    <2> QED
      BY <2>1 DEF Dirs, Sound, Books, Saved
  <1>7. disk'[id].part = 0 /\ disk'[id].media = 0
    BY <1>2, <1>6 DEF EmptyDir
  <1>8. \A i \in Ids \ {id} : disk[i].saved => disk[i].rec.seq \in Nat /\ disk[i].rec.seq < nextSeq
    <2> TAKE i \in Ids \ {id}
    <2> HAVE disk[i].saved
    <2>1. i \in Dirs
      BY DEF Dirs, Sound, Books, Saved, EmptyDir
    <2>2. PICK t \in Used : slots[t].rec.id = i
      BY <2>1 DEF EnqueueNew, Sound, Owners, Owned
    <2>3. slots[t].rec \in Rec /\ disk[i].rec.seq = slots[t].rec.seq /\ slots[t].rec.seq < nextSeq
      BY <2>2, EntryIs DEF Entry
    <2> QED
      BY <2>3 DEF Rec
  <1>9. \A i \in Ids : disk'[i].saved => SavedRec(i)'
    BY <1>2, <1>3 DEF Sound, Books, Saved, SavedRec
  <1>10. \A i \in Ids : Undamaged(i)'
    BY <1>2, <1>3, <1>7 DEF Sound, Books, Saved, Undamaged
  <1>11. \A i, j \in Ids :
           disk'[i].saved /\ disk'[j].saved /\ disk'[i].rec.seq = disk'[j].rec.seq => i = j
    <2>1. \A i \in Ids \ {id} : disk'[i].saved => disk'[i].rec.seq # disk'[id].rec.seq
      BY <1>2, <1>3, <1>8
    <2>2. \A i, j \in Ids \ {id} :
            disk'[i].saved /\ disk'[j].saved /\ disk'[i].rec.seq = disk'[j].rec.seq => i = j
      BY <1>2 DEF Sound, Books, Saved
    <2> QED BY <2>1, <2>2
  <1>12. Saved'
    BY <1>2, <1>9, <1>10, <1>11 DEF Sound, Books, Saved
  <1>13. \A t \in Used' : t = s \/ (t # s /\ t \in Used)
    BY <1>1 DEF Used
  <1>14. slots'[s].rec = rec /\ slots'[s].rec.id = id
    BY <1>1, <1>2, <1>4
  <1>15. Entry(s)'
    BY <1>2, <1>3, <1>7, <1>14 DEF Entry
  <1>16. ASSUME NEW t \in Used PROVE Entry(t)'
    <2>1. /\ slots'[t] = slots[t] /\ slots[t].rec.id # id /\ slots[t].rec.id \in Ids /\ Entry(t)
          /\ slots[t].rec \in Rec
      BY <1>5, EntryIs
    <2>2. disk'[slots[t].rec.id] = disk[slots[t].rec.id]
      BY <1>2, <2>1
    <2>3. slots[t].rec.seq < nextSeq'
      BY <1>2, <1>3, <2>1 DEF Entry, Rec
    <2> QED
      BY <1>2, <2>1, <2>2, <2>3 DEF Entry
  <1>17. Entries'
    <2>1. \A t \in Used' : Entry(t)'
      BY <1>13, <1>15, <1>16
    <2>2. \A t, u \in Used' : slots'[t].rec.id = slots'[u].rec.id => t = u
      BY <1>5, <1>13, <1>14 DEF Sound, Books, Entries
    <2> QED
      BY <2>1, <2>2 DEF Entries
  <1>18. Transfer'
    <2>1. CASE InAttempt
      <3>1. /\ cur \in Slots /\ cur \in Used /\ slots[cur].rec.id = r.id /\ r.id \in Ids
        BY <2>1, TransferIs
      <3>2. slots'[cur] = slots[cur] /\ disk'[r.id] = disk[r.id]
        BY <1>2, <1>5, <3>1
      <3>3. lengthNamed' = lengthNamed
        BY <1>2
      <3> QED
        BY <1>2, <3>2, <3>3 DEF Sound, Books, Transfer, Achieved, InAttempt
    <2>2. CASE ~InAttempt
      BY <1>2, <2>2 DEF Transfer, InAttempt
    <2> QED BY <2>1, <2>2
  <1> QED
    BY <1>12, <1>17, <1>18 DEF Books

-----------------------------------------------------------------------------
(* The table is cleared, and made again *)

\* With no table there is only the disk to keep in order.
LEMMA ClearedBooks ==
  ASSUME slots' = [s \in Slots |-> EmptySlot], pc' = "off", Saved'
  PROVE  Books'
  <1>1. ~EmptySlot.used
    BY DEF EmptySlot
  <1>2. Used' = {}
    BY <1>1 DEF Used
  <1> QED
    BY <1>2 DEF Books, Entries, Transfer, InAttempt

\* A power cut leaves the records in order, whichever call it cuts short.
LEMMA CrashBooks ==
  ASSUME Sound, Cleared
  PROVE  Books'
  <1>1. disk \in GoodDisk
    BY DEF Sound, Owners, IInv
  <1>2. slots' = [s \in Slots |-> EmptySlot] /\ pc' = "off" /\ damages' = damages
        /\ Lengths' = Lengths /\ 0 \in Lengths
    <2>1. /\ slots' = [s \in Slots |-> EmptySlot] /\ pc' = "off"
          /\ UNCHANGED <<damages, lengthNamed>>
      BY DEF Cleared, Crash, CrashInEnqueue, CrashInRemove, PowerOff, SvcJoined, envVars
    <2> QED
      BY <2>1, InLengths DEF Lengths
  <1>3. CASE Crash \/ SvcJoined
    <2>1. disk' = disk
      BY <1>3 DEF Crash, PowerOff, SvcJoined
    <2>2. Saved'
      BY <1>2, <2>1 DEF Sound, Books, Saved, SavedRec, Undamaged
    <2> QED
      BY <1>2, <2>2, ClearedBooks
  <1>4. ASSUME NEW id \in Ids, CrashInEnqueue(id)
        PROVE  Books'
    <2>1. ~disk[id].dir /\ disk' = [disk EXCEPT ![id].dir = TRUE]
      BY <1>4 DEF CrashInEnqueue, PowerOff
    <2>2. disk[id] = EmptyDir
      BY <2>1 DEF Sound, Books, Saved
    <2>3. /\ disk'[id].dir /\ disk'[id].saved = disk[id].saved /\ disk'[id].rec = disk[id].rec
          /\ disk'[id].part = disk[id].part /\ disk'[id].media = disk[id].media
          /\ \A i \in Ids \ {id} : disk'[i] = disk[i]
      BY <1>1, <2>1 DEF GoodDisk, GoodDir
    <2>4. ~disk'[id].saved
      BY <2>2, <2>3 DEF EmptyDir
    <2>5. \A i \in Ids : disk'[i].saved => i # id
      BY <2>4
    <2>6. \A i \in Ids : disk'[i].saved => SavedRec(i)'
      BY <2>3, <2>5 DEF Sound, Books, Saved, SavedRec
    <2>7. \A i \in Ids : Undamaged(i)'
      BY <1>2, <2>3 DEF Sound, Books, Saved, Undamaged
    <2>8. Saved'
      BY <2>3, <2>5, <2>6, <2>7 DEF Sound, Books, Saved
    <2> QED
      BY <1>2, <2>8, ClearedBooks
  <1>5. ASSUME NEW s \in Slots, CrashInRemove(s)
        PROVE  Books'
    <2>1. PICK id \in Ids : id = slots[s].rec.id /\ s \in Used /\ disk[id].dir
      BY <1>5, EntryIs DEF CrashInRemove
    <2>2. PICK rest \in {disk[id], EmptyDir} :
            disk' = [disk EXCEPT ![id] = [rest EXCEPT !.dir = disk[id].dir, !.media = 0, !.part = 0]]
      BY <1>5, <2>1 DEF CrashInRemove, PowerOff
    <2> DEFINE gone == [rest EXCEPT !.dir = disk[id].dir, !.media = 0, !.part = 0]
    <2>3. rest \in GoodDir
      BY <1>1, <2>1, EmptyIsGood DEF GoodDisk
    <2>4. /\ gone.dir = disk[id].dir /\ gone.saved = rest.saved /\ gone.rec = rest.rec
          /\ gone.part = 0 /\ gone.media = 0
      BY <2>3 DEF GoodDir
    <2>5. disk' = [disk EXCEPT ![id] = gone]
      BY <2>2
    <2> HIDE DEF gone
    <2>6. disk'[id] = gone /\ \A i \in Ids \ {id} : disk'[i] = disk[i]
      BY <1>1, <2>1, <2>5 DEF GoodDisk
    <2>7. rest.saved => rest.rec = disk[id].rec /\ disk[id].saved
      BY <2>2 DEF EmptyDir
    <2>8. disk'[id].saved => SavedRec(id)'
      BY <2>1, <2>4, <2>6, <2>7 DEF Sound, Books, Saved, SavedRec
    <2>9. rest.rec.total \in {0, disk[id].rec.total} /\ rest.rec.total \in Nat
      BY <2>2, <2>3 DEF EmptyDir, EmptyRec, GoodDir, GoodRec, Rec
    <2>10. Undamaged(id)'
      BY <1>2, <2>1, <2>4, <2>6, <2>9 DEF Sound, Books, Saved, Undamaged
    <2>11. \A i \in Ids : disk'[i].saved => SavedRec(i)'
      <3> TAKE i \in Ids
      <3>1. CASE i = id
        BY <2>8, <3>1
      <3>2. CASE i # id
        BY <2>6, <3>2 DEF Sound, Books, Saved, SavedRec
      <3> QED BY <3>1, <3>2
    <2>12. \A i \in Ids : Undamaged(i)'
      <3> TAKE i \in Ids
      <3>1. CASE i = id
        BY <2>10, <3>1
      <3>2. CASE i # id
        BY <1>2, <2>6, <3>2 DEF Sound, Books, Saved, Undamaged
      <3> QED BY <3>1, <3>2
    <2>13. \A i \in Ids : disk'[i].saved => disk[i].saved /\ disk'[i].rec = disk[i].rec
      BY <2>4, <2>6, <2>7
    <2>14. \A i \in Ids : ~disk'[i].dir => disk'[i] = EmptyDir
      BY <2>1, <2>4, <2>6 DEF Sound, Books, Saved
    <2>15. Saved'
      BY <2>11, <2>12, <2>13, <2>14 DEF Sound, Books, Saved
    <2> QED
      BY <1>2, <2>15, ClearedBooks
  <1> QED
    BY <1>3, <1>4, <1>5 DEF Cleared

\* Somebody shortens a finished file or spoils a record: from then on the files
\* are no longer ours.
LEMMA DamageBooks ==
  ASSUME Sound, NEW id \in Ids, Damage(id)
  PROVE  Books'
  <1>1. /\ disk[id] \in GoodDir /\ disk \in GoodDisk
        /\ damages' = damages + 1 /\ damages \in Nat
    BY DEF Damage, Sound, Owners, IInv, Scalars, GoodDisk
  <1>2. disk[id].dir
    <2>1. (\E n \in 0..(disk[id].media - 1) : TRUE) \/ disk[id].saved
      BY DEF Damage
    <2>2. disk[id].media # 0 \/ disk[id].saved
      BY <1>1, <2>1 DEF GoodDir
    <2> QED
      BY <2>2 DEF Sound, Books, Saved, EmptyDir
  <1>3. PICK d : /\ disk' = [disk EXCEPT ![id] = d]
                 /\ d.dir = disk[id].dir /\ d.part = disk[id].part
                 /\ d.saved => disk[id].saved /\ d.rec = disk[id].rec
    <2>1. ASSUME NEW n, disk' = [disk EXCEPT ![id].media = n]
          PROVE  \E d : /\ disk' = [disk EXCEPT ![id] = d]
                        /\ d.dir = disk[id].dir /\ d.part = disk[id].part
                        /\ d.saved => disk[id].saved /\ d.rec = disk[id].rec
      <3> DEFINE new == [disk[id] EXCEPT !.media = n]
      <3>1. disk' = [disk EXCEPT ![id] = new]
        BY <1>1, <2>1 DEF GoodDisk
      <3>2. /\ new.dir = disk[id].dir /\ new.saved = disk[id].saved /\ new.rec = disk[id].rec
            /\ new.part = disk[id].part
        BY <1>1 DEF GoodDir
      <3> QED
        BY <3>1, <3>2
    <2>2. ASSUME disk' = [disk EXCEPT ![id] = [@ EXCEPT !.saved = FALSE, !.rec = EmptyRec]]
          PROVE  \E d : /\ disk' = [disk EXCEPT ![id] = d]
                        /\ d.dir = disk[id].dir /\ d.part = disk[id].part
                        /\ d.saved => disk[id].saved /\ d.rec = disk[id].rec
      <3> DEFINE new == [disk[id] EXCEPT !.saved = FALSE, !.rec = EmptyRec]
      <3>1. disk' = [disk EXCEPT ![id] = new]
        BY <1>1, <2>2 DEF GoodDisk
      <3>2. new.dir = disk[id].dir /\ ~new.saved /\ new.part = disk[id].part
        BY <1>1 DEF GoodDir
      <3> QED
        BY <3>1, <3>2
    <2> QED
      BY <2>1, <2>2 DEF Damage
  <1>4. \A i \in Ids \ {id} : disk'[i] = disk[i]
    BY <1>1, <1>3 DEF GoodDisk
  <1>5. disk'[id] = d
    BY <1>1, <1>3 DEF GoodDisk
  <1>6. \A i \in Ids : /\ disk'[i].part = disk[i].part
                       /\ disk'[i].saved => disk[i].saved /\ disk'[i].rec = disk[i].rec
    BY <1>3, <1>4, <1>5
  <1>7. damages' # 0
    BY <1>1
  <1>8. \A i \in Ids : ~disk'[i].dir => disk'[i] = EmptyDir
    BY <1>2, <1>3, <1>4, <1>5 DEF Sound, Books, Saved
  <1>9. Saved'
    BY <1>6, <1>7, <1>8 DEF Sound, Books, Saved, SavedRec, Undamaged
  <1>10. pc = "off" /\ UNCHANGED <<slots, pc>>
    BY DEF Damage, tableVars, workerVars
  <1>11. Used' = {}
    BY <1>10 DEF Sound, Owners, Table, Used
  <1> QED
    BY <1>9, <1>10, <1>11 DEF Books, Entries, Transfer, InAttempt

\* Rebuilt records queue up behind the saved ones, each with a place of its own.
LEMMA PlacesDiffer ==
  ASSUME Owners, NEW place, NEW last \in Nat,
         \A id \in Dirs : place[id] \in Slots,
         \A i, j \in Dirs : place[i] = place[j] => i = j
  PROVE  LET new == {id \in Dirs : ~disk[id].saved}
         IN /\ Cardinality(new) \in Nat
            /\ \A id \in new : /\ PlaceInLine(place, last, id) \in Nat
                               /\ last < PlaceInLine(place, last, id)
                               /\ PlaceInLine(place, last, id) <= last + Cardinality(new)
            /\ \A i, j \in new : PlaceInLine(place, last, i) = PlaceInLine(place, last, j) => i = j
  <1> DEFINE new == {id \in Dirs : ~disk[id].saved}
             upTo(id) == {j \in Dirs : ~disk[j].saved /\ place[j] <= place[id]}
  <1>1. IsFiniteSet(new) /\ Cardinality(new) \in Nat
    BY DirsFit, FS_Subset, FS_CardinalityType
  <1>2. \A id \in Dirs : place[id] \in Nat
    BY ConstantsAssumption DEF Slots
  <1>3. \A id \in new : /\ id \in upTo(id) /\ upTo(id) \subseteq new
    BY <1>2
  <1>4. \A i, j \in new : place[i] < place[j] => upTo(i) \subseteq upTo(j) /\ j \notin upTo(i)
    BY <1>2
  <1>5. \A id \in new : PlaceInLine(place, last, id) = last + Cardinality(upTo(id))
    BY DEF PlaceInLine
  <1>6. \A i, j \in new : i # j => place[i] < place[j] \/ place[j] < place[i]
    BY <1>2
  <1> HIDE DEF new, upTo
  <1>7. ASSUME NEW id \in new
        PROVE  /\ IsFiniteSet(upTo(id)) /\ Cardinality(upTo(id)) \in Nat
               /\ Cardinality(upTo(id)) <= Cardinality(new) /\ Cardinality(upTo(id)) # 0
    <2>1. IsFiniteSet(upTo(id)) /\ Cardinality(upTo(id)) <= Cardinality(new)
      BY <1>1, <1>3, FS_Subset
    <2>2. Cardinality(upTo(id)) \in Nat
      BY <2>1, FS_CardinalityType
    <2>3. upTo(id) # {}
      BY <1>3
    <2> QED
      BY <2>1, <2>2, <2>3, FS_EmptySet
  <1>8. ASSUME NEW i \in new, NEW j \in new, place[i] < place[j]
        PROVE  Cardinality(upTo(i)) < Cardinality(upTo(j))
    <2>1. upTo(i) \subseteq upTo(j) /\ upTo(i) # upTo(j)
      BY <1>3, <1>4, <1>8
    <2>2. /\ IsFiniteSet(upTo(j))
          /\ Cardinality(upTo(i)) \in Nat /\ Cardinality(upTo(j)) \in Nat
      BY <1>7
    <2>3. /\ Cardinality(upTo(i)) <= Cardinality(upTo(j))
          /\ Cardinality(upTo(i)) # Cardinality(upTo(j))
      BY <2>1, <2>2, FS_Subset
    <2> QED
      BY <2>2, <2>3
  <1>9. \A i, j \in new : i # j => Cardinality(upTo(i)) # Cardinality(upTo(j))
    <2> TAKE i, j \in new
    <2> HAVE i # j
    <2>1. Cardinality(upTo(i)) \in Nat /\ Cardinality(upTo(j)) \in Nat
      BY <1>7
    <2>2. \/ Cardinality(upTo(i)) < Cardinality(upTo(j))
          \/ Cardinality(upTo(j)) < Cardinality(upTo(i))
      BY <1>6, <1>8
    <2> QED BY <2>1, <2>2
  <1>10. \A id \in new : /\ PlaceInLine(place, last, id) \in Nat
                         /\ last < PlaceInLine(place, last, id)
                         /\ PlaceInLine(place, last, id) <= last + Cardinality(new)
    <2> TAKE id \in new
    <2> DEFINE n == Cardinality(upTo(id))
    <2>1. n \in Nat /\ n <= Cardinality(new) /\ n # 0 /\ PlaceInLine(place, last, id) = last + n
      BY <1>5, <1>7
    <2> HIDE DEF n
    <2> QED
      BY <1>1, <2>1
  <1>11. \A i, j \in new : PlaceInLine(place, last, i) = PlaceInLine(place, last, j) => i = j
    <2> TAKE i, j \in new
    <2> DEFINE n == Cardinality(upTo(i))
               m == Cardinality(upTo(j))
    <2>1. /\ n \in Nat /\ m \in Nat
          /\ PlaceInLine(place, last, i) = last + n /\ PlaceInLine(place, last, j) = last + m
      BY <1>5, <1>7
    <2>2. i # j => n # m
      BY <1>9
    <2> HIDE DEF n, m
    <2> QED
      BY <2>1, <2>2
  <1> QED
    BY <1>1, <1>10, <1>11 DEF new

\* What restore_one leaves of one directory.
LEMMA RestoredBooks ==
  ASSUME Sound, NEW id \in Dirs, NEW seq \in Nat, seq > 0, NEW known,
         NEW rec, rec = Restored(id, seq, known)
  PROVE  /\ rec.id = id
         /\ rec.seq = IF disk[id].saved THEN disk[id].rec.seq ELSE seq
         /\ rec.seq > 0
         /\ rec.state # "COMPLETED" => rec.done = KeptPart(id)
         /\ rec.state = "CANCELLED" => KeptPart(id) = 0
         /\ damages = 0 =>
              /\ disk[id].media \in Lengths /\ rec.total \in Lengths
              /\ rec.total = 0 \/ KeptPart(id) <= rec.total
              /\ rec.state = "COMPLETED" =>
                   /\ disk[id].media > 0 /\ KeptPart(id) = 0
                   /\ rec.done = disk[id].media /\ rec.total = disk[id].media
              /\ rec.state # "COMPLETED" => disk[id].media = 0
  <1>1. /\ id \in Ids /\ Undamaged(id) /\ (disk[id].saved => SavedRec(id))
        /\ disk[id] \in GoodDir /\ 0 \in Lengths
    BY InLengths DEF Dirs, Sound, Books, Saved, Owners, IInv, GoodDisk
  <1>2. /\ rec.id = id
        /\ rec.seq = IF disk[id].saved THEN disk[id].rec.seq ELSE seq
        /\ rec.state = "COMPLETED" =>
             rec.done = disk[id].media /\ rec.total = disk[id].media /\ disk[id].media > 0
        /\ rec.state # "COMPLETED" =>
             /\ rec.done = KeptPart(id)
             /\ rec.total \in {0, disk[id].rec.total}
             /\ \/ disk[id].media = 0 \/ ~disk[id].saved
                \/ disk[id].rec.total \notin {0, disk[id].media}
        /\ rec.state = "CANCELLED" => disk[id].saved /\ disk[id].rec.state = "CANCELLED"
    BY <1>1, RestoredAs DEF Sound
  <1>3. rec.seq > 0
    BY <1>1, <1>2 DEF SavedRec
  <1>4. rec.state = "CANCELLED" => KeptPart(id) = 0
    BY <1>1, <1>2 DEF SavedRec, KeptPart
  <1>5. KeptPart(id) = 0 \/ KeptPart(id) = disk[id].part
    BY DEF KeptPart
  <1>6. /\ disk[id].media \in Nat /\ disk[id].part \in Nat
        /\ disk[id].rec.total \in Nat
    BY <1>1 DEF GoodDir, GoodRec, Rec
  <1>7. ASSUME damages = 0
        PROVE  /\ disk[id].media \in Lengths /\ disk[id].rec.total \in Lengths
               /\ disk[id].rec.total = 0 \/ disk[id].part <= disk[id].rec.total
               /\ disk[id].media > 0 =>
                    disk[id].saved /\ disk[id].part = 0 /\ disk[id].rec.total \in {0, disk[id].media}
    BY <1>1, <1>7 DEF Undamaged
  <1>8. ASSUME damages = 0
        PROVE  /\ disk[id].media \in Lengths /\ rec.total \in Lengths
               /\ rec.total = 0 \/ KeptPart(id) <= rec.total
               /\ rec.state = "COMPLETED" =>
                    /\ disk[id].media > 0 /\ KeptPart(id) = 0
                    /\ rec.done = disk[id].media /\ rec.total = disk[id].media
               /\ rec.state # "COMPLETED" => disk[id].media = 0
    <2>1. CASE rec.state = "COMPLETED"
      BY <1>2, <1>5, <1>6, <1>7, <1>8, <2>1
    <2>2. CASE rec.state # "COMPLETED"
      BY <1>1, <1>2, <1>5, <1>6, <1>7, <1>8, <2>2
    <2> QED BY <2>1, <2>2
  <1> QED
    BY <1>2, <1>3, <1>4, <1>8

LEMMA RestoreBooks ==
  ASSUME Sound, Restore
  PROVE  Books'
  <1>1. PICK place, last, known : RestoredTable(place, last, known)
    BY RestoreIs DEF Sound
  <1> DEFINE new == {id \in Dirs : ~disk[id].saved}
             seq(id) == PlaceInLine(place, last, id)
  <1>2. /\ last \in Nat
        /\ \A id \in Dirs : place[id] \in Slots
        /\ \A i, j \in Dirs : place[i] = place[j] => i = j
        /\ \A id \in Dirs : disk[id].saved => disk[id].rec.seq <= last
        /\ nextSeq' = last + 1 + Cardinality(new)
    BY <1>1 DEF RestoredTable
  <1>3. damages' = damages /\ pc' = "idle" /\ Lengths' = Lengths /\ 0 \in Lengths
    BY InLengths DEF Restore, envVars, Lengths
  <1>4. /\ Cardinality(new) \in Nat
        /\ \A id \in new : seq(id) \in Nat /\ last < seq(id) /\ seq(id) <= last + Cardinality(new)
        /\ \A i, j \in new : seq(i) = seq(j) => i = j
    BY <1>2, PlacesDiffer DEF Sound
  <1>5. \A id \in Dirs : seq(id) \in Nat /\ last <= seq(id)
    <2> TAKE id \in Dirs
    <2> DEFINE before == {j \in Dirs : ~disk[j].saved /\ place[j] <= place[id]}
    <2>1. Cardinality(before) \in Nat
      BY DirsFit, FS_Subset, FS_CardinalityType DEF Sound
    <2>2. seq(id) = last + Cardinality(before)
      BY DEF PlaceInLine
    <2> HIDE DEF before, seq
    <2> QED
      BY <1>2, <2>1, <2>2
  <1>6. \A id \in Dirs : /\ disk'[id].dir /\ disk'[id].saved
                         /\ disk'[id].part = KeptPart(id) /\ disk'[id].media = disk[id].media
                         /\ slots'[place[id]].used /\ ~slots'[place[id]].active
                         /\ slots'[place[id]].rec = disk'[id].rec
    BY <1>1 DEF RestoredTable
  <1>7. \A id \in Dirs : disk'[id].rec = Restored(id, seq(id), known)
    BY <1>1 DEF RestoredTable
  <1> HIDE DEF seq, new
  <1>8. ASSUME NEW id \in Dirs
        PROVE  LET rec == disk'[id].rec
               IN /\ rec.id = id
                  /\ rec.seq = IF disk[id].saved THEN disk[id].rec.seq ELSE seq(id)
                  /\ rec.seq > 0
                  /\ rec.state # "COMPLETED" => rec.done = KeptPart(id)
                  /\ rec.state = "CANCELLED" => KeptPart(id) = 0
                  /\ damages = 0 =>
                       /\ disk[id].media \in Lengths /\ rec.total \in Lengths
                       /\ rec.total = 0 \/ KeptPart(id) <= rec.total
                       /\ rec.state = "COMPLETED" =>
                            /\ disk[id].media > 0 /\ KeptPart(id) = 0
                            /\ rec.done = disk[id].media /\ rec.total = disk[id].media
                       /\ rec.state # "COMPLETED" => disk[id].media = 0
    <2>1. CASE seq(id) > 0
      BY <1>5, <1>7, <2>1, RestoredBooks
    <2>2. CASE ~(seq(id) > 0)
      <3>1. disk[id].saved
        BY <1>2, <1>4, <2>2 DEF new
      <3>2. last = 0
        BY <1>2, <1>5, <2>2
      <3>3. disk[id].rec.seq \in Nat /\ disk[id].rec.seq <= 0
        BY <1>2, <3>1, <3>2 DEF Dirs, Sound, Owners, IInv, GoodDisk, GoodDir, GoodRec, Rec
      <3>4. disk[id].rec.seq > 0
        BY <3>1 DEF Dirs, Sound, Books, Saved, SavedRec
      <3> QED
        BY <3>3, <3>4
    <2> QED BY <2>1, <2>2
  <1>9. \A id \in Ids \ Dirs : disk'[id] = disk[id] /\ disk[id] = EmptyDir
    BY <1>1 DEF RestoredTable, Dirs, Sound, Books, Saved
  <1>10. /\ ~EmptyDir.saved /\ EmptyDir.media = 0 /\ EmptyDir.rec.total = 0 /\ ~EmptySlot.used
    BY DEF EmptyDir, EmptyRec, EmptySlot
  <1>11. \A id \in Ids : disk'[id].saved => id \in Dirs
    BY <1>9, <1>10
  <1>12. \A id \in Ids : ~disk'[id].dir => disk'[id] = EmptyDir
    BY <1>6, <1>9
  <1>13. \A id \in Ids : disk'[id].saved => SavedRec(id)'
    BY <1>6, <1>8, <1>11 DEF SavedRec
  <1>14. \A id \in Ids : Undamaged(id)'
    <2> TAKE id \in Ids
    <2>1. CASE id \in Dirs
      <3> DEFINE rec == disk'[id].rec
      <3>1. disk[id].media \in Nat
        BY <2>1 DEF Dirs, Sound, Owners, IInv, GoodDisk, GoodDir
      <3>2. damages = 0 =>
              /\ disk[id].media \in Lengths /\ rec.total \in Lengths
              /\ rec.total = 0 \/ KeptPart(id) <= rec.total
              /\ disk[id].media > 0 => KeptPart(id) = 0 /\ rec.total = disk[id].media
        BY <1>8, <2>1, <3>1
      <3>3. disk'[id].saved /\ disk'[id].part = KeptPart(id) /\ disk'[id].media = disk[id].media
        BY <1>6, <2>1
      <3> QED
        BY <1>3, <3>2, <3>3 DEF Undamaged
    <2>2. CASE id \notin Dirs
      BY <1>3, <1>9, <1>10, <2>2 DEF Undamaged
    <2> QED BY <2>1, <2>2
  <1>15. \A i, j \in Dirs : disk'[i].rec.seq = disk'[j].rec.seq => i = j
    <2> TAKE i, j \in Dirs
    <2>1. CASE disk[i].saved /\ disk[j].saved
      BY <1>8, <2>1 DEF Dirs, Sound, Books, Saved
    <2>2. CASE ~disk[i].saved /\ ~disk[j].saved
      BY <1>4, <1>8, <2>2 DEF new
    <2>3. ASSUME NEW k \in Dirs, NEW l \in Dirs, disk[k].saved, ~disk[l].saved
          PROVE  disk'[k].rec.seq # disk'[l].rec.seq
      <3>1. disk'[k].rec.seq = disk[k].rec.seq /\ disk[k].rec.seq <= last
            /\ disk'[l].rec.seq = seq(l) /\ last < seq(l) /\ seq(l) \in Nat
        BY <1>2, <1>4, <1>8, <2>3 DEF new
      <3>2. disk[k].rec.seq \in Nat
        BY DEF Dirs, Sound, Owners, IInv, GoodDisk, GoodDir, GoodRec, Rec
      <3> QED
        BY <1>2, <3>1, <3>2
    <2> QED
      BY <2>1, <2>2, <2>3
  <1>16. Saved'
    BY <1>11, <1>12, <1>13, <1>14, <1>15 DEF Saved
  <1>17. \A id \in Dirs : disk'[id].rec.seq < nextSeq'
    <2> TAKE id \in Dirs
    <2>1. disk[id].rec.seq \in Nat
      BY DEF Dirs, Sound, Owners, IInv, GoodDisk, GoodDir, GoodRec, Rec
    <2>2. CASE disk[id].saved
      <3>1. disk'[id].rec.seq = disk[id].rec.seq /\ disk[id].rec.seq <= last
        BY <1>2, <1>8, <2>2
      <3> QED
        BY <1>2, <1>4, <2>1, <3>1
    <2>3. CASE ~disk[id].saved
      <3>1. /\ disk'[id].rec.seq = seq(id) /\ seq(id) \in Nat
            /\ seq(id) <= last + Cardinality(new)
        BY <1>4, <1>8, <2>3 DEF new
      <3> QED
        BY <1>2, <1>4, <3>1
    <2> QED BY <2>2, <2>3
  <1>18. ASSUME NEW s \in Used'
         PROVE  \E id \in Dirs : s = place[id] /\ slots'[s].rec.id = id
    <2>1. s \in Slots /\ slots'[s].used
      BY DEF Used
    <2>2. PICK id \in Dirs : place[id] = s
      BY <1>1, <1>10, <2>1 DEF RestoredTable
    <2> QED
      BY <1>6, <1>8, <2>2
  <1>19. ASSUME NEW s \in Used' PROVE Entry(s)'
    <2>1. PICK id \in Dirs : s = place[id] /\ slots'[s].rec.id = id
      BY <1>18
    <2>2. slots'[s].rec = disk'[id].rec /\ ~slots'[s].active /\ disk'[id].saved
          /\ disk'[id].part = KeptPart(id) /\ disk'[id].media = disk[id].media
      BY <1>6, <2>1
    <2> DEFINE rec == disk'[id].rec
    <2>3. KeptPart(id) \in Nat
      BY FirstAttempt DEF KeptPart, Dirs, Sound, Owners, IInv, GoodDisk, GoodDir
    <2>4. /\ rec.state # "COMPLETED" => rec.done <= KeptPart(id)
          /\ rec.state = "CANCELLED" => rec.done = 0 /\ KeptPart(id) = 0
      BY <1>8, <2>3
    <2>5. damages = 0 =>
            /\ rec.total \in Lengths
            /\ rec.state # "COMPLETED" =>
                 disk[id].media = 0 /\ (rec.total = 0 \/ KeptPart(id) <= rec.total)
            /\ rec.state = "COMPLETED" =>
                 disk[id].media > 0 /\ rec.done = disk[id].media /\ rec.total = disk[id].media
      BY <1>8
    <2> QED
      BY <1>3, <1>17, <2>1, <2>2, <2>4, <2>5 DEF Entry
  <1>20. Entries'
    BY <1>18, <1>19 DEF Entries
  <1> QED
    BY <1>3, <1>16, <1>20 DEF Books, Transfer, InAttempt

-----------------------------------------------------------------------------
(* The books are kept *)

\* What concerns neither table nor disk nor the transfer.
LEMMA AsideBooks ==
  ASSUME Sound,
         \/ Gate \/ NothingDue \/ UNCHANGED vars
         \/ SignIn \/ SignOut \/ PlayHeavy \/ PlayLightOrEnd \/ SvcStop \/ SpaceChange \/ Revoke
  PROVE  Books'
  <1>1. UNCHANGED <<slots, disk, nextSeq, damages, lengthNamed>> /\ Lengths' = Lengths
    BY AsideIs DEF AsideStep, OnAir, Lengths
  <1>2. Saved'
    BY <1>1 DEF Sound, Books, Saved, SavedRec, Undamaged
  <1>3. Entries'
    BY <1>1 DEF Sound, Books, Entries, Entry, Used
  <1>4. Transfer'
    <2>1. CASE Gate \/ NothingDue
      BY <2>1 DEF Gate, NothingDue, Transfer, InAttempt
    <2>2. CASE UNCHANGED <<pc, cur, r, out>>
      BY <1>1, <2>2 DEF Sound, Books, Transfer, Achieved, InAttempt
    <2> QED
      BY <2>1, <2>2 DEF SignIn, SignOut, PlayHeavy, PlayLightOrEnd, SvcStop, SpaceChange, Revoke,
         vars, workerVars
  <1> QED
    BY <1>2, <1>3, <1>4 DEF Books

LEMMA BooksKept ==
  ASSUME OncePerItem, Sound, [Next]_vars
  PROVE  Books'
  <1>1. CASE UserCall
    <2>1. ASSUME NEW s \in Slots,
                 \/ Requeue(s) \/ RequeueRefused(s)
                 \/ PauseIdle(s) \/ Again(s, "RESUME") \/ Again(s, "RETRY") \/ CancelIdle(s)
                 \/ RemoveIdle(s)
                 \/ Post(s, "PAUSE") \/ Post(s, "CANCEL") \/ Withdraw(s) \/ RemoveActive(s)
          PROVE  Books'
      BY <2>1, RequeueBooks, ControlBooks, RemovedBooks, PostedBooks
    <2> QED
      BY <1>1, <2>1, EnqueueBooks DEF UserCall, Calling
  <1>2. CASE Worker
    <2>1. CASE Finish
      <3>1. FinishRemoved \/ \E rec, due, d : Ended(rec, due, d)
        BY <2>1, FinishEnds DEF Sound, Owners
      <3> QED
        BY <2>1, <3>1, EndedBooks, RemovedBooks
    <2>2. CASE InTransfer
      BY <2>2, QuietBooks, BodyEndsBooks, PartBooks, HeadBooks, BodyRecvBooks, RenameBooks DEF InTransfer
    <2> QED
      BY <1>2, <2>1, <2>2, PickBooks, AsideBooks DEF Worker, InTransfer, BodyEnds
  <1>3. CASE Environment
    <2>1. CASE Cleared
      BY <2>1, CrashBooks
    <2> QED
      BY <1>3, <2>1, AsideBooks, PostedBooks, DamageBooks DEF Environment, Cleared
  <1> QED
    BY <1>1, <1>2, <1>3, RestoreBooks, AsideBooks DEF Next

LEMMA SoundAlways ==
  ASSUME OncePerItem
  PROVE  Spec => []Sound
  <1>1. Init => Sound
    <2> SUFFICES ASSUME Init PROVE Sound
      OBVIOUS
    <2>1. Owners
      BY OwnersStart
    <2>2. /\ ~EmptyDir.saved /\ EmptyDir.media = 0 /\ EmptyDir.rec.total = 0 /\ ~EmptySlot.used
          /\ 0 \in Lengths
      BY InLengths DEF EmptyDir, EmptyRec, EmptySlot
    <2>3. Saved
      BY <2>2 DEF Init, Saved, Undamaged
    <2>4. Used = {}
      BY <2>2 DEF Init, Used
    <2> QED
      BY <2>1, <2>3, <2>4 DEF Init, Sound, Books, Entries, Transfer, InAttempt
  <1>2. Sound /\ [Next]_vars => Sound'
    BY OwnersKept, BooksKept DEF Sound
  <1> QED
    BY <1>1, <1>2, PTL DEF Spec

-----------------------------------------------------------------------------
(* What follows from the books *)

\* The library shows every entry of the table once: no two share an item or a
\* place in line, none is without a place, and the next place is nobody's.
THEOREM EachItemListedOnceAlways ==
  ASSUME OncePerItem
  PROVE  Spec => []EachItemListedOnce
  <1>1. Sound => EachItemListedOnce
    <2> SUFFICES ASSUME Sound PROVE EachItemListedOnce
      OBVIOUS
    <2>1. Visible \subseteq Used /\ Used \subseteq Slots
      BY DEF Visible, Used
    <2>2. \A s \in Used : slots[s].rec.seq > 0 /\ slots[s].rec.seq < nextSeq
      BY EntryIs DEF Entry, SavedRec
    <2>3. \A s, t \in Used : slots[s].rec.id = slots[t].rec.id => s = t
      BY DEF Sound, Books, Entries
    <2>4. ASSUME NEW s \in Used, NEW t \in Used, slots[s].rec.seq = slots[t].rec.seq
          PROVE  s = t
      <3>1. slots[s].rec.id = slots[t].rec.id
        BY <2>4, EntryIs DEF Entry, Sound, Books, Saved
      <3> QED BY <2>3, <3>1
    <2>5. \A s \in Slots : s <= s
      BY DEF Slots
    <2>6. Listed = Visible
      BY <2>1, <2>2, <2>4, <2>5 DEF Listed
    <2> QED
      BY <2>1, <2>2, <2>3, <2>6 DEF EachItemListedOnce
  <1> QED
    BY <1>1, SoundAlways, PTL

\* An idle entry claims no byte that its partial on disk does not hold, whatever
\* a failed write left there, and a cancelled one holds none.
THEOREM DoneIsOnDiskAlways ==
  ASSUME OncePerItem
  PROVE  Spec => []DoneIsOnDisk
  <1>1. Sound => DoneIsOnDisk
    BY EntryIs DEF DoneIsOnDisk, Entry, Visible
  <1> QED
    BY <1>1, SoundAlways, PTL

\* What the Offline library offers is a file of the length the record names, and
\* the whole film if the server named the length of what it sent, as long as
\* nobody damaged the files.
THEOREM CompletedIsWholeAlways ==
  ASSUME OncePerItem
  PROVE  Spec => [](damages = 0 => CompletedIsWhole)
  <1>1. Sound => (damages = 0 => CompletedIsWhole)
    <2> SUFFICES ASSUME Sound, damages = 0, NEW s \in Visible, slots[s].rec.state = "COMPLETED"
                 PROVE  LET media == disk[slots[s].rec.id].media
                        IN /\ media > 0 /\ slots[s].rec.done = media /\ slots[s].rec.total = media
                           /\ lengthNamed => media = Size
      BY DEF CompletedIsWhole
    <2> DEFINE media == disk[slots[s].rec.id].media
    <2>1. s \in Used /\ Entry(s) /\ Undamaged(slots[s].rec.id)
      BY EntryIs DEF Visible
    <2>2. media > 0 /\ slots[s].rec.done = media /\ slots[s].rec.total = media
      BY <2>1 DEF Entry
    <2>3. lengthNamed => media \in {0, Size}
      BY <2>1 DEF Undamaged, Lengths
    <2> QED
      BY <2>2, <2>3
  <1> QED
    BY <1>1, SoundAlways, PTL

\* restore_one finds the entry as the table shows it.
LEMMA RestoredAsShownIs ==
  ASSUME Sound, damages = 0, NEW s \in Used
  PROVE  Restored(slots[s].rec.id, 0, {}).state \in AfterRestart(s)
  <1> DEFINE id == slots[s].rec.id
             old == disk[id].rec
  <1>1. /\ s \in Slots /\ id \in Ids /\ disk[id] \in GoodDir /\ disk[id].saved
        /\ Entry(s) /\ Undamaged(id) /\ old \in Rec /\ Size \in Nat \ {0}
    BY EntryIs, ConstantsAssumption DEF GoodDir, GoodRec
  <1>2. old.state = slots[s].rec.state
    BY <1>1 DEF Entry
  <1>3. MediaWhole(id) <=> disk[id].media > 0
    BY <1>1 DEF MediaWhole, Undamaged
  <1>4. MediaWhole(id) => Restored(id, 0, {}).state = "COMPLETED"
    BY <1>1 DEF Restored, Rec
  <1>5. ~MediaWhole(id) /\ old.state # "COMPLETED" =>
          Restored(id, 0, {}).state = IF old.state = "DOWNLOADING" THEN "QUEUED" ELSE old.state
    <2> SUFFICES ASSUME ~MediaWhole(id), old.state # "COMPLETED"
                 PROVE  Restored(id, 0, {}).state
                          = IF old.state = "DOWNLOADING" THEN "QUEUED" ELSE old.state
      OBVIOUS
    <2> DEFINE st == IF old.state = "DOWNLOADING" THEN "QUEUED" ELSE old.state
    <2>1. Restored(id, 0, {}) = [old EXCEPT !.state = st, !.done = KeptPart(id)]
      BY <1>1, ApplyIs DEF Restored, Rec
    <2> HIDE DEF st, old
    <2>2. Restored(id, 0, {}).state = st
      BY <1>1, <2>1 DEF Rec
    <2> QED
      BY <2>2 DEF st
  <1> HIDE DEF old, id
  <1>6. CASE slots[s].rec.state = "COMPLETED"
    BY <1>1, <1>3, <1>4, <1>6 DEF Entry, AfterRestart, id
  <1>7. CASE slots[s].rec.state = "DOWNLOADING"
    <2>1. s = cur /\ s # 0
      BY <1>1, <1>7, ConstantsAssumption DEF Sound, Owners, IInv, OneTransfer, Slots
    <2>2. InAttempt
      BY <2>1 DEF Sound, Owners, IInv, OneTransfer
    <2>3. r.id = id
      BY <2>1, <2>2, TransferIs DEF id
    <2>4. Achieved <=> disk[id].media > 0
      BY <2>2, <2>3 DEF Sound, Books, Transfer, Achieved
    <2>5. AfterRestart(s) = IF Achieved THEN {"COMPLETED"} ELSE {"QUEUED"}
      BY <1>7 DEF AfterRestart, Achieved
    <2> QED
      BY <1>1, <1>2, <1>3, <1>4, <1>5, <1>7, <2>4, <2>5 DEF id
  <1>8. CASE slots[s].rec.state \notin {"COMPLETED", "DOWNLOADING"}
    <2>1. ~slots[s].active
      BY <1>1, <1>8 DEF Sound, Owners, IInv, OneTransfer
    <2>2. disk[id].media = 0
      BY <1>1, <1>8, <2>1 DEF Entry, id
    <2>3. AfterRestart(s) = {slots[s].rec.state}
      BY <1>8 DEF AfterRestart
    <2> QED
      BY <1>1, <1>2, <1>3, <1>5, <1>8, <2>2, <2>3 DEF id
  <1> QED
    BY <1>6, <1>7, <1>8

\* A power cut at any moment loses no accepted item and changes no item's
\* state or place, as long as nobody damaged the files.
THEOREM RestartKeepsQueueAlways ==
  ASSUME OncePerItem
  PROVE  Spec => []RestartKeepsQueue
  <1>1. Sound => RestartKeepsQueue
    <2> SUFFICES ASSUME Sound, damages = 0, NEW s \in Visible
                 PROVE  OnDisk(slots[s].rec.id) /\ RestoredAsShown(s)
      BY DEF RestartKeepsQueue, RecordsAgree, AcceptedIsOnDisk
    <2>1. s \in Used
      BY DEF Visible
    <2>2. disk[slots[s].rec.id].rec.seq = slots[s].rec.seq /\ OnDisk(slots[s].rec.id)
      BY <2>1, EntryIs DEF Entry, OnDisk
    <2> QED
      BY <2>1, <2>2, RestoredAsShownIs DEF RestoredAsShown
  <1> QED
    BY <1>1, SoundAlways, PTL

-----------------------------------------------------------------------------
(* When a partial may shrink *)

\* What PartialIsKept asks of a step that shortens the partial of an item.
MayShrink(id) ==
  \/ ~disk'[id].dir
  \/ disk'[id].media > 0
  \/ pc' = "off"
  \/ \E s \in Slots : slots'[s].rec.state \in {"CANCELLED"} /\ slots'[s].rec.id = id
  \/ \E s \in Slots : slots[s].rec.err = "CORRUPT" /\ slots[s].rec.id = id
  \/ pc = "head" /\ r.id = id /\ r'.done = 0
  \/ pc = "verify" /\ r.id = id /\ out'.err = "BAD_MEDIA"

\* A step that saves a record, or none, leaves the lengths of the partials to
\* what it did to them before.
LEMMA SavedPart ==
  ASSUME NEW d \in GoodDisk, NEW rec, rec.id \in Ids, disk' = d \/ disk' = Save(d, rec)
  PROVE  \A id \in Ids : disk'[id].part = d[id].part
  BY SaveIs

\* One item's partial goes: every other stays as it is.
LEMMA DroppedPart ==
  ASSUME Sound, NEW i \in Ids, NEW rec, rec.id = i,
         NEW d \in {disk, SetPart(disk, i, 0)}, disk' = d \/ disk' = Save(d, rec),
         NEW id \in Ids, disk'[id].part < disk[id].part
  PROVE  id = i /\ d # disk
  <1>1. disk \in GoodDisk /\ d \in GoodDisk /\ disk[id].part \in Nat
    BY PartGood, FirstAttempt DEF Sound, Owners, IInv, GoodDisk, GoodDir
  <1>2. disk'[id].part = d[id].part
    BY <1>1, SavedPart
  <1>3. id # i => d[id].part = disk[id].part
    BY <1>1, SetPartIs
  <1> QED
    BY <1>1, <1>2, <1>3

LEMMA CallsShrink ==
  ASSUME Sound, UserCall, NEW id \in Ids, disk'[id].part < disk[id].part
  PROVE  MayShrink(id)
  <1>1. disk \in GoodDisk /\ disk[id].part \in Nat
    BY DEF Sound, Owners, IInv, GoodDisk, GoodDir
  <1>2. ASSUME NEW i \in Ids, NEW hint \in Hints, EnqueueNew(i, hint) PROVE FALSE
    <2>1. disk'[id].part = disk[id].part
      BY <1>2, EnqueueIs DEF Sound, Owners
    <2> QED BY <1>1, <2>1
  <1>3. ASSUME NEW s \in Slots, Requeue(s) \/ RequeueRefused(s) PROVE MayShrink(id)
    <2> DEFINE old == slots[s].rec
               rec == [Unvouched(old) EXCEPT !.state = "QUEUED", !.err = "NONE",
                                             !.attempts = 0, !.url = TRUE]
               d == DropUnvouched(old)
    <2>1. s \in Used /\ old.id \in Ids /\ old \in Rec
      BY <1>3, EntryIs DEF Requeue, RequeueRefused, Visible
    <2>2. rec.id = old.id
      BY <2>1 DEF Unvouched, Rec
    <2>3. disk' = d \/ disk' = Save(d, rec)
      BY <1>3 DEF Requeue, RequeueRefused
    <2>4. d \in {disk, SetPart(disk, old.id, 0)} /\ (d # disk => old.err = "CORRUPT")
      BY DEF DropUnvouched
    <2> HIDE DEF rec, d
    <2>5. id = old.id /\ old.err = "CORRUPT"
      BY <2>1, <2>2, <2>3, <2>4, DroppedPart
    <2> QED
      BY <2>5 DEF MayShrink
  <1>4. ASSUME NEW s \in Slots, NEW ev, NEW rec, NEW due, rec.id = slots[s].rec.id,
               NEW d \in {disk, SetPart(disk, slots[s].rec.id, 0)},
               IdleTransition(s, ev, rec, due, d),
               d = disk \/ rec.state = "CANCELLED"
        PROVE  MayShrink(id)
    <2>1. s \in Used /\ slots[s].rec.id \in Ids /\ slots[s] \in GoodSlot
      BY <1>4, EntryIs DEF IdleTransition, Visible
    <2>2. id = slots[s].rec.id /\ d # disk
      BY <1>4, <2>1, DroppedPart DEF IdleTransition
    <2>3. slots'[s].rec = rec
      BY <1>4, <2>1 DEF IdleTransition, Sound, Owners, IInv, GoodSlot
    <2> QED
      BY <1>4, <2>2, <2>3 DEF MayShrink
  <1>5. ASSUME NEW s \in Slots, NEW ev \in {"PAUSE", "CANCEL", "RESUME", "RETRY"},
               s \in Visible, ~slots[s].active, Legal(slots[s].rec.state, ev)
        PROVE  /\ Moved(s, ev) \in Rec /\ Moved(s, ev).id = slots[s].rec.id
               /\ ev = "CANCEL" => Moved(s, ev).state = "CANCELLED"
    <2>1. slots[s].rec \in Rec
      BY <1>5, EntryIs DEF Visible
    <2>2. ev = "CANCEL" => Apply(slots[s].rec.state, ev) = "CANCELLED"
      BY <1>5, <2>1, ApplyUser DEF Rec
    <2>3. Moved(s, ev) \in Rec /\ Moved(s, ev).id = slots[s].rec.id
      BY <1>5, MovedIs DEF Sound, Owners
    <2> QED
      BY <2>1, <2>2, <2>3 DEF Moved, Rec
  <1>6. ASSUME NEW s \in Slots, PauseIdle(s) PROVE MayShrink(id)
    BY <1>4, <1>5, <1>6 DEF PauseIdle, IdleTransition
  <1>7. ASSUME NEW s \in Slots, NEW ev \in {"RESUME", "RETRY"}, Again(s, ev) PROVE MayShrink(id)
    <2> DEFINE rec == [Moved(s, ev) EXCEPT !.err = "NONE", !.attempts = 0]
    <2>1. IdleTransition(s, ev, rec, TRUE, disk)
      BY <1>7 DEF Again
    <2>2. rec.id = slots[s].rec.id
      BY <1>5, <2>1 DEF IdleTransition, Rec
    <2> HIDE DEF rec
    <2> QED
      BY <1>4, <2>1, <2>2
  <1>8. ASSUME NEW s \in Slots, CancelIdle(s) PROVE MayShrink(id)
    <2> DEFINE rec == [Moved(s, "CANCEL") EXCEPT !.done = 0, !.err = "NONE"]
    <2>1. IdleTransition(s, "CANCEL", rec, slots[s].due, SetPart(disk, slots[s].rec.id, 0))
      BY <1>8 DEF CancelIdle
    <2>2. rec.id = slots[s].rec.id /\ rec.state = "CANCELLED"
      BY <1>5, <2>1 DEF IdleTransition, Rec
    <2> HIDE DEF rec
    <2> QED
      BY <1>4, <2>1, <2>2
  <1>9. ASSUME NEW s \in Slots, RemoveIdle(s) PROVE MayShrink(id)
    <2>1. slots[s].rec.id \in Ids /\ disk' = [disk EXCEPT ![slots[s].rec.id] = EmptyDir]
      BY <1>9, EntryIs DEF RemoveIdle, Visible
    <2>2. id = slots[s].rec.id
      BY <1>1, <2>1 DEF GoodDisk
    <2> QED
      BY <1>1, <2>1, <2>2 DEF GoodDisk, EmptyDir, MayShrink
  <1>10. ASSUME NEW s \in Slots,
                Post(s, "PAUSE") \/ Post(s, "CANCEL") \/ Withdraw(s) \/ RemoveActive(s)
         PROVE  FALSE
    BY <1>1, <1>10 DEF Post, Withdraw, RemoveActive
  <1> QED
    BY <1>2, <1>3, <1>6, <1>7, <1>8, <1>9, <1>10 DEF UserCall, Calling

LEMMA AttemptShrinks ==
  ASSUME Sound, damages = 0, InTransfer, NEW id \in Ids, disk'[id].part < disk[id].part
  PROVE  MayShrink(id)
  <1>1. /\ InAttempt /\ disk \in GoodDisk /\ disk[id].part \in Nat /\ r.id \in Ids
        /\ disk[r.id].part \in 0..Size /\ disk[r.id] \in GoodDir /\ r \in Rec
    BY TransferIsEntryStep, TransferIs DEF Sound, GoodDisk, GoodDir
  <1>2. CASE Connect \/ HeadStop \/ HeadFail \/ HeadRefused \/ HeadUncut \/ HeadComplete
             \/ BodyEnd \/ VerifyEmpty
    <2>1. disk' = disk
      BY <1>2 DEF Connect, HeadStop, HeadFail, HeadRefused, HeadUncut, HeadComplete, BodyEnd,
         VerifyEmpty
    <2> QED BY <1>1, <2>1
  <1>3. CASE AttemptStart
    <2>1. r.total \in Nat /\ (r.total = 0 \/ disk[r.id].part <= r.total)
      BY <1>1, <1>3, BytesAre DEF AttemptStart, Rec
    <2>2. ~(r.total > 0 /\ disk[r.id].part > r.total)
      BY <1>1, <2>1
    <2>3. disk' = SetPart(disk, r.id, disk[r.id].part)
      BY <1>3, <2>2 DEF AttemptStart
    <2>4. disk'[id].part = disk[id].part
      BY <1>1, <2>3, SetPartIs
    <2> QED BY <1>1, <2>4
  <1>4. CASE HeadInconsistent \/ HeadPartial \/ HeadWhole
    <2>1. pc = "head" /\ r.done = disk[r.id].part
      BY <1>4, BytesAre DEF HeadInconsistent, HeadPartial, HeadWhole, HeadBody
    <2>2. CASE HeadInconsistent
      <3>1. disk' = SetPart(disk, r.id, 0) /\ r' = [r EXCEPT !.done = 0]
        BY <2>2 DEF HeadInconsistent
      <3>2. id = r.id
        BY <1>1, <3>1, DroppedPart
      <3> QED
        BY <1>1, <2>1, <3>1, <3>2 DEF MayShrink, Rec
    <2>3. ASSUME NEW rec \in Rec, HeadBody(rec), rec.done \in {0, r.done}
          PROVE  MayShrink(id)
      <3> DEFINE d == SetPart(disk, r.id, rec.done)
                 new == Published(rec)[cur].rec
      <3>1. new.id = r.id /\ (disk' = d \/ disk' = Save(d, new)) /\ r' = rec
        BY <1>1, <2>3, PublishedIs DEF HeadBody, Sound, Owners
      <3> HIDE DEF new
      <3>2. rec.done \in 0..Size /\ d[r.id].part = rec.done /\ (id # r.id => d[id] = disk[id])
        BY <1>1, <2>1, <2>3, ConstantsAssumption, SetPartIs
      <3>3. d \in GoodDisk
        BY <1>1, <3>2, PartGood
      <3> HIDE DEF d
      <3>4. disk'[id].part = d[id].part
        BY <1>1, <3>1, <3>3, SavedPart
      <3>5. id = r.id /\ rec.done = 0
        BY <1>1, <2>1, <2>3, <3>2, <3>4
      <3> QED
        BY <2>1, <3>1, <3>5 DEF MayShrink
    <2>4. CASE HeadPartial
      <3> DEFINE rec == [r EXCEPT !.total = Size]
      <3>1. rec \in Rec /\ rec.done = r.done
        BY <1>1, ConstantsAssumption DEF Rec
      <3>2. HeadBody(rec)
        BY <2>4 DEF HeadPartial
      <3> HIDE DEF rec
      <3> QED
        BY <2>3, <3>1, <3>2
    <2>5. ASSUME NEW total \in WholeLengths, HeadBody([r EXCEPT !.done = 0, !.total = total])
          PROVE  MayShrink(id)
      <3> DEFINE rec == [r EXCEPT !.done = 0, !.total = total]
      <3>1. rec \in Rec /\ rec.done = 0
        <4>1. 0 \in 0..Size /\ total \in 0..Size
          BY <2>5, WholeLength, FirstAttempt
        <4> QED
          BY <1>1, <4>1 DEF Rec
      <3>2. HeadBody(rec)
        BY <2>5
      <3> HIDE DEF rec
      <3> QED
        BY <2>3, <3>1, <3>2
    <2> QED
      BY <1>4, <2>2, <2>4, <2>5 DEF HeadWhole
  <1>5. CASE BodyRecv
    <2> DEFINE n == r'.done
               d == SetPart(disk, r.id, n)
    <2>1. r.done = disk[r.id].part /\ r.done < Size /\ r' = [r EXCEPT !.done = r.done + 1]
      BY <1>5, BytesAre DEF BodyRecv
    <2>2. n \in 0..Size /\ n > disk[r.id].part
      BY <1>1, <2>1, ConstantsAssumption DEF Rec
    <2>3. d \in GoodDisk /\ d[id].part >= disk[id].part
      <3>1. d[r.id].part = n /\ (id # r.id => d[id] = disk[id])
        BY <1>1, SetPartIs
      <3> HIDE DEF n, d
      <3>2. d[id].part >= disk[id].part
        BY <1>1, <2>2, <3>1
      <3> QED
        BY <1>1, <2>2, <3>2, PartGood DEF d
    <2>4. /\ Published(r')[cur].rec.id = r.id
          /\ disk' = d \/ disk' = Save(d, Published(r')[cur].rec)
      BY <1>1, <1>5, PublishedIs DEF BodyRecv, Sound, Owners
    <2> DEFINE new == Published(r')[cur].rec
    <2>5. new.id = r.id /\ (disk' = d \/ disk' = Save(d, new))
      BY <2>4
    <2> HIDE DEF n, d, new
    <2>6. disk'[id].part = d[id].part
      BY <1>1, <2>3, <2>5, SavedPart
    <2>7. d[id].part \in Nat
      BY <2>3 DEF GoodDisk, GoodDir
    <2> QED
      BY <1>1, <2>3, <2>6, <2>7
  <1>6. CASE VerifyBad
    <2>1. pc = "verify" /\ disk' = SetPart(disk, r.id, 0) /\ out'.err = "BAD_MEDIA"
      BY <1>6 DEF VerifyBad, End
    <2>2. id = r.id
      BY <1>1, <2>1, DroppedPart
    <2> QED
      BY <2>1, <2>2 DEF MayShrink
  <1>7. CASE VerifyGood
    <2>1. disk'[id].part = disk[id].part
      BY <1>1, <1>7 DEF VerifyGood, GoodDisk, GoodDir
    <2> QED BY <1>1, <2>1
  <1>8. CASE Rename
    <2> DEFINE e == [disk[r.id] EXCEPT !.media = disk[r.id].part, !.part = 0]
    <2>1. disk' # disk
      BY <1>1
    <2>2. disk' = [disk EXCEPT ![r.id] = e]
      BY <1>1, <1>8, <2>1 DEF Rename
    <2>3. e.media = disk[r.id].part
      BY <1>1 DEF GoodDir
    <2>4. disk[r.id].part > 0
      BY <1>8, BytesAre DEF Rename
    <2> HIDE DEF e
    <2>5. id = r.id /\ disk'[r.id] = e
      BY <1>1, <2>2 DEF GoodDisk
    <2> QED
      BY <2>3, <2>4, <2>5 DEF MayShrink
  <1>9. CASE BodyEnds
    <2>1. pc = "body" /\ r.done = disk[r.id].part
      BY <1>9, BodyEndsIs, BytesAre
    <2>2. CASE disk' = disk
      BY <1>1, <2>2
    <2>3. ASSUME NEW n \in AfterBadWrite, disk' = SetPart(disk, r.id, n)
          PROVE  FALSE
      <3>1. n \in 0..Size /\ disk[r.id].part <= n
        BY <1>1, <2>1, BadWrite DEF Sound, Owners
      <3>2. disk'[id].part = n \/ disk'[id].part = disk[id].part
        BY <1>1, <2>3, <3>1, SetPartIs
      <3>3. id # r.id => disk'[id] = disk[id]
        BY <1>1, <2>3, <3>1, SetPartIs
      <3> QED
        BY <1>1, <3>1, <3>2, <3>3
    <2> QED
      BY <1>9, <2>2, <2>3, BodyEndsIs
  <1> QED
    BY <1>2, <1>3, <1>4, <1>5, <1>6, <1>7, <1>8, <1>9 DEF InTransfer

LEMMA WorkerShrinks ==
  ASSUME Sound, damages = 0, Worker, NEW id \in Ids, disk'[id].part < disk[id].part
  PROVE  MayShrink(id)
  <1>1. disk \in GoodDisk /\ disk[id].part \in Nat
    BY DEF Sound, Owners, IInv, GoodDisk, GoodDir
  <1>2. CASE Gate \/ NothingDue
    BY <1>1, <1>2 DEF Gate, NothingDue
  <1>3. ASSUME NEW s \in Slots, Pick(s) PROVE FALSE
    <2>1. /\ slots[s].rec \in Rec /\ slots[s].rec.id \in Ids
          /\ disk' = Save(disk, Moved(s, "START"))
      BY <1>3, EntryIs DEF Pick, Pickable, Visible
    <2>2. Moved(s, "START").id = slots[s].rec.id
      BY <2>1 DEF Moved, Rec
    <2> QED
      BY <2>1, <2>2, DroppedPart
  <1>4. CASE Finish
    <2>1. InAttempt
      BY <1>4 DEF Finish, InAttempt
    <2>2. r.id \in Ids /\ cur \in Slots
      BY <2>1, TransferIs
    <2>3. CASE FinishRemoved
      <3>1. disk' = [disk EXCEPT ![r.id] = EmptyDir]
        BY <2>3 DEF FinishRemoved
      <3>2. id = r.id /\ disk'[id] = EmptyDir
        BY <1>1, <2>2, <3>1 DEF GoodDisk
      <3> QED
        BY <3>2 DEF EmptyDir, MayShrink
    <2>4. ASSUME NEW rec, NEW due, NEW d, Ended(rec, due, d) PROVE MayShrink(id)
      <3>1. /\ rec.id = r.id /\ d \in {disk, SetPart(disk, r.id, 0)} /\ disk' = Save(d, rec)
            /\ d # disk => rec.state = "CANCELLED"
        BY <2>4 DEF Ended, Settle
      <3>2. slots'[cur].rec = rec
        BY <1>4, <2>4, FinishIsEntryStep DEF Sound
      <3>3. id = r.id /\ d # disk
        BY <2>2, <3>1, DroppedPart
      <3> QED
        BY <2>2, <3>1, <3>2, <3>3 DEF MayShrink
    <2> QED
      BY <1>4, <2>3, <2>4, FinishEnds DEF Sound, Owners
  <1>5. CASE InTransfer
    BY <1>5, AttemptShrinks
  <1> QED
    BY <1>2, <1>3, <1>4, <1>5 DEF Worker, InTransfer, BodyEnds

LEMMA StepShrinks ==
  ASSUME Sound, damages = 0, Next, NEW id \in Ids, disk'[id].part < disk[id].part
  PROVE  MayShrink(id)
  <1>1. disk \in GoodDisk /\ disk[id].part \in 0..Size
    BY DEF Sound, Owners, IInv, GoodDisk, GoodDir
  <1>2. CASE Restore
    <2>1. ~Oversized(id)
      <3>1. Undamaged(id) /\ disk[id].rec.total \in Nat
        BY DEF Sound, Books, Saved, Owners, IInv, GoodDisk, GoodDir, GoodRec, Rec
      <3> QED
        BY <1>1, <3>1 DEF Undamaged, Oversized
    <2>2. KeptPart(id) = disk[id].part
      BY <2>1 DEF KeptPart
    <2>3. PICK place, last, known : RestoredTable(place, last, known)
      BY <1>2, RestoreIs DEF Sound
    <2>4. disk'[id].part = disk[id].part
      BY <2>2, <2>3 DEF RestoredTable
    <2> QED BY <1>1, <2>4
  <1>3. CASE Environment
    <2>1. CASE pc' = "off"
      BY <2>1 DEF MayShrink
    <2>2. CASE disk' = disk
      BY <1>1, <2>2
    <2> QED
      BY <1>3, <2>1, <2>2 DEF Environment, SignIn, SignOut, PlayHeavy, PlayLightOrEnd, SvcStop,
         SvcJoined, Crash, CrashInEnqueue, CrashInRemove, PowerOff, Damage, Tick, SpaceChange,
         Revoke, workerVars
  <1> QED
    BY <1>2, <1>3, CallsShrink, WorkerShrinks DEF Next

\* The partial only shrinks when its bytes are known to be useless or unwanted,
\* in every run in which nobody damages the files: by a cancel, a
\* removal, a transfer that starts over, media that is not the film; never by a
\* pause, a suspension, a bad network or a refusal of the server.
THEOREM PartialIsKeptAlways ==
  ASSUME OncePerItem
  PROVE  Spec /\ [](damages = 0) => PartialIsKept
  <1>1. Sound /\ damages = 0 /\ Next =>
          \A id \in Ids : disk'[id].part < disk[id].part =>
            \/ ~disk'[id].dir
            \/ disk'[id].media > 0
            \/ pc' = "off"
            \/ \E s \in Slots : slots'[s].rec.state \in {"CANCELLED"} /\ slots'[s].rec.id = id
            \/ \E s \in Slots : slots[s].rec.err = "CORRUPT" /\ slots[s].rec.id = id
            \/ pc = "head" /\ r.id = id /\ r'.done = 0
            \/ pc = "verify" /\ r.id = id /\ out'.err = "BAD_MEDIA"
    BY StepShrinks DEF MayShrink
  <1> QED
    BY <1>1, SoundAlways, PTL DEF Spec, PartialIsKept

=============================================================================
