----------------------------- MODULE DlManager -----------------------------
(***************************************************************************)
(* The offline-download manager: offline/dl_manager.cpp with the item      *)
(* directories of offline/dl_store.cpp and the stop/start of               *)
(* offline/dl_service.cpp.                                                 *)
(*                                                                         *)
(* Threads: the UI calls (Enqueue, Pause, Cancel, ...) each run under the  *)
(* manager's lock and are one step.  The worker's dl_manager_step is cut   *)
(* at every point where it does not hold the lock: the gate it reads       *)
(* without the lock, the pick, and inside attempt() every read of the      *)
(* socket, of s_auth, of the posted control and of free space.  The        *)
(* console may lose power between any two steps; only `disk' survives.     *)
(*                                                                         *)
(* Abstractions: a file is its length in units 0..Size; a record is saved  *)
(* whole (DlStore has the steps of one save); the transfer buffer is       *)
(* flushed after each unit (DlTransfer has the buffer); an HDD reading is  *)
(* OK or LOW, and an unreadable one counts as LOW, as in the code.         *)
(***************************************************************************)
EXTENDS DlModel, FiniteSets

CONSTANTS
  Ids,              \* item ids
  NoId,             \* the id in the record of an unused slot
  NSlots,           \* DL_MAX_ITEMS
  Size,             \* length of every item's media on the server
  MaxAttempts,      \* DL_MAX_ATTEMPTS
  MediaMaxAttempts, \* DL_MEDIA_MAX_ATTEMPTS
  Hints,            \* sizes the item page may give for it, 0 = not known
  LengthsNamed,     \* bound: does the server name the length of a whole body?
  Statuses,         \* HTTP statuses the server may refuse with
  NetErrors,        \* transient errors a connection may end with
  ReAddWhileRemoving, \* may the user re-add an item whose removal is pending?
  Outside,          \* bound: the outside events a run has, of OutsideEvents
  MaxSeq,           \* bound: enqueues per behaviour
  MaxToken,         \* bound: sessions the server hands out, one after another
  MaxCrashes,       \* bound: power cuts
  MaxDamage         \* bound: files damaged behind the app's back

OutsideEvents == {"call", "post", "space", "play", "stop", "signout"}

ASSUME ConstantsAssumption ==
  /\ NoId \notin Ids /\ IsFiniteSet(Ids)
  /\ NSlots \in Nat \ {0}
  /\ Size \in Nat \ {0}
  /\ MaxAttempts \in Nat \ {0}
  /\ MediaMaxAttempts \in 1..MaxAttempts
  /\ Hints \subseteq {0, Size}
  /\ LengthsNamed \subseteq BOOLEAN
  /\ Statuses \subseteq Nat
  /\ NetErrors \subseteq TransientErrors
  /\ ReAddWhileRemoving \in BOOLEAN
  /\ Outside \subseteq OutsideEvents
  /\ MaxSeq \in Nat
  /\ MaxToken \in Nat \ {0}
  /\ MaxCrashes \in Nat
  /\ MaxDamage \in Nat

VARIABLES
  slots,     \* s_slots
  ready,     \* s_ready
  nextSeq,   \* s_next_seq
  auth,      \* s_auth: the session the header carries, 0 = none
  authHold,  \* s_auth_hold
  spaceHold, \* s_space_hold
  suspended, \* s_suspended
  playBlock, \* s_play_block
  disk,      \* per item directory: record, media.ts.part, media.ts
  pc,        \* where the worker is in dl_manager_step
  cur,       \* the slot it transfers, 0 = none
  r,         \* its private copy of the record
  have0,     \* have_at_start
  tok,       \* the session its request was sent with
  out,       \* the Outcome of the attempt
  space,     \* what the HDD reads: OK or LOW
  session,   \* the session the server accepts
  lengthNamed, \* does a 200 of this server always say how long its body is?
  crashes,
  damages

tableVars  == <<slots, ready, nextSeq>>
gateVars   == <<auth, authHold, spaceHold, suspended, playBlock>>
workerVars == <<pc, cur, r, have0, tok, out>>
envVars    == <<space, session, lengthNamed, crashes, damages>>
vars == <<tableVars, gateVars, disk, workerVars, envVars>>

Slots == 1..NSlots
Ctls  == {"NONE", "PAUSE", "CANCEL", "REMOVE"}

\* Posted requests only ever escalate: pause < cancel < remove.
Rank == [NONE |-> 0, PAUSE |-> 1, CANCEL |-> 2, REMOVE |-> 3]

Rec == [id : Ids \cup {NoId}, state : States, err : Errors, seq : Nat,
        attempts : 0..MaxAttempts, done : 0..Size, total : 0..Size,
        url : BOOLEAN]

Slot == [used : BOOLEAN, active : BOOLEAN, removing : BOOLEAN, ctl : Ctls,
         due : BOOLEAN, rec : Rec]

EmptyRec == [id |-> NoId, state |-> "QUEUED", err |-> "NONE", seq |-> 0,
             attempts |-> 0, done |-> 0, total |-> 0, url |-> FALSE]

EmptySlot == [used |-> FALSE, active |-> FALSE, removing |-> FALSE,
              ctl |-> "NONE", due |-> TRUE, rec |-> EmptyRec]

EmptyDir == [dir |-> FALSE, saved |-> FALSE, rec |-> EmptyRec,
             part |-> 0, media |-> 0]

Outcome == [kind : {"DONE", "CTL", "SUSPENDED", "FAIL", "SPACE"},
            err : Errors, moved : BOOLEAN]

NoOutcome == [kind |-> "FAIL", err |-> "NONE", moved |-> FALSE]

InAttempt == pc \in {"start", "connect", "head", "body", "verify", "rename", "finish"}

-----------------------------------------------------------------------------
(* Helpers of the table and of the store *)

Used == {s \in Slots : slots[s].used}

\* The slots find_slot and every query see.
Visible == {s \in Used : ~slots[s].removing}

SlotsOf(id) == {s \in Visible : slots[s].rec.id = id}

Free == Slots \ Used

\* free_slot: the first unused one.
FirstFree(s) == s \in Free /\ \A t \in Free : s <= t

\* dl_store_save_record: a save into a directory that is gone fails, and no
\* caller but dl_enqueue looks at the result.
Save(d, rec) == IF d[rec.id].dir
                THEN [d EXCEPT ![rec.id] = [@ EXCEPT !.saved = TRUE, !.rec = rec]]
                ELSE d

SetPart(d, id, n) == [d EXCEPT ![id] = [@ EXCEPT !.part = n]]

StopRequested == slots[cur].ctl # "NONE" \/ suspended \/ playBlock

\* stop_requested: a posted control goes before a suspension.
StopKind == IF slots[cur].ctl # "NONE" THEN "CTL" ELSE "SUSPENDED"

-----------------------------------------------------------------------------
(* The user's calls, each under the lock *)

\* dl_enqueue of an item the table does not show.
EnqueueNew(id, hint) ==
  /\ ready /\ SlotsOf(id) = {} /\ space = "OK"
  /\ nextSeq <= MaxSeq
  /\ ReAddWhileRemoving \/ \A s \in Used : slots[s].rec.id # id
  /\ LET rec == [EmptyRec EXCEPT !.id = id, !.seq = nextSeq, !.total = hint,
                                 !.url = TRUE]
     IN /\ \E s \in Slots :
             /\ FirstFree(s)
             /\ slots' = [slots EXCEPT ![s] = [EmptySlot EXCEPT !.used = TRUE, !.rec = rec]]
        /\ disk' = Save([disk EXCEPT ![id] = [@ EXCEPT !.dir = TRUE]], rec)
  /\ nextSeq' = nextSeq + 1
  /\ UNCHANGED <<ready, gateVars, workerVars, envVars>>

\* What dl_enqueue makes of a FAILED or CANCELLED entry: nothing vouches for
\* the partial of a CORRUPT one, so it goes.
Unvouched(rec) == IF rec.err = "CORRUPT" THEN [rec EXCEPT !.done = 0, !.total = 0] ELSE rec

DropUnvouched(rec) == IF rec.err = "CORRUPT" THEN SetPart(disk, rec.id, 0) ELSE disk

\* A faulty variant: a finished download is queued again too.
RequeueableAll == {"FAILED", "CANCELLED", "COMPLETED"}

Requeueable == {"FAILED", "CANCELLED"}

\* dl_enqueue of a FAILED or CANCELLED entry: same slot, same place in line.
Requeue(s) ==
  /\ ready /\ s \in Visible
  /\ slots[s].rec.state \in Requeueable
  /\ space = "OK"
  /\ LET old == slots[s].rec
         rec == [Unvouched(old) EXCEPT !.state = "QUEUED", !.err = "NONE",
                                       !.attempts = 0, !.url = TRUE]
     IN /\ slots' = [slots EXCEPT ![s] = [@ EXCEPT !.rec = rec, !.due = TRUE]]
        /\ disk' = Save(DropUnvouched(old), rec)
  /\ UNCHANGED <<ready, nextSeq, gateVars, workerVars, envVars>>

\* The same call refused for space: what it dropped of a CORRUPT entry stays
\* dropped, in the table and on disk, and the record is not saved.
RequeueRefused(s) ==
  /\ ready /\ s \in Visible
  /\ slots[s].rec.state = "FAILED" /\ slots[s].rec.err = "CORRUPT"
  /\ slots' = [slots EXCEPT ![s].rec = Unvouched(@)]
  /\ disk' = DropUnvouched(slots[s].rec)
  /\ UNCHANGED <<ready, nextSeq, gateVars, workerVars, envVars>>

\* transition() on the active item: the request is posted to the worker.
Post(s, ctl) ==
  /\ ready /\ s \in Visible /\ slots[s].active
  /\ Rank[ctl] > Rank[slots[s].ctl]
  /\ slots' = [slots EXCEPT ![s].ctl = ctl]
  /\ UNCHANGED <<ready, nextSeq, gateVars, disk, workerVars, envVars>>

\* dl_resume on the active item: resumed before the pause landed.
Withdraw(s) ==
  /\ ready /\ s \in Visible /\ slots[s].active /\ slots[s].ctl = "PAUSE"
  /\ slots' = [slots EXCEPT ![s].ctl = "NONE"]
  /\ UNCHANGED <<ready, nextSeq, gateVars, disk, workerVars, envVars>>

\* A faulty variant: the record is saved before it takes the event.
IdleSavedEarly(s, ev, rec, due, d) ==
  /\ ready /\ s \in Visible /\ ~slots[s].active
  /\ Legal(slots[s].rec.state, ev)
  /\ slots' = [slots EXCEPT ![s] = [@ EXCEPT !.rec = rec, !.due = due]]
  /\ disk' = Save(d, slots[s].rec)
  /\ UNCHANGED <<ready, nextSeq, gateVars, workerVars, envVars>>

\* transition() on an idle item, and the record it leaves.
IdleTransition(s, ev, rec, due, d) ==
  /\ ready /\ s \in Visible /\ ~slots[s].active
  /\ Legal(slots[s].rec.state, ev)
  /\ slots' = [slots EXCEPT ![s] = [@ EXCEPT !.rec = rec, !.due = due]]
  /\ disk' = Save(d, rec)
  /\ UNCHANGED <<ready, nextSeq, gateVars, workerVars, envVars>>

Moved(s, ev) == [slots[s].rec EXCEPT !.state = Apply(@, ev)]

PauseIdle(s) == IdleTransition(s, "PAUSE", Moved(s, "PAUSE"), slots[s].due, disk)

\* dl_resume and dl_retry: a clean slate, due at once.  A record rebuilt from
\* damaged files has no url to retry.
Again(s, ev) ==
  /\ ev = "RETRY" => slots[s].rec.url
  /\ IdleTransition(s, ev, [Moved(s, ev) EXCEPT !.err = "NONE", !.attempts = 0], TRUE, disk)

\* A faulty variant: the partial of a cancelled item is left on the HDD.
CancelIdleLeaves(s) ==
  IdleTransition(s, "CANCEL", [Moved(s, "CANCEL") EXCEPT !.done = 0, !.err = "NONE"],
                 slots[s].due, disk)

CancelIdle(s) ==
  IdleTransition(s, "CANCEL", [Moved(s, "CANCEL") EXCEPT !.done = 0, !.err = "NONE"],
                 slots[s].due, SetPart(disk, slots[s].rec.id, 0))

\* dl_remove: the active item is hidden and left to the worker.
RemoveActive(s) ==
  /\ ready /\ s \in Visible /\ slots[s].active
  /\ slots' = [slots EXCEPT ![s] = [@ EXCEPT !.ctl = "REMOVE", !.removing = TRUE]]
  /\ UNCHANGED <<ready, nextSeq, gateVars, disk, workerVars, envVars>>

\* A faulty variant: the media goes, the record and the directory stay.
RemoveMediaOnly(s) ==
  /\ ready /\ s \in Visible /\ ~slots[s].active
  /\ slots' = [slots EXCEPT ![s] = EmptySlot]
  /\ disk' = [disk EXCEPT ![slots[s].rec.id] = [@ EXCEPT !.media = 0, !.part = 0]]
  /\ UNCHANGED <<ready, nextSeq, gateVars, workerVars, envVars>>

RemoveIdle(s) ==
  /\ ready /\ s \in Visible /\ ~slots[s].active
  /\ slots' = [slots EXCEPT ![s] = EmptySlot]
  /\ disk' = [disk EXCEPT ![slots[s].rec.id] = EmptyDir]
  /\ UNCHANGED <<ready, nextSeq, gateVars, workerVars, envVars>>

\* The user's calls on items that idle, and on the one that transfers.
Calling(event) == IF event \in Outside THEN Slots ELSE {}

UserCall ==
  \/ \E id \in Ids, hint \in Hints : EnqueueNew(id, hint)
  \/ \E s \in Calling("call") :
       \/ Requeue(s) \/ RequeueRefused(s)
       \/ PauseIdle(s) \/ Again(s, "RESUME") \/ Again(s, "RETRY") \/ CancelIdle(s)
       \/ RemoveIdle(s)
  \/ \E s \in Calling("post") :
       \/ Post(s, "PAUSE") \/ Post(s, "CANCEL") \/ Withdraw(s) \/ RemoveActive(s)

-----------------------------------------------------------------------------
(* The worker: dl_manager_step, attempt, finish *)

\* The items dl_manager_step may start.
Pickable == {s \in Visible : slots[s].rec.state = "QUEUED" /\ slots[s].due}

GateOpen == /\ ready /\ ~suspended /\ ~playBlock /\ ~authHold /\ auth # 0
            /\ spaceHold => space = "OK"

\* dl_manager_step up to LOCK: the holds, read without the lock.
Gate ==
  /\ pc = "idle" /\ GateOpen
  /\ spaceHold' = FALSE
  /\ pc' = "pick"
  /\ UNCHANGED <<tableVars, auth, authHold, suspended, playBlock, disk, cur,
                 r, have0, tok, out, envVars>>

\* The oldest due item starts; its record says so on disk first.
Pick(s) ==
  /\ pc = "pick" /\ s \in Pickable
  /\ \A t \in Pickable : slots[s].rec.seq <= slots[t].rec.seq
  /\ LET rec == Moved(s, "START")
     IN /\ slots' = [slots EXCEPT ![s] = [@ EXCEPT !.active = TRUE, !.ctl = "NONE", !.rec = rec]]
        /\ disk' = Save(disk, rec)
        /\ r' = rec
  /\ cur' = s /\ pc' = "start"
  /\ UNCHANGED <<ready, nextSeq, gateVars, have0, tok, out, envVars>>

NothingDue ==
  /\ pc = "pick" /\ Pickable = {}
  /\ pc' = "idle"
  /\ UNCHANGED <<tableVars, gateVars, disk, cur, r, have0, tok, out, envVars>>

\* The attempt ends with an outcome; finish() will apply it.
End(kind, err, moved) ==
  /\ out' = [kind |-> kind, err |-> err, moved |-> moved]
  /\ pc' = "finish"

\* space_gate: a refusal holds the whole queue.
SpaceRefused ==
  /\ space = "LOW"
  /\ spaceHold' = TRUE
  /\ End("SPACE", "NO_SPACE", FALSE)

\* attempt(): the partial on disk is the resume point, unless it is longer
\* than the file.  Then the first look at free space.
AttemptStart ==
  /\ pc = "start"
  /\ LET part == disk[r.id].part
         keep == IF r.total > 0 /\ part > r.total THEN 0 ELSE part
     IN /\ disk' = SetPart(disk, r.id, keep)
        /\ r' = [r EXCEPT !.done = keep]
        /\ have0' = keep
  /\ \/ SpaceRefused
     \/ space = "OK" /\ pc' = "connect" /\ UNCHANGED <<spaceHold, out>>
  /\ UNCHANGED <<tableVars, auth, authHold, suspended, playBlock, cur, tok, envVars>>

\* The auth header is copied, then the request is sent, or fails to be.
Connect ==
  /\ pc = "connect"
  /\ tok' = auth
  /\ \/ pc' = "head" /\ UNCHANGED out
     \/ \E e \in NetErrors : End("FAIL", e, FALSE)
  /\ UNCHANGED <<tableVars, gateVars, disk, cur, r, have0, envVars>>

\* Between two reads of the head: a posted stop, or no usable head at all.
HeadStop ==
  /\ pc = "head" /\ StopRequested
  /\ End(StopKind, "NONE", FALSE)
  /\ UNCHANGED <<tableVars, gateVars, disk, cur, r, have0, tok, envVars>>

HeadFail ==
  /\ pc = "head"
  /\ \E e \in NetErrors : End("FAIL", e, FALSE)
  /\ UNCHANGED <<tableVars, gateVars, disk, cur, r, have0, tok, envVars>>

\* A refusal: 401 when the session the request carried is dead.
HeadRefused ==
  /\ pc = "head"
  /\ \E status \in IF tok # session THEN {401} ELSE Statuses :
       End("FAIL", ErrorForStatus(status), FALSE)
  /\ UNCHANGED <<tableVars, gateVars, disk, cur, r, have0, tok, envVars>>

\* A faulty variant: a 416 is taken for "already complete" at any length.
AnyUnsatisfied ==
  /\ pc = "head" /\ tok = session /\ r.done > 0
  /\ r' = [r EXCEPT !.total = r.done]
  /\ pc' = "verify"
  /\ UNCHANGED <<tableVars, gateVars, disk, cur, have0, tok, out, envVars>>

\* 416 with exactly our bytes here: already complete.
HeadComplete ==
  /\ pc = "head" /\ tok = session /\ r.done = Size
  /\ r' = [r EXCEPT !.total = r.done]
  /\ pc' = "verify"
  /\ UNCHANGED <<tableVars, gateVars, disk, cur, have0, tok, out, envVars>>

\* Any other 416, or a 206 that does not continue our bytes: start over.
HeadInconsistent ==
  /\ pc = "head" /\ tok = session
  /\ disk' = SetPart(disk, r.id, 0)
  /\ r' = [r EXCEPT !.done = 0]
  /\ End("FAIL", "BAD_RESPONSE", FALSE)
  /\ UNCHANGED <<tableVars, gateVars, cur, have0, tok, envVars>>

\* publish() with persist: table and record take the worker's progress.
Published(rec) == [slots EXCEPT ![cur].rec = [@ EXCEPT !.done = rec.done, !.total = rec.total]]

\* A body follows: a 206 from our offset, or a 200 from byte 0, which
\* discards the partial; total 0 when the answer does not say how long it is.
HeadBody(rec) ==
  /\ pc = "head" /\ tok = session
  /\ r' = rec
  /\ LET d == SetPart(disk, r.id, rec.done)
     IN \/ disk' = d /\ SpaceRefused /\ UNCHANGED slots
        \/ /\ space = "OK" /\ disk[r.id].dir
           /\ slots' = Published(rec)
           /\ disk' = Save(d, Published(rec)[cur].rec)
           /\ pc' = "body"
           /\ UNCHANGED <<spaceHold, out>>
        \/ /\ space = "OK" /\ ~disk[r.id].dir
           /\ disk' = d
           /\ End("FAIL", "DISK", FALSE)
           /\ UNCHANGED <<slots, spaceHold>>
  /\ UNCHANGED <<ready, nextSeq, auth, authHold, suspended, playBlock, cur,
                 have0, tok, envVars>>

HeadPartial == r.done < Size /\ HeadBody([r EXCEPT !.total = Size])

WholeLengths == IF lengthNamed THEN {Size} ELSE {0, Size}

HeadWhole == \E total \in WholeLengths : HeadBody([r EXCEPT !.done = 0, !.total = total])

\* A 200 whose partial cannot be discarded ends the attempt with both there.
HeadUncut ==
  /\ pc = "head" /\ tok = session /\ r.done > 0
  /\ \E total \in WholeLengths : r' = [r EXCEPT !.total = total]
  /\ End("FAIL", "DISK", FALSE)
  /\ UNCHANGED <<tableVars, gateVars, disk, cur, have0, tok, envVars>>

Moves == r.done > have0

\* One unit of the body reaches the file: at a checkpoint, when both table and
\* record take the progress; when only the table is due; or between the two.
BodyRecv ==
  /\ pc = "body" /\ r.done < Size
  /\ r' = [r EXCEPT !.done = @ + 1]
  /\ LET d == SetPart(disk, r.id, r'.done)
     IN \/ slots' = Published(r') /\ disk' = Save(d, slots'[cur].rec)
        \/ slots' = Published(r') /\ disk' = d
        \/ slots' = slots /\ disk' = d
  /\ UNCHANGED <<ready, nextSeq, gateVars, pc, cur, have0, tok, out, envVars>>

\* The declared end of the body is looked for before the posted controls.  A
\* body of undeclared length ends wherever the server, or the line, ends it,
\* and what has come by then is taken for its length.
BodyEnd ==
  /\ pc = "body" /\ (r.total = 0 \/ r.done = Size)
  /\ r' = [r EXCEPT !.total = r.done]
  /\ pc' = "verify"
  /\ UNCHANGED <<tableVars, gateVars, disk, cur, have0, tok, out, envVars>>

\* What a write that fails leaves in the file: the bytes counted, and perhaps
\* some of the buffer's that nobody counts.
AfterBadWrite == {n \in r.done..Size : n = r.done \/ n < Size}

\* The last bytes of a stopped attempt are written too; a failure is ignored.
BodyStop ==
  /\ pc = "body" /\ StopRequested
  /\ r.done = Size => r.total = 0
  /\ \E n \in AfterBadWrite : disk' = SetPart(disk, r.id, n)
  /\ End(StopKind, "NONE", Moves)
  /\ UNCHANGED <<tableVars, gateVars, cur, r, have0, tok, envVars>>

BodyFail ==
  /\ pc = "body"
  /\ r.done = Size => r.total = 0
  /\ \/ disk' = disk /\ \E e \in NetErrors : End("FAIL", e, Moves)
     \/ /\ \E n \in AfterBadWrite : disk' = SetPart(disk, r.id, n)
        /\ End("FAIL", "DISK", Moves)
  /\ UNCHANGED <<tableVars, gateVars, cur, r, have0, tok, envVars>>

\* The HDD runs low under the body: the periodic space_gate sees it and holds
\* the queue, or a write fails first and flush_buf reports it.
BodySpace ==
  /\ pc = "body" /\ space = "LOW"
  /\ \/ spaceHold' = TRUE /\ disk' = disk
     \/ spaceHold' = spaceHold /\ \E n \in AfterBadWrite : disk' = SetPart(disk, r.id, n)
  /\ End("SPACE", "NO_SPACE", Moves)
  /\ UNCHANGED <<tableVars, auth, authHold, suspended, playBlock, cur,
                 r, have0, tok, envVars>>

\* verify: the length, then (for a TS) whether it is the film.
VerifyEmpty ==
  /\ pc = "verify" /\ r.done = 0
  /\ End("FAIL", "BAD_RESPONSE", FALSE)
  /\ UNCHANGED <<tableVars, gateVars, disk, cur, r, have0, tok, envVars>>

VerifyBad ==
  /\ pc = "verify" /\ r.done > 0
  /\ disk' = SetPart(disk, r.id, 0)
  /\ r' = [r EXCEPT !.done = 0]
  /\ End("FAIL", "BAD_MEDIA", FALSE)
  /\ UNCHANGED <<tableVars, gateVars, cur, have0, tok, envVars>>

VerifyGood ==
  /\ pc = "verify" /\ r.done > 0
  /\ disk' = [disk EXCEPT ![r.id].media = 0]
  /\ pc' = "rename"
  /\ UNCHANGED <<tableVars, gateVars, cur, r, have0, tok, out, envVars>>

Rename ==
  /\ pc = "rename"
  /\ \/ /\ disk' = [disk EXCEPT ![r.id] = [@ EXCEPT !.media = disk[r.id].part, !.part = 0]]
        /\ End("DONE", "NONE", Moves)
     \/ disk' = disk /\ End("FAIL", "DISK", FALSE)
  /\ UNCHANGED <<tableVars, gateVars, cur, r, have0, tok, envVars>>

\* A faulty variant: the posted control is not reset.
SettleKeepsCtl(rec, due, d) ==
  /\ slots' = [slots EXCEPT ![cur] = [@ EXCEPT !.active = FALSE, !.due = due, !.rec = rec]]
  /\ disk' = Save(d, rec)

\* What every end of finish() does: the slot is idle again, the worker's copy
\* of the record replaces the table's and is saved.
Settle(rec, due, d) ==
  /\ slots' = [slots EXCEPT ![cur] = [@ EXCEPT !.active = FALSE, !.ctl = "NONE",
                                               !.due = due, !.rec = rec]]
  /\ disk' = Save(d, rec)

Ctl == slots[cur].ctl

\* CTL_REMOVE comes before anything the attempt achieved.
FinishRemoved ==
  /\ Ctl = "REMOVE"
  /\ slots' = [slots EXCEPT ![cur] = EmptySlot]
  /\ disk' = [disk EXCEPT ![r.id] = EmptyDir]
  /\ UNCHANGED authHold

\* Completion is a fact; a pause or cancel racing it does not undo it.
FinishDone ==
  /\ Ctl # "REMOVE" /\ out.kind = "DONE"
  /\ Settle([r EXCEPT !.state = Apply(@, "COMPLETE"), !.err = "NONE", !.attempts = 0],
            slots[cur].due, disk)
  /\ UNCHANGED authHold

\* A faulty variant: a cancelled transfer leaves its partial.
CancelKeepsPart ==
  /\ Ctl = "CANCEL" /\ out.kind = "CTL"
  /\ Settle([r EXCEPT !.state = Apply(@, "CANCEL"), !.done = 0, !.err = "NONE"],
            slots[cur].due, disk)
  /\ UNCHANGED authHold

FinishCancelled ==
  /\ Ctl = "CANCEL" /\ out.kind = "CTL"
  /\ Settle([r EXCEPT !.state = Apply(@, "CANCEL"), !.done = 0, !.err = "NONE"],
            slots[cur].due, SetPart(disk, r.id, 0))
  /\ UNCHANGED authHold

FinishPaused ==
  /\ Ctl \notin {"REMOVE", "CANCEL"} /\ out.kind = "CTL"
  /\ Settle([r EXCEPT !.state = Apply(@, "PAUSE")], slots[cur].due, disk)
  /\ UNCHANGED authHold

FinishSpace ==
  /\ Ctl # "REMOVE" /\ out.kind = "SPACE"
  /\ Settle([r EXCEPT !.state = Apply(@, "PAUSE"), !.err = out.err], TRUE, disk)
  /\ UNCHANGED authHold

FinishSuspended ==
  /\ Ctl # "REMOVE" /\ out.kind = "SUSPENDED"
  /\ Settle([r EXCEPT !.state = Apply(@, "INTERRUPTED")], TRUE, disk)
  /\ UNCHANGED authHold

\* Progress resets the count of failures, except for bad media.
AttemptsNow ==
  CASE ~Retryable(out.err) -> r.attempts
    [] Retryable(out.err) /\ out.moved /\ out.err # "BAD_MEDIA" -> 1
    [] OTHER -> r.attempts + 1

\* Faulty variants: one attempt too many; bad media repeated like a bad network.
LimitOffByOne == IF out.err = "BAD_MEDIA" THEN MediaMaxAttempts ELSE MaxAttempts + 1

LimitOfAll == MaxAttempts

AttemptsLimit == IF out.err = "BAD_MEDIA" THEN MediaMaxAttempts ELSE MaxAttempts

Failed(ev) == [r EXCEPT !.state = Apply(@, ev), !.err = out.err, !.attempts = AttemptsNow]

\* A 401: the session died, not the download.  The queue is held.
FinishAuth ==
  /\ Ctl # "REMOVE" /\ out.kind = "FAIL" /\ out.err = "AUTH"
  /\ Settle(Failed("FAIL_RETRY"), TRUE, disk)
  /\ authHold' = TRUE

\* A faulty variant: a retry is due at once.
RetryAtOnce ==
  /\ Ctl # "REMOVE" /\ out.kind = "FAIL"
  /\ Retryable(out.err) /\ AttemptsNow < AttemptsLimit
  /\ Settle(Failed("FAIL_RETRY"), TRUE, disk)
  /\ UNCHANGED authHold

FinishRetry ==
  /\ Ctl # "REMOVE" /\ out.kind = "FAIL"
  /\ Retryable(out.err) /\ AttemptsNow < AttemptsLimit
  /\ Settle(Failed("FAIL_RETRY"), FALSE, disk)
  /\ UNCHANGED authHold

FinishFailed ==
  /\ Ctl # "REMOVE" /\ out.kind = "FAIL" /\ out.err # "AUTH"
  /\ Retryable(out.err) => AttemptsNow >= AttemptsLimit
  /\ Settle(Failed("FAIL"), slots[cur].due, disk)
  /\ UNCHANGED authHold

Finish ==
  /\ pc = "finish"
  /\ \/ FinishRemoved \/ FinishDone \/ FinishCancelled \/ FinishPaused \/ FinishSpace
     \/ FinishSuspended \/ FinishAuth \/ FinishRetry \/ FinishFailed
  /\ pc' = "idle" /\ cur' = 0 /\ r' = EmptyRec /\ have0' = 0 /\ tok' = 0
  /\ out' = NoOutcome
  /\ UNCHANGED <<ready, nextSeq, auth, spaceHold, suspended, playBlock, envVars>>

Worker ==
  \/ Gate \/ (\E s \in Slots : Pick(s)) \/ NothingDue
  \/ AttemptStart \/ Connect
  \/ HeadStop \/ HeadFail \/ HeadRefused \/ HeadComplete \/ HeadInconsistent
  \/ HeadPartial \/ HeadWhole \/ HeadUncut
  \/ BodyRecv \/ BodyEnd \/ BodyStop \/ BodyFail \/ BodySpace
  \/ VerifyEmpty \/ VerifyBad \/ VerifyGood \/ Rename
  \/ Finish

-----------------------------------------------------------------------------
(* The session, the player and the service: writers of the gates *)

\* dl_set_auth_header with the session of a fresh sign-in, or with none.
SignIn ==
  /\ auth' = session /\ authHold' = FALSE
  /\ UNCHANGED <<tableVars, spaceHold, suspended, playBlock, disk, workerVars, envVars>>

SignOut ==
  /\ "signout" \in Outside
  /\ auth' = 0 /\ authHold' = FALSE
  /\ UNCHANGED <<tableVars, spaceHold, suspended, playBlock, disk, workerVars, envVars>>

\* dl_playback_begin with a heavy stream; with a light one, or dl_playback_end.
PlayHeavy ==
  /\ "play" \in Outside
  /\ playBlock' = TRUE
  /\ UNCHANGED <<tableVars, auth, authHold, spaceHold, suspended, disk, workerVars, envVars>>

PlayLightOrEnd ==
  /\ playBlock' = FALSE
  /\ UNCHANGED <<tableVars, auth, authHold, spaceHold, suspended, disk, workerVars, envVars>>

\* dl_svc_stop: suspend, ...
SvcStop ==
  /\ "stop" \in Outside /\ ready
  /\ suspended' = TRUE
  /\ UNCHANGED <<tableVars, auth, authHold, spaceHold, playBlock, disk, workerVars, envVars>>

\* ... join the worker, unsuspend, shut the manager down.  The table is not
\* read again before dl_manager_init clears it.
SvcJoined ==
  /\ suspended /\ pc = "idle"
  /\ suspended' = FALSE
  /\ ready' = FALSE
  /\ slots' = [s \in Slots |-> EmptySlot]
  /\ nextSeq' = 1
  /\ pc' = "off"
  /\ UNCHANGED <<auth, authHold, spaceHold, playBlock, disk, cur, r, have0, tok, out, envVars>>

-----------------------------------------------------------------------------
(* Restore: dl_manager_init on the worker, under the lock *)

Dirs == {id \in Ids : disk[id].dir}

\* What the records on disk say of the queue's order.
SavedSeqs == {disk[id].rec.seq : id \in {i \in Dirs : disk[i].saved}}

\* A record rebuilt from the files alone, at the end of the queue; a finished
\* film counts only for an item whose metadata can be read.
Rebuilt(id, seq, known) ==
  LET base == [EmptyRec EXCEPT !.id = id, !.seq = seq]
  IN IF disk[id].media > 0 /\ id \in known
     THEN [base EXCEPT !.state = "COMPLETED", !.done = disk[id].media, !.total = disk[id].media]
     ELSE [base EXCEPT !.state = "FAILED", !.err = "CORRUPT", !.done = disk[id].part]

\* The finished file is all there, as far as the record knows its length.
MediaWhole(id) == disk[id].media > 0 /\ disk[id].rec.total \in {0, disk[id].media}

\* A partial longer than the file it belongs to is discarded.
Oversized(id) == /\ disk[id].saved /\ ~MediaWhole(id)
                 /\ disk[id].rec.state # "COMPLETED"
                 /\ disk[id].rec.total > 0 /\ disk[id].part > disk[id].rec.total

\* A faulty variant: what was in flight when the power went is not trusted.
PartOfIdle(id) == IF disk[id].rec.state = "DOWNLOADING" THEN 0 ELSE disk[id].part

KeptPart(id) == IF Oversized(id) THEN 0 ELSE disk[id].part

\* restore_one: what is on disk beats what the record last said.
Restored(id, seq, known) ==
  LET rec == disk[id].rec
  IN CASE ~disk[id].saved -> Rebuilt(id, seq, known)
       [] disk[id].saved /\ MediaWhole(id) ->
            [rec EXCEPT !.state = "COMPLETED", !.err = "NONE",
                        !.done = disk[id].media, !.total = disk[id].media]
       [] disk[id].saved /\ ~MediaWhole(id) /\ rec.state = "COMPLETED" ->
            [rec EXCEPT !.state = "FAILED", !.err = "CORRUPT", !.done = disk[id].part]
       [] OTHER ->
            [rec EXCEPT !.state = IF @ = "DOWNLOADING" THEN Apply(@, "INTERRUPTED") ELSE @,
                        !.done = KeptPart(id)]

\* The directories are listed in any order; a slot each, as far as they go.
Placements ==
  {place \in [Dirs -> 1..Cardinality(Dirs)] :
     \A i, j \in Dirs : i # j => place[i] # place[j]}

\* A faulty variant: rebuilt records share the place of the last saved one.
LastInLine(place, last, id) == last

\* Rebuilt records queue up behind the last saved one, in slot order.
PlaceInLine(place, last, id) ==
  last + Cardinality({j \in Dirs : ~disk[j].saved /\ place[j] <= place[id]})

\* Finished films whose record is gone.
Bare == {id \in Dirs : ~disk[id].saved /\ disk[id].media > 0}

Restore ==
  /\ pc = "off"
  /\ \E place \in Placements, last \in SavedSeqs \cup {0}, known \in SUBSET Bare :
       /\ \A k \in SavedSeqs : k <= last
       /\ LET rec == [id \in Dirs |-> Restored(id, PlaceInLine(place, last, id), known)]
          IN /\ slots' = [s \in Slots |->
                  IF \E id \in Dirs : place[id] = s
                  THEN [EmptySlot EXCEPT !.used = TRUE,
                                         !.rec = rec[CHOOSE id \in Dirs : place[id] = s]]
                  ELSE EmptySlot]
             /\ disk' = [id \in Ids |->
                  IF id \in Dirs /\ place[id] \in Slots
                  THEN [disk[id] EXCEPT !.saved = TRUE, !.rec = rec[id], !.part = KeptPart(id)]
                  ELSE disk[id]]
       /\ nextSeq' = last + 1 + Cardinality({id \in Dirs : ~disk[id].saved})
  /\ ready' = TRUE
  /\ spaceHold' = FALSE
  /\ pc' = "idle"
  /\ UNCHANGED <<auth, authHold, suspended, playBlock, cur, r, have0, tok, out, envVars>>

-----------------------------------------------------------------------------
(* Everything else that happens *)

\* The power goes: memory is lost.  All statics start from zero.
PowerOff(d) ==
  /\ crashes < MaxCrashes
  /\ crashes' = crashes + 1
  /\ disk' = d
  /\ ready' = FALSE /\ slots' = [s \in Slots |-> EmptySlot] /\ nextSeq' = 1
  /\ auth' = 0 /\ authHold' = FALSE /\ spaceHold' = FALSE
  /\ suspended' = FALSE /\ playBlock' = FALSE
  /\ pc' = "off" /\ cur' = 0 /\ r' = EmptyRec /\ have0' = 0 /\ tok' = 0
  /\ out' = NoOutcome
  /\ UNCHANGED <<space, session, lengthNamed, damages>>

Crash == PowerOff(disk)

\* ... inside dl_enqueue, after the directory and before the record,
CrashInEnqueue(id) ==
  /\ ready /\ SlotsOf(id) = {} /\ Free # {} /\ nextSeq <= MaxSeq
  /\ ~disk[id].dir
  /\ PowerOff([disk EXCEPT ![id].dir = TRUE])

\* ... or inside dl_store_remove_item, the media gone, the record perhaps too.
CrashInRemove(s) ==
  /\ ready /\ s \in Used
  /\ ~slots[s].active \/ (pc = "finish" /\ slots[s].ctl = "REMOVE")
  /\ \E rest \in {disk[slots[s].rec.id], EmptyDir} :
       PowerOff([disk EXCEPT ![slots[s].rec.id] =
                   [rest EXCEPT !.dir = disk[slots[s].rec.id].dir, !.media = 0, !.part = 0]])

\* A backoff runs out.  Time passes while the worker sleeps or transfers, not
\* between finding one item due and starting it.
Tick(s) ==
  /\ s \in Used /\ ~slots[s].due
  /\ pc = "idle" => ~(GateOpen /\ Pickable # {})
  /\ pc # "pick"
  /\ slots' = [slots EXCEPT ![s].due = TRUE]
  /\ UNCHANGED <<ready, nextSeq, gateVars, disk, workerVars, envVars>>

\* Games save, files are deleted: the HDD fills and empties.
SpaceChange ==
  /\ "space" \in Outside
  /\ space' = IF space = "OK" THEN "LOW" ELSE "OK"
  /\ UNCHANGED <<tableVars, gateVars, disk, workerVars, session, lengthNamed, crashes, damages>>

\* The server ends the session it accepted; only a new sign-in gets the next.
Revoke ==
  /\ session < MaxToken
  /\ session' = session + 1
  /\ UNCHANGED <<tableVars, gateVars, disk, workerVars, space, lengthNamed, crashes, damages>>

\* While the app is not running a finished file is shortened, or a record made
\* unreadable (FTP, a full disk, a bad sector).
Damage(id) ==
  /\ pc = "off" /\ damages < MaxDamage
  /\ damages' = damages + 1
  /\ \/ \E n \in 0..(disk[id].media - 1) : disk' = [disk EXCEPT ![id].media = n]
     \/ /\ disk[id].saved
        /\ disk' = [disk EXCEPT ![id] = [@ EXCEPT !.saved = FALSE, !.rec = EmptyRec]]
  /\ UNCHANGED <<tableVars, gateVars, workerVars, space, session, lengthNamed, crashes>>

Environment ==
  \/ SignIn \/ SignOut \/ PlayHeavy \/ PlayLightOrEnd \/ SvcStop \/ SvcJoined
  \/ Crash \/ (\E id \in Ids : CrashInEnqueue(id) \/ Damage(id))
  \/ (\E s \in Slots : CrashInRemove(s) \/ Tick(s))
  \/ SpaceChange \/ Revoke

Init ==
  /\ slots = [s \in Slots |-> EmptySlot]
  /\ ready = FALSE /\ nextSeq = 1
  /\ auth = 0 /\ authHold = FALSE /\ spaceHold = FALSE
  /\ suspended = FALSE /\ playBlock = FALSE
  /\ disk = [id \in Ids |-> EmptyDir]
  /\ pc = "off" /\ cur = 0 /\ r = EmptyRec /\ have0 = 0 /\ tok = 0
  /\ out = NoOutcome
  /\ space = "OK" /\ session = 1 /\ lengthNamed \in LengthsNamed /\ crashes = 0 /\ damages = 0

Next == UserCall \/ Worker \/ Restore \/ Environment

Spec == Init /\ [][Next]_vars

\* The worker thread keeps running (every wait of it has a deadline).  Time
\* passes whenever it sleeps between two looks at the table, so a backoff,
\* which is finite, runs out.
FairSpec ==
  /\ Spec
  /\ WF_vars(Worker \/ Restore)
  /\ \A s \in Slots : SF_vars(Tick(s))

-----------------------------------------------------------------------------
(* Properties *)

TypeOK ==
  /\ slots \in [Slots -> Slot]
  /\ ready \in BOOLEAN /\ nextSeq \in Nat \ {0}
  /\ auth \in 0..MaxToken /\ session \in 1..MaxToken
  /\ authHold \in BOOLEAN /\ spaceHold \in BOOLEAN
  /\ suspended \in BOOLEAN /\ playBlock \in BOOLEAN
  /\ disk \in [Ids -> [dir : BOOLEAN, saved : BOOLEAN, rec : Rec,
                       part : 0..Size, media : 0..Size]]
  /\ pc \in {"off", "idle", "pick", "start", "connect", "head", "body",
             "verify", "rename", "finish"}
  /\ cur \in 0..NSlots /\ r \in Rec /\ have0 \in 0..Size /\ tok \in 0..MaxToken
  /\ out \in Outcome
  /\ space \in {"OK", "LOW"} /\ lengthNamed \in BOOLEAN
  /\ crashes \in Nat /\ damages \in Nat

\* One transfer at a time, and the table says so: exactly the slot the worker
\* is on is active, its item is the one DOWNLOADING, and only there can a
\* control be posted or a removal be pending.
OneTransfer ==
  /\ InAttempt <=> cur # 0
  /\ \A s \in Slots :
       /\ slots[s].active <=> s = cur
       /\ slots[s].active => slots[s].used /\ r.id = slots[s].rec.id
       /\ slots[s].rec.state = "DOWNLOADING" <=> s = cur
       /\ slots[s].ctl # "NONE" => s = cur
       /\ slots[s].removing <=> slots[s].ctl = "REMOVE"

\* dl_list: from seq 0 upwards, each time the first slot with the next seq.
Listed == {s \in Visible :
             /\ slots[s].rec.seq > 0
             /\ \A t \in Visible : slots[t].rec.seq = slots[s].rec.seq => s <= t}

\* The library shows every entry of the table and no item twice.  It walks the
\* places in the queue, so it would never show an entry without one, nor the
\* second of two that share one; and the next place is nobody's yet.
EachItemListedOnce ==
  /\ Listed = Visible
  /\ \A s \in Visible : slots[s].rec.seq < nextSeq
  /\ \A s, t \in Visible : slots[s].rec.id = slots[t].rec.id => s = t

\* What a restart would make of an entry of the table: DOWNLOADING goes back
\* to QUEUED, unless the finished file is already in place.
AfterRestart(s) ==
  IF slots[s].rec.state # "DOWNLOADING" THEN {slots[s].rec.state}
  ELSE IF pc = "finish" /\ out.kind = "DONE" THEN {"COMPLETED"} ELSE {"QUEUED"}

OnDisk(id) == disk[id].dir /\ disk[id].saved

\* dl_manager.h: every state change is persisted "so a power cut loses nothing
\* but the bytes since the last checkpoint": no accepted item is lost.
AcceptedIsOnDisk == ready => \A s \in Visible : OnDisk(slots[s].rec.id)

RestoredAsShown(s) ==
  LET id == slots[s].rec.id
  IN /\ Restored(id, 0, {}).state \in AfterRestart(s)
     /\ disk[id].rec.seq = slots[s].rec.seq

\* docs/offline-downloads.md, section 11b: after a restart "the library and the
\* records never disagree": every entry the user sees is on disk, in the state
\* and the place a restart must bring it back to.
RecordsAgree ==
  ready => /\ AcceptedIsOnDisk
           /\ \A s \in Visible : RestoredAsShown(s)

\* A power cut at any moment loses no item and changes no item's state, as long
\* as nobody damages the files.
RestartKeepsQueue == damages = 0 => RecordsAgree

\* The item whose removal waits for the worker.
RemovalPending(id) == \E s \in Used : slots[s].removing /\ slots[s].rec.id = id

\* While the app runs, a directory belongs to an entry of the table or to an
\* item whose removal still waits for the worker: once a removal is done, no
\* restart can bring the item back.  A removal that waits is not on the disk,
\* and a power cut undoes it.
RemovedIsGone ==
  ready => \A id \in Ids : disk[id].dir => SlotsOf(id) # {} \/ RemovalPending(id)

\* What the Offline library offers is a file of the length the record names,
\* and the whole film if the server named the length.
CompletedIsWhole ==
  \A s \in Visible : slots[s].rec.state = "COMPLETED" =>
    LET media == disk[slots[s].rec.id].media
    IN /\ media > 0 /\ slots[s].rec.done = media /\ slots[s].rec.total = media
       /\ lengthNamed => media = Size

\* An idle entry claims no byte that is not on disk, whatever a failed write
\* left there: no progress is shown that a power cut takes away.  A cancelled
\* entry holds no disk space.
DoneIsOnDisk ==
  \A s \in Visible : ~slots[s].active /\ slots[s].rec.state # "COMPLETED" =>
    /\ slots[s].rec.done <= disk[slots[s].rec.id].part
    /\ slots[s].rec.state = "CANCELLED" => disk[slots[s].rec.id].part = 0

\* Nothing retries for ever without moving a byte: a queued item has used up
\* less than its attempts.
RetriesAreBounded ==
  \A s \in Visible : slots[s].rec.state = "QUEUED" =>
    /\ slots[s].rec.attempts < MaxAttempts
    /\ slots[s].rec.err = "BAD_MEDIA" => slots[s].rec.attempts < MediaMaxAttempts

\* A finished download is never lost to a late call, retry or attempt: while
\* the app runs, the only way out of COMPLETED is the user removing the item.
CompletedIsFinal ==
  [][\A s \in Slots :
       slots[s].rec.state = "COMPLETED" /\ ready' =>
         \/ slots'[s].rec.state = "COMPLETED"
         \/ ~slots'[s].used]_vars

\* The partial only shrinks when the bytes are known to be useless, and at the
\* head of a response only with a transfer that starts over: never by a pause,
\* a suspension, a failure of the network or a refusal of the server.
PartialIsKept ==
  [][\A id \in Ids : disk'[id].part < disk[id].part =>
       \/ ~disk'[id].dir
       \/ disk'[id].media > 0
       \/ pc' = "off"
       \/ \E s \in Slots : slots'[s].rec.state \in {"CANCELLED"} /\ slots'[s].rec.id = id
       \/ \E s \in Slots : slots[s].rec.err = "CORRUPT" /\ slots[s].rec.id = id
       \/ pc = "head" /\ r.id = id /\ r'.done = 0
       \/ pc = "verify" /\ r.id = id /\ out'.err = "BAD_MEDIA"]_vars

\* "Control calls on the active item are posted to it and take effect": when it
\* was the posted control that ended the attempt, a cancel leaves the item
\* cancelled and its partial gone; a removal wins however the attempt ended.
StopIsObeyed ==
  [][\A s \in Slots :
       slots[s].active /\ pc = "finish" /\ pc' = "idle" =>
         /\ slots[s].ctl = "REMOVE" => ~slots'[s].used /\ ~disk'[r.id].dir
         /\ slots[s].ctl = "CANCEL" /\ out.kind = "CTL" =>
              slots'[s].rec.state = "CANCELLED" /\ disk'[r.id].part = 0]_vars

\* Every posted control is taken up by the end of the attempt, and every
\* attempt ends.
ControlIsTaken ==
  \A s \in Slots : (slots[s].ctl # "NONE") ~> (slots[s].ctl = "NONE")

Waiting(s) == slots[s].used /\ slots[s].rec.state = "QUEUED"

\* The items that may be picked before the one of slot s.
Ahead(s) == {t \in Used : /\ slots[t].rec.state \in {"QUEUED", "DOWNLOADING"}
                          /\ slots[t].rec.seq < slots[s].rec.seq}

\* If in the end nothing holds the queue and the user lets it be, the first two
\* in line get their turn, however often the transfers fail: the backoff of the
\* first leaves the second an opening.  It does not leave the third one.
FirstTwoGetTheirTurn ==
  /\ <>[](ready /\ GateOpen /\ space = "OK")
  /\ <>[][~UserCall]_vars
  => \A s \in Slots : []<>~(Waiting(s) /\ Cardinality(Ahead(s)) <= 1)

=============================================================================
