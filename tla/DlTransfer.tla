----------------------------- MODULE DlTransfer -----------------------------
(***************************************************************************)
(* The bytes of one item, from the server's response to media.ts: the part *)
(* of attempt() in offline/dl_manager.cpp that DlManager counts in units.  *)
(* Here are the transfer buffer, the order of write, fsync and saved       *)
(* record, the server's answers to a Range request, a film replaced on the *)
(* server, and a power cut that takes what was not synced.                 *)
(***************************************************************************)
EXTENDS Integers

CONSTANTS
  Versions,   \* 1..n: the films the server holds under this id, in turn
  Items,      \* what may be downloaded: see Item
  Slack,      \* units the scan's duration check may miss
  Cap,        \* DL_XFER_BUF
  RecvMin,    \* DL_RECV_MIN
  MaxFails,   \* bound: attempts that end early
  MaxCrashes  \* bound: power cuts

\* file: the server sends a file, with its length and ranges of it; otherwise a
\* live transcode, with neither.  shown: its 206 names the total ("/N", not
\* "/*").  ts: completion scans the stream.  length: units of each version.
Item == [file : BOOLEAN, shown : BOOLEAN, ts : BOOLEAN, length : [Versions -> Nat \ {0}]]

ASSUME TransferAssumption ==
  /\ Versions \subseteq Nat \ {0} /\ 1 \in Versions
  /\ Items \subseteq Item
  /\ Slack \in Nat
  /\ Cap \in Nat \ {0} /\ RecvMin \in 1..Cap
  /\ MaxFails \in Nat /\ MaxCrashes \in Nat

VARIABLES
  item,     \* what is downloaded
  version,  \* what the server holds of it now
  part,     \* media.ts.part: [len, of], `of' the versions its bytes are from
  synced,   \* its length a power cut cannot take away
  media,    \* media.ts, in the same form
  total,    \* r->bytes_total, 0 = unknown
  saved,    \* bytes_done and bytes_total of the record on disk
  pc,       \* "idle" between attempts, or where attempt() is
  from,     \* the version this response carries
  until,    \* where this response ends, if it is not cut off
  fill,     \* payload waiting in s_buf
  ckpt,     \* a checkpoint is due this turn
  ended,    \* the body has ended as declared (done_now)
  whole,    \* ts_from_zero
  fails,
  crashes

serverVars == <<item, version>>
bodyVars == <<from, until, fill, ckpt, ended, whole>>
diskVars == <<part, synced, media, saved>>
vars == <<serverVars, diskVars, total, pc, bodyVars, fails, crashes>>

Nothing == [len |-> 0, of |-> {}]

\* n more units of version v on the end of a file.
Append(f, v, n) == IF n = 0 THEN f ELSE [len |-> f.len + n, of |-> f.of \cup {v}]

\* have: everything received, on disk or still in the buffer.
Have == part.len + fill

\* An attempt that ends early because something outside failed.
GiveUp ==
  /\ fails < MaxFails
  /\ fails' = fails + 1
  /\ pc' = "idle"

\* An attempt the code itself gives up.
Reject == pc' = "idle" /\ fails' = fails

-----------------------------------------------------------------------------
(* The request and what the server makes of its Range *)

\* The partial on disk is the resume point, whatever the record says, unless
\* it is longer than the film.
Oversized == total > 0 /\ part.len > total

RangeFrom == IF Oversized THEN 0 ELSE part.len

\* A faulty variant: bytes known to be useless are kept.
NotDiscarded == UNCHANGED <<part, synced>>

Discarded == part' = Nothing /\ synced' = 0

\* Nothing usable came back.
HeadFailed ==
  /\ pc = "idle" /\ media = Nothing
  /\ IF Oversized THEN Discarded ELSE UNCHANGED <<part, synced>>
  /\ GiveUp
  /\ UNCHANGED <<serverVars, media, total, saved, bodyVars, crashes>>

Unsatisfiable == item.file /\ RangeFrom >= item.length[version]

\* 416 with exactly our bytes here: already complete.
AlreadyHere ==
  /\ pc = "idle" /\ media = Nothing
  /\ Unsatisfiable /\ RangeFrom = item.length[version]
  /\ total' = RangeFrom
  /\ whole' = FALSE
  /\ pc' = "verify"
  /\ UNCHANGED <<serverVars, diskVars, from, until, fill, ckpt, ended, fails, crashes>>

\* Any other 416.
BeyondEnd ==
  /\ pc = "idle" /\ media = Nothing
  /\ Unsatisfiable /\ RangeFrom # item.length[version]
  /\ Discarded
  /\ Reject
  /\ UNCHANGED <<serverVars, media, total, saved, bodyVars, crashes>>

Partial == item.file /\ RangeFrom > 0 /\ RangeFrom < item.length[version]

\* A faulty variant: any 206 is appended.
AnyRange == TRUE

\* Not the length we know: appending would splice two different films.
Consistent == total = 0 \/ ~item.shown \/ item.length[version] = total

OtherFilm ==
  /\ pc = "idle" /\ media = Nothing
  /\ Partial /\ ~Consistent
  /\ Discarded
  /\ Reject
  /\ UNCHANGED <<serverVars, media, total, saved, bodyVars, crashes>>

\* The body begins; publish() saves what is known by now.
BodyBegins(kept, tot, end) ==
  /\ part' = kept /\ synced' = kept.len
  /\ total' = tot
  /\ saved' = [done |-> kept.len, total |-> tot]
  /\ from' = version /\ until' = end
  /\ fill' = 0 /\ ckpt' = FALSE /\ ended' = FALSE
  /\ whole' = (kept.len = 0)
  /\ pc' = "recv"
  /\ UNCHANGED <<serverVars, media, fails, crashes>>

\* 206: some of the rest, usually all of it.  What is in the partial was synced
\* when the last attempt closed it, or survived a power cut.
Resume ==
  /\ pc = "idle" /\ media = Nothing
  /\ Partial /\ Consistent
  /\ \E end \in (part.len + 1)..item.length[version] :
       BodyBegins(part, IF item.shown THEN item.length[version] ELSE end, end)

\* 200: a full body from byte 0, whatever we asked for.
FromZero ==
  /\ pc = "idle" /\ media = Nothing
  /\ ~Unsatisfiable
  /\ BodyBegins(Nothing, IF item.file THEN item.length[version] ELSE 0, item.length[version])

-----------------------------------------------------------------------------
(* The body loop, one turn: receive, write, sync, save *)

\* n units into the free tail of the buffer.  A file's body ends where its
\* Content-Length says; a transcode's when the server ends it, which a dying
\* ffmpeg does early.
Recv(n, due, last) ==
  /\ pc = "recv" /\ ~ended
  /\ Have + n <= until
  /\ fails' = fails + (IF last /\ Have + n < until THEN 1 ELSE 0)
  /\ last => ~item.file /\ fails' <= MaxFails
  /\ fill' = fill + n
  /\ ended' = (last \/ Have + n = until)
  /\ ckpt' = due
  /\ pc' = IF Cap - fill' < RecvMin \/ due \/ ended' THEN "write" ELSE "gate"
  /\ UNCHANGED <<serverVars, diskVars, total, from, until, whole, crashes>>

\* A faulty variant: a checkpoint saves the record without the fsync.
WriteUnsynced ==
  /\ pc = "write"
  /\ part' = Append(part, from, fill)
  /\ fill' = 0
  /\ pc' = IF ckpt THEN "save" ELSE "gate"
  /\ UNCHANGED <<serverVars, synced, media, total, saved, from, until, ckpt, ended, whole, fails, crashes>>

\* flush_buf
Write ==
  /\ pc = "write"
  /\ part' = Append(part, from, fill)
  /\ fill' = 0
  /\ pc' = IF ckpt THEN "sync" ELSE "gate"
  /\ UNCHANGED <<serverVars, synced, media, total, saved, from, until, ckpt, ended, whole, fails, crashes>>

\* ... fails, with some of it written.  The close still syncs.
WriteFailed ==
  /\ pc = "write"
  /\ \E n \in 0..fill : /\ part' = Append(part, from, n)
                        /\ synced' = part.len + n
  /\ fill' = 0
  /\ GiveUp
  /\ UNCHANGED <<serverVars, media, total, saved, from, until, ckpt, ended, whole, crashes>>

Sync ==
  /\ pc = "sync"
  /\ synced' = part.len
  /\ pc' = "save"
  /\ UNCHANGED <<serverVars, part, media, total, saved, bodyVars, fails, crashes>>

\* publish(): the record takes r->bytes_done, which is everything received.
SaveRecord ==
  /\ pc = "save"
  /\ saved' = [done |-> Have, total |-> total]
  /\ ckpt' = FALSE
  /\ pc' = "gate"
  /\ UNCHANGED <<serverVars, part, synced, media, total, from, until, fill, ended, whole, fails, crashes>>

GatePassed ==
  /\ pc = "gate"
  /\ pc' = IF ended THEN "close" ELSE "recv"
  /\ UNCHANGED <<serverVars, diskVars, total, bodyVars, fails, crashes>>

\* The space gate refuses: what is still in the buffer is dropped.
GateRefused ==
  /\ pc = "gate"
  /\ fill' = 0 /\ synced' = part.len
  /\ GiveUp
  /\ UNCHANGED <<serverVars, part, media, total, saved, from, until, ckpt, ended, whole, crashes>>

\* A stop, a timeout, a reset, a close before the end: whatever arrived is
\* written and synced.
Interrupted ==
  /\ pc = "recv"
  /\ part' = Append(part, from, fill)
  /\ synced' = Have
  /\ fill' = 0
  /\ GiveUp
  /\ UNCHANGED <<serverVars, media, total, saved, from, until, ckpt, ended, whole, crashes>>

\* The end of the body: the rest is written and the file synced and closed.  A
\* length nobody declared is the one that arrived.
Close ==
  /\ pc = "close"
  /\ part' = Append(part, from, fill) /\ synced' = Have
  /\ fill' = 0
  /\ total' = IF total = 0 THEN Have ELSE total
  /\ pc' = "verify"
  /\ UNCHANGED <<serverVars, media, saved, from, until, ckpt, ended, whole, fails, crashes>>

-----------------------------------------------------------------------------
(* verify, and the film takes its place; finish() is DlManager's *)

\* A faulty variant: the scan does not look at the duration.
AnyDuration == TRUE

\* dl_ts_plausible on a scan that saw the whole file, against the runtime; the
\* packet size alone, which every unit here has, when it did not.
ScanPasses == ~item.ts \/ ~whole \/ part.len + Slack >= item.length[from]

\* A faulty variant: the length of the file is not compared.
AnyLength ==
  /\ pc = "verify" /\ ScanPasses
  /\ pc' = "rename"
  /\ UNCHANGED <<serverVars, diskVars, total, bodyVars, fails, crashes>>

VerifyGood ==
  /\ pc = "verify" /\ part.len = total /\ ScanPasses
  /\ pc' = "rename"
  /\ UNCHANGED <<serverVars, diskVars, total, bodyVars, fails, crashes>>

\* Fewer bytes than promised: the next attempt continues.
VerifyShort ==
  /\ pc = "verify" /\ part.len # total
  /\ Reject
  /\ UNCHANGED <<serverVars, diskVars, total, bodyVars, crashes>>

\* Not the film: whatever the next attempt gets must start over.
VerifyBad ==
  /\ pc = "verify" /\ part.len = total /\ ~ScanPasses
  /\ Discarded
  /\ Reject
  /\ UNCHANGED <<serverVars, media, total, saved, bodyVars, crashes>>

Rename ==
  /\ pc = "rename"
  /\ media' = part
  /\ Discarded
  /\ pc' = "idle"
  /\ UNCHANGED <<serverVars, total, saved, bodyVars, fails, crashes>>

Worker ==
  \/ HeadFailed \/ AlreadyHere \/ BeyondEnd \/ OtherFilm \/ Resume \/ FromZero
  \/ \E n \in 1..(Cap - fill), due, last \in BOOLEAN : Recv(n, due, last)
  \/ Write \/ WriteFailed \/ Sync \/ SaveRecord \/ GatePassed \/ GateRefused
  \/ Interrupted \/ Close
  \/ VerifyGood \/ VerifyShort \/ VerifyBad \/ Rename

\* Someone replaces the film on the server.
Replace ==
  /\ version + 1 \in Versions
  /\ version' = version + 1
  /\ UNCHANGED <<item, diskVars, total, pc, bodyVars, fails, crashes>>

\* The power goes, with any of what was not synced; restore_one reads the
\* record back and measures the partial.
Crash ==
  /\ crashes < MaxCrashes
  /\ crashes' = crashes + 1
  /\ \E n \in synced..part.len :
       part' = IF n = 0 \/ (saved.total > 0 /\ n > saved.total) THEN Nothing
               ELSE [part EXCEPT !.len = n]
  /\ synced' = part'.len
  /\ total' = saved.total
  /\ pc' = "idle"
  /\ from' = version /\ until' = 0 /\ fill' = 0 /\ ckpt' = FALSE /\ ended' = FALSE /\ whole' = FALSE
  /\ UNCHANGED <<serverVars, media, saved, fails>>

Init ==
  /\ item \in Items /\ version = 1
  /\ part = Nothing /\ synced = 0 /\ media = Nothing
  /\ total = 0 /\ saved = [done |-> 0, total |-> 0]
  /\ pc = "idle" /\ from = 1 /\ until = 0 /\ fill = 0
  /\ ckpt = FALSE /\ ended = FALSE /\ whole = FALSE
  /\ fails = 0 /\ crashes = 0

Next == Worker \/ Replace \/ Crash

Spec == Init /\ [][Next]_vars

\* Failures are bounded, so a worker that keeps running gets to the end.
FairSpec == Spec /\ WF_vars(Worker)

-----------------------------------------------------------------------------
(* Properties *)

Files == [len : Nat, of : SUBSET Versions]

TypeOK ==
  /\ item \in Items /\ version \in Versions /\ from \in Versions
  /\ part \in Files /\ media \in Files
  /\ synced \in 0..part.len /\ total \in Nat /\ until \in Nat
  /\ saved \in [done : Nat, total : Nat]
  /\ pc \in {"idle", "recv", "write", "sync", "save", "gate", "close", "verify", "rename"}
  /\ fill \in 0..Cap
  /\ ckpt \in BOOLEAN /\ ended \in BOOLEAN /\ whole \in BOOLEAN
  /\ fails \in 0..MaxFails /\ crashes \in 0..MaxCrashes

\* The lengths at which media.ts may pass for version v: of a file, the whole of
\* it, or as much as the whole of a later one, since the 416 of the later film may
\* pass for the end of this one; of a transcode, whose end nobody declares, what
\* the scan lets pass, or anything if nothing scans it.
Enough(v) ==
  {n \in 1..item.length[v] :
     IF item.file THEN \E w \in Versions : w >= v /\ n = item.length[w]
     ELSE item.ts => n + Slack >= item.length[v]}

\* docs/offline-downloads.md, section 4: "media.ts  once complete and
\* length-verified": the offline film is all of the film its bytes are from, or
\* all but what Enough leaves out, for a server whose 206 names the total.
MediaNearlyWhole ==
  item.shown /\ media # Nothing =>
    media.of # {} /\ \A v \in media.of : media.len \in Enough(v)

\* "Appending would splice two different files together": the partial holds
\* bytes of two films only if they have one length, the only thing in the
\* server's answers that tells films apart.
NeverSpliced ==
  item.shown => \A v, w \in part.of : item.length[v] = item.length[w]

\* "The record must never claim bytes that are only in RAM": what a save adds
\* to the record is on the disk for good by then.
RecordNotAhead == [][saved'.done > saved.done => saved'.done <= synced']_<<saved, synced>>

\* However often an attempt fails, the film is replaced or the power goes:
\* the film arrives in the end.
FilmArrives == <>(media # Nothing)

\* The promise of a download: see DlFile.
Promise == INSTANCE DlFile WITH length <- item.length,
                                enough <- [v \in Versions |-> Enough(v)]
PromiseKept == Promise!FileSpec

=============================================================================
