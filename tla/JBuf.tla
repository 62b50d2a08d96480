-------------------------------- MODULE JBuf --------------------------------
(***************************************************************************)
(* Decoded pictures on their way to the screen: the ring of video/jbuf.cpp *)
(* and the three threads that share it.  The decode thread fills a slot    *)
(* and pushes it, the upload thread copies the front into the texture that *)
(* is not shown, the display thread pops and flips once a vblank, and a    *)
(* seek flushes everything from the display thread while the upload thread *)
(* runs on.  How long a picture stays is left open: a vblank may end it,   *)
(* keep it, or find it and its followers late.                             *)
(***************************************************************************)
EXTENDS Integers, Sequences

CONSTANTS
  Cap,          \* slots of the ring (jbuf_cap)
  FrontLocked,  \* front slots a push leaves alone: 2 when blending, else 1
  Disc,         \* a step back of this much is a discontinuity (1 s)
  Streams,      \* timestamps in decode order, one sequence per stream; 0: none
  MaxSeeks,     \* bound: seeks in a behaviour
  FlipAtOnce,   \* no thread runs between the two stores of a flip
  CopyEnds      \* a copy under way ends before a seek flushes (~200 ms in vdec_close, _open)

ASSUME JBufAssumption ==
  /\ Cap \in Nat \ {0} /\ FrontLocked \in 1..2 /\ Disc \in Nat /\ MaxSeeks \in Nat
  /\ Streams \subseteq Seq(Nat)
  /\ FlipAtOnce \in BOOLEAN /\ CopyEnds \in BOOLEAN

VARIABLES
  stream, made,  \* the stream, and how many of its pictures are decoded (s_seq_counter)
  rd, n,         \* s_jb_rd, s_jb_n
  wr,            \* s_jb_wr
  data, stamp,   \* per slot: its buffer (s_jbuf_data) and its picture (s_jbuf_pts, _seq)
  pix,           \* per buffer: the picture in it
  dec,           \* the decode thread: "idle", or "write" inside vdecGetPicture
  up,            \* the upload thread: where it is and what it is copying
  tex,           \* per texture: the picture in A, and the one in B (NoPic: absent)
  ready, disp,   \* s_vid_frame_ready, s_vid_disp_idx
  ds,            \* the display thread: "vblank", "clear", "toggle", "unready", "prefill"
  gpu,           \* the textures the GPU may still be reading
  born,          \* made when the last flush happened: older pictures are the old stream's
  seeks,
  gone           \* history: pictures that were on screen and were replaced

vars == <<stream, made, rd, n, wr, data, stamp, pix, dec, up, tex, ready, disp,
          ds, gpu, born, seeks, gone>>

Slots == 0..(Cap - 1)
NoPic == 0
Pics  == 0..Len(stream)       \* a picture is its sequence number

Slot(i) == (rd + i) % Cap     \* the slot i places behind the front
Pos(s)  == (s - rd + Cap) % Cap
At(i)   == IF i < n THEN stamp[Slot(i)] ELSE NoPic     \* jbuf_peek_seq and the next
Pts(p)  == stream[p]

Idle == [pc |-> "look", a |-> NoPic, b |-> NoPic, bufs |-> {}, back |-> 0]

Init ==
  /\ stream \in Streams /\ made = 0
  /\ rd = 0 /\ n = 0 /\ wr = 0
  /\ data = [s \in Slots |-> s] /\ stamp = [s \in Slots |-> NoPic]
  /\ pix = [s \in Slots |-> NoPic]
  /\ dec = "idle" /\ up = Idle
  /\ tex = [i \in {0, 1} |-> [a |-> NoPic, b |-> NoPic]] /\ ready = FALSE /\ disp = 0
  /\ ds = "prefill" /\ gpu = {}
  /\ born = 0 /\ seeks = 0 /\ gone = {}

-----------------------------------------------------------------------------
(* The decode thread; inside a seek, the prefill on the display thread. *)

\* vdec_pull_frame: a picture is ready and the ring has a slot for it.  The
\* slot is written without the lock.
DecodeBegins ==
  /\ dec = "idle" /\ ds # "unready" /\ n < Cap /\ made < Len(stream)
  /\ dec' = "write"
  /\ pix' = [pix EXCEPT ![data[wr]] = NoPic]
  /\ UNCHANGED <<stream, made, rd, n, wr, data, stamp, up, tex, ready, disp, ds, gpu,
                 born, seeks, gone>>

\* vdecGetPicture failed: nothing is pushed.
DecodeFails ==
  /\ dec = "write"
  /\ dec' = "idle"
  /\ UNCHANGED <<stream, made, rd, n, wr, data, stamp, pix, up, tex, ready, disp, ds,
                 gpu, born, seeks, gone>>

\* May a picture behind the front by i places be passed at all?  The faulty variant
\* passes the slots the display and the upload thread use.
PassableAny(i) == i >= 0
Passable(i)    == i >= FrontLocked

\* May a picture of timestamp p go ahead of the one i places behind the front?
Passes(p, i) == Passable(i) /\ Pts(At(i)) > p /\ Pts(At(i)) - p < Disc

\* Faulty variant: pictures keep the order of arrival.
PlaceLast(p) == n

\* Where a picture of timestamp p ends up, in places behind the front.
Place(p) ==
  IF p = 0 THEN n
  ELSE CHOOSE k \in 0..n : /\ \A i \in k..(n - 1) : Passes(p, i)
                           /\ k > 0 => ~Passes(p, k - 1)

\* The arrays after the slot at wr has moved to place k: those it passed step back.
Moved(f, k) ==
  [s \in Slots |-> CASE Pos(s) = k -> f[wr]
                     [] Pos(s) \in (k + 1)..n -> f[Slot(Pos(s) - 1)]
                     [] OTHER -> f[s]]

\* jbuf_push, from the stamp to the unlock.
Push ==
  /\ dec = "write"
  /\ dec' = "idle"
  /\ made' = made + 1
  /\ pix' = [pix EXCEPT ![data[wr]] = made + 1]
  /\ LET k == Place(Pts(made + 1)) IN
       /\ stamp' = Moved([stamp EXCEPT ![wr] = made + 1], k)
       /\ data' = Moved(data, k)
  /\ wr' = (wr + 1) % Cap
  /\ n' = n + 1
  /\ UNCHANGED <<stream, rd, up, tex, ready, disp, ds, gpu, born, seeks, gone>>

-----------------------------------------------------------------------------
(* The upload thread *)

\* Faulty variant: blending, it waits until both pictures are there.
UploadLooksAtTwo ==
  /\ up.pc = "look" /\ ~ready /\ n >= FrontLocked
  /\ FlipAtOnce => ds # "toggle"
  /\ up' = [pc |-> "copy", a |-> At(0), b |-> At(1),
            bufs |-> {data[Slot(i)] : i \in 0..(IF n > 1 THEN 1 ELSE 0)},
            back |-> 1 - disp]
  /\ UNCHANGED <<stream, made, rd, n, wr, data, stamp, pix, dec, tex, ready, disp, ds,
                 gpu, born, seeks, gone>>

\* The peeks under the lock, and the choice of the texture to fill.
UploadLooks ==
  /\ up.pc = "look" /\ ~ready /\ n > 0
  /\ FlipAtOnce => ds # "toggle"
  /\ up' = [pc |-> "copy", a |-> At(0), b |-> At(1),
            bufs |-> {data[Slot(i)] : i \in 0..(IF n > 1 THEN 1 ELSE 0)},
            back |-> 1 - disp]
  /\ UNCHANGED <<stream, made, rd, n, wr, data, stamp, pix, dec, tex, ready, disp, ds,
                 gpu, born, seeks, gone>>

\* The copies are done: s_vid_b_present, s_vid_uploaded_seq, s_vid_frame_ready.
UploadPublishes ==
  /\ up.pc = "copy"
  /\ tex' = [tex EXCEPT ![up.back] = [a |-> up.a, b |-> up.b]]
  /\ ready' = TRUE
  /\ up' = Idle
  /\ UNCHANGED <<stream, made, rd, n, wr, data, stamp, pix, dec, disp, ds, gpu, born,
                 seeks, gone>>

-----------------------------------------------------------------------------
(* The display thread *)

\* Faulty variants: the pops do not wait for a staged picture; the GPU is not
\* waited for.
GateUnstaged(drops, pop) ==
  /\ ds = "vblank" /\ n > 0 /\ drops \in 0..(n - 1)
  /\ rd' = (rd + drops + pop) % Cap
  /\ n' = n - drops - pop
  /\ gpu' = {}
  /\ ds' = IF ready THEN "clear" ELSE "vblank"
  /\ UNCHANGED <<stream, made, wr, data, stamp, pix, dec, up, tex, ready, disp, born,
                 seeks, gone>>

GateUnsynced(drops, pop) ==
  /\ ds = "vblank" /\ ready /\ n > 0 /\ drops \in 0..(n - 1)
  /\ rd' = (rd + drops + pop) % Cap
  /\ n' = n - drops - pop
  /\ ds' = "clear"
  /\ UNCHANGED <<stream, made, wr, data, stamp, pix, dec, up, tex, ready, disp, gpu, born,
                 seeks, gone>>

\* A vblank of player_display_frame that flips: the pictures already late are
\* dropped, all but the last; the front is popped (pop = 1) or shown on (0);
\* rsxSync waits for the GPU.
Gate(drops, pop) ==
  /\ ds = "vblank" /\ ready /\ n > 0 /\ drops \in 0..(n - 1)
  /\ rd' = (rd + drops + pop) % Cap
  /\ n' = n - drops - pop
  /\ gpu' = {}
  /\ ds' = "clear"
  /\ UNCHANGED <<stream, made, wr, data, stamp, pix, dec, up, tex, ready, disp, born,
                 seeks, gone>>

\* s_vid_frame_ready = false: the texture shown until now is the upload thread's.
FlipClears ==
  /\ ds = "clear"
  /\ ready' = FALSE
  /\ ds' = "toggle"
  /\ UNCHANGED <<stream, made, rd, n, wr, data, stamp, pix, dec, up, tex, disp, gpu, born,
                 seeks, gone>>

\* s_vid_disp_idx ^= 1, and the draw of the picture now shown.
FlipToggles ==
  /\ ds = "toggle"
  /\ disp' = 1 - disp
  /\ gpu' = gpu \cup {1 - disp}
  /\ gone' = IF tex[1 - disp].a = tex[disp].a THEN gone ELSE gone \cup {tex[disp].a}
  /\ ds' = "vblank"
  /\ UNCHANGED <<stream, made, rd, n, wr, data, stamp, pix, dec, up, tex, ready, born, seeks>>

\* A vblank that only draws again (nothing staged, a hold, a pause, the spinner
\* of a seek), and the GPU catching up.
Redraws ==
  /\ ds \in {"vblank", "prefill"} /\ gone # {} /\ disp \notin gpu
  /\ gpu' = gpu \cup {disp}
  /\ UNCHANGED <<stream, made, rd, n, wr, data, stamp, pix, dec, up, tex, ready, disp, ds,
                 born, seeks, gone>>

GpuDone ==
  /\ gpu # {}
  /\ gpu' = {}
  /\ UNCHANGED <<stream, made, rd, n, wr, data, stamp, pix, dec, up, tex, ready, disp, ds,
                 born, seeks, gone>>

\* player_execute_seek: the decode thread is joined, the decoder closed, jbuf_clear.
SeekFlushes ==
  /\ ds = "vblank" /\ dec = "idle" /\ seeks < MaxSeeks
  /\ CopyEnds => up.pc = "look"
  /\ seeks' = seeks + 1
  /\ rd' = 0 /\ n' = 0 /\ wr' = 0
  /\ born' = made
  /\ ds' = "unready"
  /\ UNCHANGED <<stream, made, data, stamp, pix, dec, up, tex, ready, disp, gpu, gone>>

\* Faulty variant: the staged picture is left for the next vblank.
SeekKeepsStaged ==
  /\ ds = "unready"
  /\ ds' = "prefill"
  /\ UNCHANGED <<stream, made, rd, n, wr, data, stamp, pix, dec, up, tex, ready, disp, gpu,
                 born, seeks, gone>>

\* s_vid_frame_ready = s_vid_b_present = false; the prefill follows.
SeekUnstages ==
  /\ ds = "unready"
  /\ ready' = FALSE
  /\ ds' = "prefill"
  /\ UNCHANGED <<stream, made, rd, n, wr, data, stamp, pix, dec, up, tex, disp, gpu, born,
                 seeks, gone>>

\* The reopened stream has given a picture (or there is none left to give).
PrefillEnds ==
  /\ ds = "prefill" /\ dec = "idle" /\ (n > 0 \/ made = Len(stream))
  /\ ds' = "vblank"
  /\ UNCHANGED <<stream, made, rd, n, wr, data, stamp, pix, dec, up, tex, ready, disp, gpu,
                 born, seeks, gone>>

Next ==
  \/ DecodeBegins \/ DecodeFails \/ Push
  \/ UploadLooks \/ UploadPublishes
  \/ \E drops \in 0..(Cap - 1), pop \in {0, 1} : Gate(drops, pop)
  \/ FlipClears \/ FlipToggles \/ Redraws \/ GpuDone
  \/ SeekFlushes \/ SeekUnstages \/ PrefillEnds

\* The threads keep running, the decoder does not fail for ever, and no picture
\* lasts for ever.
Fairness ==
  /\ WF_vars(UploadLooks) /\ WF_vars(UploadPublishes)
  /\ WF_vars(FlipClears) /\ WF_vars(FlipToggles)
  /\ WF_vars(SeekUnstages) /\ WF_vars(PrefillEnds) /\ SF_vars(Push)
  /\ SF_vars(Gate(0, 1))

Spec == Init /\ [][Next]_vars /\ Fairness

-----------------------------------------------------------------------------
(* Properties *)

\* Every variable stays in its range, and the indices agree with the count.
TypeOK ==
  /\ stream \in Streams /\ made \in Pics /\ born \in 0..made
  /\ rd \in Slots /\ n \in 0..Cap /\ wr = Slot(n)
  /\ data \in [Slots -> Slots] /\ \A s, t \in Slots : s # t => data[s] # data[t]
  /\ stamp \in [Slots -> Pics] /\ pix \in [Slots -> Pics]
  /\ dec \in {"idle", "write"}
  /\ up \in [pc : {"look", "copy"}, a : Pics, b : Pics, bufs : SUBSET Slots, back : {0, 1}]
  /\ tex \in [{0, 1} -> [a : Pics, b : Pics]]
  /\ ready \in BOOLEAN /\ disp \in {0, 1} /\ gpu \subseteq {0, 1}
  /\ ds \in {"vblank", "clear", "toggle", "unready", "prefill"}
  /\ seeks \in 0..MaxSeeks /\ gone \subseteq Pics

\* The upload thread copies outside the lock, yet nobody writes what it reads:
\* the decoder is never handed the buffer of a slot being copied, and each
\* queued slot still leads to its own picture after pushes traded buffers.
SlotsNotRaced ==
  /\ up.pc = "copy" /\ dec = "write" => data[wr] \notin up.bufs
  /\ \A i \in 0..(n - 1) : pix[data[Slot(i)]] = At(i)
  /\ up.pc = "copy" => \E b \in up.bufs : pix[b] = up.a

\* The upload thread fills the retired texture: never the one on the screen, and
\* never one the GPU may still be reading (player_display.cpp:304).
TextureIsRetired == up.pc = "copy" => up.back # disp /\ up.back \notin gpu

\* What the display decides on is what it will show: at a vblank with a picture
\* staged, the staged one is the front of the ring, and when blending, the
\* second one staged with it is the next (jbuf_set_front_locked).
StagedIsFront ==
  ds = "vblank" /\ ready =>
    LET t == tex[1 - disp] IN
      /\ t.a = At(0)
      /\ FrontLocked = 2 /\ t.b # NoPic => t.b = At(1)

\* Behind the slots in use the queue is in timestamp order: each picture is no
\* earlier than the one before it, but for discontinuities and missing timestamps.
QueueInOrder ==
  \A i \in (FrontLocked + 1)..(n - 1) :
    LET p == Pts(At(i - 1)) q == Pts(At(i)) IN q = 0 \/ p <= q \/ p - q >= Disc

\* A picture that left the screen never comes back, and one of the old stream
\* never comes up after a seek.
NeverBack ==
  [][tex'[disp'].a # tex[disp].a => tex'[disp'].a \notin gone /\ tex'[disp'].a > born]_vars

\* No circular wait between staging and showing: whatever is queued leaves the
\* ring, shown, late or flushed.
QueueDrains == (n > 0) ~> (n = 0)
=============================================================================
