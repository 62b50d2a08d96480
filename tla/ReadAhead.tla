----------------------------- MODULE ReadAhead ------------------------------
(***************************************************************************)
(* The decode thread (player/threads/player_threads.cpp) between the       *)
(* socket and the jitter buffer: audio goes to its queue as it arrives,    *)
(* video waits in the read-ahead ring for room in the jitter buffer, and   *)
(* the decoder (video/vdec.cpp) holds a few access units and pictures of   *)
(* its own.  A packet is its number in the stream; a video packet stands   *)
(* for one access unit and one picture.                                    *)
(***************************************************************************)
EXTENDS Integers, Sequences, Functions

CONSTANTS
  Source,    \* what the server sends: the kind of each packet, "V" or "A"
  RingCaps,  \* sizes the ring may be allocated with; 0: no memory for one
  Cap,       \* slots of the jitter buffer
  AuBufs,    \* access units the decoder may hold (AU_BUF_COUNT)
  Outs,      \* decoded pictures it may hold
  High,      \* the audio queue is hungry below this
  Batch,     \* packets read before the decoder is served again
  MaxSeeks   \* bound: seeks in a behaviour

ASSUME ReadAheadAssumption ==
  /\ Source \in Seq({"V", "A"}) /\ RingCaps \subseteq Nat
  /\ {Cap, AuBufs, Outs, High, Batch} \subseteq Nat \ {0} /\ MaxSeeks \in Nat

VARIABLES
  cap, ring,      \* s_ring_cap, and the packets from s_ring_rd on
  jb,             \* pictures in the jitter buffer
  units, frames,  \* in the decoder: units not done, pictures ready (s_frames_ready)
  aq,             \* audio queued
  pos, pkt,       \* packets read, and the one in hand (0: none)
  unit, ret,      \* the packet being submitted, and where to go on
  pc, b,          \* the decode thread: its place in the loop, its batch count
  fed, base,      \* the last video packet submitted; the last before the seek
  seeks

stream == <<cap, pos, pkt, base, seeks>>
vars   == <<cap, ring, jb, units, frames, aq, pos, pkt, unit, ret, pc, b, fed, base, seeks>>

Init ==
  /\ cap \in RingCaps /\ ring = <<>> /\ jb = 0 /\ units = 0 /\ frames = 0 /\ aq = 0
  /\ pos = 0 /\ pkt = 0 /\ unit = 0 /\ ret = "feed" /\ pc = "feed" /\ b = 0
  /\ fed = 0 /\ base = 0 /\ seeks = 0

Room    == jb < Cap
Hungry  == aq < High

\* Faulty variant: a full jitter buffer alone stops the reading.
BlockedEarly == ~Room

\* Nothing more can be taken: no room for pictures, and a full ring or enough sound.
Blocked == ~Room /\ (Len(ring) >= cap \/ ~Hungry)

-----------------------------------------------------------------------------
(* Into the decoder *)

SubmitFrom(p, next) == unit' = p /\ ret' = next /\ pc' = "submit"

\* Faulty variant: the ring is fed whether or not there is room.
FeedRingAlways(at, next) ==
  /\ pc = at /\ ring # <<>>
  /\ SubmitFrom(Head(ring), next)
  /\ ring' = Tail(ring)
  /\ UNCHANGED <<stream, jb, units, frames, aq, b, fed>>

\* Buffered video first, while there is room for the pictures.
FeedRing(at, next) ==
  /\ pc = at /\ ring # <<>> /\ Room
  /\ SubmitFrom(Head(ring), next)
  /\ ring' = Tail(ring)
  /\ UNCHANGED <<stream, jb, units, frames, aq, b, fed>>

FeedsRing == FeedRing("feed", "drain") \/ FeedRing("got", "got")

\* vdec_pull_frame, in the loops that collect pictures and while a submit waits.
Pull ==
  /\ pc \in {"drain", "pull"} \/ (pc = "submit" /\ units = AuBufs)
  /\ frames > 0 /\ Room
  /\ frames' = frames - 1 /\ jb' = jb + 1
  /\ UNCHANGED <<stream, ring, units, aq, unit, ret, pc, b, fed>>

PullEnds ==
  /\ pc \in {"drain", "pull"} /\ ~(frames > 0 /\ Room)
  /\ pc' = "feed"
  /\ UNCHANGED <<stream, ring, jb, units, frames, aq, unit, ret, b, fed>>

\* video_feed_ts: the unit goes to the decoder once one of its buffers is free.
Submit ==
  /\ pc = "submit" /\ units < AuBufs
  /\ units' = units + 1
  /\ fed' = unit
  /\ pc' = ret
  /\ UNCHANGED <<stream, ring, jb, frames, aq, unit, ret, b>>

-----------------------------------------------------------------------------
(* Off the socket *)

FeedEnds ==
  /\ pc = "feed" /\ ~(ring # <<>> /\ Room)
  /\ IF Blocked THEN pc' = "feed" /\ b' = b ELSE pc' = "batch" /\ b' = 0
  /\ UNCHANGED <<stream, ring, jb, units, frames, aq, unit, ret, fed>>

\* The batch is full, nothing more can be taken, or nothing is readable.
BatchEnds(readable) ==
  /\ pc = "batch" /\ (b = Batch \/ Blocked \/ ~readable)
  /\ pc' = "pull"
  /\ UNCHANGED <<stream, ring, jb, units, frames, aq, unit, ret, b, fed>>

Read ==
  /\ pc = "batch" /\ b < Batch /\ ~Blocked /\ pos < Len(Source)
  /\ pos' = pos + 1 /\ pkt' = pos + 1
  /\ pc' = "got"
  /\ UNCHANGED <<cap, base, seeks, ring, jb, units, frames, aq, unit, ret, b, fed>>

\* stream_read fails: playback (or, live, this thread) ends here.
EndOfStream ==
  /\ pc = "batch" /\ b < Batch /\ ~Blocked /\ pos = Len(Source)
  /\ pc' = "exit"
  /\ UNCHANGED <<stream, ring, jb, units, frames, aq, unit, ret, b, fed>>

GotEnds ==
  /\ pc = "got" /\ ~(ring # <<>> /\ Room)
  /\ pc' = "place"
  /\ UNCHANGED <<stream, ring, jb, units, frames, aq, unit, ret, b, fed>>

InHand(kind) == pc = "place" /\ Source[pkt] = kind

\* Faulty variant: a fresh packet is fed whenever there is room.
StraightPast ==
  /\ InHand("V") /\ Room
  /\ SubmitFrom(pkt, "batch") /\ b' = b + 1 /\ pkt' = 0
  /\ UNCHANGED <<cap, pos, base, seeks, ring, jb, units, frames, aq, fed>>

\* Straight to the decoder, only when nothing is queued before it.
Straight ==
  /\ InHand("V") /\ ring = <<>> /\ Room
  /\ SubmitFrom(pkt, "batch") /\ b' = b + 1 /\ pkt' = 0
  /\ UNCHANGED <<cap, pos, base, seeks, ring, jb, units, frames, aq, fed>>

\* ring_push; without room the packet is dropped and the batch ends.
Queue ==
  /\ InHand("V") /\ ~(ring = <<>> /\ Room)
  /\ pkt' = 0
  /\ IF Len(ring) < cap
       THEN ring' = Append(ring, pkt) /\ pc' = "batch" /\ b' = b + 1
       ELSE ring' = ring /\ pc' = "pull" /\ b' = b
  /\ UNCHANGED <<cap, pos, base, seeks, jb, units, frames, aq, unit, ret, fed>>

Audio ==
  /\ InHand("A")
  /\ aq' = aq + 1
  /\ pc' = "batch" /\ b' = b + 1 /\ pkt' = 0
  /\ UNCHANGED <<cap, pos, base, seeks, ring, jb, units, frames, unit, ret, fed>>

-----------------------------------------------------------------------------
(* The decoder, the other threads, a seek *)

Decode ==
  /\ units > 0 /\ frames < Outs
  /\ units' = units - 1 /\ frames' = frames + 1
  /\ UNCHANGED <<stream, ring, jb, aq, unit, ret, pc, b, fed>>

Show ==
  /\ jb > 0 /\ jb' = jb - 1
  /\ UNCHANGED <<stream, ring, units, frames, aq, unit, ret, pc, b, fed>>

Hear ==
  /\ aq > 0 /\ aq' = aq - 1
  /\ UNCHANGED <<stream, ring, jb, units, frames, unit, ret, pc, b, fed>>

\* player_execute_seek joins the thread at the top of its loop, flushes the
\* decoders and the jitter buffer, and player_spawn_decode resets the ring.
Seek ==
  /\ pc = "feed" /\ seeks < MaxSeeks
  /\ seeks' = seeks + 1 /\ base' = pos
  /\ ring' = <<>> /\ jb' = 0 /\ units' = 0 /\ frames' = 0 /\ aq' = 0
  /\ UNCHANGED <<cap, pos, pkt, unit, ret, pc, b, fed>>

Step == \/ FeedsRing \/ Pull \/ PullEnds \/ Submit \/ FeedEnds \/ BatchEnds(TRUE) \/ Read
        \/ EndOfStream \/ GotEnds \/ Straight \/ Queue \/ Audio

Next == Step \/ BatchEnds(FALSE) \/ Decode \/ Show \/ Hear \/ Seek

\* The decode thread and the decoder run on, and the socket is readable again
\* and again; nobody need watch or listen (a pause).
Spec == Init /\ [][Next]_vars /\ WF_vars(Step) /\ WF_vars(Decode)
             /\ SF_vars(Read) /\ SF_vars(EndOfStream)

-----------------------------------------------------------------------------
(* Properties *)

\* Every variable has its type; the ring never holds more than its size.
TypeOK ==
  /\ cap \in RingCaps /\ ring \in Seq(1..Len(Source)) /\ Len(ring) <= cap
  /\ jb \in 0..Cap /\ units \in 0..AuBufs /\ frames \in 0..Outs /\ aq \in 0..Len(Source)
  /\ pos \in 0..Len(Source) /\ pkt \in 0..pos /\ unit \in 0..pos /\ fed \in 0..pos
  /\ pc \in {"feed", "drain", "pull", "submit", "batch", "got", "place", "exit"}
  /\ ret \in {"feed", "drain", "got", "batch"} /\ b \in 0..Batch
  /\ base \in 0..pos /\ seeks \in 0..MaxSeeks

Increasing(s) == \A i, j \in 1..Len(s) : i < j => s[i] < s[j]

\* Every video packet read since the seek has been submitted or still waits, in
\* order behind the last one submitted: none is dropped for want of room, none
\* overtakes another, and none of before the seek is left.
StreamIntact ==
  LET hand    == (IF pc = "submit" THEN <<unit>> ELSE <<>>)
      coming  == (IF pkt # 0 /\ Source[pkt] = "V" THEN <<pkt>> ELSE <<>>)
      waiting == (IF ret = "batch" THEN ring \o hand ELSE hand \o ring) \o coming
      done    == IF fed > base THEN fed ELSE base
  IN /\ Increasing(waiting)
     /\ Range(waiting) = {i \in (done + 1)..pos : Source[i] = "V"}

\* A submit never waits on a decoder that can only go on if somebody watches:
\* "the decoder cannot back up" (player_threads.cpp:53), so no unit is
\* overwritten while the decoder reads it.
NeverBacksUp == pc = "submit" => ~(units = AuBufs /\ frames = Outs /\ ~Room)

\* The read-ahead goes on although nobody watches, until the ring is full, the
\* audio queue is no longer hungry or the stream has ended.
ReadsAhead == []<>(Len(ring) = cap \/ ~Hungry \/ pc = "exit")
=============================================================================
