------------------------- MODULE MusicEngine_proofs -------------------------
(***************************************************************************)
(* For every queue and ring, and any number of sessions: the music session *)
(* that was left does not reach into a video, the screen follows the sound *)
(* and no file is cut off by the next one.                                 *)
(***************************************************************************)
EXTENDS MusicEngine, TLAPS

(* Who may have raised the cancel flag, and who may still run: the flag is    *)
(* up only while the stream thread has not been joined, the thread lives only *)
(* in a session or until it is joined, and a video starts after the join.     *)
LeftBehind ==
  /\ cancel => unjoined
  /\ pc # "gone" => started \/ unjoined
  /\ video => ~started /\ ~unjoined
  /\ started \in BOOLEAN /\ unjoined \in BOOLEAN /\ cancel \in BOOLEAN /\ video \in BOOLEAN

(* The stream thread, wherever it is, touches none of the flags but at its    *)
(* end, where it takes the cancel flag of its own stop down.                  *)
LEMMA StreamKeeps ==
  ASSUME LeftBehind, Stream
  PROVE  LeftBehind'
<1> USE DEF LeftBehind
<1>1. CASE Exit
  BY <1>1 DEF Exit
<1>2. CASE UNCHANGED flags /\ pc # "gone"
  BY <1>2 DEF flags
<1>3. CASE Enter \/ Wait \/ Flush \/ Clocks \/ Boundary \/ Publish
  BY <1>2, <1>3 DEF Enter, Wait, Flush, Clocks, Boundary, Publish
<1>4. CASE Opens \/ OpenFails \/ DrainEnds \/ Decode \/ Undecodable \/ HandsOver
  BY <1>2, <1>4 DEF Opens, OpenFails, DrainEnds, Decode, Undecodable, HandsOver
<1>5. CASE ReadEnds("end") \/ ReadEnds("failed") \/ Drained \/ Stopped \/ ReadCmd \/ ClearCmd
  BY <1>2, <1>5 DEF ReadEnds, Drained, Stopped, ReadCmd, ClearCmd
<1>6. CASE GoesOn \/ Obeys \/ QueueEnds
  BY <1>2, <1>6 DEF GoesOn, Obeys, QueueEnds
<1> QED
  BY <1>1, <1>3, <1>4, <1>5, <1>6 DEF Stream

(* A session starts only when the last one's thread is gone and no video      *)
(* plays; leaving it marks the thread unjoined as it raises the flag.         *)
LEMMA UserKeeps ==
  ASSUME LeftBehind, User
  PROVE  LeftBehind'
<1> USE DEF LeftBehind
<1>1. ASSUME NEW p \in Positions, NEW l \in BOOLEAN, Start(p, l)
      PROVE  LeftBehind'
  BY <1>1 DEF Start
<1>2. ASSUME NEW c \in {"next", "prev", "seek", "jump"}, NEW a \in Args, Press(c, a)
      PROVE  LeftBehind'
  BY <1>2 DEF Press, flags
<1>3. ASSUME NEW o \in [Positions -> Tracks], Shuffle(o)
      PROVE  LeftBehind'
  BY <1>3 DEF Shuffle, flags
<1>4. CASE Stop
  BY <1>4 DEF Stop
<1>5. CASE JoinStale
  <2>1. cancel' = FALSE
    BY <1>5 DEF JoinStale
  <2>2. unjoined' = FALSE /\ video' = TRUE /\ started' = started /\ pc' = pc /\ ~started
    BY <1>5 DEF JoinStale
  <2>3. pc = "gone"
    BY <1>5 DEF JoinStale
  <2> QED
    BY <2>1, <2>2, <2>3
<1>7. CASE VideoEnds
  BY <1>7 DEF VideoEnds
<1>6. CASE Pause
  BY <1>6 DEF Pause, flags
<1> QED
  BY <1>1, <1>2, <1>3, <1>4, <1>5, <1>6, <1>7 DEF User

(* VideoUntouched in every behaviour: music_join_stale (player.cpp:575) is    *)
(* enough, however often music was started and left before.                   *)
THEOREM VideoUntouchedAlways == Spec => []VideoUntouched
<1>1. Init => LeftBehind
  BY DEF Init, LeftBehind
<1>2. LeftBehind /\ [Next]_vars => LeftBehind'
  <2> SUFFICES ASSUME LeftBehind, [Next]_vars PROVE LeftBehind'
    OBVIOUS
  <2>1. CASE Play
    BY <2>1 DEF Play, flags, LeftBehind
  <2>2. CASE UNCHANGED vars
    BY <2>2 DEF vars, LeftBehind
  <2> QED
    BY <2>1, <2>2, StreamKeeps, UserKeeps DEF Next
<1>3. LeftBehind => VideoUntouched
  BY DEF LeftBehind, VideoUntouched
<1> QED
  BY <1>1, <1>2, <1>3, PTL DEF Spec

-----------------------------------------------------------------------------
(* Where the stream thread is                                                *)

Cmds    == {"next", "prev", "seek", "jump"}
Opening == {"wait", "begin", "clocks", "open", "publish"}

(* What the thread knows at each place: how its last track ended, the track it *)
(* is on, and, behind the flush, an empty ring.                                *)
Control ==
  /\ pc = "clear" => end \in Cmds \cup {"stop"}
  /\ pc = "handle" => end \in Cmds \cup {"stop", "natural", "over"}
  /\ pc = "drain" => end \in {"stop", "natural"}
  /\ pc = "wait" => local /\ gap
  /\ pc \in Opening \cup {"decode"} => cur = order[pos]
  /\ pc \in Opening => unit = start
  /\ gap => start = 0
  /\ pc = "clocks" => ~gap /\ ring = <<>> /\ ~bnd.on /\ heard = Nothing

(* What NothingCutOff rests on: on the way of a file to a flush the ring holds *)
(* less than a block, or the user asked for it.                                *)
Short == Len(ring) < Block

Uncut ==
  local => /\ pc \in {"enter", "begin"} /\ ~gap => Short \/ end \in Cmds
           /\ pc = "open" /\ ~gap => Short
           /\ pc = "handle" /\ end = "over" => Short

(* What a file waits for: its predecessor's boundary has been heard.           *)
Waited ==
  local => /\ torn # "begin"
           /\ pc \in {"begin", "open"} /\ gap => ~bnd.on

(* The ring is in order but on the way of a command's flush.                   *)
Settled ==
  /\ ~(~gap /\ pc \in {"enter", "begin"})
  /\ pc \notin {"clocks", "exit", "gone"}

(* Where the unit at place k belongs.                                          *)
Due(k) == IF bnd.on /\ k > bnd.in THEN <<order[bnd.pos], k - bnd.in>>
                                  ELSE <<Shown, base + consumed + k>>

(* What is decoded next goes behind what is in the ring.                       *)
Decoding == pc \in {"publish", "decode"} \/ (pc = "open" /\ ~(gap /\ local))

(* What ScreenFollowsSound rests on: the ring holds the track shown from where *)
(* the clock stands up to the boundary, and from there the next one from its   *)
(* start; the thread decodes what comes behind.                                *)
InStep ==
  /\ dur = Shown
  /\ bnd.on => bnd.dur = order[bnd.pos]
  /\ \A k \in 1..Len(ring) : ring[k] = Due(k)
  /\ heard = Nothing \/ base + consumed = 0 \/ heard = <<Shown, base + consumed>>
  /\ Decoding =>
       \/ bnd.on /\ bnd.pos = pos /\ unit = Len(ring) - bnd.in
       \/ ~bnd.on /\ ui = pos /\ unit = base + consumed + Len(ring)

Synced == torn = "no" /\ Settled => InStep

-----------------------------------------------------------------------------
(* Types                                                                     *)

TypeQueue ==
  /\ order \in [Positions -> Tracks] /\ \A t \in Tracks : \E p \in Positions : order[p] = t
  /\ pos \in Positions /\ ui \in Positions /\ dur \in Tracks \cup {0} /\ base \in Nat
  /\ consumed \in Nat
TypeRing ==
  /\ ring \in Seq(Tracks \X Nat) /\ Len(ring) <= Cap
  /\ bnd \in [on : BOOLEAN, in : Nat, pos : Positions, dur : Tracks]
  /\ bnd.on => bnd.in <= Len(ring)
TypeFlags ==
  /\ hold \in BOOLEAN /\ paused \in BOOLEAN /\ run \in BOOLEAN /\ active \in BOOLEAN
  /\ started \in BOOLEAN /\ unjoined \in BOOLEAN /\ cancel \in BOOLEAN /\ video \in BOOLEAN
  /\ local \in BOOLEAN /\ gap \in BOOLEAN
TypeTrack ==
  /\ cmd \in {"none", "next", "prev", "seek", "jump", "stop"} /\ arg \in Nat
  /\ start \in Nat /\ cur \in Tracks /\ unit \in Nat /\ eof \in {"no", "end", "failed"}
  /\ torn \in {"no", "begin", "shuffle"}

(* TypeOK, in the parts that its proof takes one by one.                       *)
LEMMA TypeParts == TypeOK <=> TypeQueue /\ TypeRing /\ TypeFlags /\ TypeTrack
<1>1. ASSUME order \in [Positions -> Tracks]
      PROVE  {order[p] : p \in Positions} = Tracks
               <=> \A t \in Tracks : \E p \in Positions : order[p] = t
  BY <1>1
<1> QED
  BY <1>1 DEF TypeOK, TypeQueue, TypeRing, TypeFlags, TypeTrack

Types == TypeQueue /\ TypeRing /\ TypeFlags /\ TypeTrack

LEMMA Constants ==
  /\ N \in Nat \ {0} /\ Cap \in Nat \ {0} /\ Block \in Nat \ {0} /\ Block <= Cap
  /\ \A a \in Args : a \in Nat
  /\ 0 \in Positions /\ \A p \in Positions : p \in Nat /\ p < N
  /\ \A p \in Nat : p < N => p \in Positions
<1>1. N \in Nat \ {0} /\ Cap \in Nat \ {0} /\ Block \in Nat \ {0} /\ Block <= Cap
  BY MusicAssumption
<1>2. \A a \in Args : a \in Nat
  BY MusicAssumption
<1> QED
  BY <1>1, <1>2 DEF Positions

(* A track's place is found whatever the order, as every track has one.        *)
LEMMA PlaceFound ==
  ASSUME NEW o \in [Positions -> Tracks], {o[p] : p \in Positions} = Tracks,
         NEW t \in Tracks
  PROVE  PlaceIn(o, t) \in Positions /\ o[PlaceIn(o, t)] = t
<1>1. \E p \in Positions : o[p] = t
  OBVIOUS
<1> QED
  BY <1>1 DEF PlaceIn

(* The order of the queue holds every track.                                   *)
LEMMA IdentityHoldsAll ==
  /\ Identity \in [Positions -> Tracks]
  /\ \A t \in Tracks : \E p \in Positions : Identity[p] = t
<1>1. ASSUME NEW p \in Positions PROVE p + 1 \in Tracks
  BY <1>1, Constants DEF Tracks, Positions
<1>2. ASSUME NEW t \in Tracks PROVE t - 1 \in Positions /\ (t - 1) + 1 = t
  BY <1>2, Constants DEF Tracks, Positions
<1>3. ASSUME NEW t \in Tracks PROVE Identity[t - 1] = t
  BY <1>2 DEF Identity
<1> QED
  BY <1>1, <1>2, <1>3 DEF Identity

(* A session starts, a new play order is taken, a block is played: the types.  *)
LEMMA StartTyped ==
  ASSUME Types, NEW p \in Positions, NEW l \in BOOLEAN, Start(p, l)
  PROVE  Types'
<1>1. TypeQueue'
  <2>1. order' = Identity /\ pos' = p /\ ui' = p /\ base' = 0 /\ consumed' = 0 /\ dur' = 0
    BY DEF Start
  <2> QED
    BY <2>1, IdentityHoldsAll DEF TypeQueue
<1>2. TypeRing'
  <2>1. ring' = <<>> /\ bnd' = NoBoundary
    BY DEF Start
  <2>2. 1 \in Tracks
    BY Constants DEF Tracks
  <2>3. NoBoundary \in [on : BOOLEAN, in : Nat, pos : Positions, dur : Tracks] /\ ~NoBoundary.on
    BY <2>2, Constants DEF NoBoundary
  <2>4. ring' \in Seq(Tracks \X Nat) /\ Len(ring') = 0
    BY <2>1
  <2> QED
    BY <2>1, <2>3, <2>4, Constants DEF TypeRing
<1>3. TypeFlags'
  BY DEF Start, Types, TypeFlags
<1>4. TypeTrack'
  BY DEF Start, Types, TypeTrack
<1> QED
  BY <1>1, <1>2, <1>3, <1>4 DEF Types

LEMMA ShuffleTyped ==
  ASSUME Types, NEW o \in [Positions -> Tracks], Shuffle(o)
  PROVE  /\ Types'
         /\ order'[ui'] = Shown /\ order'[pos'] = order[pos]
<1>1. Shown \in Tracks /\ order[pos] \in Tracks
  BY DEF Types, TypeQueue, Shown
<1>2. /\ order' = o /\ ui' = PlaceIn(o, Shown) /\ pos' = PlaceIn(o, order[pos])
      /\ {o[p] : p \in Positions} = Tracks
      /\ bnd' = IF bnd.on THEN [bnd EXCEPT !.pos = pos'] ELSE bnd
      /\ torn' = IF bnd.on /\ bnd.pos # pos THEN "shuffle" ELSE torn
      /\ UNCHANGED <<local, base, consumed, dur, ring>>
  BY DEF Shuffle
<1>3. /\ ui' \in Positions /\ order'[ui'] = Shown
      /\ pos' \in Positions /\ order'[pos'] = order[pos]
  BY <1>1, <1>2, PlaceFound
<1>4. \A t \in Tracks : \E p \in Positions : o[p] = t
  BY <1>2
<1>5. TypeQueue'
  BY <1>2, <1>3, <1>4 DEF Types, TypeQueue
<1>6. TypeRing'
  BY <1>2, <1>3 DEF Types, TypeRing
<1>7. TypeFlags'
  BY <1>2 DEF Shuffle, flags, track, Types, TypeFlags
<1>8. TypeTrack'
  BY <1>2 DEF Shuffle, cell, track, Types, TypeTrack
<1> QED
  BY <1>3, <1>5, <1>6, <1>7, <1>8 DEF Types

(* What a block is taken from.                                                 *)
LEMMA Taken ==
  ASSUME Types, Play
  PROVE  /\ Block \in Nat \ {0} /\ Len(ring) \in Nat /\ Block <= Len(ring)
         /\ ring' \in Seq(Tracks \X Nat) /\ Len(ring') = Len(ring) - Block
         /\ \A k \in 1..Len(ring') : ring'[k] = ring[Block + k]
         /\ heard' = ring[Block] /\ ring[Block] \in Tracks \X Nat
<1>1. Block \in Nat \ {0} /\ Len(ring) >= Block /\ ring' = SubSeq(ring, Block + 1, Len(ring))
  BY Constants DEF Play
<1>2. ring \in Seq(Tracks \X Nat) /\ Len(ring) \in Nat
  BY DEF Types, TypeRing
<1>3. ring' \in Seq(Tracks \X Nat) /\ Len(ring') = Len(ring) - Block
  BY <1>1, <1>2
<1>4. ASSUME NEW k \in 1..Len(ring') PROVE ring'[k] = ring[Block + k]
  <2>1. Block + 1 + k - 1 = Block + k
    BY <1>1, <1>2, <1>3
  <2>2. k \in 1..(Len(ring) - (Block + 1) + 1)
    BY <1>1, <1>2, <1>3
  <2> QED
    BY <1>1, <1>2, <2>1, <2>2
<1>5. ring[Block] \in Tracks \X Nat
  BY <1>1, <1>2
<1>6. heard' = ring[Block]
  BY DEF Play
<1> QED
  BY <1>1, <1>2, <1>3, <1>4, <1>5, <1>6

LEMMA PlayTyped ==
  ASSUME Types, Play
  PROVE  Types'
<1> DEFINE crosses == bnd.on /\ Block >= bnd.in
<1>0. bnd.in \in Nat /\ Block \in Nat /\ bnd \in [on : BOOLEAN, in : Nat, pos : Positions, dur : Tracks]
  BY Constants DEF Types, TypeRing
<1>1. TypeQueue'
  <2>1. CASE crosses
    <3>1. ui' = bnd.pos /\ dur' = bnd.dur /\ base' = 0 /\ consumed' = Block - bnd.in
      BY <2>1 DEF Play
    <3>2. consumed' \in Nat
      BY <1>0, <2>1, <3>1
    <3>3. order' = order /\ pos' = pos
      BY DEF Play, queue
    <3> QED
      BY <1>0, <3>1, <3>2, <3>3 DEF Types, TypeQueue
  <2>2. CASE ~crosses
    <3>1. ui' = ui /\ dur' = dur /\ base' = base /\ consumed' = consumed + Block
      BY <2>2 DEF Play
    <3>2. order' = order /\ pos' = pos
      BY DEF Play, queue
    <3> QED
      BY <1>0, <3>1, <3>2 DEF Types, TypeQueue
  <2> QED
    BY <2>1, <2>2
<1>2. TypeRing'
  <2>1. ring' \in Seq(Tracks \X Nat) /\ Len(ring') = Len(ring) - Block /\ Len(ring) \in Nat
        /\ Len(ring') <= Cap
    BY <1>0, Taken, Constants DEF Types, TypeRing
  <2>2. CASE crosses
    <3>1. bnd' = NoBoundary
      BY <2>2 DEF Play
    <3>2. 1 \in Tracks
      BY Constants DEF Tracks
    <3>3. NoBoundary \in [on : BOOLEAN, in : Nat, pos : Positions, dur : Tracks] /\ ~NoBoundary.on
      BY <3>2, Constants DEF NoBoundary
    <3> QED
      BY <2>1, <3>1, <3>3 DEF TypeRing
  <2>3. CASE ~crosses /\ bnd.on
    <3>1. bnd' = [bnd EXCEPT !.in = @ - Block]
      BY <2>3 DEF Play
    <3>0. bnd.in <= Len(ring)
      BY <2>3 DEF Types, TypeRing
    <3>2. bnd.in - Block \in Nat /\ bnd.in - Block <= Len(ring')
      BY <1>0, <2>1, <2>3, <3>0
    <3> QED
      BY <1>0, <2>1, <3>1, <3>2 DEF TypeRing
  <2>4. CASE ~bnd.on
    <3>1. bnd' = bnd
      BY <2>4 DEF Play
    <3> QED
      BY <1>0, <2>1, <2>4, <3>1 DEF TypeRing
  <2> QED
    BY <2>2, <2>3, <2>4
<1>3. TypeFlags'
  BY DEF Play, queue, flags, track, Types, TypeFlags
<1>4. TypeTrack'
  BY DEF Play, cell, track, Types, TypeTrack
<1> QED
  BY <1>1, <1>2, <1>3, <1>4 DEF Types

(* The steps of the stream thread that move a cursor or the boundary.          *)
LEMMA ObeysTyped ==
  ASSUME Types, Control, Obeys
  PROVE  Types'
<1>1. TypeQueue'
  <2>1. UNCHANGED <<order, ui, dur, base, consumed>> /\ ui \in Positions /\ arg \in Nat
    BY DEF Obeys, queue, clock, cell, Types, TypeQueue, TypeTrack
  <2>2. /\ end \in Cmds \cup {"over"} /\ (end \in {"next", "over"} => ui + 1 < N)
        /\ pos' = CASE end \in {"next", "over"} -> ui + 1
                    [] end = "prev" -> IF ui > 0 THEN ui - 1 ELSE 0
                    [] end = "seek" -> ui
                    [] end = "jump" -> IF arg < N THEN arg ELSE N - 1
    BY DEF Obeys, Control
  <2>3. pos' \in Positions
    <3>1. ui \in Nat /\ ui < N /\ N \in Nat \ {0}
      BY <2>1, Constants
    <3>2. CASE end \in {"next", "over"}
      <4>1. pos' = ui + 1 /\ ui + 1 \in Nat /\ ui + 1 < N
        BY <2>2, <3>1, <3>2
      <4> QED
        BY <4>1, Constants
    <3>3. CASE end = "prev"
      <4>1. pos' = IF ui > 0 THEN ui - 1 ELSE 0
        BY <2>2, <3>3
      <4>2. pos' \in Nat /\ pos' < N
        BY <3>1, <4>1
      <4> QED
        BY <4>2, Constants
    <3>4. CASE end = "seek"
      BY <2>1, <2>2, <3>4
    <3>5. CASE end = "jump"
      <4>1. pos' = IF arg < N THEN arg ELSE N - 1
        BY <2>2, <3>5
      <4>2. pos' \in Nat /\ pos' < N
        BY <2>1, <3>1, <4>1
      <4> QED
        BY <4>2, Constants
    <3> QED
      BY <2>2, <3>2, <3>3, <3>4, <3>5 DEF Cmds
  <2> QED
    BY <2>1, <2>3 DEF Types, TypeQueue
<1>2. TypeRing'
  <2>1. ring' = ring /\ bnd' = NoBoundary
    BY DEF Obeys
  <2>2. 1 \in Tracks
    BY Constants DEF Tracks
  <2>3. NoBoundary \in [on : BOOLEAN, in : Nat, pos : Positions, dur : Tracks] /\ ~NoBoundary.on
    BY <2>2, Constants DEF NoBoundary
  <2> QED
    BY <2>1, <2>3 DEF Types, TypeRing
<1>3. TypeFlags'
  BY DEF Obeys, queue, flags, Types, TypeFlags
<1>4. TypeTrack'
  <2>1. start' \in Nat
    BY DEF Obeys, Types, TypeTrack
  <2> QED
    BY <2>1 DEF Obeys, cell, Types, TypeTrack
<1> QED
  BY <1>1, <1>2, <1>3, <1>4 DEF Types

LEMMA BoundaryTyped ==
  ASSUME Types, Control, Boundary
  PROVE  /\ Types'
         /\ bnd'.on /\ bnd'.in = Len(ring) /\ bnd'.pos = pos /\ bnd'.dur = cur
<1>1. bnd' = [on |-> TRUE, in |-> Len(ring), pos |-> pos, dur |-> cur] /\ ring' = ring
  BY DEF Boundary
<1>2. Len(ring) \in Nat /\ pos \in Positions /\ cur \in Tracks
  BY DEF Types, TypeRing, TypeQueue, TypeTrack
<1>3. TypeRing'
  BY <1>1, <1>2 DEF Types, TypeRing
<1>4. TypeQueue'
  BY DEF Boundary, queue, clock, Types, TypeQueue
<1>5. TypeFlags'
  BY DEF Boundary, queue, flags, track, Types, TypeFlags
<1>6. TypeTrack'
  BY DEF Boundary, cell, track, Types, TypeTrack
<1> QED
  BY <1>1, <1>3, <1>4, <1>5, <1>6 DEF Types

LEMMA PublishTyped ==
  ASSUME Types, Control, Publish
  PROVE  Types'
<1>1. cur \in Tracks
  BY DEF Types, TypeTrack
<1>2. TypeRing'
  <2>1. bnd' = bnd \/ bnd' = [bnd EXCEPT !.dur = cur]
    BY DEF Publish
  <2>2. ring' = ring
    BY DEF Publish
  <2> QED
    BY <1>1, <2>1, <2>2 DEF Types, TypeRing
<1>3. TypeQueue'
  <2>1. dur' \in Tracks \cup {0}
    BY <1>1 DEF Publish, Types, TypeQueue
  <2> QED
    BY <2>1 DEF Publish, queue, Types, TypeQueue
<1>4. TypeFlags'
  BY DEF Publish, queue, flags, track, Types, TypeFlags
<1>5. TypeTrack'
  BY DEF Publish, cell, track, Types, TypeTrack
<1> QED
  BY <1>2, <1>3, <1>4, <1>5 DEF Types

(* A unit is decoded behind what is there.                                     *)
LEMMA DecodeTyped ==
  ASSUME Types, Decode
  PROVE  /\ Types'
         /\ Len(ring') = Len(ring) + 1 /\ ring'[Len(ring) + 1] = <<cur, unit + 1>>
         /\ \A k \in 1..Len(ring) : ring'[k] = ring[k]
<1>1. ring' = Append(ring, <<cur, unit + 1>>) /\ unit' = unit + 1 /\ Len(ring) < Cap
  BY DEF Decode, Room
<1>2. ring \in Seq(Tracks \X Nat) /\ <<cur, unit + 1>> \in Tracks \X Nat /\ Len(ring) \in Nat
  BY DEF Types, TypeRing, TypeTrack
<1>3. /\ ring' \in Seq(Tracks \X Nat) /\ Len(ring') = Len(ring) + 1
      /\ ring'[Len(ring) + 1] = <<cur, unit + 1>>
      /\ \A k \in 1..Len(ring) : ring'[k] = ring[k]
  BY <1>1, <1>2
<1>4. TypeRing'
  <2>1. bnd' = bnd
    BY DEF Decode
  <2>2. Len(ring') <= Cap
    BY <1>1, <1>2, <1>3, Constants
  <2>3. bnd \in [on : BOOLEAN, in : Nat, pos : Positions, dur : Tracks]
        /\ (bnd.on => bnd.in <= Len(ring))
    BY DEF Types, TypeRing
  <2>4. bnd.on => bnd.in <= Len(ring')
    BY <1>2, <1>3, <2>3
  <2> QED
    BY <1>3, <2>1, <2>2, <2>3, <2>4 DEF TypeRing
<1>5. TypeQueue'
  BY DEF Decode, queue, clock, Types, TypeQueue
<1>6. TypeFlags'
  <2>1. hold' \in BOOLEAN
    BY DEF Decode
  <2> QED
    BY <2>1 DEF Decode, queue, flags, Types, TypeFlags
<1>7. TypeTrack'
  <2>1. unit' \in Nat
    BY <1>1 DEF Types, TypeTrack
  <2> QED
    BY <2>1 DEF Decode, cell, Types, TypeTrack
<1> QED
  BY <1>3, <1>4, <1>5, <1>6, <1>7 DEF Types

(* The stream thread at the start of a track.                                  *)
LEMMA EnterTyped ==
  ASSUME Types, Enter \/ Flush \/ Clocks
  PROVE  Types'
<1>1. CASE Enter
  <2>1. cur' \in Tracks /\ unit' \in Nat /\ eof' = "no"
    BY <1>1 DEF Enter, Types, TypeQueue, TypeTrack
  <2> QED
    BY <1>1, <2>1 DEF Enter, queue, clock, sound, flags, cell, Types, TypeQueue, TypeRing,
                      TypeFlags, TypeTrack
<1>2. CASE Flush
  <2>1. TypeRing'
    <3>1. ring' = <<>> /\ bnd' = NoBoundary
      BY <1>2 DEF Flush
    <3>2. 1 \in Tracks
      BY Constants DEF Tracks
    <3>3. NoBoundary \in [on : BOOLEAN, in : Nat, pos : Positions, dur : Tracks] /\ ~NoBoundary.on
      BY <3>2, Constants DEF NoBoundary
    <3>4. ring' \in Seq(Tracks \X Nat) /\ Len(ring') = 0
      BY <3>1
    <3> QED
      BY <3>1, <3>3, <3>4, Constants DEF TypeRing
  <2>2. torn' = "no"
    BY <1>2 DEF Flush
  <2> QED
    BY <1>2, <2>1, <2>2 DEF Flush, queue, clock, flags, cell, track, Types, TypeQueue,
                            TypeFlags, TypeTrack
<1>3. CASE Clocks
  <2>1. TypeQueue'
    BY <1>3 DEF Clocks, queue, Types, TypeQueue, TypeTrack
  <2>2. TypeFlags'
    BY <1>3 DEF Clocks, queue, flags, track, Types, TypeFlags
  <2> QED
    BY <1>3, <2>1, <2>2 DEF Clocks, sound, cell, track, Types, TypeRing, TypeTrack
<1> QED
  BY <1>1, <1>2, <1>3

(* The steps that only take the thread further, end a track or leave.          *)
LEMMA QuietTyped ==
  ASSUME Types,
         \/ Wait \/ Opens \/ OpenFails \/ DrainEnds \/ Undecodable \/ HandsOver \/ Drained
         \/ Stopped \/ ReadCmd \/ ClearCmd \/ QueueEnds \/ Exit \/ ReadEnds("end")
         \/ ReadEnds("failed") \/ GoesOn
  PROVE  Types'
<1> USE DEF Types
<1>1. ASSUME UNCHANGED <<queue, pos, clock, sound, hold, paused, flags, cell, gap, start, cur,
                         unit, eof>>
      PROVE  Types'
  BY <1>1 DEF queue, clock, sound, flags, cell, TypeQueue, TypeRing, TypeFlags, TypeTrack
<1>2. CASE Wait \/ DrainEnds \/ Undecodable \/ HandsOver \/ Stopped \/ ReadCmd \/ QueueEnds
  BY <1>1, <1>2 DEF Wait, DrainEnds, Undecodable, HandsOver, Stopped, ReadCmd, QueueEnds, track
<1>3. CASE Opens \/ OpenFails \/ Drained
  BY <1>1, <1>3 DEF Opens, OpenFails, Drained
<1>4. CASE ClearCmd
  BY <1>4 DEF ClearCmd, queue, clock, sound, flags, track, TypeQueue, TypeRing, TypeFlags,
              TypeTrack
<1>5. CASE Exit
  <2>1. active' \in BOOLEAN /\ cancel' \in BOOLEAN
    BY <1>5 DEF Exit
  <2> QED
    BY <1>5, <2>1 DEF Exit, queue, clock, sound, cell, track, TypeQueue, TypeRing, TypeFlags,
                      TypeTrack
<1>6. ASSUME NEW how \in {"end", "failed"}, ReadEnds(how) PROVE Types'
  <2>1. hold' \in BOOLEAN /\ eof' \in {"end", "failed"}
    BY <1>6 DEF ReadEnds
  <2> QED
    BY <1>6, <2>1 DEF ReadEnds, queue, clock, sound, flags, cell, TypeQueue, TypeRing,
                      TypeFlags, TypeTrack
<1>7. CASE GoesOn
  <2>1. pos' \in Positions
    <3>1. pos' = pos + 1 /\ pos + 1 < N /\ pos \in Nat
      BY <1>7, Constants DEF GoesOn, TypeQueue
    <3> QED
      BY <3>1, Constants
  <2>2. gap' \in BOOLEAN /\ start' \in Nat
    BY <1>7 DEF GoesOn
  <2> QED
    BY <1>7, <2>1, <2>2 DEF GoesOn, queue, clock, sound, flags, cell, TypeQueue, TypeRing,
                            TypeFlags, TypeTrack
<1> QED
  BY <1>2, <1>3, <1>4, <1>5, <1>6, <1>7

(* Leaving, pressing, pausing, and the video player.                           *)
LEMMA UserTyped ==
  ASSUME Types,
         \/ Stop \/ JoinStale \/ VideoEnds \/ Pause
         \/ \E c \in {"next", "prev", "seek", "jump"}, a \in Args : Press(c, a)
  PROVE  Types'
<1> USE DEF Types
<1>1. CASE Stop
  <2>1. TypeFlags'
    BY <1>1 DEF Stop, queue, track, TypeFlags
  <2>2. TypeTrack'
    BY <1>1 DEF Stop, sound, track, TypeTrack
  <2> QED
    BY <1>1, <2>1, <2>2 DEF Stop, queue, clock, sound, TypeQueue, TypeRing
<1>2. CASE JoinStale
  <2>1. cancel' \in BOOLEAN /\ unjoined' \in BOOLEAN /\ video' \in BOOLEAN
    BY <1>2 DEF JoinStale
  <2> QED
    BY <1>2, <2>1 DEF JoinStale, queue, clock, sound, cell, track, TypeQueue, TypeRing,
                      TypeFlags, TypeTrack
<1>3. CASE VideoEnds
  <2>1. video' \in BOOLEAN
    BY <1>3 DEF VideoEnds
  <2> QED
    BY <1>3, <2>1 DEF VideoEnds, queue, clock, sound, cell, track, TypeQueue, TypeRing,
                      TypeFlags, TypeTrack
<1>4. CASE Pause
  <2>1. paused' \in BOOLEAN
    BY <1>4 DEF Pause
  <2> QED
    BY <1>4, <2>1 DEF Pause, queue, clock, sound, flags, cell, track, TypeQueue, TypeRing,
                      TypeFlags, TypeTrack
<1>5. ASSUME NEW c \in {"next", "prev", "seek", "jump"}, NEW a \in Args, Press(c, a)
      PROVE  Types'
  <2>1. a \in Nat
    BY Constants
  <2>2. TypeTrack'
    BY <1>5, <2>1 DEF Press, sound, track, TypeTrack
  <2> QED
    BY <1>5, <2>2 DEF Press, queue, clock, sound, flags, track, TypeQueue, TypeRing, TypeFlags
<1> QED
  BY <1>1, <1>2, <1>3, <1>4, <1>5

LEMMA TypesKept == Types /\ Control /\ [Next]_vars => Types'
<1> SUFFICES ASSUME Types, Control, [Next]_vars PROVE Types'
  OBVIOUS
<1>1. CASE Stream
  BY <1>1, EnterTyped, QuietTyped, ObeysTyped, BoundaryTyped, PublishTyped, DecodeTyped
     DEF Stream
<1>2. CASE User
  BY <1>2, StartTyped, ShuffleTyped, UserTyped DEF User
<1>3. CASE UNCHANGED vars
  BY <1>3 DEF vars, Types, TypeQueue, TypeRing, TypeFlags, TypeTrack
<1> QED
  BY <1>1, <1>2, <1>3, PlayTyped DEF Next

-----------------------------------------------------------------------------
(* The thread's knowledge, and that no file is cut off                       *)

(* The thread's steps.                                                         *)
LEMMA ControlStream ==
  ASSUME Types, Control, Stream
  PROVE  Control'
<1> USE DEF Control, Cmds, Opening
<1>1. CASE Enter
  <2>1. pc' \in {"exit", "wait", "begin"} /\ (pc' = "wait" => local' /\ gap')
    BY <1>1 DEF Enter, queue
  <2>2. cur' = order'[pos'] /\ unit' = start'
    BY <1>1 DEF Enter, queue
  <2> QED
    BY <1>1, <2>1, <2>2 DEF Enter
<1>2. CASE Wait
  <2>1. end' \in Cmds \cup {"stop"} \/ pc' \in {"exit", "open"}
    BY <1>2 DEF Wait, Types, TypeTrack
  <2> QED
    BY <1>2, <2>1 DEF Wait, queue, track
<1>3. CASE Flush
  BY <1>3 DEF Flush, queue, track, NoBoundary
<1>4. CASE Clocks
  BY <1>4 DEF Clocks, queue, track
<1>5. CASE Boundary \/ Publish
  BY <1>5 DEF Boundary, Publish, queue, track
<1>6. CASE Opens
  BY <1>6 DEF Opens, queue
<1>7. CASE OpenFails
  <2>1. end' \in {"stop", "natural", "over"} /\ pc' \in {"drain", "handle"}
    BY <1>7 DEF OpenFails
  <2>2. pc' = "drain" => end' \in {"stop", "natural"}
    BY <1>7 DEF OpenFails
  <2> QED
    BY <1>7, <2>1, <2>2 DEF OpenFails
<1>8. CASE DrainEnds \/ HandsOver \/ Undecodable \/ Drained \/ Stopped
  BY <1>8 DEF DrainEnds, HandsOver, Undecodable, Drained, Stopped, track
<1>9. CASE Decode
  BY <1>9 DEF Decode, queue
<1>10. ASSUME NEW how \in {"end", "failed"}, ReadEnds(how) PROVE Control'
  BY <1>10 DEF ReadEnds, queue
<1>11. CASE ReadCmd
  BY <1>11 DEF ReadCmd, track, Types, TypeTrack
<1>12. CASE ClearCmd \/ QueueEnds \/ Exit
  BY <1>12 DEF ClearCmd, QueueEnds, Exit, track
<1>13. CASE GoesOn
  BY <1>13 DEF GoesOn
<1>14. CASE Obeys
  BY <1>14 DEF Obeys
<1> QED
  BY <1>1, <1>2, <1>3, <1>4, <1>5, <1>6, <1>7, <1>8, <1>9, <1>10, <1>11, <1>12, <1>13, <1>14
     DEF Stream

LEMMA ControlKept == Types /\ Control /\ [Next]_vars => Control'
<1> SUFFICES ASSUME Types, Control, [Next]_vars PROVE Control'
  OBVIOUS
<1> USE DEF Control
<1>1. CASE Play
  <2>1. pc # "clocks"
    <3>1. ASSUME ring = <<>> PROVE FALSE
      <4>1. Len(ring) = 0
        BY <3>1
      <4> QED
        BY <1>1, <4>1, Taken
    <3> QED
      BY <3>1
  <2> QED
    BY <1>1, <2>1 DEF Play, queue, track
<1>2. ASSUME NEW p \in Positions, NEW l \in BOOLEAN, Start(p, l) PROVE Control'
  BY <1>2 DEF Start, Opening
<1>3. ASSUME NEW o \in [Positions -> Tracks], Shuffle(o) PROVE Control'
  <2>1. order'[pos'] = order[pos]
    BY <1>3, ShuffleTyped
  <2>2. UNCHANGED <<local, ring, heard, pc, end, gap, start, cur, unit>>
    BY <1>3 DEF Shuffle, track
  <2>3. ~bnd.on => bnd' = bnd
    BY <1>3 DEF Shuffle
  <2> QED
    BY <2>1, <2>2, <2>3
<1>4. CASE Stop \/ JoinStale \/ VideoEnds \/ Pause
  BY <1>4 DEF Stop, JoinStale, VideoEnds, Pause, queue, sound, track
<1>5. ASSUME NEW c \in {"next", "prev", "seek", "jump"}, NEW a \in Args, Press(c, a)
      PROVE  Control'
  BY <1>5 DEF Press, queue, sound, track
<1>6. CASE UNCHANGED vars
  BY <1>6 DEF vars
<1> QED
  BY <1>1, <1>2, <1>3, <1>4, <1>5, <1>6, ControlStream DEF Next, User

(* A ring that the thread does not write only gets shorter.                    *)
LEMMA UncutKept == Types /\ Control /\ Uncut /\ [Next]_vars => Uncut'
<1> SUFFICES ASSUME Types, Control, Uncut, [Next]_vars, local' PROVE Uncut'
  BY DEF Uncut
<1>0. Len(ring) \in Nat /\ Block \in Nat \ {0}
  BY Constants DEF Types, TypeRing
<1> DEFINE Kept == UNCHANGED <<local, ring>>
<1>1. CASE Kept /\ pc' \notin {"enter", "begin", "open", "handle"}
  BY <1>1 DEF Uncut
<1>2. CASE Enter
  BY <1>2 DEF Enter, queue, sound, Uncut, Short
<1>3. CASE Wait
  BY <1>3 DEF Wait, queue, sound, track, Control, Uncut, Short
<1>4. CASE Flush \/ Boundary \/ Publish
  BY <1>1, <1>4 DEF Flush, Boundary, Publish, queue, Uncut
<1>5. CASE Clocks
  <2>1. ring' = ring /\ ring = <<>> /\ local' = local /\ pc' \in {"open", "publish"}
    BY <1>5 DEF Clocks, queue, sound, Control
  <2>2. Short'
    BY <1>0, <2>1 DEF Short
  <2> QED
    BY <2>1, <2>2 DEF Uncut
<1>6. CASE Opens
  BY <1>6 DEF Opens, queue, sound, Uncut, Short
<1>7. CASE OpenFails
  <2>1. pc = "open" /\ UNCHANGED <<local, ring, gap>>
    BY <1>7 DEF OpenFails, queue, sound
  <2>2. pc' \in {"drain", "handle"} /\ (end' = "over" => ~gap)
    BY <1>7, <2>1 DEF OpenFails
  <2> QED
    BY <2>1, <2>2 DEF Uncut, Short
<1>8. CASE DrainEnds
  BY <1>8 DEF DrainEnds, queue, sound, track, Control, Uncut
<1>9. CASE Decode
  BY <1>9 DEF Decode, Uncut
<1>10. ASSUME NEW how \in {"end", "failed"}, ReadEnds(how) PROVE Uncut'
  BY <1>10 DEF ReadEnds, Uncut
<1>11. CASE Undecodable
  BY <1>11 DEF Undecodable, queue
<1>12. CASE HandsOver \/ ReadCmd
  BY <1>12 DEF HandsOver, ReadCmd, Uncut
<1>13. CASE Drained
  BY <1>13 DEF Drained, sound, Uncut, Short
<1>14. CASE Stopped \/ QueueEnds \/ Exit
  BY <1>14 DEF Stopped, QueueEnds, Exit, Uncut
<1>15. CASE ClearCmd
  BY <1>15 DEF ClearCmd, track, Control, Cmds, Uncut
<1>16. CASE GoesOn
  BY <1>16 DEF GoesOn, Uncut
<1>17. CASE Obeys
  <2>1. UNCHANGED <<local, ring, end>> /\ pc = "handle" /\ pc' = "enter"
    BY <1>17 DEF Obeys, queue
  <2>2. end \in Cmds \cup {"over"}
    BY <1>17 DEF Obeys, Control
  <2> QED
    BY <2>1, <2>2 DEF Uncut, Short
<1>18. CASE Play
  <2>1. UNCHANGED <<local, pc, end, gap>>
    BY <1>18 DEF Play, queue, track
  <2>2. Len(ring') = Len(ring) - Block
    BY <1>18, Taken
  <2>3. Short => Short'
    BY <1>0, <2>2 DEF Short
  <2> QED
    BY <2>1, <2>3 DEF Uncut
<1>19. ASSUME NEW p \in Positions, NEW l \in BOOLEAN, Start(p, l) PROVE Uncut'
  <2>1. ring' = <<>> /\ pc' = "enter"
    BY <1>19 DEF Start
  <2>2. Short'
    BY <1>0, <2>1 DEF Short
  <2> QED
    BY <2>1, <2>2 DEF Uncut
<1>20. ASSUME NEW o \in [Positions -> Tracks], Shuffle(o) PROVE Uncut'
  BY <1>20 DEF Shuffle, track, Uncut, Short
<1>21. CASE Stop \/ JoinStale \/ VideoEnds \/ Pause
  BY <1>21 DEF Stop, JoinStale, VideoEnds, Pause, queue, sound, track, Uncut, Short
<1>22. ASSUME NEW c \in {"next", "prev", "seek", "jump"}, NEW a \in Args, Press(c, a)
       PROVE  Uncut'
  BY <1>22 DEF Press, queue, sound, track, Uncut, Short
<1>23. CASE UNCHANGED vars
  BY <1>23 DEF vars, Uncut, Short
<1> QED
  BY <1>2, <1>3, <1>4, <1>5, <1>6, <1>7, <1>8, <1>9, <1>10, <1>11, <1>12, <1>13, <1>14, <1>15,
     <1>16, <1>17, <1>18, <1>19, <1>20, <1>21, <1>22, <1>23 DEF Next, Stream, User

(* A boundary is set by the thread alone, and a file waits before it sets one. *)
LEMMA WaitedKept == Types /\ Control /\ Waited /\ [Next]_vars => Waited'
<1> SUFFICES ASSUME Types, Control, Waited, [Next]_vars, local' PROVE Waited'
  BY DEF Waited
<1> USE DEF Waited
<1>1. CASE Enter
  BY <1>1 DEF Enter, queue, sound
<1>2. CASE Wait
  <2>1. pc' = "open" => ~bnd.on
    BY <1>2 DEF Wait, Types, TypeFlags
  <2> QED
    BY <1>2, <2>1 DEF Wait, queue, sound, track
<1>3. CASE Flush
  BY <1>3 DEF Flush
<1>4. CASE Clocks
  BY <1>4 DEF Clocks, queue, sound, track, Control
<1>5. CASE Boundary
  BY <1>5 DEF Boundary, queue
<1>6. CASE Publish
  <2>1. bnd'.on = bnd.on /\ pc' \in {"decode", "open"} /\ (pc' = "open" => ~local)
    BY <1>6 DEF Publish, Types, TypeRing
  <2> QED
    BY <1>6, <2>1 DEF Publish, queue
<1>7. CASE Opens \/ OpenFails
  BY <1>7 DEF Opens, OpenFails, queue, sound
<1>8. CASE DrainEnds \/ HandsOver \/ Undecodable \/ Drained \/ Stopped \/ ReadCmd
  BY <1>8 DEF DrainEnds, HandsOver, Undecodable, Drained, Stopped, ReadCmd, queue, sound
<1>9. CASE Decode
  BY <1>9 DEF Decode, queue
<1>10. ASSUME NEW how \in {"end", "failed"}, ReadEnds(how) PROVE Waited'
  BY <1>10 DEF ReadEnds, queue, sound
<1>11. CASE ClearCmd \/ QueueEnds \/ Exit \/ GoesOn
  BY <1>11 DEF ClearCmd, QueueEnds, Exit, GoesOn, queue, sound
<1>12. CASE Obeys
  BY <1>12 DEF Obeys, queue
<1>13. CASE Play
  <2>1. ~bnd.on => ~bnd'.on
    BY <1>13 DEF Play, NoBoundary
  <2> QED
    BY <1>13, <2>1 DEF Play, queue, track
<1>14. ASSUME NEW p \in Positions, NEW l \in BOOLEAN, Start(p, l) PROVE Waited'
  BY <1>14 DEF Start
<1>15. ASSUME NEW o \in [Positions -> Tracks], Shuffle(o) PROVE Waited'
  <2>1. (~bnd.on => bnd' = bnd) /\ torn' \in {"shuffle", torn}
    BY <1>15 DEF Shuffle
  <2> QED
    BY <1>15, <2>1 DEF Shuffle, track
<1>16. CASE Stop \/ JoinStale \/ VideoEnds \/ Pause
  BY <1>16 DEF Stop, JoinStale, VideoEnds, Pause, queue, sound, track
<1>17. ASSUME NEW c \in {"next", "prev", "seek", "jump"}, NEW a \in Args, Press(c, a)
       PROVE  Waited'
  BY <1>17 DEF Press, queue, sound, track
<1>18. CASE UNCHANGED vars
  BY <1>18 DEF vars
<1> QED
  BY <1>1, <1>2, <1>3, <1>4, <1>5, <1>6, <1>7, <1>8, <1>9, <1>10, <1>11, <1>12, <1>13, <1>14,
     <1>15, <1>16, <1>17, <1>18 DEF Next, Stream, User

-----------------------------------------------------------------------------
(* The screen and the sound                                                  *)

(* Steps that move neither the sound nor the clock.                            *)
LEMMA Quiet ==
  ASSUME Synced,
         UNCHANGED <<order, ui, dur, base, consumed, ring, bnd, heard, torn>>,
         Settled' => Settled,
         Decoding' => Decoding /\ pos' = pos /\ unit' = unit
  PROVE  Synced'
<1> SUFFICES ASSUME torn' = "no", Settled' PROVE InStep'
  BY DEF Synced
<1>1. InStep
  BY DEF Synced
<1>2. \A k \in 1..Len(ring) : Due(k)' = Due(k)
  BY DEF Due, Shown
<1> QED
  BY <1>1, <1>2 DEF InStep, Shown, Due

(* A flush behind it, a track starts at its start.                             *)
LEMMA ClocksSync ==
  ASSUME Types, Control, Clocks
  PROVE  Synced'
<1>1. /\ pc = "clocks" /\ ui' = pos /\ base' = start /\ consumed' = 0 /\ dur' = cur
      /\ UNCHANGED <<order, pos, ring, bnd, heard, unit, start>>
      /\ ring = <<>> /\ ~bnd.on /\ heard = Nothing /\ cur = order[pos] /\ unit = start
      /\ start \in Nat
  BY DEF Clocks, queue, sound, track, Control, Opening, Types, TypeTrack
<1>2. Len(ring') = 0
  BY <1>1
<1>3. base' + consumed' + Len(ring') = start
  BY <1>1, <1>2
<1>4. InStep'
  BY <1>1, <1>2, <1>3 DEF InStep, Shown
<1> QED
  BY <1>4 DEF Synced

(* The boundary lies behind all that is in the ring.                           *)
LEMMA BoundarySync ==
  ASSUME Types, Control, Synced, Boundary
  PROVE  Synced'
<1> SUFFICES ASSUME torn' = "no" PROVE InStep'
  BY DEF Synced
<1>1. /\ pc = "begin" /\ gap /\ ~bnd.on /\ torn = "no"
      /\ UNCHANGED <<order, pos, ui, base, consumed, dur, ring, heard, unit>>
      /\ cur = order[pos] /\ unit = 0
  BY DEF Boundary, queue, clock, track, Control, Opening
<1>2. bnd'.on /\ bnd'.in = Len(ring) /\ bnd'.pos = pos /\ bnd'.dur = cur
  BY BoundaryTyped
<1>3. InStep
  BY <1>1 DEF Synced, Settled
<1>4. Len(ring) \in Nat /\ Len(ring) - Len(ring) = 0
  BY DEF Types, TypeRing
<1>5. \A k \in 1..Len(ring) : Due(k)' = Due(k)
  BY <1>1, <1>2, <1>4 DEF Due, Shown
<1> QED
  BY <1>1, <1>2, <1>3, <1>4, <1>5 DEF InStep, Shown, Due

(* The length of the track goes where the track is.                            *)
LEMMA PublishSync ==
  ASSUME Types, Control, Synced, Publish
  PROVE  Synced'
<1> SUFFICES ASSUME torn' = "no" PROVE InStep'
  BY DEF Synced
<1>1. /\ pc = "publish" /\ torn = "no" /\ cur = order[pos]
      /\ UNCHANGED <<order, pos, ui, base, consumed, ring, heard, unit>>
      /\ \/ bnd.on /\ bnd.pos = pos /\ bnd' = [bnd EXCEPT !.dur = cur] /\ dur' = dur
         \/ bnd' = bnd /\ dur' = (IF ui = pos THEN cur ELSE dur)
  BY DEF Publish, queue, track, Control, Opening
<1>2. InStep
  BY <1>1 DEF Synced, Settled
<1>3. bnd'.on = bnd.on /\ bnd'.in = bnd.in /\ bnd'.pos = bnd.pos
  BY <1>1 DEF Types, TypeRing
<1>4. bnd'.on => bnd'.dur = order[bnd'.pos]
  BY <1>1, <1>2, <1>3 DEF InStep, Types, TypeRing
<1>5. dur' = Shown
  BY <1>1, <1>2 DEF InStep, Shown
<1>6. \A k \in 1..Len(ring) : Due(k)' = Due(k)
  BY <1>1, <1>3 DEF Due, Shown
<1> QED
  BY <1>1, <1>2, <1>3, <1>4, <1>5, <1>6 DEF InStep, Shown, Due, Decoding

(* What is decoded is what is due.                                             *)
LEMMA DecodeSync ==
  ASSUME Types, Control, Synced, Decode
  PROVE  Synced'
<1> SUFFICES ASSUME torn' = "no" PROVE InStep'
  BY DEF Synced
<1>1. /\ pc = "decode" /\ pc' = pc /\ torn = "no" /\ cur = order[pos]
      /\ UNCHANGED <<order, pos, ui, base, consumed, dur, bnd, heard>> /\ unit' = unit + 1
  BY DEF Decode, queue, clock, Control
<1>2. InStep
  BY <1>1 DEF Synced, Settled
<1> DEFINE n == Len(ring)
<1>3. /\ Len(ring') = n + 1 /\ ring'[n + 1] = <<cur, unit + 1>>
      /\ \A k \in 1..n : ring'[k] = ring[k]
      /\ n \in Nat /\ unit \in Nat /\ base \in Nat /\ consumed \in Nat /\ bnd.in \in Nat
      /\ (bnd.on => bnd.in <= n)
  BY DecodeTyped DEF Types, TypeRing, TypeQueue, TypeTrack
<1> HIDE DEF n
<1>4. \/ bnd.on /\ bnd.pos = pos /\ unit = n - bnd.in
      \/ ~bnd.on /\ ui = pos /\ unit = base + consumed + n
  BY <1>1, <1>2 DEF InStep, Decoding, n
<1>5. Due(n + 1) = <<cur, unit + 1>>
  <2>1. CASE bnd.on /\ bnd.pos = pos /\ unit = n - bnd.in
    <3>1. n + 1 > bnd.in /\ (n + 1) - bnd.in = unit + 1
      BY <1>3, <2>1
    <3> QED
      BY <1>1, <2>1, <3>1 DEF Due
  <2>2. CASE ~bnd.on /\ ui = pos /\ unit = base + consumed + n
    <3>1. base + consumed + (n + 1) = unit + 1
      BY <1>3, <2>2
    <3> QED
      BY <1>1, <2>2, <3>1 DEF Due, Shown
  <2> QED
    BY <1>4, <2>1, <2>2
<1>6. \A k \in Nat : Due(k)' = Due(k)
  BY <1>1 DEF Due, Shown
<1>7. ASSUME NEW k \in 1..(n + 1) PROVE ring'[k] = Due(k)
  <2>1. CASE k = n + 1
    BY <1>3, <1>5, <2>1
  <2>2. CASE k \in 1..n
    BY <1>2, <1>3, <2>2 DEF InStep, n
  <2> QED
    BY <1>3, <2>1, <2>2
<1>8. \/ bnd'.on /\ bnd'.pos = pos' /\ unit' = Len(ring') - bnd'.in
      \/ ~bnd'.on /\ ui' = pos' /\ unit' = base' + consumed' + Len(ring')
  BY <1>1, <1>3, <1>4
<1>9. \A k \in 1..Len(ring') : ring'[k] = Due(k)'
  BY <1>3, <1>6, <1>7
<1> QED
  BY <1>1, <1>2, <1>8, <1>9 DEF InStep, Shown

(* A block is taken, and the clock goes with it; across the boundary the next  *)
(* track becomes the one shown.                                                *)
LEMMA PlaySync ==
  ASSUME Types, Control, Synced, Play
  PROVE  Synced'
<1> SUFFICES ASSUME torn' = "no", Settled' PROVE InStep'
  BY DEF Synced
<1>1. UNCHANGED <<order, pos, torn, pc, gap, local, unit>>
  BY DEF Play, queue, track
<1>2. InStep
  BY <1>1 DEF Synced, Settled
<1> DEFINE n == Len(ring)
<1>3. /\ Block \in Nat \ {0} /\ n \in Nat /\ Block <= n /\ Len(ring') = n - Block
      /\ \A k \in 1..Len(ring') : ring'[k] = ring[Block + k]
      /\ heard' = ring[Block]
  BY Taken
<1>4. base \in Nat /\ consumed \in Nat /\ bnd.in \in Nat /\ unit \in Nat
      /\ (bnd.on => bnd.in <= n)
  BY DEF Types, TypeQueue, TypeRing, TypeTrack
<1> HIDE DEF n
<1>5. /\ heard' = Due(Block)
      /\ \A k \in 1..Len(ring') : ring'[k] = Due(Block + k)
  <2>1. \A k \in 1..n : ring[k] = Due(k)
    BY <1>2 DEF InStep, n
  <2>2. \A k \in 1..Len(ring') : Block + k \in 1..n
    BY <1>3
  <2>3. Block \in 1..n
    BY <1>3
  <2> QED
    BY <1>3, <2>1, <2>2, <2>3
<1>6. CASE bnd.on /\ Block >= bnd.in
  <2>1. /\ ui' = bnd.pos /\ dur' = bnd.dur /\ base' = 0 /\ consumed' = Block - bnd.in
        /\ bnd' = NoBoundary
    BY <1>6 DEF Play
  <2>2. ~bnd'.on
    BY <2>1 DEF NoBoundary
  <2>3. Shown' = order[bnd.pos] /\ dur' = Shown'
    BY <1>1, <1>2, <1>6, <2>1 DEF Shown, InStep
  <2>4. base' + consumed' = Block - bnd.in
    BY <1>3, <1>4, <2>1
  <2>5. base' + consumed' = 0 \/ heard' = <<Shown', base' + consumed'>>
    <3>1. CASE Block = bnd.in
      BY <1>4, <2>4, <3>1
    <3>2. CASE Block > bnd.in
      BY <1>5, <1>6, <2>3, <2>4, <3>2 DEF Due
    <3> QED
      BY <1>3, <1>4, <1>6, <3>1, <3>2
  <2>6. ASSUME NEW k \in 1..Len(ring') PROVE ring'[k] = Due(k)'
    <3>1. /\ Block + k > bnd.in /\ (Block + k) - bnd.in = (Block - bnd.in) + k
      BY <1>3, <1>4, <1>6
    <3>2. Due(Block + k) = <<order[bnd.pos], (Block - bnd.in) + k>>
      BY <1>6, <3>1 DEF Due
    <3>3. base' + consumed' + k = (Block - bnd.in) + k
      BY <1>3, <1>4, <1>6, <2>1
    <3>4. Due(k)' = <<Shown', base' + consumed' + k>>
      BY <2>2 DEF Due
    <3> QED
      BY <1>5, <2>3, <3>2, <3>3, <3>4
  <2>7. Decoding' => ui' = pos' /\ unit' = base' + consumed' + Len(ring')
    <3>1. ASSUME Decoding' PROVE ui' = pos' /\ unit' = base' + consumed' + Len(ring')
      <4>1. bnd.pos = pos /\ unit = n - bnd.in
        BY <1>1, <1>2, <1>6, <3>1 DEF InStep, Decoding, n
      <4>2. (Block - bnd.in) + (n - Block) = n - bnd.in
        BY <1>3, <1>4
      <4> QED
        BY <1>1, <1>3, <2>1, <2>4, <4>1, <4>2
    <3> QED
      BY <3>1
  <2> QED
    BY <2>2, <2>3, <2>5, <2>6, <2>7 DEF InStep
<1>7. CASE ~(bnd.on /\ Block >= bnd.in)
  <2>1. /\ ui' = ui /\ dur' = dur /\ base' = base /\ consumed' = consumed + Block
        /\ bnd' = IF bnd.on THEN [bnd EXCEPT !.in = @ - Block] ELSE bnd
    BY <1>7 DEF Play
  <2>2. bnd'.on = bnd.on /\ bnd'.pos = bnd.pos /\ bnd'.dur = bnd.dur
        /\ (bnd.on => bnd'.in = bnd.in - Block)
    BY <2>1 DEF Types, TypeRing
  <2>3. Shown' = Shown /\ dur' = Shown' /\ (bnd'.on => bnd'.dur = order'[bnd'.pos])
    BY <1>1, <1>2, <2>1, <2>2 DEF Shown, InStep
  <2>4. heard' = <<Shown', base' + consumed'>>
    <3>1. Due(Block) = <<Shown, base + consumed + Block>>
      BY <1>3, <1>4, <1>7 DEF Due
    <3>2. base + consumed + Block = base' + consumed'
      BY <1>3, <1>4, <2>1
    <3> QED
      BY <1>5, <2>3, <3>1, <3>2
  <2>5. ASSUME NEW k \in 1..Len(ring') PROVE ring'[k] = Due(k)'
    <3>1. base' + consumed' + k = base + consumed + (Block + k)
      BY <1>3, <1>4, <2>1
    <3>2. CASE bnd.on
      <4>1. /\ k > bnd'.in <=> Block + k > bnd.in
            /\ k - bnd'.in = (Block + k) - bnd.in
        BY <1>3, <1>4, <2>2, <3>2
      <4> QED
        BY <1>1, <1>5, <2>2, <2>3, <3>1, <3>2, <4>1 DEF Due
    <3>3. CASE ~bnd.on
      BY <1>5, <2>2, <2>3, <3>1, <3>3 DEF Due
    <3> QED
      BY <3>2, <3>3
  <2>6. Decoding' => \/ bnd'.on /\ bnd'.pos = pos' /\ unit' = Len(ring') - bnd'.in
                     \/ ~bnd'.on /\ ui' = pos' /\ unit' = base' + consumed' + Len(ring')
    <3>1. ASSUME Decoding'
          PROVE  \/ bnd'.on /\ bnd'.pos = pos' /\ unit' = Len(ring') - bnd'.in
                 \/ ~bnd'.on /\ ui' = pos' /\ unit' = base' + consumed' + Len(ring')
      <4>1. \/ bnd.on /\ bnd.pos = pos /\ unit = n - bnd.in
            \/ ~bnd.on /\ ui = pos /\ unit = base + consumed + n
        BY <1>1, <1>2, <3>1 DEF InStep, Decoding, n
      <4>2. CASE bnd.on /\ bnd.pos = pos /\ unit = n - bnd.in
        <5>1. n - bnd.in = (n - Block) - (bnd.in - Block)
          BY <1>3, <1>4
        <5> QED
          BY <1>1, <1>3, <2>2, <4>2, <5>1
      <4>3. CASE ~bnd.on /\ ui = pos /\ unit = base + consumed + n
        <5>1. base + consumed + n = base + (consumed + Block) + (n - Block)
          BY <1>3, <1>4
        <5> QED
          BY <1>1, <1>3, <2>1, <2>2, <4>3, <5>1
      <4> QED
        BY <4>1, <4>2, <4>3
    <3> QED
      BY <3>1
  <2> QED
    BY <2>3, <2>4, <2>5, <2>6 DEF InStep
<1> QED
  BY <1>6, <1>7

(* A new play order moves the two cursors with their tracks.                   *)
LEMMA ShuffleSync ==
  ASSUME Types, Synced, NEW o \in [Positions -> Tracks], Shuffle(o)
  PROVE  Synced'
<1> SUFFICES ASSUME torn' = "no", Settled' PROVE InStep'
  BY DEF Synced
<1>1. UNCHANGED <<local, base, consumed, dur, ring, heard, pc, gap, unit>>
  BY DEF Shuffle, track
<1>2. torn = "no" /\ (bnd.on => bnd.pos = pos)
  BY DEF Shuffle
<1>3. InStep
  BY <1>1, <1>2 DEF Synced, Settled
<1>4. order'[ui'] = Shown /\ order'[pos'] = order[pos]
  BY ShuffleTyped
<1>5. Shown' = Shown
  BY <1>4 DEF Shown
<1>6. /\ bnd'.on = bnd.on /\ bnd'.in = bnd.in /\ bnd'.dur = bnd.dur
      /\ (bnd.on => bnd'.pos = pos')
  <2>1. bnd' = IF bnd.on THEN [bnd EXCEPT !.pos = pos'] ELSE bnd
    BY DEF Shuffle
  <2> QED
    BY <2>1 DEF Types, TypeRing
<1>7. bnd.on => order'[bnd'.pos] = order[bnd.pos]
  BY <1>2, <1>4, <1>6
<1>8. ui = pos => ui' = pos'
  BY DEF Shuffle, Shown
<1>9. \A k \in 1..Len(ring) : Due(k)' = Due(k)
  BY <1>1, <1>5, <1>6, <1>7 DEF Due
<1> QED
  BY <1>1, <1>2, <1>3, <1>5, <1>6, <1>7, <1>8, <1>9 DEF InStep, Decoding

LEMMA SyncedKept == Types /\ Control /\ Synced /\ [Next]_vars => Synced'
<1> SUFFICES ASSUME Types, Control, Synced, [Next]_vars PROVE Synced'
  OBVIOUS
<1>1. CASE Enter
  BY <1>1, Quiet DEF Enter, queue, clock, sound, Settled, Decoding
<1>2. CASE Wait
  BY <1>2, Quiet DEF Wait, queue, clock, sound, track, Control, Settled, Decoding
<1>3. CASE Flush \/ Obeys
  BY <1>3 DEF Flush, Obeys, Synced, Settled
<1>4. CASE Opens
  BY <1>4, Quiet DEF Opens, queue, clock, sound, Settled, Decoding
<1>5. CASE OpenFails
  BY <1>5, Quiet DEF OpenFails, queue, clock, sound, Settled, Decoding
<1>6. CASE DrainEnds \/ HandsOver \/ Undecodable \/ Drained \/ Stopped
  BY <1>6, Quiet DEF DrainEnds, HandsOver, Undecodable, Drained, Stopped, queue, clock, sound,
                     track, Settled, Decoding
<1>7. ASSUME NEW how \in {"end", "failed"}, ReadEnds(how) PROVE Synced'
  BY <1>7, Quiet DEF ReadEnds, queue, clock, sound, Settled, Decoding
<1>8. CASE ReadCmd \/ ClearCmd \/ QueueEnds \/ Exit
  BY <1>8, Quiet DEF ReadCmd, ClearCmd, QueueEnds, Exit, queue, clock, sound, track, Settled,
                     Decoding
<1>9. CASE GoesOn
  BY <1>9, Quiet DEF GoesOn, queue, clock, sound, Settled, Decoding
<1>10. ASSUME NEW p \in Positions, NEW l \in BOOLEAN, Start(p, l) PROVE Synced'
  <2>1. pc' = "enter" /\ ~gap'
    BY <1>10 DEF Start
  <2> QED
    BY <2>1 DEF Synced, Settled
<1>11. CASE Stop \/ JoinStale \/ VideoEnds \/ Pause
  BY <1>11, Quiet DEF Stop, JoinStale, VideoEnds, Pause, queue, clock, sound, track, Settled,
                      Decoding
<1>12. ASSUME NEW c \in {"next", "prev", "seek", "jump"}, NEW a \in Args, Press(c, a)
       PROVE  Synced'
  BY <1>12, Quiet DEF Press, queue, clock, sound, track, Settled, Decoding
<1>13. CASE UNCHANGED vars
  BY <1>13, Quiet DEF vars, Settled, Decoding
<1> QED
  BY <1>1, <1>2, <1>3, <1>4, <1>5, <1>6, <1>7, <1>8, <1>9, <1>10, <1>11, <1>12, <1>13,
     ClocksSync, BoundarySync, PublishSync, DecodeSync, PlaySync, ShuffleSync
     DEF Next, Stream, User

-----------------------------------------------------------------------------
(* The theorems                                                              *)

IInv == Types /\ Control /\ Uncut /\ Waited /\ Synced

LEMMA IInvInit == Init => IInv
<1> SUFFICES ASSUME Init PROVE IInv
  OBVIOUS
<1>1. TypeQueue
  <2>1. 1 \in Tracks
    BY Constants DEF Tracks
  <2> QED
    BY <2>1, IdentityHoldsAll, Constants DEF Init, TypeQueue
<1>2. TypeRing
  <2>1. ring = <<>> /\ bnd = NoBoundary
    BY DEF Init
  <2>2. 1 \in Tracks
    BY Constants DEF Tracks
  <2>3. NoBoundary \in [on : BOOLEAN, in : Nat, pos : Positions, dur : Tracks] /\ ~NoBoundary.on
    BY <2>2, Constants DEF NoBoundary
  <2>4. ring \in Seq(Tracks \X Nat) /\ Len(ring) = 0
    BY <2>1
  <2> QED
    BY <2>1, <2>3, <2>4, Constants DEF TypeRing
<1>3. TypeFlags
  BY DEF Init, TypeFlags
<1>4. TypeTrack
  <2>1. 1 \in Tracks
    BY Constants DEF Tracks
  <2> QED
    BY <2>1 DEF Init, TypeTrack
<1>5. Control
  BY DEF Init, Control, Opening
<1>6. Uncut /\ Waited /\ Synced
  BY DEF Init, Uncut, Waited, Synced, Settled
<1> QED
  BY <1>1, <1>2, <1>3, <1>4, <1>5, <1>6 DEF IInv, Types

LEMMA IInvKept == IInv /\ [Next]_vars => IInv'
BY TypesKept, ControlKept, UncutKept, WaitedKept, SyncedKept DEF IInv

(* TypeOK in every behaviour: the cursors stay inside the queue and the play   *)
(* order holds every track, whatever is pressed and shuffled.                  *)
THEOREM TypesAlways == Spec => []TypeOK
<1>1. IInv => TypeOK
  BY TypeParts DEF IInv, Types
<1> QED
  BY IInvInit, IInvKept, <1>1, PTL DEF Spec

(* ScreenFollowsSound in every behaviour: "what the screen shows follows the   *)
(* sound" (music_player.cpp:498) but for the two ways the boundary is spoilt,  *)
(* of which files never take the first.                                        *)
THEOREM ScreenFollowsSoundAlways == Spec => []ScreenFollowsSound
<1>1. IInv => ScreenFollowsSound
  <2> SUFFICES ASSUME IInv PROVE (local => torn # "begin") /\ (torn = "no" => Agrees)
    BY DEF ScreenFollowsSound
  <2> SUFFICES ASSUME torn = "no" PROVE Agrees
    BY DEF IInv, Waited
  <2>1. CASE ~Settled
    BY <2>1 DEF IInv, Control, Settled, Agrees
  <2>2. CASE Settled /\ heard # Nothing
    <3>1. InStep
      BY <2>2 DEF IInv, Synced
    <3>2. dur = Shown /\ (base + consumed = 0 \/ heard = <<Shown, base + consumed>>)
      BY <2>2, <3>1 DEF InStep
    <3>3. ASSUME ring # <<>>, ~(bnd.on /\ bnd.in = 0) PROVE Head(ring)[1] = Shown
      <4>1. Len(ring) \in Nat \ {0} /\ Head(ring) = ring[1] /\ bnd.in \in Nat
        BY <3>3 DEF IInv, Types, TypeRing
      <4>2. ring[1] = Due(1)
        BY <3>1, <4>1 DEF InStep
      <4>3. ~(bnd.on /\ 1 > bnd.in)
        BY <3>3, <4>1
      <4> QED
        BY <4>1, <4>2, <4>3 DEF Due
    <3> QED
      BY <3>2, <3>3 DEF Agrees
  <2> QED
    BY <2>1, <2>2 DEF Agrees
<1> QED
  BY IInvInit, IInvKept, <1>1, PTL DEF Spec

(* NothingCutOff in every behaviour: "a bad one can be skipped without cutting  *)
(* that off" (music_player.cpp:504), however many in a row are bad.             *)
THEOREM NothingCutOffAlways == Spec => NothingCutOff
<1>1. IInv /\ [Next]_vars =>
        [Flush /\ local => Len(ring) < Block \/ end \in {"next", "prev", "seek", "jump"}]_vars
  BY DEF IInv, Uncut, Short, Cmds, Flush
<1> QED
  BY IInvInit, IInvKept, <1>1, PTL DEF Spec, NothingCutOff
=============================================================================
