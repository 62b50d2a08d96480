----------------------------- MODULE MusicEngine -----------------------------
(***************************************************************************)
(* The music player's engine (music/music_player.cpp): the stream thread   *)
(* decodes the queue into a ring, the pump thread plays the ring, the UI   *)
(* posts commands in one cell.  A track that is decoded whole is followed  *)
(* by the next one in the same ring, and one boundary says where the track *)
(* being heard, and shown, becomes the next.  Sound is counted in units,   *)
(* each known by its track and its place in it; the trimming of encoder    *)
(* padding at a boundary only shortens tracks and is left out.             *)
(***************************************************************************)
EXTENDS Integers, Sequences

CONSTANTS
  N,            \* tracks in the queue
  Units,        \* the length of each
  Cap,          \* the ring (MPCM_CAP)
  Block,        \* what the port takes at once (256 samples)
  Roll,         \* the pre-roll (9600 samples)
  Args,         \* positions to jump to, and seconds (units) to seek to
  FailLimit,    \* files in a row that may fail to open
  MaxSessions,  \* bound: music_start calls
  MaxPresses,   \* bound: commands
  MaxShuffles   \* bound: changes of the play order

Tracks    == 1..N
Positions == 0..(N - 1)

ASSUME MusicAssumption ==
  /\ {N, Cap, Block, Roll, FailLimit} \subseteq Nat \ {0}
  /\ Units \in [Tracks -> Nat] /\ \A t \in Tracks : Units[t] >= Block
  /\ Block <= Cap /\ Roll <= Cap /\ Args \subseteq Nat
  /\ {MaxSessions, MaxPresses, MaxShuffles} \subseteq Nat

VARIABLES
  order, pos, ui,       \* s_order, s_pos (decoded), s_ui_pos (heard)
  ring, bnd,            \* the ring's units; the boundary: s_bnd_*
  base, consumed, dur,  \* s_seek_base, s_consumed; the track s_duration is of, or 0
  hold, paused,         \* s_hold, s_paused
  run, active, started, unjoined, cancel,  \* s_run ..., g_stream_cancel
  video,                \* the video player is opening or playing a stream
  local,                \* the queue is files on a drive
  cmd, arg,             \* s_cmd, s_cmd_arg
  pc, end,              \* the stream thread, and what ended its last track
  gap, start, cur,      \* play_one_track's arguments, and its track
  unit, eof, fails,     \* units decoded of it, how reading ended, s_local_fails
  heard, torn,          \* history: the last unit played; the boundary was spoilt
  sessions, presses, shuffles

queue  == <<order, local>>
clock  == <<ui, base, consumed, dur>>
sound  == <<ring, bnd, heard, torn>>
flags  == <<run, active, started, unjoined, cancel, video, sessions>>
cell   == <<cmd, arg, presses>>
track  == <<gap, start, cur, unit, eof, fails>>
vars   == <<order, local, pos, ui, base, consumed, dur, ring, bnd, heard, torn, hold, paused,
            run, active, started, unjoined, cancel, video, sessions, cmd, arg, presses,
            gap, start, cur, unit, eof, fails, pc, end, shuffles>>

NoBoundary == [on |-> FALSE, in |-> 0, pos |-> 0, dur |-> 1]
Nothing    == <<0, 0>>
Identity   == [p \in Positions |-> p + 1]
Shown      == order[ui]

Init ==
  /\ order = Identity /\ local = FALSE /\ pos = 0
  /\ ui = 0 /\ base = 0 /\ consumed = 0 /\ dur = 0
  /\ ring = <<>> /\ bnd = NoBoundary /\ heard = Nothing /\ torn = "no"
  /\ hold = FALSE /\ paused = FALSE
  /\ run = FALSE /\ active = FALSE /\ started = FALSE /\ unjoined = FALSE
  /\ cancel = FALSE /\ video = FALSE /\ sessions = 0
  /\ cmd = "none" /\ arg = 0 /\ presses = 0
  /\ gap = FALSE /\ start = 0 /\ cur = 1 /\ unit = 0 /\ eof = "no" /\ fails = 0
  /\ pc = "gone" /\ end = "none" /\ shuffles = 0

-----------------------------------------------------------------------------
(* The stream thread: the start of a track *)

\* play_one_track, play_local_track: where a track's start begins.
Enter ==
  /\ pc = "enter"
  /\ cur' = order[pos] /\ unit' = start /\ eof' = "no"
  /\ pc' = IF ~run THEN "exit" ELSE IF local /\ gap THEN "wait" ELSE "begin"
  /\ UNCHANGED <<queue, pos, clock, sound, hold, paused, flags, cell, gap, start, fails, end,
                 shuffles>>

\* Faulty variants: the wait is for the boundary alone; there is no wait.
WaitDeaf ==
  /\ pc = "wait" /\ (~bnd.on \/ ~run)
  /\ end' = IF cmd # "none" THEN cmd ELSE end
  /\ pc' = IF ~run THEN "exit" ELSE IF cmd # "none" THEN "clear" ELSE "open"
  /\ UNCHANGED <<queue, pos, clock, sound, hold, paused, flags, cell, track, shuffles>>

WaitNot ==
  /\ pc = "wait"
  /\ end' = IF cmd # "none" THEN cmd ELSE end
  /\ pc' = IF ~run THEN "exit" ELSE IF cmd # "none" THEN "clear" ELSE "open"
  /\ UNCHANGED <<queue, pos, clock, sound, hold, paused, flags, cell, track, shuffles>>

\* A file behind another waits until the other's own boundary has been heard.
Wait ==
  /\ pc = "wait" /\ (~bnd.on \/ cmd # "none" \/ ~run)
  /\ end' = IF cmd # "none" THEN cmd ELSE end
  /\ pc' = IF ~run THEN "exit" ELSE IF cmd # "none" THEN "clear" ELSE "open"
  /\ UNCHANGED <<queue, pos, clock, sound, hold, paused, flags, cell, track, shuffles>>

\* track_begin, not gapless: mring_flush; then the clocks and the pre-roll.
Flush ==
  /\ pc = "begin" /\ ~gap
  /\ ring' = <<>> /\ bnd' = NoBoundary /\ heard' = Nothing /\ torn' = "no"
  /\ pc' = "clocks"
  /\ UNCHANGED <<queue, pos, clock, hold, paused, flags, cell, track, end, shuffles>>

Clocks ==
  /\ pc = "clocks"
  /\ ui' = pos /\ base' = start /\ consumed' = 0 /\ dur' = cur
  /\ hold' = TRUE
  /\ pc' = IF local THEN "open" ELSE "publish"
  /\ UNCHANGED <<queue, pos, sound, paused, flags, cell, track, end, shuffles>>

\* track_begin, gapless: the boundary at the end of what is in the ring.
Boundary ==
  /\ pc = "begin" /\ gap
  /\ bnd' = [on |-> TRUE, in |-> Len(ring), pos |-> pos, dur |-> cur]
  /\ torn' = IF bnd.on THEN "begin" ELSE torn
  /\ pc' = "publish"
  /\ UNCHANGED <<queue, pos, clock, ring, heard, hold, paused, flags, cell, track, end,
                 shuffles>>

\* publish_track_info: to the boundary, or to the track being heard.
Publish ==
  /\ pc = "publish"
  /\ IF bnd.on /\ bnd.pos = pos
       THEN bnd' = [bnd EXCEPT !.dur = cur] /\ dur' = dur
       ELSE dur' = (IF ui = pos THEN cur ELSE dur) /\ bnd' = bnd
  /\ pc' = IF local THEN "decode" ELSE "open"
  /\ UNCHANGED <<queue, pos, ui, base, consumed, ring, heard, torn, hold, paused, flags, cell,
                 track, end, shuffles>>

\* local_open, or stream_open (given up when the session was stopped).
Opens ==
  /\ pc = "open" /\ (local \/ run)
  /\ fails' = IF local THEN 0 ELSE fails
  /\ pc' = CASE ~local -> "decode" [] local /\ gap -> "begin" [] OTHER -> "publish"
  /\ UNCHANGED <<queue, pos, clock, sound, hold, paused, flags, cell, gap, start, cur, unit,
                 eof, end, shuffles>>

\* Faulty variant: a file that does not open ends like a track that was heard.
OpenFailsHard ==
  /\ pc = "open" /\ (local \/ run)
  /\ fails' = IF local THEN fails + 1 ELSE fails
  /\ end' = IF fails' >= FailLimit THEN "stop" ELSE "over"
  /\ pc' = "handle"
  /\ UNCHANGED <<queue, pos, clock, sound, hold, paused, flags, cell, gap, start, cur, unit,
                 eof, shuffles>>

\* A file that does not open is passed over, and what is queued before it plays
\* on; a stream that does not open is over.
OpenFails ==
  /\ pc = "open" /\ (local \/ run)
  /\ fails' = IF local THEN fails + 1 ELSE fails
  /\ end' = CASE fails' >= FailLimit -> "stop" [] local /\ gap -> "natural" [] OTHER -> "over"
  /\ pc' = IF local /\ gap /\ (fails' >= FailLimit \/ pos + 1 >= N) THEN "drain" ELSE "handle"
  /\ UNCHANGED <<queue, pos, clock, sound, hold, paused, flags, cell, gap, start, cur, unit,
                 eof, shuffles>>

\* The queue is to end: the track before plays out first.
DrainEnds ==
  /\ pc = "drain" /\ (Len(ring) < Block \/ cmd # "none" \/ ~run)
  /\ pc' = "handle"
  /\ UNCHANGED <<queue, pos, clock, sound, hold, paused, flags, cell, track, end, shuffles>>

-----------------------------------------------------------------------------
(* The stream thread: decoding, and the end of a track *)

Room == Len(ring) < Cap

Decode ==
  /\ pc = "decode" /\ run /\ eof = "no" /\ Room /\ unit < Units[cur]
  /\ ring' = Append(ring, <<cur, unit + 1>>)
  /\ unit' = unit + 1
  /\ hold' = (hold /\ Len(ring) + 1 < Roll)
  /\ UNCHANGED <<queue, pos, clock, bnd, heard, torn, paused, flags, cell, gap, start, cur, eof,
                 fails, pc, end, shuffles>>

\* The end; a file that cannot be read on; a stream that breaks off, which
\* passes for its end.
ReadEnds(how) ==
  /\ pc = "decode" /\ run /\ eof = "no" /\ (local => Room)
  /\ how = "end" => unit >= Units[cur] \/ ~local
  /\ how = "failed" => local
  /\ eof' = how /\ hold' = FALSE
  /\ UNCHANGED <<queue, pos, clock, sound, paused, flags, cell, gap, start, cur, unit, fails, pc,
                 end, shuffles>>

\* A stream that is not MP3.
Undecodable ==
  /\ pc = "decode" /\ run /\ ~local /\ eof = "no"
  /\ end' = "over" /\ pc' = "handle"
  /\ UNCHANGED <<queue, pos, clock, sound, hold, paused, flags, cell, track, shuffles>>

MoreToCome == eof = "end" /\ pos + 1 < N

\* Fully decoded with a track after it.
HandsOver ==
  /\ pc = "decode" /\ run /\ MoreToCome
  /\ end' = "natural" /\ pc' = "handle"
  /\ UNCHANGED <<queue, pos, clock, sound, hold, paused, flags, cell, track, shuffles>>

\* Faulty variant: drained is when nothing is left.
DrainedEmpty ==
  /\ pc = "decode" /\ run /\ eof # "no" /\ ~MoreToCome /\ ring = <<>>
  /\ fails' = IF eof = "failed" THEN fails + 1 ELSE fails
  /\ end' = "over" /\ pc' = "handle"
  /\ UNCHANGED <<queue, pos, clock, sound, hold, paused, flags, cell, gap, start, cur, unit, eof,
                 shuffles>>

\* The port takes no less than a block: drained is when less is left.
Drained ==
  /\ pc = "decode" /\ run /\ eof # "no" /\ ~MoreToCome /\ Len(ring) < Block
  /\ fails' = IF eof = "failed" THEN fails + 1 ELSE fails
  /\ end' = "over" /\ pc' = "handle"
  /\ UNCHANGED <<queue, pos, clock, sound, hold, paused, flags, cell, gap, start, cur, unit, eof,
                 shuffles>>

Stopped ==
  /\ pc \in {"decode", "open"} /\ ~run /\ (pc = "open" => ~local)
  /\ pc' = "exit"
  /\ UNCHANGED <<queue, pos, clock, sound, hold, paused, flags, cell, track, end, shuffles>>

\* take_cmd: the cell is read, and cleared a moment later.
ReadCmd ==
  /\ pc = "decode" /\ run /\ cmd # "none"
  /\ end' = cmd /\ pc' = "clear"
  /\ UNCHANGED <<queue, pos, clock, sound, hold, paused, flags, cell, track, shuffles>>

ClearCmd ==
  /\ pc = "clear"
  /\ cmd' = "none"
  /\ pc' = "handle"
  /\ UNCHANGED <<queue, pos, clock, sound, hold, paused, flags, arg, presses, track, end,
                 shuffles>>

\* music_stream_thread after a natural end: the next one, gapless.
GoesOn ==
  /\ pc = "handle" /\ run /\ end = "natural" /\ pos + 1 < N
  /\ pos' = pos + 1
  /\ gap' = TRUE /\ start' = 0
  /\ pc' = "enter"
  /\ UNCHANGED <<queue, clock, sound, hold, paused, flags, cell, cur, unit, eof, fails, end,
                 shuffles>>

\* A command acts on the track being heard, whatever is decoded behind it.  The
\* argument is read only now.
Obeys ==
  /\ pc = "handle" /\ run /\ end \notin {"natural", "stop"}
  /\ end \in {"next", "over"} => ui + 1 < N
  /\ bnd' = NoBoundary
  /\ pos' = CASE end \in {"next", "over"} -> ui + 1
              [] end = "prev" -> IF ui > 0 THEN ui - 1 ELSE 0
              [] end = "seek" -> ui
              [] end = "jump" -> IF arg < N THEN arg ELSE N - 1
  /\ start' = IF end = "seek" THEN arg ELSE 0
  /\ gap' = FALSE
  /\ pc' = "enter"
  /\ UNCHANGED <<queue, clock, ring, heard, torn, hold, paused, flags, cell, cur, unit, eof,
                 fails, end, shuffles>>

\* Nothing comes after, or the session is over.
QueueEnds ==
  /\ pc = "handle"
  /\ \/ ~run \/ end = "stop"
     \/ end = "natural" /\ pos + 1 >= N
     \/ end \in {"next", "over"} /\ ui + 1 >= N
  /\ pc' = "exit"
  /\ UNCHANGED <<queue, pos, clock, sound, hold, paused, flags, cell, track, end, shuffles>>

Exit ==
  /\ pc = "exit"
  /\ active' = FALSE
  /\ cancel' = (run /\ cancel)
  /\ pc' = "gone"
  /\ UNCHANGED <<queue, pos, clock, sound, hold, paused, run, started, unjoined, video, sessions,
                 cell, track, end, shuffles>>
-----------------------------------------------------------------------------
(* The pump thread *)

\* music_read_pcm: a block; a boundary reached makes the next track the heard one.
Play ==
  /\ started /\ run /\ ~paused /\ ~hold /\ Len(ring) >= Block
  /\ ring' = SubSeq(ring, Block + 1, Len(ring))
  /\ heard' = ring[Block]
  /\ IF bnd.on /\ Block >= bnd.in
       THEN /\ ui' = bnd.pos /\ dur' = bnd.dur
            /\ base' = 0 /\ consumed' = Block - bnd.in
            /\ bnd' = NoBoundary
       ELSE /\ consumed' = consumed + Block
            /\ bnd' = IF bnd.on THEN [bnd EXCEPT !.in = @ - Block] ELSE bnd
            /\ UNCHANGED <<ui, base, dur>>
  /\ UNCHANGED <<queue, pos, torn, hold, paused, flags, cell, track, pc, end, shuffles>>

-----------------------------------------------------------------------------
(* The UI thread, and the video player *)

\* music_start: the last session's stream thread is joined first.
Start(p, l) ==
  /\ ~started /\ ~video /\ pc = "gone" /\ sessions < MaxSessions
  /\ sessions' = sessions + 1
  /\ order' = Identity /\ local' = l /\ pos' = p
  /\ ui' = p /\ base' = 0 /\ consumed' = 0 /\ dur' = 0
  /\ ring' = <<>> /\ bnd' = NoBoundary /\ heard' = Nothing /\ torn' = "no"
  /\ hold' = TRUE /\ paused' = FALSE
  /\ run' = TRUE /\ active' = TRUE /\ started' = TRUE /\ unjoined' = FALSE /\ cancel' = FALSE
  /\ cmd' = "none" /\ fails' = 0
  /\ gap' = FALSE /\ start' = 0 /\ end' = "none" /\ pc' = "enter"
  /\ UNCHANGED <<video, arg, presses, cur, unit, eof, shuffles>>

\* music_stop: the pump is joined, the stream thread is left to finish.
Stop ==
  /\ started
  /\ cmd' = "stop"
  /\ run' = FALSE /\ active' = FALSE /\ started' = FALSE
  /\ unjoined' = TRUE /\ cancel' = TRUE
  /\ UNCHANGED <<queue, pos, clock, sound, hold, paused, video, sessions, arg, presses, track,
                 pc, end, shuffles>>

\* Faulty variant: the flag is left to the thread that is gone.
JoinOnly ==
  /\ ~started /\ ~video /\ (unjoined => pc = "gone")
  /\ unjoined' = FALSE
  /\ video' = TRUE
  /\ UNCHANGED <<queue, pos, clock, sound, hold, paused, run, active, started, cancel, sessions,
                 cell, track, pc, end, shuffles>>

\* music_join_stale, before the video player opens a stream.
JoinStale ==
  /\ ~started /\ ~video /\ (unjoined => pc = "gone")
  /\ unjoined' = FALSE
  /\ cancel' = (cancel /\ ~unjoined)
  /\ video' = TRUE
  /\ UNCHANGED <<queue, pos, clock, sound, hold, paused, run, active, started, sessions,
                 cell, track, pc, end, shuffles>>

VideoEnds ==
  /\ video
  /\ video' = FALSE
  /\ UNCHANGED <<queue, pos, clock, sound, hold, paused, run, active, started, unjoined, cancel,
                 sessions, cell, track, pc, end, shuffles>>

\* music_next, music_prev, music_seek, music_jump: the latest press is in the cell.
Press(c, a) ==
  /\ started /\ presses < MaxPresses
  /\ presses' = presses + 1
  /\ cmd' = c /\ arg' = IF c \in {"seek", "jump"} THEN a ELSE arg
  /\ UNCHANGED <<queue, pos, clock, sound, hold, paused, flags, track, pc, end, shuffles>>

Pause ==
  /\ started
  /\ paused' = ~paused
  /\ UNCHANGED <<queue, pos, clock, sound, hold, flags, cell, track, pc, end, shuffles>>

\* Where track t is in the play order o.
PlaceIn(o, t) == CHOOSE p \in Positions : o[p] = t

\* music_set_shuffle: any order with the heard track first, or the queue's own;
\* the boundary is taken to be the decoded track's.
Shuffle(o) ==
  /\ started /\ shuffles < MaxShuffles
  /\ {o[p] : p \in Positions} = Tracks /\ (o[0] = Shown \/ o = Identity)
  /\ shuffles' = shuffles + 1
  /\ order' = o
  /\ ui' = PlaceIn(o, Shown) /\ pos' = PlaceIn(o, order[pos])
  /\ bnd' = IF bnd.on THEN [bnd EXCEPT !.pos = pos'] ELSE bnd
  /\ torn' = IF bnd.on /\ bnd.pos # pos THEN "shuffle" ELSE torn
  /\ UNCHANGED <<local, base, consumed, dur, ring, heard, hold, paused, flags, cell, track, pc,
                 end>>

Stream ==
  \/ Enter \/ Wait \/ Flush \/ Clocks \/ Boundary \/ Publish \/ Opens \/ OpenFails \/ DrainEnds
  \/ Decode \/ ReadEnds("end") \/ ReadEnds("failed") \/ Undecodable \/ HandsOver \/ Drained
  \/ Stopped \/ ReadCmd \/ ClearCmd \/ GoesOn \/ Obeys \/ QueueEnds \/ Exit

User ==
  \/ \E p \in Positions, l \in BOOLEAN : Start(p, l)
  \/ \E c \in {"next", "prev", "seek", "jump"}, a \in Args : Press(c, a)
  \/ \E o \in [Positions -> Tracks] : Shuffle(o)
  \/ Stop \/ JoinStale \/ VideoEnds \/ Pause

Next == Stream \/ Play \/ User

\* The two threads run; the user need do nothing.
Spec == Init /\ [][Next]_vars /\ WF_vars(Stream) /\ WF_vars(Play)

-----------------------------------------------------------------------------
(* Properties *)

\* Every variable has its type; the two cursors stay inside the queue and the
\* play order holds every track once.
TypeOK ==
  /\ order \in [Positions -> Tracks] /\ {order[p] : p \in Positions} = Tracks
  /\ pos \in Positions /\ ui \in Positions /\ dur \in Tracks \cup {0} /\ base \in Nat
  /\ consumed \in Nat
  /\ ring \in Seq(Tracks \X Nat) /\ Len(ring) <= Cap
  /\ bnd \in [on : BOOLEAN, in : Nat, pos : Positions, dur : Tracks]
  /\ bnd.on => bnd.in <= Len(ring)
  /\ {hold, paused, run, active, started, unjoined, cancel, video, local, gap} \subseteq BOOLEAN
  /\ cmd \in {"none", "next", "prev", "seek", "jump", "stop"} /\ arg \in Nat
  /\ start \in Nat /\ cur \in Tracks /\ unit \in Nat /\ eof \in {"no", "end", "failed"}
  /\ torn \in {"no", "begin", "shuffle"}

\* The title, its length and the time shown are those of the unit just played,
\* but for the moment in which a command flushes the ring, and the last one.
Agrees ==
  \/ heard = Nothing \/ (~gap /\ pc \in {"enter", "begin"}) \/ pc \in {"exit", "gone"}
  \/ /\ dur = Shown
     /\ \/ Shown = heard[1] /\ base + consumed = heard[2]
        \/ /\ base + consumed = 0            \* a boundary, to the sample
           /\ ring = <<>> \/ Head(ring)[1] = Shown \/ (bnd.on /\ bnd.in = 0)

\* "what the screen shows follows the sound" (music_player.cpp:498): only a
\* boundary overwritten while it is pending, or a new play order while it is
\* another track's than the one decoded, parts them, and files never overwrite.
ScreenFollowsSound == (local => torn # "begin") /\ (torn = "no" => Agrees)

\* What that comment says of files, for streams too.
ShownIsHeard == Agrees

\* "a bad one can be skipped without cutting that off" (music_player.cpp:504): what
\* is decoded of a file plays to its last block, unless the user asks for another.
NothingCutOff ==
  [][Flush /\ local => Len(ring) < Block \/ end \in {"next", "prev", "seek", "jump"}]_vars

\* A video's stream is never cancelled for a music session that was left, and no
\* thread of that session is there to do it later.
VideoUntouched == video => ~cancel /\ pc = "gone"

\* The queue plays to its end unless somebody pauses it: no thread waits for a
\* sound that the other will not play.
QueueFinishes == []<>(~active \/ paused)

\* A command is taken up, paused or not, or the queue has ended.
CommandsTaken == (cmd # "none") ~> (cmd = "none" \/ ~active)
=============================================================================
