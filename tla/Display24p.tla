----------------------------- MODULE Display24p -----------------------------
(***************************************************************************)
(* video/display_24p.cpp: the television is switched to the film's own     *)
(* rate for one playback and back.  A wrong mode is a black screen, so the *)
(* files on disk decide what may be tried: the abort marker, the answers   *)
(* of the one-time check per television and mode, and the measured clock   *)
(* of each refresh bit.  The console may die, or be switched off, at any   *)
(* step: also between the truncation of a file and the write that fills it *)
(* again, which is one write, as no file is longer than a stdio buffer.    *)
(***************************************************************************)
EXTENDS Integers, Sequences

CONSTANTS
  TVs,          \* televisions, told apart by their fingerprint (s_tv_fp)
  Advertised,   \* the refresh bits each one advertises for 1080
  Shows,        \* the bits each one shows a picture at
  Clock,        \* the clock each bit of this console ticks at
  MaxSessions,  \* bound: playbacks
  MaxDeaths     \* bound: crashes, hangs, power cuts

A == "0x10"
B == "0x20"
R50 == "0x02"
Bits == {A, B, R50}
Clocks == {"23.976", "24", "50"}

ASSUME Display24pAssumption ==
  /\ Advertised \in [TVs -> SUBSET Bits] /\ Shows \in [TVs -> SUBSET Bits]
  /\ Clock \in [Bits -> Clocks] /\ Clock[R50] = "50"
  /\ MaxSessions \in Nat /\ MaxDeaths \in Nat

VARIABLES
  enable, pending,  \* jellyfin_24p.txt is not 0; jf_24p_pending.txt is there
  conf,             \* jf_24p_confirmed.txt: 1 seen, 0 not, -1 never asked
  map,              \* jf_24p_map.txt
  tv, mode,         \* the television, and its refresh: "orig" or a bit
  pc,               \* where the application is
  want, cand, i,    \* the film's clock, the candidate bits, the one in hand
  confirmed,        \* the answer found for this television and mode
  kept,             \* fps and vs: the answers conf_put is about to write
  left, deaths,     \* sessions left, deaths so far
  burnt,            \* history: died switched, and the user has not asked again
  rejected          \* history: the modes turned down, since the console last
                    \* died while the answers were written

files == <<enable, pending, conf, map>>
sess  == <<want, cand, i, confirmed, kept>>
env   == <<tv, left, deaths, burnt, rejected>>
vars  == <<enable, pending, conf, map, tv, mode, pc, want, cand, i, confirmed, kept,
           left, deaths, burnt, rejected>>

\* jf_24p_confirmed.txt with no line in it, or not there.
NoAnswers == [t \in TVs |-> [b \in Bits |-> -1]]

Init ==
  /\ enable = TRUE /\ pending = FALSE
  /\ conf = NoAnswers /\ kept = NoAnswers /\ map = [b \in Bits |-> "unknown"]
  /\ tv \in TVs /\ mode = "orig" /\ pc = "idle"
  /\ want = "24" /\ cand = <<>> /\ i = 0 /\ confirmed = -1
  /\ left = MaxSessions /\ deaths = 0 /\ burnt = FALSE /\ rejected = {}

Used == cand[i]
Goto(p) == pc' = p

-----------------------------------------------------------------------------
(* d24_boot_check, the user, and death *)

\* Faulty variant: the marker goes, and 24p stays on.
BootForgets ==
  /\ pc = "bootwrite"
  /\ pending' = FALSE
  /\ Goto("bootdone")
  /\ UNCHANGED <<enable, conf, map, mode, sess, env>>

\* The last run died switched: 24p is turned off.  Until its 0 is written, the
\* file is empty, which means on.
BootTruncates ==
  /\ pc = "boot" /\ pending
  /\ enable' = TRUE
  /\ Goto("bootwrite")
  /\ UNCHANGED <<pending, conf, map, mode, sess, env>>

BootTurnsOff ==
  /\ pc = "bootwrite"
  /\ enable' = FALSE
  /\ Goto("bootdone")
  /\ UNCHANGED <<pending, conf, map, mode, sess, env>>

BootEnds ==
  /\ pc = "bootdone" \/ (pc = "boot" /\ ~pending)
  /\ pending' = FALSE
  /\ Goto("idle")
  /\ UNCHANGED <<enable, conf, map, mode, sess, env>>

\* d24_set_enabled from the settings screen: dying between its truncation and
\* its write is dying before it, or after it, as an empty file means on.  And
\* another television is plugged in.
UserSets(on) ==
  /\ pc = "idle" /\ enable # on
  /\ enable' = on
  /\ burnt' = (burnt /\ ~on)
  /\ UNCHANGED <<pending, conf, map, tv, mode, pc, sess, left, deaths, rejected>>

OtherTV(t) ==
  /\ pc = "idle" /\ tv # t
  /\ tv' = t
  /\ UNCHANGED <<files, mode, pc, sess, left, deaths, burnt, rejected>>

\* The console dies and starts again, the output in the system's own mode.
Die ==
  /\ deaths < MaxDeaths
  /\ deaths' = deaths + 1
  /\ burnt' = (burnt \/ mode # "orig")
  /\ rejected' = IF pc = "write" THEN {} ELSE rejected
  /\ mode' = "orig"
  /\ Goto("boot")
  /\ UNCHANGED <<files, tv, sess, left>>

-----------------------------------------------------------------------------
(* d24_session_begin *)

\* A bit, if the television has it and its clock is known to be c (or unknown).
Bit(b, c) == IF b \in Advertised[tv] /\ map[b] = c THEN <<b>> ELSE <<>>

Known(c) == Bit(A, c) \o Bit(B, c)

\* Faulty variant: the unmeasured bits are tried first.
CandidatesUnknownFirst(c) ==
  IF c = "50" THEN IF R50 \in Advertised[tv] THEN <<R50>> ELSE <<>>
              ELSE Known("unknown") \o Known(c)

\* Candidate bits: known right first, known wrong never.
Candidates(c) ==
  IF c = "50" THEN IF R50 \in Advertised[tv] THEN <<R50>> ELSE <<>>
              ELSE Known(c) \o Known("unknown")

\* Faulty variant: one answer stands for every mode of a television.
AnswerPerTV(b) == conf[tv][A]

\* conf_get under conf_key: the answer for this television and bit.
Answer(b) == conf[tv][b]

\* Up to the baseline measurement, which finds the display head ticking.
Begin(c) ==
  /\ pc = "idle" /\ left > 0 /\ enable
  /\ conf[tv][A] # 0
  /\ Candidates(c) # <<>> /\ Answer(Candidates(c)[1]) # 0
  /\ want' = c /\ cand' = Candidates(c) /\ i' = 1
  /\ confirmed' = Answer(Candidates(c)[1])
  /\ left' = left - 1
  /\ Goto("mark")
  /\ UNCHANGED <<files, tv, mode, kept, deaths, burnt, rejected>>

\* The abort marker, before the mode changes.
Mark ==
  /\ pc = "mark"
  /\ pending' = TRUE
  /\ Goto("try")
  /\ UNCHANGED <<enable, conf, map, mode, sess, env>>

\* try_bit: configure2 takes the mode, or refuses it.
Configure ==
  /\ pc = "try"
  /\ \/ mode' = Used /\ Goto("measure")
     \/ mode' = mode /\ Goto("next")
  /\ UNCHANGED <<files, sess, env>>

\* No vblank within the deadline: out, now.
HeadStops ==
  /\ pc = "measure"
  /\ Goto("revert")
  /\ UNCHANGED <<files, mode, sess, env>>

\* The interrupt may first have to be told to follow the scan-out; then the
\* measured clock is the bit's own, and is remembered, or one without a name.
Measure ==
  /\ pc = "measure"
  /\ \/ /\ map' = [map EXCEPT ![Used] = IF Clock[Used] = "50" THEN @ ELSE Clock[Used]]
        /\ Goto(IF Clock[Used] = want THEN "verified" ELSE "next")
     \/ map' = map /\ Goto("next")
  /\ UNCHANGED <<enable, pending, conf, mode, sess, env>>

\* The next candidate, or none: back.
NextCandidate ==
  /\ pc = "next"
  /\ IF i < Len(cand) THEN i' = i + 1 /\ Goto("try") ELSE i' = i /\ Goto("revert")
  /\ UNCHANGED <<files, mode, want, cand, confirmed, kept, env>>

\* Measured at the content's clock: the answer for the bit in use, and a flip,
\* which may not land.
Verified ==
  /\ pc = "verified"
  /\ confirmed' = IF i = 1 THEN confirmed ELSE Answer(Used)
  /\ \/ Goto(IF confirmed' = 1 THEN "film" ELSE "ask")
     \/ Goto("revert")
  /\ UNCHANGED <<files, mode, want, cand, i, kept, env>>

\* The one-time check: X, only if there is something to read; O, or 15 seconds.
\* conf_put reads the answers there are and puts the new one with them, ...
Ask ==
  /\ pc = "ask"
  /\ \E answer \in 0..1 :
       /\ answer = 1 => Used \in Shows[tv]
       /\ kept' = [conf EXCEPT ![tv][Used] = answer]
  /\ Goto("answered")
  /\ UNCHANGED <<files, mode, want, cand, i, confirmed, env>>

\* ... empties the file, ...
Truncate ==
  /\ pc = "answered"
  /\ conf' = NoAnswers
  /\ rejected' = IF kept[tv][Used] = 0 THEN rejected \cup {<<tv, Used>>} ELSE rejected
  /\ Goto("write")
  /\ UNCHANGED <<enable, pending, map, mode, sess, tv, left, deaths, burnt>>

\* ... and writes them all.
Write ==
  /\ pc = "write"
  /\ conf' = kept
  /\ Goto(IF kept[tv][Used] = 1 THEN "film" ELSE "revert")
  /\ UNCHANGED <<enable, pending, map, mode, sess, env>>

-----------------------------------------------------------------------------
(* revert, from any failure and from d24_session_end *)

FilmEnds ==
  /\ pc = "film"
  /\ Goto("revert")
  /\ UNCHANGED <<files, mode, sess, env>>

\* Faulty variant: the marker goes first.
RevertUnmarks ==
  /\ pc = "revert"
  /\ pending' = FALSE
  /\ Goto("unmark")
  /\ UNCHANGED <<enable, conf, map, mode, sess, env>>

\* The mode the session started in.
Revert ==
  /\ pc = "revert"
  /\ mode' = "orig"
  /\ Goto("unmark")
  /\ UNCHANGED <<files, sess, env>>

Unmark ==
  /\ pc = "unmark"
  /\ pending' = FALSE
  /\ Goto("idle")
  /\ UNCHANGED <<enable, conf, map, mode, sess, env>>

Switching ==
  \/ Mark \/ Configure \/ HeadStops \/ Measure \/ NextCandidate \/ Verified
  \/ Ask \/ Truncate \/ Write \/ Revert \/ Unmark

Next ==
  \/ BootTruncates \/ BootTurnsOff \/ BootEnds \/ Switching \/ FilmEnds \/ Die
  \/ \E on \in BOOLEAN : UserSets(on)
  \/ \E t \in TVs : OtherTV(t)
  \/ \E c \in Clocks : Begin(c)

Spec == Init /\ [][Next]_vars

-----------------------------------------------------------------------------
(* Properties *)

\* Every variable has its type, and the bit in hand is one of the candidates.
TypeOK ==
  /\ enable \in BOOLEAN /\ pending \in BOOLEAN /\ burnt \in BOOLEAN
  /\ conf \in [TVs -> [Bits -> -1..1]] /\ kept \in [TVs -> [Bits -> -1..1]]
  /\ rejected \subseteq TVs \X Bits /\ map \in [Bits -> Clocks \cup {"unknown"}]
  /\ tv \in TVs /\ mode \in Bits \cup {"orig"} /\ want \in Clocks
  /\ cand \in Seq(Bits) /\ i \in 0..Len(cand) /\ confirmed \in -1..1
  /\ pc \in {"boot", "bootwrite", "bootdone", "idle", "mark", "try", "measure", "next",
             "verified", "ask", "answered", "write", "film", "revert", "unmark"}
  /\ left \in 0..MaxSessions /\ deaths \in 0..MaxDeaths

\* Rule 2 of the file: whenever the output is switched the marker is on disk,
\* so that dying at that moment is seen; and between playbacks the output is
\* the session's own (rule 4) and no marker is left to turn 24p off for nothing.
MarkerCoversMode ==
  /\ mode # "orig" => pending
  /\ pc = "idle" => mode = "orig" /\ ~pending

\* A console that died switched does not switch again, however often it dies on
\* the way, until the user turns 24p back on.
BurntStaysOff == burnt => mode = "orig"

\* Rule 3, and the one-time check: a film plays switched only at its own clock,
\* measured, and only in a mode this television was seen to show.
FilmIsSeen == pc = "film" => mode \in Shows[tv] /\ Clock[mode] = want

\* A mode the user saw nothing in is never entered again on that television,
\* whatever is asked, measured and played after it, unless the console died
\* while the answers were written: conf_put empties the file first, and they are
\* all gone.
RejectedStaysOff ==
  [][mode' \in Bits /\ mode' # mode => <<tv, mode'>> \notin rejected]_vars
=============================================================================
