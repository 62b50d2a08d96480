-------------------------- MODULE Display24p_proofs --------------------------
(***************************************************************************)
(* For every set of televisions, what they advertise and show, and any     *)
(* number of playbacks and deaths: the marker covers the switched output,  *)
(* a console that died switched stays out of it, a film plays switched     *)
(* only where it is seen, and a mode that was not seen is left alone,      *)
(* unless the console died while the answers were written.                 *)
(***************************************************************************)
EXTENDS Display24p, TLAPS

(* The places where the output may be switched.                              *)
Switched == {"try", "measure", "next", "verified", "ask", "answered", "write", "film",
             "revert"}

(* What MarkerCoversMode rests on: the marker is written before the first    *)
(* place and removed after the last; a session begins and a boot ends with   *)
(* neither marker nor mode.                                                  *)
Marked ==
  /\ pending \in BOOLEAN
  /\ mode # "orig" => pc \in Switched
  /\ pc \in Switched => pending
  /\ pc \in {"idle", "mark"} => ~pending

(* What BurntStaysOff rests on: after a death while switched the marker is   *)
(* still there until 24p is off, and with 24p off no session begins.         *)
Off ==
  /\ burnt \in BOOLEAN /\ enable \in BOOLEAN
  /\ burnt => pc \in {"boot", "bootwrite", "bootdone", "idle"}
  /\ pc = "bootwrite" => pending
  /\ burnt => (pc \in {"boot", "bootwrite"} /\ pending) \/ ~enable

(* The marker is there whenever the mode is not the session's own.            *)
LEMMA MarkedKept == Marked /\ [Next]_vars => Marked'
<1> SUFFICES ASSUME Marked, [Next]_vars PROVE Marked'
  OBVIOUS
<1> USE DEF Marked, Switched
<1>1. CASE BootTruncates \/ BootTurnsOff \/ BootEnds
  BY <1>1 DEF BootTruncates, BootTurnsOff, BootEnds, Goto
<1>2. CASE Mark
  BY <1>2 DEF Mark, Goto
<1>3. CASE Configure
  BY <1>3 DEF Configure, Goto, files
<1>4. CASE HeadStops \/ Measure
  BY <1>4 DEF HeadStops, Measure, Goto, files
<1>5. CASE NextCandidate \/ Verified \/ Ask \/ Truncate \/ Write
  BY <1>5 DEF NextCandidate, Verified, Ask, Truncate, Write, Goto, files
<1>6. CASE FilmEnds \/ Revert
  BY <1>6 DEF FilmEnds, Revert, Goto, files
<1>7. CASE Unmark
  BY <1>7 DEF Unmark, Goto
<1>8. CASE Die
  BY <1>8 DEF Die, Goto, files
<1>9. ASSUME NEW on \in BOOLEAN, UserSets(on) PROVE Marked'
  BY <1>9 DEF UserSets
<1>10. ASSUME NEW t \in TVs, OtherTV(t) PROVE Marked'
  BY <1>10 DEF OtherTV, files
<1>11. ASSUME NEW c \in Clocks, Begin(c) PROVE Marked'
  BY <1>11 DEF Begin, Goto, files
<1>12. CASE UNCHANGED vars
  BY <1>12 DEF vars
<1> QED
  BY <1>1, <1>2, <1>3, <1>4, <1>5, <1>6, <1>7, <1>8, <1>9, <1>10, <1>11, <1>12
     DEF Next, Switching

(* Once a console died switched, 24p goes off before anything else and a      *)
(* second death on the way finds the marker, or 24p, as the first left it.    *)
LEMMA OffKept == Marked /\ Off /\ [Next]_vars => Off'
<1> SUFFICES ASSUME Marked, Off, [Next]_vars PROVE Off'
  OBVIOUS
<1> USE DEF Off
<1>0. CASE BootTruncates
  BY <1>0 DEF BootTruncates, Goto, env
<1>1. CASE BootTurnsOff \/ BootEnds
  <2>1. burnt' = burnt /\ pc' \in {"bootdone", "idle"}
    BY <1>1 DEF BootTurnsOff, BootEnds, Goto, env
  <2>2. CASE BootTurnsOff
    BY <2>1, <2>2 DEF BootTurnsOff
  <2>3. CASE BootEnds
    <3>1. burnt => ~enable
      BY <2>3 DEF BootEnds
    <3>2. enable' = enable
      BY <2>3 DEF BootEnds
    <3> QED
      BY <2>1, <3>1, <3>2
  <2> QED
    BY <1>1, <2>2, <2>3
<1>2. CASE Switching
  <2> USE <1>2 DEF Switching, Mark, Configure, HeadStops, Measure, NextCandidate,
                   Verified, Ask, Truncate, Write, Revert, Unmark
  <2>1. pc \notin {"boot", "bootwrite", "bootdone", "idle"} /\ pc' # "bootwrite"
    BY DEF Goto
  <2>2. burnt' = burnt
    BY DEF env
  <2>3. enable' = enable
    BY DEF files
  <2> QED
    BY <2>1, <2>2, <2>3
<1>3. CASE FilmEnds
  BY <1>3 DEF FilmEnds, Goto, files, env
<1>4. CASE Die
  <2>1. burnt' \in BOOLEAN /\ enable' = enable /\ pc' = "boot" /\ pending' = pending
    BY <1>4 DEF Die, Goto, files
  <2>2. burnt' => pending' \/ ~enable'
    BY <1>4, <2>1 DEF Die, Marked
  <2> QED
    BY <2>1, <2>2
<1>5. ASSUME NEW on \in BOOLEAN, UserSets(on) PROVE Off'
  BY <1>5 DEF UserSets
<1>6. ASSUME NEW t \in TVs, OtherTV(t) PROVE Off'
  BY <1>6 DEF OtherTV, files
<1>7. ASSUME NEW c \in Clocks, Begin(c) PROVE Off'
  BY <1>7 DEF Begin, Goto, files
<1>8. CASE UNCHANGED vars
  BY <1>8 DEF vars
<1> QED
  BY <1>0, <1>1, <1>2, <1>3, <1>4, <1>5, <1>6, <1>7, <1>8 DEF Next

(* MarkerCoversMode in every behaviour: rules 2 and 4 of display_24p.cpp, the  *)
(* marker on the disk before the mode changes and until it is back.            *)
THEOREM MarkerCoversModeAlways == Spec => []MarkerCoversMode
<1>1. Init => Marked
  BY DEF Init, Marked, Switched
<1>2. Marked => MarkerCoversMode
  BY DEF Marked, MarkerCoversMode, Switched
<1> QED
  BY <1>1, MarkedKept, <1>2, PTL DEF Spec

(* BurntStaysOff in every behaviour: d24_boot_check turns 24p off before it     *)
(* removes the marker, so no number of deaths brings a black screen back.       *)
THEOREM BurntStaysOffAlways == Spec => []BurntStaysOff
<1>1. Init => Marked /\ Off
  BY DEF Init, Marked, Off, Switched
<1>2. Marked /\ Off => BurntStaysOff
  BY DEF Marked, Off, BurntStaysOff, Switched
<1> QED
  BY <1>1, MarkedKept, OffKept, <1>2, PTL DEF Spec

-----------------------------------------------------------------------------
(* What was asked, and what may be tried *)

(* A session, from the marker to the end of the film; the part of it in which *)
(* the candidates are gone through, and the part in which the answer is saved. *)
Trying  == {"mark", "try", "measure", "next", "verified"}
Saving  == {"answered", "write"}
Session == Trying \cup {"ask", "film"} \cup Saving

(* The files and the candidates have their types.                             *)
Typed ==
  /\ conf \in [TVs -> [Bits -> -1..1]] /\ map \in [Bits -> Clocks \cup {"unknown"}]
  /\ tv \in TVs /\ want \in Clocks /\ cand \in Seq(Bits) /\ i \in Nat
  /\ pc \in Session => i \in 1..Len(cand)

(* What FilmIsSeen rests on: the answers on disk are true, the answer in hand  *)
(* is the one on disk for the first candidate, and from the measurement on the *)
(* mode is the candidate in hand, at the film's clock.                         *)
Seen ==
  /\ \A t \in TVs, b \in Bits : conf[t][b] = 1 => b \in Shows[t]
  /\ pc \in Trying /\ i = 1 => confirmed = conf[tv][cand[1]]
  /\ pc \in {"measure", "verified", "ask", "film"} \cup Saving => mode = Used
  /\ pc \in {"verified", "ask", "film"} \cup Saving => Clock[Used] = want
  /\ pc = "film" => conf[tv][Used] = 1

(* "Which of 0x10/0x20 is 23.976 is learned, not assumed" (display_24p.cpp:393): *)
(* one of the two is, so that they do not tick alike.                            *)
ClocksDiffer == Clock[A] # Clock[B]

(* What RejectedStaysOff rests on: nobody is asked about a 24 Hz bit before    *)
(* its clock is measured and remembered, and no candidate was turned down.     *)
Learned ==
  /\ \A b \in Bits : map[b] \in {"unknown", Clock[b]}
  /\ \A t \in TVs : \A b \in {A, B} : conf[t][b] = 0 => map[b] = Clock[b]
  /\ pc \in Session /\ want = "50" => \A k \in 1..Len(cand) : cand[k] = R50
  /\ pc \in {"verified", "ask"} /\ Used \in {A, B} => map[Used] = Clock[Used]
  /\ ClocksDiffer /\ pc \in Trying \cup {"ask", "answered"} =>
       \A k \in 1..Len(cand) : conf[tv][cand[k]] # 0

(* What conf_put is about to write is as true as what it read, and holds every *)
(* answer but the one just given; a mode turned down has its answer in the     *)
(* file, or in the answers that are being written.                             *)
Keeping ==
  /\ kept \in [TVs -> [Bits -> -1..1]]
  /\ pc \in Saving =>
       /\ \A t \in TVs, b \in Bits : kept[t][b] = 1 => b \in Shows[t]
       /\ \A t \in TVs : \A b \in {A, B} : kept[t][b] = 0 => map[b] = Clock[b]
  /\ pc = "answered" =>
       \A t \in TVs, b \in Bits : kept[t][b] = conf[t][b] \/ (t = tv /\ b = Used)
  /\ ClocksDiffer => \A t \in TVs, b \in Bits :
       <<t, b>> \in rejected => IF pc = "write" THEN kept[t][b] = 0 ELSE conf[t][b] = 0

(* Bits known to tick at x, and only such, are in Known(x).                    *)
LEMMA KnownBits ==
  ASSUME NEW x
  PROVE  /\ Known(x) \in Seq({A, B})
         /\ \A k \in 1..Len(Known(x)) : map[Known(x)[k]] = x
<1> DEFINE P(s) == s \in Seq({A, B}) /\ \A k \in 1..Len(s) : map[s[k]] = x
<1>1. ASSUME NEW b \in {A, B} PROVE P(Bit(b, x))
  <2>1. Bit(b, x) = <<>> \/ (Bit(b, x) = <<b>> /\ map[b] = x)
    BY DEF Bit
  <2>2. CASE Bit(b, x) = <<>>
    BY <2>2
  <2>3. CASE Bit(b, x) = <<b>> /\ map[b] = x
    BY <2>3
  <2> QED
    BY <2>1, <2>2, <2>3
<1>2. ASSUME NEW s, NEW t, P(s), P(t) PROVE P(s \o t)
  <2>1. s \o t \in Seq({A, B}) /\ Len(s \o t) = Len(s) + Len(t)
    BY <1>2
  <2>2. ASSUME NEW k \in 1..Len(s \o t) PROVE map[(s \o t)[k]] = x
    <3>1. CASE k <= Len(s)
      <4>1. (s \o t)[k] = s[k] /\ k \in 1..Len(s)
        BY <1>2, <3>1
      <4> QED
        BY <1>2, <4>1
    <3>2. CASE k > Len(s)
      <4>1. (s \o t)[k] = t[k - Len(s)] /\ k - Len(s) \in 1..Len(t)
        BY <1>2, <2>1, <3>2
      <4> QED
        BY <1>2, <4>1
    <3> QED
      BY <1>2, <3>1, <3>2
  <2> QED
    BY <2>1, <2>2
<1>3. P(Bit(A, x) \o Bit(B, x))
  <2> HIDE DEF P
  <2> QED
    BY <1>1, <1>2
<1> QED
  BY <1>3 DEF Known

(* The candidates are bits that tick at c or were never measured, and if any   *)
(* is known to tick at c the first one is.                                     *)
LEMMA CandidateBits ==
  ASSUME NEW c \in Clocks
  PROVE  /\ Candidates(c) \in Seq(Bits)
         /\ c = "50" => \A k \in 1..Len(Candidates(c)) : Candidates(c)[k] = R50
         /\ c # "50" => \A k \in 1..Len(Candidates(c)) :
                          /\ Candidates(c)[k] \in {A, B}
                          /\ map[Candidates(c)[k]] \in {c, "unknown"}
                          /\ map[Candidates(c)[k]] = c => map[Candidates(c)[1]] = c
<1>0. A \in Bits /\ B \in Bits /\ R50 \in Bits /\ c # "unknown"
  BY DEF Bits, Clocks
<1>2. CASE c = "50"
  <2>1. Candidates(c) = <<>> \/ Candidates(c) = <<R50>>
    BY <1>2 DEF Candidates
  <2>2. CASE Candidates(c) = <<>>
    <3>1. Candidates(c) \in Seq(Bits) /\ Len(Candidates(c)) = 0
      BY <2>2
    <3> QED
      BY <1>2, <3>1
  <2>3. CASE Candidates(c) = <<R50>>
    <3>1. Candidates(c) \in Seq(Bits) /\ Len(Candidates(c)) = 1
      BY <1>0, <2>3
    <3> QED
      BY <1>2, <2>3, <3>1
  <2> QED
    BY <2>1, <2>2, <2>3
<1>3. CASE c # "50"
  <2> DEFINE s == Known(c)
             t == Known("unknown")
  <2>1. Candidates(c) = s \o t
    BY <1>3 DEF Candidates
  <2>2. s \in Seq({A, B}) /\ \A k \in 1..Len(s) : map[s[k]] = c
    BY KnownBits
  <2>3. t \in Seq({A, B}) /\ \A k \in 1..Len(t) : map[t[k]] = "unknown"
    BY KnownBits
  <2> HIDE DEF s, t
  <2>4. s \o t \in Seq({A, B}) /\ Len(s \o t) = Len(s) + Len(t)
    BY <2>2, <2>3
  <2>5. ASSUME NEW k \in 1..Len(s \o t)
        PROVE  /\ map[(s \o t)[k]] \in {c, "unknown"}
               /\ map[(s \o t)[k]] = c => map[(s \o t)[1]] = c
    <3>1. CASE k <= Len(s)
      <4>1. (s \o t)[k] = s[k] /\ (s \o t)[1] = s[1] /\ k \in 1..Len(s) /\ 1 \in 1..Len(s)
        BY <2>2, <2>3, <3>1
      <4> QED
        BY <2>2, <4>1
    <3>2. CASE k > Len(s)
      <4>1. (s \o t)[k] = t[k - Len(s)] /\ k - Len(s) \in 1..Len(t)
        BY <2>2, <2>3, <2>4, <3>2
      <4> QED
        BY <1>0, <2>3, <4>1
    <3> QED
      BY <2>2, <3>1, <3>2
  <2>6. s \o t \in Seq(Bits)
    BY <1>0, <2>4
  <2>7. \A k \in 1..Len(s \o t) : (s \o t)[k] \in {A, B}
    BY <2>4
  <2> QED
    BY <1>3, <2>1, <2>5, <2>6, <2>7
<1> QED
  BY <1>2, <1>3

Played == Typed /\ Seen /\ Learned
Asked  == Played /\ Keeping

(* A session begins: no candidate was turned down, as a bit that was is        *)
(* measured, and one measured right behind the first would be the first.       *)
LEMMA BeginAsks ==
  ASSUME Played, NEW c \in Clocks, Begin(c)
  PROVE  Played'
<1> USE Display24pAssumption DEF Played
<1> DEFINE new == Candidates(c)
<1>1. /\ new \in Seq(Bits)
      /\ c = "50" => \A k \in 1..Len(new) : new[k] = R50
      /\ c # "50" => \A k \in 1..Len(new) :
                       /\ new[k] \in {A, B}
                       /\ map[new[k]] \in {c, "unknown"}
                       /\ map[new[k]] = c => map[new[1]] = c
  BY CandidateBits
<1>2. /\ pc' = "mark" /\ want' = c /\ cand' = new /\ i' = 1 /\ conf' = conf /\ map' = map
      /\ tv' = tv /\ mode' = mode /\ confirmed' = conf[tv][new[1]]
      /\ conf[tv][new[1]] # 0 /\ new # <<>>
  BY DEF Begin, Goto, files, Answer
<1> HIDE DEF new
<1>3. 1 \in 1..Len(new) /\ Len(new) \in Nat
  BY <1>1, <1>2
<1>4. Typed'
  BY <1>1, <1>2, <1>3 DEF Typed, Session, Trying, Saving
<1>5. Seen'
  BY <1>2 DEF Seen, Trying, Saving
<1>6. ASSUME ClocksDiffer, NEW k \in 1..Len(new) PROVE conf[tv][new[k]] # 0
  <2>1. CASE c = "50"
    BY <1>1, <1>2, <1>3, <2>1
  <2>2. CASE c # "50"
    <3>1. new[k] \in {A, B} /\ map[new[k]] \in {c, "unknown"} /\ new[1] \in {A, B}
      BY <1>1, <1>3, <2>2
    <3>2. map[new[k]] = c => map[new[1]] = c
      BY <1>1, <2>2
    <3>3. A \in Bits /\ B \in Bits /\ c # "unknown" /\ \A b \in Bits : Clock[b] # "unknown"
      BY DEF Bits, Clocks
    <3>4. ASSUME conf[tv][new[k]] = 0 PROVE FALSE
      <4>1. map[new[k]] = Clock[new[k]]
        BY <3>1, <3>4 DEF Learned, Typed
      <4>2. map[new[k]] = c
        BY <3>1, <3>3, <4>1
      <4>3. Clock[new[1]] = c
        BY <3>1, <3>2, <3>3, <4>2 DEF Learned
      <4>4. new[1] = new[k]
        BY <1>6, <3>1, <4>1, <4>2, <4>3 DEF ClocksDiffer
      <4> QED
        BY <1>2, <3>4, <4>4
    <3> QED
      BY <3>4
  <2> QED
    BY <2>1, <2>2
<1>7. Learned'
  <2>1. ClocksDiffer => \A k \in 1..Len(cand') : conf'[tv'][cand'[k]] # 0
    BY <1>2, <1>6
  <2>2. want' = "50" => \A k \in 1..Len(cand') : cand'[k] = R50
    BY <1>1, <1>2
  <2> QED
    BY <1>2, <2>1, <2>2 DEF Learned
<1> QED
  BY <1>4, <1>5, <1>7

(* The measured clock is the bit's own, and at the film's clock it is          *)
(* remembered; one without a name is not, and leads to the next candidate.     *)
LEMMA MeasureAsks ==
  ASSUME Played, Measure
  PROVE  Played'
<1> USE Display24pAssumption DEF Played
<1>1. /\ pc = "measure" /\ UNCHANGED <<conf, mode, want, cand, i, confirmed, tv>>
      /\ \/ /\ map' = [map EXCEPT ![Used] = IF Clock[Used] = "50" THEN @ ELSE Clock[Used]]
            /\ pc' = IF Clock[Used] = want THEN "verified" ELSE "next"
         \/ map' = map /\ pc' = "next"
  BY DEF Measure, Goto, sess, env
<1>2. Used \in Bits /\ i \in 1..Len(cand)
  BY <1>1 DEF Typed, Session, Trying, Saving, Used
<1>3. \A b \in Bits : map'[b] = map[b] \/ (map'[b] = Clock[b] /\ b = Used)
  BY <1>1 DEF Typed
<1>4. Typed'
  BY <1>1, <1>2 DEF Typed, Session, Trying, Saving
<1>5. Seen'
  BY <1>1 DEF Seen, Trying, Saving, Used
<1>6. Learned'
  <2>1. \A b \in Bits : map'[b] \in {"unknown", Clock[b]}
    BY <1>3 DEF Learned
  <2>2. \A t \in TVs : \A b \in {A, B} : conf'[t][b] = 0 => map'[b] = Clock[b]
    BY <1>1, <1>3 DEF Learned, Bits
  <2>3. pc' = "verified" /\ Used \in {A, B} => map'[Used] = Clock[Used]
    <3>1. ASSUME pc' = "verified", Used \in {A, B} PROVE map'[Used] = Clock[Used]
      <4>1. Clock[Used] = want
        BY <1>1, <3>1
      <4>2. want # "50"
        BY <1>1, <1>2, <3>1 DEF Learned, Session, Trying, Saving, Used, A, B, R50
      <4>3. map' = [map EXCEPT ![Used] = Clock[Used]]
        BY <1>1, <3>1, <4>1, <4>2
      <4> QED
        BY <1>2, <4>3 DEF Typed
    <3> QED
      BY <3>1
  <2>4. Used' = Used
    BY <1>1 DEF Used
  <2>5. pc' \in Session /\ want' = "50" => \A k \in 1..Len(cand') : cand'[k] = R50
    BY <1>1 DEF Learned, Session, Trying, Saving
  <2>6. ClocksDiffer => \A k \in 1..Len(cand') : conf'[tv'][cand'[k]] # 0
    BY <1>1 DEF Learned, Trying, Saving
  <2>7. pc' \in {"verified", "ask"} /\ Used' \in {A, B} => map'[Used'] = Clock[Used']
    BY <1>1, <2>3, <2>4
  <2> QED
    BY <2>1, <2>2, <2>5, <2>6, <2>7 DEF Learned
<1> QED
  BY <1>4, <1>5, <1>6

(* The answer to the one-time check is written from an empty file, and what is *)
(* written is true.                                                            *)
LEMMA SavingAsks ==
  ASSUME Asked, Ask \/ Truncate \/ Write
  PROVE  Played'
<1> USE Display24pAssumption DEF Asked, Played
<1>1. UNCHANGED <<map, mode, want, cand, i, confirmed, tv>>
  BY DEF Ask, Truncate, Write, files, sess, env
<1>2. Used' = Used
  BY <1>1 DEF Used
<1>3. CASE Ask
  <2>1. pc = "ask" /\ pc' = "answered" /\ conf' = conf
    BY <1>3 DEF Ask, Goto, files
  <2> QED
    BY <1>1, <1>2, <2>1 DEF Typed, Seen, Learned, Session, Trying, Saving
<1>4. CASE Truncate
  <2>1. pc = "answered" /\ pc' = "write" /\ conf' = NoAnswers
    BY <1>4 DEF Truncate, Goto
  <2>2. conf' \in [TVs -> [Bits -> -1..1]] /\ \A t \in TVs, b \in Bits : conf'[t][b] = -1
    BY <2>1 DEF NoAnswers
  <2>3. Typed'
    BY <1>1, <2>1, <2>2 DEF Typed, Session, Saving
  <2>4. Seen'
    BY <1>1, <1>2, <2>1, <2>2 DEF Seen, Trying, Saving
  <2>5. Learned'
    <3>1. \A t \in TVs, b \in {A, B} : conf'[t][b] # 0
      BY <2>2 DEF Bits
    <3> QED
      BY <1>1, <2>1, <3>1 DEF Learned, Session, Trying, Saving
  <2> QED
    BY <2>3, <2>4, <2>5
<1>5. CASE Write
  <2>1. /\ pc = "write" /\ conf' = kept
        /\ pc' \in {"film", "revert"} /\ (pc' = "film" => kept[tv][Used] = 1)
    BY <1>5 DEF Write, Goto
  <2>2. Typed'
    BY <1>1, <2>1 DEF Typed, Session, Saving, Keeping
  <2>3. Seen'
    BY <1>1, <1>2, <2>1 DEF Seen, Trying, Saving, Keeping
  <2>4. Learned'
    BY <1>1, <2>1 DEF Learned, Session, Trying, Saving, Keeping
  <2> QED
    BY <2>2, <2>3, <2>4
<1> QED
  BY <1>3, <1>4, <1>5

(* The answers conf_put holds, and the modes turned down.                      *)
LEMMA KeepingKept == Asked /\ [Next]_vars => Keeping'
<1> SUFFICES ASSUME Asked, [Next]_vars PROVE Keeping'
  OBVIOUS
<1> USE DEF Asked, Played
<1>1. ASSUME UNCHANGED <<conf, kept, rejected>>, pc # "write", pc' \notin Saving
      PROVE  Keeping'
  BY <1>1 DEF Keeping, Saving
<1>2. CASE BootTruncates \/ BootTurnsOff \/ BootEnds
  BY <1>1, <1>2 DEF BootTruncates, BootTurnsOff, BootEnds, Goto, sess, env, Saving
<1>3. CASE HeadStops \/ FilmEnds \/ Revert \/ Unmark
  BY <1>1, <1>3 DEF HeadStops, FilmEnds, Revert, Unmark, Goto, files, sess, env, Saving
<1>4. CASE Mark \/ Configure \/ Measure \/ NextCandidate \/ Verified
  BY <1>1, <1>4 DEF Mark, Configure, Measure, NextCandidate, Verified, Goto, files, sess,
                    env, Saving
<1>5. CASE Ask
  <2>1. PICK a \in 0..1 : /\ kept' = [conf EXCEPT ![tv][Used] = a]
                          /\ a = 1 => Used \in Shows[tv]
    BY <1>5 DEF Ask
  <2>2. /\ pc = "ask" /\ pc' = "answered"
        /\ UNCHANGED <<conf, map, tv, rejected, cand, i>>
    BY <1>5 DEF Ask, Goto, files, env
  <2>3. Used \in Bits /\ tv \in TVs /\ Used' = Used
    BY <2>2 DEF Typed, Session, Used
  <2>4. kept' \in [TVs -> [Bits -> -1..1]]
    BY <2>1, <2>3 DEF Typed
  <2>5. \A t \in TVs, b \in Bits : \/ kept'[t][b] = conf[t][b]
                                   \/ t = tv /\ b = Used /\ kept'[t][b] = a
    BY <2>1, <2>3 DEF Typed
  <2>6. \A t \in TVs, b \in Bits : kept'[t][b] = 1 => b \in Shows[t]
    BY <2>1, <2>5 DEF Seen
  <2>7. ASSUME NEW t \in TVs, NEW b \in {A, B}, kept'[t][b] = 0 PROVE map[b] = Clock[b]
    <3>1. b \in Bits
      BY DEF Bits
    <3>2. conf[t][b] = 0 \/ b = Used
      BY <2>5, <2>7, <3>1
    <3> QED
      BY <2>2, <3>2 DEF Learned
  <2> QED
    BY <2>2, <2>3, <2>4, <2>5, <2>6, <2>7 DEF Keeping, Saving
<1>6. CASE Truncate
  <2>1. /\ pc = "answered" /\ pc' = "write" /\ UNCHANGED <<kept, map, tv, cand, i>>
        /\ rejected' \subseteq rejected \cup
             IF kept[tv][Used] = 0 THEN {<<tv, Used>>} ELSE {}
    BY <1>6 DEF Truncate, Goto, sess
  <2>2. i \in 1..Len(cand) /\ Used \in Bits
    BY <2>1 DEF Typed, Session, Saving, Used
  <2>3. ASSUME ClocksDiffer, NEW t \in TVs, NEW b \in Bits, <<t, b>> \in rejected'
        PROVE  kept[t][b] = 0
    <3>1. CASE <<t, b>> \in rejected
      <4>1. conf[t][b] = 0
        BY <2>1, <2>3, <3>1 DEF Keeping
      <4>2. ~(t = tv /\ b = Used)
        BY <2>1, <2>2, <2>3, <4>1 DEF Learned, Used
      <4> QED
        BY <2>1, <4>1, <4>2 DEF Keeping
    <3>2. CASE <<t, b>> = <<tv, Used>> /\ kept[tv][Used] = 0
      BY <3>2
    <3> QED
      BY <2>1, <2>3, <3>1, <3>2
  <2> QED
    BY <2>1, <2>3 DEF Keeping, Saving
<1>7. CASE Write
  <2>1. /\ pc = "write" /\ conf' = kept /\ UNCHANGED <<kept, rejected>>
        /\ pc' \notin Saving
    BY <1>7 DEF Write, Goto, sess, env, Saving
  <2>2. ASSUME ClocksDiffer, NEW t \in TVs, NEW b \in Bits, <<t, b>> \in rejected
        PROVE  kept[t][b] = 0
    BY <2>1, <2>2 DEF Keeping
  <2> QED
    BY <2>1, <2>2 DEF Keeping, Saving
<1>8. CASE Die
  <2>1. /\ UNCHANGED <<conf, kept>> /\ pc' = "boot"
        /\ rejected' = IF pc = "write" THEN {} ELSE rejected
    BY <1>8 DEF Die, Goto, files, sess
  <2> QED
    BY <2>1 DEF Keeping, Saving
<1>9. ASSUME NEW on \in BOOLEAN, UserSets(on) PROVE Keeping'
  BY <1>1, <1>9 DEF UserSets, sess, Saving
<1>10. ASSUME NEW t \in TVs, OtherTV(t) PROVE Keeping'
  BY <1>1, <1>10 DEF OtherTV, files, sess, Saving
<1>11. ASSUME NEW c \in Clocks, Begin(c) PROVE Keeping'
  BY <1>1, <1>11 DEF Begin, Goto, files, Saving
<1>12. CASE UNCHANGED vars
  BY <1>12 DEF vars, Keeping, Used
<1> QED
  BY <1>2, <1>3, <1>4, <1>5, <1>6, <1>7, <1>8, <1>9, <1>10, <1>11, <1>12
     DEF Next, Switching

(* The steps that write no answer.                                             *)
LEMMA PlayedKept == Asked /\ [Next]_vars => Played'
<1> SUFFICES ASSUME Asked, [Next]_vars PROVE Played'
  OBVIOUS
<1> USE DEF Asked, Played
<1>1. ASSUME UNCHANGED <<conf, map, tv, want, cand, i, confirmed>>, pc' \notin Session
      PROVE  Played'
  BY <1>1 DEF Typed, Seen, Learned, Session, Trying, Saving
<1>2. CASE BootTruncates \/ BootTurnsOff \/ BootEnds
  BY <1>1, <1>2 DEF BootTruncates, BootTurnsOff, BootEnds, Goto, sess, env, Session, Trying, Saving
<1>3. CASE HeadStops \/ FilmEnds
  BY <1>1, <1>3 DEF HeadStops, FilmEnds, Goto, files, sess, env, Session, Trying, Saving
<1>4. CASE Revert \/ Unmark
  BY <1>1, <1>4 DEF Revert, Unmark, Goto, files, sess, env, Session, Trying, Saving
<1>5. CASE Die
  BY <1>1, <1>5 DEF Die, Goto, files, sess, Session, Trying, Saving
<1>6. ASSUME NEW on \in BOOLEAN, UserSets(on) PROVE Played'
  BY <1>1, <1>6 DEF UserSets, sess, Session, Trying, Saving
<1>7. ASSUME NEW t \in TVs, OtherTV(t) PROVE Played'
  BY <1>7 DEF OtherTV, files, sess, Session, Trying, Saving, Typed, Seen, Learned
<1>8. CASE Mark
  BY <1>8 DEF Mark, Goto, sess, env, Session, Trying, Saving, Typed, Seen, Learned, Used
<1>9. CASE Configure
  <2>1. UNCHANGED <<conf, map, tv, want, cand, i, confirmed>> /\ pc = "try"
    BY <1>9 DEF Configure, files, sess, env
  <2>2. (pc' = "measure" /\ mode' = Used) \/ pc' = "next"
    BY <1>9 DEF Configure, Goto
  <2> QED
    BY <2>1, <2>2 DEF Session, Trying, Saving, Typed, Seen, Learned, Used
<1>10. CASE NextCandidate
  <2>1. UNCHANGED <<conf, map, tv, mode, want, cand, confirmed>> /\ pc = "next"
    BY <1>10 DEF NextCandidate, files, env
  <2>2. CASE i < Len(cand)
    <3>1. i' = i + 1 /\ pc' = "try" /\ i \in Nat /\ i \in 1..Len(cand) /\ Len(cand) \in Nat
      BY <1>10, <2>1, <2>2 DEF NextCandidate, Goto, Typed, Session, Trying, Saving
    <3>2. i' \in Nat /\ i' \in 1..Len(cand) /\ i' # 1
      BY <2>2, <3>1
    <3>3. Typed'
      BY <2>1, <3>2 DEF Typed
    <3>4. Seen'
      BY <2>1, <3>1, <3>2 DEF Seen, Trying, Saving
    <3>5. Learned'
      BY <2>1, <3>1 DEF Learned, Session, Trying, Saving
    <3> QED
      BY <3>3, <3>4, <3>5
  <2>3. CASE ~(i < Len(cand))
    BY <1>1, <1>10, <2>1, <2>3 DEF NextCandidate, Goto, Session, Trying, Saving
  <2> QED
    BY <2>2, <2>3
<1>11. CASE Verified
  <2>1. UNCHANGED <<conf, map, tv, mode, want, cand, i>> /\ pc = "verified" /\ Used' = Used
    BY <1>11 DEF Verified, files, env, Used
  <2>2. confirmed' = conf[tv][Used]
    BY <1>11, <2>1 DEF Verified, Seen, Trying, Answer, Used
  <2>3. pc' \in {"film", "ask", "revert"} /\ (pc' = "film" => confirmed' = 1)
    BY <1>11 DEF Verified, Goto
  <2>4. Typed'
    BY <2>1, <2>3 DEF Typed, Session, Trying, Saving
  <2>5. Seen'
    BY <2>1, <2>2, <2>3 DEF Seen, Trying
  <2>6. Learned'
    BY <2>1, <2>3 DEF Learned, Session, Trying, Saving
  <2> QED
    BY <2>4, <2>5, <2>6
<1>12. CASE UNCHANGED vars
  BY <1>12 DEF vars, Session, Trying, Saving, Typed, Seen, Learned, Used
<1> QED
  BY <1>2, <1>3, <1>4, <1>5, <1>6, <1>7, <1>8, <1>9, <1>10, <1>11, <1>12,
     BeginAsks, MeasureAsks, SavingAsks DEF Next, Switching

LEMMA AskedKept == Asked /\ [Next]_vars => Asked'
  BY PlayedKept, KeepingKept DEF Asked

LEMMA AskedInit == Init => Asked
<1> SUFFICES ASSUME Init PROVE Asked
  OBVIOUS
<1>1. cand = <<>> /\ <<>> \in Seq(Bits) /\ i = 0 /\ want \in Clocks /\ tv \in TVs
  BY DEF Init, Clocks
<1>2. /\ conf \in [TVs -> [Bits -> -1..1]] /\ \A t \in TVs, b \in Bits : conf[t][b] = -1
      /\ map \in [Bits -> Clocks \cup {"unknown"}] /\ \A b \in Bits : map[b] = "unknown"
      /\ pc = "idle" /\ kept = conf /\ rejected = {}
  BY DEF Init, NoAnswers
<1>3. A \in Bits /\ B \in Bits
  BY DEF Bits
<1> QED
  BY <1>1, <1>2, <1>3 DEF Asked, Played, Typed, Seen, Learned, Keeping, Session, Trying,
                          Saving

(* FilmIsSeen in every behaviour: the one-time check of display_24p.cpp and     *)
(* the measurement stand between any mode and a film played in it.              *)
THEOREM FilmIsSeenAlways == Spec => []FilmIsSeen
<1>1. Asked => FilmIsSeen
  BY DEF Asked, Played, Typed, Seen, FilmIsSeen, Session, Used
<1> QED
  BY AskedInit, AskedKept, <1>1, PTL DEF Spec

(* RejectedStaysOff in every behaviour: the answers are kept per television and *)
(* mode (conf_key), conf_put writes those it read back with the new one, and    *)
(* the modes behind the first candidate were never turned down.  A console that *)
(* dies between the truncation and that write has lost them all.                *)
THEOREM RejectedStaysOffAlways == ASSUME ClocksDiffer PROVE Spec => RejectedStaysOff
<1>1. Asked /\ [Next]_vars => [mode' \in Bits /\ mode' # mode => <<tv, mode'>> \notin rejected]_vars
  <2> SUFFICES ASSUME Asked, [Next]_vars, mode' \in Bits, mode' # mode
               PROVE  <<tv, mode'>> \notin rejected
    OBVIOUS
  <2>1. "orig" \notin Bits
    BY DEF Bits, A, B, R50
  <2>2. Configure
    <3>1. \A on \in BOOLEAN : ~UserSets(on)
      BY DEF UserSets
    <3>2. \A t \in TVs : ~OtherTV(t)
      BY DEF OtherTV
    <3>3. \A c \in Clocks : ~Begin(c)
      BY DEF Begin
    <3>4. ~(BootTruncates \/ BootTurnsOff \/ BootEnds \/ FilmEnds \/ Mark \/ HeadStops \/ Measure)
      BY DEF BootTruncates, BootTurnsOff, BootEnds, FilmEnds, Mark, HeadStops, Measure
    <3>5. ~(Die \/ NextCandidate \/ Verified \/ Ask \/ Truncate \/ Write \/ Revert \/ Unmark)
      BY <2>1 DEF Die, NextCandidate, Verified, Ask, Truncate, Write, Revert, Unmark
    <3>6. ~UNCHANGED vars
      BY DEF vars
    <3> QED
      BY <3>1, <3>2, <3>3, <3>4, <3>5, <3>6 DEF Next, Switching
  <2>3. pc = "try" /\ mode' = Used
    BY <2>2 DEF Configure
  <2>4. conf[tv][Used] # 0 /\ Used \in Bits /\ tv \in TVs
    BY ClocksDiffer, <2>3 DEF Asked, Played, Typed, Learned, Session, Trying, Used
  <2> QED
    BY ClocksDiffer, <2>3, <2>4 DEF Asked, Keeping
<1> QED
  BY AskedInit, AskedKept, <1>1, PTL DEF Spec, RejectedStaysOff
=============================================================================
