-------------------------- MODULE ReadAhead_proofs --------------------------
(***************************************************************************)
(* For every stream, ring, jitter buffer and decoder: the decode thread    *)
(* never waits on a decoder that can only go on if somebody watches, and   *)
(* loses, repeats and reorders no picture between socket and decoder.      *)
(***************************************************************************)
EXTENDS ReadAhead, TLAPS

(* What NeverBacksUp rests on: counts within their limits, and that a submit *)
(* goes on somewhere else.                                                   *)
Counts == /\ jb \in 0..Cap /\ units \in 0..AuBufs /\ frames \in 0..Outs
          /\ ret # "submit"

IInv == Counts /\ NeverBacksUp

(* Every step keeps the counts within their limits, and whoever is inside a  *)
(* submit finds room, a picture less or a free buffer: a submit begins with  *)
(* room in the jitter buffer, a picture pulled leaves the decoder room for   *)
(* one more, and a unit decoded frees its buffer.                            *)
LEMMA StepKeeps == IInv /\ [Next]_vars => IInv'
<1> SUFFICES ASSUME IInv, [Next]_vars PROVE IInv'
  OBVIOUS
<1> USE ReadAheadAssumption DEF IInv, Counts, NeverBacksUp, Room
<1>1. CASE FeedsRing
  BY <1>1 DEF FeedsRing, FeedRing, SubmitFrom
<1>2. CASE Pull
  BY <1>2 DEF Pull
<1>3. CASE PullEnds \/ FeedEnds \/ GotEnds \/ BatchEnds(TRUE) \/ BatchEnds(FALSE)
  BY <1>3 DEF PullEnds, FeedEnds, GotEnds, BatchEnds
<1>4. CASE Submit
  BY <1>4 DEF Submit
<1>5. CASE Read \/ EndOfStream \/ Audio
  BY <1>5 DEF Read, EndOfStream, Audio
<1>6. CASE Straight
  BY <1>6 DEF Straight, SubmitFrom, InHand
<1>7. CASE Queue
  BY <1>7 DEF Queue
<1>8. CASE Decode
  BY <1>8 DEF Decode
<1>9. CASE Show \/ Hear
  BY <1>9 DEF Show, Hear
<1>10. CASE Seek
  BY <1>10 DEF Seek
<1>11. CASE UNCHANGED vars
  BY <1>11 DEF vars
<1> QED
  BY <1>1, <1>2, <1>3, <1>4, <1>5, <1>6, <1>7, <1>8, <1>9, <1>10, <1>11 DEF Next, Step

(* NeverBacksUp in every behaviour: the promise of player_threads.cpp:50-54,   *)
(* "the decoder cannot back up", holds for every size of ring, jitter buffer   *)
(* and decoder, whether or not anybody watches.                                *)
THEOREM NeverBacksUpAlways == Spec => []NeverBacksUp
<1>1. Init => IInv
  BY ReadAheadAssumption DEF Init, IInv, Counts, NeverBacksUp
<1>2. IInv => NeverBacksUp
  BY DEF IInv
<1> QED
  BY <1>1, StepKeeps, <1>2, PTL DEF Spec

-----------------------------------------------------------------------------
(* No packet lost, none out of order *)

Elems(s) == {s[i] : i \in 1..Len(s)}

Ring == Elems(ring)
Hand == IF pc = "submit" THEN {unit} ELSE {}
Coming == IF pkt # 0 /\ Source[pkt] = "V" THEN {pkt} ELSE {}
Done == IF fed > base THEN fed ELSE base

Due == {i \in (Done + 1)..pos : Source[i] = "V"}   \* read since the seek, not yet submitted

Packets ==
  /\ ring \in Seq(Nat) /\ unit \in Nat /\ jb \in Nat /\ cap \in Nat
  /\ pos \in 0..Len(Source) /\ fed \in 0..pos /\ base \in 0..pos
  /\ pkt \in {0, pos}
  /\ pkt # 0 <=> pc \in {"got", "place"} \/ (pc = "submit" /\ ret = "got")
  /\ ret \in {"feed", "drain", "got", "batch"}

(* What is due is in the ring, in hand or just read, and nowhere twice.      *)
Intact ==
  /\ Due = Ring \cup Hand \cup Coming
  /\ Increasing(ring)
  /\ pc = "submit" => \A x \in Ring : unit < x
  /\ pc = "submit" /\ ret = "batch" => ring = <<>>
  /\ pkt # 0 => \A x \in Ring \cup Hand : x < pkt

(* A packet was read because there was room for it somewhere: room for its   *)
(* picture, or a place in the ring.                                          *)
Placed ==
  /\ pc = "got" => Room \/ Len(ring) < cap
  /\ pc = "submit" /\ ret = "got" => Len(ring) < cap
  /\ pc = "place" => (ring = <<>> /\ Room) \/ Len(ring) < cap
  /\ Len(ring) <= cap

SInv == Packets /\ Intact /\ Placed

(* The first of an increasing sequence is its least. *)
LEMMA TakeFirst ==
  ASSUME NEW STATE s, s \in Seq(Nat), s # <<>>, Increasing(s)
  PROVE  /\ Head(s) \in Nat /\ Tail(s) \in Seq(Nat) /\ Len(Tail(s)) = Len(s) - 1
         /\ Increasing(Tail(s))
         /\ Elems(s) = {Head(s)} \cup Elems(Tail(s))
         /\ \A x \in Elems(Tail(s)) : Head(s) < x
<1>1. /\ Head(s) = s[1] /\ s[1] \in Nat /\ Len(s) \in Nat \ {0} /\ Tail(s) \in Seq(Nat)
      /\ Len(Tail(s)) = Len(s) - 1
      /\ \A i \in 1..(Len(s) - 1) : Tail(s)[i] = s[i + 1]
  OBVIOUS
<1>2. Increasing(Tail(s))
  BY <1>1 DEF Increasing
<1>3. ASSUME NEW x \in Elems(Tail(s))
      PROVE  x \in Elems(s) /\ Head(s) < x
  <2>1. PICK i \in 1..(Len(s) - 1) : x = s[i + 1]
    BY <1>1, <1>3 DEF Elems
  <2>2. i + 1 \in 1..Len(s) /\ 1 \in 1..Len(s) /\ 1 < i + 1
    BY <1>1, <2>1
  <2> QED
    BY <1>1, <2>1, <2>2 DEF Elems, Increasing
<1>4. ASSUME NEW x \in Elems(s), x # Head(s)
      PROVE  x \in Elems(Tail(s))
  <2>1. PICK i \in 1..Len(s) : x = s[i]
    BY DEF Elems
  <2>2. i # 1 /\ i - 1 \in 1..(Len(s) - 1) /\ (i - 1) + 1 = i
    BY <1>1, <1>4, <2>1
  <2>3. Tail(s)[i - 1] = x
    BY <1>1, <2>1, <2>2
  <2> QED
    BY <1>1, <2>2, <2>3 DEF Elems
<1>5. Head(s) \in Elems(s)
  BY <1>1 DEF Elems
<1> QED
  BY <1>1, <1>2, <1>3, <1>4, <1>5

(* Two increasing sequences, one before the other, are one. *)
LEMMA Joined ==
  ASSUME NEW STATE s, s \in Seq(Nat), NEW STATE t, t \in Seq(Nat),
         Increasing(s), Increasing(t), \A x \in Elems(s), y \in Elems(t) : x < y
  PROVE  /\ s \o t \in Seq(Nat) /\ Len(s \o t) = Len(s) + Len(t)
         /\ Increasing(s \o t) /\ Elems(s \o t) = Elems(s) \cup Elems(t)
<1> DEFINE u == s \o t
<1>1. /\ u \in Seq(Nat) /\ Len(u) = Len(s) + Len(t) /\ Len(s) \in Nat /\ Len(t) \in Nat
      /\ \A i \in 1..Len(u) : u[i] = IF i <= Len(s) THEN s[i] ELSE t[i - Len(s)]
  OBVIOUS
<1> HIDE DEF u
<1>2. ASSUME NEW i \in 1..Len(u)
      PROVE  /\ i <= Len(s) => i \in 1..Len(s) /\ u[i] = s[i]
             /\ i > Len(s) => i - Len(s) \in 1..Len(t) /\ u[i] = t[i - Len(s)]
  BY <1>1
<1>3. ASSUME NEW i \in 1..Len(u), NEW j \in 1..Len(u), i < j
      PROVE  u[i] < u[j]
  <2>1. CASE j <= Len(s)
    <3>1. i \in 1..Len(s) /\ j \in 1..Len(s) /\ u[i] = s[i] /\ u[j] = s[j]
      BY <1>1, <1>2, <1>3, <2>1
    <3> QED
      BY <1>3, <3>1 DEF Increasing
  <2>2. CASE i > Len(s)
    <3> DEFINE h == i - Len(s)
               k == j - Len(s)
    <3>1. /\ h \in 1..Len(t) /\ k \in 1..Len(t) /\ h < k
          /\ u[i] = t[h] /\ u[j] = t[k]
      <4>1. j > Len(s) /\ h < k
        BY <1>1, <1>3, <2>2
      <4>2. h \in 1..Len(t) /\ u[i] = t[h]
        BY <1>2, <2>2
      <4>3. k \in 1..Len(t) /\ u[j] = t[k]
        BY <1>2, <4>1
      <4> QED
        BY <4>1, <4>2, <4>3
    <3> HIDE DEF h, k
    <3> QED
      BY <3>1 DEF Increasing
  <2>3. CASE i <= Len(s) /\ j > Len(s)
    <3>1. u[i] \in Elems(s) /\ u[j] \in Elems(t)
      <4>1. i \in 1..Len(s) /\ u[i] = s[i]
        BY <1>2, <2>3
      <4>2. j - Len(s) \in 1..Len(t) /\ u[j] = t[j - Len(s)]
        BY <1>2, <2>3
      <4> QED
        BY <4>1, <4>2 DEF Elems
    <3> QED
      BY <3>1
  <2> QED
    BY <1>1, <2>1, <2>2, <2>3
<1>4. ASSUME NEW x \in Elems(u)
      PROVE  x \in Elems(s) \cup Elems(t)
  <2>1. PICK i \in 1..Len(u) : x = u[i]
    BY DEF Elems
  <2>2. i <= Len(s) \/ i > Len(s)
    BY <1>1, <2>1
  <2>3. CASE i <= Len(s)
    BY <1>2, <2>1, <2>3 DEF Elems
  <2>4. CASE i > Len(s)
    BY <1>2, <2>1, <2>4 DEF Elems
  <2> QED
    BY <2>2, <2>3, <2>4
<1>5. ASSUME NEW x \in Elems(s) \cup Elems(t)
      PROVE  x \in Elems(u)
  <2>1. CASE x \in Elems(s)
    <3>1. PICK i \in 1..Len(s) : x = s[i]
      BY <2>1 DEF Elems
    <3>2. i \in 1..Len(u) /\ u[i] = x
      BY <1>1, <3>1
    <3> QED
      BY <3>2 DEF Elems
  <2>2. CASE x \in Elems(t)
    <3>1. PICK i \in 1..Len(t) : x = t[i]
      BY <2>2 DEF Elems
    <3>2. i + Len(s) \in 1..Len(u) /\ ~(i + Len(s) <= Len(s)) /\ (i + Len(s)) - Len(s) = i
      BY <1>1, <3>1
    <3>3. u[i + Len(s)] = x
      BY <1>1, <3>1, <3>2
    <3> QED
      BY <3>2, <3>3 DEF Elems
  <2> QED
    BY <2>1, <2>2
<1> QED
  BY <1>1, <1>3, <1>4, <1>5 DEF u, Increasing

LEMMA Single ==
  ASSUME NEW STATE x, x \in Nat
  PROVE  <<x>> \in Seq(Nat) /\ Increasing(<<x>>) /\ Elems(<<x>>) = {x}
<1>1. <<x>> \in Seq(Nat) /\ Len(<<x>>) = 1 /\ <<x>>[1] = x
  OBVIOUS
<1>2. 1..1 = {1}
  OBVIOUS
<1> QED
  BY <1>1, <1>2 DEF Increasing, Elems

LEMMA NoElems ==
  /\ <<>> \in Seq(Nat) /\ Increasing(<<>>) /\ Elems(<<>>) = {}
<1>1. Len(<<>>) = 0 /\ 1..0 = {} /\ <<>> \in Seq(Nat)
  OBVIOUS
<1> QED
  BY <1>1 DEF Increasing, Elems

LEMMA SInitHolds == Init => SInv
<1> SUFFICES ASSUME Init PROVE SInv
  OBVIOUS
<1> USE ReadAheadAssumption
<1>1. /\ cap \in Nat /\ ring = <<>> /\ jb = 0 /\ pos = 0 /\ pkt = 0 /\ unit = 0
      /\ ret = "feed" /\ pc = "feed" /\ fed = 0 /\ base = 0
  BY DEF Init
<1>2. Ring = {} /\ Increasing(ring) /\ ring \in Seq(Nat) /\ Len(ring) = 0
  BY <1>1, NoElems DEF Ring
<1>3. Due = {} /\ Hand = {} /\ Coming = {}
  BY <1>1 DEF Due, Done, Hand, Coming
<1>4. Packets
  BY <1>1, <1>2 DEF Packets
<1> QED
  BY <1>1, <1>2, <1>3, <1>4 DEF SInv, Intact, Placed

(* A step that moves no packet keeps what is due; it may only make room, or  *)
(* leave the places where there must be some.                                *)
LEMMA StillKeeps ==
  ASSUME SInv, UNCHANGED <<cap, ring, pos, pkt, unit, fed, base, ret>>, jb' \in Nat,
         (pc' = "submit") <=> (pc = "submit"),
         (pc' \in {"got", "place"}) <=> (pc \in {"got", "place"}), Placed'
  PROVE  SInv'
<1>1. Packets'
  BY DEF SInv, Packets
<1>2. Ring' = Ring /\ Hand' = Hand /\ Coming' = Coming /\ Due' = Due
  BY DEF Ring, Hand, Coming, Due, Done
<1>3. Intact'
  BY <1>2 DEF SInv, Intact, Increasing
<1> QED
  BY <1>1, <1>3 DEF SInv

LEMMA SStepKeeps == SInv /\ [Next]_vars => SInv'
<1> SUFFICES ASSUME SInv, [Next]_vars PROVE SInv'
  OBVIOUS
<1> USE ReadAheadAssumption DEF Room
<1>0. /\ ring \in Seq(Nat) /\ unit \in Nat /\ jb \in Nat /\ cap \in Nat
      /\ pos \in 0..Len(Source) /\ pos \in Nat /\ fed \in 0..pos /\ base \in 0..pos
      /\ Len(Source) \in Nat /\ Len(ring) \in Nat
      /\ Due = Ring \cup Hand \cup Coming /\ Increasing(ring)
  BY DEF SInv, Packets, Intact
<1>1. ASSUME NEW at, NEW next, FeedRing(at, next), <<at, next>> \in {<<"feed", "drain">>, <<"got", "got">>}
      PROVE  SInv'
  <2>1. /\ pc = at /\ ring # <<>> /\ jb < Cap /\ unit' = Head(ring) /\ ret' = next
        /\ pc' = "submit" /\ ring' = Tail(ring)
        /\ UNCHANGED <<cap, pos, pkt, base, jb, fed>>
    BY <1>1 DEF FeedRing, SubmitFrom, stream
  <2>2. at \in {"feed", "got"} /\ (next = "got" <=> at = "got") /\ next \in {"drain", "got"}
    BY <1>1
  <2>3. /\ Head(ring) \in Nat /\ Tail(ring) \in Seq(Nat) /\ Len(Tail(ring)) = Len(ring) - 1
        /\ Increasing(Tail(ring)) /\ Ring = {Head(ring)} \cup Elems(Tail(ring))
        /\ \A x \in Elems(Tail(ring)) : Head(ring) < x
    BY <1>0, <2>1, TakeFirst DEF Ring
  <2>4. Packets'
    BY <1>0, <2>1, <2>2, <2>3 DEF SInv, Packets
  <2>5. Ring' = Elems(Tail(ring)) /\ Hand' = {Head(ring)} /\ Hand = {}
        /\ Coming' = Coming /\ Due' = Due
    BY <2>1, <2>2 DEF Ring, Hand, Coming, Due, Done
  <2>6. Intact'
    <3>1. Due' = Ring' \cup Hand' \cup Coming'
      BY <1>0, <2>3, <2>5
    <3>2. pkt' # 0 => \A x \in Ring' \cup Hand' : x < pkt'
      BY <2>1, <2>3, <2>5 DEF SInv, Intact
    <3> QED
      BY <2>1, <2>2, <2>3, <2>5, <3>1, <3>2 DEF Intact
  <2>7. Placed'
    BY <1>0, <2>1, <2>3 DEF SInv, Placed
  <2> QED
    BY <2>4, <2>6, <2>7 DEF SInv
<1>2. CASE Pull \/ PullEnds \/ FeedEnds \/ BatchEnds(TRUE) \/ BatchEnds(FALSE) \/ EndOfStream
  <2>1. /\ UNCHANGED <<cap, ring, pos, pkt, unit, fed, base, ret>>
        /\ (pc' = "submit") <=> (pc = "submit")
        /\ pc' \notin {"got", "place"} /\ pc \notin {"got", "place"}
    BY <1>2 DEF Pull, PullEnds, FeedEnds, BatchEnds, EndOfStream, stream
  <2>2. jb' \in Nat
    BY <1>0, <1>2 DEF Pull, PullEnds, FeedEnds, BatchEnds, EndOfStream
  <2>3. Placed'
    BY <2>1 DEF SInv, Placed
  <2> QED
    BY <2>1, <2>2, <2>3, StillKeeps
<1>3. CASE Submit
  <2>1. /\ pc = "submit" /\ fed' = unit /\ pc' = ret
        /\ UNCHANGED <<cap, ring, pos, pkt, base, unit, ret, jb>>
    BY <1>3 DEF Submit, stream
  <2>2. unit \in Due /\ Hand = {unit} /\ ret # "submit"
    BY <1>0, <2>1 DEF Hand, SInv, Packets
  <2>3. unit \in (Done + 1)..pos /\ Done \in Nat
    BY <1>0, <2>2 DEF Due, Done
  <2>4. fed' > base /\ Done' = unit /\ unit > Done /\ unit \in 0..pos
    BY <1>0, <2>1, <2>3 DEF Done
  <2>5. Packets'
    BY <1>0, <2>1, <2>2, <2>4 DEF SInv, Packets
  <2>6. Ring' = Ring /\ Hand' = {} /\ Coming' = Coming
    BY <2>1, <2>2 DEF Ring, Hand, Coming
  <2>7. \A x \in Ring \cup Coming : unit < x
    <3>1. \A x \in Ring : unit < x
      BY <2>1 DEF SInv, Intact
    <3>2. pkt # 0 => unit < pkt
      BY <2>2 DEF SInv, Intact
    <3> QED
      BY <3>1, <3>2 DEF Coming
  <2>8. Due' = {i \in Due : unit < i}
    <3>1. Due' = {i \in (unit + 1)..pos : Source[i] = "V"}
      BY <2>1, <2>4 DEF Due
    <3>2. \A i \in Int : i \in (unit + 1)..pos <=> i \in (Done + 1)..pos /\ unit < i
      BY <1>0, <2>3, <2>4
    <3> QED
      BY <3>1, <3>2 DEF Due
  <2>9. Due' = Ring \cup Coming
    <3>1. unit \notin Due'
      BY <1>0, <2>8
    <3> QED
      BY <1>0, <2>2, <2>7, <2>8, <3>1
  <2>10. Intact'
    BY <2>1, <2>2, <2>6, <2>9 DEF SInv, Intact
  <2>11. Placed'
    BY <2>1 DEF SInv, Placed, Packets
  <2> QED
    BY <2>5, <2>10, <2>11 DEF SInv
<1>4. CASE Read
  <2>1. /\ pc = "batch" /\ ~(~(jb < Cap) /\ (Len(ring) >= cap \/ ~Hungry)) /\ pos < Len(Source)
        /\ pos' = pos + 1 /\ pkt' = pos + 1 /\ pc' = "got"
        /\ UNCHANGED <<cap, base, ring, jb, unit, ret, fed>>
    BY <1>4 DEF Read, Blocked
  <2>2. pkt = 0 /\ pos' \in Nat \ {0}
    BY <1>0, <2>1 DEF SInv, Packets
  <2>3. Packets'
    BY <1>0, <2>1, <2>2 DEF SInv, Packets
  <2>4. Ring' = Ring /\ Hand = {} /\ Hand' = {} /\ Coming = {} /\ Done' = Done
        /\ Coming' = IF Source[pos + 1] = "V" THEN {pos + 1} ELSE {}
    BY <2>1, <2>2 DEF Ring, Hand, Coming, Done
  <2>5. Done \in 0..pos
    BY <1>0 DEF Done
  <2>6. Due' = Due \cup Coming'
    <3>1. Due' = {i \in (Done + 1)..(pos + 1) : Source[i] = "V"}
      BY <2>1, <2>4 DEF Due
    <3>2. (Done + 1)..(pos + 1) = ((Done + 1)..pos) \cup {pos + 1}
      BY <1>0, <2>5
    <3> QED
      BY <2>4, <3>1, <3>2 DEF Due
  <2>7. Due \subseteq 1..pos
    BY <1>0, <2>5 DEF Due
  <2>8. Intact'
    <3>1. \A x \in Ring : x < pos + 1
      BY <1>0, <2>7
    <3> QED
      BY <1>0, <2>1, <2>4, <2>6, <3>1 DEF Intact, SInv
  <2>9. Placed'
    BY <1>0, <2>1 DEF Placed, SInv
  <2> QED
    BY <2>3, <2>8, <2>9 DEF SInv
<1>5. CASE GotEnds
  <2>1. /\ pc = "got" /\ ~(ring # <<>> /\ jb < Cap) /\ pc' = "place"
        /\ UNCHANGED <<cap, ring, pos, pkt, unit, fed, base, ret, jb>>
    BY <1>5 DEF GotEnds, stream
  <2>2. Placed'
    BY <2>1 DEF SInv, Placed
  <2> QED
    BY <1>0, <2>1, <2>2, StillKeeps
<1>6. CASE Straight
  <2>1. /\ pc = "place" /\ Source[pkt] = "V" /\ ring = <<>> /\ unit' = pkt /\ ret' = "batch"
        /\ pc' = "submit" /\ pkt' = 0 /\ UNCHANGED <<cap, pos, base, ring, jb, fed>>
    BY <1>6 DEF Straight, InHand, SubmitFrom
  <2>2. pkt = pos /\ pkt # 0
    BY <2>1 DEF SInv, Packets
  <2>3. Packets'
    BY <1>0, <2>1, <2>2 DEF SInv, Packets
  <2>4. Ring = {} /\ Ring' = {} /\ Hand = {} /\ Hand' = {pkt} /\ Coming = {pkt}
        /\ Coming' = {} /\ Due' = Due
    BY <2>1, <2>2, NoElems DEF Ring, Hand, Coming, Due, Done
  <2>5. Intact'
    BY <1>0, <2>1, <2>4 DEF Intact
  <2>6. Placed'
    BY <2>1 DEF SInv, Placed
  <2> QED
    BY <2>3, <2>5, <2>6 DEF SInv
<1>7. CASE Queue
  <2>1. /\ pc = "place" /\ Source[pkt] = "V" /\ ~(ring = <<>> /\ jb < Cap) /\ pkt' = 0
        /\ UNCHANGED <<cap, pos, base, jb, unit, ret, fed>>
    BY <1>7 DEF Queue, InHand
  <2>2. Len(ring) < cap
    BY <2>1 DEF SInv, Placed
  <2>3. ring' = Append(ring, pkt) /\ pc' = "batch"
    BY <1>7, <2>2 DEF Queue
  <2>4. pkt = pos /\ pkt # 0 /\ pkt \in Nat
    BY <1>0, <2>1 DEF SInv, Packets
  <2>5. Append(ring, pkt) = ring \o <<pkt>>
    BY <1>0, <2>4
  <2>6. /\ ring' \in Seq(Nat) /\ Len(ring') = Len(ring) + 1
        /\ Increasing(ring') /\ Ring' = Ring \cup {pkt}
    <3>1. \A x \in Ring : x < pkt
      BY <2>4 DEF SInv, Intact
    <3>2. <<pkt>> \in Seq(Nat) /\ Increasing(<<pkt>>) /\ Elems(<<pkt>>) = {pkt}
      BY <2>4, Single
    <3>3. /\ ring \o <<pkt>> \in Seq(Nat) /\ Increasing(ring \o <<pkt>>)
          /\ Elems(ring \o <<pkt>>) = Ring \cup {pkt}
      <4>1. \A x \in Elems(ring), y \in Elems(<<pkt>>) : x < y
        BY <3>1, <3>2 DEF Ring
      <4>2. ring \in Seq(Nat) /\ Increasing(ring)
        BY <1>0
      <4> DEFINE t == <<pkt>>
      <4>3. /\ t \in Seq(Nat) /\ Increasing(t) /\ Elems(t) = {pkt}
            /\ \A x \in Elems(ring), y \in Elems(t) : x < y
        BY <3>2, <4>1
      <4> HIDE DEF t
      <4>4. /\ ring \o t \in Seq(Nat) /\ Increasing(ring \o t)
            /\ Elems(ring \o t) = Elems(ring) \cup Elems(t)
        BY <4>2, <4>3, Joined
      <4> QED
        BY <4>3, <4>4 DEF Ring, t
    <3>4. Len(Append(ring, pkt)) = Len(ring) + 1
      BY <1>0, <2>4
    <3> QED
      BY <2>3, <2>5, <3>3, <3>4 DEF Ring
  <2>7. Packets'
    BY <1>0, <2>1, <2>3, <2>6 DEF SInv, Packets
  <2>8. Hand = {} /\ Hand' = {} /\ Coming = {pkt} /\ Coming' = {} /\ Due' = Due
    BY <2>1, <2>3, <2>4 DEF Hand, Coming, Due, Done
  <2>9. Intact'
    BY <1>0, <2>1, <2>3, <2>6, <2>8 DEF Intact
  <2>10. Placed'
    BY <1>0, <2>1, <2>2, <2>3, <2>6 DEF SInv, Placed
  <2> QED
    BY <2>7, <2>9, <2>10 DEF SInv
<1>8. CASE Audio
  <2>1. /\ pc = "place" /\ Source[pkt] = "A" /\ pc' = "batch" /\ pkt' = 0
        /\ UNCHANGED <<cap, pos, base, ring, jb, unit, ret, fed>>
    BY <1>8 DEF Audio, InHand
  <2>2. Packets'
    BY <1>0, <2>1 DEF SInv, Packets
  <2>3. Ring' = Ring /\ Hand = {} /\ Hand' = {} /\ Coming = {} /\ Coming' = {} /\ Due' = Due
    BY <2>1 DEF Ring, Hand, Coming, Due, Done
  <2>4. Intact' /\ Placed'
    BY <1>0, <2>1, <2>3 DEF SInv, Intact, Placed
  <2> QED
    BY <2>2, <2>4 DEF SInv
<1>9. CASE Decode \/ Show \/ Hear \/ UNCHANGED vars
  <2>1. UNCHANGED <<cap, ring, pos, pkt, unit, fed, base, ret, pc>>
    BY <1>9 DEF Decode, Show, Hear, vars, stream
  <2>2. jb' \in Nat /\ jb' <= jb
    BY <1>0, <1>9 DEF Decode, Show, Hear, vars
  <2>3. Placed'
    BY <1>0, <2>1, <2>2 DEF SInv, Placed
  <2> QED
    BY <2>1, <2>2, <2>3, StillKeeps
<1>10. CASE Seek
  <2>1. /\ pc = "feed" /\ base' = pos /\ ring' = <<>> /\ jb' = 0
        /\ UNCHANGED <<cap, pos, pkt, unit, ret, pc, fed>>
    BY <1>10 DEF Seek
  <2>2. pkt = 0
    BY <2>1 DEF SInv, Packets
  <2>3. Packets'
    BY <1>0, <2>1, <2>2, NoElems DEF SInv, Packets
  <2>4. Done' = pos
    BY <1>0, <2>1 DEF Done
  <2>5. Due' = {} /\ Ring' = {} /\ Hand' = {} /\ Coming' = {}
    BY <1>0, <2>1, <2>2, <2>4, NoElems DEF Due, Ring, Hand, Coming
  <2>6. Intact'
    BY <2>1, <2>2, <2>5, NoElems DEF Intact
  <2>7. Placed'
    BY <1>0, <2>1 DEF Placed
  <2> QED
    BY <2>3, <2>6, <2>7 DEF SInv
<1>11. CASE FeedsRing
  BY <1>1, <1>11 DEF FeedsRing
<1> QED
  BY <1>2, <1>3, <1>4, <1>5, <1>6, <1>7, <1>8, <1>9, <1>10, <1>11 DEF Next, Step

(* The read-ahead ring of player_threads.cpp between socket and decoder: the  *)
(* pictures read since a seek reach the decoder each once and in the order of *)
(* the stream, and none is dropped for want of room, with a ring of any size  *)
(* and without one.                                                           *)
THEOREM StreamIntactAlways == Spec => []StreamIntact
<1>1. SInv => StreamIntact
  <2> SUFFICES ASSUME SInv PROVE StreamIntact
    OBVIOUS
  <2> DEFINE hand    == IF pc = "submit" THEN <<unit>> ELSE <<>>
             coming  == IF pkt # 0 /\ Source[pkt] = "V" THEN <<pkt>> ELSE <<>>
             front   == IF ret = "batch" THEN ring \o hand ELSE hand \o ring
             waiting == front \o coming
  <2>1. ring \in Seq(Nat) /\ unit \in Nat /\ pkt \in Nat /\ Increasing(ring) /\ Elems(ring) = Ring
    BY DEF SInv, Packets, Intact, Ring
  <2>2. hand \in Seq(Nat) /\ Increasing(hand) /\ Elems(hand) = Hand
    BY <2>1, Single, NoElems DEF Hand
  <2>3. coming \in Seq(Nat) /\ Increasing(coming) /\ Elems(coming) = Coming
    BY <2>1, Single, NoElems DEF Coming
  <2> HIDE DEF hand, coming
  <2>4. front \in Seq(Nat) /\ Increasing(front) /\ Elems(front) = Ring \cup Hand
    <3>1. CASE ret = "batch"
      <4>1. \A x \in Elems(ring), y \in Elems(hand) : x < y
        BY <2>1, <2>2, <3>1, NoElems DEF SInv, Intact, Hand
      <4> QED
        BY <2>1, <2>2, <3>1, <4>1, Joined
    <3>2. CASE ret # "batch"
      <4>1. \A x \in Elems(hand), y \in Elems(ring) : x < y
        BY <2>1, <2>2 DEF SInv, Intact, Hand
      <4> QED
        BY <2>1, <2>2, <3>2, <4>1, Joined
    <3> QED
      BY <3>1, <3>2
  <2> HIDE DEF front
  <2>5. Increasing(waiting) /\ waiting \in Seq(Nat) /\ Elems(waiting) = Due
    <3>1. \A x \in Elems(front), y \in Elems(coming) : x < y
      BY <2>3, <2>4 DEF SInv, Intact, Coming
    <3>2. /\ front \o coming \in Seq(Nat) /\ Increasing(front \o coming)
          /\ Elems(front \o coming) = Elems(front) \cup Elems(coming)
      BY <2>3, <2>4, <3>1, Joined
    <3> QED
      BY <2>3, <2>4, <3>2 DEF SInv, Intact
  <2> HIDE DEF waiting
  <2>6. Range(waiting) = Elems(waiting)
    BY <2>5 DEF Range, Elems
  <2> QED
    BY <2>5, <2>6 DEF StreamIntact, Due, Done, waiting, front, hand, coming
<1> QED
  BY SInitHolds, SStepKeeps, <1>1, PTL DEF Spec
=============================================================================
