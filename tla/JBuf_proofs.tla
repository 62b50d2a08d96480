----------------------------- MODULE JBuf_proofs -----------------------------
(***************************************************************************)
(* For every ring, stream and number of seeks: the upload thread copies    *)
(* what nobody writes into the texture nobody shows, what is staged is the *)
(* front of the queue, and a picture that left the screen never comes      *)
(* back.  All but the order of the queue rest on the two facts of timing   *)
(* the module names, FlipAtOnce and CopyEnds.                              *)
(***************************************************************************)
EXTENDS JBuf, TLAPS, WellFoundedInduction

(* The buffer of the slot i places behind the front. *)
Buf(i) == data[Slot(i)]

Turning == ds \in {"clear", "toggle"}   \* inside a flip

(* A picture being decoded has a slot; a seek under way has emptied the ring. *)
Decoding ==
  /\ dec = "write" => n < Cap /\ made < Len(stream) /\ ds # "unready"
  /\ ds = "unready" => n = 0

(* The queue holds pictures of this stream, each once, each in its own buffer. *)
Queued ==
  /\ \A i \in 0..(n - 1) : At(i) \in (born + 1)..made /\ pix[Buf(i)] = At(i)
  /\ \A i, j \in 0..(n - 1) : i # j => At(i) # At(j)

(* Whose turn it is with the textures. *)
Turns ==
  /\ gpu \subseteq {disp} /\ (Turning => gpu = {})
  /\ ds = "clear" => ready
  /\ ds = "toggle" => ~ready
  /\ up.pc = "copy" => ~ready /\ ds \notin {"toggle", "unready"} /\ up.back = 1 - disp

(* What is being copied is the front of the queue. *)
Copying ==
  up.pc = "copy" =>
    /\ n > 0 /\ up.a = At(0) /\ Buf(0) \in up.bufs
    /\ FrontLocked = 2 /\ up.b # NoPic => n > 1 /\ up.b = At(1)
    /\ \A b \in up.bufs : \E i \in 0..(n - 1) : b = Buf(i)

(* What has been copied still is, until a flip or a seek takes it. *)
Staged ==
  ready /\ ds \in {"vblank", "prefill"} =>
    LET t == tex[1 - disp] IN
      /\ n > 0 /\ t.a = At(0)
      /\ FrontLocked = 2 /\ t.b # NoPic => n > 1 /\ t.b = At(1)

(* The picture on the screen is at the front of the queue or left it, and so *)
(* is the one a flip is bringing up; those replaced are not queued.          *)
Shown ==
  /\ \A i \in {0, 1} : tex[i].a <= made
  /\ gone \subseteq 0..made
  /\ \A i \in 0..(n - 1) : At(i) \notin gone
  /\ ~Turning => \A i \in 1..(n - 1) : At(i) # tex[disp].a
  /\ Turning => LET s == tex[1 - disp].a IN
       /\ s > born /\ s \notin gone
       /\ \A i \in 1..(n - 1) : At(i) # s
       /\ tex[disp].a # s => \A i \in 0..(n - 1) : At(i) # tex[disp].a

(* The ring keeps itself; who may use what of it rests on the timing. *)
Ring == TypeOK /\ Decoding /\ Queued /\ QueueInOrder

Sharing == Turns /\ Copying /\ Staged /\ Shown

IInv == Ring /\ Sharing

-----------------------------------------------------------------------------
(* Numbers and the ring *)

(* A set of naturals has a least member. *)
LEMMA LeastMember ==
  ASSUME NEW STATE S, S \subseteq Nat, S # {}
  PROVE  \E x \in S : \A y \in S : x <= y
<1>1. PICK x \in S : \A y \in S : ~ (<<y, x>> \in OpToRel(<, Nat))
  BY NatLessThanWellFounded, WFMin
<1>2. \A y \in S : ~(y < x)
  BY <1>1 DEF OpToRel
<1> QED
  BY <1>2

(* An index runs past the end of the ring at most once. *)
LEMMA Wrap ==
  ASSUME NEW c \in Nat \ {0}, NEW STATE x, x \in 0..(2 * c - 1)
  PROVE  x % c = IF x < c THEN x ELSE x - c
<1>1. CASE x < c
  BY <1>1
<1>2. CASE x >= c
  <2> DEFINE y == x - c
  <2>1. y \in 0..(c - 1) /\ x = y + c
    BY <1>2
  <2>2. (y + c) % c = y
    BY <2>1
  <2> QED
    BY <2>1, <2>2
<1> QED
  BY <1>1, <1>2

(* Slot and Pos are each other's inverse. *)
LEMMA Places ==
  ASSUME rd \in Slots
  PROVE  /\ \A i \in 0..(Cap - 1) : Slot(i) \in Slots /\ Pos(Slot(i)) = i
         /\ \A s \in Slots : Pos(s) \in 0..(Cap - 1) /\ Slot(Pos(s)) = s
<1> USE JBufAssumption DEF Slots
<1>1. ASSUME NEW i \in 0..(Cap - 1)
      PROVE  Slot(i) \in Slots /\ Pos(Slot(i)) = i
  <2>1. Slot(i) = IF rd + i < Cap THEN rd + i ELSE rd + i - Cap
    <3>1. rd + i \in 0..(2 * Cap - 1)
      OBVIOUS
    <3> QED
      BY <3>1, Wrap DEF Slot
  <2>2. Slot(i) - rd + Cap \in 0..(2 * Cap - 1)
    BY <2>1
  <2>3. Pos(Slot(i)) = IF Slot(i) - rd + Cap < Cap THEN Slot(i) - rd + Cap ELSE Slot(i) - rd
    <3> DEFINE x == Slot(i) - rd + Cap
    <3>1. x \in 0..(2 * Cap - 1) /\ x - Cap = Slot(i) - rd
      BY <2>1, <2>2
    <3> HIDE DEF x
    <3>2. x % Cap = IF x < Cap THEN x ELSE x - Cap
      BY <3>1, Wrap
    <3> QED
      BY <3>1, <3>2 DEF Pos, x
  <2> QED
    BY <2>1, <2>3
<1>2. ASSUME NEW s \in Slots
      PROVE  Pos(s) \in 0..(Cap - 1) /\ Slot(Pos(s)) = s
  <2>1. Pos(s) = IF s < rd THEN s - rd + Cap ELSE s - rd
    <3>1. s - rd + Cap \in 0..(2 * Cap - 1)
      OBVIOUS
    <3> QED
      BY <3>1, Wrap DEF Pos
  <2>2. Pos(s) \in 0..(Cap - 1)
    BY <2>1
  <2>3. rd + Pos(s) \in 0..(2 * Cap - 1)
    BY <2>2
  <2>4. Slot(Pos(s)) = IF rd + Pos(s) < Cap THEN rd + Pos(s) ELSE (rd + Pos(s)) - Cap
    <3> DEFINE x == rd + Pos(s)
    <3>1. x \in 0..(2 * Cap - 1)
      BY <2>3
    <3> HIDE DEF x
    <3>2. x % Cap = IF x < Cap THEN x ELSE x - Cap
      BY <3>1, Wrap
    <3> QED
      BY <3>2 DEF Slot, x
  <2> QED
    BY <2>1, <2>2, <2>4
<1> QED
  BY <1>1, <1>2

(* The slot after the last one. *)
LEMMA NextSlot ==
  ASSUME rd \in Slots, NEW STATE i, i \in 0..(Cap - 1)
  PROVE  (Slot(i) + 1) % Cap = Slot(i + 1)
<1> USE JBufAssumption DEF Slots
<1>1. rd + i \in 0..(2 * Cap - 1) /\ rd + (i + 1) \in 0..(2 * Cap - 1)
  OBVIOUS
<1>2. Slot(i) = IF rd + i < Cap THEN rd + i ELSE rd + i - Cap
  BY <1>1, Wrap DEF Slot
<1>3. Slot(i + 1) = IF rd + (i + 1) < Cap THEN rd + (i + 1) ELSE rd + (i + 1) - Cap
  BY <1>1, Wrap DEF Slot
<1>4. Slot(i) + 1 \in 0..(2 * Cap - 1)
  BY <1>2
<1>5. (Slot(i) + 1) % Cap = IF Slot(i) + 1 < Cap THEN Slot(i) + 1 ELSE (Slot(i) + 1) - Cap
  <2> DEFINE x == Slot(i) + 1
  <2>1. x \in 0..(2 * Cap - 1)
    BY <1>4
  <2> HIDE DEF x
  <2>2. x % Cap = IF x < Cap THEN x ELSE x - Cap
    BY <2>1, Wrap
  <2> QED
    BY <2>2 DEF x
<1> QED
  BY <1>2, <1>3, <1>5

(* The place of a picture exists: it passes those from there on, and not the *)
(* one before; the front slots in use are never passed.                      *)
LEMMA PlaceIs ==
  ASSUME n \in Nat, NEW STATE p
  PROVE  /\ Place(p) \in 0..n
         /\ p = 0 => Place(p) = n
         /\ p # 0 => \A i \in Place(p)..(n - 1) : Passes(p, i)
         /\ p # 0 /\ Place(p) > 0 => ~Passes(p, Place(p) - 1)
         /\ Place(p) = n \/ Place(p) >= FrontLocked
<1> USE JBufAssumption
<1>1. CASE p = 0
  BY <1>1 DEF Place
<1>2. CASE p # 0
  <2> DEFINE G(k) == \A i \in k..(n - 1) : Passes(p, i)
             S == {k \in 0..n : G(k)}
  <2>1. n \in S
    <3>1. G(n)
      OBVIOUS
    <3> QED
      BY <3>1
  <2>2. PICK k \in S : \A y \in S : k <= y
    <3>1. S \subseteq 0..n /\ S # {}
      BY <2>1
    <3>2. S \subseteq Nat
      <4> HIDE DEF S
      <4> QED
        BY <3>1
    <3> HIDE DEF S
    <3> QED
      BY <3>1, <3>2, LeastMember
  <2>3. k > 0 => ~Passes(p, k - 1)
    <3> SUFFICES ASSUME k > 0, Passes(p, k - 1) PROVE FALSE
      OBVIOUS
    <3>1. G(k - 1)
      BY <2>2
    <3>2. k - 1 \in S
      BY <3>1, <2>2
    <3> QED
      BY <3>2, <2>2
  <2>4. \E m \in 0..n : /\ \A i \in m..(n - 1) : Passes(p, i)
                        /\ m > 0 => ~Passes(p, m - 1)
    BY <2>2, <2>3
  <2>5. /\ Place(p) \in 0..n
        /\ \A i \in Place(p)..(n - 1) : Passes(p, i)
        /\ Place(p) > 0 => ~Passes(p, Place(p) - 1)
    BY <1>2, <2>4 DEF Place
  <2>6. Place(p) = n \/ Place(p) >= FrontLocked
    <3>1. Place(p) # n => Place(p) \in Place(p)..(n - 1)
      BY <2>5
    <3>2. Place(p) # n => Passable(Place(p))
      BY <3>1, <2>5 DEF Passes
    <3> QED
      BY <3>2 DEF Passable
  <2> QED
    BY <1>2, <2>5, <2>6
<1> QED
  BY <1>1, <1>2

(* What a move does to an array: the slot at wr ends up k places behind the  *)
(* front, and those it passed step back by one.                              *)
LEMMA MovedAt ==
  ASSUME rd \in Slots, n \in 0..(Cap - 1), NEW STATE k, k \in 0..n, NEW STATE f,
         NEW i \in 0..n
  PROVE  Moved(f, k)[Slot(i)] = IF i < k THEN f[Slot(i)]
                                ELSE IF i = k THEN f[wr] ELSE f[Slot(i - 1)]
<1> USE JBufAssumption
<1>1. Slot(i) \in Slots /\ Pos(Slot(i)) = i
  BY Places
<1> QED
  BY <1>1 DEF Moved

(* A move only trades places. *)
LEMMA MovedOneToOne ==
  ASSUME rd \in Slots, n \in 0..(Cap - 1), wr = Slot(n), NEW STATE k, k \in 0..n,
         NEW STATE f, \A s, t \in Slots : s # t => f[s] # f[t]
  PROVE  \A s, t \in Slots : s # t => Moved(f, k)[s] # Moved(f, k)[t]
<1> USE JBufAssumption
<1> DEFINE From(s) == CASE Pos(s) = k -> wr
                        [] Pos(s) \in (k + 1)..n -> Slot(Pos(s) - 1)
                        [] OTHER -> s
           To(s) == CASE Pos(s) = k -> n
                      [] Pos(s) \in (k + 1)..n -> Pos(s) - 1
                      [] OTHER -> Pos(s)
<1>1. ASSUME NEW s \in Slots
      PROVE  From(s) \in Slots /\ Pos(From(s)) = To(s) /\ Moved(f, k)[s] = f[From(s)]
  <2>1. Pos(s) \in 0..(Cap - 1)
    BY Places
  <2>2. CASE Pos(s) = k
    BY <2>2, Places DEF Moved
  <2>3. CASE Pos(s) \in (k + 1)..n
    <3>1. Pos(s) - 1 \in 0..(Cap - 1) /\ Pos(s) # k
      BY <2>3
    <3> QED
      BY <2>3, <3>1, Places DEF Moved
  <2>4. CASE Pos(s) # k /\ Pos(s) \notin (k + 1)..n
    BY <2>4 DEF Moved
  <2> QED
    BY <2>2, <2>3, <2>4
<1>2. ASSUME NEW s \in Slots, NEW t \in Slots, s # t
      PROVE  From(s) # From(t)
  <2>1. Pos(s) # Pos(t) /\ Pos(s) \in 0..(Cap - 1) /\ Pos(t) \in 0..(Cap - 1)
    BY <1>2, Places
  <2>2. To(s) # To(t)
    BY <2>1
  <2> QED
    BY <2>2, <1>1
<1> HIDE DEF From
<1>3. ASSUME NEW s \in Slots, NEW t \in Slots, s # t
      PROVE  Moved(f, k)[s] # Moved(f, k)[t]
  BY <1>1, <1>2, <1>3
<1> QED
  BY <1>3

-----------------------------------------------------------------------------
(* What a push and a vblank do to the queue *)

(* A push puts the new picture k places behind the front, and the pictures   *)
(* and buffers it passed step back; the buffers stay one per slot.           *)
PushedAt(k) ==
  LET p == Pts(made + 1) IN
    /\ k = n \/ k >= FrontLocked
    /\ p = 0 => k = n
    /\ p # 0 => \A i \in k..(n - 1) : Passes(p, i)
    /\ p # 0 /\ k > 0 => ~Passes(p, k - 1)
    /\ \A i \in 0..n :
         /\ At(i)' = IF i < k THEN At(i) ELSE IF i = k THEN made + 1 ELSE At(i - 1)
         /\ Buf(i)' = IF i < k THEN Buf(i) ELSE IF i = k THEN Buf(n) ELSE Buf(i - 1)

LEMMA PushView ==
  ASSUME TypeOK, Decoding, Push
  PROVE  TypeOK' /\ \E k \in 0..n : PushedAt(k)
<1> USE JBufAssumption
<1> DEFINE p == Pts(made + 1)
           k == Place(p)
           new == [stamp EXCEPT ![wr] = made + 1]
<1>1. /\ rd \in Slots /\ n \in 0..(Cap - 1) /\ wr = Slot(n) /\ made + 1 \in Pics
      /\ data \in [Slots -> Slots] /\ stamp \in [Slots -> Pics] /\ pix \in [Slots -> Pics]
      /\ made \in Pics /\ wr \in Slots
  <2>1. /\ rd \in Slots /\ n \in 0..(Cap - 1) /\ wr = Slot(n)
        /\ data \in [Slots -> Slots] /\ stamp \in [Slots -> Pics] /\ pix \in [Slots -> Pics]
        /\ made \in Pics
    BY JBufAssumption DEF TypeOK, Decoding, Push
  <2>2. made + 1 \in Pics
    BY JBufAssumption DEF TypeOK, Decoding, Push, Pics
  <2> QED
    BY <2>1, <2>2, Places
<1>2. /\ stamp' = Moved(new, k) /\ data' = Moved(data, k)
      /\ rd' = rd /\ n' = n + 1 /\ wr' = (wr + 1) % Cap
      /\ pix' = [pix EXCEPT ![data[wr]] = made + 1] /\ made' = made + 1
  BY DEF Push
<1>3. /\ k \in 0..n /\ (k = n \/ k >= FrontLocked)
      /\ p = 0 => k = n
      /\ p # 0 => \A i \in k..(n - 1) : Passes(p, i)
      /\ p # 0 /\ k > 0 => ~Passes(p, k - 1)
  <2>1. n \in Nat
    BY <1>1
  <2> HIDE DEF p
  <2> QED
    BY <2>1, PlaceIs
<1> HIDE DEF k, new
<1>4. \A i \in 0..n : /\ Moved(new, k)[Slot(i)] = IF i < k THEN new[Slot(i)]
                           ELSE IF i = k THEN new[wr] ELSE new[Slot(i - 1)]
                      /\ Moved(data, k)[Slot(i)] = IF i < k THEN data[Slot(i)]
                           ELSE IF i = k THEN data[wr] ELSE data[Slot(i - 1)]
  <2> TAKE i \in 0..n
  <2>0. rd \in Slots /\ n \in 0..(Cap - 1) /\ k \in 0..n
    BY <1>1, <1>3
  <2>1. Moved(new, k)[Slot(i)] = IF i < k THEN new[Slot(i)]
                                 ELSE IF i = k THEN new[wr] ELSE new[Slot(i - 1)]
    BY <2>0, MovedAt, Zenon
  <2>2. Moved(data, k)[Slot(i)] = IF i < k THEN data[Slot(i)]
                                  ELSE IF i = k THEN data[wr] ELSE data[Slot(i - 1)]
    BY <2>0, MovedAt, Zenon
  <2> QED
    BY <2>1, <2>2
<1>5. \A i \in 0..(n - 1) : Slot(i) \in Slots /\ Slot(i) # wr
  <2> TAKE i \in 0..(n - 1)
  <2>1. i \in 0..(Cap - 1) /\ n \in 0..(Cap - 1) /\ i # n
    BY <1>1
  <2>2. Slot(i) \in Slots /\ Pos(Slot(i)) = i /\ Pos(Slot(n)) = n
    BY <1>1, <2>1, Places
  <2> QED
    BY <1>1, <2>1, <2>2
<1>6. new \in [Slots -> Pics] /\ new[wr] = made + 1
      /\ \A i \in 0..(n - 1) : new[Slot(i)] = At(i)
  BY <1>1, <1>5 DEF new, At
<1>7. \A i : Slot(i)' = Slot(i)
  BY <1>2 DEF Slot
<1>8. ASSUME NEW i \in 0..n
      PROVE  /\ At(i)' = IF i < k THEN At(i) ELSE IF i = k THEN made + 1 ELSE At(i - 1)
             /\ Buf(i)' = IF i < k THEN Buf(i) ELSE IF i = k THEN Buf(n) ELSE Buf(i - 1)
  <2>1. At(i)' = Moved(new, k)[Slot(i)]
    BY <1>1, <1>2, <1>7 DEF At
  <2>2. Buf(i)' = Moved(data, k)[Slot(i)]
    BY <1>2, <1>7 DEF Buf
  <2>3. (i < k => i \in 0..(n - 1)) /\ (~(i < k) /\ i # k => i - 1 \in 0..(n - 1))
    BY <1>1, <1>3
  <2>4. Moved(new, k)[Slot(i)] = IF i < k THEN At(i) ELSE IF i = k THEN made + 1 ELSE At(i - 1)
    BY <1>4, <1>6, <2>3
  <2>5. Moved(data, k)[Slot(i)] = IF i < k THEN Buf(i) ELSE IF i = k THEN Buf(n) ELSE Buf(i - 1)
    BY <1>1, <1>4 DEF Buf
  <2> QED
    BY <2>1, <2>2, <2>4, <2>5
<1>9. PushedAt(k)
  BY <1>3, <1>8 DEF PushedAt, k
<1>10. data' \in [Slots -> Slots] /\ stamp' \in [Slots -> Pics]
       /\ \A s, t \in Slots : s # t => data'[s] # data'[t]
  <2>1. \A s, t \in Slots : s # t => data[s] # data[t]
    BY DEF TypeOK
  <2>2. \A s, t \in Slots : s # t => Moved(data, k)[s] # Moved(data, k)[t]
    BY <1>1, <1>3, <2>1, MovedOneToOne
  <2>3. ASSUME NEW s \in Slots
        PROVE  Moved(data, k)[s] \in Slots /\ Moved(new, k)[s] \in Pics
    <3>1. CASE Pos(s) \in (k + 1)..n
      <4>1. Slot(Pos(s) - 1) \in Slots
        <5>1. Pos(s) - 1 \in 0..(Cap - 1)
          BY <1>1, <1>3, <3>1
        <5> QED
          BY <1>1, <5>1, Places
      <4> QED
        BY <1>1, <1>6, <3>1, <4>1 DEF Moved
    <3>2. CASE Pos(s) \notin (k + 1)..n
      BY <1>1, <1>6, <3>2 DEF Moved
    <3> QED
      BY <3>1, <3>2
  <2>4. Moved(data, k) \in [Slots -> Slots] /\ Moved(new, k) \in [Slots -> Pics]
    <3>1. DOMAIN Moved(data, k) = Slots /\ DOMAIN Moved(new, k) = Slots
      BY DEF Moved
    <3>2. Moved(data, k) = [s \in Slots |-> Moved(data, k)[s]]
          /\ Moved(new, k) = [s \in Slots |-> Moved(new, k)[s]]
      BY DEF Moved
    <3> QED
      BY <2>3, <3>1, <3>2
  <2> QED
    BY <1>2, <2>2, <2>4
<1>11. wr' = Slot(n)'
  <2>1. (Slot(n) + 1) % Cap = Slot(n + 1)
    BY <1>1, NextSlot
  <2> QED
    BY <1>1, <1>2, <2>1 DEF Slot
<1>12. pix' \in [Slots -> Pics] /\ made' \in Pics /\ n' \in 0..Cap /\ born' \in 0..made'
  BY <1>1, <1>2, JBufAssumption DEF Push, TypeOK, Pics
<1>13. Pics' = Pics /\ UNCHANGED <<stream, rd, up, tex, ready, disp, ds, gpu, born, seeks, gone>>
       /\ dec' = "idle"
  BY DEF Push, Pics
<1>14. TypeOK'
  BY <1>10, <1>11, <1>12, <1>13 DEF TypeOK
<1> QED
  BY <1>3, <1>9, <1>14

(* A vblank that flips takes the d = drops + pop pictures in front.          *)
LEMMA GateView ==
  ASSUME TypeOK, NEW drops \in 0..(Cap - 1), NEW pop \in {0, 1}, Gate(drops, pop)
  PROVE  /\ TypeOK'
         /\ n' = n - (drops + pop) /\ n' \in 0..n
         /\ \A i \in 0..(n' - 1) : /\ i + (drops + pop) \in 0..(n - 1)
                                   /\ At(i)' = At(i + (drops + pop))
                                   /\ Buf(i)' = Buf(i + (drops + pop))
<1> USE JBufAssumption
<1> DEFINE d == drops + pop
<1>1. d \in 0..n /\ n \in 0..Cap /\ rd \in Slots /\ n' = n - d /\ n' \in 0..n
      /\ rd' = (rd + d) % Cap /\ wr = Slot(n)
  <2>1. n \in 0..Cap /\ rd \in Slots /\ wr = Slot(n)
    BY DEF TypeOK
  <2>2. drops \in 0..(n - 1) /\ n > 0 /\ n' = n - drops - pop /\ rd' = (rd + drops + pop) % Cap
    BY DEF Gate
  <2>3. rd + drops + pop = rd + d
    BY <2>1, <2>2, JBufAssumption DEF Slots
  <2> QED
    BY <2>1, <2>2, <2>3, JBufAssumption
<1> HIDE DEF d
<1>2. UNCHANGED <<stream, made, wr, data, stamp, pix, dec, up, tex, ready, disp, born, seeks,
                  gone>> /\ ds' = "clear" /\ gpu' = {}
  BY DEF Gate
<1>3. ASSUME NEW i \in 0..n'
      PROVE  Slot(i)' = Slot(i + d)
  <2> USE JBufAssumption
  <2>1. rd + d \in 0..(2 * Cap - 1) /\ rd + (i + d) \in 0..(2 * Cap - 1)
    BY <1>1 DEF Slots
  <2>2. rd' = IF rd + d < Cap THEN rd + d ELSE (rd + d) - Cap
    BY <1>1, <2>1, Wrap
  <2>3. Slot(i + d) = IF rd + (i + d) < Cap THEN rd + (i + d) ELSE (rd + (i + d)) - Cap
    BY <2>1, Wrap DEF Slot
  <2>4. rd' + i \in 0..(2 * Cap - 1)
    BY <1>1, <2>2 DEF Slots
  <2>5. (rd' + i) % Cap = IF rd' + i < Cap THEN rd' + i ELSE (rd' + i) - Cap
    BY <2>4, Wrap
  <2> QED
    BY <1>1, <2>2, <2>3, <2>5 DEF Slot, Slots
<1>4. rd' \in Slots
  BY <1>1, JBufAssumption DEF Slots
<1>5. wr' = Slot(n)'
  <2>1. n' \in 0..n' /\ n' + d = n
    BY <1>1
  <2>2. Slot(n)' = Slot(n' + d)
    BY <1>1, <1>3, <2>1 DEF Slot
  <2> QED
    BY <1>1, <1>2, <2>1, <2>2
<1>6. TypeOK'
  <2>1. Pics' = Pics /\ n' \in 0..Cap
    BY <1>1, <1>2 DEF Pics
  <2> QED
    BY <1>2, <1>4, <1>5, <2>1 DEF TypeOK
<1>7. ASSUME NEW i \in 0..(n' - 1)
      PROVE  i + d \in 0..(n - 1) /\ At(i)' = At(i + d) /\ Buf(i)' = Buf(i + d)
  <2>1. i + d \in 0..(n - 1) /\ i \in 0..n' /\ i < n' /\ i + d < n
    BY <1>1
  <2>2. Slot(i)' = Slot(i + d)
    BY <1>3, <2>1
  <2>3. At(i)' = stamp'[Slot(i)'] /\ Buf(i)' = data'[Slot(i)']
    BY <2>1 DEF At, Buf
  <2> QED
    BY <1>2, <2>1, <2>2, <2>3 DEF At, Buf
<1> QED
  BY <1>1, <1>6, <1>7 DEF d

-----------------------------------------------------------------------------
(* The steps, one lemma per kind *)

(* The steps that leave the queue as it is leave every view of it alone.     *)
Quiet == UNCHANGED <<stream, made, rd, n, wr, data, stamp, born, seeks>>

LEMMA QuietView ==
  ASSUME Quiet
  PROVE  /\ \A i : At(i)' = At(i) /\ Buf(i)' = Buf(i) /\ Pts(i)' = Pts(i)
         /\ Pics' = Pics /\ Slot(n)' = Slot(n)
         /\ QueueInOrder => QueueInOrder'
<1>1. \A i : At(i)' = At(i) /\ Buf(i)' = Buf(i) /\ Pts(i)' = Pts(i)
  BY DEF Quiet, At, Buf, Pts, Slot
<1>2. Pics' = Pics /\ Slot(n)' = Slot(n) /\ n' = n
  BY DEF Quiet, Pics, Slot
<1>3. QueueInOrder => QueueInOrder'
  BY <1>1, <1>2 DEF QueueInOrder
<1> QED
  BY <1>1, <1>2, <1>3

(* The decoder writes into a buffer that is not queued, so not one being     *)
(* copied either.                                                            *)
LEMMA FreeBuffer ==
  ASSUME TypeOK, n < Cap
  PROVE  \A i \in 0..(n - 1) : Buf(i) \in Slots /\ Buf(i) # data[wr]
<1> USE JBufAssumption
<1>1. TAKE i \in 0..(n - 1)
<1>2. i \in 0..(Cap - 1) /\ n \in 0..(Cap - 1) /\ i # n
  BY DEF TypeOK
<1>3. /\ Slot(i) \in Slots /\ Pos(Slot(i)) = i
      /\ Slot(n) \in Slots /\ Pos(Slot(n)) = n
  BY <1>2, Places DEF TypeOK
<1>4. Slot(i) # Slot(n)
  BY <1>2, <1>3
<1> QED
  BY <1>3, <1>4 DEF TypeOK, Buf

(* A push keeps the pictures it passes in order and the buffers one per slot.*)
LEMMA PushRing ==
  ASSUME Ring, Push
  PROVE  Ring'
<1> USE JBufAssumption
<1>1. TypeOK /\ TypeOK'
  BY PushView DEF Ring
<1>2. PICK k \in 0..n : PushedAt(k)
  BY PushView DEF Ring
<1>3. /\ n' = n + 1 /\ made' = made + 1 /\ dec = "write" /\ dec' = "idle"
      /\ pix' = [pix EXCEPT ![data[wr]] = made + 1]
      /\ UNCHANGED <<stream, rd, up, tex, ready, disp, ds, gpu, born, seeks, gone>>
  BY DEF Push
<1>4. /\ n \in 0..(Cap - 1) /\ made \in Nat /\ made + 1 \in Pics /\ born \in 0..made
      /\ Buf(n) = data[wr] /\ stream \in Seq(Nat) /\ ds # "unready"
  BY <1>3 DEF Ring, TypeOK, Decoding, Pics, Buf
<1>5. \A i \in 0..n :
        /\ At(i)' = IF i < k THEN At(i) ELSE IF i = k THEN made + 1 ELSE At(i - 1)
        /\ Buf(i)' = IF i < k THEN Buf(i) ELSE IF i = k THEN Buf(n) ELSE Buf(i - 1)
  BY <1>2 DEF PushedAt
<1>6. /\ \A i \in 0..(n - 1) : At(i) \in (born + 1)..made /\ pix[Buf(i)] = At(i)
      /\ \A i, j \in 0..(n - 1) : i # j => At(i) # At(j)
  BY DEF Ring, Queued
<1>7. \A i \in 0..(n - 1) : Buf(i) \in Slots /\ Buf(i) # Buf(n)
  BY <1>1, <1>4, FreeBuffer
<1>8. /\ Buf(n) \in Slots /\ pix'[Buf(n)] = made + 1
      /\ \A i \in 0..(n - 1) : pix'[Buf(i)] = At(i)
  <2>1. Buf(n) \in Slots
    BY <1>1, <1>4, Places DEF TypeOK, Buf
  <2> QED
    BY <1>1, <1>3, <1>4, <1>6, <1>7, <2>1 DEF TypeOK
<1>9. \A i \in 0..n : (i < k => i \in 0..(n - 1)) /\ (i > k => i - 1 \in 0..(n - 1))
  BY <1>4
<1>10. Decoding'
  BY <1>3, <1>4 DEF Decoding
<1>11. Queued'
  <2>1. ASSUME NEW i \in 0..n
        PROVE  At(i)' \in (born + 1)..(made + 1) /\ pix'[Buf(i)'] = At(i)'
    <3>1. CASE i < k
      BY <1>4, <1>5, <1>6, <1>8, <1>9, <3>1
    <3>2. CASE i = k
      BY <1>4, <1>5, <1>8, <3>2
    <3>3. CASE i > k
      <4>1. i - 1 \in 0..(n - 1) /\ At(i)' = At(i - 1) /\ Buf(i)' = Buf(i - 1)
        BY <1>5, <1>9, <3>3
      <4> QED
        BY <1>4, <1>6, <1>8, <4>1
    <3> QED
      BY <3>1, <3>2, <3>3
  <2>2. ASSUME NEW i \in 0..n, NEW j \in 0..n, i # j
        PROVE  At(i)' # At(j)'
    <3>1. \A h \in 0..(n - 1) : At(h) # made + 1
      BY <1>4, <1>6
    <3>2. CASE i = k \/ j = k
      BY <1>5, <1>9, <2>2, <3>1, <3>2
    <3>3. CASE i # k /\ j # k
      <4> DEFINE From(h) == IF h < k THEN h ELSE h - 1
      <4>1. From(i) \in 0..(n - 1) /\ From(j) \in 0..(n - 1) /\ From(i) # From(j)
        BY <1>9, <2>2, <3>3
      <4>2. At(i)' = At(From(i)) /\ At(j)' = At(From(j))
        BY <1>5, <3>3
      <4> HIDE DEF From
      <4> QED
        BY <1>6, <4>1, <4>2
    <3> QED
      BY <3>2, <3>3
  <2>3. n' - 1 = n /\ born' = born /\ made' = made + 1
    BY <1>3, <1>4
  <2> QED
    BY <2>1, <2>2, <2>3 DEF Queued
<1>12. QueueInOrder'
  <2> DEFINE p == Pts(made + 1)
             InOrder(x, y) == Pts(y) = 0 \/ Pts(x) <= Pts(y) \/ Pts(x) - Pts(y) >= Disc
  <2>1. \A x : Pts(x)' = Pts(x)
    BY <1>3 DEF Pts
  <2>2. p \in Nat /\ \A i \in 0..(n - 1) : Pts(At(i)) \in Nat
    <3>1. \A q \in 1..Len(stream) : stream[q] \in Nat
      BY <1>4
    <3>2. made + 1 \in 1..Len(stream) /\ made <= Len(stream) /\ Len(stream) \in Nat
      BY <1>1, <1>4 DEF Pics, TypeOK
    <3>3. \A i \in 0..(n - 1) : At(i) \in 1..Len(stream)
      BY <1>4, <1>6, <3>2
    <3> QED
      BY <3>1, <3>2, <3>3 DEF Pts
  <2>3. \A i \in (FrontLocked + 1)..(n - 1) : InOrder(At(i - 1), At(i))
    BY DEF Ring, QueueInOrder
  <2>4. ASSUME NEW i \in (FrontLocked + 1)..n
        PROVE  InOrder(At(i - 1)', At(i)')
    <3>0. i \in 0..n /\ i - 1 \in 0..n
      BY <1>4
    <3>1. CASE i < k
      <4>1. At(i)' = At(i) /\ At(i - 1)' = At(i - 1) /\ i \in (FrontLocked + 1)..(n - 1)
        BY <1>4, <1>5, <3>0, <3>1
      <4> QED
        BY <2>3, <4>1
    <3>2. CASE i = k
      <4>1. At(i)' = made + 1 /\ At(i - 1)' = At(k - 1) /\ k > 0
        BY <1>4, <1>5, <3>0, <3>2
      <4>2. CASE p = 0
        BY <4>1, <4>2
      <4>3. CASE p # 0
        <5>1. ~Passes(p, k - 1) /\ Passable(k - 1) /\ k - 1 \in 0..(n - 1)
          BY <1>2, <1>4, <3>2, <4>1, <4>3 DEF PushedAt, Passable
        <5>2. ~(Pts(At(k - 1)) > p /\ Pts(At(k - 1)) - p < Disc) /\ Pts(At(k - 1)) \in Nat
          BY <2>2, <5>1 DEF Passes
        <5> QED
          BY <2>2, <4>1, <5>2
      <4> QED
        BY <4>2, <4>3
    <3>3. CASE i = k + 1
      <4>1. At(i)' = At(k) /\ At(i - 1)' = made + 1 /\ k \in k..(n - 1) /\ k # n
        BY <1>4, <1>5, <3>0, <3>3
      <4>2. p # 0
        BY <1>2, <4>1 DEF PushedAt
      <4>3. Pts(At(k)) > p
        BY <1>2, <4>1, <4>2 DEF PushedAt, Passes
      <4> QED
        BY <2>2, <4>1, <4>3, <1>4
    <3>4. CASE i > k + 1
      <4>1. /\ At(i)' = At(i - 1) /\ At(i - 1)' = At((i - 1) - 1)
            /\ i - 1 \in (FrontLocked + 1)..(n - 1)
        <5>1. k # n
          BY <1>4, <3>4
        <5>2. k >= FrontLocked
          BY <1>2, <5>1 DEF PushedAt
        <5>3. i - 1 \in (FrontLocked + 1)..(n - 1)
          BY <1>4, <3>4, <5>2
        <5>4. At(i)' = At(i - 1)
          BY <1>5, <3>0, <3>4
        <5>5. At(i - 1)' = At((i - 1) - 1)
          <6> DEFINE h == i - 1
          <6>1. h \in 0..n /\ ~(h < k) /\ h # k
            BY <3>0, <3>4
          <6> HIDE DEF h
          <6>2. At(h)' = At(h - 1)
            BY <1>5, <6>1
          <6> QED
            BY <6>2 DEF h
        <5> QED
          BY <5>3, <5>4, <5>5
      <4> QED
        BY <2>3, <4>1
    <3> QED
      BY <3>1, <3>2, <3>3, <3>4, <1>4
  <2>5. n' - 1 = n
    BY <1>3, <1>4
  <2> QED
    BY <2>1, <2>4, <2>5 DEF QueueInOrder
<1> QED
  BY <1>1, <1>10, <1>11, <1>12 DEF Ring

(* A push leaves the slots in use alone, and what is on the screen or gone   *)
(* is older than the new picture.                                            *)
LEMMA PushShares ==
  ASSUME IInv, Push
  PROVE  Sharing'
<1> USE JBufAssumption
<1>1. TypeOK /\ TypeOK'
  BY PushView DEF IInv, Ring
<1>2. PICK k \in 0..n : PushedAt(k)
  BY PushView DEF IInv, Ring
<1>3. /\ n' = n + 1 /\ made' = made + 1 /\ dec = "write" /\ dec' = "idle"
      /\ pix' = [pix EXCEPT ![data[wr]] = made + 1]
      /\ UNCHANGED <<stream, rd, up, tex, ready, disp, ds, gpu, born, seeks, gone>>
  BY DEF Push
<1>4. /\ n \in 0..(Cap - 1) /\ made \in Nat /\ made + 1 \in Pics /\ born \in 0..made
      /\ Buf(n) = data[wr] /\ stream \in Seq(Nat) /\ ds # "unready"
  BY <1>3 DEF IInv, Ring, TypeOK, Decoding, Pics, Buf
<1>5. \A i \in 0..n :
        /\ At(i)' = IF i < k THEN At(i) ELSE IF i = k THEN made + 1 ELSE At(i - 1)
        /\ Buf(i)' = IF i < k THEN Buf(i) ELSE IF i = k THEN Buf(n) ELSE Buf(i - 1)
  BY <1>2 DEF PushedAt
<1>6. \A i \in 0..n : (i < k => i \in 0..(n - 1)) /\ (i > k => i - 1 \in 0..(n - 1))
  BY <1>4
<1>7. n > 0 => k > 0 /\ At(0)' = At(0) /\ Buf(0)' = Buf(0)
  BY <1>2, <1>4, <1>5 DEF PushedAt
<1>8. n > 1 /\ FrontLocked = 2 => At(1)' = At(1)
  BY <1>2, <1>4, <1>5 DEF PushedAt
<1>9. Turns'
  BY <1>3 DEF IInv, Sharing, Turns, Turning
<1>10. Copying'
  <2> SUFFICES ASSUME up.pc = "copy" PROVE Copying'
    BY <1>3 DEF Copying
  <2>1. /\ n > 0 /\ up.a = At(0) /\ Buf(0) \in up.bufs
        /\ FrontLocked = 2 /\ up.b # NoPic => n > 1 /\ up.b = At(1)
        /\ \A b \in up.bufs : \E i \in 0..(n - 1) : b = Buf(i)
    BY DEF IInv, Sharing, Copying
  <2>2. ASSUME NEW b \in up.bufs
        PROVE  \E i \in 0..n : b = Buf(i)'
    <3>1. PICK i \in 0..(n - 1) : b = Buf(i)
      BY <2>1
    <3>2. CASE i < k
      <4>1. i \in 0..n /\ Buf(i)' = b
        BY <1>4, <1>5, <3>1, <3>2
      <4> QED
        BY <4>1
    <3>3. CASE i >= k
      <4>1. i + 1 \in 0..n /\ ~(i + 1 < k) /\ i + 1 # k /\ (i + 1) - 1 = i
        BY <1>4, <3>3
      <4>2. Buf(i + 1)' = b
        BY <1>5, <3>1, <4>1
      <4> QED
        BY <4>1, <4>2
    <3> QED
      BY <3>2, <3>3
  <2>3. n' - 1 = n /\ n' > 0 /\ (n > 1 => n' > 1)
    BY <1>3, <1>4
  <2> QED
    BY <1>3, <1>7, <1>8, <2>1, <2>2, <2>3 DEF Copying
<1>11. Staged'
  <2>1. n' > 0 /\ (n > 1 => n' > 1)
    BY <1>3, <1>4
  <2> QED
    BY <1>3, <1>7, <1>8, <2>1 DEF IInv, Sharing, Staged
<1>12. Shown'
  <2>1. /\ \A i \in {0, 1} : tex[i].a \in Nat /\ tex[i].a <= made
        /\ gone \subseteq 0..made /\ disp \in {0, 1}
        /\ \A i \in 0..(n - 1) : At(i) \notin gone
        /\ ~Turning => \A i \in 1..(n - 1) : At(i) # tex[disp].a
    <3>1. \A i \in {0, 1} : tex[i].a \in Nat
      <4>1. \A i \in {0, 1} : tex[i].a \in Pics
        BY <1>1 DEF TypeOK
      <4>2. Pics \subseteq Nat
        BY <1>4 DEF Pics
      <4> QED
        BY <4>1, <4>2
    <3>2. disp \in {0, 1}
      BY <1>1 DEF TypeOK
    <3> QED
      BY <3>1, <3>2 DEF IInv, Sharing, Shown
  <2>2. made + 1 \notin gone /\ gone \subseteq 0..(made + 1)
        /\ \A i \in {0, 1} : tex[i].a # made + 1 /\ tex[i].a <= made + 1
    BY <1>4, <2>1
  <2>3. \A i \in 1..n : i > k => i - 1 \in 0..(n - 1) /\ (k > 0 => i - 1 \in 1..(n - 1))
    BY <1>4
  <2>4. \A i \in 1..n : i < k => i \in 1..(n - 1)
    BY <1>4
  <2>5. n' - 1 = n
    BY <1>3, <1>4
  <2>6. \A i \in 0..n : At(i)' \notin gone
    BY <1>5, <1>6, <2>1, <2>2
  <2>7. \A i \in 1..n : i > k => k > 0
    BY <1>4, <1>7
  <2>8. ASSUME NEW q, q # made + 1, \A i \in 1..(n - 1) : At(i) # q
        PROVE  \A i \in 1..n : At(i)' # q
    BY <1>4, <1>5, <2>3, <2>4, <2>7, <2>8
  <2>9. ASSUME NEW q, q # made + 1, \A i \in 0..(n - 1) : At(i) # q
        PROVE  \A i \in 0..n : At(i)' # q
    BY <1>4, <1>5, <1>6, <2>9
  <2>10. CASE ~Turning
    <3>1. \A i \in 1..n : At(i)' # tex[disp].a
      BY <2>1, <2>2, <2>8, <2>10
    <3> QED
      BY <1>3, <2>2, <2>5, <2>6, <2>10, <3>1 DEF Shown, Turning
  <2>11. CASE Turning
    <3> DEFINE s == tex[1 - disp].a
    <3>1. /\ s > born /\ s \notin gone
          /\ \A i \in 1..(n - 1) : At(i) # s
          /\ tex[disp].a # s => \A i \in 0..(n - 1) : At(i) # tex[disp].a
      BY <2>11 DEF IInv, Sharing, Shown
    <3>2. s # made + 1 /\ tex[disp].a # made + 1
      <4>1. 1 - disp \in {0, 1}
        BY <2>1
      <4> QED
        BY <2>1, <2>2, <4>1
    <3> HIDE DEF s
    <3>3. \A i \in 1..n : At(i)' # s
      BY <2>8, <3>1, <3>2
    <3>4. tex[disp].a # s => \A i \in 0..n : At(i)' # tex[disp].a
      BY <2>9, <3>1, <3>2
    <3> QED
      BY <1>3, <2>2, <2>5, <2>6, <2>11, <3>1, <3>3, <3>4 DEF Shown, Turning, s
  <2> QED
    BY <2>10, <2>11
<1> QED
  BY <1>9, <1>10, <1>11, <1>12 DEF Sharing

(* A vblank only shortens the queue.                                         *)
LEMMA GateRing ==
  ASSUME Ring, NEW drops \in 0..(Cap - 1), NEW pop \in {0, 1}, Gate(drops, pop)
  PROVE  Ring'
<1> USE JBufAssumption
<1> DEFINE d == drops + pop
<1>1. /\ TypeOK' /\ n' = n - d /\ n' \in 0..n /\ d \in Nat /\ n \in Nat
      /\ \A i \in 0..(n' - 1) : i + d \in 0..(n - 1) /\ At(i)' = At(i + d) /\ Buf(i)' = Buf(i + d)
  <2>1. TypeOK /\ n \in Nat /\ d \in Nat
    BY DEF Ring, TypeOK
  <2> QED
    BY <2>1, GateView
<1> HIDE DEF d
<1>2. /\ UNCHANGED <<stream, made, wr, data, stamp, pix, dec, up, tex, disp, born, seeks, gone>>
      /\ ds = "vblank" /\ ds' = "clear" /\ gpu' = {} /\ n > 0
  BY DEF Gate
<1>3. Decoding'
  BY <1>1, <1>2 DEF Ring, Decoding, TypeOK
<1>4. Queued'
  <2>1. ASSUME NEW i \in 0..(n' - 1)
        PROVE  At(i)' \in (born + 1)..made /\ pix[Buf(i)'] = At(i)'
    BY <1>1 DEF Ring, Queued
  <2>2. ASSUME NEW i \in 0..(n' - 1), NEW j \in 0..(n' - 1), i # j
        PROVE  At(i)' # At(j)'
    <3>1. i + d # j + d
      BY <1>1, <2>2
    <3> QED
      BY <1>1, <3>1 DEF Ring, Queued
  <2> QED
    BY <1>2, <2>1, <2>2 DEF Queued
<1>5. QueueInOrder'
  <2>1. FrontLocked \in Nat /\ \A x : Pts(x)' = Pts(x)
    BY <1>2 DEF Pts
  <2>2. ASSUME NEW i \in (FrontLocked + 1)..(n' - 1)
        PROVE  /\ At(i)' = At(i + d) /\ At(i - 1)' = At((i + d) - 1)
               /\ i + d \in (FrontLocked + 1)..(n - 1)
    <3>1. i \in 0..(n' - 1) /\ i - 1 \in 0..(n' - 1) /\ (i - 1) + d = (i + d) - 1
      BY <1>1, <2>1
    <3>2. i + d \in (FrontLocked + 1)..(n - 1)
      BY <1>1, <2>1, <3>1
    <3>3. At(i)' = At(i + d)
      BY <1>1, <3>1
    <3>4. At(i - 1)' = At((i + d) - 1)
      <4> DEFINE h == i - 1
      <4>1. h \in 0..(n' - 1) /\ h + d = (i + d) - 1
        BY <3>1
      <4> HIDE DEF h
      <4>2. At(h)' = At(h + d)
        BY <1>1, <4>1
      <4> QED
        BY <4>1, <4>2 DEF h
    <3> QED
      BY <3>2, <3>3, <3>4
  <2> QED
    BY <2>1, <2>2 DEF Ring, QueueInOrder
<1> QED
  BY <1>1, <1>3, <1>4, <1>5 DEF Ring

(* A vblank pops only what has been staged, and then what is staged has left *)
(* the queue or is still its front.                                          *)
LEMMA GateShares ==
  ASSUME IInv, NEW drops \in 0..(Cap - 1), NEW pop \in {0, 1}, Gate(drops, pop)
  PROVE  Sharing'
<1> USE JBufAssumption
<1> DEFINE d == drops + pop
<1>1. /\ TypeOK' /\ n' = n - d /\ n' \in 0..n /\ d \in Nat /\ n \in Nat
      /\ \A i \in 0..(n' - 1) : i + d \in 0..(n - 1) /\ At(i)' = At(i + d) /\ Buf(i)' = Buf(i + d)
  <2>1. TypeOK /\ n \in Nat /\ d \in Nat
    BY DEF IInv, Ring, Sharing, TypeOK
  <2> QED
    BY <2>1, GateView
<1> HIDE DEF d
<1>2. /\ UNCHANGED <<stream, made, wr, data, stamp, pix, dec, up, tex, disp, born, seeks, gone>>
      /\ ds = "vblank" /\ ds' = "clear" /\ gpu' = {} /\ n > 0
  BY DEF Gate
<1>3. ready /\ ready'
  BY DEF Gate
<1>4. up.pc # "copy"
  BY <1>3 DEF IInv, Ring, Sharing, Turns
<1>5. Turns'
  BY <1>2, <1>3, <1>4 DEF Turns, Turning
<1>6. Copying' /\ Staged'
  BY <1>2, <1>4 DEF Copying, Staged
<1>7. Shown'
  <2> DEFINE s == tex[1 - disp].a
  <2>1. s = At(0) /\ 0 \in 0..(n - 1)
    BY <1>1, <1>2, <1>3 DEF IInv, Ring, Sharing, Staged
  <2>2. s > born /\ s \notin gone
    <3>1. born \in Nat /\ made \in Nat
      BY DEF IInv, Ring, Sharing, TypeOK, Pics
    <3> QED
      BY <2>1, <3>1 DEF IInv, Ring, Sharing, Queued, Shown
  <2>3. \A i \in 0..(n' - 1) : At(i)' \notin gone
    BY <1>1 DEF IInv, Ring, Sharing, Shown
  <2>4. ASSUME NEW i \in 1..(n' - 1)
        PROVE  At(i)' # s
    <3>1. i \in 0..(n' - 1) /\ i + d \in 0..(n - 1) /\ i + d # 0
      BY <1>1
    <3> QED
      BY <1>1, <2>1, <3>1 DEF IInv, Ring, Sharing, Queued
  <2>5. ASSUME tex[disp].a # s, NEW i \in 0..(n' - 1)
        PROVE  At(i)' # tex[disp].a
    <3>1. i + d \in 0..(n - 1) /\ At(i)' = At(i + d)
      BY <1>1
    <3>2. CASE i + d = 0
      BY <2>1, <2>5, <3>1, <3>2
    <3>3. CASE i + d # 0
      <4>1. i + d \in 1..(n - 1)
        BY <1>1, <3>1, <3>3
      <4> QED
        BY <1>2, <3>1, <4>1 DEF IInv, Ring, Sharing, Shown, Turning
    <3> QED
      BY <3>2, <3>3
  <2>6. (\A i \in {0, 1} : tex[i].a <= made) /\ gone \subseteq 0..made
    BY DEF IInv, Ring, Sharing, Shown
  <2> HIDE DEF s
  <2> QED
    BY <1>2, <2>2, <2>3, <2>4, <2>5, <2>6 DEF Shown, Turning, s
<1> QED
  BY <1>5, <1>6, <1>7 DEF Sharing

LEMMA DecodeRing ==
  ASSUME Ring, DecodeBegins \/ DecodeFails
  PROVE  Ring'
<1>1. Quiet /\ UNCHANGED <<up, tex, ready, disp, ds, gpu, gone>>
  BY DEF DecodeBegins, DecodeFails, Quiet
<1>2. \A i \in 0..(n - 1) : pix'[Buf(i)] = pix[Buf(i)]
  <2>1. CASE DecodeBegins
    <3>1. \A i \in 0..(n - 1) : Buf(i) \in Slots /\ Buf(i) # data[wr]
      BY <2>1, FreeBuffer DEF Ring, DecodeBegins
    <3> QED
      BY <2>1, <3>1 DEF Ring, TypeOK, DecodeBegins
  <2>2. CASE DecodeFails
    BY <2>2 DEF DecodeFails
  <2> QED
    BY <2>1, <2>2
<1>3. pix' \in [Slots -> Pics] /\ dec' \in {"idle", "write"}
  <2>1. NoPic \in Pics
    BY DEF Ring, TypeOK, NoPic, Pics
  <2> QED
    BY <2>1 DEF DecodeBegins, DecodeFails, Ring, TypeOK
<1>4. TypeOK'
  BY <1>1, <1>3, QuietView DEF Ring, TypeOK, Quiet
<1>5. Decoding'
  BY <1>1 DEF DecodeBegins, DecodeFails, Ring, Decoding, Quiet
<1>6. Queued'
  BY <1>1, <1>2, QuietView DEF Ring, Queued, Quiet
<1> QED
  BY <1>1, <1>4, <1>5, <1>6, QuietView DEF Ring

(* The other steps move no picture: of the ring's invariant only the types   *)
(* are at stake.                                                             *)
LEMMA QuietRing ==
  ASSUME Ring, Quiet, UNCHANGED <<pix, dec>>, TypeOK', ds' = "unready" => ds = "unready"
  PROVE  Ring'
<1>1. Decoding' /\ Queued'
  BY QuietView DEF Ring, Decoding, Queued, Quiet
<1> QED
  BY <1>1, QuietView DEF Ring

LEMMA UploadRing ==
  ASSUME Ring, UploadLooks \/ UploadPublishes
  PROVE  Ring'
<1>1. Quiet /\ UNCHANGED <<pix, dec, disp, ds, gpu, gone>>
  BY DEF UploadLooks, UploadPublishes, Quiet
<1>2. NoPic \in Pics /\ disp \in {0, 1}
  BY DEF Ring, TypeOK, NoPic, Pics
<1>3. \A i \in 0..(Cap - 1) : Slot(i) \in Slots /\ Buf(i) \in Slots
  BY Places DEF Ring, TypeOK, Buf
<1>4. CASE UploadLooks
  <2>1. /\ UNCHANGED tex /\ ready' = ready /\ n > 0
        /\ up' = [pc |-> "copy", a |-> At(0), b |-> At(1),
                  bufs |-> {Buf(i) : i \in 0..(IF n > 1 THEN 1 ELSE 0)}, back |-> 1 - disp]
    BY <1>4 DEF UploadLooks, Buf
  <2>2. At(0) \in Pics /\ At(1) \in Pics
    BY <1>2, <1>3, <2>1, JBufAssumption DEF Ring, TypeOK, At
  <2>3. \A i \in 0..(IF n > 1 THEN 1 ELSE 0) : Buf(i) \in Slots
    BY <1>3, <2>1, JBufAssumption DEF Ring, TypeOK
  <2>4. up' \in [pc : {"look", "copy"}, a : Pics, b : Pics, bufs : SUBSET Slots, back : {0, 1}]
    BY <1>2, <2>1, <2>2, <2>3
  <2>5. TypeOK'
    BY <1>1, <2>1, <2>4, QuietView DEF Ring, TypeOK, Quiet
  <2> QED
    BY <1>1, <2>5, QuietRing
<1>5. CASE UploadPublishes
  <2>1. tex' = [tex EXCEPT ![up.back] = [a |-> up.a, b |-> up.b]] /\ up' = Idle
    BY <1>5 DEF UploadPublishes
  <2>2. ready' \in BOOLEAN
    BY <1>5 DEF UploadPublishes
  <2>3. tex' \in [{0, 1} -> [a : Pics, b : Pics]]
    BY <2>1 DEF Ring, TypeOK
  <2>4. Idle \in [pc : {"look", "copy"}, a : Pics, b : Pics, bufs : SUBSET Slots, back : {0, 1}]
    BY <1>2 DEF Idle
  <2>5. TypeOK'
    BY <1>1, <2>1, <2>2, <2>3, <2>4, QuietView DEF Ring, TypeOK, Quiet
  <2> QED
    BY <1>1, <2>5, QuietRing
<1> QED
  BY <1>4, <1>5

LEMMA DisplayRing ==
  ASSUME Ring, FlipClears \/ FlipToggles \/ Redraws \/ GpuDone \/ SeekUnstages \/ PrefillEnds
  PROVE  Ring'
<1>1. /\ Quiet /\ UNCHANGED <<pix, dec, up, tex>>
      /\ ds' \in {"vblank", "clear", "toggle", "unready", "prefill"}
      /\ ds' = "unready" => ds = "unready"
  BY DEF FlipClears, FlipToggles, Redraws, GpuDone, SeekUnstages, PrefillEnds, Quiet, Ring, TypeOK
<1>2. ready' \in BOOLEAN
  <2>1. CASE FlipClears \/ SeekUnstages
    BY <2>1 DEF FlipClears, SeekUnstages
  <2>2. CASE ready' = ready
    BY <2>2 DEF Ring, TypeOK
  <2> QED
    BY <2>1, <2>2 DEF FlipToggles, Redraws, GpuDone, PrefillEnds
<1>3. disp' \in {0, 1} /\ gpu' \subseteq {0, 1}
  <2>1. disp \in {0, 1} /\ 1 - disp \in {0, 1} /\ gpu \subseteq {0, 1}
    BY DEF Ring, TypeOK
  <2>2. disp' \in {disp, 1 - disp} /\ gpu' \subseteq gpu \cup {disp, 1 - disp}
    BY DEF FlipClears, FlipToggles, Redraws, GpuDone, SeekUnstages, PrefillEnds
  <2> QED
    BY <2>1, <2>2
<1>4. gone' \subseteq Pics
  <2>1. tex[disp].a \in Pics
    BY DEF Ring, TypeOK
  <2> QED
    BY <2>1
    DEF FlipClears, FlipToggles, Redraws, GpuDone, SeekUnstages, PrefillEnds, Ring, TypeOK
<1>5. TypeOK'
  BY <1>1, <1>2, <1>3, <1>4, QuietView DEF Ring, TypeOK, Quiet
<1> QED
  BY <1>1, <1>5, QuietRing

LEMMA SeekRing ==
  ASSUME Ring, SeekFlushes
  PROVE  Ring'
<1>1. /\ n' = 0 /\ rd' = 0 /\ wr' = 0 /\ born' = made /\ ds' = "unready" /\ dec = "idle"
      /\ seeks < MaxSeeks /\ seeks' = seeks + 1
      /\ UNCHANGED <<stream, made, data, stamp, pix, dec, up, tex, ready, disp, gpu, gone>>
  BY DEF SeekFlushes
<1>2. made \in Nat /\ 0 \in Slots /\ Slot(n)' = 0
  <2>1. 0 % Cap = 0
    BY JBufAssumption, Wrap
  <2> QED
    BY <1>1, <2>1, JBufAssumption DEF Ring, TypeOK, Pics, Slots, Slot
<1>3. TypeOK'
  <2>1. seeks' \in 0..MaxSeeks /\ born' \in 0..made' /\ n' \in 0..Cap /\ Pics' = Pics
    BY <1>1, <1>2, JBufAssumption DEF Ring, TypeOK, Pics
  <2> QED
    BY <1>1, <1>2, <2>1 DEF Ring, TypeOK
<1>4. Decoding' /\ Queued'
  <2>1. \A i \in 0..(n' - 1) : FALSE
    BY <1>1
  <2> QED
    BY <1>1, <2>1 DEF Decoding, Queued
<1>5. QueueInOrder'
  <2>1. \A i \in (FrontLocked + 1)..(n' - 1) : FALSE
    BY <1>1, JBufAssumption
  <2> QED
    BY <2>1 DEF QueueInOrder
<1> QED
  BY <1>3, <1>4, <1>5 DEF Ring

LEMMA RingKeeps == Ring /\ [Next]_vars => Ring'
<1> SUFFICES ASSUME Ring, [Next]_vars PROVE Ring'
  OBVIOUS
<1>1. CASE \E drops \in 0..(Cap - 1), pop \in {0, 1} : Gate(drops, pop)
  BY <1>1, GateRing
<1>2. CASE UNCHANGED vars
  <2>1. Quiet /\ UNCHANGED <<pix, dec, up, tex, ready, disp, ds, gpu, gone>>
    BY <1>2 DEF vars, Quiet
  <2>2. TypeOK'
    BY <2>1, QuietView DEF Ring, TypeOK, Quiet
  <2> QED
    BY <2>1, <2>2, QuietRing
<1> QED
  BY <1>1, <1>2, PushRing, DecodeRing, UploadRing, DisplayRing, SeekRing DEF Next

-----------------------------------------------------------------------------
(* Who uses what *)

(* The upload thread takes the front of the queue, and publishes it while it  *)
(* is still the front: nothing pops before it is staged.                      *)
LEMMA LookShares ==
  ASSUME IInv, UploadLooks, FlipAtOnce
  PROVE  Sharing'
<1>1. /\ Quiet /\ UNCHANGED <<pix, dec, tex, ready, disp, ds, gpu, gone>>
      /\ ~ready /\ n > 0 /\ ds # "toggle"
      /\ up' = [pc |-> "copy", a |-> At(0), b |-> At(1),
                bufs |-> {Buf(i) : i \in 0..(IF n > 1 THEN 1 ELSE 0)}, back |-> 1 - disp]
  BY DEF UploadLooks, Quiet, Buf
<1>2. n \in Nat /\ disp \in {0, 1}
  BY JBufAssumption DEF IInv, Ring, TypeOK
<1>3. ds # "unready" /\ (At(1) # NoPic => n > 1)
  BY <1>1, <1>2 DEF IInv, Ring, Decoding, At
<1>4. \A b \in up'.bufs : \E i \in 0..(n - 1) : b = Buf(i)
  <2>1. \A i \in 0..(IF n > 1 THEN 1 ELSE 0) : i \in 0..(n - 1)
    BY <1>1, <1>2
  <2> QED
    BY <1>1, <2>1
<1>5. Turns'
  BY <1>1, <1>3 DEF IInv, Sharing, Turns, Turning
<1>6. Copying'
  <2>1. Buf(0) \in up'.bufs /\ up'.a = At(0) /\ up'.b = At(1)
    BY <1>1
  <2> QED
    BY <1>1, <1>3, <1>4, <2>1, QuietView DEF Copying, Quiet
<1>7. Staged' /\ Shown'
  BY <1>1, QuietView DEF IInv, Sharing, Staged, Shown, Turning, Quiet
<1> QED
  BY <1>5, <1>6, <1>7 DEF Sharing

LEMMA PublishShares ==
  ASSUME IInv, UploadPublishes
  PROVE  Sharing'
<1>1. /\ Quiet /\ UNCHANGED <<disp, ds, gpu, gone>> /\ up.pc = "copy"
      /\ tex' = [tex EXCEPT ![up.back] = [a |-> up.a, b |-> up.b]] /\ up' = Idle
  BY DEF UploadPublishes, Quiet
<1>2. ready' /\ ready' \in BOOLEAN
  BY DEF UploadPublishes
<1>3. /\ disp \in {0, 1} /\ up.back = 1 - disp /\ 1 - disp \in {0, 1}
      /\ tex \in [{0, 1} -> [a : Pics, b : Pics]]
  BY <1>1 DEF IInv, Ring, Sharing, TypeOK, Turns
<1>4. tex'[disp] = tex[disp] /\ tex'[1 - disp] = [a |-> up.a, b |-> up.b]
  BY <1>1, <1>3
<1>5. /\ n > 0 /\ up.a = At(0) /\ up.a <= made
      /\ FrontLocked = 2 /\ up.b # NoPic => n > 1 /\ up.b = At(1)
  <2>1. n > 0 /\ up.a = At(0) /\ (FrontLocked = 2 /\ up.b # NoPic => n > 1 /\ up.b = At(1))
    BY <1>1 DEF IInv, Sharing, Copying
  <2>2. n \in Nat /\ born \in Nat /\ made \in Nat
    BY JBufAssumption DEF IInv, Ring, TypeOK, Pics
  <2>3. At(0) \in (born + 1)..made
    BY <2>1, <2>2 DEF IInv, Ring, Queued
  <2> QED
    BY <2>1, <2>2, <2>3
<1>6. ds \notin {"toggle", "unready", "clear"}
  BY <1>1 DEF IInv, Sharing, Turns
<1>7. Turns' /\ Copying'
  BY <1>1, <1>2, <1>6 DEF IInv, Sharing, Turns, Turning, Copying, Idle
<1>8. Staged'
  BY <1>1, <1>4, <1>5, QuietView DEF Staged, Quiet
<1>9. Shown'
  <2>1. \A i \in {0, 1} : tex'[i].a <= made
    <3>1. tex'[disp].a <= made /\ tex'[1 - disp].a <= made
      BY <1>3, <1>4, <1>5 DEF IInv, Sharing, Shown
    <3> QED
      BY <1>3, <3>1
  <2>2. \A i \in 1..(n - 1) : At(i) # tex'[disp].a
    BY <1>4, <1>6 DEF IInv, Sharing, Shown, Turning
  <2>3. gone \subseteq 0..made /\ \A i \in 0..(n - 1) : At(i) \notin gone
    BY DEF IInv, Sharing, Shown
  <2> QED
    BY <1>1, <1>6, <2>1, <2>2, <2>3, QuietView DEF Shown, Turning, Quiet
<1> QED
  BY <1>7, <1>8, <1>9 DEF Sharing

(* The flip: the staged picture comes up, the one it replaces is gone.       *)
LEMMA FlipShares ==
  ASSUME IInv, FlipClears \/ FlipToggles
  PROVE  Sharing'
<1>1. /\ Quiet /\ UNCHANGED <<up, tex>> /\ Turning
  BY DEF FlipClears, FlipToggles, Quiet, Turning
<1>2. disp \in {0, 1} /\ gpu = {} /\ up.pc # "copy"
  BY <1>1 DEF IInv, Ring, Sharing, TypeOK, Turns, Turning
<1>3. Copying' /\ Staged'
  <2>1. ~ready'
    BY DEF FlipClears, FlipToggles, IInv, Sharing, Turns
  <2> QED
    BY <1>1, <1>2, <2>1 DEF Copying, Staged
<1>4. CASE FlipClears
  <2>1. UNCHANGED <<disp, gpu, gone>> /\ ds = "clear" /\ ds' = "toggle"
    BY <1>4 DEF FlipClears
  <2>2. ~ready' /\ ready' \in BOOLEAN
    BY <1>4 DEF FlipClears
  <2>3. Turns'
    BY <1>1, <1>2, <2>1, <2>2 DEF Turns, Turning
  <2>4. Shown'
    BY <1>1, <2>1, QuietView DEF IInv, Sharing, Shown, Turning, Quiet
  <2> QED
    BY <1>3, <2>3, <2>4 DEF Sharing
<1>5. CASE FlipToggles
  <2> DEFINE s == tex[1 - disp].a
  <2>1. /\ UNCHANGED ready /\ ds = "toggle" /\ ds' = "vblank"
        /\ disp' = 1 - disp /\ gpu' = gpu \cup {1 - disp}
        /\ gone' = IF s = tex[disp].a THEN gone ELSE gone \cup {tex[disp].a}
    BY <1>5 DEF FlipToggles
  <2>2. gpu' = {disp'} /\ ~ready /\ tex[disp'].a = s
    BY <1>2, <2>1 DEF IInv, Sharing, Turns
  <2>3. tex[disp].a \in 0..made
    <3>1. tex[disp].a \in Pics
      BY <1>2 DEF IInv, Ring, TypeOK
    <3>2. tex[disp].a \in Nat /\ made \in Nat
      BY <3>1 DEF IInv, Ring, TypeOK, Pics
    <3> QED
      BY <1>2, <3>1, <3>2 DEF IInv, Sharing, Shown
  <2>4. Turns'
    BY <1>1, <1>2, <2>1, <2>2 DEF Turns, Turning
  <2>5. Shown'
    <3>1. \A i \in 0..(n - 1) : At(i) \notin gone'
      BY <1>1, <2>1 DEF IInv, Sharing, Shown
    <3>2. gone' \subseteq 0..made
      BY <2>1, <2>3 DEF IInv, Sharing, Shown
    <3>3. \A i \in 1..(n - 1) : At(i) # tex[disp'].a
      BY <1>1, <2>2 DEF IInv, Sharing, Shown
    <3>4. \A i \in {0, 1} : tex[i].a <= made
      BY DEF IInv, Sharing, Shown
    <3> QED
      BY <1>1, <2>1, <3>1, <3>2, <3>3, <3>4, QuietView DEF Shown, Turning, Quiet
  <2> QED
    BY <1>3, <2>4, <2>5 DEF Sharing
<1> QED
  BY <1>4, <1>5

LEMMA GpuShares ==
  ASSUME IInv, Redraws \/ GpuDone
  PROVE  Sharing'
<1>1. /\ Quiet /\ UNCHANGED <<up, tex, ready, disp, ds, gone>>
  BY DEF Redraws, GpuDone, Quiet
<1>2. gpu' \subseteq {disp} /\ (Turning => gpu' = {})
  BY DEF Redraws, GpuDone, IInv, Sharing, Turns, Turning
<1>3. Turns'
  BY <1>1, <1>2 DEF IInv, Sharing, Turns, Turning
<1>4. Copying' /\ Staged' /\ Shown'
  BY <1>1, QuietView DEF IInv, Sharing, Copying, Staged, Shown, Turning, Quiet
<1> QED
  BY <1>3, <1>4 DEF Sharing

(* A seek empties the queue while no copy is under way, and then unstages.   *)
LEMMA SeekShares ==
  ASSUME IInv, SeekFlushes, CopyEnds
  PROVE  Sharing'
<1>1. /\ n' = 0 /\ born' = made /\ ds = "vblank" /\ ds' = "unready" /\ up.pc = "look"
      /\ UNCHANGED <<made, up, tex, ready, disp, gpu, gone>>
  BY DEF SeekFlushes
<1>2. Copying' /\ Staged' /\ Turns'
  BY <1>1 DEF IInv, Sharing, Copying, Staged, Turns, Turning
<1>3. Shown'
  <2>1. (\A i \in 0..(n' - 1) : FALSE) /\ \A i \in 1..(n' - 1) : FALSE
    BY <1>1
  <2> QED
    BY <1>1, <2>1 DEF IInv, Sharing, Shown, Turning
<1> QED
  BY <1>2, <1>3 DEF Sharing

LEMMA PrefillShares ==
  ASSUME IInv, SeekUnstages \/ PrefillEnds
  PROVE  Sharing'
<1>1. /\ Quiet /\ UNCHANGED <<up, tex, disp, gpu, gone>>
      /\ ds \in {"unready", "prefill"} /\ ds' \in {"prefill", "vblank"}
  BY DEF SeekUnstages, PrefillEnds, Quiet
<1>2. (ready' => ready) /\ (ready' => ds = "prefill")
  <2>1. CASE SeekUnstages
    <3>1. ready' = FALSE
      BY <2>1 DEF SeekUnstages
    <3> QED
      BY <3>1
  <2>2. CASE PrefillEnds
    <3>1. ready' = ready /\ ds = "prefill"
      BY <2>2 DEF PrefillEnds
    <3> QED
      BY <3>1
  <2> QED
    BY <2>1, <2>2
<1>3. Turns'
  BY <1>1, <1>2 DEF IInv, Sharing, Turns, Turning
<1>4. Copying' /\ Staged'
  BY <1>1, <1>2, QuietView DEF IInv, Sharing, Copying, Staged, Quiet
<1>5. Shown'
  BY <1>1, QuietView DEF IInv, Sharing, Shown, Turning, Quiet
<1> QED
  BY <1>3, <1>4, <1>5 DEF Sharing

(* Decoding and stuttering touch nothing that is shared.                     *)
LEMMA OthersShare ==
  ASSUME IInv, DecodeBegins \/ DecodeFails \/ UNCHANGED vars
  PROVE  Sharing'
<1>1. Quiet /\ UNCHANGED <<up, tex, ready, disp, ds, gpu, gone>>
  BY DEF DecodeBegins, DecodeFails, vars, Quiet
<1> QED
  BY <1>1, QuietView
  DEF IInv, Sharing, Turns, Copying, Staged, Shown, Turning, Quiet

-----------------------------------------------------------------------------
(* The results *)
LEMMA InitHolds == Init => IInv
<1> SUFFICES ASSUME Init PROVE IInv
  OBVIOUS
<1> USE JBufAssumption
<1>1. /\ stream \in Streams /\ made = 0 /\ rd = 0 /\ n = 0 /\ wr = 0 /\ born = 0 /\ seeks = 0
      /\ data = [s \in Slots |-> s] /\ stamp = [s \in Slots |-> NoPic]
      /\ pix = [s \in Slots |-> NoPic] /\ dec = "idle" /\ up = Idle
      /\ tex = [i \in {0, 1} |-> [a |-> NoPic, b |-> NoPic]] /\ disp = 0
      /\ ds = "prefill" /\ gpu = {} /\ gone = {}
  BY DEF Init
<1>2. ~ready /\ ready \in BOOLEAN
  BY DEF Init
<1>3. 0 \in Pics /\ 0 \in Slots /\ Slot(n) = 0
  <2>1. 0 % Cap = 0
    BY Wrap
  <2>2. Len(stream) \in Nat
    BY <1>1
  <2> QED
    BY <1>1, <2>1, <2>2 DEF Pics, Slots, Slot
<1>4. TypeOK
  <2>1. Idle \in [pc : {"look", "copy"}, a : Pics, b : Pics, bufs : SUBSET Slots, back : {0, 1}]
    BY <1>3 DEF Idle, NoPic
  <2>2. /\ made \in Pics /\ born \in 0..made /\ rd \in Slots /\ n \in 0..Cap /\ wr = Slot(n)
        /\ seeks \in 0..MaxSeeks
    BY <1>1, <1>3
  <2>3. /\ data \in [Slots -> Slots] /\ \A s, t \in Slots : s # t => data[s] # data[t]
        /\ stamp \in [Slots -> Pics] /\ pix \in [Slots -> Pics]
        /\ tex \in [{0, 1} -> [a : Pics, b : Pics]]
    BY <1>1, <1>3 DEF NoPic
  <2> QED
    BY <1>1, <1>2, <2>1, <2>2, <2>3 DEF TypeOK
<1>5. (\A i \in 0..(n - 1) : FALSE) /\ (\A i \in 1..(n - 1) : FALSE)
      /\ \A i \in (FrontLocked + 1)..(n - 1) : FALSE
  BY <1>1
<1>6. Decoding /\ Queued /\ Turns /\ Copying /\ Staged /\ QueueInOrder
  BY <1>1, <1>2, <1>5
  DEF Decoding, Queued, Turns, Turning, Copying, Staged, QueueInOrder, Idle
<1>7. Shown
  <2>1. \A i \in {0, 1} : tex[i].a <= made
    BY <1>1 DEF NoPic
  <2> QED
    BY <1>1, <1>5, <2>1 DEF Shown, Turning
<1> QED
  BY <1>4, <1>6, <1>7 DEF IInv, Ring, Sharing

LEMMA StepKeeps ==
  ASSUME FlipAtOnce, CopyEnds
  PROVE  IInv /\ [Next]_vars => IInv'
<1> SUFFICES ASSUME IInv, [Next]_vars PROVE Sharing'
  BY RingKeeps DEF IInv
<1>1. CASE \E drops \in 0..(Cap - 1), pop \in {0, 1} : Gate(drops, pop)
  BY <1>1, GateShares
<1> QED
  BY <1>1, PushShares, LookShares, PublishShares, FlipShares, GpuShares, SeekShares,
     PrefillShares, OthersShare DEF Next

LEMMA Invariant ==
  ASSUME FlipAtOnce, CopyEnds
  PROVE  Spec => []IInv
  BY InitHolds, StepKeeps, PTL DEF Spec

(* "the other texture is safe to overwrite without blocking on the GPU"       *)
(* (player_display.cpp): the upload thread fills the texture that is neither *)
(* shown nor being read by the GPU, for every ring, stream and seek.          *)
THEOREM TextureIsRetiredAlways ==
  ASSUME FlipAtOnce, CopyEnds
  PROVE  Spec => []TextureIsRetired
<1>1. IInv => TextureIsRetired
  BY DEF IInv, Ring, Sharing, TypeOK, Turns, TextureIsRetired
<1> QED
  BY Invariant, <1>1, PTL

(* The upload thread copies outside the lock what nobody writes meanwhile:    *)
(* however pushes trade the buffers of the ring, the decoder is handed none   *)
(* that is being copied, and every slot leads to its own picture.             *)
THEOREM SlotsNotRacedAlways ==
  ASSUME FlipAtOnce, CopyEnds
  PROVE  Spec => []SlotsNotRaced
<1>1. IInv => SlotsNotRaced
  <2> SUFFICES ASSUME IInv PROVE SlotsNotRaced
    OBVIOUS
  <2>1. up.pc = "copy" /\ dec = "write" => data[wr] \notin up.bufs
    BY FreeBuffer DEF IInv, Ring, Sharing, Copying, Decoding
  <2>2. \A i \in 0..(n - 1) : pix[data[Slot(i)]] = At(i)
    BY DEF IInv, Ring, Queued, Buf
  <2>3. up.pc = "copy" => \E b \in up.bufs : pix[b] = up.a
    <3> SUFFICES ASSUME up.pc = "copy" PROVE \E b \in up.bufs : pix[b] = up.a
      OBVIOUS
    <3>1. 0 \in 0..(n - 1) /\ up.a = At(0) /\ Buf(0) \in up.bufs
      BY JBufAssumption DEF IInv, Ring, Sharing, Copying, TypeOK
    <3>2. pix[Buf(0)] = up.a
      BY <3>1 DEF IInv, Ring, Queued
    <3> QED
      BY <3>1, <3>2
  <2> QED
    BY <2>1, <2>2, <2>3 DEF SlotsNotRaced
<1> QED
  BY Invariant, <1>1, PTL

(* What the display decides on is what it will show (jbuf_set_front_locked):  *)
(* the staged pictures are the front of the ring at every vblank.             *)
THEOREM StagedIsFrontAlways ==
  ASSUME FlipAtOnce, CopyEnds
  PROVE  Spec => []StagedIsFront
<1>1. IInv => StagedIsFront
  BY DEF IInv, Sharing, Staged, StagedIsFront
<1> QED
  BY Invariant, <1>1, PTL

(* jbuf_push: behind the slots in use the queue is in timestamp order, for    *)
(* every order in which pictures may be decoded, and whatever the timing.     *)
THEOREM QueueInOrderAlways == Spec => []QueueInOrder
<1>1. Init => Ring
  BY InitHolds DEF IInv
<1>2. Ring => QueueInOrder
  BY DEF Ring
<1> QED
  BY <1>1, RingKeeps, <1>2, PTL DEF Spec

(* A picture that left the screen never comes back, and none of the old       *)
(* stream comes up after a seek: over any number of drops, redraws and seeks. *)
THEOREM NeverBackAlways ==
  ASSUME FlipAtOnce, CopyEnds
  PROVE  Spec => NeverBack
<1> DEFINE A == tex'[disp'].a # tex[disp].a => tex'[disp'].a \notin gone /\ tex'[disp'].a > born
<1>1. IInv /\ [Next]_vars => [A]_vars
  <2> SUFFICES ASSUME IInv, [Next]_vars, tex'[disp'].a # tex[disp].a
               PROVE  tex'[disp'].a \notin gone /\ tex'[disp'].a > born
    OBVIOUS
  <2>1. CASE FlipToggles
    <3>1. tex' = tex /\ disp' = 1 - disp /\ Turning
      BY <2>1 DEF FlipToggles, Turning
    <3> QED
      BY <3>1 DEF IInv, Sharing, Shown
  <2>2. CASE UploadPublishes
    <3>1. tex' = [tex EXCEPT ![up.back] = [a |-> up.a, b |-> up.b]] /\ disp' = disp
          /\ up.pc = "copy"
      BY <2>2 DEF UploadPublishes
    <3>2. tex'[disp] = tex[disp]
      BY <3>1 DEF IInv, Ring, Sharing, TypeOK, Turns
    <3> QED
      BY <3>1, <3>2
  <2>3. CASE UNCHANGED <<tex, disp>>
    BY <2>3
  <2> QED
    BY <2>1, <2>2, <2>3
    DEF Next, vars, DecodeBegins, DecodeFails, Push, UploadLooks, Gate, FlipClears, Redraws,
        GpuDone, SeekFlushes, SeekUnstages, PrefillEnds
<1> QED
  BY Invariant, <1>1, PTL DEF Spec, NeverBack
=============================================================================
