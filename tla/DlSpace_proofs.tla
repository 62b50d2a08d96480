--------------------------- MODULE DlSpace_proofs ---------------------------
(***************************************************************************)
(* For every buffer size, check interval, reserve and sequence of reads, a *)
(* transfer eats into the reserve by no more than the unwritten rest of    *)
(* the buffer.                                                             *)
(***************************************************************************)
EXTENDS DlSpace, TLAPS

\* A gate that opens leaves the credit a body starts with.
LEMMA GateGivesCredit ==
  ASSUME NEW tot \in Nat, NEW have \in Nat, NEW f \in Int,
         tot > 0 => have <= tot,
         GateOpen(Left(tot, have), f)
  PROVE  f >= Reserve + (IF tot > 0 /\ tot - have < WriteMargin /\ tot > have
                         THEN tot - have ELSE WriteMargin)
  BY SpaceAssumption DEF GateOpen, Left, WriteMargin

\* Right after a gate, nothing has come in since: the credit is whole but for
\* what stays in the buffer, which the gate did not count.
LEMMA CreditAfterGate ==
  ASSUME NEW avail \in Int, NEW kept \in Int, NEW res \in Int, NEW c \in Int,
         NEW most \in Int, NEW since \in Int,
         avail >= res + c, kept <= most, since = 0
  PROVE  avail - kept >= res + c - most - since
  OBVIOUS

\* Without a gate, what comes in is spent from the credit.
LEMMA CreditSpent ==
  ASSUME NEW left \in Int, NEW res \in Int, NEW c \in Int, NEW most \in Int,
         NEW since \in Int, NEW n \in Int, NEW left1 \in Int, NEW since1 \in Int,
         left >= res + c - most - since, left1 = left - n, since1 = since + n
  PROVE  left1 >= res + c - most - since1
  OBVIOUS

\* The initial states satisfy the invariant.
LEMMA SpaceInit == Init => SpaceInv
  BY SpaceAssumption DEF Init, SpaceInv, TypeOK, ReserveNearlyKept, Uncounted

\* Every step keeps it: a read spends from the credit of the last gate.
LEMMA SpaceStep == SpaceInv /\ [Next]_vars => SpaceInv'
<1> SUFFICES ASSUME SpaceInv, [Next]_vars PROVE SpaceInv'
  OBVIOUS
<1> USE SpaceAssumption
<1>1. ASSUME NEW f \in Frees, StartRefused(f) PROVE SpaceInv'
  BY <1>1 DEF StartRefused, SpaceInv, TypeOK, ReserveNearlyKept
<1>2. ASSUME NEW f \in Frees, NEW tot \in Totals, NEW restart \in BOOLEAN,
             Begin(f, tot, restart)
      PROVE  SpaceInv'
  <2>1. TypeOK' /\ ReserveNearlyKept'
    BY <1>2 DEF Begin, SpaceInv, TypeOK, ReserveNearlyKept
  <2>2. ASSUME pc' = "body"
        PROVE  f >= Reserve + Credit'
    <3>1. GateOpen(Left(tot, file'), f)
      BY <1>2, <2>2 DEF Begin
    <3>2. total' = tot /\ last' = file' /\ file' \in Nat /\ (tot > 0 => file' <= tot)
      BY <1>2, <2>1 DEF Begin, TypeOK
    <3>3. tot \in Nat /\ f \in Int
      OBVIOUS
    <3>4. f >= Reserve + (IF tot > 0 /\ tot - file' < WriteMargin /\ tot > file'
                          THEN tot - file' ELSE WriteMargin)
      BY <3>1, <3>2, <3>3, GateGivesCredit
    <3> QED
      BY <3>2, <3>4 DEF Credit, WriteMargin
  <2>3. pc' = "body" => (/\ fill <= Uncounted
                         /\ last <= Have /\ Have - last < Check
                         /\ total > 0 => Have <= total
                         /\ free - fill >= Reserve + Credit - Uncounted - (Have - last))'
    BY <1>2, <2>1, <2>2 DEF Begin, TypeOK, Have, Uncounted, Credit, WriteMargin
  <2> QED
    BY <2>1, <2>3 DEF SpaceInv
<1>3. ASSUME NEW n \in 1..(Buf - fill), NEW ckpt \in BOOLEAN, Recv(n, ckpt)
      PROVE  SpaceInv'
  <2> DEFINE now == Received(n)
  <2> HIDE DEF now
  <2>1. /\ pc = "body" /\ fill <= Uncounted /\ last <= Have /\ Have - last < Check
        /\ total > 0 => Have <= total /\ now <= total
        /\ free - fill >= Reserve + Credit - Uncounted - (Have - last)
        /\ now = file + fill + n /\ now \in Nat
        /\ TypeOK
    BY <1>3 DEF Recv, SpaceInv, TypeOK, Received, Have, now
  <2>2. /\ Have' = now
        /\ free' - fill' = free - fill - n
        /\ fill' \in 0..Buf /\ file' \in Nat /\ free' \in Int
        /\ free' >= free' - fill'
        /\ pc' = "body" => fill' <= Uncounted
    BY <1>3, <2>1 DEF Recv, FlushDue, Received, Have, TypeOK, Uncounted, now
  <2>3. /\ TypeOK'
        /\ total' = total
        /\ last' \in {last, now} /\ last' <= now
    BY <1>3, <2>1, <2>2 DEF Recv, TypeOK, Have, now
  <2>4. free - fill - n >= Reserve - Uncounted
    <3>1. CASE total > 0 /\ total - last < WriteMargin /\ total > last
      BY <2>1, <3>1 DEF Credit, TypeOK, Have, Uncounted, WriteMargin
    <3>2. CASE ~(total > 0 /\ total - last < WriteMargin /\ total > last)
      BY <2>1, <3>2 DEF Credit, TypeOK, Have, Uncounted, WriteMargin
    <3> QED BY <3>1, <3>2
  <2>5. ReserveNearlyKept'
    BY <2>2, <2>3, <2>4 DEF ReserveNearlyKept, TypeOK, Uncounted
  <2>6. ASSUME pc' = "body"
        PROVE  /\ (last <= Have /\ Have - last < Check)'
               /\ (total > 0 => Have <= total)'
               /\ (free - fill >= Reserve + Credit - Uncounted - (Have - last))'
    <3>1. CASE now - last >= Check
      <4>1. last' = now /\ GateOpen(Left(total, now), free')
        BY <1>3, <2>6, <3>1 DEF Recv, now
      <4>2. total \in Nat /\ now \in Nat /\ free' \in Int /\ (total > 0 => now <= total)
        BY <2>1, <2>2 DEF TypeOK
      <4>3. free' >= Reserve + (IF total > 0 /\ total - now < WriteMargin /\ total > now
                                THEN total - now ELSE WriteMargin)
        BY <4>1, <4>2, GateGivesCredit
      <4>4. free' >= Reserve + Credit'
        BY <2>3, <4>1, <4>3 DEF Credit, WriteMargin
      <4>5. Credit' \in Int
        BY <2>1, <2>3, <4>1 DEF Credit, TypeOK, WriteMargin
      <4>6. Have' = now /\ last' = now /\ now \in Nat /\ total' = total
        BY <2>1, <2>2, <2>3, <4>1
      <4>7. (last <= Have /\ Have - last < Check)' /\ (total > 0 => Have <= total)'
        BY <4>2, <4>6
      <4>8. /\ free' \in Int /\ fill' \in Int /\ fill' <= Uncounted
            /\ Uncounted \in Int /\ Reserve \in Int
        BY <2>2, <2>6 DEF Uncounted
      <4>9. (Have - last)' = 0 /\ (Have - last)' \in Int
        <5> DEFINE h == Have'
        <5>1. h = now /\ last' = now /\ now \in Nat
          BY <4>6
        <5> HIDE DEF h
        <5>2. h - last' = 0
          BY <5>1
        <5> QED
          BY <5>2 DEF h
      <4>10. (free - fill)' >= Reserve + Credit' - Uncounted - (Have - last)'
        BY <4>4, <4>5, <4>8, <4>9, CreditAfterGate
      <4> QED
        BY <4>7, <4>10 DEF Uncounted
    <3>2. CASE now - last < Check
      <4>1. last' = last
        BY <1>3, <2>1, <2>3, <3>2 DEF Recv, TypeOK, now
      <4>2. Credit' = Credit
        BY <2>3, <4>1 DEF Credit
      <4>3. Credit \in Int
        BY <2>1 DEF Credit, TypeOK, WriteMargin
      <4>4. Have \in Nat /\ free \in Int /\ fill \in Int /\ now = Have + n
        BY <2>1 DEF TypeOK, Have
      <4>5. (last <= Have /\ Have - last < Check)' /\ (total > 0 => Have <= total)'
        BY <2>1, <2>2, <2>3, <3>2, <4>1, <4>4 DEF TypeOK
      <4>6. last \in Int /\ free' \in Int /\ fill' \in Int /\ n \in Int
        BY <2>1, <2>2 DEF TypeOK
      <4>7. /\ (free - fill)' = free - fill - n
            /\ (Have - last)' = Have - last + n
        <5> DEFINE h == Have'
        <5>1. /\ h = now /\ last' = last /\ now = Have + n
              /\ Have \in Nat /\ last \in Int /\ n \in Int
          BY <2>2, <4>1, <4>4, <4>6
        <5> HIDE DEF h
        <5>2. h - last' = Have - last + n
          BY <5>1
        <5> QED
          BY <2>2, <5>2 DEF h
      <4>8. /\ Reserve \in Int /\ Uncounted \in Int /\ free - fill \in Int
            /\ Have - last \in Int
            /\ (free - fill)' \in Int /\ (Have - last)' \in Int
        BY <4>4, <4>6, <4>7 DEF Uncounted
      <4>9. (free - fill)' >= Reserve + Credit - Uncounted - (Have - last)'
        BY <2>1, <4>3, <4>6, <4>7, <4>8, CreditSpent
      <4> QED
        BY <4>2, <4>5, <4>9 DEF Uncounted
    <3> QED BY <2>1, <3>1, <3>2 DEF TypeOK
  <2> QED
    BY <2>2, <2>3, <2>5, <2>6 DEF SpaceInv
<1>4. CASE End
  <2>1. TypeOK'
    BY <1>4 DEF End, SpaceInv, TypeOK, Have
  <2>2. free - fill >= Reserve - Uncounted
    <3>1. pc = "body" /\ TypeOK /\ (total > 0 => Have <= total) /\ Have - last < Check
          /\ last <= Have
          /\ free - fill >= Reserve + Credit - Uncounted - (Have - last)
      BY <1>4 DEF End, SpaceInv
    <3>2. CASE total > 0 /\ total - last < WriteMargin /\ total > last
      BY <3>1, <3>2 DEF Credit, TypeOK, Have, Uncounted, WriteMargin
    <3>3. CASE ~(total > 0 /\ total - last < WriteMargin /\ total > last)
      BY <3>1, <3>3 DEF Credit, TypeOK, Have, Uncounted, WriteMargin
    <3> QED BY <3>2, <3>3
  <2>3. ReserveNearlyKept'
    BY <1>4, <2>2 DEF End, ReserveNearlyKept, SpaceInv, TypeOK, Uncounted
  <2> QED
    BY <1>4, <2>1, <2>3 DEF End, SpaceInv
<1>5. CASE UNCHANGED vars
  BY <1>5 DEF vars, SpaceInv, TypeOK, ReserveNearlyKept, Credit, Have, Uncounted
<1> QED
  BY <1>1, <1>2, <1>3, <1>4, <1>5 DEF Next

\* dl_manager.cpp, space_gate and flush_buf: a transfer never takes the HDD
\* further below the reserve than the part of the buffer a gate does not count.
THEOREM ReserveNearlyKeptAlways == Spec => []ReserveNearlyKept
<1>1. SpaceInv => ReserveNearlyKept
  BY DEF SpaceInv
<1> QED
  BY SpaceInit, SpaceStep, <1>1, PTL DEF Spec
=============================================================================
