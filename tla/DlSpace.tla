------------------------------ MODULE DlSpace ------------------------------
(***************************************************************************)
(* Free space under a transfer: the space gates of attempt() in            *)
(* offline/dl_manager.cpp, with the transfer buffer between the socket and *)
(* the HDD that makes their arithmetic hard.  One attempt after another on *)
(* one item; nobody else writes while an attempt runs, so that every byte  *)
(* missing below the reserve is the downloader's own.                      *)
(***************************************************************************)
EXTENDS Integers

CONSTANTS
  Reserve,   \* s_cfg.reserve_bytes
  Check,     \* s_cfg.space_check_bytes
  Buf,       \* DL_XFER_BUF
  RecvMin,   \* DL_RECV_MIN
  Est,       \* est_bytes of the item, 0 = none
  Frees,     \* bound: what the HDD may have free when an attempt starts
  Totals     \* bound: lengths the server may declare, 0 = none

ASSUME SpaceAssumption ==
  /\ Reserve \in Nat /\ Check \in Nat \ {0}
  /\ Buf \in Nat \ {0} /\ RecvMin \in 1..Buf
  /\ Est \in Nat
  /\ Frees \subseteq Nat /\ Totals \subseteq Nat

VARIABLES
  pc,     \* "idle", "body", or "refused": the attempt ended OUT_SPACE
  free,   \* dl_plat_free_bytes
  begun,  \* free when the attempt started
  file,   \* on_disk: length of media.ts.part
  fill,   \* payload waiting in s_buf
  last,   \* last_space_bytes
  total   \* bytes_total, 0 = unknown

vars == <<pc, free, begun, file, fill, last, total>>

\* have: everything received, on disk or still in the buffer.
Have == file + fill

\* A faulty variant: the margin forgets the buffer.
CheckMargin == Check

WriteMargin == Check + Buf

Left(tot, have) == IF tot > have THEN tot - have ELSE 0

\* space_gate: `remaining' 0 means unknown and asks for the whole margin.
GateOpen(remaining, avail) ==
  LET margin == IF remaining > 0 /\ remaining < WriteMargin THEN remaining ELSE WriteMargin
  IN Reserve + margin <= avail

Max2(m, n) == IF m > n THEN m ELSE n

\* The gate before the request, on the length expected so far.
StartGate(f) == GateOpen(Left(Max2(total, Est), file), f)

StartRefused(f) ==
  /\ pc # "body" /\ ~StartGate(f)
  /\ pc' = "refused"
  /\ free' = f /\ begun' = f
  /\ fill' = 0
  /\ UNCHANGED <<file, last, total>>

\* An attempt up to its body: a second gate after the head, on the length it
\* declares.  A body from byte 0 discards the partial.
Begin(f, tot, restart) ==
  /\ pc # "body" /\ StartGate(f)
  /\ restart \/ total \in {0, tot}
  /\ free' = f /\ begun' = f
  /\ file' = IF restart THEN 0 ELSE file
  /\ total' = tot
  /\ tot > 0 => file' <= tot
  /\ fill' = 0 /\ last' = file'
  /\ pc' = IF GateOpen(Left(tot, file'), f) THEN "body" ELSE "refused"

Received(n) == Have + n

\* The declared end of the body.
IsEnd(n) == total > 0 /\ Received(n) = total

\* flush_buf is due: no room for a full read, a checkpoint, or the end.
FlushDue(n, ckpt) == Buf - (fill + n) < RecvMin \/ ckpt \/ IsEnd(n)

\* One turn of the body loop: n bytes into the free tail of the buffer, the
\* buffer to the file when due, and every Check bytes another gate.
Recv(n, ckpt) ==
  /\ pc = "body"
  /\ total > 0 => Received(n) <= total
  /\ IF FlushDue(n, ckpt)
     THEN file' = Received(n) /\ fill' = 0 /\ free' = free - (fill + n)
     ELSE fill' = fill + n /\ UNCHANGED <<file, free>>
  /\ IF Received(n) - last >= Check
     THEN /\ last' = Received(n)
          /\ pc' = IF ~GateOpen(Left(total, Received(n)), free') THEN "refused"
                   ELSE IF IsEnd(n) THEN "idle" ELSE "body"
     ELSE /\ last' = last
          /\ pc' = IF IsEnd(n) THEN "idle" ELSE "body"
  /\ UNCHANGED <<begun, total>>

\* The attempt ends some other way: whatever arrived is still written.
End ==
  /\ pc = "body"
  /\ pc' = "idle"
  /\ file' = Have /\ fill' = 0 /\ free' = free - fill
  /\ UNCHANGED <<begun, last, total>>

Init ==
  /\ pc = "idle" /\ free \in Frees /\ begun = free
  /\ file = 0 /\ fill = 0 /\ last = 0 /\ total = 0

Next ==
  \/ \E f \in Frees : StartRefused(f)
  \/ \E f \in Frees, tot \in Totals, restart \in BOOLEAN : Begin(f, tot, restart)
  \/ \E n \in 1..(Buf - fill), ckpt \in BOOLEAN : Recv(n, ckpt)
  \/ End

Spec == Init /\ [][Next]_vars

-----------------------------------------------------------------------------
(* Properties *)

TypeOK ==
  /\ pc \in {"idle", "body", "refused"}
  /\ free \in Int /\ begun \in Nat
  /\ file \in Nat /\ fill \in 0..Buf /\ last \in Nat /\ total \in Nat

\* write_margin means that "no write ever lands inside the reserve".  A gate
\* counts the bytes still to be received and not those already in the buffer,
\* so what the gates do keep is this: a transfer eats into the reserve by no
\* more than the most that stays unwritten after a read.
Uncounted == Buf - RecvMin

ReserveNearlyKept == free < begun => free >= Reserve - Uncounted

\* The strengthening that makes ReserveNearlyKept inductive: since the last
\* gate the transfer has spent, on disk and in the buffer, what came in since.
Credit == IF total > 0 /\ total - last < WriteMargin /\ total > last
          THEN total - last ELSE WriteMargin

SpaceInv ==
  /\ TypeOK
  /\ pc = "body" =>
       /\ fill <= Uncounted
       /\ last <= Have /\ Have - last < Check
       /\ total > 0 => Have <= total
       /\ free - fill >= Reserve + Credit - Uncounted - (Have - last)
  /\ ReserveNearlyKept

=============================================================================
