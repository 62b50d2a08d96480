-------------------------- MODULE DlTransfer_proofs --------------------------
(***************************************************************************)
(* For every film and every succession of films under one id, every buffer *)
(* and any number of failures, replacements and power cuts: the partial    *)
(* never mixes films the server tells apart, what becomes the offline film *)
(* is whole, the record never runs ahead of the disk, and the transfer     *)
(* implements the promise of DlFile.                                       *)
(***************************************************************************)
EXTENDS DlTransfer, TLAPS

(* What the properties rest on.  A server whose 206 does not name the total  *)
(* can have the program append whatever it likes, hence item.shown.          *)

InBody == pc \in {"recv", "write", "sync", "save", "gate", "close"}

\* A file with bytes is from somewhere, and no longer than where it is from.
PartFits ==
  /\ part.len = 0 <=> part.of = {}
  /\ from <= version
  /\ \A v \in part.of : v <= version /\ part.len <= item.length[v]

\* A file's record on disk knows the length of the film the partial is from,
\* and the table's copy agrees with it but for a 416 that ends the attempt.
TotalKnown ==
  item.file =>
    /\ \A v \in part.of : saved.total = item.length[v]
    /\ media = Nothing /\ pc \notin {"verify", "rename"} => total = saved.total
    /\ pc = "verify" => total = saved.total \/ (part.len = total /\ ~whole)

\* During a body the response carries more of the film the partial is from.
BodyFits ==
  InBody =>
    /\ until <= item.length[from] /\ Have <= until
    /\ \A v \in part.of : item.length[v] = item.length[from]
    /\ item.file => total = item.length[from]
    /\ ended => Have > 0
    /\ pc = "close" => ended

\* A transcode is fetched whole in one attempt.
OnePiece == ~item.file /\ pc # "idle" => part.of \subseteq {from} /\ whole

\* What the verdict is about, and what it leaves for the rename.
Verdict ==
  /\ pc \in {"verify", "rename"} =>
       /\ part.len > 0
       /\ item.file => \A v \in part.of : \E w \in Versions : w >= v /\ total = item.length[w]
  /\ pc = "rename" =>
       /\ part.len = total
       /\ ~item.file /\ item.ts => part.len + Slack >= item.length[from]

\* The film takes its place at the end of an attempt, and the partial is gone.
MediaLast == media # Nothing => pc = "idle" /\ part = Nothing

Bytes == /\ PartFits /\ TotalKnown /\ BodyFits /\ OnePiece /\ Verdict /\ MediaLast
         /\ NeverSpliced /\ MediaNearlyWhole

\* What a checkpoint saves is on the disk by then.
Synced == /\ pc \in {"sync", "save"} => fill = 0
          /\ pc = "save" => synced = part.len

IInv == TypeOK /\ Synced /\ (item.shown => Bytes)

-----------------------------------------------------------------------------
(* Items and files *)

LEMMA ItemTyped ==
  ASSUME TypeOK
  PROVE  /\ item.file \in BOOLEAN /\ item.shown \in BOOLEAN /\ item.ts \in BOOLEAN
         /\ \A v \in Versions : v \in Nat /\ item.length[v] \in Nat /\ item.length[v] > 0
         /\ version \in Nat /\ from \in Nat /\ Cap \in Nat /\ Slack \in Nat
  BY TransferAssumption DEF TypeOK, Item

LEMMA NothingIs == Nothing \in Files /\ Nothing.len = 0 /\ Nothing.of = {}
  BY DEF Nothing, Files

\* A file is what its length and its origins are.
LEMMA SameFile ==
  ASSUME NEW f \in Files, NEW g \in Files, f.len = g.len, f.of = g.of
  PROVE  f = g
  BY DEF Files

LEMMA AppendIs ==
  ASSUME NEW f \in Files, NEW v \in Versions, NEW n \in Nat
  PROVE  /\ Append(f, v, n) \in Files
         /\ Append(f, v, n).len = f.len + n
         /\ n = 0 => Append(f, v, n) = f
         /\ n > 0 => Append(f, v, n) = [len |-> f.len + n, of |-> f.of \cup {v}]
         /\ n > 0 => Append(f, v, n).of = f.of \cup {v}
  BY DEF Append, Files

\* A file cut short is one of the same origins.
LEMMA CutIs ==
  ASSUME NEW f \in Files, NEW n \in Nat
  PROVE  LET g == [f EXCEPT !.len = n]
         IN g \in Files /\ g.len = n /\ g.of = f.of
  BY DEF Files

-----------------------------------------------------------------------------
(* The request *)

\* Steps of the request that give up, with or without the partial.
LEMMA HeadKeeps ==
  ASSUME IInv, HeadFailed \/ BeyondEnd \/ OtherFilm
  PROVE  IInv'
  <1>1. /\ pc = "idle" /\ pc' = "idle" /\ media = Nothing
        /\ UNCHANGED <<serverVars, media, total, saved, bodyVars, crashes>>
        /\ Discarded \/ UNCHANGED <<part, synced>>
        /\ fails' \in 0..MaxFails
    BY TransferAssumption
    DEF IInv, TypeOK, HeadFailed, BeyondEnd, OtherFilm, GiveUp, Reject
  <1>2. TypeOK'
    BY <1>1, NothingIs DEF IInv, TypeOK, Discarded, serverVars, bodyVars
  <1>3. Synced'
    BY <1>1 DEF Synced
  <1>4. ASSUME item.shown PROVE Bytes'
    BY <1>1, <1>4, NothingIs
    DEF IInv, Bytes, PartFits, TotalKnown, BodyFits, OnePiece, Verdict, MediaLast,
        NeverSpliced, MediaNearlyWhole, Enough, InBody, Have, Discarded, serverVars, bodyVars
  <1> QED
    BY <1>1, <1>2, <1>3, <1>4 DEF IInv, serverVars

\* A 416 that passes for the end: the film of now is as long as the partial.
LEMMA AlreadyHereKeeps ==
  ASSUME IInv, AlreadyHere
  PROVE  IInv'
  <1>1. /\ pc = "idle" /\ pc' = "verify" /\ media = Nothing /\ item.file
        /\ total' = part.len /\ total' = item.length[version] /\ part.len > 0
        /\ whole' = FALSE
        /\ UNCHANGED <<serverVars, diskVars, from, until, fill, ckpt, ended, fails, crashes>>
    BY ItemTyped DEF IInv, TypeOK, AlreadyHere, Unsatisfiable, RangeFrom
  <1>2. TypeOK'
    BY <1>1, ItemTyped DEF IInv, TypeOK, serverVars, diskVars
  <1>3. Synced'
    BY <1>1 DEF Synced
  <1>4. ASSUME item.shown PROVE Bytes'
    <2>1. \A v \in part.of : version >= v /\ version \in Versions
      BY <1>4, ItemTyped, TransferAssumption DEF IInv, TypeOK, Bytes, PartFits, Files
    <2> QED
      BY <1>1, <1>4, <2>1
      DEF IInv, Bytes, PartFits, TotalKnown, BodyFits, OnePiece, Verdict, MediaLast,
          NeverSpliced, MediaNearlyWhole, Enough, InBody, Have, diskVars, serverVars
  <1> QED
    BY <1>1, <1>2, <1>3, <1>4 DEF IInv, serverVars

-----------------------------------------------------------------------------
(* The start of a body *)

\* What a body begins with: nothing, or the partial and more of the same film.
LEMMA BodyBeginsKeeps ==
  ASSUME IInv, pc = "idle", media = Nothing,
         NEW STATE kept, kept \in {part, Nothing},
         NEW STATE end, end \in Nat, NEW STATE tot, tot \in Nat,
         item.shown => /\ \A v \in kept.of : item.length[v] = item.length[version]
                       /\ item.file => tot = item.length[version]
                       /\ ~item.file => kept = Nothing
                       /\ kept.len <= end /\ end <= item.length[version],
         BodyBegins(kept, tot, end)
  PROVE  IInv'
  <1>1. kept \in Files /\ kept.len \in Nat
    BY NothingIs DEF IInv, TypeOK, Files
  <1>2. /\ part' = kept /\ synced' = kept.len /\ total' = tot
        /\ saved' = [done |-> kept.len, total |-> tot]
        /\ from' = version /\ until' = end /\ fill' = 0 /\ ckpt' = FALSE /\ ended' = FALSE
        /\ pc' = "recv" /\ item' = item /\ version' = version
        /\ media' = media /\ fails' = fails /\ crashes' = crashes
    BY DEF BodyBegins, serverVars
  <1>7. whole' \in BOOLEAN /\ (kept.len = 0 => whole')
    BY DEF BodyBegins
  <1>3. saved' \in [done : Nat, total : Nat] /\ saved'.total = tot
    BY <1>1, <1>2
  <1>4. TypeOK'
    <2>1. part' \in Files /\ synced' \in 0..part'.len /\ total' \in Nat /\ until' \in Nat
      BY <1>1, <1>2
    <2>2. fill' \in 0..Cap
      BY <1>2, TransferAssumption
    <2>4. ckpt' \in BOOLEAN /\ ended' \in BOOLEAN
      BY <1>2
    <2>3. /\ item' \in Items /\ version' \in Versions /\ from' \in Versions /\ media' \in Files
          /\ fails' \in 0..MaxFails /\ crashes' \in 0..MaxCrashes
      BY <1>2 DEF IInv, TypeOK
    <2> QED
      BY <1>2, <1>3, <1>7, <2>1, <2>2, <2>3, <2>4 DEF TypeOK
  <1>5. Synced'
    BY <1>2 DEF Synced
  <1>6. ASSUME item.shown PROVE Bytes'
    <2>1. /\ kept.len = 0 <=> kept.of = {}
          /\ \A v \in kept.of : v \in Versions /\ v <= version /\ kept.len <= item.length[v]
          /\ \A v, w \in kept.of : item.length[v] = item.length[w]
      BY <1>6, NothingIs DEF IInv, TypeOK, Files, Bytes, PartFits, NeverSpliced
    <2>2. kept = Nothing => whole'
      BY <1>7, NothingIs
    <2>3. kept.len + 0 = kept.len
      BY <1>1
    <2>4. PartFits' /\ NeverSpliced'
      BY <1>2, <2>1, ItemTyped DEF IInv, PartFits, NeverSpliced
    <2>5. TotalKnown'
      BY <1>2, <1>3, <1>6, <2>1, ItemTyped DEF IInv, TotalKnown
    <2>6. BodyFits'
      BY <1>1, <1>2, <1>6, <2>3 DEF BodyFits, InBody, Have
    <2>7. OnePiece' /\ Verdict' /\ MediaLast' /\ MediaNearlyWhole'
      BY <1>2, <1>6, <2>2, NothingIs DEF OnePiece, Verdict, MediaLast, MediaNearlyWhole
    <2> QED
      BY <2>4, <2>5, <2>6, <2>7 DEF Bytes
  <1> QED
    BY <1>2, <1>4, <1>5, <1>6 DEF IInv

\* A 206 the program takes for more of the same film is of a film as long.
LEMMA ResumeKeeps ==
  ASSUME IInv, Resume
  PROVE  IInv'
  <1>1. /\ pc = "idle" /\ media = Nothing /\ Partial /\ Consistent
        /\ RangeFrom = part.len /\ part.len > 0 /\ item.file
    BY ItemTyped DEF IInv, TypeOK, Resume, Partial, RangeFrom
  <1>2. PICK end \in (part.len + 1)..item.length[version] :
          BodyBegins(part, IF item.shown THEN item.length[version] ELSE end, end)
    BY DEF Resume
  <1> DEFINE tot == IF item.shown THEN item.length[version] ELSE end
  <1>3. /\ part.len \in Nat /\ item.length[version] \in Nat /\ end \in Nat /\ tot \in Nat
        /\ part.len <= end /\ end <= item.length[version]
    BY ItemTyped DEF IInv, TypeOK, Files
  <1>4. ASSUME item.shown, NEW v \in part.of
        PROVE  item.length[v] = item.length[version]
    BY <1>1, <1>4, ItemTyped DEF IInv, TypeOK, Files, Bytes, TotalKnown, Consistent
  <1>5. item.shown => tot = item.length[version]
    OBVIOUS
  <1>6. BodyBegins(part, tot, end)
    BY <1>2
  <1> HIDE DEF tot
  <1> QED
    BY <1>1, <1>3, <1>4, <1>5, <1>6, BodyBeginsKeeps

LEMMA FromZeroKeeps ==
  ASSUME IInv, FromZero
  PROVE  IInv'
  <1> DEFINE tot == IF item.file THEN item.length[version] ELSE 0
  <1>1. /\ pc = "idle" /\ media = Nothing
        /\ BodyBegins(Nothing, tot, item.length[version])
    BY DEF FromZero
  <1>2. tot \in Nat /\ item.length[version] \in Nat /\ 0 <= item.length[version]
    BY ItemTyped DEF IInv, TypeOK
  <1>3. item.file => tot = item.length[version]
    OBVIOUS
  <1> HIDE DEF tot
  <1> QED
    BY <1>1, <1>2, <1>3, NothingIs, BodyBeginsKeeps

-----------------------------------------------------------------------------
(* The body *)

LEMMA RecvKeeps ==
  ASSUME IInv, NEW n \in 1..(Cap - fill), NEW due \in BOOLEAN, NEW last \in BOOLEAN,
         Recv(n, due, last)
  PROVE  IInv'
  <1>1. /\ pc = "recv" /\ pc' \in {"write", "gate"}
        /\ fill' = fill + n /\ Have + n <= until
        /\ UNCHANGED <<serverVars, diskVars, total, from, until, whole, crashes>>
    BY DEF Recv
  <1>2. fill' \in 0..Cap /\ fill' > 0
    BY <1>1, ItemTyped DEF IInv, TypeOK
  <1>3. fails' \in 0..MaxFails
    BY TransferAssumption DEF Recv, IInv, TypeOK
  <1>4. ended' \in BOOLEAN /\ ckpt' \in BOOLEAN
    BY DEF Recv
  <1>5. TypeOK'
    BY <1>1, <1>2, <1>3, <1>4 DEF IInv, TypeOK, serverVars, diskVars
  <1>6. Synced'
    BY <1>1 DEF Synced
  <1>7. ASSUME item.shown PROVE Bytes'
    <2>1. Have' = Have + n /\ Have' > 0
      BY <1>1, <1>2 DEF Have, diskVars, IInv, TypeOK, Files
    <2>2. BodyFits'
      BY <1>1, <1>7, <2>1 DEF IInv, Bytes, BodyFits, InBody, serverVars, diskVars
    <2> QED
      BY <1>1, <1>7, <2>2
      DEF IInv, Bytes, PartFits, TotalKnown, OnePiece, Verdict, MediaLast,
          NeverSpliced, MediaNearlyWhole, Enough, serverVars, diskVars
  <1> QED
    BY <1>1, <1>5, <1>6, <1>7 DEF IInv, serverVars

\* Bytes go from the buffer to the partial, all of them or some, with or without
\* an fsync; the body goes on, or the attempt ends.
LEMMA FlushKeeps ==
  ASSUME IInv, InBody, NEW n \in 0..fill, part' = Append(part, from, n),
         synced' \in {synced, part.len + n},
         fill' = 0, UNCHANGED <<serverVars, media, saved, from, until, ckpt, ended, whole, crashes>>,
         fails' \in 0..MaxFails,
         \/ /\ pc = "write" /\ n = fill /\ pc' \in {"sync", "gate"} /\ total' = total
         \/ pc' = "idle" /\ total' = total
         \/ /\ pc = "close" /\ n = fill /\ pc' = "verify"
            /\ total' = IF total = 0 THEN Have ELSE total
  PROVE  IInv'
  <1>1. /\ fill \in Nat /\ n \in Nat /\ n <= fill /\ part \in Files /\ from \in Versions
        /\ part.len \in Nat /\ total \in Nat /\ synced \in 0..part.len
        /\ pc' \in {"sync", "gate", "idle", "verify"}
    BY DEF IInv, TypeOK, Files
  <1>2. /\ part' \in Files /\ part'.len = part.len + n
        /\ n = 0 => part' = part
        /\ n > 0 => part'.of = part.of \cup {from}
    BY <1>1, AppendIs
  <1>3. total' \in Nat
    BY <1>1 DEF Have
  <1>4. TypeOK'
    <2>1. synced' \in 0..part'.len
      BY <1>1, <1>2
    <2>2. fill' \in 0..Cap
      BY TransferAssumption
    <2> QED
      BY <1>1, <1>2, <1>3, <2>1, <2>2 DEF IInv, TypeOK, serverVars
  <1>5. Synced'
    BY <1>1 DEF Synced
  <1>6. ASSUME item.shown PROVE Bytes'
    <2>1. /\ from <= version /\ until <= item.length[from] /\ part.len + fill <= until
          /\ \A v \in part.of : item.length[v] = item.length[from] /\ v <= version
          /\ item.length[from] \in Nat /\ until \in Nat
      BY <1>6, ItemTyped DEF IInv, Bytes, PartFits, BodyFits, Have, TypeOK
    <2>2. /\ \A v \in part'.of : /\ v <= version /\ item.length[v] = item.length[from]
                                 /\ part'.len <= item.length[v]
          /\ part'.of \subseteq part.of \cup {from}
      <3>1. part'.len <= item.length[from]
        BY <1>1, <1>2, <2>1
      <3> QED
        BY <1>1, <1>2, <2>1, <3>1
    <2>3. part'.len = 0 <=> part'.of = {}
      BY <1>1, <1>2, <1>6 DEF IInv, Bytes, PartFits
    <2>4. PartFits' /\ NeverSpliced'
      BY <2>1, <2>2, <2>3 DEF PartFits, NeverSpliced, serverVars
    <2>5. item.file => /\ total' = total /\ total = item.length[from] /\ total = saved.total
      BY <1>1, <1>6, <2>1, ItemTyped
      DEF IInv, Bytes, BodyFits, TotalKnown, InBody, MediaLast, TypeOK
    <2>6. TotalKnown'
      BY <2>2, <2>5 DEF TotalKnown, serverVars
    <2>7. Have' = part.len + n
      BY <1>1, <1>2 DEF Have
    <2>8. BodyFits'
      BY <1>1, <1>6, <2>1, <2>2, <2>5, <2>7 DEF IInv, Bytes, BodyFits, InBody, Have, serverVars
    <2>9. OnePiece'
      BY <1>1, <1>6, <2>2 DEF IInv, Bytes, OnePiece, InBody, serverVars
    <2>10. Verdict'
      <3>1. ASSUME pc' = "verify" PROVE part'.len > 0
        BY <1>1, <1>2, <1>6, <3>1 DEF IInv, Bytes, BodyFits, Have, InBody
      <3>2. ASSUME pc' = "verify", item.file, NEW v \in part'.of
            PROVE  v \in Versions /\ v >= v /\ total' = item.length[v]
        BY <1>2, <2>2, <2>5, <3>2, ItemTyped DEF IInv, Files
      <3> QED
        BY <1>1, <3>1, <3>2 DEF Verdict, serverVars
    <2>11. MediaLast' /\ MediaNearlyWhole'
      BY <1>6 DEF IInv, Bytes, MediaLast, MediaNearlyWhole, InBody, serverVars
    <2> QED
      BY <2>4, <2>6, <2>8, <2>9, <2>10, <2>11 DEF Bytes
  <1> QED
    BY <1>4, <1>5, <1>6 DEF IInv, serverVars

LEMMA WritesKeep ==
  ASSUME IInv, Write \/ WriteFailed \/ Interrupted \/ Close
  PROVE  IInv'
  <1>1. fill \in Nat /\ fill \in 0..fill /\ part.len + fill = Have /\ 0 \in 0..fill
    BY DEF IInv, TypeOK, Have
  <1>2. CASE Write
    BY <1>1, <1>2, FlushKeeps DEF Write, IInv, TypeOK, InBody, serverVars
  <1>3. CASE WriteFailed
    <2>1. PICK n \in 0..fill : part' = Append(part, from, n) /\ synced' = part.len + n
      BY <1>3 DEF WriteFailed
    <2>2. fails' \in 0..MaxFails
      BY <1>3, TransferAssumption DEF WriteFailed, GiveUp, IInv, TypeOK
    <2> QED
      BY <1>3, <2>1, <2>2, FlushKeeps DEF WriteFailed, GiveUp, InBody
  <1>4. CASE Interrupted
    <2>1. fails' \in 0..MaxFails
      BY <1>4, TransferAssumption DEF Interrupted, GiveUp, IInv, TypeOK
    <2> QED
      BY <1>1, <1>4, <2>1, FlushKeeps DEF Interrupted, GiveUp, InBody
  <1>5. CASE Close
    BY <1>1, <1>5, FlushKeeps DEF Close, IInv, TypeOK, InBody
  <1> QED
    BY <1>2, <1>3, <1>4, <1>5

\* The steps of a body that move no byte to the partial.  A gate that refuses
\* drops what is in the buffer.
LEMMA BodyRestKeeps ==
  ASSUME IInv, Sync \/ SaveRecord \/ GatePassed \/ GateRefused
  PROVE  IInv'
  <1>1. /\ InBody /\ media' = media /\ part' = part /\ total' = total
        /\ UNCHANGED <<serverVars, from, until, ended, whole, crashes>>
        /\ pc' \in {"idle", "recv", "save", "gate", "close"}
        /\ pc' = "close" => ended
        /\ saved' = saved \/ saved' = [done |-> Have, total |-> total]
        /\ synced' \in {synced, part.len}
        /\ fill' = fill \/ (fill' = 0 /\ pc' = "idle")
        /\ pc' = "save" => synced' = part.len /\ fill' = fill /\ pc = "sync"
    BY DEF Sync, SaveRecord, GatePassed, GateRefused, GiveUp, InBody, diskVars, bodyVars
  <1>2. TypeOK'
    <2>1. fails' \in 0..MaxFails
      BY TransferAssumption
      DEF Sync, SaveRecord, GatePassed, GateRefused, GiveUp, IInv, TypeOK
    <2>2. ckpt' \in BOOLEAN
      BY DEF Sync, SaveRecord, GatePassed, GateRefused, IInv, TypeOK, bodyVars
    <2>3. saved' \in [done : Nat, total : Nat] /\ synced' \in 0..part'.len /\ fill' \in 0..Cap
      BY <1>1, TransferAssumption DEF IInv, TypeOK, Files, Have
    <2> QED
      BY <1>1, <2>1, <2>2, <2>3 DEF IInv, TypeOK, serverVars
  <1>3. Synced'
    BY <1>1 DEF IInv, Synced
  <1>4. ASSUME item.shown PROVE Bytes'
    <2>1. item.file => total = saved.total
      BY <1>1, <1>4 DEF IInv, Bytes, TotalKnown, MediaLast, InBody
    <2>2. saved'.total \in {saved.total, total}
      BY <1>1
    <2>3. TotalKnown'
      BY <1>1, <1>4, <2>1, <2>2 DEF IInv, Bytes, TotalKnown, serverVars
    <2>4. BodyFits'
      <3>1. CASE pc' = "idle"
        BY <3>1 DEF BodyFits, InBody
      <3>2. CASE pc' # "idle"
        BY <1>1, <1>4, <3>2 DEF IInv, Bytes, BodyFits, InBody, Have, serverVars
      <3> QED BY <3>1, <3>2
    <2>5. MediaLast'
      BY <1>1, <1>4 DEF IInv, Bytes, MediaLast, InBody
    <2> QED
      BY <1>1, <1>4, <2>3, <2>4, <2>5
      DEF IInv, Bytes, PartFits, OnePiece, Verdict, NeverSpliced, MediaNearlyWhole, InBody,
          Enough, serverVars
  <1> QED
    BY <1>1, <1>2, <1>3, <1>4 DEF IInv, serverVars

-----------------------------------------------------------------------------
(* The verdict, and what the world does *)

LEMMA VerdictKeeps ==
  ASSUME IInv, VerifyGood \/ VerifyShort \/ VerifyBad
  PROVE  IInv'
  <1>1. /\ pc = "verify" /\ pc' \in {"idle", "rename"} /\ fails' = fails
        /\ UNCHANGED <<serverVars, media, total, saved, bodyVars, crashes>>
        /\ (part' = part /\ synced' = synced) \/ (Discarded /\ pc' = "idle")
        /\ pc' = "rename" => part' = part /\ part.len = total /\ ScanPasses
        /\ pc' = "idle" => part.len # total \/ ~ScanPasses
    BY DEF VerifyGood, VerifyShort, VerifyBad, Reject, diskVars
  <1>2. TypeOK'
    BY <1>1, NothingIs DEF IInv, TypeOK, Discarded, serverVars, bodyVars
  <1>3. Synced'
    BY <1>1 DEF Synced
  <1>4. ASSUME item.shown PROVE Bytes'
    <2>1. media = Nothing
      BY <1>1, <1>4 DEF IInv, Bytes, MediaLast
    <2>2. pc' = "idle" /\ item.file => total = saved.total
      BY <1>1, <1>4 DEF IInv, Bytes, TotalKnown, ScanPasses
    <2>3. PartFits' /\ NeverSpliced' /\ TotalKnown'
      BY <1>1, <1>4, <2>2, NothingIs
      DEF IInv, Bytes, PartFits, NeverSpliced, TotalKnown, Discarded, serverVars, bodyVars
    <2>4. Verdict' /\ OnePiece'
      BY <1>1, <1>4 DEF IInv, Bytes, Verdict, OnePiece, ScanPasses, serverVars, bodyVars
    <2> QED
      BY <1>1, <2>1, <2>3, <2>4 DEF Bytes, BodyFits, InBody, MediaLast, MediaNearlyWhole
  <1> QED
    BY <1>1, <1>2, <1>3, <1>4 DEF IInv, serverVars

\* The partial the verdict let pass is enough of each film it has bytes of.
LEMMA PartPasses ==
  ASSUME IInv, item.shown, pc = "rename"
  PROVE  part # Nothing /\ part.of # {} /\ \A v \in part.of : part.len \in Enough(v)
  <1>1. /\ part.len > 0 /\ part.of # {} /\ part.len = total /\ part.len \in Nat
        /\ part.of \subseteq Versions
        /\ \A v \in part.of : part.len <= item.length[v]
        /\ item.file => \A v \in part.of : \E w \in Versions : w >= v /\ total = item.length[w]
        /\ ~item.file /\ item.ts => part.len + Slack >= item.length[from]
        /\ ~item.file => part.of \subseteq {from}
    BY DEF IInv, Bytes, PartFits, Verdict, OnePiece, TypeOK, Files
  <1>2. ASSUME NEW v \in part.of PROVE part.len \in Enough(v)
    <2>1. part.len \in 1..item.length[v]
      BY <1>1, ItemTyped DEF IInv
    <2> QED
      BY <1>1, <2>1 DEF Enough
  <1> QED
    BY <1>1, <1>2, NothingIs

LEMMA RenameKeeps ==
  ASSUME IInv, Rename
  PROVE  IInv'
  <1>1. /\ pc = "rename" /\ pc' = "idle" /\ media' = part /\ Discarded /\ fails' = fails
        /\ UNCHANGED <<serverVars, total, saved, bodyVars, crashes>>
    BY DEF Rename
  <1>2. TypeOK'
    BY <1>1, NothingIs DEF IInv, TypeOK, Discarded, serverVars, bodyVars
  <1>3. Synced'
    BY <1>1 DEF Synced
  <1>4. ASSUME item.shown PROVE Bytes'
    <2>1. MediaNearlyWhole' /\ media' # Nothing
      BY <1>1, <1>4, PartPasses DEF MediaNearlyWhole, Enough, serverVars
    <2>2. PartFits' /\ NeverSpliced' /\ TotalKnown'
      BY <1>1, <1>4, <2>1, NothingIs
      DEF IInv, Bytes, PartFits, NeverSpliced, TotalKnown, Discarded, serverVars, bodyVars
    <2> QED
      BY <1>1, <2>1, <2>2 DEF Bytes, BodyFits, InBody, MediaLast, OnePiece, Verdict, Discarded
  <1> QED
    BY <1>1, <1>2, <1>3, <1>4 DEF IInv, serverVars

LEMMA ReplaceKeeps ==
  ASSUME IInv, Replace
  PROVE  IInv'
  <1>1. /\ version + 1 \in Versions /\ version' = version + 1 /\ item' = item
        /\ UNCHANGED <<diskVars, total, pc, bodyVars, fails, crashes>>
    BY DEF Replace
  <1>2. TypeOK' /\ Synced'
    BY <1>1 DEF IInv, TypeOK, Synced, diskVars, bodyVars
  <1>3. ASSUME item.shown PROVE Bytes'
    <2>1. PartFits'
      BY <1>1, <1>3, ItemTyped DEF IInv, TypeOK, Files, Bytes, PartFits, diskVars, bodyVars
    <2> QED
      BY <1>1, <1>3, <2>1
      DEF IInv, Bytes, TotalKnown, BodyFits, OnePiece, Verdict, MediaLast, NeverSpliced,
          MediaNearlyWhole, Enough, InBody, Have, diskVars, bodyVars
  <1> QED
    BY <1>1, <1>2, <1>3 DEF IInv

\* A power cut leaves nothing of the partial, or the front of it.
LEMMA CrashLeaves ==
  ASSUME IInv, Crash
  PROVE  part' = Nothing \/ \E n \in 1..part.len : part' = [part EXCEPT !.len = n]
  BY DEF Crash, IInv, TypeOK, Files

LEMMA CrashKeeps ==
  ASSUME IInv, Crash
  PROVE  IInv'
  <1>1. /\ pc' = "idle" /\ synced' = part'.len /\ total' = saved.total
        /\ from' = version /\ until' = 0 /\ fill' = 0
        /\ UNCHANGED <<serverVars, media, saved, fails>>
    BY DEF Crash
  <1>2. /\ part' \in Files /\ part'.len <= part.len /\ part'.of \subseteq part.of
        /\ part'.len = 0 => part'.of = {}
        /\ part'.len > 0 => part'.of = part.of /\ part.len > 0
    <2>1. part \in Files /\ part.len \in Nat
      BY DEF IInv, TypeOK, Files
    <2>2. CASE part' = Nothing
      BY <2>1, <2>2, NothingIs
    <2>3. CASE \E n \in 1..part.len : part' = [part EXCEPT !.len = n]
      <3>1. PICK n \in 1..part.len : part' = [part EXCEPT !.len = n]
        BY <2>3
      <3>2. n \in Nat /\ n > 0 /\ n <= part.len
        BY <2>1
      <3>3. part' \in Files /\ part'.len = n /\ part'.of = part.of
        BY <2>1, <3>1, <3>2, CutIs
      <3> QED
        BY <2>1, <3>2, <3>3
    <2> QED
      BY <2>2, <2>3, CrashLeaves
  <1>3. TypeOK'
    <2>1. ckpt' \in BOOLEAN /\ ended' \in BOOLEAN /\ whole' \in BOOLEAN
      BY DEF Crash
    <2>2. crashes' \in 0..MaxCrashes
      BY TransferAssumption DEF Crash, IInv, TypeOK
    <2>3. synced' \in 0..part'.len /\ fill' \in 0..Cap /\ until' \in Nat
      BY <1>1, <1>2, TransferAssumption DEF Files
    <2> QED
      BY <1>1, <1>2, <2>1, <2>2, <2>3 DEF IInv, TypeOK, serverVars
  <1>4. Synced'
    BY <1>1 DEF Synced
  <1>5. ASSUME item.shown PROVE Bytes'
    <2>1. part = Nothing => part' = Nothing
      BY CrashLeaves, NothingIs
    <2>2. /\ \A v \in part'.of : /\ v \in part.of /\ v <= version
                                 /\ part'.len <= item.length[v]
          /\ part'.len = 0 <=> part'.of = {}
      BY <1>2, <1>5, ItemTyped DEF IInv, TypeOK, Files, Bytes, PartFits
    <2>3. PartFits' /\ NeverSpliced' /\ TotalKnown'
      BY <1>1, <1>5, <2>2, ItemTyped
      DEF IInv, Bytes, PartFits, NeverSpliced, TotalKnown, serverVars
    <2>4. MediaLast' /\ MediaNearlyWhole'
      BY <1>1, <1>5, <2>1 DEF IInv, Bytes, MediaLast, MediaNearlyWhole, Enough, serverVars
    <2> QED
      BY <1>1, <2>3, <2>4 DEF Bytes, BodyFits, InBody, OnePiece, Verdict
  <1> QED
    BY <1>1, <1>3, <1>4, <1>5 DEF IInv, serverVars

-----------------------------------------------------------------------------
(* The invariant *)

LEMMA InitHolds == Init => IInv
  <1> SUFFICES ASSUME Init PROVE IInv
    OBVIOUS
  <1>1. /\ item \in Items /\ part = Nothing /\ media = Nothing /\ synced = 0 /\ total = 0
        /\ saved = [done |-> 0, total |-> 0] /\ saved.total = 0 /\ pc = "idle"
        /\ version = 1 /\ from = 1 /\ until = 0 /\ fill = 0 /\ fails = 0 /\ crashes = 0
    BY DEF Init
  <1>2. ckpt \in BOOLEAN /\ ended \in BOOLEAN /\ whole \in BOOLEAN
    BY DEF Init
  <1>3. TypeOK
    BY <1>1, <1>2, NothingIs, TransferAssumption DEF TypeOK
  <1> QED
    BY <1>1, <1>3, NothingIs
    DEF IInv, Synced, Bytes, PartFits, TotalKnown, BodyFits, InBody, OnePiece, Verdict,
        MediaLast, NeverSpliced, MediaNearlyWhole

LEMMA WorkerKeeps ==
  ASSUME IInv, Worker
  PROVE  IInv'
  BY HeadKeeps, AlreadyHereKeeps, ResumeKeeps, FromZeroKeeps, RecvKeeps, WritesKeep,
     BodyRestKeeps, VerdictKeeps, RenameKeeps
  DEF Worker

LEMMA StepKeeps == IInv /\ [Next]_vars => IInv'
  <1> SUFFICES ASSUME IInv, [Next]_vars PROVE IInv'
    OBVIOUS
  <1>1. CASE Worker
    BY <1>1, WorkerKeeps
  <1>2. CASE Replace
    BY <1>2, ReplaceKeeps
  <1>3. CASE Crash
    BY <1>3, CrashKeeps
  <1>4. CASE UNCHANGED vars
    BY <1>4
    DEF vars, serverVars, diskVars, bodyVars, IInv, TypeOK, Synced, Bytes, PartFits, TotalKnown,
        BodyFits, InBody, Have, OnePiece, Verdict, MediaLast, NeverSpliced, MediaNearlyWhole, Enough
  <1> QED
    BY <1>1, <1>2, <1>3, <1>4 DEF Next

LEMMA IInvAlways == Spec => []IInv
  BY InitHolds, StepKeeps, PTL DEF Spec

(* The partial never mixes two films the server's answers tell apart: for    *)
(* every film and every succession of films under its id, every point at     *)
(* which an attempt breaks off, and any number of power cuts.                *)
THEOREM NeverSplicedAlways == Spec => []NeverSpliced
  <1>1. IInv => NeverSpliced
    BY DEF IInv, Bytes, NeverSpliced
  <1> QED
    BY <1>1, IInvAlways, PTL

(* What is offered as the offline film is all of a film, or all but what the *)
(* verification cannot see: what `Enough' leaves out.                        *)
THEOREM MediaNearlyWholeAlways == Spec => []MediaNearlyWhole
  <1>1. IInv => MediaNearlyWhole
    BY DEF IInv, Bytes, MediaNearlyWhole
  <1> QED
    BY <1>1, IInvAlways, PTL

(* A checkpoint claims no byte a power cut could take: the record is saved   *)
(* only after the write and the fsync of all it counts.                      *)
THEOREM RecordNeverAhead == Spec => RecordNotAhead
  <1>1. ASSUME IInv, [Next]_vars, saved'.done > saved.done
        PROVE  saved'.done <= synced'
    <2>1. /\ saved'.done \in Nat /\ part'.len \in Nat /\ synced' \in Nat
          /\ IInv'
      BY <1>1, StepKeeps DEF IInv, TypeOK, Files
    <2>2. saved' # saved
      BY <1>1, <2>1 DEF IInv, TypeOK
    <2>3. CASE SaveRecord
      BY <1>1, <2>3 DEF SaveRecord, IInv, Synced, TypeOK, Files, Have
    <2>4. CASE \E kept, tot, end : BodyBegins(kept, tot, end)
      BY <2>1, <2>4 DEF BodyBegins
    <2>5. SaveRecord \/ Resume \/ FromZero
      BY <1>1, <2>2
      DEF Next, Worker, vars, serverVars, diskVars, HeadFailed, AlreadyHere, BeyondEnd, OtherFilm,
          Recv, Write, WriteFailed, Sync, GatePassed, GateRefused, Interrupted, Close,
          VerifyGood, VerifyShort, VerifyBad, Rename, Replace, Crash
    <2> QED
      BY <2>3, <2>4, <2>5 DEF Resume, FromZero
  <1>2. IInv /\ [Next]_vars => [saved'.done > saved.done => saved'.done <= synced']_<<saved, synced>>
    BY <1>1
  <1> QED
    BY <1>2, IInvAlways, PTL DEF Spec, RecordNotAhead

-----------------------------------------------------------------------------
(* The promise of DlFile, step by step *)

\* Every server names the total in its 206.
TotalsShown == \A i \in Items : i.shown

\* Bytes from the buffer are more of the film the partial is from.
LEMMA AppendGrows ==
  ASSUME IInv, item.shown, InBody, NEW n \in 0..fill, part' = Append(part, from, n),
         media' = media
  PROVE  Promise!Grow \/ (part' = part /\ media' = media)
  <1>1. /\ fill \in Nat /\ n \in Nat /\ n <= fill /\ part \in Files /\ from \in Versions
        /\ part.len \in Nat
    BY DEF IInv, TypeOK, Files
  <1>2. CASE n = 0
    BY <1>1, <1>2, AppendIs
  <1>3. CASE n > 0
    <2>1. /\ part' = [len |-> part.len + n, of |-> part.of \cup {from}]
          /\ \A v \in part.of : item.length[v] = item.length[from]
      BY <1>1, <1>3, AppendIs DEF IInv, Bytes, BodyFits
    <2>2. part.len + n \in (part.len + 1)..item.length[from]
      BY <1>1, <1>3, ItemTyped DEF IInv, TypeOK, Bytes, BodyFits, Have
    <2> QED
      BY <1>1, <2>1, <2>2 DEF Promise!Grow
  <1> QED
    BY <1>1, <1>2, <1>3

\* The finished partial may be released.
LEMMA RenameReleases ==
  ASSUME IInv, item.shown, Rename
  PROVE  Promise!Release
  <1>1. media = Nothing
    BY DEF Rename, IInv, Bytes, MediaLast
  <1>2. part.of \subseteq Versions
    BY DEF IInv, TypeOK, Files
  <1> QED
    BY <1>1, <1>2, PartPasses DEF Rename, Discarded, Promise!Release, Promise!Nothing, Nothing

LEMMA StepImplements ==
  ASSUME IInv, item.shown, [Next]_vars
  PROVE  [Promise!FileNext]_(Promise!fileVars)
  <1>1. item' = item
    BY DEF Next, Worker, vars, serverVars, HeadFailed, AlreadyHere, BeyondEnd, OtherFilm, Resume,
           FromZero, BodyBegins, Recv, Write, WriteFailed, Sync, SaveRecord, GatePassed,
           GateRefused, Interrupted, Close, VerifyGood, VerifyShort, VerifyBad, Rename,
           Replace, Crash
  <1>2. /\ item'.length = item.length
        /\ [v \in Versions |-> Enough(v)]' = [v \in Versions |-> Enough(v)]
    BY <1>1 DEF Enough
  <1>3. fill \in 0..fill
    BY DEF IInv, TypeOK
  <1>4. \/ Promise!Grow \/ Promise!Shrink \/ Promise!Release
        \/ part' = part /\ media' = media
    <2>1. CASE HeadFailed \/ BeyondEnd \/ OtherFilm \/ VerifyBad
      BY <2>1 DEF HeadFailed, BeyondEnd, OtherFilm, VerifyBad, Discarded, Promise!Shrink,
                  Promise!Nothing, Nothing
    <2>2. CASE Resume \/ FromZero
      BY <2>2 DEF Resume, FromZero, BodyBegins, Promise!Shrink, Promise!Nothing, Nothing
    <2>3. CASE Write \/ Interrupted \/ Close
      BY <1>3, <2>3, AppendGrows DEF Write, Interrupted, Close, InBody
    <2>4. CASE WriteFailed
      BY <2>4, AppendGrows DEF WriteFailed, InBody
    <2>5. CASE Rename
      BY <2>5, RenameReleases
    <2>6. CASE Crash
      BY <2>6, CrashLeaves DEF Crash, Promise!Shrink, Promise!Nothing, Nothing
    <2>7. CASE AlreadyHere \/ Sync \/ SaveRecord \/ GatePassed \/ GateRefused \/ VerifyGood
               \/ VerifyShort \/ Replace \/ UNCHANGED vars
               \/ \E n \in 1..(Cap - fill), due, last \in BOOLEAN : Recv(n, due, last)
      BY <2>7 DEF AlreadyHere, Sync, SaveRecord, GatePassed, GateRefused, VerifyGood, VerifyShort,
                  Replace, Recv, diskVars, vars
    <2> QED
      BY <2>1, <2>2, <2>3, <2>4, <2>5, <2>6, <2>7 DEF Next, Worker
  <1> QED
    BY <1>2, <1>4 DEF Promise!FileNext, Promise!fileVars

(* DlTransfer implements DlFile, with the partial and the media as they are:  *)
(* each step of the program grows the partial by bytes of the same film,      *)
(* shrinks it, releases it whole, or leaves both alone.                       *)
THEOREM TransferKeepsPromise ==
  ASSUME TotalsShown
  PROVE  Spec => PromiseKept
  <1>1. Init => Promise!FileInit
    BY DEF Init, Promise!FileInit, Promise!Nothing, Nothing
  <1>2. IInv => item.shown
    BY TotalsShown DEF IInv, TypeOK, TotalsShown
  <1>3. IInv /\ [Next]_vars => [Promise!FileNext]_(Promise!fileVars)
    BY <1>2, StepImplements
  <1> QED
    BY <1>1, <1>3, IInvAlways, PTL DEF Spec, PromiseKept, Promise!FileSpec
=============================================================================
