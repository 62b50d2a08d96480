------------------------------- MODULE DlFile -------------------------------
(***************************************************************************)
(* What a download promises about its bytes, whatever the network, the     *)
(* power and the server do: the partial only ever holds bytes of one film, *)
(* or of films nothing but their content tells apart; it is continued or   *)
(* given up but never mixed, and it becomes the offline film once, and     *)
(* only when it is whole.  DlTransfer is the program's way of keeping that *)
(* promise.                                                                *)
(***************************************************************************)
EXTENDS Integers

CONSTANT
  Versions  \* the films the server may hold under one id, one after another

VARIABLES
  length, \* length[v]: units of version v
  enough, \* enough[v]: the lengths that pass for the whole of it
  part,   \* media.ts.part: [len, of], `of' the versions its bytes are from
  media   \* media.ts, in the same form

fileVars == <<length, enough, part, media>>

Nothing == [len |-> 0, of |-> {}]

FileInit == part = Nothing /\ media = Nothing

\* More of the same film, or the start of one; films of one length count as one.
Grow ==
  /\ \E v \in Versions : \E n \in (part.len + 1)..length[v] :
       /\ \A w \in part.of : length[w] = length[v]
       /\ part' = [len |-> n, of |-> part.of \cup {v}]
  /\ media' = media

\* A restart finds less of it, or the bytes turn out to be useless.
Shrink ==
  /\ \/ part' = Nothing
     \/ \E n \in 1..part.len : part' = [part EXCEPT !.len = n]
  /\ media' = media

\* The finished film takes its place.
Release ==
  /\ media = Nothing /\ part # Nothing
  /\ \A v \in part.of : part.len \in enough[v]
  /\ media' = part /\ part' = Nothing

FileNext == (Grow \/ Shrink \/ Release) /\ UNCHANGED <<length, enough>>

FileSpec == FileInit /\ [][FileNext]_fileVars

=============================================================================
