---------------------------- MODULE MCDlTransfer ----------------------------
(* DlTransfer with films of a few units for TLC. *)
EXTENDS DlTransfer

TwoFilms == {1, 2}

\* A file of four units, replaced by one of five; the same as a transcode.
File      == [file |-> TRUE, shown |-> TRUE, ts |-> FALSE, length |-> <<4, 5>>]
Transcode == [file |-> FALSE, shown |-> TRUE, ts |-> TRUE, length |-> <<4, 5>>]
\* A file replaced by a shorter one.
Shorter == [File EXCEPT !.length = <<4, 2>>]
\* Two films nothing but their content tells apart.
Twin == [File EXCEPT !.length = <<4, 4>>]

AllItems == {File, Transcode, Shorter, Twin}
=============================================================================
