----------------------------- MODULE MCDlSpace -----------------------------
(* DlSpace with a buffer of a few units for TLC. *)
EXTENDS DlSpace

FreeChoices == {9, 16, 17, 20, 30}
TotalChoices == {0, 5, 13}
MaxFile == file <= 16
=============================================================================
