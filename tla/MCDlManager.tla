---------------------------- MODULE MCDlManager ----------------------------
(* DlManager with finite values for TLC. *)
EXTENDS DlManager, TLC

CONSTANTS a, b

OneId == {a}
TwoIds == {a, b}
Symmetric == Permutations({a, b})
=============================================================================
