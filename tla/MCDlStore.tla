----------------------------- MODULE MCDlStore ------------------------------
(* DlStore for TLC: a few saves and faults. *)
EXTENDS DlStore
=============================================================================
