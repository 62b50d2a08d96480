---------------------------- MODULE MCReadAhead -----------------------------
(* ReadAhead for TLC: a short stream of both kinds, with and without a ring. *)
EXTENDS ReadAhead

MCSource == <<"V", "A", "V", "V", "A", "V", "V", "V", "A", "V">>
=============================================================================
