--------------------------- MODULE MCMusicEngine ----------------------------
(* MusicEngine for TLC: three short tracks. *)
EXTENDS MusicEngine

\* The second one fits in the ring behind the first.
MCUnits == <<3, 2, 2>>
=============================================================================
