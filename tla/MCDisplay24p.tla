---------------------------- MODULE MCDisplay24p ----------------------------
(* Display24p for TLC: a television that shows every mode it advertises and *)
(* one that advertises both 24 Hz bits and stays black at one of them.      *)
EXTENDS Display24p

MCTVs == {1, 2}
MCAdvertised == <<{A, B, R50}, {A, B}>>
MCShows == <<{A, B, R50}, {A}>>
MCClock == [b \in Bits |-> CASE b = A -> "23.976" [] b = B -> "24" [] b = R50 -> "50"]
=============================================================================
