------------------------------ MODULE MC_AltTab ------------------------------
(* Model-checking instance of AltTab: three foreign windows, lists of up   *)
(* to three, so a list can shrink under a selection at index 2.            *)
EXTENDS AltTab, TLC

CONSTANTS w1, w2, w3

MCWids == {w1, w2, w3}
MCMaxWindows == 3
MCSymmetry == Permutations(MCWids)
=============================================================================
