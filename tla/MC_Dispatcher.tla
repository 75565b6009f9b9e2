---------------------------- MODULE MC_Dispatcher ----------------------------
(* Model-checking instance of Dispatcher: two foreign windows, and a      *)
(* runner over the names ls, ln, l and "s\tl", typed with l, s and the    *)
(* tab an Alt+Tab types, up to two characters.                             *)
EXTENDS Dispatcher, TLC

CONSTANTS w1, w2

MCWids == {w1, w2}
MCChars == {9, 108, 115}
MCBins == {<<108, 115>>, <<108, 110>>, <<108>>, <<115, 9, 108>>}
MCSymmetry == Permutations(MCWids)
=============================================================================
