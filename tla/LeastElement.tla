---------------------------- MODULE LeastElement ----------------------------
(***************************************************************************)
(* The least-element fact the hit test of PanelWindow.mouse_action() rests *)
(* on: the first widget whose extent holds the pointer exists whenever    *)
(* some widget's extent does.  Derived from the well-foundedness of < on   *)
(* the naturals, in a module of its own so that the provers see only the  *)
(* definitions it needs.                                                   *)
(***************************************************************************)
EXTENDS Integers, WellFoundedInduction, TLAPS

(* The less-than relation on the naturals, as a set of pairs.             *)
NatLess == {ss \in Nat \X Nat : ss[1] < ss[2]}

(* Less-than on the naturals is well-founded, stated without an operator *)
(* argument.                                                               *)
LEMMA NatLessWellFounded == IsWellFoundedOn(NatLess, Nat)
BY NatLessThanWellFounded DEF NatLess, OpToRel, IsWellFoundedOn

(* A non-empty set of naturals has a least element.                        *)
LEMMA NatSetHasMin ==
  ASSUME NEW T, T \subseteq Nat, T # {}
  PROVE  \E i \in T : \A j \in T : i <= j
<1>1. PICK x \in T : \A y \in T : ~(<<y, x>> \in NatLess)
  BY NatLessWellFounded, WFMin
<1>2. \A y \in T : x <= y
  <2> SUFFICES ASSUME NEW y \in T PROVE x <= y
    OBVIOUS
  <2>1. y \in Nat /\ x \in Nat /\ ~(<<y, x>> \in NatLess)
    BY <1>1
  <2>2. ~(y < x)
    BY <2>1 DEF NatLess
  <2> QED
    BY <2>1, <2>2
<1> QED
  BY <1>2

=============================================================================
