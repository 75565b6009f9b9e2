------------------------- MODULE VolumeWidget_proofs -------------------------
(***************************************************************************)
(* Proofs about the volume widget, for every set of startup knob values    *)
(* that fit 32 bits.                                                       *)
(***************************************************************************)
EXTENDS VolumeWidget, TLAPS

(* The low part of a level ranges over 0..0x0FFFFFFF, which holds 0.       *)
LEMMA StepPositive == Step \in Nat /\ 0 \in 0..Step - 1
BY DEF Step

(* Level 0, which mute and a clamp-down set, fits 32 bits.                 *)
LEMMA ZeroFits == Zero \in U32Levels
BY StepPositive DEF Zero, Lv, U32Levels, Levels, FitsU32

(* volume_up() on a 32-bit level gives a 32-bit level: the clamp catches  *)
(* every level above 0xE0000000 before the step could pass 0xFFFFFFFF.     *)
LEMMA UpFits ==
  ASSUME NEW a \in U32Levels
  PROVE  (IF LvLess(UpCap, a) THEN Top ELSE LvAdd(a, 1)) \in U32Levels
<1>1. CASE LvLess(UpCap, a)
  BY <1>1, StepPositive DEF Top, Lv, U32Levels, Levels, FitsU32
<1>2. CASE ~LvLess(UpCap, a)
  <2>1. a.hi \in 0..14
    BY <1>2 DEF LvLess, UpCap, Lv, U32Levels, Levels, FitsU32
  <2> QED
    BY <1>2, <2>1 DEF LvAdd, U32Levels, Levels, FitsU32
<1> QED
  BY <1>1, <1>2

(* volume_down() on a 32-bit level gives a 32-bit level: the clamp sends   *)
(* every level below 0x20000000 to 0 before the step could go negative.    *)
LEMMA DownFits ==
  ASSUME NEW a \in U32Levels
  PROVE  (IF LvLess(a, DownCap) THEN Zero ELSE LvAdd(a, -1)) \in U32Levels
<1>1. CASE LvLess(a, DownCap)
  BY <1>1, ZeroFits
<1>2. CASE ~LvLess(a, DownCap)
  <2>1. a.hi \in 2..15
    BY <1>2 DEF LvLess, DownCap, Lv, U32Levels, Levels, FitsU32
  <2> QED
    BY <1>2, <2>1 DEF LvAdd, U32Levels, Levels, FitsU32
<1> QED
  BY <1>1, <1>2

(* Every level set_volume() packs fits an unsigned 32-bit integer, so      *)
(* struct.pack("III", ...) never raises, however many scrolls, mute        *)
(* toggles and foreign writes to the knob come: VolTypeOK is inductive.   *)
THEOREM VolTypeCorrect == VolSpec => []VolTypeOK
<1>1. VolInit => VolTypeOK
  BY InitialLevelsAssumption, ZeroFits DEF VolInit, VolTypeOK
<1>2. VolTypeOK /\ [VolNext]_volvars => VolTypeOK'
  <2> SUFFICES ASSUME VolTypeOK, [VolNext]_volvars PROVE VolTypeOK'
    OBVIOUS
  <2>1. CASE volume_up
    BY <2>1, UpFits DEF volume_up, set_volume, VolTypeOK
  <2>2. CASE volume_down
    BY <2>2, DownFits DEF volume_down, set_volume, VolTypeOK
  <2>3. CASE toggle_mute
    BY <2>3, ZeroFits DEF toggle_mute, set_volume, VolTypeOK
  <2>4. CASE MixerSetElsewhere
    BY <2>4, InitialLevelsAssumption DEF MixerSetElsewhere, VolTypeOK
  <2>5. CASE UNCHANGED volvars
    BY <2>5 DEF volvars, VolTypeOK
  <2> QED
    BY <2>1, <2>2, <2>3, <2>4, <2>5 DEF VolNext, VolumeMouse
<1> QED
  BY <1>1, <1>2, PTL DEF VolSpec
=============================================================================
