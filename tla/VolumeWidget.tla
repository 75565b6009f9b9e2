---------------------------- MODULE VolumeWidget ----------------------------
(***************************************************************************)
(* VolumeWidget of panel.py: a cached level, a mute flag and the level     *)
(* saved at mute time, pushed to /dev/mixer by set_volume().  The mixer    *)
(* knob is shared with every other program that opens /dev/mixer; the      *)
(* widget reads it once, in __init__.                                      *)
(***************************************************************************)
EXTENDS Integers

CONSTANTS
  InitialLevels   \* knob values the mixer may hold when the panel starts

Step == 2^28                           \* 0x10000000
Levels == [hi : Int, lo : 0..Step - 1]
Lv(h, l) == [hi |-> h, lo |-> l]
LvLess(a, b) == a.hi < b.hi \/ (a.hi = b.hi /\ a.lo < b.lo)
LvAdd(a, k) == [a EXCEPT !.hi = @ + k]  \* a + k * 0x10000000
Zero    == Lv(0, 0)
DownCap == Lv(2, 0)                    \* 0x20000000
UpCap   == Lv(14, 0)                   \* 0xE0000000
Top     == Lv(15, 0)                   \* 0xF0000000
(* struct.pack("III", ...) accepts 0..2^32-1, i.e. hi in 0..15.            *)
FitsU32(a) == a.hi \in 0..15
U32Levels == {l \in Levels : FitsU32(l)}

ASSUME InitialLevelsAssumption ==
  /\ InitialLevels \subseteq U32Levels
  /\ InitialLevels # {}

VARIABLES
  volume,           \* self.volume
  muted,            \* self.muted
  previous_volume,  \* self.previous_volume
  mixer,            \* the knob value held by the mixer device
  vol_op            \* auxiliary: the last operation the widget performed

volvars == <<volume, muted, previous_volume, mixer, vol_op>>

(* __init__: get_volume() reads the knob.                                  *)
VolInit ==
  /\ mixer \in InitialLevels
  /\ volume = mixer
  /\ muted = FALSE
  /\ previous_volume = Zero
  /\ vol_op = "none"

(* set_volume() writes the new self.volume to the knob.                    *)
set_volume == mixer' = volume'

volume_up ==
  /\ volume' = IF LvLess(UpCap, volume) THEN Top ELSE LvAdd(volume, 1)
  /\ set_volume
  /\ vol_op' = "up"
  /\ UNCHANGED <<muted, previous_volume>>

volume_down ==
  /\ volume' = IF LvLess(volume, DownCap) THEN Zero ELSE LvAdd(volume, -1)
  /\ set_volume
  /\ vol_op' = "down"
  /\ UNCHANGED <<muted, previous_volume>>

(* A click toggles mute, saving or restoring the level.                    *)
toggle_mute ==
  \/ /\ muted
     /\ muted' = FALSE
     /\ volume' = previous_volume
     /\ set_volume
     /\ vol_op' = "unmute"
     /\ UNCHANGED previous_volume
  \/ /\ ~muted
     /\ muted' = TRUE
     /\ previous_volume' = volume
     /\ volume' = Zero
     /\ set_volume
     /\ vol_op' = "mute"

(* mouse_action(msg): a click toggles mute; otherwise a scroll-up or a     *)
(* scroll-down flag in msg.buttons moves the level; anything else does     *)
(* nothing (and returns None).                                             *)
VolumeMouse(command, buttons) ==
  \/ command = "click" /\ toggle_mute
  \/ command # "click" /\ "scroll_up" \in buttons /\ volume_up
  \/ /\ command # "click" /\ "scroll_up" \notin buttons
     /\ "scroll_down" \in buttons /\ volume_down
  \/ /\ command # "click" /\ buttons \cap {"scroll_up", "scroll_down"} = {}
     /\ UNCHANGED volvars

(* Whether mouse_action returns True, i.e. asks the panel to redraw.       *)
VolumeRedraws(command, buttons) ==
  command = "click" \/ buttons \cap {"scroll_up", "scroll_down"} # {}

(* Another program writes the knob; the widget's cached level is not told. *)
MixerSetElsewhere ==
  /\ \E l \in InitialLevels : mixer' = l
  /\ vol_op' = "external"
  /\ UNCHANGED <<volume, muted, previous_volume>>

-----------------------------------------------------------------------------
(* The widget on its own, driven by every mouse event it can be given.     *)

MouseCommands == {"move", "click", "leave"}
MouseButtons  == {{}, {"scroll_up"}, {"scroll_down"}, {"right"}}

VolNext ==
  \/ \E c \in MouseCommands, b \in MouseButtons : VolumeMouse(c, b)
  \/ MixerSetElsewhere

VolSpec == VolInit /\ [][VolNext]_volvars

(* The type of the widget's state.  Levels are unsigned 32-bit: every     *)
(* level set_volume() packs fits the knob, so struct.pack never raises,    *)
(* however many scrolls and mute toggles come.                             *)
VolTypeOK ==
  /\ volume \in U32Levels /\ previous_volume \in U32Levels
  /\ mixer \in U32Levels
  /\ muted \in BOOLEAN
  /\ vol_op \in {"none", "up", "down", "mute", "unmute", "external"}

(* Scrolling up never lowers the mixer level (the spec: scrolling adjusts  *)
(* the level by a fixed step, clamping at the extremes).                   *)
ScrollUpNeverLowers ==
  [][ vol_op' = "up" => ~LvLess(mixer', mixer) ]_volvars

=============================================================================
