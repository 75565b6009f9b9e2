--------------------------- MODULE MC_VolumeWidget ---------------------------
(* Startup knob values at the edges of volume_up/volume_down's tests:      *)
(* 0, 5, 0x10000000, 0x1FFFFFFF, 0xE0000000, 0xE0000001, 0xF0000000.       *)
EXTENDS VolumeWidget

MCInitialLevels == {Lv(0, 0), Lv(0, 5), Lv(1, 0), Lv(1, Step - 1),
                    Lv(14, 0), Lv(14, 1), Lv(15, 0)}
=============================================================================
