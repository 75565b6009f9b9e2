------------------------------- MODULE MC_Panel -------------------------------
(* The panel's six widgets in code order, their widths and the tile      *)
(* widths scaled by about 1/14 (140 -> 10, 28 -> 2, 70 -> 5, 80 -> 6,      *)
(* 150 -> 11, 50 -> 4), two display widths (about 400 and 630 pixels),     *)
(* pointer x at the edges of the widgets' extents and of the tiles, two    *)
(* windows (three for the tile-overflow run).  The volume starts at        *)
(* 0xF0000000 and VolumeBound keeps it in the top two steps: its           *)
(* arithmetic is proved in VolumeWidget_proofs, here only its share of    *)
(* the panel's dispatch matters.                                           *)
EXTENDS Panel

MCWidgets ==
  << [kind |-> "appmenu", width |-> 10], [kind |-> "windowlist", width |-> -1],
     [kind |-> "volume", width |-> 2], [kind |-> "date", width |-> 5],
     [kind |-> "clock", width |-> 6], [kind |-> "logout", width |-> 2] >>
MCPanelWidths == {29, 45}
(* A 320-pixel display, narrower than the fixed widgets' 346 pixels.       *)
MCNarrowWidths == {23}
MCXs == {9, 10, 12, 14, 16, 22, 28, 30, 33, 38, 44}
MCWids == {1, 2}
MCWids3 == {1, 2, 3}
MCInitialLevels == {Lv(15, 0)}
VolumeBound == volume.hi >= 14 /\ previous_volume.hi \in {0, 14, 15}
=============================================================================
