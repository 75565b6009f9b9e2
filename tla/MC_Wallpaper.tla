----------------------------- MODULE MC_Wallpaper -----------------------------
(* Model-checking instance of Wallpaper: one or two icons on a display 200 *)
(* high, so each icon is a column of its own, and pointer positions on     *)
(* either icon, beside them, and below the display.  The grid is checked   *)
(* against the spec's closed form for every height from 0 to 400 (columns *)
(* of 1 to 4 icons, both sides of each wrap boundary) and up to 6 icons.   *)
EXTENDS Wallpaper

MCPoints == {[x |-> 30, y |-> 60], [x |-> 130, y |-> 60],
             [x |-> 5, y |-> 5], [x |-> 30, y |-> 200]}

(* Spec section 8, the icon grid wrap, for every display height H from 0 *)
(* to 400 and up to 6 icons: with h the icon height, a column of the grid *)
(* walked by draw() and mouse_action() holds max(1, (H - 50) div h) icons, *)
(* so icon (H - 50) div h + 1 starts the next column, one maximal icon     *)
(* width to the right.                                                     *)
ASSUME GridWrapSpec ==
  \A H \in 0..400, n \in 1..6 :
    LET perCol == IF (H - 50) \div IconH >= 1 THEN (H - 50) \div IconH ELSE 1
    IN  \A i \in 1..n :
          [x |-> GridOf(H, n)[i].x, y |-> GridOf(H, n)[i].y - IconH]
          = [x |-> 20 + ((i - 1) \div perCol) * IconW,
             y |-> 50 + ((i - 1) % perCol) * IconH]
=============================================================================
