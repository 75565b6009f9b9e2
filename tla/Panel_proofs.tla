---------------------------- MODULE Panel_proofs ----------------------------
(***************************************************************************)
(* Proofs about the panel's focus handling, for every widget list with one *)
(* window-list widget and every set of widths, pointer positions and       *)
(* windows.                                                                *)
(***************************************************************************)
EXTENDS Panel, LeastElement, TLAPS

(* WL is the one window-list widget, and no other index is one.            *)
LEMMA WLUnique ==
  /\ WL \in 1..N /\ Kind(WL) = "windowlist"
  /\ \A i \in 1..N : Kind(i) = "windowlist" => i = WL
<1>1. \E i \in 1..N : Kind(i) = "windowlist"
  BY WidgetsAssumption DEF N, Kind
<1>2. WL \in 1..N /\ Kind(WL) = "windowlist"
  BY <1>1 DEF WL
<1> QED
  BY <1>2, WidgetsAssumption DEF N, Kind

(* The widget list's length is a natural.                                   *)
LEMMA NNat == N \in Nat
BY WidgetsAssumption DEF N

(* The hit test of mouse_action() yields a widget index, or 0 for none.   *)
LEMMA HitTestRange ==
  ASSUME NEW w, NEW x
  PROVE  HitTest(w, x) \in 0..N
<1> DEFINE hits == {i \in 1..N : Offsets(w)[i] <= x /\ x < RightEnds(w)[i]}
<1>1. N \in Nat
  BY WidgetsAssumption DEF N
<1>2. CASE hits = {}
  BY <1>1, <1>2 DEF HitTest
<1>3. CASE hits # {}
  <2>1. hits \subseteq Nat
    BY <1>1
  <2>2. \E i \in hits : \A j \in hits : i <= j
    BY <1>3, <2>1, NatSetHasMin
  <2>3. (CHOOSE i \in hits : \A j \in hits : i <= j) \in hits
    BY <2>2
  <2> QED
    BY <1>3, <2>3 DEF HitTest
<1> QED
  BY <1>2, <1>3

(* The invariant the focus proof carries: the focus is a widget index or  *)
(* none, the highlighted set holds widget indices, and FocusStateAgrees.   *)
FocusInv ==
  /\ focused \in 0..N
  /\ hilighted \subseteq 1..N
  /\ FocusStateAgrees

(* The state changes of mouse_action() that leave the focus as it is do   *)
(* not touch the highlighted set, and set hovered only from the window    *)
(* list's own mouse_action.                                                *)
LEMMA WidgetMouseFocus ==
  ASSUME FocusInv, status = "running",
         NEW i \in 1..N, i = focused,
         NEW c, NEW x, NEW b,
         WidgetMouse(i, c, x, b)
  PROVE  FocusInv'
<1>1. focused' = focused /\ hilighted' = hilighted
  BY DEF WidgetMouse
<1>2. hovered' # None => focused' = WL
  <2>1. CASE Kind(i) = "windowlist"
    BY <1>1, <2>1, WLUnique
  <2>2. CASE Kind(i) # "windowlist"
    <3>1. hovered' = hovered
      BY <2>2 DEF WidgetMouse
    <3> QED
      BY <1>1, <3>1 DEF FocusInv, FocusStateAgrees
  <2> QED
    BY <2>1, <2>2
<1> QED
  BY <1>1, <1>2 DEF FocusInv, FocusStateAgrees

(* A pointer leave, or an exit below the panel, with a widget focused:    *)
(* focus_leave of that widget, no focus, and a redraw.                     *)
LEMMA LeaveFocus ==
  ASSUME FocusInv, status = "running", focused # 0,
         SwitchFocus(focused, 0), focused' = 0, UNCHANGED status
  PROVE  FocusInv'
<1>1. hilighted \subseteq {focused}
  BY DEF FocusInv, FocusStateAgrees
<1>2. hilighted' = {}
  BY <1>1 DEF SwitchFocus
<1>3. hovered' = None
  BY DEF SwitchFocus, FocusInv, FocusStateAgrees
<1> QED
  BY <1>2, <1>3, NNat DEF FocusInv, FocusStateAgrees

(* The pointer moves onto another widget (or off every widget): the       *)
(* focused one gets focus_leave, the new one focus_enter.                  *)
LEMMA MoveFocus ==
  ASSUME FocusInv, status = "running",
         NEW hit \in 0..N, hit # focused,
         IF focused # 0 THEN SwitchFocus(focused, hit)
         ELSE /\ focus_enter(hit) /\ UNCHANGED hovered,
         focused' = hit, UNCHANGED status
  PROVE  FocusInv'
<1>1. CASE focused # 0
  <2>1. hilighted' = IF hit # 0 /\ Kind(hit) \in HilightKinds
                     THEN (hilighted \ {focused}) \cup {hit}
                     ELSE hilighted \ {focused}
    BY <1>1 DEF SwitchFocus
  <2>2. hovered' = None
    BY <1>1 DEF SwitchFocus, FocusInv, FocusStateAgrees
  <2> QED
    BY <2>1, <2>2, NNat DEF FocusInv, FocusStateAgrees
<1>2. CASE focused = 0
  <2>0. hilighted \subseteq {focused}
    BY DEF FocusInv, FocusStateAgrees
  <2>1. hilighted = {} /\ hovered = None
    BY <1>2, <2>0, WLUnique DEF FocusInv, FocusStateAgrees
  <2>2. focus_enter(hit) /\ hovered' = hovered
    BY <1>2
  <2>3. hilighted' = IF Kind(hit) \in HilightKinds THEN {hit} ELSE {}
    BY <2>1, <2>2 DEF focus_enter
  <2>4. hovered' = None
    BY <2>1, <2>2
  <2> QED
    BY <1>2, <2>3, <2>4, NNat DEF FocusInv, FocusStateAgrees
<1> QED
  BY <1>1, <1>2

(* The spec's focus invariant holds in every reachable state of the       *)
(* panel, for every widget list with one window-list widget: exactly the  *)
(* focused widget is highlighted, and only the focused window list shows  *)
(* a hovered tile.  FocusInv is inductive.                                 *)
THEOREM FocusCorrect == Spec => []FocusStateAgrees
<1>1. Init => FocusInv
  BY NNat DEF Init, FocusInv, FocusStateAgrees
<1>2. FocusInv /\ [Next]_vars => FocusInv'
  <2> SUFFICES ASSUME FocusInv, [Next]_vars PROVE FocusInv'
    OBVIOUS
  <2>1. ASSUME NEW c \in MouseCommands, NEW x \in Xs, NEW in \in BOOLEAN,
               NEW b \in PanelButtons, MouseAction(c, x, in, b)
        PROVE  FocusInv'
    <3>1. status = "running"
      BY <2>1 DEF MouseAction
    <3>2. CASE /\ c = "leave" \/ ~in
               /\ focused # 0
               /\ SwitchFocus(focused, 0)
               /\ focused' = 0
               /\ UNCHANGED status
      BY <3>1, <3>2, LeaveFocus
    <3>3. CASE /\ HitTest(width, x) # focused
               /\ IF focused # 0 THEN SwitchFocus(focused, HitTest(width, x))
                  ELSE /\ focus_enter(HitTest(width, x))
                       /\ UNCHANGED hovered
               /\ focused' = HitTest(width, x)
               /\ UNCHANGED status
      BY <3>1, <3>3, HitTestRange, MoveFocus
    <3>4. CASE /\ HitTest(width, x) = focused /\ HitTest(width, x) # 0
               /\ WidgetMouse(HitTest(width, x), c, x, b)
      BY <3>1, <3>4, HitTestRange, WidgetMouseFocus
    <3>5. CASE UNCHANGED vars
      BY <3>5 DEF vars, panelvars, FocusInv, FocusStateAgrees
    <3> QED
      BY <2>1, <3>2, <3>3, <3>4, <3>5 DEF MouseAction
  <2>2. CASE Notify \/ ResizeOffer \/ ToggleVisibility \/ MixerElsewhere
    BY <2>2 DEF Notify, ResizeOffer, ToggleVisibility, MixerElsewhere,
                panelvars, FocusInv, FocusStateAgrees
  <2>3. CASE UNCHANGED vars
    BY <2>3 DEF vars, panelvars, FocusInv, FocusStateAgrees
  <2> QED
    BY <2>1, <2>2, <2>3 DEF Next
<1>3. FocusInv => FocusStateAgrees
  BY DEF FocusInv
<1> QED
  BY <1>1, <1>2, <1>3, PTL DEF Spec

-----------------------------------------------------------------------------
(* The window list's cached geometry.                                      *)

(* DrawWith(w, ws) leaves the cache as a draw for width w and list ws     *)
(* would compute it, whenever ws is not empty.                              *)
LEMMA DrawWithFresh ==
  ASSUME NEW w, NEW ws, DrawWith(w, ws), width' = w, windows' = ws
  PROVE  DrawCacheFresh'
BY DEF DrawWith, DrawCacheFresh

(* A step that changes neither the width, the window list nor the cache   *)
(* keeps the cache fresh.                                                  *)
LEMMA KeepFresh ==
  ASSUME DrawCacheFresh, UNCHANGED <<width, windows, wl_offset, wl_unit>>
  PROVE  DrawCacheFresh'
BY DEF DrawCacheFresh

(* WindowListWidget.mouse_action() reads the tile geometry of the last     *)
(* draw: whenever there are windows, the cache holds what a draw for the   *)
(* current width and list computes, because every resize, list change and *)
(* focus change redraws, and a mouse action that does not redraw changes  *)
(* neither.  DrawCacheFresh is inductive on its own.                      *)
THEOREM DrawCacheCorrect == Spec => []DrawCacheFresh
<1>1. Init => DrawCacheFresh
  BY DEF Init, DrawCacheFresh
<1>2. DrawCacheFresh /\ [Next]_vars => DrawCacheFresh'
  <2> SUFFICES ASSUME DrawCacheFresh, [Next]_vars PROVE DrawCacheFresh'
    OBVIOUS
  <2>1. ASSUME NEW c \in MouseCommands, NEW x \in Xs, NEW in \in BOOLEAN,
               NEW b \in PanelButtons, MouseAction(c, x, in, b)
        PROVE  DrawCacheFresh'
    <3>1. CASE DrawWith(width, windows) /\ UNCHANGED <<width, windows>>
      BY <3>1, DrawWithFresh
    <3>2. CASE UNCHANGED <<width, windows, wl_offset, wl_unit>>
      BY <3>2, KeepFresh
    <3>3. ASSUME NEW i, WidgetMouse(i, c, x, b)
          PROVE  DrawCacheFresh'
      <4>1. UNCHANGED <<width, windows>>
        BY <3>3 DEF WidgetMouse
      <4>2. DrawWith(width, windows) \/ UNCHANGED <<wl_offset, wl_unit>>
        BY <3>3 DEF WidgetMouse
      <4> QED
        BY <4>1, <4>2, <3>1, <3>2
    <3> QED
      BY <2>1, <3>1, <3>2, <3>3 DEF MouseAction, vars, panelvars
  <2>2. CASE Notify
    <3>1. PICK ws \in SortedLists : windows' = ws /\ DrawWith(width, ws)
      BY <2>2 DEF Notify
    <3> QED
      BY <2>2, <3>1, DrawWithFresh DEF Notify
  <2>3. CASE ResizeOffer
    <3>1. PICK w \in PanelWidths : width' = w /\ DrawWith(w, windows)
      BY <2>3 DEF ResizeOffer
    <3> QED
      BY <2>3, <3>1, DrawWithFresh DEF ResizeOffer
  <2>4. CASE ToggleVisibility \/ MixerElsewhere \/ UNCHANGED vars
    BY <2>4, KeepFresh DEF ToggleVisibility, MixerElsewhere, vars, panelvars
  <2> QED
    BY <2>1, <2>2, <2>3, <2>4 DEF Next
<1> QED
  BY <1>1, <1>2, PTL DEF Spec
=============================================================================
