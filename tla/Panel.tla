-------------------------------- MODULE Panel --------------------------------
(***************************************************************************)
(* PanelWindow of panel.py with its widgets: the layout of the widget      *)
(* strip (draw), the hit-test and focus tracking of mouse_action, the      *)
(* window-list widget's tiles and hover, the log-out button, and the       *)
(* volume widget (module VolumeWidget).  The widgets whose focus_enter     *)
(* changes how they draw (applications menu, clock, log-out button) are    *)
(* the members of hilighted; WindowListWidget.focus_leave clears hovered.  *)
(***************************************************************************)
EXTENDS Integers, Sequences, FiniteSets, VolumeWidget

CONSTANTS
  Widgets,      \* the widget list: a sequence of [kind, width]; width -1 = flexible
  PanelWidths,  \* display widths the compositor may offer
  Xs,           \* pointer x-coordinates mouse events may carry
  Wids,         \* window identifiers (numbers: the list is sorted by wid)
  TileMax,      \* 150: widest window-list tile
  TileMin,      \* 50: narrower tiles collapse to icon-only ones
  IconTile,     \* 28: width of an icon-only tile
  None

Kinds == {"appmenu", "windowlist", "volume", "date", "clock", "logout"}
(* The widgets whose focus_enter / focus_leave change how they draw.      *)
HilightKinds == {"appmenu", "clock", "logout"}

(* The widget list of main() (panel.py line 990) holds one window list.   *)
ASSUME WidgetsAssumption ==
  /\ Widgets \in Seq([kind : Kinds, width : Int])
  /\ \E i \in 1..Len(Widgets) : Widgets[i].kind = "windowlist"
  /\ \A i, j \in 1..Len(Widgets) :
       Widgets[i].kind = "windowlist" /\ Widgets[j].kind = "windowlist" => i = j
ASSUME PanelAssumption ==
  /\ PanelWidths \subseteq Nat /\ PanelWidths # {} /\ Xs \subseteq Int
  /\ Wids \subseteq Nat /\ None \notin Nat
  /\ {TileMax, TileMin, IconTile} \subseteq Nat \ {0}

N == Len(Widgets)
Width(i) == Widgets[i].width
Kind(i) == Widgets[i].kind
WL == CHOOSE i \in 1..N : Kind(i) = "windowlist"

VARIABLES
  width,          \* self.width of the panel window
  focused,        \* index of self.focused_widget, 0 for None
  hilighted,      \* widgets whose focus_enter has run and focus_leave not
  windows,        \* global windows: the window list sorted by wid
  hovered,        \* WindowListWidget.hovered: a wid or None
  wl_offset,      \* WindowListWidget.offset, set by its last draw
  wl_unit,        \* WindowListWidget.unit_width, None until its first draw
  focus_request,  \* wid of the last yctx.focus_window(...) call
  session_end,    \* yctx.session_end() was called
  visible,        \* self.visible
  status          \* "running", or "crashed" after an uncaught exception

panelvars == <<width, focused, hilighted, windows, hovered, wl_offset, wl_unit,
               focus_request, session_end, visible, status>>
vars == <<panelvars, volvars>>

-----------------------------------------------------------------------------
(* Layout: the loop shared by draw() and mouse_action().                   *)

(* sum(widget.width for widget in self.widgets[i-1:]), with the -1 of any  *)
(* later flexible widget counted as it is.                                 *)
SumFrom[i \in 1..N + 1] == IF i > N THEN 0 ELSE Width(i) + SumFrom[i + 1]

(* remaining for widget i: 0 for a fixed widget, else the panel width less *)
(* the widths of the widgets after it.                                     *)
(* Mutant: the slice taken from the widget itself, self.widgets[index-1:]. *)
Remaining_from_self(w, i) == IF Width(i) # -1 THEN 0 ELSE w - SumFrom[i]
Remaining(w, i) == IF Width(i) # -1 THEN 0 ELSE w - SumFrom[i + 1]

(* The offset each widget is drawn at, and the right end of its extent.    *)
Offsets(w) ==
  LET off[i \in 1..N] ==
        IF i = 1 THEN 0
        ELSE IF Width(i - 1) # -1 THEN off[i - 1] + Width(i - 1)
             ELSE Remaining(w, i - 1)
  IN off
RightEnds(w) ==
  LET off == Offsets(w)
  IN [i \in 1..N |-> IF Width(i) # -1 THEN off[i] + Width(i) ELSE Remaining(w, i)]

(* The first widget whose extent holds x, 0 when none does.               *)
HitTest(w, x) ==
  LET off == Offsets(w)
      right == RightEnds(w)
      hits == {i \in 1..N : off[i] <= x /\ x < right[i]}
  IN IF hits = {} THEN 0 ELSE CHOOSE i \in hits : \A j \in hits : i <= j

(* Python's int(a / b) for b > 0: truncation toward zero.                  *)
PyDiv(a, b) == IF a >= 0 THEN a \div b ELSE -((-a) \div b)
PyIndexOK(s, i) == -Len(s) <= i /\ i < Len(s)
PyIndex(s, i) == IF i < 0 THEN s[Len(s) + i + 1] ELSE s[i + 1]

(* WindowListWidget.draw: tile width min(int(available / count), 150),    *)
(* 28 when that is below 50.                                               *)
UnitWidth(available, count) ==
  LET u == IF PyDiv(available, count) < TileMax
           THEN PyDiv(available, count) ELSE TileMax
  IN IF u < TileMin THEN IconTile ELSE u

(* PanelWindow.draw() for panel width w and window list ws: of the widget  *)
(* state only the window list's cache changes, and only if there are       *)
(* windows (its draw returns at once otherwise).                           *)
DrawWith(w, ws) ==
  IF ws = <<>>
  THEN UNCHANGED <<wl_offset, wl_unit>>
  ELSE /\ wl_offset' = Offsets(w)[WL]
       /\ wl_unit' = UnitWidth(Remaining(w, WL) - Offsets(w)[WL], Len(ws))

(* The lists sorted(windows_zorder, key=wid) can yield: the windows of    *)
(* the z-order list (distinct ids) in increasing wid order.                *)
SortedLists ==
  { s \in UNION { [1..n -> Wids] : n \in 0..Cardinality(Wids) } :
      \A i, j \in DOMAIN s : i < j => s[i] < s[j] }

-----------------------------------------------------------------------------
(* Focus capabilities of the widgets.                                      *)

focus_enter(i) ==
  hilighted' = IF Kind(i) \in HilightKinds THEN hilighted \cup {i} ELSE hilighted

(* Mutant: WindowListWidget without its focus_leave override.            *)
SwitchFocus_keeps_hover(i, j) ==
  /\ hilighted' = IF j # 0 /\ Kind(j) \in HilightKinds
                  THEN (hilighted \ {i}) \cup {j} ELSE hilighted \ {i}
  /\ hovered' = hovered

(* focus_leave of widget i, followed by focus_enter of widget j (0: none). *)
SwitchFocus(i, j) ==
  /\ hilighted' = IF j # 0 /\ Kind(j) \in HilightKinds
                  THEN (hilighted \ {i}) \cup {j} ELSE hilighted \ {i}
  /\ hovered' = IF i = WL THEN None ELSE hovered

-----------------------------------------------------------------------------
(* mouse_action of the focused widget i for event (command, x, buttons).   *)

(* Mutant: hovered records the tile index instead of the window's wid.    *)
WindowListMouse_stores_index(command, x, buttons) ==
  \/ /\ windows = <<>>
     /\ UNCHANGED <<hovered, focus_request, status>>
  \/ /\ windows # <<>>
     /\ LET idx == PyDiv(x - wl_offset, wl_unit) IN
        \/ /\ idx < Len(windows) /\ ~PyIndexOK(windows, idx)
           /\ status' = "crashed"
           /\ UNCHANGED <<hovered, focus_request>>
        \/ /\ idx < Len(windows) /\ PyIndexOK(windows, idx)
           /\ hovered' = idx
           /\ focus_request' = IF command = "click" THEN PyIndex(windows, idx)
                                ELSE focus_request
           /\ UNCHANGED status
        \/ /\ idx >= Len(windows)
           /\ hovered' = None
           /\ UNCHANGED <<focus_request, status>>

WindowListMouse(command, x, buttons) ==
  \/ /\ windows = <<>>
     /\ UNCHANGED <<hovered, focus_request, status>>
  \/ /\ windows # <<>>
     /\ LET idx == PyDiv(x - wl_offset, wl_unit) IN
        \/ /\ idx < Len(windows) /\ ~PyIndexOK(windows, idx)
           /\ status' = "crashed"
           /\ UNCHANGED <<hovered, focus_request>>
        \/ /\ idx < Len(windows) /\ PyIndexOK(windows, idx)
           /\ hovered' = PyIndex(windows, idx)
           /\ focus_request' = IF command = "click" THEN hovered' ELSE focus_request
           /\ UNCHANGED status
        \/ /\ idx >= Len(windows)
           /\ hovered' = None
           /\ UNCHANGED <<focus_request, status>>

(* LogOutWidget.mouse_action: a click asks the compositor to end the       *)
(* session; it returns False, so the panel does not redraw.                *)
LogOutMouse(command) == session_end' = (session_end \/ command = "click")

(* The widget's mouse_action, then self.draw() if it returned true.       *)
WidgetMouse(i, command, x, buttons) ==
  /\ focused' = focused
  /\ UNCHANGED <<width, hilighted, windows, visible>>
  /\ \/ /\ Kind(i) = "windowlist"
        /\ WindowListMouse(command, x, buttons)
        /\ IF windows # <<>> /\ hovered' # hovered
           THEN DrawWith(width, windows) ELSE UNCHANGED <<wl_offset, wl_unit>>
        /\ UNCHANGED <<session_end, volvars>>
     \/ /\ Kind(i) = "volume"
        /\ VolumeMouse(command, buttons)
        /\ IF VolumeRedraws(command, buttons)
           THEN DrawWith(width, windows) ELSE UNCHANGED <<wl_offset, wl_unit>>
        /\ UNCHANGED <<hovered, focus_request, session_end, status>>
     \/ /\ Kind(i) = "logout"
        /\ LogOutMouse(command)
        /\ UNCHANGED <<hovered, wl_offset, wl_unit, focus_request, status,
                       volvars>>
     \/ /\ Kind(i) \in {"appmenu", "date", "clock"}
        /\ UNCHANGED <<hovered, wl_offset, wl_unit, focus_request,
                       session_end, status, volvars>>

(* PanelWindow.mouse_action(msg).  inside: msg.new_y < self.height.        *)
(* command "leave" is the code's msg.command == 5.                         *)
MouseAction(command, x, inside, buttons) ==
  /\ status = "running"
  /\ \/ /\ command = "leave" \/ ~inside
        /\ focused # 0
        /\ SwitchFocus(focused, 0)
        /\ focused' = 0
        /\ DrawWith(width, windows)
        /\ UNCHANGED <<width, windows, focus_request, session_end, visible,
                       status, volvars>>
     \/ /\ inside
        /\ ~(command = "leave" /\ focused # 0)
        /\ LET hit == HitTest(width, x) IN
           \/ /\ hit # focused
              /\ IF focused # 0 THEN SwitchFocus(focused, hit)
                 ELSE /\ focus_enter(hit)
                      /\ UNCHANGED hovered
              /\ focused' = hit
              /\ DrawWith(width, windows)
              /\ UNCHANGED <<width, windows, focus_request, session_end,
                             visible, status, volvars>>
           \/ /\ hit = focused /\ hit # 0
              /\ WidgetMouse(hit, command, x, buttons)
     \/ /\ ~inside /\ focused = 0
        /\ UNCHANGED vars

-----------------------------------------------------------------------------
(* The other messages the main loop hands the panel.                       *)

(* Mutant: the MSG_NOTIFY branch without its panel.draw().                *)
Notify_no_draw ==
  /\ status = "running"
  /\ \E ws \in SortedLists : windows' = ws
  /\ UNCHANGED <<width, focused, hilighted, hovered, wl_offset, wl_unit,
                 focus_request, session_end, visible, status, volvars>>

(* MSG_NOTIFY: windows_zorder is rebuilt, windows sorted from it, and the  *)
(* panel redrawn.  hovered is left as it was.                              *)
Notify ==
  /\ status = "running"
  /\ \E ws \in SortedLists :
       /\ windows' = ws
       /\ DrawWith(width, ws)
  /\ UNCHANGED <<width, focused, hilighted, hovered, focus_request,
                 session_end, visible, status, volvars>>

(* MSG_RESIZE_OFFER for the panel: finish_resize accepts the new width,    *)
(* reinitialises the buffers and draws.                                    *)
ResizeOffer ==
  /\ status = "running"
  /\ \E w \in PanelWidths :
       /\ width' = w
       /\ DrawWith(w, windows)
  /\ UNCHANGED <<focused, hilighted, windows, hovered, focus_request,
                 session_end, visible, status, volvars>>

(* Ctrl-F11: toggle_visibility slides the panel out or in (blocking).      *)
ToggleVisibility ==
  /\ status = "running"
  /\ visible' = ~visible
  /\ UNCHANGED <<width, focused, hilighted, windows, hovered, wl_offset,
                 wl_unit, focus_request, session_end, status,
                 volvars>>

(* Another program sets the mixer knob.                                    *)
MixerElsewhere ==
  /\ status = "running"
  /\ MixerSetElsewhere
  /\ UNCHANGED panelvars

(* Startup: the panel is created at the display width with no focus, the   *)
(* window list is read, and panel.draw() runs.                             *)
Init ==
  /\ width \in PanelWidths
  /\ focused = 0
  /\ hilighted = {}
  /\ windows \in SortedLists
  /\ hovered = None
  /\ IF windows = <<>>
     THEN wl_offset = 0 /\ wl_unit = None
     ELSE /\ wl_offset = Offsets(width)[WL]
          /\ wl_unit = UnitWidth(Remaining(width, WL) - wl_offset, Len(windows))
  /\ focus_request = None
  /\ session_end = FALSE
  /\ visible = TRUE
  /\ status = "running"
  /\ VolInit

(* The button sets mouse events carry.  A right click only opens a menu,  *)
(* which is not modelled, so it is left out.                              *)
PanelButtons == {{}, {"scroll_up"}, {"scroll_down"}}

(* No Terminated step: the hit test only hands the window list pointers    *)
(* at or right of its offset, so its IndexError path cannot be reached;   *)
(* were it reached, the crashed state would show as a deadlock.           *)
Next ==
  \/ \E c \in MouseCommands, x \in Xs, in \in BOOLEAN, b \in PanelButtons :
       MouseAction(c, x, in, b)
  \/ Notify
  \/ ResizeOffer
  \/ ToggleVisibility
  \/ MixerElsewhere

Spec == Init /\ [][Next]_vars

-----------------------------------------------------------------------------
(* Properties                                                              *)

(* The type of the panel's state; in particular hovered always holds a    *)
(* window id (or None), never a tile index, whatever the pointer does.     *)
PanelTypeOK ==
  /\ width \in PanelWidths
  /\ focused \in 0..N
  /\ hilighted \subseteq 1..N
  /\ windows \in Seq(Wids)
  /\ hovered \in Wids \cup {None}
  /\ wl_offset \in Int
  /\ wl_unit \in Int \cup {None}
  /\ focus_request \in Wids \cup {None}
  /\ session_end \in BOOLEAN
  /\ visible \in BOOLEAN
  /\ status \in {"running", "crashed"}
  /\ VolTypeOK

(* The spec's focus invariant, on the widgets' own state: exactly the      *)
(* focused widget shows as focused (its focus_enter ran and its            *)
(* focus_leave has not), and the window list shows a hovered tile only     *)
(* while it is the focused widget.  Whatever order of moves, clicks,       *)
(* leave events, pointer exits, resizes and list changes arrives.          *)
FocusStateAgrees ==
  status = "running" =>
    /\ \A i \in 1..N : i \in hilighted <=> (focused = i /\ Kind(i) \in HilightKinds)
    /\ hovered # None => focused = WL

(* WindowListWidget.mouse_action maps the pointer to a tile with the       *)
(* offset and unit_width of the last draw: whenever there are windows,     *)
(* those are the values a draw would compute now from the current panel   *)
(* width and window list (no list change or resize goes undrawn).          *)
DrawCacheFresh ==
  windows # <<>> =>
    /\ wl_offset = Offsets(width)[WL]
    /\ wl_unit = UnitWidth(Remaining(width, WL) - wl_offset, Len(windows))

(* The spec (window-list widget): one tile per window "inside the          *)
(* remaining panel space".  The tiles drawn end at or before the right     *)
(* end of the window list's extent.                                        *)
TilesWithinExtent ==
  windows # <<>> => wl_offset + Len(windows) * wl_unit <= Remaining(width, WL)

(* The spec's layout property (section 9): the extents draw() and          *)
(* mouse_action() compute for the current panel width are contiguous,     *)
(* non-overlapping and cover exactly [0, width): each widget starts where  *)
(* the one before it ends, none ends before it starts, the first starts at *)
(* 0 and the last ends at the panel's right edge.                          *)
LayoutContiguous ==
  LET off == Offsets(width)
      right == RightEnds(width)
  IN /\ off[1] = 0 /\ right[N] = width
     /\ \A i \in 1..N : off[i] <= right[i]
     /\ \A i \in 1..N - 1 : right[i] = off[i + 1]

=============================================================================
