------------------------------- MODULE AltTab -------------------------------
(***************************************************************************)
(* The dispatcher's window directory and the Alt-Tab switcher of panel.py. *)
(*                                                                         *)
(* The main loop keeps windows_zorder, the window list as the compositor   *)
(* advertised it, rebuilt wholesale on every MSG_NOTIFY, and the globals   *)
(* tabbing, new_focused and alttab of the Alt-Tab switcher.  alt_tab()     *)
(* moves the selection on Alt+Tab / Alt+Shift+Tab; finish_alt_tab()        *)
(* focuses windows_zorder[new_focused] when Alt is released.  Python list  *)
(* indexing is modelled as it behaves: an index outside -len..len-1 raises *)
(* IndexError, which nothing catches, so the process dies.                 *)
(***************************************************************************)
EXTENDS Integers, Sequences, FiniteSets

CONSTANTS
  Wids,        \* identifiers of the other clients' windows (model values)
  MaxWindows,  \* bound on the length of an advertised window list
  None         \* Python None

ASSUME WidsAssumption == IsFiniteSet(Wids) /\ None \notin Wids
ASSUME MaxWindowsAssumption == MaxWindows \in Nat

VARIABLES
  windows_zorder, \* the advertised window list, a sequence of wids
  tabbing,        \* global tabbing
  new_focused,    \* global new_focused, a Python index (-1 when idle)
  alttab_open,    \* the AlttabWindow overlay exists (created, not closed)
  overlay_shows,  \* wid whose icon and name the overlay last drew
  focus_request,  \* wid of the last yctx.focus_window(...) call
  status          \* "running", or "crashed" after an uncaught exception

vars == <<windows_zorder, tabbing, new_focused, alttab_open, overlay_shows,
          focus_request, status>>

(* The lists the compositor may advertise: no window twice.                *)
WindowLists ==
  { s \in UNION { [1..n -> Wids] : n \in 0..MaxWindows } :
      \A i, j \in DOMAIN s : i # j => s[i] # s[j] }

(* Keyboard events as the main loop tests them: a keycode, the set of      *)
(* modifiers held, and the action (down or up).                            *)
Keycodes  == {"Tab", "LeftAlt", "Zero", "Other"}
Modifiers == {"Alt", "Shift"}
KeyEvents == [keycode : Keycodes, modifiers : SUBSET Modifiers,
              action : {"down", "up"}]

(* Python's s[i]: defined for -Len(s) <= i < Len(s).                       *)
PyIndexOK(s, i) == -Len(s) <= i /\ i < Len(s)
PyIndex(s, i) == IF i < 0 THEN s[Len(s) + i + 1] ELSE s[i + 1]

Init ==
  /\ windows_zorder \in WindowLists   \* first update_window_list()
  /\ tabbing = FALSE
  /\ new_focused = -1
  /\ alttab_open = FALSE
  /\ overlay_shows = None
  /\ focus_request = None
  /\ status = "running"

(* MSG_NOTIFY: the window list is queried again and replaced wholesale.    *)
(* The Alt-Tab state is left alone.                                        *)
Notify ==
  /\ status = "running"
  /\ \E l \in WindowLists : windows_zorder' = l
  /\ UNCHANGED <<tabbing, new_focused, alttab_open, overlay_shows,
                 focus_request, status>>

(* The index alt_tab() selects, before and after its wrap-around fix-up.   *)
(* Mutant: the first step counted from the top window, not the one below. *)
Stepped_from_top(d) == IF tabbing THEN new_focused + d
                       ELSE Len(windows_zorder) + d
Stepped(d) == IF tabbing THEN new_focused + d ELSE Len(windows_zorder) - 1 + d
(* Mutant: wrapping below 0 to the first window instead of the last.     *)
Wrapped_to_first(i) == IF i < 0 THEN 0
                       ELSE IF i >= Len(windows_zorder) THEN 0 ELSE i
Wrapped(i) == IF i < 0 THEN Len(windows_zorder) - 1
              ELSE IF i >= Len(windows_zorder) THEN 0 ELSE i

(* Mutant: the overlay is handed the index rather than the window.        *)
alt_tab_shows_index(ev) ==
  LET direction == IF "Shift" \in ev.modifiers THEN 1 ELSE -1
      nf == Wrapped(Stepped(direction))
  IN  \/ /\ Len(windows_zorder) < 1
         /\ UNCHANGED vars
      \/ /\ Len(windows_zorder) >= 1
         /\ new_focused' = nf
         /\ tabbing' = TRUE
         /\ alttab_open' = TRUE
         /\ overlay_shows' = nf
         /\ UNCHANGED <<windows_zorder, focus_request, status>>

(* Mutant: the overlay redrawn before the selection moves.               *)
alt_tab_draws_before_move(ev) ==
  LET direction == IF "Shift" \in ev.modifiers THEN 1 ELSE -1
      nf == Wrapped(Stepped(direction))
  IN  \/ /\ Len(windows_zorder) < 1
         /\ UNCHANGED vars
      \/ /\ Len(windows_zorder) >= 1
         /\ new_focused' = nf
         /\ tabbing' = TRUE
         /\ alttab_open' = TRUE
         /\ overlay_shows' = PyIndex(windows_zorder, new_focused)
         /\ UNCHANGED <<windows_zorder, focus_request, status>>

(* alt_tab(msg): Shift selects direction +1, plain Tab -1.  With no window *)
(* it returns at once; otherwise it opens the overlay if idle, moves and   *)
(* wraps the selection, and redraws the overlay for the new selection.     *)
alt_tab(ev) ==
  LET direction == IF "Shift" \in ev.modifiers THEN 1 ELSE -1
      nf == Wrapped(Stepped(direction))
  IN  \/ /\ Len(windows_zorder) < 1
         /\ UNCHANGED vars
      \/ /\ Len(windows_zorder) >= 1
         /\ new_focused' = nf
         /\ tabbing' = TRUE
         /\ alttab_open' = TRUE
         /\ overlay_shows' = PyIndex(windows_zorder, nf)
         /\ UNCHANGED <<windows_zorder, focus_request, status>>

(* Mutant: finish_alt_tab without alttab.close().                        *)
finish_alt_tab_keeps_overlay ==
  \/ /\ PyIndexOK(windows_zorder, new_focused)
     /\ focus_request' = PyIndex(windows_zorder, new_focused)
     /\ tabbing' = FALSE
     /\ new_focused' = -1
     /\ UNCHANGED <<windows_zorder, alttab_open, overlay_shows, status>>
  \/ /\ ~PyIndexOK(windows_zorder, new_focused)
     /\ status' = "crashed"
     /\ UNCHANGED <<windows_zorder, tabbing, new_focused, alttab_open,
                    overlay_shows, focus_request>>

(* finish_alt_tab(msg): focus windows_zorder[new_focused], leave tabbing,  *)
(* close the overlay.  An index out of range raises IndexError.            *)
finish_alt_tab ==
  \/ /\ PyIndexOK(windows_zorder, new_focused)
     /\ focus_request' = PyIndex(windows_zorder, new_focused)
     /\ tabbing' = FALSE
     /\ new_focused' = -1
     /\ alttab_open' = FALSE
     /\ UNCHANGED <<windows_zorder, overlay_shows, status>>
  \/ /\ ~PyIndexOK(windows_zorder, new_focused)
     /\ status' = "crashed"
     /\ UNCHANGED <<windows_zorder, tabbing, new_focused, alttab_open,
                    overlay_shows, focus_request>>

(* The two Alt-Tab clauses of the MSG_KEY_EVENT branch, in code order.     *)
IsAltRelease(ev) ==
  /\ tabbing
  /\ ev.keycode \in {"Zero", "LeftAlt"}
  /\ ev.modifiers = {}
  /\ ev.action = "up"
IsAltTab(ev) ==
  /\ "Alt" \in ev.modifiers
  /\ ev.keycode = "Tab"
  /\ ev.action = "down"

KeyEvent(ev) ==
  /\ status = "running"
  /\ \/ IsAltRelease(ev) /\ finish_alt_tab
     \/ IsAltTab(ev) /\ alt_tab(ev)

(* After an uncaught exception the process is gone: nothing happens.       *)
Terminated == status # "running" /\ UNCHANGED vars

Next ==
  \/ Notify
  \/ \E ev \in KeyEvents : KeyEvent(ev)
  \/ Terminated

Spec == Init /\ [][Next]_vars

-----------------------------------------------------------------------------
(* Properties                                                              *)

(* The type of the switcher's state: in particular the overlay and the     *)
(* focus request always name a window (or None), never an index.          *)
TypeOK ==
  /\ windows_zorder \in Seq(Wids)
  /\ tabbing \in BOOLEAN
  /\ new_focused \in Int
  /\ alttab_open \in BOOLEAN
  /\ overlay_shows \in Wids \cup {None}
  /\ focus_request \in Wids \cup {None}
  /\ status \in {"running", "crashed"}

(* The overlay exists exactly while a switch is in progress (spec, data    *)
(* model: "the overlay surface exists iff tabbing is true"): alt_tab()     *)
(* must not open one it will not close, finish_alt_tab() must close it.    *)
OverlayIffTabbing == status = "running" => (alttab_open <=> tabbing)

(* Alt-Tab wrap-around (spec, testable properties): a step of the switcher *)
(* that leaves it tabbing over an unchanged, non-empty list selects a      *)
(* valid index; the first step selects the window below the top one (or   *)
(* wraps to 0), and each later step from a valid index moves the selection *)
(* by one place, modulo the list length.                                   *)
TabIndexStep ==
  LET n == Len(windows_zorder) IN
  (/\ tabbing' /\ status' = "running"
   /\ windows_zorder' = windows_zorder /\ n > 0)
  => /\ new_focused' \in 0..n-1
     /\ ~tabbing => new_focused' \in {(n - 2) % n, 0}
     /\ tabbing /\ new_focused \in 0..n-1 =>
          \E d \in {-1, 1} : new_focused' = (new_focused + d) % n
TabIndexWraps == [][TabIndexStep]_vars

(* The spec's error-handling design: the shell "must never crash".         *)
NeverCrashes == status = "running"

(* Releasing Alt focuses the window the overlay was showing: the docstring *)
(* of AlttabWindow ("Displays the currently selected window") and of       *)
(* finish_alt_tab ("focus the requested window").                          *)
FocusesShownWindow ==
  [][ (tabbing /\ ~tabbing' /\ status' = "running")
      => focus_request' = overlay_shows ]_vars

-----------------------------------------------------------------------------
(* Refinement: the code against the spec's Alt-Tab machine (AltTabSpec).   *)
(* The spec's list is windows_zorder, tabbing(i) is tabbing with i the     *)
(* Python index new_focused, the focus is the last focus request, and the *)
(* overlay is the AlttabWindow with the window it last drew.              *)
Abs == INSTANCE AltTabSpec WITH
         lst <- windows_zorder,
         mode <- IF tabbing THEN "tabbing" ELSE "idle",
         sel <- new_focused,
         focus <- focus_request,
         overlay <- alttab_open,
         shown <- overlay_shows

(* The environment assumption of the refinement: no MSG_NOTIFY changes the *)
(* window list while a switch is under way.  The spec's machine says       *)
(* nothing of that case; the crash and stale-focus runs explore it.        *)
StableDuringSwitch == ~(tabbing /\ windows_zorder' # windows_zorder)
StableSpec == Init /\ [][Next /\ StableDuringSwitch]_vars

(* alt_tab() and finish_alt_tab() implement the spec's idle/tabbing(i)     *)
(* machine of section 4.6: every step of the switcher is a Begin, Move or  *)
(* Finish of it, with the same index and the same focused window, or       *)
(* leaves the mapped state alone; MSG_NOTIFY while idle is a Relist.  It  *)
(* is checked of StableSpec.                                             *)
AltTabRefines == Abs!AbsSpec
=============================================================================
