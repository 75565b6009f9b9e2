------------------------------ MODULE AltTabSpec ------------------------------
(***************************************************************************)
(* The Alt-Tab state machine as the spec states it (section 4.6), with no  *)
(* reference to the code: idle or tabbing(i) over the z-order list.  The   *)
(* first Alt+Tab selects (count - 1 + direction) mod count, each further   *)
(* one moves the selection by the direction modulo count, and the Alt      *)
(* release focuses the window at index i and returns to idle.  The        *)
(* overlay exists while tabbing and shows the window at the current index; *)
(* the list is rebuilt by the window-list notification while no switch is *)
(* under way.                                                              *)
(***************************************************************************)
EXTENDS Integers, Sequences

CONSTANTS Wids, MaxWindows, None

VARIABLES
  lst,    \* the z-order window list
  mode,   \* "idle" or "tabbing"
  sel,    \* the index i of tabbing(i); -1 when idle
  focus,  \* the window last focused by a release, or None
  overlay, \* the ephemeral overlay surface exists
  shown   \* the window the overlay last drew, or None

absvars == <<lst, mode, sel, focus, overlay, shown>>

(* Lists without repetition, up to MaxWindows long.                        *)
AbsLists ==
  { s \in UNION { [1..n -> Wids] : n \in 0..MaxWindows } :
      \A i, j \in DOMAIN s : i # j => s[i] # s[j] }

AbsInit ==
  /\ lst \in AbsLists /\ mode = "idle" /\ sel = -1 /\ focus = None
  /\ overlay = FALSE /\ shown = None

(* The overlay redraws for the new index.                                  *)
Show(i) == shown' = lst[i + 1]

(* idle -> tabbing((count - 1 + d) mod count), on a non-empty list,       *)
(* creating the overlay.                                                   *)
Begin(d) ==
  /\ mode = "idle" /\ Len(lst) >= 1
  /\ mode' = "tabbing" /\ sel' = (Len(lst) - 1 + d) % Len(lst)
  /\ overlay' = TRUE /\ Show(sel')
  /\ UNCHANGED <<lst, focus>>

(* tabbing(i) -> tabbing((i + d) mod count).                               *)
Move(d) ==
  /\ mode = "tabbing"
  /\ sel' = (sel + d) % Len(lst) /\ Show(sel')
  /\ UNCHANGED <<lst, mode, focus, overlay>>

(* tabbing(i) -> idle, focusing the window at index i and destroying the  *)
(* overlay.                                                                *)
Finish ==
  /\ mode = "tabbing"
  /\ mode' = "idle" /\ sel' = -1 /\ focus' = lst[sel + 1]
  /\ overlay' = FALSE
  /\ UNCHANGED <<lst, shown>>

(* The list is rebuilt wholesale.                                          *)
Relist ==
  /\ mode = "idle" /\ lst' \in AbsLists
  /\ UNCHANGED <<mode, sel, focus, overlay, shown>>

AbsNext ==
  \/ \E d \in {-1, 1} : Begin(d) \/ Move(d)
  \/ Finish
  \/ Relist

AbsSpec == AbsInit /\ [][AbsNext]_absvars
=============================================================================
