----------------------------- MODULE Dispatcher -----------------------------
(***************************************************************************)
(* The MSG_KEY_EVENT branch of panel.py's main loop, composing the Alt-Tab *)
(* switcher (AltTab) with the application runner (AppRunner).  A key event *)
(* carries the wid of the window that has the keyboard; the runner gets    *)
(* every event addressed to it and the loop moves on (`continue`), so the  *)
(* bound Alt+Tab and the Alt release reach the switcher only while some    *)
(* other window has the keyboard.                                          *)
(***************************************************************************)
EXTENDS AltTab, AppRunner

VARIABLES
  key_focus,  \* which window the compositor gives the keyboard:
              \* "runner", or "other" for any window but the runner
  alt_up      \* auxiliary: the step was the loop handling an Alt release

dvars == <<vars, runnervars, key_focus, alt_up>>

TAB == 9

ASSUME DispatcherAssumption == TAB \in Chars

(* Key events as the main loop reads them: the keycode, the modifiers      *)
(* held, up or down, and the key's byte (b'\t' for Tab, b'\x00' for keys   *)
(* that type nothing).                                                     *)
DispKeycodes == {"Tab", "LeftAlt", "Zero", "F2", "Escape", "Del", "Other"}
DispEvents ==
  { ev \in [keycode : DispKeycodes, modifiers : SUBSET Modifiers,
            action : {"down", "up"}, key : Chars \cup {NUL, BS, LF}] :
      /\ ev.keycode = "Tab" => ev.key = TAB
      /\ ev.keycode \notin {"Tab", "Other"} => ev.key = NUL
      /\ ev.keycode = "Other" => ev.key # TAB }

(* An Alt key-up with no modifier left held, as line 1083 tests it.        *)
AltUp(ev) ==
  ev.keycode \in {"Zero", "LeftAlt"} /\ ev.modifiers = {} /\ ev.action = "up"

(* The event as the switcher's clauses test it.                            *)
AsAltTabEvent(ev) ==
  [keycode |-> IF ev.keycode \in Keycodes THEN ev.keycode ELSE "Other",
   modifiers |-> ev.modifiers, action |-> ev.action]

(* The event as ApplicationRunnerWindow.key_action() reads it.             *)
AsRunnerEvent(ev) ==
  [action |-> ev.action,
   keycode |-> IF ev.keycode \in {"Escape", "Del"} THEN ev.keycode ELSE "Other",
   key |-> ev.key, shift |-> "Shift" \in ev.modifiers]

(* Lines 1057-1059: the runner has the keyboard; key_action(), continue.   *)
(* A close() hands the keyboard to some other window.                      *)
ToRunner(ev) ==
  /\ runner_open /\ key_focus = "runner"
  /\ key_action(AsRunnerEvent(ev))
  /\ key_focus' = IF runner_open' THEN key_focus ELSE "other"
  /\ UNCHANGED vars

(* Lines 1060-1065: Alt+F2 with no runner opens one, which the compositor  *)
(* focuses as a new window.                                                *)
OpenRunner(ev) ==
  /\ ~runner_open /\ "Alt" \in ev.modifiers
  /\ ev.keycode = "F2" /\ ev.action = "down"
  /\ Open /\ key_focus' = "runner"
  /\ UNCHANGED vars

(* Lines 1082-1090: the Alt release and Alt+Tab clauses of AltTab; focusing *)
(* the chosen window takes the keyboard from the runner.                   *)
ToSwitcher(ev) ==
  /\ KeyEvent(AsAltTabEvent(ev))
  /\ key_focus' = IF IsAltRelease(AsAltTabEvent(ev)) THEN "other" ELSE key_focus
  /\ UNCHANGED runnervars

(* The rest of the branch: no clause matches (or one of the panel's own,   *)
(* F1, Ctrl-Alt-T, Ctrl-F11, modelled with the panel).                     *)
Unmatched(ev) ==
  /\ ~(runner_open /\ key_focus = "runner")
  /\ ~(~runner_open /\ "Alt" \in ev.modifiers /\ ev.keycode = "F2"
       /\ ev.action = "down")
  /\ ~IsAltRelease(AsAltTabEvent(ev)) /\ ~IsAltTab(AsAltTabEvent(ev))
  /\ UNCHANGED <<vars, runnervars, key_focus>>

(* MSG_KEY_EVENT, lines 1056-1092, in code order.                          *)
DispatchKey(ev) ==
  /\ status = "running"
  /\ alt_up' = AltUp(ev)
  /\ \/ ToRunner(ev)
     \/ ~(runner_open /\ key_focus = "runner") /\ OpenRunner(ev)
     \/ ~(runner_open /\ key_focus = "runner") /\ ToSwitcher(ev)
     \/ Unmatched(ev)

(* The user clicks another window, or back on the open runner.             *)
FocusMoves ==
  /\ status = "running" /\ runner_open
  /\ key_focus' = IF key_focus = "runner" THEN "other" ELSE "runner"
  /\ alt_up' = FALSE
  /\ UNCHANGED <<vars, runnervars>>

DispNotify == Notify /\ alt_up' = FALSE /\ UNCHANGED <<runnervars, key_focus>>

DispInit ==
  /\ Init /\ RunnerInit /\ key_focus = "other" /\ alt_up = FALSE

DispNext ==
  \/ \E ev \in DispEvents : DispatchKey(ev)
  \/ FocusMoves
  \/ DispNotify
  \/ Terminated /\ UNCHANGED <<runnervars, key_focus, alt_up>>

DispSpec == DispInit /\ [][DispNext]_dvars

-----------------------------------------------------------------------------
(* Properties                                                              *)

(* The type of the composed state.                                         *)
DispTypeOK ==
  /\ TypeOK /\ RunnerTypeOK
  /\ key_focus \in {"runner", "other"}
  /\ alt_up \in BOOLEAN

(* Spec 4.6: tabbing(i) -> idle on the Alt key-up.  The loop hands a key   *)
(* addressed to the runner to key_action() and skips the switcher's       *)
(* clauses.                                                                *)
AltReleaseEndsTabbing ==
  [][ (tabbing /\ alt_up' /\ status' = "running") => ~tabbing' ]_dvars
=============================================================================
