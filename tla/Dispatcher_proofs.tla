--------------------------- MODULE Dispatcher_proofs ---------------------------
(***************************************************************************)
(* Proofs about the main loop's key dispatch: the Alt-Tab switcher and the *)
(* application runner composed.  Each dispatched key event moves one of    *)
(* the two components by one of its own steps and leaves the other as it *)
(* was, so the invariants proved for each component alone carry over.      *)
(***************************************************************************)
EXTENDS Dispatcher, AltTab_proofs, AppRunner_proofs, TLAPS

(* The invariant the composition carries: the switcher's type, the        *)
(* runner's invariant (a current completion), and the keyboard owner.     *)
DispInv ==
  /\ TypeOK /\ RunnerInv
  /\ key_focus \in {"runner", "other"}
  /\ alt_up \in BOOLEAN

(* A key event as key_action() reads it is one of the runner's inputs.    *)
LEMMA RunnerEventOK ==
  ASSUME NEW ev \in DispEvents
  PROVE  AsRunnerEvent(ev) \in KeyInputs
BY DEF DispEvents, AsRunnerEvent, KeyInputs

(* A key event as the switcher's clauses read it is one of its inputs.    *)
LEMMA SwitcherEventOK ==
  ASSUME NEW ev \in DispEvents
  PROVE  AsAltTabEvent(ev) \in KeyEvents
BY DEF DispEvents, AsAltTabEvent, KeyEvents, Keycodes

(* Every step of the main loop is a step or a stutter of the switcher,    *)
(* and a step or a stutter of the runner.                                  *)
LEMMA DispProjects ==
  ASSUME [DispNext]_dvars
  PROVE  /\ [Next]_vars
         /\ [RunnerNext]_runnervars
         /\ key_focus' \in {"runner", "other"} \/ UNCHANGED key_focus
         /\ alt_up' \in BOOLEAN \/ UNCHANGED alt_up
<1>1. ASSUME NEW ev \in DispEvents, DispatchKey(ev)
      PROVE  /\ [Next]_vars
             /\ [RunnerNext]_runnervars
             /\ key_focus' \in {"runner", "other"} \/ UNCHANGED key_focus
             /\ alt_up' \in BOOLEAN \/ UNCHANGED alt_up
  <2>0. alt_up' \in BOOLEAN
    BY <1>1 DEF DispatchKey, AltUp
  <2>1. CASE ToRunner(ev)
    <3>1. RunnerNext
      BY <2>1, RunnerEventOK DEF ToRunner, RunnerNext
    <3> QED
      BY <2>0, <2>1, <3>1 DEF ToRunner
  <2>2. CASE ~(runner_open /\ key_focus = "runner") /\ OpenRunner(ev)
    BY <2>0, <2>2 DEF OpenRunner, RunnerNext
  <2>3. CASE ~(runner_open /\ key_focus = "runner") /\ ToSwitcher(ev)
    <3>1. Next
      BY <2>3, SwitcherEventOK DEF ToSwitcher, Next
    <3> QED
      BY <2>0, <2>3, <3>1 DEF ToSwitcher, runnervars
  <2>4. CASE Unmatched(ev)
    BY <2>0, <2>4 DEF Unmatched, vars, runnervars
  <2> QED
    BY <1>1, <2>1, <2>2, <2>3, <2>4 DEF DispatchKey
<1>2. CASE FocusMoves
  BY <1>2 DEF FocusMoves, vars, runnervars
<1>3. CASE DispNotify
  BY <1>3 DEF DispNotify, Next, runnervars
<1>4. CASE Terminated /\ UNCHANGED <<runnervars, key_focus, alt_up>>
  BY <1>4 DEF Next, runnervars
<1>5. CASE UNCHANGED dvars
  BY <1>5 DEF dvars, vars, runnervars
<1> QED
  BY <1>1, <1>2, <1>3, <1>4, <1>5 DEF DispNext

(* The main loop keeps DispInv: each component's own step lemma covers    *)
(* its part.                                                                *)
LEMMA DispStep ==
  ASSUME DispInv, [DispNext]_dvars
  PROVE  DispInv'
<1>1. TypeOK'
  BY DispProjects, TypeStep DEF DispInv
<1>2. RunnerInv'
  BY DispProjects, RunnerStep DEF DispInv
<1> QED
  BY <1>1, <1>2, DispProjects DEF DispInv

(* The loop starts with a well-typed switcher and a closed runner.         *)
LEMMA DispInitOK == DispInit => DispInv
BY TypeInit, RunnerInitOK DEF DispInit, DispInv

(* DispInv holds in every state the key dispatch reaches.                  *)
LEMMA DispInvariant == DispSpec => []DispInv
<1>1. DispInit => DispInv
  BY DispInitOK
<1>2. DispInv /\ [DispNext]_dvars => DispInv'
  BY DispStep
<1> QED
  BY <1>1, <1>2, PTL DEF DispSpec

(* The runner invariant of the spec holds in the composed system, for     *)
(* every set of windows, names and characters: whatever the dispatcher    *)
(* hands to the runner, to the switcher, or to neither, the completion     *)
(* shown is cleared or the rest of the least name the text starts with.    *)
THEOREM DispCompletionCorrect == DispSpec => []CompletionCurrent
<1>1. DispInv => CompletionCurrent
  BY DEF DispInv, RunnerInv
<1> QED
  BY <1>1, DispInvariant, PTL

(* The composed state keeps its type: the switcher's list holds window    *)
(* ids and its overlay and focus name windows, the runner's text and       *)
(* completion are strings, and the keyboard belongs to the runner or to   *)
(* another window, whatever keys, notifications and focus changes come.   *)
THEOREM DispTypeCorrect == DispSpec => []DispTypeOK
<1>1. DispInv => DispTypeOK
  BY DEF DispInv, RunnerInv, DispTypeOK
<1> QED
  BY <1>1, DispInvariant, PTL

(* In the composed loop too, the Alt-Tab overlay exists exactly while a    *)
(* switch is in progress: keys the runner takes, its opening, and focus    *)
(* moves touch neither alttab_open nor tabbing.                            *)
THEOREM DispOverlayCorrect == DispSpec => []OverlayIffTabbing
<1>1. DispInit => OverlayIffTabbing
  BY DEF DispInit, Init, OverlayIffTabbing
<1>2. OverlayIffTabbing /\ [DispNext]_dvars => OverlayIffTabbing'
  BY DispProjects, OverlayStep
<1> QED
  BY <1>1, <1>2, PTL DEF DispSpec

(* In the composed loop, every Alt-Tab step over an unchanged list still   *)
(* selects a valid index and moves it by one place modulo the length.     *)
THEOREM DispTabIndexCorrect == DispSpec => TabIndexWraps
<1>1. DispInv /\ [DispNext]_dvars => [TabIndexStep]_vars
  BY DispProjects, TabIndexStepOK DEF DispInv
<1> QED
  BY <1>1, DispInvariant, PTL DEF DispSpec, TabIndexWraps
=============================================================================
