---------------------------- MODULE AltTab_proofs ----------------------------
(***************************************************************************)
(* Proofs about the Alt-Tab switcher, for every set of windows and every   *)
(* bound on the window list.                                               *)
(***************************************************************************)
EXTENDS AltTab, TLAPS

(* Every list the compositor may advertise is a sequence of wids.          *)
LEMMA WindowListsAreSeqs == WindowLists \subseteq Seq(Wids)
<1> SUFFICES ASSUME NEW s \in WindowLists PROVE s \in Seq(Wids)
  OBVIOUS
<1>1. PICK n \in 0..MaxWindows : s \in [1..n -> Wids]
  BY DEF WindowLists
<1>2. n \in Nat
  BY <1>1, MaxWindowsAssumption
<1> QED
  BY <1>1, <1>2

(* The index alt_tab() leaves behind is a valid 0-based index.             *)
LEMMA WrappedInRange ==
  ASSUME NEW i \in Int, Len(windows_zorder) > 0, windows_zorder \in Seq(Wids)
  PROVE  Wrapped(i) \in 0..Len(windows_zorder) - 1
BY DEF Wrapped

(* What Python's s[i] returns for a valid index is an element of s.        *)
LEMMA PyIndexInSeq ==
  ASSUME NEW s \in Seq(Wids), NEW i \in Int, PyIndexOK(s, i)
  PROVE  PyIndex(s, i) \in Wids
BY DEF PyIndexOK, PyIndex

(* The initial states are well typed.                                    *)
LEMMA TypeInit == Init => TypeOK
<1> SUFFICES ASSUME Init PROVE TypeOK
  OBVIOUS
<1>1. windows_zorder \in Seq(Wids)
  BY WindowListsAreSeqs DEF Init
<1>2. new_focused \in Int
  <2>1. new_focused = -1
    BY DEF Init
  <2> QED
    BY <2>1
<1>3. overlay_shows \in Wids \cup {None} /\ focus_request \in Wids \cup {None}
  BY DEF Init
<1>4. tabbing \in BOOLEAN /\ alttab_open \in BOOLEAN
  BY DEF Init
<1>5. status \in {"running", "crashed"}
  BY DEF Init
<1> QED
  BY <1>1, <1>2, <1>3, <1>4, <1>5 DEF TypeOK

(* Every step of the switcher, a key event, MSG_NOTIFY or the exit,       *)
(* keeps the state well typed.                                           *)
LEMMA TypeStep == TypeOK /\ [Next]_vars => TypeOK'
<1> SUFFICES ASSUME TypeOK, [Next]_vars PROVE TypeOK'
  OBVIOUS
<1>1. CASE Notify
  BY <1>1, WindowListsAreSeqs DEF Notify, TypeOK
<1>2. ASSUME NEW ev \in KeyEvents, IsAltRelease(ev), finish_alt_tab
      PROVE  TypeOK'
  <2>1. CASE PyIndexOK(windows_zorder, new_focused)
    <3>1. PyIndex(windows_zorder, new_focused) \in Wids
      BY <2>1, PyIndexInSeq DEF TypeOK
    <3>2. /\ focus_request' = PyIndex(windows_zorder, new_focused)
          /\ tabbing' = FALSE /\ new_focused' = -1 /\ alttab_open' = FALSE
          /\ UNCHANGED <<windows_zorder, overlay_shows, status>>
      BY <1>2, <2>1 DEF finish_alt_tab
    <3>3. windows_zorder' \in Seq(Wids) /\ status' \in {"running", "crashed"}
      BY <3>2 DEF TypeOK
    <3>4. overlay_shows' \in Wids \cup {None}
      BY <3>2 DEF TypeOK
    <3>5. focus_request' \in Wids \cup {None}
      BY <3>1, <3>2
    <3>6. new_focused' = -1 /\ tabbing' \in BOOLEAN /\ alttab_open' \in BOOLEAN
      BY <3>2
    <3>9. new_focused' \in Int
      BY <3>6
    <3> QED
      BY <3>3, <3>4, <3>5, <3>6, <3>9 DEF TypeOK
  <2>2. CASE ~PyIndexOK(windows_zorder, new_focused)
    BY <1>2, <2>2 DEF finish_alt_tab, TypeOK
  <2> QED
    BY <2>1, <2>2
<1>3. ASSUME NEW ev \in KeyEvents, IsAltTab(ev), alt_tab(ev)
      PROVE  TypeOK'
  <2> DEFINE d == IF "Shift" \in ev.modifiers THEN 1 ELSE -1
             nf == Wrapped(Stepped(d))
  <2>1. CASE Len(windows_zorder) < 1
    BY <1>3, <2>1 DEF alt_tab, TypeOK, vars
  <2>2. CASE Len(windows_zorder) >= 1
    <3>1. Stepped(d) \in Int
      BY DEF TypeOK, Stepped
    <3>2. nf \in 0..Len(windows_zorder) - 1
      BY <2>2, <3>1, WrappedInRange DEF TypeOK
    <3>3. PyIndex(windows_zorder, nf) \in Wids
      BY <3>2, PyIndexInSeq DEF PyIndexOK, TypeOK
    <3>4. /\ new_focused' = nf /\ tabbing' = TRUE /\ alttab_open' = TRUE
          /\ overlay_shows' = PyIndex(windows_zorder, nf)
          /\ UNCHANGED <<windows_zorder, focus_request, status>>
      BY <1>3, <2>2 DEF alt_tab
    <3>5. windows_zorder' \in Seq(Wids) /\ status' \in {"running", "crashed"}
      BY <3>4 DEF TypeOK
    <3>6. focus_request' \in Wids \cup {None}
      BY <3>4 DEF TypeOK
    <3>7. overlay_shows' \in Wids \cup {None}
      BY <3>3, <3>4
    <3>8. new_focused' \in Int /\ tabbing' \in BOOLEAN /\ alttab_open' \in BOOLEAN
      BY <3>2, <3>4
    <3> QED
      BY <3>5, <3>6, <3>7, <3>8 DEF TypeOK
  <2> QED
    BY <2>1, <2>2 DEF TypeOK
<1>4. CASE Terminated \/ UNCHANGED vars
  BY <1>4 DEF Terminated, vars, TypeOK
<1> QED
  BY <1>1, <1>2, <1>3, <1>4 DEF Next, KeyEvent

(* The switcher's state keeps its type in every reachable state: the      *)
(* z-order list holds window ids, new_focused stays an integer, and the   *)
(* window the overlay shows or a focus request names is a listed id or    *)
(* none, whatever interleaving of key events, MSG_NOTIFY and exits comes.  *)
THEOREM TypeCorrect == Spec => []TypeOK
<1>1. Init => TypeOK
  BY TypeInit
<1>2. TypeOK /\ [Next]_vars => TypeOK'
  BY TypeStep
<1> QED
  BY <1>1, <1>2, PTL DEF Spec

(* Every step of the switcher keeps the overlay in step with tabbing.   *)
LEMMA OverlayStep == OverlayIffTabbing /\ [Next]_vars => OverlayIffTabbing'
<1> SUFFICES ASSUME OverlayIffTabbing, [Next]_vars PROVE OverlayIffTabbing'
  OBVIOUS
<1>1. CASE Notify
  BY <1>1 DEF Notify, OverlayIffTabbing
<1>2. ASSUME NEW ev \in KeyEvents, IsAltRelease(ev), finish_alt_tab
      PROVE  OverlayIffTabbing'
  BY <1>2 DEF finish_alt_tab, OverlayIffTabbing
<1>3. ASSUME NEW ev \in KeyEvents, IsAltTab(ev), alt_tab(ev)
      PROVE  OverlayIffTabbing'
  BY <1>3 DEF alt_tab, OverlayIffTabbing, vars
<1>4. CASE Terminated \/ UNCHANGED vars
  BY <1>4 DEF Terminated, vars, OverlayIffTabbing
<1> QED
  BY <1>1, <1>2, <1>3, <1>4 DEF Next, KeyEvent

(* OverlayIffTabbing is inductive by itself: every step that sets tabbing  *)
(* sets alttab_open to the same value, or stops the process.               *)
THEOREM OverlayCorrect == Spec => []OverlayIffTabbing
<1>1. Init => OverlayIffTabbing
  BY DEF Init, OverlayIffTabbing
<1>2. OverlayIffTabbing /\ [Next]_vars => OverlayIffTabbing'
  BY OverlayStep
<1> QED
  BY <1>1, <1>2, PTL DEF Spec

(* The index arithmetic of alt_tab(): wrapping a step of one place from a  *)
(* valid index, or from the top of the list, is the step modulo n.         *)
LEMMA WrapIsModulo ==
  ASSUME NEW n \in Nat, n > 0, NEW i \in -1..n-1, NEW d \in {-1, 1},
         i + d \in -1..n
  PROVE  /\ (IF i + d < 0 THEN n - 1 ELSE IF i + d >= n THEN 0 ELSE i + d)
              = (i + d) % n
BY DEF Wrapped

(* Every step of the switcher from a well-typed state is a TabIndexStep. *)
LEMMA TabIndexStepOK == TypeOK /\ [Next]_vars => [TabIndexStep]_vars
<1> SUFFICES ASSUME TypeOK, [Next]_vars PROVE [TabIndexStep]_vars
  OBVIOUS
<1>1. CASE Notify
  <2>1. CASE windows_zorder' = windows_zorder
    BY <1>1, <2>1 DEF Notify, vars
  <2>2. CASE windows_zorder' # windows_zorder
    BY <2>2 DEF TabIndexStep
  <2> QED
    BY <2>1, <2>2
<1>2. ASSUME NEW ev \in KeyEvents, IsAltRelease(ev), finish_alt_tab
      PROVE  [TabIndexStep]_vars
  BY <1>2 DEF finish_alt_tab, TabIndexStep
<1>3. ASSUME NEW ev \in KeyEvents, status = "running", IsAltTab(ev),
             alt_tab(ev)
      PROVE  [TabIndexStep]_vars
  <2> DEFINE d == IF "Shift" \in ev.modifiers THEN 1 ELSE -1
             n == Len(windows_zorder)
  <2>0. d \in {-1, 1} /\ n \in Nat
    BY DEF TypeOK
  <2>1. CASE n < 1
    BY <1>3, <2>1 DEF alt_tab
  <2>2. CASE n >= 1
    <3>1. new_focused' = Wrapped(Stepped(d)) /\ tabbing'
          /\ windows_zorder' = windows_zorder /\ status' = "running"
      <4>1. ~(Len(windows_zorder) < 1) /\ Len(windows_zorder) >= 1
        BY <2>2, <2>0
      <4> QED
        BY <1>3, <4>1, Zenon DEF alt_tab
    <3>2. new_focused' \in 0..n-1
      <4>1. Stepped(d) \in Int
        BY DEF TypeOK, Stepped
      <4> QED
        BY <2>2, <3>1, <4>1, WrappedInRange DEF TypeOK
    <3>3. ~tabbing => new_focused' \in {(n - 2) % n, 0}
      <4> SUFFICES ASSUME ~tabbing PROVE new_focused' \in {(n - 2) % n, 0}
        OBVIOUS
      <4>1. new_focused' = Wrapped(n - 1 + d)
        BY <3>1 DEF Stepped
      <4> QED
        BY <2>0, <2>2, <4>1 DEF Wrapped
    <3>4. tabbing /\ new_focused \in 0..n-1 =>
            \E e \in {-1, 1} : new_focused' = (new_focused + e) % n
      <4> SUFFICES ASSUME tabbing, new_focused \in 0..n-1
                   PROVE  new_focused' = (new_focused + d) % n
        BY <2>0
      <4>1. new_focused' = Wrapped(new_focused + d)
        BY <3>1 DEF Stepped
      <4>2. Wrapped(new_focused + d) = (new_focused + d) % n
        BY <2>0, <2>2, WrapIsModulo DEF Wrapped
      <4> QED
        BY <4>1, <4>2
    <3> QED
      BY <3>2, <3>3, <3>4 DEF TabIndexStep
  <2> QED
    BY <2>0, <2>1, <2>2
<1>4. CASE Terminated \/ UNCHANGED vars
  BY <1>4 DEF Terminated, vars, TabIndexStep
<1> QED
  BY <1>1, <1>2, <1>3, <1>4 DEF Next, KeyEvent

(* Every Alt-Tab step over an unchanged list selects a valid index, and    *)
(* moves it by one place modulo the list length.                           *)
THEOREM TabIndexCorrect == Spec => TabIndexWraps
<1>1. TypeOK /\ [Next]_vars => [TabIndexStep]_vars
  BY TabIndexStepOK
<1> QED
  BY <1>1, TypeCorrect, PTL DEF TabIndexWraps, Spec

-----------------------------------------------------------------------------
(* Refinement of the spec's Alt-Tab machine.                               *)

(* The invariant of StableSpec the refinement rests on: the process is     *)
(* still running, the overlay exists exactly while tabbing, and while      *)
(* tabbing new_focused is a valid 0-based index of a non-empty list (when  *)
(* idle it is the -1 sentinel).  The index is valid only because the list  *)
(* does not change under a switch: that is where StableDuringSwitch is     *)
(* used.                                                                   *)
StableInv ==
  /\ TypeOK
  /\ windows_zorder \in WindowLists
  /\ status = "running"
  /\ alttab_open = tabbing
  /\ tabbing => Len(windows_zorder) >= 1
                /\ new_focused \in 0..Len(windows_zorder) - 1
  /\ ~tabbing => new_focused = -1


(* StableSpec preserves StableInv.  Each step keeps TypeOK (TypeCorrect's  *)
(* cases); alt_tab() leaves a wrapped, hence valid, index; finish_alt_tab() *)
(* meets a valid index, so it does not raise, and resets it to -1; a       *)
(* MSG_NOTIFY under a switch leaves the list as it was.                    *)
LEMMA StableInvariant == StableSpec => []StableInv
<1>1. Init => StableInv
  <2> SUFFICES ASSUME Init PROVE StableInv
    OBVIOUS
  <2>1. windows_zorder \in Seq(Wids)
    BY WindowListsAreSeqs DEF Init
  <2>2. new_focused \in Int /\ new_focused = -1
    BY DEF Init
  <2> QED
    BY <2>1, <2>2 DEF Init, StableInv, TypeOK
<1>2. StableInv /\ [Next /\ StableDuringSwitch]_vars => StableInv'
  <2> SUFFICES ASSUME StableInv, [Next /\ StableDuringSwitch]_vars
               PROVE  StableInv'
    OBVIOUS
  <2>1. CASE Notify /\ StableDuringSwitch
    <3>1. windows_zorder' \in WindowLists
      BY <2>1 DEF Notify
    <3>2. tabbing => windows_zorder' = windows_zorder
      BY <2>1 DEF StableDuringSwitch
    <3> QED
      BY <2>1, <3>1, <3>2, WindowListsAreSeqs DEF Notify, StableInv, TypeOK
  <2>2. ASSUME NEW ev \in KeyEvents, IsAltRelease(ev), finish_alt_tab
        PROVE  StableInv'
    <3>1. PyIndexOK(windows_zorder, new_focused)
      BY <2>2 DEF IsAltRelease, StableInv, PyIndexOK
    <3>2. PyIndex(windows_zorder, new_focused) \in Wids
      BY <3>1, PyIndexInSeq DEF StableInv, TypeOK
    <3>3. /\ focus_request' = PyIndex(windows_zorder, new_focused)
          /\ tabbing' = FALSE /\ new_focused' = -1 /\ alttab_open' = FALSE
          /\ UNCHANGED <<windows_zorder, overlay_shows, status>>
      BY <2>2, <3>1 DEF finish_alt_tab
    <3>4. new_focused' \in Int
      BY <3>3
    <3> QED
      BY <3>2, <3>3, <3>4 DEF StableInv, TypeOK
  <2>3. ASSUME NEW ev \in KeyEvents, IsAltTab(ev), alt_tab(ev)
        PROVE  StableInv'
    <3> DEFINE d == IF "Shift" \in ev.modifiers THEN 1 ELSE -1
               nf == Wrapped(Stepped(d))
    <3>1. CASE Len(windows_zorder) < 1
      BY <2>3, <3>1 DEF alt_tab, StableInv, TypeOK, vars
    <3>2. CASE Len(windows_zorder) >= 1
      <4>1. nf \in 0..Len(windows_zorder) - 1
        <5>1. Stepped(d) \in Int
          BY DEF StableInv, TypeOK, Stepped
        <5> QED
          BY <3>2, <5>1, WrappedInRange DEF StableInv, TypeOK
      <4>2. PyIndex(windows_zorder, nf) \in Wids
        BY <4>1, PyIndexInSeq DEF PyIndexOK, StableInv, TypeOK
      <4>3. /\ new_focused' = nf /\ tabbing' = TRUE /\ alttab_open' = TRUE
            /\ overlay_shows' = PyIndex(windows_zorder, nf)
            /\ UNCHANGED <<windows_zorder, focus_request, status>>
        BY <2>3, <3>2 DEF alt_tab
      <4> QED
        BY <3>2, <4>1, <4>2, <4>3 DEF StableInv, TypeOK
    <3> QED
      BY <3>1, <3>2 DEF StableInv, TypeOK
  <2>4. CASE Terminated
    BY <2>4 DEF Terminated, StableInv
  <2>5. CASE UNCHANGED vars
    BY <2>5 DEF vars, StableInv, TypeOK
  <2> QED
    BY <2>1, <2>2, <2>3, <2>4, <2>5 DEF Next, KeyEvent
<1> QED
  BY <1>1, <1>2, PTL DEF StableSpec


(* alt_tab() and finish_alt_tab() implement the spec's Alt-Tab machine      *)
(* (AltTabRefines) for every set of windows and every bound, provided the  *)
(* list does not change under a switch.  The first Alt+Tab is a Begin, a   *)
(* later one a Move, the Alt release a Finish, a MSG_NOTIFY while idle a   *)
(* Relist; an Alt+Tab on an empty list and a MSG_NOTIFY under a switch     *)
(* (which StableDuringSwitch makes a no-op) are stutters.  The wrap-around *)
(* is the modulo of the spec by WrapIsModulo, valid because StableInv      *)
(* keeps the index in range.                                               *)
THEOREM AltTabRefinement == StableSpec => AltTabRefines
<1>1. Init => Abs!AbsInit
  BY DEF Init, Abs!AbsInit, Abs!AbsLists, WindowLists
<1>2. StableInv /\ [Next /\ StableDuringSwitch]_vars
        => [Abs!AbsNext]_Abs!absvars
  <2> SUFFICES ASSUME StableInv, [Next /\ StableDuringSwitch]_vars
               PROVE  [Abs!AbsNext]_Abs!absvars
    OBVIOUS
  <2>1. CASE Notify /\ StableDuringSwitch
    <3>1. CASE tabbing
      BY <2>1, <3>1 DEF Notify, StableDuringSwitch, Abs!absvars
    <3>2. CASE ~tabbing
      <4>1. Abs!Relist
        BY <2>1, <3>2 DEF Notify, Abs!Relist, Abs!AbsLists, WindowLists
      <4> QED
        BY <4>1 DEF Abs!AbsNext
    <3> QED
      BY <3>1, <3>2
  <2>2. ASSUME NEW ev \in KeyEvents, IsAltRelease(ev), finish_alt_tab
        PROVE  [Abs!AbsNext]_Abs!absvars
    <3>1. tabbing /\ new_focused \in 0..Len(windows_zorder) - 1
      BY <2>2 DEF IsAltRelease, StableInv
    <3>2. PyIndexOK(windows_zorder, new_focused)
      BY <3>1 DEF PyIndexOK
    <3>3. /\ focus_request' = windows_zorder[new_focused + 1]
          /\ tabbing' = FALSE /\ new_focused' = -1 /\ alttab_open' = FALSE
          /\ UNCHANGED <<windows_zorder, overlay_shows, status>>
      BY <2>2, <3>1, <3>2 DEF finish_alt_tab, PyIndex
    <3>4. Abs!Finish
      BY <3>1, <3>3 DEF Abs!Finish
    <3> QED
      BY <3>4 DEF Abs!AbsNext
  <2>3. ASSUME NEW ev \in KeyEvents, IsAltTab(ev), alt_tab(ev)
        PROVE  [Abs!AbsNext]_Abs!absvars
    <3> DEFINE n == Len(windows_zorder)
    <3>0. PICK d \in {-1, 1} : d = IF "Shift" \in ev.modifiers THEN 1 ELSE -1
      OBVIOUS
    <3> DEFINE nf == Wrapped(Stepped(d))
    <3>1. n \in Nat
      BY DEF StableInv, TypeOK
    <3>2. CASE n < 1
      BY <2>3, <3>2 DEF alt_tab, vars, Abs!absvars
    <3>3. CASE n >= 1
      <4>1. /\ new_focused' = nf /\ tabbing' = TRUE /\ alttab_open' = TRUE
            /\ overlay_shows' = PyIndex(windows_zorder, nf)
            /\ UNCHANGED <<windows_zorder, focus_request, status>>
        BY <2>3, <3>0, <3>3 DEF alt_tab
      <4>2. nf \in 0..n - 1
        <5>1. Stepped(d) \in Int
          BY DEF StableInv, TypeOK, Stepped
        <5> QED
          BY <3>3, <5>1, WrappedInRange DEF StableInv, TypeOK
      <4>3. overlay_shows' = windows_zorder[nf + 1]
        BY <4>1, <4>2 DEF PyIndex
      <4>4. CASE ~tabbing
        <5>1. Stepped(d) = n - 1 + d
          BY <4>4 DEF Stepped
        <5>2. nf = (n - 1 + d) % n
          BY <3>1, <3>3, <5>1, WrapIsModulo DEF Wrapped
        <5>3. Abs!Begin(d)
          BY <3>3, <4>1, <4>3, <4>4, <5>2 DEF Abs!Begin, Abs!Show
        <5> QED
          BY <5>3 DEF Abs!AbsNext
      <4>5. CASE tabbing
        <5>1. new_focused \in 0..n - 1 /\ alttab_open = TRUE
          BY <4>5 DEF StableInv
        <5>2. Stepped(d) = new_focused + d
          BY <4>5 DEF Stepped
        <5>3. nf = (new_focused + d) % n
          BY <3>1, <3>3, <5>1, <5>2, WrapIsModulo DEF Wrapped
        <5>4. Abs!Move(d)
          BY <4>1, <4>3, <4>5, <5>1, <5>3 DEF Abs!Move, Abs!Show
        <5> QED
          BY <5>4 DEF Abs!AbsNext
      <4> QED
        BY <4>4, <4>5
    <3> QED
      BY <3>1, <3>2, <3>3
  <2>4. CASE Terminated
    BY <2>4 DEF Terminated, StableInv
  <2>5. CASE UNCHANGED vars
    BY <2>5 DEF vars, Abs!absvars
  <2> QED
    BY <2>1, <2>2, <2>3, <2>4, <2>5 DEF Next, KeyEvent
<1> QED
  BY <1>1, <1>2, StableInvariant, PTL
  DEF StableSpec, AltTabRefines, Abs!AbsSpec

=============================================================================
