# Formal model of the ToaruOS desktop shell (`panel.py`)

This directory holds TLA+ models of `src/userspace/py/bin/panel.py`, a single-threaded
desktop shell client. It has a top panel with widgets, a wallpaper and desktop icons, an
Alt-Tab switcher and an Alt+F2 application runner, all driven by one message loop. The
models are checked with TLC on small instances, and some theorems are proved with TLAPS.
The spec of the shell is `spec.md` at the root of the repository.

## 1. The system

`panel.py` has one event loop (lines 1032–1117). It polls one compositor message at a
time and hands it to the surface it concerns:

| Part | Code | Its state |
|---|---|---|
| Widgets (clock, date, log-out, applications menu, volume, window list) | `BaseWidget` and subclasses, 30–353 | per widget: highlight flag, hovered tile, tile geometry, volume level |
| Panel surface | `PanelWindow`, 355–445 | ordered widgets, `focused_widget`, `visible`, `menus` |
| Wallpaper / desktop icons | `WallpaperIcon`, `WallpaperWindow`, 448–729 | background, `animations` dict (fade and icon bounce start times), `focused_icon` |
| Alt-Tab overlay | `AlttabWindow`, `alt_tab`, `finish_alt_tab`, 731–781 and 925–959 | globals `tabbing`, `new_focused`, `alttab` |
| Application runner | `ApplicationRunnerWindow`, 783–902 | `data`, `complete`, `completed`, `bins`; global `app_runner` |
| Dispatcher | `__main__`, 986–1117 | `windows_zorder`, `windows` (sorted by wid), `current_time`, signal handlers |

The parts interact in these ways:
- The window list is rebuilt wholesale on every `MSG_NOTIFY`. The panel's window-list
  widget reads the sorted view; Alt-Tab indexes the z-order view.
- Key events are routed in a fixed order. A key aimed at the runner's window goes only to
  it. Otherwise the loop tries, in turn: Alt+F2, Alt+F1, Ctrl+Alt+T, Ctrl+F11, the Alt
  release, Alt+Tab.
- Mouse events go to the panel or to the wallpaper, by window id.
- Two signal handlers run asynchronously with the loop:
  - SIGUSR1 starts a wallpaper cross-fade;
  - SIGUSR2 re-stacks the surfaces and re-binds the keys.
- The timer tick reaps one child per second and advances the animations.

## 2. Modules

| Module | Models | Checked by |
|---|---|---|
| `AltTab` | `windows_zorder`, `MSG_NOTIFY`, `alt_tab`, `finish_alt_tab`, the key clauses that call them (925–959, 1008–1019, 1040–1043, 1082–1090); the refinement mapping to `AltTabSpec` | `MC_AltTab` + 3 cfgs |
| `AltTabSpec` | the spec's Alt-Tab machine (§4.6): `idle` / `tabbing(i)`, the overlay and what it shows; written from the spec, not the code | through `AltTab!Abs` |
| `AltTab_proofs` | TLAPS proofs about `AltTab`, including the refinement | `tlapm` |
| `VolumeWidget` | `VolumeWidget` (125–201) and the shared mixer knob | `MC_VolumeWidget`; inside `Panel` |
| `VolumeWidget_proofs` | TLAPS proof that every level fits 32 bits | `tlapm` |
| `Panel` | `PanelWindow` layout, hit test, focus, finish_resize, toggle_visibility; the window-list widget (203–284); widget focus and mouse capabilities. Includes `VolumeWidget` as the volume widget's state | `MC_Panel` + 3 cfgs; `Panel_proofs` |
| `Panel_proofs` | TLAPS proofs of the panel's focus invariant and of its draw cache's freshness | `tlapm` |
| `LeastElement` | the least-element lemma that the hit-test and icon-lookup proofs need, from the library's well-founded < on the naturals | `tlapm` |
| `AppRunner` | `ApplicationRunnerWindow.try_complete`, `key_action`, open on Alt+F2, `close` (783–846) | inside `Dispatcher` |
| `Wallpaper` | `WallpaperWindow` (448–729): the icon grid, `animate_new`, `animate`, `draw`'s clip/fade/icon passes, mouse and resize; the SIGUSR1 handler (936); the timer tick's reaper and `animate()` call (1045–1055); `launch_application` and child exit | `MC_Wallpaper` + 3 cfgs |
| `Dispatcher_proofs` | TLAPS proofs that the key dispatch keeps the runner's completion current and the composed state typed | `tlapm` |
| `Wallpaper_proofs` | TLAPS proofs of the icon highlight invariant, of the wallpaper's type invariant, and of the cross-fade's safe half | `tlapm` |
| `AppRunner_proofs` | TLAPS proofs that Python's string order is a strict total order, that `sorted(self.bins)` lists every name once in order, and that the completion stays current | `tlapm` |
| `Dispatcher` | the `MSG_KEY_EVENT` branch (1056–1092) composing `AltTab` and `AppRunner`, and which window has the keyboard | `MC_Dispatcher` + 2 cfgs |

### How the modules correspond to the code

**AltTab**
- Each variable is the Python global of the same name. `alttab_open` stands for
  "`alttab` is an open window".
- `overlay_shows` is the window that `AlttabWindow.draw` last painted.
- `focus_request` is the argument of the last `yctx.focus_window`.
- `status` becomes `"crashed"` when an uncaught exception ends the process. Python list
  indexing is `PyIndexOK` / `PyIndex`: negative indices count from the end, and anything
  outside `-len..len-1` is an `IndexError`.
- `alt_tab(ev)` is the whole function: the early return on an empty list, the step or the
  first selection (which creates the overlay), the wrap fix-up, and the redraw.
  `finish_alt_tab` is the whole function too, with its `IndexError` path.
- `KeyEvent` models the two Alt-Tab clauses of the key branch, in code order.
- `Abs` instantiates `AltTabSpec` with this mapping:
  - the list is `windows_zorder`;
  - the mode is `tabbing`;
  - `tabbing(i)`'s `i` is `new_focused`;
  - the focus is `focus_request`;
  - the overlay is `alttab_open`, and the window it shows is `overlay_shows`.

  `StableSpec` is `Spec` with the environment assumption `StableDuringSwitch`: no
  `MSG_NOTIFY` changes the list under a switch.

**VolumeWidget**
- A level is a 32-bit value held exactly as the record `[hi, lo]`, with value
  `hi * 2^28 + lo`, because TLC integers are 32-bit signed. Every step the code takes is a
  multiple of `2^28`, so only `hi` moves. This keeps the comparisons with 0xE0000000 and
  0x20000000 exact, including the values just above them.
- `mixer` is the knob in `/dev/mixer`. `set_volume` writes it, and `MixerSetElsewhere` is
  another program writing it.

**Panel**
- `focused` is the index of `focused_widget` (0 for None).
- `hilighted` is the set of widgets whose `focus_enter` changed their look and whose
  `focus_leave` has not run yet (applications menu, clock, log-out).
- `hovered`, `wl_offset` and `wl_unit` are `WindowListWidget.hovered`, `.offset` and
  `.unit_width`.
- The layout loop, shared by `draw` and `mouse_action`, is `Offsets` / `RightEnds` /
  `HitTest`, with `sum(...)` as the recursive function `SumFrom`.
- `DrawWith(w, ws)` is what a `draw()` changes in the modelled state: only the window
  list's cached geometry, and only when there are windows.
- `MouseAction` is `PanelWindow.mouse_action` with its three branches. `WidgetMouse` is
  the focused widget's `mouse_action` followed by `self.draw()` when it returns true.
- The mouse is modelled only as `x` from a set of edge coordinates, plus an
  inside/outside flag for `new_y < height`.

**AppRunner**
- Strings are sequences of code points. `StrLess` is Python's `str <`: either a proper
  prefix, or a smaller code point at the first position where the two strings differ.
  `StartsWith` is `str.startswith`.
- `SortedBins` is `sorted(self.bins)`: its k-th entry is the name with k−1 names before
  it (`Rank`). `self.bins` is a list that may repeat a name found in two `$PATH`
  directories. The model takes the set of names, which leaves the first match of the
  sorted walk unchanged.
- `TryComplete` takes the least index of `SortedBins` whose name starts with the text, as
  the code's loop stops at its first match.
- `key_action` has one disjunct per branch, in code order.
- `launched` records the last `launch_app` call. `NoLaunch` (an empty command) stands for
  "none yet".

**Wallpaper**
- `animations` is the dict: a function from keys (`Surface` for the fade, an icon index
  for a bounce) to ages. Time is counted in quarter seconds (`UnitsPerSecond = 4`), and
  ages are capped at `AgeCap`, past every threshold the code tests:
  - icons are ditched after 0.5 s (`IconSpan`);
  - the fade resolves at 1.0 s (`FadeSpan`).
- `background` and `new_background` are the images, numbered by reload.
- `pc` is where the loop is inside a handler, because a signal can land between any two
  of those points:
  - `"clips"`: the clip loop over `animations`;
  - `"fade"`: the fade decision;
  - `"icons"`: the icon pass and its `del`;
  - `"ditch"`: `animate()`'s iteration.

  `caller` says whether `draw()` was called by `animate()`, by a mouse event or by a
  resize. `Iterating` holds exactly where a dict iteration is live.
- `reload_wallpaper` is the SIGUSR1 handler, which calls `animate_new()`. It can fire at
  any `pc`. If it adds the surface key during an iteration, `pc` becomes `"crashed"`: the
  RuntimeError is uncaught.
- `TimerTick` is the `MSG_TIMER_TICK` branch:
  - when the wall-clock second has changed (`stale`, set by `Elapse`), it reaps one
    child;
  - then it runs `animate()` if the dict is non-empty.
- `Elapse` advances the clock between messages. No time passes inside a handler.
- `GridOf(H, n)` is the icon grid cursor of `draw()` (671–679), a recursive function
  defined under `LET`. `IconUnder` is the mouse hit test.

**Dispatcher**
- `EXTENDS AltTab, AppRunner`: the state is both components' state, plus two things:
  - `key_focus`: whether the runner or another window has the keyboard;
  - `alt_up`: an auxiliary flag, true when the step handled an Alt release.
- `DispatchKey(ev)` is the branch in code order:
  - the runner gets every key while it has the keyboard (`continue`);
  - otherwise Alt+F2 opens it;
  - otherwise the switcher's clauses run;
  - anything else matches nothing.
- Events carry the keycode, the modifiers and the byte the key types. A Tab types `\t`
  into the runner.

## 3. Runs

| Run | cfg | Expect | What it shows |
|---|---|---|---|
| alttab | `MC_AltTab.cfg` | pass | Over `StableSpec`: `OverlayIffTabbing` (the overlay exists iff tabbing, spec §3); `TabIndexWraps` (each step moves by ±1 mod n, and the first selects n−2 or wraps to 0); `AltTabRefines` (the code implements `AltTabSpec`). |
| alttab_crash | `MC_AltTab_crash.cfg` | violation | `NeverCrashes`: Alt+Tab on one window, the window closes, Alt released → `IndexError` at line 929. |
| alttab_stale | `MC_AltTab_stale.cfg` | violation | `FocusesShownWindow`: the overlay shows w1, the list changes to ⟨w2⟩, the release focuses w2. |
| volume_stale | `MC_VolumeWidget_stale.cfg` | violation | `ScrollUpNeverLowers`: another program sets 0x1FFFFFFF, the cached level is 0, and a scroll-up writes 0x10000000. |
| panel | `MC_Panel.cfg` | pass | `PanelTypeOK` (including the volume's 32-bit fit). `FocusStateAgrees`: exactly the focused widget is highlighted, and a tile is hovered only while the window list is focused. `DrawCacheFresh`: the window list's cached geometry is what a draw would compute now. `LayoutContiguous`: at these widths the extents tile `[0, width)`. |
| panel_tiles | `MC_Panel_tiles.cfg` | violation | `TilesWithinExtent`: three windows on the narrow panel give icon-only tiles that overrun the extent. |
| panel_narrow | `MC_Panel_narrow.cfg` | violation | `LayoutContiguous`: on a 320-px display the window list's right end lies left of its offset, and the volume widget's extent falls inside the application menu's. |
| wallpaper | `MC_Wallpaper.cfg` | pass | `IconFocusAgrees`: exactly the focused icon is highlighted, through pointer moves, leave events, launching clicks, signals, ticks and redraws. Under the fairness below: `AnimationsDrain` (every animation ends, unless the client died) and `ZombiesReaped` (every exited child is reaped). |
| wallpaper_crash | `MC_Wallpaper_crash.cfg` | violation | `NoIterationCrash`: a SIGUSR1 while `animate()` or `draw()` iterates the dict during a bounce → RuntimeError. |
| wallpaper_fade_dropped | `MC_Wallpaper_early.cfg` | violation | `FadeNeverEarly`: a SIGUSR1 between `draw()`'s fade decision (664) and its `del` (686) restarts the fade, and the `del` removes it at age 0. |
| dispatcher | `MC_Dispatcher.cfg` | pass | `DispTypeOK`, `OverlayIffTabbing`, `CompletionCurrent` and `TabIndexWraps` over every interleaving of runner keys, Alt-Tab, focus moves and list changes. |
| dispatcher_alt_release | `MC_Dispatcher_release.cfg` | violation | `AltReleaseEndsTabbing`: Alt+Tab, then Alt+F2 with Alt held; the runner takes the keyboard and swallows the Alt release. |

`MC_Wallpaper` also holds `ASSUME GridWrapSpec`. Every run of `MC_Wallpaper` evaluates it.
It checks `GridOf` against the spec's closed form for the grid (column `(i-1) div
perColumn`, row `(i-1) mod perColumn`) for every height 0..400 and up to 6 icons.

Each property of a passing run has a mutant in `PROJECT.json`. A mutant is a plausible
bug written as an operator beside the definition it replaces, and TLC finds each one:

| Mutant | The bug | Property it violates |
|---|---|---|
| `alt_tab_shows_index` | the overlay is handed the index | `TypeOK`, `DispTypeOK` |
| `finish_alt_tab_keeps_overlay` | no `alttab.close()` | `OverlayIffTabbing` (both runs) |
| `Stepped_from_top` | the first step counted from the top window | `TabIndexWraps` (alttab) |
| `Wrapped_to_first` | wraps −1 to 0 | `TabIndexWraps` (dispatcher) |
| `alt_tab_draws_before_move` | the overlay redrawn before the index moves | `AltTabRefines` |
| `WindowListMouse_stores_index` | stores the index as `hovered` | `PanelTypeOK` |
| `SwitchFocus_keeps_hover` | no `focus_leave` override on the window list | `FocusStateAgrees` |
| `Notify_no_draw` | no `panel.draw()` after `MSG_NOTIFY` | `DrawCacheFresh` |
| `Remaining_from_self` | the width slice starts at the flexible widget itself | `LayoutContiguous` |
| `backspace_stale` | no `try_complete` after backspace | `CompletionCurrent` |
| `LeaveIcon_no_focus_leave` | a leave event drops the focus without `focus_leave()` | `IconFocusAgrees` |
| `DrawIcons_no_del` | no `del self.animations[self]` after the fade | `AnimationsDrain` |
| `TimerTick_reap_when_animating` | the reap moved under `if wallpaper.animations` | `ZombiesReaped` |

`Wrapped_to_first` breaks nothing in the alttab run: over a stable list its only effect
turns the wrap from 0 into a stay at 0, which is a stutter. In the dispatcher run, a list
change under the switch exposes it.

### Bounds and why they are enough

**AltTab**
- Three window ids, lists of length 0–3, and every keycode and modifier combination the
  clauses test. The violation runs use symmetry over the window ids. The alttab run does
  not, so that it reaches 196 states.
- Length 3 is the smallest where a step can move away from both ends. Lengths 0 and 1
  exercise the empty-list return and the one-window wrap.

**VolumeWidget**
- The initial and external levels are 0, 5, 0x10000000, 0x1FFFFFFF, 0xE0000000,
  0xE0000001 and 0xF0000000: the values on both sides of each threshold.
- The 32-bit fit no longer rests on these values. `VolTypeCorrect` proves it for every
  startup level.

**Panel**
- The real six widgets, in code order. Widths are scaled by about 1/14 (140→10, 28→2,
  70→5, 80→6; tiles 150→11, 50→4, 28→2). The fixed widgets total 25, which is 346 px.
- The display widths are:
  - 29 (about 400 px), which gives a window-list extent of 14, where three windows
    overflow;
  - 45, which gives an extent of 30, where two tiles are full width;
  - 23 (320 px) for the narrow run, below the fixed total.
- Pointer x-coordinates sit at every extent boundary and on both sides of each tile edge.
- The passing run uses two windows (plus the empty list). The tiles run uses three.
- `VolumeBound` keeps the volume in the top two steps. Here the volume only has to
  exercise the redraw path.

**Wallpaper**
- One icon in the passing run, and two in the violation runs. Height 200, with pointer
  points on and off the icon and below the surface. Two reloads and two launches.
- One icon already gives a bounce that overlaps a fade, which is what the liveness
  properties need.
- The liveness run takes about 45 s. With two icons it took 6 minutes.
- With one icon, the run exercises a move onto the icon, a move off it, a move below
  the display, a leave event, and a launching click for `IconFocusAgrees`. It does not
  exercise a move straight from one icon to another. `IconFocusCorrect` proves that case
  for every number of icons.

**Dispatcher**
- Two windows and symmetry. Characters are Tab, `l` and `s`. The executables are `ls`,
  `ln`, `l` and `s\tl`; the last is reached only by a typed Tab. Text of up to two
  characters.
- These reach a completion, no completion, an exact match and the Tab typed by Alt+Tab.
  Three characters took 9 minutes.

### Deadlock

Deadlock is checked in every run:
- In `AltTab` and `Dispatcher`, a crashed process is a terminal stutter step
  (`Terminated`).
- In `Wallpaper`, it is `Crashed`.
- `Panel` has no such step. Its only crash path, the window list's `IndexError`, cannot
  be reached: the hit test hands it only pointers at or to the right of its offset.

### Fairness

Only `WallSpec` assumes fairness. It is `WF(HandlerStep) /\ SF(Elapse) /\ SF(TimerTick)`:
- **Weak fairness of `HandlerStep`**, the continuation of a handler already running. The
  loop is single-threaded and runs each handler to its end; signals interleave but do
  not stop it.
- **Strong fairness of `Elapse` and `TimerTick`**. Both are enabled only when the loop is
  idle between messages. A run of SIGUSR1s or mouse events can keep it busy, so each is
  enabled only intermittently, and weak fairness would allow starving them. The clock does
  advance, and the compositor keeps sending the ticks `timer_request` asked for, which
  the loop polls in order. That is what strong fairness says.
- The reload and launch counters are bounded, so the environment cannot keep the loop
  busy forever.

## 4. What is proved

All of the following are checked by `tlapm` for every value of the constants.

**`AltTab_proofs`** (under `WidsAssumption` and `MaxWindowsAssumption`):
- `TypeCorrect`: `Spec => []TypeOK`. It rests on:
  - `WindowListsAreSeqs`;
  - `PyIndexInSeq`: an index accepted by `PyIndexOK` picks an element of the list;
  - `WrappedInRange`: after the wrap fix-up the index is in `0..Len-1`.
- `OverlayCorrect`: `Spec => []OverlayIffTabbing`. The invariant is inductive on its own:
  - `alt_tab` sets both flags;
  - `finish_alt_tab` clears both, or crashes, which leaves the invariant vacuous;
  - `Notify` touches neither.
- `TabIndexCorrect`: `Spec => TabIndexWraps`. It is proved from `TypeCorrect` and the
  lemma `WrapIsModulo`, which says that for `i` in `-1..n-1` and `d` in `{-1, 1}`, the
  code's if/elif fix-up of `i + d` equals `(i + d) % n`. This is the spec's "wraps modulo
  count" stated as the code computes it.
- `AltTabRefinement`: `StableSpec => AltTabRefines`, the code implements the spec's
  machine. It rests on `StableInvariant`: `StableSpec => []StableInv`, where `StableInv`
  says:
  - `TypeOK` holds, and the list is an advertisable one;
  - the process is running;
  - `alttab_open = tabbing`;
  - while tabbing, `new_focused` is a valid 0-based index of a non-empty list;
  - while idle, it is −1.

  `StableInv` is needed for three reasons:
  - a `Finish` of the spec reads `lst[i+1]`, which must exist;
  - the code's wrap equals the spec's modulo only for an index in range;
  - a `Move` leaves the overlay alone, which holds only if it is already open.

  The index stays in range only because `StableDuringSwitch` keeps the list still. The
  step proof has one case per action:
  - first Alt+Tab → `Begin`;
  - later Alt+Tab → `Move`;
  - release → `Finish`;
  - `MSG_NOTIFY` while idle → `Relist`;
  - the rest are stutters.

**`VolumeWidget_proofs`** (under `InitialLevelsAssumption`):
- `VolTypeCorrect`: `VolSpec => []VolTypeOK`. Every level fits 32 bits, so
  `struct.pack` never raises. `UpFits` and `DownFits` show each clamp catches the levels
  a step would push out of range.

**`Panel_proofs`** (under `WidgetsAssumption`: one window-list widget, as in `main()`'s
list at line 990):
- `FocusCorrect`: `Spec => []FocusStateAgrees`, for every widget list, width set, pointer
  set and window set. It is proved from the inductive invariant `FocusInv`:
  `FocusStateAgrees` plus `focused \in 0..N` and `hilighted \subseteq 1..N`. The range
  conjuncts are needed because `Kind(i)` says nothing about an `i` outside the list: the
  window-list branch of `WidgetMouse` concludes `focused = WL` only from
  `Kind(focused) = "windowlist"` and the uniqueness of the window list (`WLUnique`).
  The step proof has one lemma per branch of `PanelWindow.mouse_action`:
  - `LeaveFocus`: leave/exit with a widget focused clears the highlight and the hover;
  - `MoveFocus`: focus moves to the hit widget, or to none;
  - `WidgetMouseFocus`: the focused widget's own `mouse_action` keeps the focus.
  `HitTestRange` shows the hit test yields `0..N`. Its `CHOOSE` of the first widget
  needs a least element of a non-empty set of indices. `LeastElement` derives that from
  the library's `NatLessThanWellFounded` and `WFMin`, with `<` given as a set of pairs.
  Its own module keeps the operator-argument definitions of `WellFoundedInduction` away
  from the large context of `Panel`.
- `DrawCacheCorrect`: `Spec => []DrawCacheFresh`. Whenever the window list is
  non-empty, the cached `wl_offset` and `wl_unit` equal what `draw()` computes from the
  current width and window list. The invariant is inductive on its own, with one case per writer of the cache:
  - `DrawWithFresh`: every `draw()` (after `MSG_NOTIFY`, a resize offer, or a mouse
    branch that redraws) stores exactly `Offsets(width)[WL]` and `UnitWidth(...)` for
    the new width and a non-empty list;
  - `KeepFresh`: a step that changes neither the width nor the list nor the cache keeps
    it fresh.
  The proof never needs the values of `Offsets`. It needs only that the cache and its
  inputs change together.

  `Panel` models `sorted(windows_zorder, key=wid)` (lines 1020 and 1043) as the set
  `SortedLists` of strictly increasing lists of distinct ids. It does not use
  `SetToSortSeq`, because the provers have no definition of `SortSeq`. The two denote
  the same lists, and the panel run reaches the same 7840 states with either.

**`Wallpaper_proofs`** (under `WallpaperAssumption`):
- `IconFocusCorrect`: `WallSpec => []IconFocusAgrees`. The property is inductive on its
  own. Each branch of `mouse_action()` that moves the focus takes the old icon out of the
  highlighted set and puts the new one in (`LeaveIcon` is the leave branch), and no other
  action touches either variable.
- `WallTypeCorrect`: `WallSpec => []WallTypeOK`. No run checks `WallTypeOK`, because it
  holds by the model's construction. The theorem stays in the module as a proved fact
  about the model, and `PROJECT.json` does not list it. `WallTypeOK` is inductive on its own. `AgesOK`
  names its dict conjuncts (the `animations` dict maps icon keys to ages in
  `0..AgeCap`), and there is one lemma per dict operation the code performs:
  - `StartOK`: `animate_new`;
  - `RestrictOK`: the `del` of `animate()`'s ditch pass and of `draw()`;
  - `ElapseOK`: the ageing in `animate()`;
  - `ReapOK`: the timer tick's `waitpid`, which keeps the zombie count natural.
  `IconUnderRange` shows that the icon under the pointer is an icon or none. It uses
  `LeastElement`, for the same reason as `HitTestRange` does.
- `FadeSafeWhenQuiet`: `QuietFadeSpec => FadeNeverEarly`. This is the safe half of the
  property that `wallpaper_fade_dropped` shows violated. `QuietFadeSpec` is `WallSpec`'s
  safety part restricted to steps where no SIGUSR1 reload runs while `clear_animation`
  is set, that is, between `draw()`'s decision at line 664 and its `del` at line 686.
  In those runs, the fade entry is removed only after it has lasted `FadeSpan` ticks.
  The inductive invariant is `FadeInv`: while `clear_animation` is set, `draw()` is in
  its icon pass and the fade entry exists with age `>= FadeSpan`. A reload is the only
  step that could replace the entry, so excluding it from that window is exactly the
  condition needed.

**`AppRunner_proofs`** (under `RunnerAssumption`: the names are finitely many strings,
since `os.listdir` lists finitely many; the typable characters are code points other
than NUL, BS and LF):
- Python's string order:
  - `StrIrreflexive` and `StrTransitive` (four cases: prefix or first difference, on
    each side);
  - `StrTotal`: two different strings either differ at a least position (`NatSetHasMin`
    from `LeastElement`) or agree up to the shorter, which is then a proper prefix.
- `sorted(self.bins)`:
  - `RankRange` and `RankMonotone`: a name has fewer names before it than there are
    names, and fewer than any name after it. Both come from the cardinality lemmas of
    `FiniteSetTheorems`;
  - `RankOnto`: the rank map is injective into `0..n-1`, hence onto (`FS_Injection`);
  - from these, `SortedEntry`, `SortedIncreasing` and `SortedCovers`: the list holds
    each name exactly once, in increasing order.
- `TryCompleteCorrect`: for any text, `try_complete()` leaves nothing, or the suffix
  whose concatenation with the text is `LeastMatch`, the least name that starts with
  the text. The first hit in the sorted list is least among the matches because every
  earlier entry fails to match and every later one is greater. `SuffixRestores` gives
  `d + b[len(d):] == b`.
- `CompletionCorrect`: `RunnerSpec => []CompletionCurrent`. The inductive invariant is
  `RunnerInv`, which is `RunnerTypeOK /\ CompletionCurrent`. The type part is needed
  because `TryCompleteCorrect` holds for strings of code points only. `RunnerStep` has
  one case per branch of `key_action`, plus one for opening the runner.

**`Dispatcher_proofs`**:
- `DispProjects`: every step of the key dispatch is a `[Next]_vars` step of `AltTab` and
  a `[RunnerNext]_runnervars` step of `AppRunner`. The events the loop routes are inputs
  of each (`RunnerEventOK`, `SwitcherEventOK`).
- `DispCompletionCorrect`: `DispSpec => []CompletionCurrent`. `DispTypeCorrect`:
  `DispSpec => []DispTypeOK`. Both follow from `DispInv`, which combines `TypeOK`,
  `RunnerInv` and the types of `key_focus` and `alt_up`. It is preserved by
  `AltTab_proofs`' `TypeStep` and `AppRunner_proofs`' `RunnerStep`.
- `DispOverlayCorrect`: `DispSpec => []OverlayIffTabbing`, and `DispTabIndexCorrect`:
  `DispSpec => TabIndexWraps`. These are the switcher's own results carried to the
  composition through `DispProjects`, `AltTab_proofs`' step lemmas `OverlayStep` and
  `TabIndexStepOK`, and `DispInvariant`. So every property that the passing dispatcher
  run checks is proved for every value of the constants.

`Rank` and `StartsWith` replace `SetToSortSeq` and `IsPrefix` of `SequencesExt`. The
provers have no definition of `SortSeq`. The new definitions say the same thing, and
the dispatcher run reaches the same 101,898 states with either.

Only model-checked:
- `PanelTypeOK` and `LayoutContiguous` of `Panel`, and `TilesWithinExtent`. Their
  `wl_offset`, `wl_unit` and tile bounds are values of the recursive functions
  `Offsets` and `SumFrom`, and the provers cannot evaluate those (see below);
- `FadeNeverEarly` without `QuietFadeSpec`'s condition, which does not hold;
- the grid ASSUME;
- the violation runs.

Out of TLAPS's reach:
- the liveness properties `AnimationsDrain` and `ZombiesReaped`, which need fairness and
  ENABLED;
- what the recursive functions `SumFrom` / `Offsets` / `GridOf` compute for every input.
  `tlapm` reads `f[i \in S] == e` as `CHOOSE f : f = [i \in S |-> e]`. Knowing
  that such an `f` exists is induction over the data, which the installed provers cannot
  do with the library's theorems.

## 5. Not modelled

- Rendering, fonts, icons and image scaling: these are pure output.
- The menu subsystem: `MenuWindow` is external, and the right-click "Move" menu and Alt+F1
  only open menus.
- `MSG_SESSION_END`: it closes the two windows and leaves the loop.
- The SIGUSR2 handler `reset_zorder`: it re-asserts the stacking order and key bindings
  on the compositor, and touches none of the modelled state.
- `MSG_WELCOME`: it moves and resizes the surfaces. Its effect on the panel's width is
  `ResizeOffer`.
- `launch_app`'s process spawning: it is fire-and-forget, so only the call is recorded.
  The wallpaper counts the child it leaves behind.
- The reading of `$PATH` into `bins`: it is a constant.

## 6. Plan

1. **Proofs**: the volume widget's `ScrollUpNeverLowers` violation is only
   model-checked. A proof of its safe half, under the condition that no foreign knob
   write lands between the read and the write, would follow the `FadeSafeWhenQuiet`
   pattern.
2. **Composition**: the wallpaper and panel mouse routing by window id in the dispatcher,
   and the timer tick's `panel.draw()`.
3. **Hit-test consistency** (spec §9): a pointer inside widget i's extent hits widget i.
   This is a second layout property; it fails on narrow displays for the same reason as
   `LayoutContiguous`.
