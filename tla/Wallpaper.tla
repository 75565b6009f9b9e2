------------------------------ MODULE Wallpaper ------------------------------
(***************************************************************************)
(* WallpaperWindow of panel.py: the animations dict (the surface's         *)
(* cross-fade and the icons' launch bounces), draw() and animate() split   *)
(* at the points where they read, iterate and delete that dict, the        *)
(* SIGUSR1 handler reload_wallpaper() that may run between any two of      *)
(* those steps, the icon grid's hit test, and the main loop's timer tick   *)
(* that reaps children and drives animate().                               *)
(*                                                                         *)
(* Time is counted in units of 0.25 s.  An animation's entry is kept as    *)
(* its age in units, capped where no comparison of the code tells larger  *)
(* ages apart.  No time passes inside a handler; a signal may arrive       *)
(* anywhere.                                                               *)
(***************************************************************************)
EXTENDS Integers, FiniteSets, TLC, Functions

CONSTANTS
  NIcons,       \* number of desktop icons (lines of ~/.desktop)
  Height,       \* display height: where the icon columns wrap
  Points,       \* pointer positions a mouse event may carry: [x, y]
  MaxReloads,   \* bound on the SIGUSR1 signals sent during a behaviour
  MaxLaunches,  \* bound on the icon launches during a behaviour
  None

ASSUME WallpaperAssumption ==
  /\ NIcons \in Nat /\ Height \in Nat
  /\ Points \subseteq [x : Nat, y : Nat]
  /\ MaxReloads \in Nat /\ MaxLaunches \in Nat
  /\ None \notin Nat

Surface == 0               \* the key `self` of self.animations
Icons == 1..NIcons         \* the WallpaperIcon objects, in file order
Keys == {Surface} \cup Icons

UnitsPerSecond == 4
IconSpan == 2              \* 0.5 s: animate() ditches an icon older than this
FadeSpan == 4              \* 1.0 s: draw() resolves a fade this old
AgeCap == FadeSpan

IconW == 100               \* WallpaperIcon.width
IconH == 80                \* WallpaperIcon.height

VARIABLES
  animations,      \* self.animations: key -> age of its start timestamp
  background,      \* self.background: which loaded image (0 = at startup)
  new_background,  \* self.new_background (first set by animate_new)
  reloads,         \* SIGUSR1 signals handled so far
  focused_icon,    \* self.focused_icon
  hilighted,       \* the icons whose .hilighted is True
  pc,              \* where the main thread is: "idle" between messages,
                   \* a step of draw()/animate(), or "crashed"
  caller,          \* who called draw(): "animate", "mouse" or "resize"
  clear_animation, \* draw()'s local clear_animation
  now,             \* the sub-second phase of the clock
  stale,           \* int(time.time()) != current_time
  children,        \* launched children still running
  zombies,         \* children exited and not reaped
  launches         \* icon launches so far

wvars == <<animations, background, new_background, reloads, focused_icon,
           hilighted, pc, caller, clear_animation, now, stale, children,
           zombies, launches>>

MinAge(a, b) == IF a < b THEN a ELSE b

(* The column-wrapping grid walked by draw() and mouse_action() on a       *)
(* display H high: the cursor [x, y, last_width] after placing icons 1..i. *)
GridOf(H, n) ==
  LET g[i \in 0..n] ==
        IF i = 0 THEN [x |-> 20, y |-> 50, lw |-> 0]
        ELSE LET c == g[i - 1]
                 wrap == c.y > H - IconH
                 x == IF wrap THEN c.x + c.lw ELSE c.x
                 y == IF wrap THEN 50 ELSE c.y
                 lw == IF wrap THEN 0 ELSE c.lw
             IN  [x |-> x, y |-> y + IconH, lw |-> IF IconW > lw THEN IconW ELSE lw]
  IN  g

GridCursor == GridOf(Height, NIcons)

(* Where icon i is drawn: its column, and its row above the cursor.        *)
IconPos(i) == [x |-> GridCursor[i].x, y |-> GridCursor[i].y - IconH]

(* The hit test of mouse_action(): the first icon whose box holds p.       *)
IconUnder(p) ==
  LET hits == {i \in Icons : /\ IconPos(i).x <= p.x /\ p.x < IconPos(i).x + IconW
                             /\ IconPos(i).y <= p.y /\ p.y < IconPos(i).y + IconH}
  IN  IF hits = {} THEN None ELSE CHOOSE i \in hits : \A j \in hits : i <= j

(* self.animations[k] = time.time(): a fresh entry, or a restarted one.    *)
Start(k) == animations' = [j \in DOMAIN animations \cup {k} |->
                             IF j = k THEN 0 ELSE animations[j]]

(* The main thread is inside a `for` over the animations dict: the clip    *)
(* loops of draw() (animate() passes the keys view; a list from            *)
(* mouse_action() is followed by a loop over the dict when it is not       *)
(* empty) or animate()'s ditch loop.                                       *)
Iterating ==
  \/ pc = "ditch"
  \/ pc = "clips" /\ (caller = "animate" \/ DOMAIN animations # {})

(* reload_wallpaper(): animate_new() loads the next image and (re)starts   *)
(* the surface's fade.  Landing inside a dict iteration with a new key,    *)
(* the interrupted `for` raises RuntimeError and the client dies.          *)
reload_wallpaper ==
  /\ pc # "crashed" /\ reloads < MaxReloads
  /\ reloads' = reloads + 1
  /\ new_background' = reloads + 1
  /\ Start(Surface)
  /\ \/ UNCHANGED pc
     \/ Iterating /\ Surface \notin DOMAIN animations /\ pc' = "crashed"
  /\ UNCHANGED <<background, focused_icon, hilighted, caller, clear_animation,
                 now, stale, children, zombies, launches>>

(* draw(clips), lines 615-621: the clip rectangles of the given clips and  *)
(* of every animation.                                                     *)
DrawClips ==
  /\ pc = "clips" /\ pc' = "fade"
  /\ UNCHANGED <<animations, background, new_background, reloads, focused_icon,
                 hilighted, caller, clear_animation, now, stale, children,
                 zombies, launches>>

(* draw(), lines 622-669: paint the background, then the fade; a fade at  *)
(* least 1.0 s old swaps the background and is marked for clearing.        *)
DrawFade ==
  /\ pc = "fade" /\ pc' = "icons"
  /\ \/ /\ Surface \in DOMAIN animations /\ animations[Surface] >= FadeSpan
        /\ background' = new_background /\ clear_animation' = TRUE
     \/ /\ ~(Surface \in DOMAIN animations /\ animations[Surface] >= FadeSpan)
        /\ clear_animation' = FALSE /\ UNCHANGED background
  /\ UNCHANGED <<animations, new_background, reloads, focused_icon, hilighted,
                 caller, now, stale, children, zombies, launches>>

(* Mutant: draw() that forgets the del of a resolved fade.                 *)
DrawIcons_no_del ==
  /\ pc = "icons"
  /\ clear_animation' = FALSE
  /\ pc' = IF caller = "animate" THEN "ditch" ELSE "idle"
  /\ UNCHANGED <<animations, background, new_background, reloads, focused_icon,
                 hilighted, caller, now, stale, children, zombies, launches>>

(* draw(), lines 671-688: the icons, then del self.animations[self] if     *)
(* the fade was resolved, and flip(); back to the caller.                  *)
DrawIcons ==
  /\ pc = "icons"
  /\ animations' = IF clear_animation
                   THEN Restrict(animations, DOMAIN animations \ {Surface})
                   ELSE animations
  /\ clear_animation' = FALSE
  /\ pc' = IF caller = "animate" THEN "ditch" ELSE "idle"
  /\ UNCHANGED <<background, new_background, reloads, focused_icon, hilighted,
                 caller, now, stale, children, zombies, launches>>

(* animate(), lines 555-563: drop the icons whose bounce is over 0.5 s.    *)
AnimateDitch ==
  /\ pc = "ditch" /\ pc' = "idle"
  /\ animations' = RestrictDomain(animations,
                     LAMBDA k : k = Surface \/ ~(animations[k] > IconSpan))
  /\ UNCHANGED <<background, new_background, reloads, focused_icon, hilighted,
                 caller, clear_animation, now, stale, children, zombies,
                 launches>>

(* The reap of the tick handler: one waitpid(-1, WNOHANG), which takes one *)
(* exited child if there is one and otherwise returns or raises harmlessly.*)
Reap == zombies' = IF zombies > 0 THEN zombies - 1 ELSE 0

(* Mutant: the reap moved under `if wallpaper.animations`.                 *)
TimerTick_reap_when_animating ==
  /\ pc = "idle"
  /\ \/ DOMAIN animations # {} /\ stale /\ Reap /\ stale' = FALSE
     \/ ~(DOMAIN animations # {} /\ stale) /\ UNCHANGED <<zombies, stale>>
  /\ \/ DOMAIN animations # {} /\ pc' = "clips" /\ caller' = "animate"
     \/ DOMAIN animations = {} /\ UNCHANGED <<pc, caller>>
  /\ UNCHANGED <<animations, background, new_background, reloads, focused_icon,
                 hilighted, clear_animation, now, children, launches>>

(* MSG_TIMER_TICK, lines 1045-1055: on a new second, reap one child and    *)
(* redraw the panel; then animate() if any animation runs.                 *)
TimerTick ==
  /\ pc = "idle"
  /\ \/ stale /\ Reap /\ stale' = FALSE
     \/ ~stale /\ UNCHANGED <<zombies, stale>>
  /\ \/ DOMAIN animations # {} /\ pc' = "clips" /\ caller' = "animate"
     \/ DOMAIN animations = {} /\ UNCHANGED <<pc, caller>>
  /\ UNCHANGED <<animations, background, new_background, reloads, focused_icon,
                 hilighted, clear_animation, now, children, launches>>

(* A quarter second passes between two messages.                           *)
Elapse ==
  /\ pc = "idle"
  /\ now' = (now + 1) % UnitsPerSecond
  /\ stale' = (stale \/ now = UnitsPerSecond - 1)
  /\ animations' = [k \in DOMAIN animations |-> MinAge(animations[k] + 1, AgeCap)]
  /\ UNCHANGED <<background, new_background, reloads, focused_icon, hilighted,
                 pc, caller, clear_animation, children, zombies, launches>>

(* A launched /bin/sh child exits and becomes a zombie.                    *)
ChildExits ==
  /\ pc # "crashed" /\ children > 0
  /\ children' = children - 1 /\ zombies' = zombies + 1
  /\ UNCHANGED <<animations, background, new_background, reloads, focused_icon,
                 hilighted, pc, caller, clear_animation, now, stale, launches>>

(* WallpaperIcon.mouse_action() on a click: launch_application() adds the  *)
(* icon's bounce and spawns /bin/sh -c data.  It returns None: no redraw.  *)
launch_application(i) ==
  /\ launches < MaxLaunches
  /\ Start(i)
  /\ launches' = launches + 1 /\ children' = children + 1

(* Mutant: a leave that forgets focused_icon.focus_leave().               *)
LeaveIcon_no_focus_leave ==
  /\ focused_icon' = None
  /\ pc' = "clips" /\ caller' = "mouse"
  /\ UNCHANGED <<animations, launches, children, hilighted>>

(* mouse_action(), lines 693-697: a leave event, or a pointer below the    *)
(* display, un-highlights the focused icon, drops the focus and redraws   *)
(* its clip.                                                               *)
LeaveIcon ==
  /\ hilighted' = hilighted \ {focused_icon} /\ focused_icon' = None
  /\ pc' = "clips" /\ caller' = "mouse"
  /\ UNCHANGED <<animations, launches, children>>

(* WallpaperWindow.mouse_action(msg), lines 690-729: leave, or a move to  *)
(* another icon, moves the focus and redraws the clips; a click on the     *)
(* focused icon launches it.  "leave" is command 5.                        *)
WallpaperMouse(command, p) ==
  LET under == IconUnder(p) IN
  /\ pc = "idle"
  /\ \/ /\ (command = "leave" \/ p.y >= Height) /\ focused_icon # None
        /\ LeaveIcon
     \/ /\ ~((command = "leave" \/ p.y >= Height) /\ focused_icon # None)
        /\ under # focused_icon
        /\ focused_icon' = under
        /\ hilighted' = (hilighted \ {focused_icon}) \cup ({under} \ {None})
        /\ pc' = "clips" /\ caller' = "mouse"
        /\ UNCHANGED <<animations, launches, children>>
     \/ /\ ~((command = "leave" \/ p.y >= Height) /\ focused_icon # None)
        /\ under = focused_icon /\ under # None /\ command = "click"
        /\ launch_application(under)
        /\ UNCHANGED <<focused_icon, hilighted, pc, caller>>
  /\ UNCHANGED <<background, new_background, reloads, clear_animation, now,
                 stale, zombies>>

(* MSG_RESIZE_OFFER for the wallpaper: finish_resize() calls draw() with  *)
(* no clips (the display size itself is fixed here).                       *)
WallpaperResize ==
  /\ pc = "idle" /\ pc' = "fade" /\ caller' = "resize"
  /\ UNCHANGED <<animations, background, new_background, reloads, focused_icon,
                 hilighted, clear_animation, now, stale, children, zombies,
                 launches>>

(* The uncaught RuntimeError ended the client: nothing happens any more.  *)
Crashed == pc = "crashed" /\ UNCHANGED wvars

(* After startup: wallpaper.draw() done, no animation, no child yet.       *)
WallInit ==
  /\ animations = << >>
  /\ background = 0 /\ new_background = 0 /\ reloads = 0
  /\ focused_icon = None /\ hilighted = {}
  /\ pc = "idle" /\ caller = "resize" /\ clear_animation = FALSE
  /\ now \in 0..UnitsPerSecond - 1 /\ stale = FALSE
  /\ children = 0 /\ zombies = 0 /\ launches = 0

MouseCommands == {"move", "click", "leave"}

(* The steps the main thread takes inside one handler.                     *)
HandlerStep == DrawClips \/ DrawFade \/ DrawIcons \/ AnimateDitch

WallNext ==
  \/ HandlerStep
  \/ TimerTick
  \/ Elapse
  \/ reload_wallpaper
  \/ ChildExits
  \/ \E c \in MouseCommands, p \in Points : WallpaperMouse(c, p)
  \/ WallpaperResize
  \/ Crashed

(* The handler runs to its end; the clock advances and the compositor's    *)
(* timer keeps queueing ticks, which the loop takes whenever it polls.     *)
WallFairness ==
  /\ WF_wvars(HandlerStep)
  /\ SF_wvars(Elapse)
  /\ SF_wvars(TimerTick)

WallSpec == WallInit /\ [][WallNext]_wvars /\ WallFairness

-----------------------------------------------------------------------------
(* Properties                                                              *)

(* The type of the wallpaper's state.                                      *)
WallTypeOK ==
  /\ DOMAIN animations \subseteq Keys
  /\ \A k \in DOMAIN animations : animations[k] \in 0..AgeCap
  /\ background \in 0..MaxReloads /\ new_background \in 0..MaxReloads
  /\ reloads \in 0..MaxReloads /\ launches \in 0..MaxLaunches
  /\ focused_icon \in Icons \cup {None} /\ hilighted \subseteq Icons
  /\ pc \in {"idle", "clips", "fade", "icons", "ditch", "crashed"}
  /\ caller \in {"animate", "mouse", "resize"}
  /\ clear_animation \in BOOLEAN /\ stale \in BOOLEAN
  /\ now \in 0..UnitsPerSecond - 1
  /\ children \in Nat /\ zombies \in Nat

(* Exactly the focused icon is drawn highlighted.  mouse_action() pairs   *)
(* focus_leave() on the old icon with focus_enter() on the new one over    *)
(* every move between icons, off the grid and below the display, every     *)
(* leave event, and every click that launches the focused icon; signals,   *)
(* ticks and redraws in between touch neither.                             *)
IconFocusAgrees == hilighted = {focused_icon} \ {None}

(* Every animation ends: with the timer ticking and the clock running,     *)
(* animate() ditches each bounce and draw() resolves and deletes the fade, *)
(* so the dict empties once signals and launches stop (spec section 8,    *)
(* animation lifecycle), unless the client has died.                       *)
AnimationsDrain ==
  (DOMAIN animations # {}) ~> (DOMAIN animations = {} \/ pc = "crashed")

(* Every child that has exited is eventually reaped: one waitpid per new   *)
(* second of the tick handler catches up with any burst of launches.      *)
ZombiesReaped == (zombies > 0) ~> (zombies = 0 \/ pc = "crashed")

(* Spec section 8: a cross-fade started at T is never removed before       *)
(* T + 1.0 s.  The delete at line 686 removes whatever fade is in the dict *)
(* when it runs, after clear_animation was decided at line 664.            *)
FadeNeverEarly ==
  [][(Surface \in DOMAIN animations /\ Surface \notin DOMAIN animations')
       => animations[Surface] >= FadeSpan]_wvars

(* The one interleaving behind FadeNeverEarly's violation: a SIGUSR1 whose *)
(* reload_wallpaper() runs after draw() has decided to clear the fade      *)
(* (line 664) and before its del (line 686).  QuietFadeSpec is WallSpec's *)
(* safety part for the runs in which no signal lands in that window.       *)
NoSignalInFadeWindow == ~(clear_animation /\ reload_wallpaper)
QuietFadeSpec == WallInit /\ [][WallNext /\ NoSignalInFadeWindow]_wvars

(* Spec section 7: the shell never crashes.  reload_wallpaper() inserts   *)
(* into self.animations from a signal handler, possibly while animate()    *)
(* or draw() is iterating it.                                              *)
NoIterationCrash == pc # "crashed"

=============================================================================
