--------------------------- MODULE Wallpaper_proofs ---------------------------
(***************************************************************************)
(* Proofs about the wallpaper surface, for every number of icons, display  *)
(* height, pointer set and bound on signals and launches.                  *)
(***************************************************************************)
EXTENDS Wallpaper, LeastElement, TLAPS

(* mouse_action()'s hit test yields an icon, or None over the background. *)
LEMMA IconUnderRange ==
  ASSUME NEW p
  PROVE  IconUnder(p) \in Icons \cup {None}
<1> DEFINE hits == {i \in Icons : /\ IconPos(i).x <= p.x /\ p.x < IconPos(i).x + IconW
                                  /\ IconPos(i).y <= p.y /\ p.y < IconPos(i).y + IconH}
<1>1. CASE hits = {}
  BY <1>1 DEF IconUnder
<1>2. CASE hits # {}
  <2>1. hits \subseteq Nat
    BY WallpaperAssumption DEF Icons
  <2>2. \E i \in hits : \A j \in hits : i <= j
    BY <1>2, <2>1, NatSetHasMin
  <2>3. (CHOOSE i \in hits : \A j \in hits : i <= j) \in hits
    BY <2>2
  <2> QED
    BY <1>2, <2>3 DEF IconUnder
<1> QED
  BY <1>1, <1>2

(* The animation ages the type allows.                                     *)
AgesOK(a) ==
  /\ DOMAIN a \subseteq Keys
  /\ \A k \in DOMAIN a : a[k] \in 0..AgeCap

(* self.animations[k] = time.time() on a well-typed dict, for a key of    *)
(* the surface or an icon, gives a well-typed dict.                        *)
LEMMA StartOK ==
  ASSUME AgesOK(animations), NEW k \in Keys, Start(k)
  PROVE  AgesOK(animations')
BY DEF Start, AgesOK, AgeCap, FadeSpan

(* Removing keys from a well-typed dict gives a well-typed dict.           *)
LEMMA RestrictOK ==
  ASSUME AgesOK(animations), NEW S, S \subseteq DOMAIN animations
  PROVE  AgesOK(Restrict(animations, S))
BY DEF Restrict, AgesOK

(* One waitpid(-1, WNOHANG) never takes the zombie count below 0.        *)
LEMMA ReapOK ==
  ASSUME zombies \in Nat, Reap
  PROVE  zombies' \in Nat
BY DEF Reap

(* A quarter second ages every animation by one unit, capped at AgeCap.   *)
LEMMA ElapseOK ==
  ASSUME AgesOK(animations), Elapse
  PROVE  AgesOK(animations')
BY DEF Elapse, AgesOK, MinAge, AgeCap, FadeSpan

(* The type of the wallpaper's state holds in every reachable state: the   *)
(* dict holds the surface and icons only, every age stays within 0..1 s   *)
(* (Elapse caps it), no reap takes the zombie count below 0 (waitpid is    *)
(* called only for a child that exited), and the focus is an icon or None *)
(* whatever the pointer does.  WallTypeOK is inductive on its own.        *)
THEOREM WallTypeCorrect == WallSpec => []WallTypeOK
<1>1. WallInit => WallTypeOK
  <2> SUFFICES ASSUME WallInit PROVE WallTypeOK
    OBVIOUS
  <2>1. DOMAIN animations = {}
    BY DEF WallInit
  <2>2. /\ background \in 0..MaxReloads /\ new_background \in 0..MaxReloads
        /\ reloads \in 0..MaxReloads /\ launches \in 0..MaxLaunches
    BY WallpaperAssumption DEF WallInit
  <2>3. /\ focused_icon \in Icons \cup {None} /\ hilighted \subseteq Icons
        /\ now \in 0..UnitsPerSecond - 1
        /\ children \in Nat /\ zombies \in Nat
    BY DEF WallInit
  <2> QED
    BY <2>1, <2>2, <2>3 DEF WallInit, WallTypeOK
<1>2. WallTypeOK /\ [WallNext]_wvars => WallTypeOK'
  <2> SUFFICES ASSUME WallTypeOK, [WallNext]_wvars PROVE WallTypeOK'
    OBVIOUS
  <2>0. AgesOK(animations)
    BY DEF WallTypeOK, AgesOK
  <2>1. CASE DrawClips \/ DrawFade
    BY <2>1 DEF DrawClips, DrawFade, WallTypeOK
  <2>2. CASE DrawIcons
    <3>1. AgesOK(animations')
      BY <2>0, <2>2, RestrictOK DEF DrawIcons
    <3> QED
      BY <2>2, <3>1 DEF DrawIcons, WallTypeOK, AgesOK
  <2>3. CASE AnimateDitch
    <3>1. AgesOK(animations')
      BY <2>0, <2>3, RestrictOK DEF AnimateDitch, RestrictDomain
    <3> QED
      BY <2>3, <3>1 DEF AnimateDitch, WallTypeOK, AgesOK
  <2>4. CASE TimerTick
    <3>1. zombies' \in Nat /\ stale' \in BOOLEAN
      <4>1. CASE stale
        <5>1. Reap /\ stale' = FALSE
          BY <2>4, <4>1 DEF TimerTick
        <5>2. zombies \in Nat
          BY DEF WallTypeOK
        <5> QED
          BY <5>1, <5>2, ReapOK
      <4>2. CASE ~stale
        BY <2>4, <4>2 DEF TimerTick, WallTypeOK
      <4> QED
        BY <4>1, <4>2
    <3>2. pc' \in {"idle", "clips"} /\ caller' \in {"animate", "mouse", "resize"}
      BY <2>4 DEF TimerTick, WallTypeOK
    <3> QED
      BY <2>4, <3>1, <3>2 DEF TimerTick, WallTypeOK
  <2>5. CASE Elapse
    <3>1. AgesOK(animations')
      BY <2>0, <2>5, ElapseOK
    <3> QED
      BY <2>5, <3>1 DEF Elapse, WallTypeOK, AgesOK, UnitsPerSecond
  <2>6. CASE reload_wallpaper
    <3>1. AgesOK(animations')
      BY <2>0, <2>6, StartOK DEF reload_wallpaper, Keys, Surface
    <3>2. reloads' \in 0..MaxReloads /\ new_background' \in 0..MaxReloads
      BY <2>6, WallpaperAssumption DEF reload_wallpaper, WallTypeOK
    <3>3. pc' \in {"idle", "clips", "fade", "icons", "ditch", "crashed"}
      BY <2>6 DEF reload_wallpaper, WallTypeOK
    <3> QED
      BY <2>6, <3>1, <3>2, <3>3 DEF reload_wallpaper, WallTypeOK, AgesOK
  <2>7. CASE ChildExits
    BY <2>7 DEF ChildExits, WallTypeOK
  <2>8. ASSUME NEW c \in MouseCommands, NEW p \in Points, WallpaperMouse(c, p)
        PROVE  WallTypeOK'
    <3> DEFINE under == IconUnder(p)
    <3>0. UNCHANGED <<background, new_background, reloads, clear_animation,
                      now, stale, zombies>>
      BY <2>8 DEF WallpaperMouse
    <3>1. under \in Icons \cup {None}
      BY IconUnderRange
    <3>2. CASE /\ hilighted' = hilighted \ {focused_icon} /\ focused_icon' = None
               /\ pc' = "clips" /\ caller' = "mouse"
               /\ UNCHANGED <<animations, launches, children>>
      BY <3>0, <3>2 DEF WallTypeOK
    <3>3. CASE /\ focused_icon' = under
               /\ hilighted' = (hilighted \ {focused_icon}) \cup ({under} \ {None})
               /\ pc' = "clips" /\ caller' = "mouse"
               /\ UNCHANGED <<animations, launches, children>>
      BY <3>0, <3>1, <3>3 DEF WallTypeOK
    <3>4. CASE /\ under = focused_icon /\ under # None
               /\ launch_application(under)
               /\ UNCHANGED <<focused_icon, hilighted, pc, caller>>
      <4>1. under \in Keys
        BY <3>1, <3>4 DEF Keys
      <4>2. AgesOK(animations')
        BY <2>0, <3>4, <4>1, StartOK DEF launch_application
      <4>3. launches' \in 0..MaxLaunches /\ children' \in Nat
        BY <3>4, WallpaperAssumption DEF launch_application, WallTypeOK
      <4> QED
        BY <3>0, <3>4, <4>2, <4>3 DEF WallTypeOK, AgesOK
    <3> QED
      BY <2>8, <3>2, <3>3, <3>4 DEF WallpaperMouse, LeaveIcon
  <2>9. CASE WallpaperResize \/ Crashed \/ UNCHANGED wvars
    BY <2>9 DEF WallpaperResize, Crashed, wvars, WallTypeOK
  <2> QED
    BY <2>1, <2>2, <2>3, <2>4, <2>5, <2>6, <2>7, <2>8, <2>9 DEF WallNext,
       HandlerStep
<1> QED
  BY <1>1, <1>2, PTL DEF WallSpec

-----------------------------------------------------------------------------
(* The icons' highlight.                                                   *)

(* Exactly the focused icon is highlighted in every reachable state, for  *)
(* every number of icons, display height and pointer set: each branch of   *)
(* mouse_action() that moves the focus calls focus_leave() on the icon it  *)
(* leaves and focus_enter() on the one it enters, and no other handler     *)
(* touches either.  IconFocusAgrees is inductive on its own.               *)
THEOREM IconFocusCorrect == WallSpec => []IconFocusAgrees
<1>1. WallInit => IconFocusAgrees
  BY DEF WallInit, IconFocusAgrees
<1>2. IconFocusAgrees /\ [WallNext]_wvars => IconFocusAgrees'
  <2> SUFFICES ASSUME IconFocusAgrees, [WallNext]_wvars PROVE IconFocusAgrees'
    OBVIOUS
  <2>1. ASSUME NEW c \in MouseCommands, NEW p \in Points, WallpaperMouse(c, p)
        PROVE  IconFocusAgrees'
    <3> DEFINE under == IconUnder(p)
    <3>1. CASE LeaveIcon
      BY <3>1 DEF LeaveIcon, IconFocusAgrees
    <3>2. CASE /\ focused_icon' = under
               /\ hilighted' = (hilighted \ {focused_icon}) \cup ({under} \ {None})
      BY <3>2 DEF IconFocusAgrees
    <3>3. CASE UNCHANGED <<focused_icon, hilighted>>
      BY <3>3 DEF IconFocusAgrees
    <3> QED
      BY <2>1, <3>1, <3>2, <3>3 DEF WallpaperMouse
  <2>2. CASE ~\E c \in MouseCommands, p \in Points : WallpaperMouse(c, p)
    <3>1. UNCHANGED <<focused_icon, hilighted>>
      BY <2>2 DEF WallNext, HandlerStep, DrawClips, DrawFade, DrawIcons,
                  AnimateDitch, TimerTick, Elapse, reload_wallpaper,
                  ChildExits, WallpaperResize, Crashed, wvars
    <3> QED
      BY <3>1 DEF IconFocusAgrees
  <2> QED
    BY <2>1, <2>2
<1> QED
  BY <1>1, <1>2, PTL DEF WallSpec

-----------------------------------------------------------------------------
(* The cross-fade.                                                         *)

(* draw()'s fade decision is pending only between DrawFade and DrawIcons,  *)
(* and then the fade it will delete is in the dict and at least 1.0 s old. *)
FadeInv ==
  clear_animation =>
    /\ pc = "icons" /\ Surface \in DOMAIN animations
    /\ animations[Surface] >= FadeSpan

(* The step FadeNeverEarly allows.                                         *)
FadeStep ==
  (Surface \in DOMAIN animations /\ Surface \notin DOMAIN animations')
    => animations[Surface] >= FadeSpan

(* A step that keeps the dict's keys, or only adds to them, deletes no    *)
(* fade.                                                                   *)
LEMMA KeepsSurface ==
  ASSUME DOMAIN animations \subseteq DOMAIN animations'
  PROVE  FadeStep
BY DEF FadeStep

(* Spec section 8: a cross-fade is never removed before 1.0 s, in every    *)
(* run in which no SIGUSR1 lands between draw()'s decision to clear it    *)
(* (line 664) and the del (line 686).  With the violation run             *)
(* wallpaper_fade_dropped this shows that window to be the only way the   *)
(* code removes a fade early.  FadeInv is the inductive invariant.        *)
THEOREM FadeSafeWhenQuiet == QuietFadeSpec => FadeNeverEarly
<1>1. WallInit => FadeInv
  BY DEF WallInit, FadeInv
<1>2. FadeInv /\ [WallNext /\ NoSignalInFadeWindow]_wvars
        => FadeInv' /\ [FadeStep]_wvars
  <2> SUFFICES ASSUME FadeInv, [WallNext /\ NoSignalInFadeWindow]_wvars
               PROVE  FadeInv' /\ FadeStep
    BY DEF wvars, FadeStep
  <2>1. CASE DrawFade
    <3>1. FadeInv'
      BY <2>1 DEF DrawFade, FadeInv
    <3> QED
      BY <2>1, <3>1, KeepsSurface DEF DrawFade
  <2>2. CASE DrawIcons
    <3>1. FadeInv'
      BY <2>2 DEF DrawIcons, FadeInv
    <3>2. CASE clear_animation
      BY <2>2, <3>1, <3>2 DEF FadeInv, FadeStep
    <3>3. CASE ~clear_animation
      BY <2>2, <3>1, <3>3, KeepsSurface DEF DrawIcons
    <3> QED
      BY <3>2, <3>3
  <2>3. CASE AnimateDitch
    <3>1. ~clear_animation
      BY <2>3 DEF AnimateDitch, FadeInv
    <3>2. Surface \in DOMAIN animations => Surface \in DOMAIN animations'
      BY <2>3 DEF AnimateDitch, RestrictDomain, Restrict
    <3> QED
      BY <2>3, <3>1, <3>2 DEF AnimateDitch, FadeInv, FadeStep
  <2>4. CASE reload_wallpaper /\ NoSignalInFadeWindow
    <3>1. ~clear_animation /\ clear_animation' = clear_animation
      BY <2>4 DEF NoSignalInFadeWindow, reload_wallpaper
    <3> QED
      BY <2>4, <3>1, KeepsSurface DEF reload_wallpaper, Start, FadeInv
  <2>5. CASE Elapse
    BY <2>5, KeepsSurface DEF Elapse, FadeInv
  <2>6. ASSUME NEW c \in MouseCommands, NEW p \in Points, WallpaperMouse(c, p)
        PROVE  FadeInv' /\ FadeStep
    <3>1. ~clear_animation /\ clear_animation' = clear_animation
      BY <2>6 DEF WallpaperMouse, LeaveIcon, FadeInv
    <3>2. DOMAIN animations \subseteq DOMAIN animations'
      BY <2>6 DEF WallpaperMouse, LeaveIcon, launch_application, Start
    <3> QED
      BY <3>1, <3>2, KeepsSurface DEF FadeInv
  <2>7. CASE DrawClips \/ TimerTick \/ ChildExits \/ WallpaperResize
             \/ Crashed \/ UNCHANGED wvars
    <3>1. UNCHANGED <<animations, clear_animation>>
      BY <2>7 DEF DrawClips, TimerTick, ChildExits, WallpaperResize, Crashed,
                  wvars
    <3>2. clear_animation => pc' = "icons"
      BY <2>7 DEF DrawClips, TimerTick, ChildExits, WallpaperResize, Crashed,
                  wvars, FadeInv
    <3> QED
      BY <3>1, <3>2, KeepsSurface DEF FadeInv
  <2> QED
    BY <2>1, <2>2, <2>3, <2>4, <2>5, <2>6, <2>7 DEF WallNext, HandlerStep
<1> QED
  BY <1>1, <1>2, PTL DEF QuietFadeSpec, FadeNeverEarly, FadeStep
=============================================================================
