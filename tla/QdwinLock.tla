----------------------------- MODULE QdwinLock -----------------------------
(***************************************************************************)
(* The session lock of qdwin: the shell and locker bindings, the lock      *)
(* surface and the promoted lock toplevel, the lock curtain, the layers    *)
(* hidden while locked, and the keyboard grabs that route keys meanwhile.  *)
(* The compositor is one event loop, so a handler is one atomic step; what *)
(* interleaves is requests, disconnects, hotplug and destruction.          *)
(*                                                                         *)
(* The variables are fields of struct qdwin and what they depend on.  A    *)
(* raw lock view is named by its surface, a toplevel's view and surface by *)
(* the toplevel.  The record lk has the lock's pointers:                   *)
(*   resource     lock_resource, with lock_resource_is_locker              *)
(*   surface, view, is_toplevel, toplevel    lock_surface, lock_view,      *)
(*                lock_view_is_toplevel, lock_toplevel                     *)
(*   listener     the surface lock_surface_commit/_destroy are linked to   *)
(*   relinked     surfaces whose signal lists a second link has broken     *)
(*   raw          raw lock views that exist, all of them on lock_layer     *)
(*   overlaid     a toplevel was promoted over the linked listeners        *)
(*   hung         a broken signal list was emitted, which never returns    *)
(* An operator X_bad is X with a mistake that its code could have; the     *)
(* specification never uses it, the properties must notice it.             *)
(***************************************************************************)
EXTENDS Integers

(***************************************************************************)
(* The keyboard of the seat and the grabs that compete for it.  libweston  *)
(* keeps ONE grab pointer per keyboard; qdwin, libweston-desktop and the   *)
(* input-method code each keep a belief of their own about holding it.     *)
(* The record k holds both, so that the two can come apart:                *)
(*   plugged    weston_seat_get_keyboard() returns a keyboard              *)
(*   grab       who keyboard->grab points to                               *)
(*   ov_active, ov_role   qdwin->overlay_grab_active / _role (0 launcher,  *)
(*                        2 locker)                                        *)
(*   sw_active  qdwin->switcher_grab_active                                *)
(*   im         the input method's grab object: absent, without keyboard   *)
(*              (g->keyboard = NULL), or believing it holds the keyboard   *)
(* Each operator is one C function, from the record to the next record.    *)
(***************************************************************************)

GrabHolder == {"default", "overlay", "switcher", "im", "popup", "binding"}

Keyboard == [plugged : BOOLEAN, grab : GrabHolder, ov_active : BOOLEAN,
             ov_role : {0, 2}, sw_active : BOOLEAN,
             im : {"none", "idle", "held"}]

KeyboardInit == [plugged |-> TRUE, grab |-> "default", ov_active |-> FALSE,
                 ov_role |-> 0, sw_active |-> FALSE, im |-> "none"]

weston_keyboard_start_grab(k, g) == [k EXCEPT !.grab = g]

weston_keyboard_end_grab(k) == [k EXCEPT !.grab = "default"]

\* The popup grab is only ended on a keyboard the seat still reports.
weston_desktop_seat_popup_grab_end(k) ==
  IF k.plugged /\ k.grab = "popup" THEN weston_keyboard_end_grab(k) ELSE k

\* The holder's cancel callback runs, and nothing else: popup and binding
\* grabs let go of keyboard->grab, qdwin's own only clear their belief.
weston_keyboard_cancel_grab(k) ==
  CASE k.grab = "overlay"  -> [k EXCEPT !.ov_active = FALSE]
    [] k.grab = "switcher" -> [k EXCEPT !.sw_active = FALSE]
    [] k.grab = "im"       -> [k EXCEPT !.im = IF @ = "held" THEN "idle" ELSE @]
    [] k.grab = "popup"    -> weston_desktop_seat_popup_grab_end(k)
    [] k.grab = "binding"  -> weston_keyboard_end_grab(k)
    [] k.grab = "default"  -> k

weston_seat_release_keyboard(k) ==
  weston_keyboard_cancel_grab([k EXCEPT !.plugged = FALSE])

qdwin_overlay_grab_start(k, role) ==
  IF ~k.plugged THEN k
  ELSE IF k.ov_active THEN [k EXCEPT !.ov_role = role]
  ELSE [weston_keyboard_start_grab(k, "overlay")
          EXCEPT !.ov_role = role, !.ov_active = TRUE]

qdwin_overlay_grab_end(k) ==
  IF ~k.ov_active THEN k
  ELSE [weston_keyboard_end_grab(k) EXCEPT !.ov_active = FALSE]

overlay_grab_end_role_bad(k, role) ==
  IF k.ov_active /\ k.grab = "overlay" /\ k.ov_role = role
  THEN qdwin_overlay_grab_end(k) ELSE k

\* `if (overlay_grab_active && overlay_grab_role == role) overlay_grab_end`
overlay_grab_end_role(k, role) ==
  IF k.ov_active /\ k.ov_role = role THEN qdwin_overlay_grab_end(k) ELSE k

qdwin_switcher_grab_start(k) ==
  IF k.sw_active THEN k
  ELSE [weston_keyboard_start_grab(k, "switcher") EXCEPT !.sw_active = TRUE]

qdwin_switcher_grab_end(k) ==
  IF ~k.sw_active THEN k
  ELSE [weston_keyboard_end_grab(k) EXCEPT !.sw_active = FALSE]

\* A key binding runs on the default grab only; libweston then installs its
\* binding grab unless the handler itself took the keyboard.
weston_compositor_run_key_binding(k) ==
  IF k.grab = "default" THEN weston_keyboard_start_grab(k, "binding") ELSE k

qdwin_im_grab_resource_destroy(k) ==
  LET k1 == IF k.im = "held" /\ k.grab = "im"
            THEN weston_keyboard_end_grab(k) ELSE k
  IN  [k1 EXCEPT !.im = "none"]

qdwin_im_req_grab_keyboard(k) ==
  LET k1 == qdwin_im_grab_resource_destroy(k)
  IN  IF k1.plugged
      THEN [weston_keyboard_start_grab(k1, "im") EXCEPT !.im = "held"]
      ELSE [k1 EXCEPT !.im = "idle"]

\* qdwin_output_boundary_cancel_state: qdwin's grabs are ended one by one,
\* then whoever is left on a live keyboard is cancelled and evicted.
boundary_cancel_keyboard(k) ==
  LET k1 == qdwin_overlay_grab_end(qdwin_switcher_grab_end(k))
      k2 == IF k1.im = "none" THEN k1 ELSE qdwin_im_grab_resource_destroy(k1)
  IN  IF k2.plugged /\ k2.grab # "default"
      THEN weston_keyboard_end_grab(weston_keyboard_cancel_grab(k2))
      ELSE k2

-----------------------------------------------------------------------------
(* The lock *)

CONSTANTS
  Lockers,        \* locker processes (a restarted locker is another one)
  Strangers,      \* processes that are not lockers
  Pids,           \* process numbers
  LockSurfaces,   \* wl_surfaces offered to attach_lock_surface
  Toplevels,      \* xdg_toplevels
  Owner,          \* Owner[t]: the process behind toplevel t
  Outputs,        \* output slots, numbered from left to right
  ShellVersion,   \* version the shell bound qdwin_shell_v1 with
  AllocMayFail,   \* may weston_view_create / curtain_create return NULL?
  NONE,
  UNREAD          \* a start time that could not be read (0 in the code)

Views == LockSurfaces \cup Toplevels

ASSUME LockConstants ==
  /\ NONE \notin Views \cup Lockers \cup Strangers
  /\ Lockers \cap Strangers = {}
  /\ UNREAD \notin Lockers \cup Strangers
  /\ 0 \notin Pids
  /\ LockSurfaces \cap Toplevels = {}
  /\ "shell" \notin Lockers
  /\ DOMAIN Owner = Toplevels
  /\ Outputs \subseteq Int
  /\ ShellVersion \in Int
  /\ AllocMayFail \in BOOLEAN

VARIABLES
  locked,           \* qdwin->locked
  hidden,           \* the non-lock layers have no position
  lock_curtain,     \* outputs the curtain covers; {} if it is NULL
  lk,               \* the lock's pointers
  layer,            \* layer[t]: where toplevel t's view is
  shell_bound,      \* a shell holds the role
  launcher,         \* the shell has a kind=0 launcher attached
  locker_resource,  \* the bound locker, or NONE
  peer,             \* locker_pid and locker_starttime, taken at the bind
  alive,            \* locker processes that are running
  pid,              \* the number in the credentials of a locker's connection
  proc,             \* the kernel's process table: who has a number
  k,                \* the keyboard and its grabs
  surfaces,         \* live wl_surfaces of LockSurfaces
  outputs,          \* enabled outputs
  saw               \* the lock state last announced to shell and locker

lockVars == <<locked, hidden, lock_curtain>>
viewVars == <<lk, layer>>
procVars == <<alive, pid, proc>>
lockerVars == <<locker_resource, peer, procVars>>
clientVars == <<shell_bound, launcher, lockerVars>>
vars == <<lockVars, viewVars, clientVars, k, surfaces, outputs, saw>>

\* "unmapped": in normal_layer, but inserted while the layer had no position
Layer == {"none", "held", "normal", "unmapped", "lock"}
News == {"none", "locked", "unlocked"}
NewsOf(l) == IF l THEN "locked" ELSE "unlocked"

LockPointers ==
  [resource : {"none", "shell", "locker"}, surface : Views \cup {NONE},
   view : Views \cup {NONE}, is_toplevel : BOOLEAN,
   toplevel : Toplevels \cup {NONE}, listener : LockSurfaces \cup {NONE},
   relinked : SUBSET LockSurfaces, raw : SUBSET LockSurfaces,
   overlaid : BOOLEAN, hung : BOOLEAN]

Init ==
  /\ locked = FALSE
  /\ hidden = FALSE
  /\ lock_curtain = {}
  /\ lk = [resource |-> "none", surface |-> NONE, view |-> NONE,
           is_toplevel |-> FALSE, toplevel |-> NONE, listener |-> NONE,
           relinked |-> {}, raw |-> {}, overlaid |-> FALSE, hung |-> FALSE]
  /\ layer = [t \in Toplevels |-> "none"]
  /\ shell_bound = FALSE
  /\ launcher = FALSE
  /\ locker_resource = NONE
  /\ peer = [pid |-> 0, start |-> UNREAD]
  /\ alive = {}
  /\ pid = [l \in Lockers |-> 0]
  /\ proc = [n \in Pids |-> NONE]
  /\ k = KeyboardInit
  /\ surfaces = {}
  /\ outputs = Outputs
  /\ saw = [shell |-> "none", locker |-> "none"]

Allocated == IF AllocMayFail THEN BOOLEAN ELSE {TRUE}

-----------------------------------------------------------------------------
(* The curtain: a black rectangle spanning the outputs. *)

Span(outs) == {o \in Outputs : \E a, b \in outs : a <= o /\ o <= b}

qdwin_install_lock_curtain_bad(l, curtain, outs, ok) ==
  IF l /\ ok THEN Span(outs) ELSE {}

\* The curtain after qdwin_install_lock_curtain in lock state l; ok: it could
\* be created.  Without a usable output the present one is kept.
qdwin_install_lock_curtain(l, curtain, outs, ok) ==
  IF ~l THEN {}
  ELSE IF outs = {} THEN curtain
  ELSE IF ok THEN Span(outs) ELSE {}

-----------------------------------------------------------------------------
(* Layers.  A view that enters a layer without position stays unmapped.    *)

qdwin_toplevel_move_to_layer(lay, t, to) ==
  [lay EXCEPT ![t] = IF to = "normal" /\ hidden THEN "unmapped" ELSE to]

qdwin_show_non_lock_layers_bad(lay) == lay

\* Positions come back, and every view left unmapped in such a layer is mapped.
qdwin_show_non_lock_layers(lay) ==
  [t \in Toplevels |-> IF lay[t] = "unmapped" THEN "normal" ELSE lay[t]]

-----------------------------------------------------------------------------
(* The promoted lock toplevel: the pointers (p) and the layers (lay). *)

qdwin_demote_lock_toplevel(p) ==
  IF p.toplevel # NONE /\ p.view = p.toplevel
  THEN [p EXCEPT !.view = NONE, !.surface = NONE, !.is_toplevel = FALSE,
                 !.toplevel = NONE]
  ELSE [p EXCEPT !.toplevel = NONE]

demoted_layer(p, lay) ==
  IF p.toplevel = NONE THEN lay
  ELSE qdwin_toplevel_move_to_layer(lay, p.toplevel, "held")

qdwin_toplevel_is_locker_ui(t) ==
  locker_resource # NONE /\ Owner[t] = locker_resource

\* Promotion of t, which is the locker's; another lock toplevel is demoted.
\* Listeners on a raw lock surface stay where they are.
qdwin_maybe_promote_lock_toplevel(p, t) ==
  [p EXCEPT !.toplevel = t, !.surface = t, !.view = t, !.is_toplevel = TRUE,
            !.overlaid = @ \/ p.listener # NONE]

promoted_layer(p, lay, t) ==
  qdwin_toplevel_move_to_layer(
    IF p.toplevel = t THEN lay ELSE demoted_layer(p, lay), t, "lock")

\* qdwin_handle_locker_set_locked promotes the locker's toplevels one after
\* the other; the last one of the list stays, the others end demoted.  The
\* list's order is abstracted to the choice of that last one.
LockerToplevels ==
  {t \in Toplevels : layer[t] # "none" /\ qdwin_toplevel_is_locker_ui(t)}

LastPromoted == IF LockerToplevels = {} THEN {NONE} ELSE LockerToplevels

-----------------------------------------------------------------------------
(* The raw lock surface and its teardown paths. *)

\* Both teardown callbacks drop the lock view and forget the surface: a raw
\* view is destroyed, a toplevel's view is only forgotten.
drop_lock_view(p) ==
  [p EXCEPT !.raw = IF p.is_toplevel THEN @ ELSE @ \ {p.view},
            !.view = NONE, !.is_toplevel = FALSE, !.surface = NONE]

\* wl_list_remove of both listeners; while no list is broken, that a toplevel
\* overlaid them no longer matters.
unlink_listeners(p) ==
  [p EXCEPT !.listener = NONE, !.overlaid = @ /\ p.relinked # {}]

qdwin_lock_surface_destroyed_cb(p) ==
  LET p1 == unlink_listeners(drop_lock_view(p))
  IN  IF locked THEN qdwin_demote_lock_toplevel(p1) ELSE p1

\* The listeners are unlinked only if there is a lock surface.
qdwin_lock_surface_resource_destroyed(p, reattach) ==
  LET p1 == [(IF p.surface # NONE THEN unlink_listeners(drop_lock_view(p))
                                  ELSE drop_lock_view(p))
               EXCEPT !.resource = "none"]
  IN  IF locked /\ ~reattach THEN qdwin_demote_lock_toplevel(p1) ELSE p1

\* Linking listeners that are still on a surface's signal lists breaks those
\* lists.  `ok' is whether weston_view_create succeeded.
attach_lock_surface(p, surf, role, reattach, ok) ==
  LET p1 == IF p.resource # "none"
            THEN qdwin_lock_surface_resource_destroyed(p, reattach) ELSE p
      p2 == [p1 EXCEPT !.is_toplevel = FALSE, !.toplevel = NONE,
                       !.view = NONE, !.surface = NONE, !.resource = "none"]
  IN  IF ~ok THEN p2
      ELSE [p2 EXCEPT !.resource = role, !.surface = surf, !.view = surf,
                      !.raw = @ \cup {surf}, !.listener = surf,
                      !.relinked = @ \cup ({p1.listener} \ {NONE})]

\* Layers and keyboard after an attach: the old handle's teardown demotes and
\* ends a locker grab; the new surface takes one only in a locked session.
attach_layer(reattach) ==
  IF lk.resource # "none" /\ locked /\ ~reattach
  THEN demoted_layer(lk, layer) ELSE layer

attach_grab(ok, grabs) ==
  LET k1 == IF lk.resource # "none" THEN overlay_grab_end_role(k, 2) ELSE k
  IN  IF ok /\ locked /\ grabs THEN qdwin_overlay_grab_start(k1, 2) ELSE k1

-----------------------------------------------------------------------------
(* Requests of the shell (qdwin_shell_v1). *)

qdwin_handle_bind_as_shell ==
  /\ ~shell_bound
  /\ shell_bound' = TRUE
  /\ saw' = [saw EXCEPT !.shell = "none"]
  /\ UNCHANGED <<lockVars, viewVars, launcher, lockerVars,
                 k, surfaces, outputs>>

qdwin_shell_resource_destroy ==
  /\ shell_bound
  /\ shell_bound' = FALSE
  /\ saw' = [saw EXCEPT !.shell = "none"]
  /\ UNCHANGED <<lockVars, viewVars, launcher, lockerVars,
                 k, surfaces, outputs>>

qdwin_handle_attach_lock_surface(surf, ok) ==
  /\ shell_bound
  /\ surf \in surfaces
  /\ lk' = attach_lock_surface(lk, surf, "shell", FALSE, ok)
  /\ layer' = attach_layer(FALSE)
  /\ k' = attach_grab(ok, ShellVersion >= 17)
  /\ UNCHANGED <<lockVars, clientVars, surfaces, outputs, saw>>

qdwin_handle_set_locked(ok) ==
  /\ shell_bound
  /\ \/ /\ ~locked
        /\ lk.surface # NONE
        /\ locked' = TRUE
        /\ hidden' = TRUE
        /\ k' = IF ShellVersion >= 17 THEN qdwin_overlay_grab_start(k, 2) ELSE k
        /\ UNCHANGED layer
     \/ /\ locked
        /\ locked' = FALSE
        /\ hidden' = FALSE
        /\ k' = overlay_grab_end_role(k, 2)
        /\ layer' = qdwin_show_non_lock_layers(layer)
  /\ lock_curtain' = qdwin_install_lock_curtain(locked', lock_curtain, outputs, ok)
  /\ saw' = [saw EXCEPT !.shell = NewsOf(locked')]
  /\ UNCHANGED <<lk, clientVars, surfaces, outputs>>

qdwin_handle_attach_launcher ==
  /\ shell_bound
  /\ ~launcher
  /\ launcher' = TRUE
  /\ k' = IF ShellVersion >= 17 THEN qdwin_overlay_grab_start(k, 0) ELSE k
  /\ UNCHANGED <<lockVars, viewVars, shell_bound, lockerVars,
                 surfaces, outputs, saw>>

qdwin_launcher_resource_destroyed ==
  /\ launcher
  /\ launcher' = FALSE
  /\ k' = overlay_grab_end_role(k, 0)
  /\ UNCHANGED <<lockVars, viewVars, shell_bound, lockerVars,
                 surfaces, outputs, saw>>

-----------------------------------------------------------------------------
(* The locker process and its requests (qdwin_locker_v1). *)

\* Processes start (systemd Restart=always) and end; the number of one that has
\* ended is taken until it is reaped, and free for any process after that.
LockerStarts(l, n) ==
  /\ pid[l] = 0
  /\ proc[n] = NONE
  /\ \A t \in Toplevels : Owner[t] = l => layer[t] = "none"
  /\ alive' = alive \cup {l}
  /\ pid' = [pid EXCEPT ![l] = n]
  /\ proc' = [proc EXCEPT ![n] = l]
  /\ UNCHANGED <<lockVars, viewVars, shell_bound, launcher, locker_resource, peer,
                 k, surfaces, outputs, saw>>

LockerDies(l) ==
  /\ l \in alive
  /\ alive' = alive \ {l}
  /\ UNCHANGED <<lockVars, viewVars, shell_bound, launcher, locker_resource, peer,
                 pid, proc, k, surfaces, outputs, saw>>

ProcStep(n, who) ==
  /\ proc' = [proc EXCEPT ![n] = who]
  /\ UNCHANGED <<lockVars, viewVars, shell_bound, launcher, locker_resource, peer,
                 alive, pid, k, surfaces, outputs, saw>>

Reaped(n) == proc[n] \in Lockers \ alive /\ ProcStep(n, NONE)

StrangerStarts(n) ==
  \E who \in Strangers :
    /\ proc[n] = NONE
    /\ \A m \in Pids : proc[m] # who
    /\ ProcStep(n, who)

StrangerEnds(n) == proc[n] \in Strangers /\ ProcStep(n, NONE)

\* qdwin notices that the connection of a dead process, which has no binding
\* (any more), is closed.
ConnectionCloses(l) ==
  /\ pid[l] # 0
  /\ l \notin alive
  /\ locker_resource # l
  /\ pid' = [pid EXCEPT ![l] = 0]
  /\ UNCHANGED <<lockVars, viewVars, shell_bound, launcher, locker_resource, peer,
                 alive, proc, k, surfaces, outputs, saw>>

\* The start times a reading of /proc/<n>/stat can give: of who has the number
\* (a process is its own start time), or none, as any reading may fail.
qdwin_proc_starttime(n) ==
  {UNREAD} \cup (IF n \in Pids THEN {proc[n]} \ {NONE} ELSE {})

qdwin_locker_peer_alive_bad(now) ==
  /\ peer.pid \in Pids
  /\ proc[peer.pid] # NONE
  /\ peer.start # UNREAD => now = peer.start

\* now: the start time read for the remembered number.  The peer is gone if no
\* process has the number, or one that started at another time; what cannot be
\* read proves nothing.
qdwin_locker_peer_alive(now) ==
  /\ peer.pid \in Pids
  /\ proc[peer.pid] # NONE
  /\ peer.start # UNREAD /\ now # UNREAD => now = peer.start

\* The binding's end forgets the peer; if the process is dead, this is the end
\* of its connection.
qdwin_locker_resource_destroy ==
  /\ locker_resource # NONE
  /\ lk' = qdwin_demote_lock_toplevel(lk)
  /\ layer' = demoted_layer(lk, layer)
  /\ locker_resource' = NONE
  /\ peer' = [pid |-> 0, start |-> UNREAD]
  /\ pid' = IF locker_resource \in alive THEN pid
            ELSE [pid EXCEPT ![locker_resource] = 0]
  /\ k' = overlay_grab_end_role(k, 2)
  /\ saw' = [saw EXCEPT !.locker = "none"]
  /\ UNCHANGED <<lockVars, shell_bound, launcher, alive, proc, surfaces, outputs>>

qdwin_handle_bind_as_locker_bad(l, now, start) ==
  /\ pid[l] # 0
  /\ locker_resource = NONE
  /\ locker_resource' = l
  /\ peer' = [pid |-> pid[l], start |-> start]
  /\ saw' = [saw EXCEPT !.locker = NewsOf(locked)]
  /\ UNCHANGED <<lockVars, viewVars, k, shell_bound, launcher, procVars, surfaces,
                 outputs>>

\* The request is handled in its turn, and its sender may be dead by then.  A
\* stale binding is destroyed first; a session already locked re-arms the
\* keyboard for the fresh locker.
qdwin_handle_bind_as_locker(l, now, start) ==
  /\ pid[l] # 0
  /\ locker_resource # l
  /\ locker_resource # NONE => ~qdwin_locker_peer_alive(now)
  /\ LET stale == locker_resource # NONE
         k1 == IF stale THEN overlay_grab_end_role(k, 2) ELSE k
     IN  /\ lk' = IF stale THEN qdwin_demote_lock_toplevel(lk) ELSE lk
         /\ layer' = IF stale THEN demoted_layer(lk, layer) ELSE layer
         /\ k' = IF locked THEN qdwin_overlay_grab_start(k1, 2) ELSE k1
  /\ locker_resource' = l
  /\ peer' = [pid |-> pid[l], start |-> start]
  /\ saw' = [saw EXCEPT !.locker = NewsOf(locked)]
  /\ UNCHANGED <<lockVars, shell_bound, launcher, procVars, surfaces, outputs>>

qdwin_handle_locker_attach_lock_surface(surf, ok) ==
  /\ locker_resource # NONE
  /\ surf \in surfaces
  /\ lk' = attach_lock_surface(lk, surf, "locker", TRUE, ok)
  /\ layer' = attach_layer(TRUE)
  /\ k' = attach_grab(ok, TRUE)
  /\ UNCHANGED <<lockVars, clientVars, surfaces, outputs, saw>>

locked_changed_fan_out_bad(l) == [saw EXCEPT !.locker = NewsOf(l)]

\* Both protocols are told of a transition the locker drove.
locked_changed_fan_out(l) ==
  [shell |-> IF shell_bound THEN NewsOf(l) ELSE saw.shell, locker |-> NewsOf(l)]

\* last: the locker's toplevel that ends up promoted, NONE if it has none.
qdwin_handle_locker_set_locked(last, ok) ==
  /\ locker_resource # NONE
  /\ \/ /\ ~locked
        /\ locked' = TRUE
        /\ hidden' = TRUE
        /\ lk' = IF last = NONE THEN lk
                 ELSE qdwin_maybe_promote_lock_toplevel(lk, last)
        /\ layer' = IF last = NONE THEN layer
                    ELSE [t \in Toplevels |->
                           IF t = last THEN "lock"
                           ELSE IF t \in LockerToplevels \cup {lk.toplevel}
                           THEN "held" ELSE layer[t]]
        /\ k' = qdwin_overlay_grab_start(k, 2)
     \/ /\ locked
        /\ locked' = FALSE
        /\ hidden' = FALSE
        /\ lk' = qdwin_demote_lock_toplevel(lk)
        /\ layer' = qdwin_show_non_lock_layers(demoted_layer(lk, layer))
        /\ k' = overlay_grab_end_role(k, 2)
  /\ lock_curtain' = qdwin_install_lock_curtain(locked', lock_curtain, outputs, ok)
  /\ saw' = locked_changed_fan_out(locked')
  /\ UNCHANGED <<clientVars, surfaces, outputs>>

-----------------------------------------------------------------------------
(* Objects that come and go.                                               *)

SurfaceCreated(surf) ==
  /\ surf \notin surfaces
  /\ surfaces' = surfaces \cup {surf}
  /\ UNCHANGED <<lockVars, viewVars, clientVars, k, outputs, saw>>

\* weston_surface_destroy: the destroy listener runs if it is linked to this
\* surface, and the surface's views go.
SurfaceDestroyed(surf, ok) ==
  /\ surf \in surfaces \ lk.relinked   \* else EmitBroken
  /\ surfaces' = surfaces \ {surf}
  /\ LET p == IF lk.listener = surf
              THEN qdwin_lock_surface_destroyed_cb(lk) ELSE lk
     IN  lk' = [p EXCEPT !.raw = @ \ {surf}]
  /\ IF lk.listener = surf /\ locked
     THEN /\ layer' = demoted_layer(lk, layer)
          /\ lock_curtain' =
               qdwin_install_lock_curtain(locked, lock_curtain, outputs, ok)
     ELSE UNCHANGED <<layer, lock_curtain>>
  /\ k' = IF lk.listener = surf THEN overlay_grab_end_role(k, 2) ELSE k
  /\ UNCHANGED <<locked, hidden, clientVars, outputs, saw>>

\* A commit or the destruction of a surface whose signal lists are broken: the
\* emission walks in circles or off into another surface's list (undefined; it
\* is taken not to come back), and qdwin serves nobody any more.
EmitBroken(surf) ==
  /\ surf \in surfaces \cap lk.relinked
  /\ lk' = [lk EXCEPT !.hung = TRUE]
  /\ UNCHANGED <<lockVars, layer, clientVars, k, surfaces, outputs, saw>>

LockResourceDestroyed_bad ==
  /\ lk.resource # "none"
  /\ lk' = qdwin_lock_surface_resource_destroyed(lk, FALSE)
  /\ locked' = FALSE /\ hidden' = FALSE /\ lock_curtain' = {}
  /\ layer' = qdwin_show_non_lock_layers(layer)
  /\ k' = overlay_grab_end_role(k, 2)
  /\ UNCHANGED <<clientVars, surfaces, outputs, saw>>

\* The client destroys its lock-surface handle, or disconnects.
LockResourceDestroyed ==
  /\ lk.resource # "none"
  /\ lk' = qdwin_lock_surface_resource_destroyed(lk, FALSE)
  /\ layer' = IF locked THEN demoted_layer(lk, layer) ELSE layer
  /\ k' = overlay_grab_end_role(k, 2)
  /\ UNCHANGED <<lockVars, clientVars, surfaces, outputs, saw>>

qdwin_surface_added(t) ==
  /\ layer[t] = "none"
  /\ Owner[t] \in Lockers => Owner[t] \in alive
  /\ IF qdwin_toplevel_is_locker_ui(t)
     THEN /\ lk' = qdwin_maybe_promote_lock_toplevel(lk, t)
          /\ layer' = promoted_layer(lk, layer, t)
     ELSE /\ layer' = qdwin_toplevel_move_to_layer(layer, t, "normal")
          /\ UNCHANGED lk
  /\ UNCHANGED <<lockVars, clientVars, k, surfaces, outputs, saw>>

qdwin_surface_removed_bad(t) ==
  /\ layer[t] # "none"
  /\ layer' = [layer EXCEPT ![t] = "none"]
  /\ UNCHANGED <<lockVars, lk, clientVars, k, surfaces, outputs, saw>>

qdwin_surface_removed(t) ==
  /\ layer[t] # "none"
  /\ layer' = [layer EXCEPT ![t] = "none"]
  /\ lk' = IF lk.toplevel # t THEN lk ELSE qdwin_demote_lock_toplevel(lk)
  /\ UNCHANGED <<lockVars, clientVars, k, surfaces, outputs, saw>>

-----------------------------------------------------------------------------
(* The keyboard: devices, bindings, and the grabs of other components. *)

KeyboardStep(next) ==
  /\ k' = next
  /\ UNCHANGED <<lockVars, viewVars, clientVars, surfaces, outputs, saw>>

KeyboardPlugged == ~k.plugged /\ KeyboardStep([k EXCEPT !.plugged = TRUE])

KeyboardUnplugged == k.plugged /\ KeyboardStep(weston_seat_release_keyboard(k))

notify_keyboard_focus_out ==
  k.plugged /\ KeyboardStep(weston_keyboard_cancel_grab(k))

qdwin_on_switcher_key ==
  /\ k.plugged
  /\ k.grab = "default"
  /\ LET k1 == IF shell_bound THEN qdwin_switcher_grab_start(k) ELSE k
     IN  KeyboardStep(weston_compositor_run_key_binding(k1))

\* A key other than Tab (only with a shell bound), or Alt released.
SwitcherEnds ==
  /\ k.plugged
  /\ k.grab = "switcher"
  /\ KeyboardStep(qdwin_switcher_grab_end(k))

\* Launcher key, lock key, registered hotkeys: events to a client only.
OtherBindingKey ==
  /\ k.plugged
  /\ k.grab = "default"
  /\ KeyboardStep(weston_compositor_run_key_binding(k))

BindingKeyReleased ==
  /\ k.plugged
  /\ k.grab = "binding"
  /\ KeyboardStep(weston_keyboard_end_grab(k))

PopupGrabStarts ==
  /\ k.plugged
  /\ k.grab # "popup"
  /\ KeyboardStep(weston_keyboard_start_grab(k, "popup"))

PopupGrabEnds ==
  /\ k.grab = "popup"
  /\ KeyboardStep(weston_desktop_seat_popup_grab_end(k))

ImGrabs == KeyboardStep(qdwin_im_req_grab_keyboard(k))

ImReleases == k.im # "none" /\ KeyboardStep(qdwin_im_grab_resource_destroy(k))

-----------------------------------------------------------------------------
(* Outputs. *)

\* output created: background, panels and scale follow, the curtain does not.
qdwin_on_output_changed(o) ==
  /\ o \notin outputs
  /\ outputs' = outputs \cup {o}
  /\ UNCHANGED <<lockVars, viewVars, clientVars, k, surfaces, saw>>

qdwin_output_boundary_transition(o, ok) ==
  /\ o \in outputs
  /\ outputs' = outputs \ {o}
  /\ lock_curtain' = IF outputs' # {} /\ locked
                     THEN qdwin_install_lock_curtain(locked, lock_curtain, outputs', ok)
                     ELSE lock_curtain
  /\ k' = boundary_cancel_keyboard(k)
  /\ UNCHANGED <<locked, hidden, viewVars, clientVars, surfaces, saw>>

\* An output-management apply changes geometry and resizes the curtain.
qdwin_om_apply(ok) ==
  /\ locked
  /\ lock_curtain' = qdwin_install_lock_curtain(locked, lock_curtain, outputs, ok)
  /\ UNCHANGED <<locked, hidden, viewVars, clientVars, k, surfaces, outputs, saw>>

-----------------------------------------------------------------------------
ShellNext ==
  \/ qdwin_handle_bind_as_shell
  \/ qdwin_shell_resource_destroy
  \/ \E surf \in LockSurfaces, ok \in Allocated :
       qdwin_handle_attach_lock_surface(surf, ok)
  \/ \E ok \in Allocated : qdwin_handle_set_locked(ok)
  \/ qdwin_handle_attach_launcher
  \/ qdwin_launcher_resource_destroyed

LockerBinds ==
  \E l \in Lockers, now \in qdwin_proc_starttime(peer.pid) :
    \E start \in qdwin_proc_starttime(pid[l]) :
      qdwin_handle_bind_as_locker(l, now, start)

LockerNext ==
  \/ \E l \in Lockers, n \in Pids : LockerStarts(l, n)
  \/ \E l \in Lockers : LockerDies(l) \/ ConnectionCloses(l)
  \/ \E n \in Pids : Reaped(n) \/ StrangerStarts(n) \/ StrangerEnds(n)
  \/ qdwin_locker_resource_destroy
  \/ LockerBinds
  \/ \E surf \in LockSurfaces, ok \in Allocated :
       qdwin_handle_locker_attach_lock_surface(surf, ok)
  \/ \E last \in LastPromoted, ok \in Allocated :
       qdwin_handle_locker_set_locked(last, ok)

ObjectNext ==
  \/ \E surf \in LockSurfaces : SurfaceCreated(surf)
  \/ \E surf \in LockSurfaces, ok \in Allocated : SurfaceDestroyed(surf, ok)
  \/ \E surf \in LockSurfaces : EmitBroken(surf)
  \/ LockResourceDestroyed
  \/ \E t \in Toplevels : qdwin_surface_added(t) \/ qdwin_surface_removed(t)

KeyboardNext ==
  \/ KeyboardPlugged \/ KeyboardUnplugged \/ notify_keyboard_focus_out
  \/ qdwin_on_switcher_key \/ SwitcherEnds
  \/ OtherBindingKey \/ BindingKeyReleased
  \/ PopupGrabStarts \/ PopupGrabEnds
  \/ ImGrabs \/ ImReleases

OutputNext ==
  \/ \E o \in Outputs : qdwin_on_output_changed(o)
  \/ \E o \in Outputs, ok \in Allocated : qdwin_output_boundary_transition(o, ok)
  \/ \E ok \in Allocated : qdwin_om_apply(ok)

Hung == lk.hung /\ UNCHANGED vars

Next ==
  \/ ~lk.hung /\ (ShellNext \/ LockerNext \/ ObjectNext \/ KeyboardNext \/ OutputNext)
  \/ Hung

Spec == Init /\ [][Next]_vars

\* A locker that dies is reaped and restarted (systemd Restart=always) and binds,
\* and a closed connection is noticed.  A restart may be cut short by another
\* crash, so the two steps that crashes can disable are strongly fair.
LockerFairness ==
  /\ SF_vars(\E l \in Lockers, n \in Pids : LockerStarts(l, n))
  /\ SF_vars(LockerBinds)
  /\ WF_vars(\E n \in Pids : Reaped(n))
  /\ \A l \in Lockers : WF_vars(ConnectionCloses(l))
  /\ WF_vars(qdwin_locker_resource_destroy /\ locker_resource \notin alive)

-----------------------------------------------------------------------------
(* Properties. *)

TypeOK ==
  /\ locked \in BOOLEAN /\ hidden \in BOOLEAN
  /\ lock_curtain \subseteq Outputs
  /\ lk \in LockPointers
  /\ layer \in [Toplevels -> Layer]
  /\ shell_bound \in BOOLEAN /\ launcher \in BOOLEAN
  /\ locker_resource \in Lockers \cup {NONE}
  /\ peer \in [pid : Pids \cup {0}, start : Lockers \cup Strangers \cup {UNREAD}]
  /\ alive \subseteq Lockers
  /\ pid \in [Lockers -> Pids \cup {0}]
  /\ proc \in [Pids -> Lockers \cup Strangers \cup {NONE}]
  /\ k \in Keyboard
  /\ surfaces \subseteq LockSurfaces
  /\ outputs \subseteq Outputs
  /\ saw \in [shell : News, locker : News]

\* A locker-role overlay grab exists only while the session is locked, so no
\* unlock, attach or teardown order leaves the locker capturing the keyboard
\* of an unlocked session while qdwin knows of the grab (set_locked, B4).
LockerGrabOnlyWhileLocked == k.ov_active /\ k.ov_role = 2 => locked

\* The lock's pointers never dangle: what lock_view, lock_surface,
\* lock_toplevel and the commit/destroy listeners point to still exists,
\* whichever of handle, surface, toplevel and client is destroyed first.
Live(v) == v \in surfaces \/ (v \in Toplevels /\ layer[v] # "none")
LockPointersLive ==
  /\ \A v \in {lk.view, lk.surface, lk.toplevel, lk.listener} :
       v # NONE => Live(v)
  /\ lk.is_toplevel => lk.view \in Toplevels
  /\ lk.view \in LockSurfaces => lk.view \in lk.raw

\* A lock surface's listeners are linked a second time, which breaks its signal
\* lists and hangs the next emission, in one way only: a toplevel was promoted
\* while they were linked.  Its demotion clears lock_surface, so that the next
\* teardown does not unlink them (qdwin.c:7719) and the next attach links them
\* again (7941, 9932).  A locker that shows its UI one way only is safe from it.
LinkedOnce == lk.relinked # {} \/ lk.hung => lk.overlaid

\* The state of the lock is sound: of its type, no pointer of it dangles, and its
\* listeners are linked once unless a raw lock surface was overlaid by a toplevel
\* (qdwin_lock_surface_destroyed_cb, qdwin_lock_surface_resource_destroyed).
LockSound == TypeOK /\ LockPointersLive /\ LinkedOnce

\* After an unlock no window that was mapped during the lock is left unmapped
\* (qdwin_layer_remap_after_unlock, "the unlocked desktop is black").
DesktopComesBack == ~locked => \A t \in Toplevels : layer[t] # "unmapped"

\* A bound shell that has been told a lock state was told the current one,
\* whoever moved the lock (the fan-out in both set_locked handlers).
ShellInformed ==
  shell_bound /\ saw.shell # "none" => saw.shell = NewsOf(locked)

\* The locker role passes from one process to another only after the first
\* one died: whatever process has whose number by then, and whichever start times
\* could be read, a running locker is never evicted (qdwin_locker_peer_alive).
TakeoverOnlyOfDead ==
  [][/\ locker_resource # NONE
     /\ locker_resource' \notin {NONE, locker_resource}
     => locker_resource \notin alive]_vars

\* While the session stays locked the curtain is replaced, never dropped,
\* even when every output is transiently gone; it can only be lost to a failed
\* allocation (qdwin_install_lock_curtain).
CurtainHeldWhileLocked ==
  [][locked /\ locked' /\ lock_curtain # {} /\ ~AllocMayFail
     => lock_curtain' # {}]_vars

\* The lock keeps its promise: crashes, disconnects, takeovers and hotplug
\* never move it, and the desktop is hidden exactly while it is locked.
Bound == (IF shell_bound THEN {"shell"} ELSE {}) \cup ({locker_resource} \ {NONE})
Promise == INSTANCE LockPromise WITH
  Clients <- Lockers \cup {"shell"}, desktop_shown <- ~hidden, bound <- Bound
KeepsLockPromise == Promise!PromiseSpec

\* A session whose locker is gone while locked does not stay without one: a
\* fresh locker inherits the lock with the keyboard re-armed for it, or the
\* session is unlocked (qdwin_handle_bind_as_locker).  Checked without lock
\* surfaces, so that lk.hung stays FALSE.
InheritedLockIsTypable ==
  locked /\ locker_resource = NONE
    ~> ~locked \/ (locker_resource # NONE /\ k.ov_active /\ k.ov_role = 2)
=============================================================================
