-------------------------- MODULE QdwinLockProofs --------------------------
(***************************************************************************)
(* Proofs about the session lock, for any number of lockers, surfaces,     *)
(* windows and outputs, any shell version and with allocations failing.    *)
(*                                                                         *)
(* None of the invariants is inductive alone.  The layers are hidden iff   *)
(* the session is locked (needed for DesktopComesBack, where move_to_layer *)
(* looks at the layers and not at `locked'), and the pointers are safe     *)
(* because the views and the surface move together and a raw lock view has *)
(* the listeners linked to its own surface (PointersOK).  The listeners    *)
(* are linked once because they are where lock_surface says (LinksOK), and *)
(* a running locker is recognised by what was remembered of it (PeerOK).   *)
(***************************************************************************)
EXTENDS QdwinLock, TLAPS

\* The pointers p are consistent and point to objects of S or of layers lay.
PointersOK(p, lay, S) ==
  /\ p.raw \subseteq S
  /\ p.listener # NONE => p.listener \in S
  /\ p.surface = p.view
  /\ p.is_toplevel <=> p.view \in Toplevels
  /\ p.view \in Toplevels => p.toplevel = p.view
  /\ p.view \in LockSurfaces => p.listener = p.view /\ p.view \in p.raw
  /\ p.toplevel # NONE => lay[p.toplevel] # "none"

HiddenIffLocked == hidden = locked

LockInv ==
  /\ TypeOK
  /\ HiddenIffLocked
  /\ LockerGrabOnlyWhileLocked
  /\ DesktopComesBack
  /\ ShellInformed
  /\ PointersOK(lk, layer, surfaces)

-----------------------------------------------------------------------------
(* The keyboard. *)

LockerGrab(kk) == kk.ov_active /\ kk.ov_role = 2

\* Every keyboard operation keeps the type, and only qdwin_overlay_grab_start
\* with role 2 creates a locker grab.
LEMMA KeyboardOps ==
  ASSUME NEW kk \in Keyboard
  PROVE  /\ \A g \in GrabHolder :
              /\ weston_keyboard_start_grab(kk, g) \in Keyboard
              /\ LockerGrab(weston_keyboard_start_grab(kk, g)) => LockerGrab(kk)
         /\ weston_keyboard_end_grab(kk) \in Keyboard
         /\ LockerGrab(weston_keyboard_end_grab(kk)) => LockerGrab(kk)
         /\ \A r \in {0, 2} : qdwin_overlay_grab_start(kk, r) \in Keyboard
         /\ LockerGrab(qdwin_overlay_grab_start(kk, 0)) => LockerGrab(kk)
         /\ qdwin_overlay_grab_end(kk) \in Keyboard
         /\ LockerGrab(qdwin_overlay_grab_end(kk)) => LockerGrab(kk)
         /\ \A r \in {0, 2} : overlay_grab_end_role(kk, r) \in Keyboard
         /\ LockerGrab(overlay_grab_end_role(kk, 0)) => LockerGrab(kk)
         /\ ~LockerGrab(overlay_grab_end_role(kk, 2))
         /\ qdwin_switcher_grab_start(kk) \in Keyboard
         /\ LockerGrab(qdwin_switcher_grab_start(kk)) => LockerGrab(kk)
         /\ qdwin_switcher_grab_end(kk) \in Keyboard
         /\ LockerGrab(qdwin_switcher_grab_end(kk)) => LockerGrab(kk)
         /\ qdwin_im_grab_resource_destroy(kk) \in Keyboard
         /\ LockerGrab(qdwin_im_grab_resource_destroy(kk)) => LockerGrab(kk)
         /\ weston_desktop_seat_popup_grab_end(kk) \in Keyboard
         /\ LockerGrab(weston_desktop_seat_popup_grab_end(kk)) => LockerGrab(kk)
         /\ weston_compositor_run_key_binding(kk) \in Keyboard
         /\ LockerGrab(weston_compositor_run_key_binding(kk)) => LockerGrab(kk)
<1>1. /\ \A g \in GrabHolder :
           /\ weston_keyboard_start_grab(kk, g) \in Keyboard
           /\ LockerGrab(weston_keyboard_start_grab(kk, g)) => LockerGrab(kk)
      /\ weston_keyboard_end_grab(kk) \in Keyboard
      /\ LockerGrab(weston_keyboard_end_grab(kk)) => LockerGrab(kk)
  BY DEF Keyboard, GrabHolder, LockerGrab, weston_keyboard_start_grab,
         weston_keyboard_end_grab
<1>2. /\ \A r \in {0, 2} : qdwin_overlay_grab_start(kk, r) \in Keyboard
      /\ LockerGrab(qdwin_overlay_grab_start(kk, 0)) => LockerGrab(kk)
  <2>1. ASSUME NEW r \in {0, 2}
        PROVE  /\ qdwin_overlay_grab_start(kk, r) \in Keyboard
               /\ kk.plugged => qdwin_overlay_grab_start(kk, r).ov_role = r
    <3>1. CASE ~kk.plugged
      BY <3>1 DEF qdwin_overlay_grab_start
    <3>2. CASE kk.plugged /\ kk.ov_active
      BY <3>2 DEF qdwin_overlay_grab_start, Keyboard
    <3>3. CASE kk.plugged /\ ~kk.ov_active
      BY <3>3 DEF qdwin_overlay_grab_start, weston_keyboard_start_grab,
                  Keyboard, GrabHolder
    <3> QED BY <3>1, <3>2, <3>3
  <2>2. LockerGrab(qdwin_overlay_grab_start(kk, 0)) => LockerGrab(kk)
    BY <2>1 DEF LockerGrab, qdwin_overlay_grab_start
  <2> QED BY <2>1, <2>2
<1>3. /\ qdwin_overlay_grab_end(kk) \in Keyboard
      /\ LockerGrab(qdwin_overlay_grab_end(kk)) => LockerGrab(kk)
      /\ \A r \in {0, 2} : overlay_grab_end_role(kk, r) \in Keyboard
      /\ LockerGrab(overlay_grab_end_role(kk, 0)) => LockerGrab(kk)
      /\ ~LockerGrab(overlay_grab_end_role(kk, 2))
  BY ZenonT(60) DEF Keyboard, GrabHolder, LockerGrab, weston_keyboard_end_grab,
         qdwin_overlay_grab_end, overlay_grab_end_role
<1>4. /\ qdwin_switcher_grab_start(kk) \in Keyboard
      /\ LockerGrab(qdwin_switcher_grab_start(kk)) => LockerGrab(kk)
      /\ qdwin_switcher_grab_end(kk) \in Keyboard
      /\ LockerGrab(qdwin_switcher_grab_end(kk)) => LockerGrab(kk)
  BY ZenonT(60) DEF Keyboard, GrabHolder, LockerGrab, weston_keyboard_start_grab,
         weston_keyboard_end_grab, qdwin_switcher_grab_start,
         qdwin_switcher_grab_end
<1>5. /\ qdwin_im_grab_resource_destroy(kk) \in Keyboard
      /\ LockerGrab(qdwin_im_grab_resource_destroy(kk)) => LockerGrab(kk)
  BY DEF Keyboard, GrabHolder, LockerGrab, weston_keyboard_end_grab,
         qdwin_im_grab_resource_destroy
<1>6. /\ weston_desktop_seat_popup_grab_end(kk) \in Keyboard
      /\ LockerGrab(weston_desktop_seat_popup_grab_end(kk)) => LockerGrab(kk)
      /\ weston_compositor_run_key_binding(kk) \in Keyboard
      /\ LockerGrab(weston_compositor_run_key_binding(kk)) => LockerGrab(kk)
  BY DEF Keyboard, GrabHolder, LockerGrab, weston_keyboard_start_grab,
         weston_keyboard_end_grab, weston_desktop_seat_popup_grab_end,
         weston_compositor_run_key_binding
<1> QED BY <1>1, <1>2, <1>3, <1>4, <1>5, <1>6

\* The same for the operations built from those of KeyboardOps.
LEMMA KeyboardCancels ==
  ASSUME NEW kk \in Keyboard
  PROVE  /\ weston_keyboard_cancel_grab(kk) \in Keyboard
         /\ LockerGrab(weston_keyboard_cancel_grab(kk)) => LockerGrab(kk)
         /\ weston_seat_release_keyboard(kk) \in Keyboard
         /\ LockerGrab(weston_seat_release_keyboard(kk)) => LockerGrab(kk)
         /\ qdwin_im_req_grab_keyboard(kk) \in Keyboard
         /\ LockerGrab(qdwin_im_req_grab_keyboard(kk)) => LockerGrab(kk)
         /\ boundary_cancel_keyboard(kk) \in Keyboard
         /\ LockerGrab(boundary_cancel_keyboard(kk)) => LockerGrab(kk)
<1>1. ASSUME NEW m \in Keyboard
      PROVE  /\ weston_keyboard_cancel_grab(m) \in Keyboard
             /\ LockerGrab(weston_keyboard_cancel_grab(m)) => LockerGrab(m)
  <2>1. CASE m.grab \in {"popup", "binding", "default"}
    BY <2>1, KeyboardOps DEF weston_keyboard_cancel_grab
  <2>2. CASE m.grab \in {"overlay", "switcher", "im"}
    BY <2>2, ZenonT(60) DEF weston_keyboard_cancel_grab, Keyboard, GrabHolder, LockerGrab
  <2> QED BY <2>1, <2>2 DEF Keyboard, GrabHolder
<1>2. /\ weston_seat_release_keyboard(kk) \in Keyboard
      /\ LockerGrab(weston_seat_release_keyboard(kk)) => LockerGrab(kk)
  <2>1. /\ [kk EXCEPT !.plugged = FALSE] \in Keyboard
        /\ LockerGrab([kk EXCEPT !.plugged = FALSE]) => LockerGrab(kk)
    BY DEF Keyboard, LockerGrab
  <2> QED BY <2>1, <1>1 DEF weston_seat_release_keyboard
<1>3. /\ qdwin_im_req_grab_keyboard(kk) \in Keyboard
      /\ LockerGrab(qdwin_im_req_grab_keyboard(kk)) => LockerGrab(kk)
  <2> DEFINE k1 == qdwin_im_grab_resource_destroy(kk)
  <2>1. k1 \in Keyboard /\ (LockerGrab(k1) => LockerGrab(kk))
    BY KeyboardOps
  <2> HIDE DEF k1
  <2>2. /\ [weston_keyboard_start_grab(k1, "im") EXCEPT !.im = "held"] \in Keyboard
        /\ LockerGrab([weston_keyboard_start_grab(k1, "im") EXCEPT !.im = "held"])
             => LockerGrab(k1)
        /\ [k1 EXCEPT !.im = "idle"] \in Keyboard
        /\ LockerGrab([k1 EXCEPT !.im = "idle"]) => LockerGrab(k1)
    BY <2>1 DEF Keyboard, GrabHolder, LockerGrab, weston_keyboard_start_grab
  <2> QED BY <2>1, <2>2 DEF qdwin_im_req_grab_keyboard, k1
<1>4. /\ boundary_cancel_keyboard(kk) \in Keyboard
      /\ LockerGrab(boundary_cancel_keyboard(kk)) => LockerGrab(kk)
  <2> DEFINE k0 == qdwin_switcher_grab_end(kk)
             k1 == qdwin_overlay_grab_end(k0)
             k2 == IF k1.im = "none" THEN k1 ELSE qdwin_im_grab_resource_destroy(k1)
  <2>1. k0 \in Keyboard /\ (LockerGrab(k0) => LockerGrab(kk))
    BY KeyboardOps
  <2> HIDE DEF k0
  <2>2. k1 \in Keyboard /\ (LockerGrab(k1) => LockerGrab(kk))
    BY <2>1, KeyboardOps
  <2> HIDE DEF k1
  <2>3. k2 \in Keyboard /\ (LockerGrab(k2) => LockerGrab(kk))
    BY <2>2, KeyboardOps
  <2> HIDE DEF k2
  <2>4. /\ weston_keyboard_cancel_grab(k2) \in Keyboard
        /\ LockerGrab(weston_keyboard_cancel_grab(k2)) => LockerGrab(kk)
    BY <2>3, <1>1
  <2>5. /\ weston_keyboard_end_grab(weston_keyboard_cancel_grab(k2)) \in Keyboard
        /\ LockerGrab(weston_keyboard_end_grab(weston_keyboard_cancel_grab(k2)))
             => LockerGrab(kk)
    BY <2>4, KeyboardOps
  <2>6. boundary_cancel_keyboard(kk) =
          IF k2.plugged /\ k2.grab # "default"
          THEN weston_keyboard_end_grab(weston_keyboard_cancel_grab(k2)) ELSE k2
    BY DEF boundary_cancel_keyboard, k0, k1, k2
  <2> QED BY <2>3, <2>5, <2>6
<1> QED BY <1>1, <1>2, <1>3, <1>4

-----------------------------------------------------------------------------
(* Layers. *)

\* Layers lay2 have no view less than lay1, and none newly unmapped.
KeepsViews(lay1, lay2) ==
  \A t \in Toplevels : /\ lay2[t] = "none" => lay1[t] = "none"
                       /\ lay2[t] = "unmapped" => lay1[t] = "unmapped"

\* Promoting or demoting a lock toplevel moves views between layers and loses none
\* (qdwin_maybe_promote_lock_toplevel, qdwin_demote_lock_toplevel).
LEMMA LayerOps ==
  ASSUME NEW p \in LockPointers, NEW lay \in [Toplevels -> Layer]
  PROVE  /\ demoted_layer(p, lay) \in [Toplevels -> Layer]
         /\ KeepsViews(lay, demoted_layer(p, lay))
         /\ \A t \in Toplevels : promoted_layer(p, lay, t) \in [Toplevels -> Layer]
         /\ \A t \in Toplevels : KeepsViews(lay, promoted_layer(p, lay, t))
         /\ \A t \in Toplevels : promoted_layer(p, lay, t)[t] = "lock"
         /\ qdwin_show_non_lock_layers(lay) \in [Toplevels -> Layer]
         /\ KeepsViews(lay, qdwin_show_non_lock_layers(lay))
         /\ \A t \in Toplevels : qdwin_show_non_lock_layers(lay)[t] # "unmapped"
<1>1. /\ demoted_layer(p, lay) \in [Toplevels -> Layer]
      /\ KeepsViews(lay, demoted_layer(p, lay))
  BY DEF demoted_layer, qdwin_toplevel_move_to_layer, LockPointers, Layer, KeepsViews
<1>2. ASSUME NEW t \in Toplevels
      PROVE  /\ promoted_layer(p, lay, t) \in [Toplevels -> Layer]
             /\ KeepsViews(lay, promoted_layer(p, lay, t))
             /\ promoted_layer(p, lay, t)[t] = "lock"
  <2> DEFINE l == IF p.toplevel = t THEN lay ELSE demoted_layer(p, lay)
  <2>1. l \in [Toplevels -> Layer] /\ KeepsViews(lay, l)
    BY <1>1 DEF KeepsViews
  <2> HIDE DEF l
  <2>2. /\ qdwin_toplevel_move_to_layer(l, t, "lock") \in [Toplevels -> Layer]
        /\ KeepsViews(lay, qdwin_toplevel_move_to_layer(l, t, "lock"))
        /\ qdwin_toplevel_move_to_layer(l, t, "lock")[t] = "lock"
    BY <2>1 DEF qdwin_toplevel_move_to_layer, Layer, KeepsViews
  <2> QED BY <2>2 DEF promoted_layer, l
<1>3. /\ qdwin_show_non_lock_layers(lay) \in [Toplevels -> Layer]
      /\ KeepsViews(lay, qdwin_show_non_lock_layers(lay))
      /\ \A t \in Toplevels : qdwin_show_non_lock_layers(lay)[t] # "unmapped"
  BY DEF qdwin_show_non_lock_layers, Layer, KeepsViews
<1> QED BY <1>1, <1>2, <1>3

-----------------------------------------------------------------------------
(* Pointers. *)

\* Demotion forgets the toplevel, so the result is consistent in any layers.
LEMMA DemoteOK ==
  ASSUME NEW p \in LockPointers, NEW lay, NEW S, PointersOK(p, lay, S), NEW lay2
  PROVE  /\ qdwin_demote_lock_toplevel(p) \in LockPointers
         /\ PointersOK(qdwin_demote_lock_toplevel(p), lay2, S)
         /\ qdwin_demote_lock_toplevel(p).raw = p.raw
         /\ qdwin_demote_lock_toplevel(p).listener = p.listener
<1> USE LockConstants DEF Views
<1>1. CASE p.toplevel # NONE /\ p.view = p.toplevel
  BY <1>1, ZenonT(60) DEF qdwin_demote_lock_toplevel, LockPointers, PointersOK
<1>2. CASE ~(p.toplevel # NONE /\ p.view = p.toplevel)
  BY <1>2 DEF qdwin_demote_lock_toplevel, LockPointers, PointersOK
<1> QED BY <1>1, <1>2

\* A dropped lock view leaves nothing but the toplevel pointer.
LEMMA DropOK ==
  ASSUME NEW p \in LockPointers, NEW lay, NEW S, PointersOK(p, lay, S)
  PROVE  /\ drop_lock_view(p) \in LockPointers
         /\ PointersOK(drop_lock_view(p), lay, S)
         /\ drop_lock_view(p).view = NONE
         /\ drop_lock_view(p).raw \subseteq p.raw
         /\ drop_lock_view(p).toplevel = p.toplevel
<1> USE LockConstants DEF Views
<1>1. CASE p.is_toplevel
  BY <1>1, ZenonT(60) DEF drop_lock_view, LockPointers, PointersOK
<1>2. CASE ~p.is_toplevel
  BY <1>2, ZenonT(60) DEF drop_lock_view, LockPointers, PointersOK
<1> QED BY <1>1, <1>2

\* Unlinking the listeners touches no other pointer.
LEMMA UnlinkOK ==
  ASSUME NEW p \in LockPointers, NEW lay, NEW S, PointersOK(p, lay, S), p.view = NONE
  PROVE  /\ unlink_listeners(p) \in LockPointers
         /\ PointersOK(unlink_listeners(p), lay, S)
         /\ unlink_listeners(p).listener = NONE
         /\ unlink_listeners(p).view = NONE
<1>1. unlink_listeners(p) \in LockPointers
  BY ZenonT(60) DEF unlink_listeners, LockPointers
<1>2. PICK q : q = unlink_listeners(p)
  OBVIOUS
<1>3. /\ q.surface = p.surface /\ q.view = p.view /\ q.toplevel = p.toplevel
      /\ q.is_toplevel = p.is_toplevel /\ q.raw = p.raw /\ q.listener = NONE
  BY <1>2 DEF unlink_listeners, LockPointers
<1> QED BY <1>1, <1>2, <1>3, LockConstants DEF PointersOK, Views

\* The surface the listeners are linked to is destroyed: nothing points to it.
LEMMA DestroyedCbOK ==
  ASSUME NEW p \in LockPointers, NEW lay, NEW S, PointersOK(p, lay, S),
         NEW lay2, ~locked => lay2 = lay
  PROVE  /\ qdwin_lock_surface_destroyed_cb(p) \in LockPointers
         /\ PointersOK(qdwin_lock_surface_destroyed_cb(p), lay2, S)
         /\ qdwin_lock_surface_destroyed_cb(p).listener = NONE
<1> DEFINE d == drop_lock_view(p)
           p1 == unlink_listeners(d)
<1>1. d \in LockPointers /\ PointersOK(d, lay, S) /\ d.view = NONE
  BY DropOK
<1> HIDE DEF d
<1>2. p1 \in LockPointers /\ PointersOK(p1, lay, S) /\ p1.listener = NONE
  BY <1>1, UnlinkOK
<1>3. qdwin_lock_surface_destroyed_cb(p)
        = IF locked THEN qdwin_demote_lock_toplevel(p1) ELSE p1
  BY DEF qdwin_lock_surface_destroyed_cb, d
<1> HIDE DEF p1
<1>4. CASE locked
  BY <1>2, <1>3, <1>4, DemoteOK
<1>5. CASE ~locked
  BY <1>2, <1>3, <1>5
<1> QED BY <1>4, <1>5

\* The handle is destroyed.
LEMMA ResourceDestroyedOK ==
  ASSUME NEW p \in LockPointers, NEW lay, NEW S, PointersOK(p, lay, S),
         NEW reattach \in BOOLEAN, NEW lay2, ~locked \/ reattach => lay2 = lay
  PROVE  /\ qdwin_lock_surface_resource_destroyed(p, reattach) \in LockPointers
         /\ PointersOK(qdwin_lock_surface_resource_destroyed(p, reattach), lay2, S)
<1> DEFINE d == drop_lock_view(p)
           u == IF p.surface # NONE THEN unlink_listeners(d) ELSE d
           p1 == [u EXCEPT !.resource = "none"]
<1>1. d \in LockPointers /\ PointersOK(d, lay, S) /\ d.view = NONE
  BY DropOK
<1> HIDE DEF d
<1>2. p1 \in LockPointers /\ PointersOK(p1, lay, S)
  <2>1. u \in LockPointers /\ PointersOK(u, lay, S)
    BY <1>1, UnlinkOK
  <2> HIDE DEF u
  <2>2. p1 \in LockPointers
    BY <2>1 DEF LockPointers
  <2>3. /\ p1.surface = u.surface /\ p1.view = u.view /\ p1.toplevel = u.toplevel
        /\ p1.is_toplevel = u.is_toplevel /\ p1.raw = u.raw
        /\ p1.listener = u.listener
    BY <2>1 DEF LockPointers
  <2> HIDE DEF p1
  <2> QED BY <2>1, <2>2, <2>3 DEF PointersOK
<1>3. qdwin_lock_surface_resource_destroyed(p, reattach)
        = IF locked /\ ~reattach THEN qdwin_demote_lock_toplevel(p1) ELSE p1
  BY DEF qdwin_lock_surface_resource_destroyed, d
<1> HIDE DEF p1
<1>4. CASE locked /\ ~reattach
  BY <1>2, <1>3, <1>4, DemoteOK
<1>5. CASE ~(locked /\ ~reattach)
  BY <1>2, <1>3, <1>5
<1> QED BY <1>4, <1>5

\* A live surface is attached, or its view could not be created.
LEMMA AttachOK ==
  ASSUME NEW p \in LockPointers, NEW lay, NEW S, PointersOK(p, lay, S),
         NEW surf \in S, S \subseteq LockSurfaces,
         NEW role \in {"shell", "locker"}, NEW reattach \in BOOLEAN,
         NEW ok \in BOOLEAN, NEW lay2
  PROVE  /\ attach_lock_surface(p, surf, role, reattach, ok) \in LockPointers
         /\ PointersOK(attach_lock_surface(p, surf, role, reattach, ok), lay2, S)
<1> DEFINE p1 == IF p.resource # "none"
                 THEN qdwin_lock_surface_resource_destroyed(p, reattach) ELSE p
           p2 == [p1 EXCEPT !.is_toplevel = FALSE, !.toplevel = NONE,
                            !.view = NONE, !.surface = NONE, !.resource = "none"]
           p3 == [p2 EXCEPT !.resource = role, !.surface = surf, !.view = surf,
                            !.raw = @ \cup {surf}, !.listener = surf,
                            !.relinked = @ \cup ({p1.listener} \ {NONE})]
<1>1. p1 \in LockPointers /\ p1.raw \subseteq S
                          /\ (p1.listener # NONE => p1.listener \in S)
  <2>1. CASE p.resource # "none"
    <3>1. qdwin_lock_surface_resource_destroyed(p, reattach) \in LockPointers
          /\ PointersOK(qdwin_lock_surface_resource_destroyed(p, reattach), lay, S)
      BY ResourceDestroyedOK
    <3> QED BY <2>1, <3>1 DEF PointersOK
  <2>2. CASE p.resource = "none"
    BY <2>2 DEF PointersOK
  <2> QED BY <2>1, <2>2
<1>2. attach_lock_surface(p, surf, role, reattach, ok) = IF ok THEN p3 ELSE p2
  BY DEF attach_lock_surface
<1> HIDE DEF p1
<1>3. p2 \in LockPointers /\ PointersOK(p2, lay2, S)
  BY <1>1, LockConstants, ZenonT(60) DEF LockPointers, PointersOK, Views
<1>4. p2.raw = p1.raw /\ p2.toplevel = NONE /\ p2.is_toplevel = FALSE
  BY <1>1 DEF LockPointers
<1> HIDE DEF p2
<1>5. p3 \in LockPointers
  BY <1>1, <1>3, ZenonT(60) DEF LockPointers, Views
<1>6. /\ p3.raw = p1.raw \cup {surf} /\ p3.toplevel = NONE
      /\ p3.is_toplevel = FALSE
      /\ p3.surface = surf /\ p3.view = surf /\ p3.listener = surf
  BY <1>3, <1>4 DEF LockPointers
<1>7. PointersOK(p3, lay2, S)
  BY <1>1, <1>6, LockConstants DEF PointersOK
<1> HIDE DEF p3
<1> QED BY <1>2, <1>3, <1>5, <1>7

\* A mapped toplevel is promoted.
LEMMA PromoteOK ==
  ASSUME NEW p \in LockPointers, NEW lay, NEW S, PointersOK(p, lay, S),
         NEW t \in Toplevels, NEW lay2, lay2[t] # "none"
  PROVE  /\ qdwin_maybe_promote_lock_toplevel(p, t) \in LockPointers
         /\ PointersOK(qdwin_maybe_promote_lock_toplevel(p, t), lay2, S)
BY LockConstants, ZenonT(60)
DEF qdwin_maybe_promote_lock_toplevel, LockPointers, PointersOK, Views

-----------------------------------------------------------------------------
(* The inductive invariant. *)

\* The compositor starts unlocked, with no locker (qdwin_init).
LEMMA InitInv == Init => LockInv
<1> SUFFICES ASSUME Init PROVE LockInv
  OBVIOUS
<1>1. lk \in LockPointers /\ PointersOK(lk, layer, surfaces)
  BY LockConstants DEF Init, LockPointers, PointersOK, Views
<1>2. k \in Keyboard /\ LockerGrabOnlyWhileLocked
  BY DEF Init, KeyboardInit, Keyboard, GrabHolder, LockerGrabOnlyWhileLocked
<1>3. TypeOK
  BY <1>1, <1>2 DEF Init, TypeOK, Layer, News
<1> QED BY <1>1, <1>2, <1>3
        DEF Init, LockInv, HiddenIffLocked, DesktopComesBack, ShellInformed

\* What a step does to the keyboard when it does not lock or unlock.
LEMMA AttachGrabOK ==
  ASSUME k \in Keyboard, LockerGrab(k) => locked, NEW ok \in BOOLEAN,
         NEW grabs
  PROVE  attach_grab(ok, grabs) \in Keyboard
         /\ (LockerGrab(attach_grab(ok, grabs)) => locked)
<1> DEFINE k1 == IF lk.resource # "none" THEN overlay_grab_end_role(k, 2) ELSE k
<1>1. k1 \in Keyboard /\ (LockerGrab(k1) => locked)
  BY KeyboardOps
<1>2. attach_grab(ok, grabs) = IF ok /\ locked /\ grabs
                               THEN qdwin_overlay_grab_start(k1, 2) ELSE k1
  BY DEF attach_grab
<1> HIDE DEF k1
<1> QED BY <1>1, <1>2, KeyboardOps

\* Attaching the lock surface keeps every view in a layer (qdwin_handle_attach_lock_surface).
LEMMA AttachLayerOK ==
  ASSUME lk \in LockPointers, layer \in [Toplevels -> Layer], NEW r \in BOOLEAN
  PROVE  attach_layer(r) \in [Toplevels -> Layer]
         /\ KeepsViews(layer, attach_layer(r))
BY LayerOps DEF attach_layer, KeepsViews

\* The curtain only ever covers outputs (qdwin_install_lock_curtain).
LEMMA CurtainOK ==
  ASSUME NEW l \in BOOLEAN, NEW c \in SUBSET Outputs, NEW outs, NEW ok \in BOOLEAN
  PROVE  qdwin_install_lock_curtain(l, c, outs, ok) \subseteq Outputs
BY DEF qdwin_install_lock_curtain, Span

\* The steps of the shell keep the invariant.
LEMMA ShellStep ==
  LockInv /\ ShellNext => LockInv'
<1> SUFFICES ASSUME LockInv, ShellNext PROVE LockInv'
  OBVIOUS
<1> USE DEF LockInv
<1>ok. Allocated \subseteq BOOLEAN
  BY DEF Allocated
<1>g. LockerGrabOnlyWhileLocked <=> (LockerGrab(k) => locked)
  BY DEF LockerGrabOnlyWhileLocked, LockerGrab
<1>1. CASE qdwin_handle_bind_as_shell
  BY <1>1 DEF qdwin_handle_bind_as_shell, TypeOK, lockVars, viewVars, clientVars, lockerVars, procVars,
    HiddenIffLocked, LockerGrabOnlyWhileLocked, DesktopComesBack, ShellInformed,
    PointersOK, News
<1>2. CASE qdwin_shell_resource_destroy
  BY <1>2, ZenonT(60)
  DEF qdwin_shell_resource_destroy, TypeOK, lockVars, viewVars, clientVars, lockerVars, procVars,
    HiddenIffLocked, LockerGrabOnlyWhileLocked, DesktopComesBack, ShellInformed,
    PointersOK, News
<1>3. ASSUME NEW surf \in LockSurfaces, NEW ok \in Allocated,
             qdwin_handle_attach_lock_surface(surf, ok)
      PROVE  LockInv'
  <2>1. lk' \in LockPointers /\ PointersOK(lk', layer', surfaces)
    BY <1>3, <1>ok, AttachOK DEF qdwin_handle_attach_lock_surface, TypeOK
  <2>2. layer' \in [Toplevels -> Layer] /\ KeepsViews(layer, layer')
    BY <1>3, AttachLayerOK DEF qdwin_handle_attach_lock_surface, TypeOK
  <2>3. k' \in Keyboard /\ (LockerGrab(k') => locked)
    BY <1>3, <1>ok, <1>g, AttachGrabOK, LockConstants
    DEF qdwin_handle_attach_lock_surface, TypeOK
  <2>4. UNCHANGED <<lockVars, clientVars, surfaces, outputs, saw>>
    BY <1>3 DEF qdwin_handle_attach_lock_surface
  <2> QED
    BY <2>1, <2>2, <2>3, <2>4 DEF TypeOK, lockVars, clientVars, lockerVars, procVars, HiddenIffLocked,
      LockerGrab, LockerGrabOnlyWhileLocked, DesktopComesBack, ShellInformed, KeepsViews
<1>4. ASSUME NEW ok \in Allocated, qdwin_handle_set_locked(ok)
      PROVE  LockInv'
  <2>1. /\ locked' = ~locked /\ hidden' = locked'
        /\ lock_curtain' \subseteq Outputs
        /\ saw' = [saw EXCEPT !.shell = NewsOf(locked')]
        /\ UNCHANGED <<lk, clientVars, surfaces, outputs>>
    BY <1>4, <1>ok, CurtainOK DEF qdwin_handle_set_locked, TypeOK
  <2>2. k' \in Keyboard /\ (LockerGrab(k') => locked')
    BY <1>4, <1>g, KeyboardOps DEF qdwin_handle_set_locked, TypeOK
  <2>3. layer' \in [Toplevels -> Layer] /\ KeepsViews(layer, layer')
    BY <1>4, LayerOps DEF qdwin_handle_set_locked, TypeOK, KeepsViews
  <2>4. ~locked' => \A t \in Toplevels : layer'[t] # "unmapped"
    BY <1>4, LayerOps DEF qdwin_handle_set_locked, TypeOK
  <2>5. PointersOK(lk, layer', surfaces)
    BY <2>3 DEF PointersOK, KeepsViews, TypeOK, LockPointers
  <2>6. saw' \in [shell : News, locker : News] /\ saw'.shell = NewsOf(locked')
    BY <2>1 DEF TypeOK, News, NewsOf
  <2> QED
    BY <2>1, <2>2, <2>3, <2>4, <2>5, <2>6 DEF TypeOK, clientVars, lockerVars, procVars, HiddenIffLocked,
      LockerGrab, LockerGrabOnlyWhileLocked, DesktopComesBack, ShellInformed
<1>5. CASE qdwin_handle_attach_launcher \/ qdwin_launcher_resource_destroyed
  <2>1. k' \in Keyboard /\ (LockerGrab(k') => locked)
    BY <1>5, <1>g, KeyboardOps
    DEF qdwin_handle_attach_launcher, qdwin_launcher_resource_destroyed, TypeOK
  <2>2. /\ launcher' \in BOOLEAN
        /\ UNCHANGED <<lockVars, viewVars, shell_bound, lockerVars,
                       surfaces, outputs, saw>>
    BY <1>5 DEF qdwin_handle_attach_launcher, qdwin_launcher_resource_destroyed
  <2> QED
    BY <2>1, <2>2 DEF TypeOK, lockVars, viewVars, lockerVars, procVars,
      HiddenIffLocked, LockerGrab, LockerGrabOnlyWhileLocked, DesktopComesBack,
      ShellInformed, PointersOK
<1> QED BY <1>1, <1>2, <1>3, <1>4, <1>5 DEF ShellNext

\* The steps of the processes, as qdwin does not see them.
ProcessStep ==
  \/ \E l \in Lockers, n \in Pids : LockerStarts(l, n)
  \/ \E l \in Lockers : LockerDies(l) \/ ConnectionCloses(l)
  \/ \E n \in Pids : Reaped(n) \/ StrangerStarts(n) \/ StrangerEnds(n)

\* The steps of the locker keep the invariant.
LEMMA LockerStep ==
  LockInv /\ LockerNext => LockInv'
<1> SUFFICES ASSUME LockInv, LockerNext PROVE LockInv'
  OBVIOUS
<1> USE DEF LockInv
<1>ok. Allocated \subseteq BOOLEAN
  BY DEF Allocated
<1>g. LockerGrabOnlyWhileLocked <=> (LockerGrab(k) => locked)
  BY DEF LockerGrabOnlyWhileLocked, LockerGrab
<1>1. CASE ProcessStep
  <2>1. /\ alive' \subseteq Lockers
        /\ pid' \in [Lockers -> Pids \cup {0}]
        /\ proc' \in [Pids -> Lockers \cup Strangers \cup {NONE}]
        /\ UNCHANGED <<lockVars, viewVars, shell_bound, launcher, locker_resource,
                       peer, k, surfaces, outputs, saw>>
    BY <1>1 DEF ProcessStep, LockerStarts, LockerDies, ConnectionCloses, Reaped,
      StrangerStarts, StrangerEnds, ProcStep, TypeOK
  <2> QED
    BY <2>1 DEF TypeOK, lockVars, viewVars, HiddenIffLocked,
      LockerGrabOnlyWhileLocked, DesktopComesBack, ShellInformed, PointersOK
<1>2. CASE qdwin_locker_resource_destroy
  <2>1. lk' \in LockPointers /\ PointersOK(lk', layer', surfaces)
    BY <1>2, DemoteOK DEF qdwin_locker_resource_destroy, TypeOK
  <2>2. layer' \in [Toplevels -> Layer] /\ KeepsViews(layer, layer')
    BY <1>2, LayerOps DEF qdwin_locker_resource_destroy, TypeOK
  <2>3. k' \in Keyboard /\ ~LockerGrab(k')
    BY <1>2, KeyboardOps DEF qdwin_locker_resource_destroy, TypeOK
  <2>4. /\ locker_resource' = NONE
        /\ saw' \in [shell : News, locker : News] /\ saw'.shell = saw.shell
        /\ pid' \in [Lockers -> Pids \cup {0}]
        /\ peer' \in [pid : Pids \cup {0}, start : Lockers \cup Strangers \cup {UNREAD}]
        /\ UNCHANGED <<lockVars, shell_bound, launcher, alive, proc, surfaces, outputs>>
    BY <1>2 DEF qdwin_locker_resource_destroy, TypeOK, News
  <2> QED
    BY <2>1, <2>2, <2>3, <2>4 DEF TypeOK, lockVars, HiddenIffLocked, LockerGrab,
      LockerGrabOnlyWhileLocked, DesktopComesBack, ShellInformed, KeepsViews
<1>3. ASSUME NEW l \in Lockers, NEW now, NEW start \in qdwin_proc_starttime(pid[l]),
             qdwin_handle_bind_as_locker(l, now, start)
      PROVE  LockInv'
  <2>1. /\ lk' \in LockPointers /\ PointersOK(lk', layer', surfaces)
    BY <1>3, DemoteOK DEF qdwin_handle_bind_as_locker, TypeOK
  <2>2. layer' \in [Toplevels -> Layer] /\ KeepsViews(layer, layer')
    BY <1>3, LayerOps DEF qdwin_handle_bind_as_locker, TypeOK, KeepsViews
  <2>3. k' \in Keyboard /\ (LockerGrab(k') => locked)
    <3> DEFINE k1 == IF locker_resource # NONE THEN overlay_grab_end_role(k, 2) ELSE k
    <3>1. k1 \in Keyboard /\ (LockerGrab(k1) => locked)
      BY <1>g, KeyboardOps DEF TypeOK
    <3>2. k' = IF locked THEN qdwin_overlay_grab_start(k1, 2) ELSE k1
      BY <1>3 DEF qdwin_handle_bind_as_locker
    <3> HIDE DEF k1
    <3> QED BY <3>1, <3>2, KeyboardOps
  <2>4. /\ locker_resource' \in Lockers
        /\ saw' \in [shell : News, locker : News] /\ saw'.shell = saw.shell
        /\ UNCHANGED <<lockVars, shell_bound, launcher, procVars, surfaces, outputs>>
    BY <1>3 DEF qdwin_handle_bind_as_locker, TypeOK, News, NewsOf
  <2>5. peer' \in [pid : Pids \cup {0}, start : Lockers \cup Strangers \cup {UNREAD}]
    BY <1>3 DEF qdwin_handle_bind_as_locker, qdwin_proc_starttime, TypeOK
  <2> QED
    BY <2>1, <2>2, <2>3, <2>4, <2>5 DEF TypeOK, lockVars, procVars, HiddenIffLocked, LockerGrab,
      LockerGrabOnlyWhileLocked, DesktopComesBack, ShellInformed, KeepsViews
<1>4. ASSUME NEW surf \in LockSurfaces, NEW ok \in Allocated,
             qdwin_handle_locker_attach_lock_surface(surf, ok)
      PROVE  LockInv'
  <2>1. lk' \in LockPointers /\ PointersOK(lk', layer', surfaces)
    BY <1>4, <1>ok, AttachOK DEF qdwin_handle_locker_attach_lock_surface, TypeOK
  <2>2. layer' \in [Toplevels -> Layer] /\ KeepsViews(layer, layer')
    BY <1>4, AttachLayerOK DEF qdwin_handle_locker_attach_lock_surface, TypeOK
  <2>3. k' \in Keyboard /\ (LockerGrab(k') => locked)
    BY <1>4, <1>ok, <1>g, AttachGrabOK
    DEF qdwin_handle_locker_attach_lock_surface, TypeOK
  <2>4. UNCHANGED <<lockVars, clientVars, surfaces, outputs, saw>>
    BY <1>4 DEF qdwin_handle_locker_attach_lock_surface
  <2> QED
    BY <2>1, <2>2, <2>3, <2>4 DEF TypeOK, lockVars, clientVars, lockerVars, procVars, HiddenIffLocked,
      LockerGrab, LockerGrabOnlyWhileLocked, DesktopComesBack, ShellInformed, KeepsViews
<1>5. ASSUME NEW last \in LastPromoted, NEW ok \in Allocated,
             qdwin_handle_locker_set_locked(last, ok)
      PROVE  LockInv'
  <2>1. /\ locked' = ~locked /\ hidden' = locked'
        /\ lock_curtain' \subseteq Outputs
        /\ UNCHANGED <<clientVars, surfaces, outputs>>
    BY <1>5, <1>ok, CurtainOK, ZenonT(60) DEF qdwin_handle_locker_set_locked, TypeOK
  <2>2. k' \in Keyboard /\ (LockerGrab(k') => locked')
    BY <1>5, <1>g, KeyboardOps DEF qdwin_handle_locker_set_locked, TypeOK
  <2>3. /\ saw' \in [shell : News, locker : News]
        /\ shell_bound => saw'.shell = NewsOf(locked')
    BY <1>5, <2>1
    DEF qdwin_handle_locker_set_locked, locked_changed_fan_out, TypeOK, News, NewsOf
  <2>4. /\ lk' \in LockPointers /\ PointersOK(lk', layer', surfaces)
        /\ layer' \in [Toplevels -> Layer]
        /\ ~locked' => \A t \in Toplevels : layer'[t] # "unmapped"
    <3>1. CASE locked
      <4>1. /\ lk' = qdwin_demote_lock_toplevel(lk)
            /\ layer' = qdwin_show_non_lock_layers(demoted_layer(lk, layer))
        BY <1>5, <3>1 DEF qdwin_handle_locker_set_locked
      <4>2. demoted_layer(lk, layer) \in [Toplevels -> Layer]
        BY LayerOps DEF TypeOK
      <4> QED BY <4>1, <4>2, LayerOps, DemoteOK DEF TypeOK
    <3>2. CASE ~locked /\ last = NONE
      BY <1>5, <3>2 DEF qdwin_handle_locker_set_locked, TypeOK
    <3>3. CASE ~locked /\ last # NONE
      <4>1. last \in Toplevels
        BY <3>3 DEF LastPromoted, LockerToplevels
      <4>2. /\ lk' = qdwin_maybe_promote_lock_toplevel(lk, last)
            /\ layer' = [t \in Toplevels |->
                           IF t = last THEN "lock"
                           ELSE IF t \in LockerToplevels \cup {lk.toplevel}
                           THEN "held" ELSE layer[t]]
        BY <1>5, <3>3 DEF qdwin_handle_locker_set_locked
      <4>3. layer' \in [Toplevels -> Layer] /\ layer'[last] # "none"
        BY <4>1, <4>2 DEF TypeOK, Layer
      <4>4. lk' \in LockPointers /\ PointersOK(lk', layer', surfaces)
        BY <4>1, <4>2, <4>3, PromoteOK DEF TypeOK
      <4> QED BY <4>3, <4>4, <2>1, <3>3 DEF TypeOK
    <3> QED BY <3>1, <3>2, <3>3 DEF TypeOK
  <2> QED
    BY <2>1, <2>2, <2>3, <2>4 DEF TypeOK, clientVars, lockerVars, procVars, HiddenIffLocked, LockerGrab,
      LockerGrabOnlyWhileLocked, DesktopComesBack, ShellInformed
<1> QED BY <1>1, <1>2, <1>3, <1>4, <1>5 DEF LockerNext, LockerBinds, ProcessStep

\* The steps that create and destroy objects keep the invariant.
LEMMA ObjectStep ==
  LockInv /\ ObjectNext => LockInv'
<1> SUFFICES ASSUME LockInv, ObjectNext PROVE LockInv'
  OBVIOUS
<1> USE DEF LockInv
<1>ok. Allocated \subseteq BOOLEAN
  BY DEF Allocated
<1>g. LockerGrabOnlyWhileLocked <=> (LockerGrab(k) => locked)
  BY DEF LockerGrabOnlyWhileLocked, LockerGrab
<1>1. ASSUME NEW surf \in LockSurfaces, SurfaceCreated(surf)
      PROVE  LockInv'
  BY <1>1 DEF SurfaceCreated, TypeOK, lockVars, viewVars, clientVars, lockerVars, procVars,
    HiddenIffLocked, LockerGrabOnlyWhileLocked, DesktopComesBack, ShellInformed,
    PointersOK
<1>2. ASSUME NEW surf \in LockSurfaces, NEW ok \in Allocated,
             SurfaceDestroyed(surf, ok)
      PROVE  LockInv'
  <2> DEFINE p == IF lk.listener = surf
                  THEN qdwin_lock_surface_destroyed_cb(lk) ELSE lk
  <2>1. /\ layer' \in [Toplevels -> Layer] /\ KeepsViews(layer, layer')
        /\ ~locked \/ lk.listener # surf => layer' = layer
    BY <1>2, LayerOps DEF SurfaceDestroyed, TypeOK, KeepsViews
  <2>2. p \in LockPointers /\ PointersOK(p, layer', surfaces) /\ p.listener # surf
    BY <2>1, DestroyedCbOK, LockConstants DEF TypeOK, Views
  <2>3. lk' = [p EXCEPT !.raw = @ \ {surf}] /\ surfaces' = surfaces \ {surf}
    BY <1>2 DEF SurfaceDestroyed
  <2> HIDE DEF p
  <2>4. lk' \in LockPointers
    BY <2>2, <2>3 DEF LockPointers
  <2>5. /\ lk'.raw = p.raw \ {surf} /\ lk'.listener = p.listener
        /\ lk'.surface = p.surface /\ lk'.view = p.view
        /\ lk'.is_toplevel = p.is_toplevel /\ lk'.toplevel = p.toplevel
    BY <2>2, <2>3 DEF LockPointers
  <2>6. PointersOK(lk', layer', surfaces')
    BY <2>2, <2>3, <2>5 DEF PointersOK
  <2>7. k' \in Keyboard /\ (LockerGrab(k') => locked)
    BY <1>2, <1>g, KeyboardOps DEF SurfaceDestroyed, TypeOK
  <2>8. /\ lock_curtain' \subseteq Outputs /\ surfaces' \subseteq LockSurfaces
        /\ UNCHANGED <<locked, hidden, clientVars, outputs, saw>>
    BY <1>2, <1>ok, CurtainOK DEF SurfaceDestroyed, TypeOK
  <2> QED
    BY <2>1, <2>4, <2>6, <2>7, <2>8 DEF TypeOK, clientVars, lockerVars, procVars, HiddenIffLocked,
      LockerGrab, LockerGrabOnlyWhileLocked, DesktopComesBack, ShellInformed, KeepsViews
<1>3. CASE LockResourceDestroyed
  <2>1. /\ layer' \in [Toplevels -> Layer] /\ KeepsViews(layer, layer')
        /\ ~locked => layer' = layer
    BY <1>3, LayerOps DEF LockResourceDestroyed, TypeOK, KeepsViews
  <2>2. lk' \in LockPointers /\ PointersOK(lk', layer', surfaces)
    BY <1>3, <2>1, ResourceDestroyedOK, ZenonT(60) DEF LockResourceDestroyed, TypeOK
  <2>3. k' \in Keyboard /\ ~LockerGrab(k')
    BY <1>3, KeyboardOps DEF LockResourceDestroyed, TypeOK
  <2>4. UNCHANGED <<lockVars, clientVars, surfaces, outputs, saw>>
    BY <1>3 DEF LockResourceDestroyed
  <2> QED
    BY <2>1, <2>2, <2>3, <2>4 DEF TypeOK, lockVars, clientVars, lockerVars, procVars, HiddenIffLocked,
      LockerGrab, LockerGrabOnlyWhileLocked, DesktopComesBack, ShellInformed, KeepsViews
<1>4. ASSUME NEW t \in Toplevels, qdwin_surface_added(t)
      PROVE  LockInv'
  <2>1. UNCHANGED <<lockVars, clientVars, k, surfaces, outputs, saw>>
    BY <1>4 DEF qdwin_surface_added
  <2>2. /\ lk' \in LockPointers /\ PointersOK(lk', layer', surfaces)
        /\ layer' \in [Toplevels -> Layer] /\ DesktopComesBack'
    <3>1. CASE qdwin_toplevel_is_locker_ui(t)
      <4>1. /\ lk' = qdwin_maybe_promote_lock_toplevel(lk, t)
            /\ layer' = promoted_layer(lk, layer, t)
        BY <1>4, <3>1 DEF qdwin_surface_added
      <4>2. /\ layer' \in [Toplevels -> Layer] /\ KeepsViews(layer, layer')
            /\ layer'[t] # "none"
        BY <4>1, LayerOps DEF TypeOK
      <4> QED BY <2>1, <4>1, <4>2, PromoteOK
              DEF TypeOK, DesktopComesBack, KeepsViews, lockVars
    <3>2. CASE ~qdwin_toplevel_is_locker_ui(t)
      <4>1. lk' = lk /\ layer' = qdwin_toplevel_move_to_layer(layer, t, "normal")
        BY <1>4, <3>2 DEF qdwin_surface_added
      <4>2. /\ layer' \in [Toplevels -> Layer] /\ layer'[t] # "none"
            /\ \A u \in Toplevels \ {t} : layer'[u] = layer[u]
            /\ layer'[t] = "unmapped" => hidden
        BY <4>1 DEF qdwin_toplevel_move_to_layer, TypeOK, Layer
      <4> QED BY <2>1, <4>1, <4>2 DEF TypeOK, PointersOK, LockPointers,
                DesktopComesBack, HiddenIffLocked, lockVars
    <3> QED BY <3>1, <3>2
  <2> QED
    BY <2>1, <2>2 DEF TypeOK, lockVars, clientVars, lockerVars, procVars, HiddenIffLocked,
      LockerGrabOnlyWhileLocked, ShellInformed
<1>5. ASSUME NEW t \in Toplevels, qdwin_surface_removed(t)
      PROVE  LockInv'
  <2>1. /\ layer' = [layer EXCEPT ![t] = "none"]
        /\ lk' = IF lk.toplevel # t THEN lk ELSE qdwin_demote_lock_toplevel(lk)
        /\ UNCHANGED <<lockVars, clientVars, k, surfaces, outputs, saw>>
    BY <1>5 DEF qdwin_surface_removed
  <2>2. /\ layer' \in [Toplevels -> Layer]
        /\ \A u \in Toplevels \ {t} : layer'[u] = layer[u]
        /\ layer'[t] = "none"
    BY <2>1 DEF TypeOK, Layer
  <2>3. lk' \in LockPointers /\ PointersOK(lk', layer', surfaces)
    <3>1. CASE lk.toplevel = t
      BY <2>1, <3>1, DemoteOK DEF TypeOK
    <3>2. CASE lk.toplevel # t
      BY <2>1, <2>2, <3>2 DEF TypeOK, PointersOK, LockPointers
    <3> QED BY <3>1, <3>2
  <2> QED
    BY <2>1, <2>2, <2>3 DEF TypeOK, lockVars, clientVars, lockerVars, procVars, HiddenIffLocked,
      LockerGrabOnlyWhileLocked, DesktopComesBack, ShellInformed
<1>6. ASSUME NEW surf \in LockSurfaces, EmitBroken(surf)
      PROVE  LockInv'
  <2>1. /\ lk' = [lk EXCEPT !.hung = TRUE]
        /\ UNCHANGED <<lockVars, layer, clientVars, k, surfaces, outputs, saw>>
    BY <1>6 DEF EmitBroken
  <2>2. /\ lk' \in LockPointers
        /\ lk'.raw = lk.raw /\ lk'.listener = lk.listener
        /\ lk'.surface = lk.surface /\ lk'.view = lk.view
        /\ lk'.is_toplevel = lk.is_toplevel /\ lk'.toplevel = lk.toplevel
    BY <2>1 DEF TypeOK, LockPointers
  <2>3. PointersOK(lk', layer, surfaces)
    BY <2>2 DEF PointersOK
  <2> QED
    BY <2>1, <2>2, <2>3 DEF TypeOK, lockVars, clientVars, lockerVars, procVars,
      HiddenIffLocked, LockerGrabOnlyWhileLocked, DesktopComesBack, ShellInformed
<1> QED BY <1>1, <1>2, <1>3, <1>4, <1>5, <1>6 DEF ObjectNext

\* The steps of the keyboard and of the outputs keep the invariant.
LEMMA KeyboardOutputStep ==
  LockInv /\ (KeyboardNext \/ OutputNext) => LockInv'
<1> SUFFICES ASSUME LockInv, KeyboardNext \/ OutputNext PROVE LockInv'
  OBVIOUS
<1> USE DEF LockInv
<1>g. LockerGrabOnlyWhileLocked <=> (LockerGrab(k) => locked)
  BY DEF LockerGrabOnlyWhileLocked, LockerGrab
<1>1. ASSUME NEW next \in Keyboard, LockerGrab(next) => LockerGrab(k),
             KeyboardStep(next)
      PROVE  LockInv'
  <2>1. /\ k' = next
        /\ UNCHANGED <<lockVars, viewVars, clientVars, surfaces, outputs, saw>>
    BY <1>1 DEF KeyboardStep
  <2>2. TypeOK'
    BY <1>1, <2>1 DEF TypeOK, lockVars, viewVars, clientVars, lockerVars, procVars
  <2>3. LockerGrabOnlyWhileLocked'
    BY <1>1, <2>1, <1>g DEF LockerGrab, LockerGrabOnlyWhileLocked, lockVars
  <2>4. HiddenIffLocked' /\ DesktopComesBack' /\ ShellInformed'
    BY <2>1 DEF lockVars, viewVars, clientVars, lockerVars, procVars, HiddenIffLocked, DesktopComesBack, ShellInformed
  <2>5. PointersOK(lk, layer, surfaces)'
    BY <2>1 DEF viewVars, PointersOK
  <2> QED BY <2>2, <2>3, <2>4, <2>5
<1>2. CASE KeyboardNext
  <2>1. PICK next \in Keyboard : (LockerGrab(next) => LockerGrab(k)) /\ KeyboardStep(next)
    <3>1. CASE KeyboardPlugged
      <4>1. /\ [k EXCEPT !.plugged = TRUE] \in Keyboard
            /\ LockerGrab([k EXCEPT !.plugged = TRUE]) => LockerGrab(k)
        BY DEF TypeOK, Keyboard, LockerGrab
      <4> QED BY <3>1, <4>1 DEF KeyboardPlugged
    <3>2. CASE KeyboardUnplugged \/ notify_keyboard_focus_out \/ ImGrabs
      BY <3>2, KeyboardCancels
      DEF KeyboardUnplugged, notify_keyboard_focus_out, ImGrabs, TypeOK
    <3>3. CASE qdwin_on_switcher_key
      <4> DEFINE k1 == IF shell_bound THEN qdwin_switcher_grab_start(k) ELSE k
      <4>1. k1 \in Keyboard /\ (LockerGrab(k1) => LockerGrab(k))
        BY KeyboardOps DEF TypeOK
      <4>2. KeyboardStep(weston_compositor_run_key_binding(k1))
        BY <3>3 DEF qdwin_on_switcher_key
      <4> HIDE DEF k1
      <4> QED BY <4>1, <4>2, KeyboardOps
    <3>4. CASE \/ SwitcherEnds \/ OtherBindingKey \/ BindingKeyReleased
               \/ PopupGrabStarts \/ PopupGrabEnds \/ ImReleases
      BY <3>4, KeyboardOps
      DEF SwitcherEnds, OtherBindingKey, BindingKeyReleased, PopupGrabStarts,
          PopupGrabEnds, ImReleases, TypeOK, GrabHolder
    <3> QED BY <1>2, <3>1, <3>2, <3>3, <3>4 DEF KeyboardNext
  <2> QED BY <1>1, <2>1
<1>3. CASE OutputNext
  <2> DEFINE Goal ==
        /\ k' \in Keyboard /\ (LockerGrab(k') => LockerGrab(k))
        /\ lock_curtain' \subseteq Outputs /\ outputs' \subseteq Outputs
        /\ UNCHANGED <<locked, hidden, viewVars, clientVars, surfaces, saw>>
  <2>1. Goal
    <3>ok. Allocated \subseteq BOOLEAN
      BY DEF Allocated
    <3>1. ASSUME NEW o \in Outputs, qdwin_on_output_changed(o)
          PROVE  Goal
      BY <3>1 DEF qdwin_on_output_changed, TypeOK, lockVars
    <3>2. ASSUME NEW o \in Outputs, NEW ok \in Allocated,
                 qdwin_output_boundary_transition(o, ok)
          PROVE  Goal
      BY <3>2, <3>ok, KeyboardCancels, CurtainOK
      DEF qdwin_output_boundary_transition, TypeOK
    <3>3. ASSUME NEW ok \in Allocated, qdwin_om_apply(ok)
          PROVE  Goal
      BY <3>3, <3>ok, CurtainOK, ZenonT(60) DEF qdwin_om_apply, TypeOK
    <3> HIDE DEF Goal
    <3> QED BY <1>3, <3>1, <3>2, <3>3 DEF OutputNext
  <2>2. TypeOK'
    BY <2>1 DEF TypeOK, viewVars, clientVars, lockerVars, procVars
  <2>3. LockerGrabOnlyWhileLocked'
    BY <2>1, <1>g DEF LockerGrab, LockerGrabOnlyWhileLocked
  <2>4. HiddenIffLocked' /\ DesktopComesBack' /\ ShellInformed'
    BY <2>1 DEF viewVars, clientVars, lockerVars, procVars, HiddenIffLocked, DesktopComesBack, ShellInformed
  <2>5. PointersOK(lk, layer, surfaces)'
    BY <2>1 DEF viewVars, PointersOK
  <2> QED BY <2>2, <2>3, <2>4, <2>5
<1> QED BY <1>2, <1>3

\* Every step keeps the invariant.
LEMMA NextInv == LockInv /\ [Next]_vars => LockInv'
<1>1. ASSUME LockInv, UNCHANGED vars PROVE LockInv'
  <2>1. TypeOK'
    BY <1>1 DEF LockInv, vars, lockVars, viewVars, clientVars, lockerVars, procVars, TypeOK
  <2>2. HiddenIffLocked' /\ DesktopComesBack'
    BY <1>1 DEF LockInv, vars, lockVars, viewVars, clientVars, lockerVars, procVars, HiddenIffLocked, DesktopComesBack
  <2>3. LockerGrabOnlyWhileLocked' /\ ShellInformed'
    BY <1>1 DEF LockInv, vars, lockVars, viewVars, clientVars, lockerVars, procVars, LockerGrabOnlyWhileLocked,
                ShellInformed
  <2>4. PointersOK(lk, layer, surfaces)'
    BY <1>1 DEF LockInv, vars, lockVars, viewVars, clientVars, lockerVars, procVars, PointersOK
  <2> QED BY <2>1, <2>2, <2>3, <2>4 DEF LockInv
<1> QED BY <1>1, ShellStep, LockerStep, ObjectStep, KeyboardOutputStep DEF Next, Hung

\* The inductive invariant holds in every reachable state.
THEOREM SpecLockInv == Spec => []LockInv
BY InitInv, NextInv, PTL DEF Spec

-----------------------------------------------------------------------------
(* The listeners of the lock surface. *)

\* The listeners are linked where lock_surface says, as long as no toplevel was
\* promoted over them, and are then linked once.
LinksOK(p) ==
  /\ p.hung => p.relinked # {}
  /\ \/ p.overlaid
     \/ /\ p.relinked = {}
        /\ p.listener # NONE => p.resource # "none" /\ p.surface = p.listener

\* Demotion clears lock_surface only where it is the toplevel, so where a raw
\* surface is not overlaid the listeners stay in step with it.
LEMMA LinksDemote ==
  ASSUME NEW p \in LockPointers, NEW lay, NEW S, PointersOK(p, lay, S), LinksOK(p)
  PROVE  LinksOK(qdwin_demote_lock_toplevel(p))
<1> PICK q : q = qdwin_demote_lock_toplevel(p)
  OBVIOUS
<1>1. /\ q.hung = p.hung /\ q.relinked = p.relinked /\ q.overlaid = p.overlaid
      /\ q.listener = p.listener /\ q.resource = p.resource
      /\ q.surface = p.surface \/ (p.surface = p.toplevel /\ p.toplevel # NONE)
  BY DEF qdwin_demote_lock_toplevel, LockPointers, PointersOK
<1>2. p.listener # NONE /\ p.toplevel # NONE => p.listener # p.toplevel
  BY LockConstants DEF LockPointers
<1> QED BY <1>1, <1>2 DEF LinksOK

\* The listeners are unlinked, whatever was dropped before.
LEMMA LinksUnlink ==
  ASSUME NEW p \in LockPointers, LinksOK(p), NEW q \in LockPointers,
         q.hung = p.hung, q.relinked = p.relinked, q.overlaid = p.overlaid
  PROVE  LinksOK(unlink_listeners(q))
<1> PICK u : u = unlink_listeners(q)
  OBVIOUS
<1>1. /\ u.hung = q.hung /\ u.relinked = q.relinked /\ u.listener = NONE
      /\ u.overlaid = (q.overlaid /\ q.relinked # {})
  BY DEF unlink_listeners, LockPointers
<1> QED BY <1>1, ZenonT(60) DEF LinksOK

\* Dropping the lock view says nothing about links.
LEMMA LinksDrop ==
  ASSUME NEW p \in LockPointers, NEW q, q = drop_lock_view(p)
  PROVE  /\ q.hung = p.hung /\ q.relinked = p.relinked /\ q.overlaid = p.overlaid
         /\ q.listener = p.listener /\ q.resource = p.resource
BY DEF drop_lock_view, LockPointers

\* The surface's destroy callback leaves the listeners in order
\* (qdwin_lock_surface_destroyed_cb).
LEMMA LinksDestroyedCb ==
  ASSUME NEW p \in LockPointers, NEW lay, NEW S, PointersOK(p, lay, S), LinksOK(p)
  PROVE  LinksOK(qdwin_lock_surface_destroyed_cb(p))
<1> DEFINE d == drop_lock_view(p)
           u == unlink_listeners(d)
<1>1. d \in LockPointers /\ PointersOK(d, lay, S) /\ d.view = NONE
  BY DropOK
<1>2. LinksOK(u)
  BY <1>1, LinksDrop, LinksUnlink
<1>3. u \in LockPointers /\ PointersOK(u, lay, S)
  BY <1>1, UnlinkOK
<1>4. qdwin_lock_surface_destroyed_cb(p)
        = IF locked THEN qdwin_demote_lock_toplevel(u) ELSE u
  BY DEF qdwin_lock_surface_destroyed_cb
<1> HIDE DEF u
<1> QED BY <1>2, <1>3, <1>4, LinksDemote

\* So does the end of the handle, which unlinks them where there is a lock
\* surface: without one they are not linked, unless a toplevel overlaid them
\* (qdwin_lock_surface_resource_destroyed).
LEMMA LinksResourceDestroyed ==
  ASSUME NEW p \in LockPointers, NEW lay, NEW S, PointersOK(p, lay, S), LinksOK(p),
         NEW reattach \in BOOLEAN
  PROVE  /\ LinksOK(qdwin_lock_surface_resource_destroyed(p, reattach))
         /\ qdwin_lock_surface_resource_destroyed(p, reattach).resource = "none"
<1> DEFINE d == drop_lock_view(p)
           u == IF p.surface # NONE THEN unlink_listeners(d) ELSE d
           p1 == [u EXCEPT !.resource = "none"]
<1>1. d \in LockPointers /\ PointersOK(d, lay, S) /\ d.view = NONE
  BY DropOK
<1>2. /\ d.hung = p.hung /\ d.relinked = p.relinked /\ d.overlaid = p.overlaid
      /\ d.listener = p.listener
  BY LinksDrop
<1> HIDE DEF d
<1>3. /\ u \in LockPointers /\ PointersOK(u, lay, S) /\ LinksOK(u)
      /\ u.overlaid \/ u.listener = NONE
  <2>1. CASE p.surface # NONE
    BY <1>1, <1>2, <2>1, UnlinkOK, LinksUnlink
  <2>2. CASE p.surface = NONE
    BY <1>1, <1>2, <2>2 DEF LinksOK
  <2> QED BY <2>1, <2>2
<1> HIDE DEF u
<1>4. /\ p1 \in LockPointers
      /\ p1.surface = u.surface /\ p1.view = u.view /\ p1.toplevel = u.toplevel
      /\ p1.is_toplevel = u.is_toplevel /\ p1.raw = u.raw
      /\ p1.listener = u.listener /\ p1.resource = "none"
      /\ p1.hung = u.hung /\ p1.relinked = u.relinked /\ p1.overlaid = u.overlaid
  BY <1>3 DEF LockPointers
<1>5. qdwin_lock_surface_resource_destroyed(p, reattach)
        = IF locked /\ ~reattach THEN qdwin_demote_lock_toplevel(p1) ELSE p1
  BY DEF qdwin_lock_surface_resource_destroyed, d, u
<1> HIDE DEF p1
<1>6. PointersOK(p1, lay, S) /\ LinksOK(p1)
  BY <1>3, <1>4 DEF PointersOK, LinksOK
<1>7. LinksOK(qdwin_demote_lock_toplevel(p1))
  BY <1>4, <1>6, LinksDemote
<1>8. qdwin_demote_lock_toplevel(p1).resource = "none"
  BY <1>4 DEF qdwin_demote_lock_toplevel, LockPointers
<1> QED BY <1>4, <1>5, <1>6, <1>7, <1>8

\* An attach links listeners that are not linked, unless a toplevel overlaid them
\* (qdwin_handle_attach_lock_surface, qdwin_handle_locker_attach_lock_surface).
LEMMA LinksAttach ==
  ASSUME NEW p \in LockPointers, NEW lay, NEW S, PointersOK(p, lay, S), LinksOK(p),
         NEW surf \in LockSurfaces, NEW role \in {"shell", "locker"},
         NEW reattach \in BOOLEAN, NEW ok \in BOOLEAN
  PROVE  LinksOK(attach_lock_surface(p, surf, role, reattach, ok))
<1> DEFINE p1 == IF p.resource # "none"
                 THEN qdwin_lock_surface_resource_destroyed(p, reattach) ELSE p
           p2 == [p1 EXCEPT !.is_toplevel = FALSE, !.toplevel = NONE,
                            !.view = NONE, !.surface = NONE, !.resource = "none"]
           p3 == [p2 EXCEPT !.resource = role, !.surface = surf, !.view = surf,
                            !.raw = @ \cup {surf}, !.listener = surf,
                            !.relinked = @ \cup ({p1.listener} \ {NONE})]
<1>1. attach_lock_surface(p, surf, role, reattach, ok) = IF ok THEN p3 ELSE p2
  BY DEF attach_lock_surface
<1>2. p1 \in LockPointers /\ LinksOK(p1) /\ p1.resource = "none"
  <2>1. CASE p.resource # "none"
    BY <2>1, LinksResourceDestroyed, ResourceDestroyedOK
  <2>2. CASE p.resource = "none"
    BY <2>2
  <2> QED BY <2>1, <2>2
<1> HIDE DEF p1
<1>3. /\ p1.hung => p1.relinked # {}
      /\ p1.overlaid \/ (p1.relinked = {} /\ p1.listener = NONE)
  BY <1>2 DEF LinksOK
<1>4. /\ p2.hung = p1.hung /\ p2.relinked = p1.relinked /\ p2.overlaid = p1.overlaid
      /\ p2.listener = p1.listener
  BY <1>2 DEF LockPointers
<1>5. /\ p3.hung = p1.hung /\ p3.overlaid = p1.overlaid /\ p3.listener = surf
      /\ p3.relinked = p1.relinked \cup ({p1.listener} \ {NONE})
      /\ p3.surface = surf /\ p3.resource = role
  BY <1>2 DEF LockPointers
<1> HIDE DEF p2, p3
<1>6. LinksOK(p2)
  BY <1>3, <1>4 DEF LinksOK
<1>7. LinksOK(p3)
  BY <1>3, <1>5 DEF LinksOK
<1> QED BY <1>1, <1>6, <1>7

\* Promotion over linked listeners is what `overlaid' records
\* (qdwin_maybe_promote_lock_toplevel).
LEMMA LinksPromote ==
  ASSUME NEW p \in LockPointers, LinksOK(p), NEW t \in Toplevels
  PROVE  LinksOK(qdwin_maybe_promote_lock_toplevel(p, t))
<1> PICK q : q = qdwin_maybe_promote_lock_toplevel(p, t)
  OBVIOUS
<1>1. /\ q.hung = p.hung /\ q.relinked = p.relinked /\ q.listener = p.listener
      /\ q.overlaid = (p.overlaid \/ p.listener # NONE)
  BY DEF qdwin_maybe_promote_lock_toplevel, LockPointers
<1> QED BY <1>1 DEF LinksOK

\* Every step keeps the listeners in order.
LEMMA LinksNext == LockInv /\ LinksOK(lk) /\ [Next]_vars => LinksOK(lk)'
<1> SUFFICES ASSUME LockInv, LinksOK(lk), [Next]_vars PROVE LinksOK(lk')
  OBVIOUS
<1>0. /\ lk \in LockPointers /\ PointersOK(lk, layer, surfaces)
      /\ surfaces \subseteq LockSurfaces /\ Allocated \subseteq BOOLEAN
  BY DEF LockInv, TypeOK, Allocated
<1>1. CASE lk' = lk
  BY <1>1
<1>2. CASE lk' = qdwin_demote_lock_toplevel(lk)
  BY <1>0, <1>2, LinksDemote
<1>3. ASSUME NEW surf \in LockSurfaces, NEW ok \in BOOLEAN,
             \/ lk' = attach_lock_surface(lk, surf, "shell", FALSE, ok)
             \/ lk' = attach_lock_surface(lk, surf, "locker", TRUE, ok)
      PROVE  LinksOK(lk')
  BY <1>0, <1>3, LinksAttach
<1>4. ASSUME NEW t \in Toplevels, lk' = qdwin_maybe_promote_lock_toplevel(lk, t)
      PROVE  LinksOK(lk')
  BY <1>0, <1>4, LinksPromote
<1>5. CASE lk' = qdwin_lock_surface_resource_destroyed(lk, FALSE)
  BY <1>0, <1>5, LinksResourceDestroyed, ZenonT(60)
<1>6. ASSUME NEW surf \in LockSurfaces, NEW ok \in Allocated, SurfaceDestroyed(surf, ok)
      PROVE  LinksOK(lk')
  <2> DEFINE p == IF lk.listener = surf
                  THEN qdwin_lock_surface_destroyed_cb(lk) ELSE lk
  <2>1. p \in LockPointers /\ LinksOK(p)
    BY <1>0, LinksDestroyedCb, DestroyedCbOK
  <2>2. lk' = [p EXCEPT !.raw = @ \ {surf}]
    BY <1>6 DEF SurfaceDestroyed
  <2> HIDE DEF p
  <2>3. /\ lk'.hung = p.hung /\ lk'.relinked = p.relinked /\ lk'.overlaid = p.overlaid
        /\ lk'.listener = p.listener /\ lk'.resource = p.resource
        /\ lk'.surface = p.surface
    BY <2>1, <2>2 DEF LockPointers
  <2> QED BY <2>1, <2>3 DEF LinksOK
<1>7. ASSUME NEW surf \in LockSurfaces, EmitBroken(surf)
      PROVE  LinksOK(lk')
  <2>1. surf \in lk.relinked /\ lk' = [lk EXCEPT !.hung = TRUE]
    BY <1>7 DEF EmitBroken
  <2>2. lk'.relinked = lk.relinked /\ lk'.overlaid = lk.overlaid
    BY <1>0, <2>1 DEF LockPointers
  <2> QED BY <2>1, <2>2 DEF LinksOK
<1>8. CASE UNCHANGED vars \/ Hung \/ KeyboardNext \/ OutputNext
  <2>1. lk' = lk
    BY <1>8 DEF vars, Hung, KeyboardNext, OutputNext, viewVars, KeyboardStep,
      KeyboardPlugged, KeyboardUnplugged, notify_keyboard_focus_out,
      qdwin_on_switcher_key, SwitcherEnds, OtherBindingKey, BindingKeyReleased,
      PopupGrabStarts, PopupGrabEnds, ImGrabs, ImReleases,
      qdwin_on_output_changed, qdwin_output_boundary_transition, qdwin_om_apply
  <2> QED BY <1>1, <2>1
<1>9. CASE ShellNext
  <2>1. \/ lk' = lk
        \/ \E surf \in LockSurfaces, ok \in Allocated :
             lk' = attach_lock_surface(lk, surf, "shell", FALSE, ok)
    BY <1>9, ZenonT(60) DEF ShellNext, viewVars, qdwin_handle_bind_as_shell,
      qdwin_shell_resource_destroy, qdwin_handle_attach_lock_surface,
      qdwin_handle_set_locked, qdwin_handle_attach_launcher,
      qdwin_launcher_resource_destroyed
  <2> QED BY <1>0, <1>1, <1>3, <2>1
<1>10. CASE LockerNext
  <2>1. \/ lk' = lk
        \/ lk' = qdwin_demote_lock_toplevel(lk)
        \/ \E surf \in LockSurfaces, ok \in Allocated :
             lk' = attach_lock_surface(lk, surf, "locker", TRUE, ok)
        \/ \E last \in LastPromoted :
             last # NONE /\ lk' = qdwin_maybe_promote_lock_toplevel(lk, last)
    BY <1>10, ZenonT(60) DEF LockerNext, LockerBinds, viewVars, LockerStarts, LockerDies,
      ConnectionCloses, Reaped, StrangerStarts, StrangerEnds, ProcStep,
      qdwin_locker_resource_destroy, qdwin_handle_bind_as_locker,
      qdwin_handle_locker_attach_lock_surface, qdwin_handle_locker_set_locked
  <2>2. \A last \in LastPromoted : last # NONE => last \in Toplevels
    BY DEF LastPromoted, LockerToplevels
  <2> QED BY <1>0, <1>1, <1>2, <1>3, <1>4, <2>1, <2>2
<1>11. CASE ObjectNext
  <2>1. \/ lk' = lk
        \/ lk' = qdwin_demote_lock_toplevel(lk)
        \/ lk' = qdwin_lock_surface_resource_destroyed(lk, FALSE)
        \/ \E t \in Toplevels : lk' = qdwin_maybe_promote_lock_toplevel(lk, t)
        \/ \E surf \in LockSurfaces, ok \in Allocated : SurfaceDestroyed(surf, ok)
        \/ \E surf \in LockSurfaces : EmitBroken(surf)
    BY <1>11 DEF ObjectNext, viewVars, SurfaceCreated, LockResourceDestroyed,
      qdwin_surface_added, qdwin_surface_removed
  <2> QED BY <1>1, <1>2, <1>4, <1>5, <1>6, <1>7, <2>1
<1> QED BY <1>8, <1>9, <1>10, <1>11 DEF Next

-----------------------------------------------------------------------------
(* The locker process.  The number of a running process is its own, so the *)
(* number and the start time remembered for a bound locker that still runs *)
(* are found unchanged, if they can be read.                               *)

\* Only the locker's own steps touch its binding and the processes.
LEMMA OthersKeepLocker ==
  UNCHANGED vars \/ Hung \/ ShellNext \/ ObjectNext \/ KeyboardNext \/ OutputNext
    => UNCHANGED lockerVars
BY ZenonT(60) DEF vars, Hung, ShellNext, ObjectNext, KeyboardNext, OutputNext, clientVars,
  qdwin_handle_bind_as_shell, qdwin_shell_resource_destroy,
  qdwin_handle_attach_lock_surface, qdwin_handle_set_locked,
  qdwin_handle_attach_launcher, qdwin_launcher_resource_destroyed,
  SurfaceCreated, SurfaceDestroyed, EmitBroken, LockResourceDestroyed,
  qdwin_surface_added, qdwin_surface_removed, KeyboardStep,
  KeyboardPlugged, KeyboardUnplugged, notify_keyboard_focus_out,
  qdwin_on_switcher_key, SwitcherEnds, OtherBindingKey, BindingKeyReleased,
  PopupGrabStarts, PopupGrabEnds, ImGrabs, ImReleases,
  qdwin_on_output_changed, qdwin_output_boundary_transition, qdwin_om_apply

PeerOK ==
  /\ \A l \in alive : pid[l] \in Pids /\ proc[pid[l]] = l
  /\ locker_resource # NONE =>
       pid[locker_resource] \in Pids /\ peer.pid = pid[locker_resource]
  /\ locker_resource \in alive => peer.start \in {UNREAD, locker_resource}

\* No start, death, reaping or reuse of a number, no bind and no end of a
\* connection breaks it.
LEMMA PeerNext == TypeOK /\ PeerOK /\ [Next]_vars => PeerOK'
<1> SUFFICES ASSUME TypeOK, PeerOK, [Next]_vars PROVE PeerOK'
  OBVIOUS
<1> USE LockConstants
<1>1. ASSUME NEW l \in Lockers, NEW n \in Pids, LockerStarts(l, n)
      PROVE  PeerOK'
  <2>1. /\ pid[l] = 0 /\ proc[n] = NONE /\ alive' = alive \cup {l}
        /\ pid' = [pid EXCEPT ![l] = n] /\ proc' = [proc EXCEPT ![n] = l]
        /\ UNCHANGED <<locker_resource, peer>>
    BY <1>1 DEF LockerStarts
  <2>2. l \notin alive /\ locker_resource # l
    BY <2>1 DEF PeerOK
  <2>3. \A m \in alive : pid'[m] = pid[m] /\ proc'[pid[m]] = m
    BY <2>1, <2>2 DEF PeerOK, TypeOK
  <2>4. pid'[l] = n /\ proc'[n] = l
    BY <2>1 DEF TypeOK
  <2>5. locker_resource # NONE => pid'[locker_resource] = pid[locker_resource]
    BY <2>1, <2>2 DEF TypeOK
  <2> QED BY <2>1, <2>2, <2>3, <2>4, <2>5 DEF PeerOK
<1>2. ASSUME NEW l \in Lockers, LockerDies(l)
      PROVE  PeerOK'
  BY <1>2 DEF LockerDies, PeerOK
<1>3. ASSUME NEW l \in Lockers, ConnectionCloses(l)
      PROVE  PeerOK'
  <2>1. /\ l \notin alive /\ locker_resource # l
        /\ \A m \in Lockers \ {l} : pid'[m] = pid[m]
        /\ UNCHANGED <<locker_resource, peer, alive, proc>>
    BY <1>3 DEF ConnectionCloses, TypeOK
  <2> QED BY <2>1 DEF PeerOK, TypeOK
<1>4. ASSUME NEW n \in Pids, NEW who, ProcStep(n, who), proc[n] \notin alive
      PROVE  PeerOK'
  <2>1. /\ \A m \in Pids \ {n} : proc'[m] = proc[m]
        /\ UNCHANGED <<locker_resource, peer, alive, pid>>
    BY <1>4 DEF ProcStep, TypeOK
  <2> QED BY <1>4, <2>1 DEF PeerOK
<1>5. ASSUME NEW n \in Pids, Reaped(n) \/ StrangerStarts(n) \/ StrangerEnds(n)
      PROVE  PeerOK'
  BY <1>4, <1>5 DEF Reaped, StrangerStarts, StrangerEnds, TypeOK
<1>6. CASE qdwin_locker_resource_destroy
  <2>1. /\ locker_resource' = NONE /\ UNCHANGED <<alive, proc>>
        /\ \A m \in alive : pid'[m] = pid[m]
    BY <1>6 DEF qdwin_locker_resource_destroy, TypeOK
  <2> QED BY <2>1 DEF PeerOK, TypeOK
<1>7. ASSUME NEW l \in Lockers, NEW now, NEW start \in qdwin_proc_starttime(pid[l]),
             qdwin_handle_bind_as_locker(l, now, start)
      PROVE  PeerOK'
  <2>1. /\ pid[l] # 0 /\ locker_resource' = l /\ UNCHANGED <<alive, pid, proc>>
        /\ peer' = [pid |-> pid[l], start |-> start]
    BY <1>7 DEF qdwin_handle_bind_as_locker, procVars
  <2>2. pid[l] \in Pids
    BY <2>1 DEF TypeOK
  <2>3. l \in alive => start \in {UNREAD, l}
    BY <1>7 DEF qdwin_proc_starttime, PeerOK
  <2> QED BY <2>1, <2>2, <2>3 DEF PeerOK
<1>8. CASE UNCHANGED lockerVars
  BY <1>8 DEF lockerVars, procVars, PeerOK
<1>9. CASE UNCHANGED vars \/ Hung \/ ShellNext \/ ObjectNext \/ KeyboardNext \/ OutputNext
  <2>1. UNCHANGED lockerVars
    BY <1>9, OthersKeepLocker
  <2> QED BY <1>8, <2>1
<1>10. CASE LockerNext
  <2>1. CASE \/ \E surf \in LockSurfaces, ok \in Allocated :
                  qdwin_handle_locker_attach_lock_surface(surf, ok)
             \/ \E last \in LastPromoted, ok \in Allocated :
                  qdwin_handle_locker_set_locked(last, ok)
    BY <1>8, <2>1 DEF clientVars, qdwin_handle_locker_attach_lock_surface,
      qdwin_handle_locker_set_locked
  <2> QED BY <1>1, <1>2, <1>3, <1>5, <1>6, <1>7, <1>10, <2>1 DEF LockerNext, LockerBinds
<1> QED BY <1>9, <1>10 DEF Next

\* PeerOK and the types hold in every reachable state.
LEMMA SpecPeerOK == Spec => [](TypeOK /\ PeerOK)
<1>1. Init => TypeOK /\ PeerOK
  <2>1. Init => PeerOK
    BY LockConstants DEF Init, PeerOK
  <2> QED BY <2>1, InitInv DEF LockInv
<1> QED BY <1>1, PeerNext, SpecLockInv, PTL DEF Spec, LockInv

-----------------------------------------------------------------------------
(* What follows. *)

\* Every variable of the lock keeps its type.
THEOREM SpecTypeOK == Spec => []TypeOK
BY SpecLockInv, PTL DEF LockInv

\* No order of locks, unlocks, attaches, teardowns, launcher openings, key
\* grabs and hotplug leaves a locker grab in an unlocked session.
THEOREM SpecLockerGrab == Spec => []LockerGrabOnlyWhileLocked
BY SpecLockInv, PTL DEF LockInv

\* Every window is mapped again after an unlock (qdwin_show_non_lock_layers).
THEOREM SpecDesktopComesBack == Spec => []DesktopComesBack
BY SpecLockInv, PTL DEF LockInv

\* The shell's last news of the lock is right (both set_locked handlers).
THEOREM SpecShellInformed == Spec => []ShellInformed
BY SpecLockInv, PTL DEF LockInv

\* The lock's pointers never dangle, in whatever order the handle, surface,
\* toplevel and client go away (the three teardown paths of the lock view); a
\* destruction that runs into a broken signal list does not return.
THEOREM SpecLockPointersLive == Spec => []LockPointersLive
<1>1. LockInv => LockPointersLive
  <2> SUFFICES ASSUME LockInv PROVE LockPointersLive
    OBVIOUS
  <2>1. lk \in LockPointers /\ PointersOK(lk, layer, surfaces)
    BY DEF LockInv, TypeOK
  <2>2. lk.view # NONE => Live(lk.view)
    BY <2>1 DEF LockPointers, PointersOK, Live, Views
  <2>3. lk.toplevel # NONE => Live(lk.toplevel)
    BY <2>1 DEF LockPointers, PointersOK, Live
  <2> QED BY <2>1, <2>2, <2>3 DEF PointersOK, LockPointersLive, Live
<1> QED BY <1>1, SpecLockInv, PTL

\* The state of the lock is sound: no pointer dangles, and the listeners of a lock
\* surface are linked once, and so its signals return, unless a toplevel was
\* promoted over them (qdwin.c:7719, 7941, 9932).
THEOREM SpecLockSound == Spec => []LockSound
<1>1. Init => LinksOK(lk)
  BY DEF Init, LinksOK
<1>2. LinksOK(lk) => LinkedOnce
  BY DEF LinksOK, LinkedOnce
<1>3. Spec => []LinkedOnce
  BY <1>1, <1>2, LinksNext, SpecLockInv, PTL DEF Spec
<1> QED BY <1>3, SpecTypeOK, SpecLockPointersLive, PTL DEF LockSound

\* A running locker is never evicted, however process numbers are reused and
\* whichever start times cannot be read (qdwin_locker_peer_alive).
THEOREM SpecTakeover == Spec => TakeoverOnlyOfDead
<1> DEFINE A == /\ locker_resource # NONE
                /\ locker_resource' \notin {NONE, locker_resource}
                => locker_resource \notin alive
<1>1. TypeOK /\ PeerOK /\ [Next]_vars => [A]_vars
  <2> SUFFICES ASSUME TypeOK, PeerOK, Next PROVE A
    BY DEF vars
  <2>1. ASSUME NEW l \in Lockers, NEW now \in qdwin_proc_starttime(peer.pid), NEW start,
               qdwin_handle_bind_as_locker(l, now, start),
               locker_resource # NONE, locker_resource \in alive
        PROVE  FALSE
    <3>1. /\ peer.pid \in Pids /\ proc[peer.pid] = locker_resource
          /\ peer.start \in {UNREAD, locker_resource}
      BY <2>1 DEF PeerOK
    <3>2. now \in {UNREAD, locker_resource}
      BY <3>1, <2>1 DEF qdwin_proc_starttime
    <3>3. qdwin_locker_peer_alive(now)
      BY <2>1, <3>1, <3>2 DEF qdwin_locker_peer_alive
    <3> QED BY <2>1, <3>3 DEF qdwin_handle_bind_as_locker
  <2>2. CASE LockerBinds
    BY <2>1, <2>2 DEF LockerBinds
  <2>3. CASE LockerNext /\ ~LockerBinds
    <3>1. locker_resource' \in {NONE, locker_resource}
      BY <2>3 DEF LockerNext, clientVars, lockerVars, LockerStarts, LockerDies,
        ConnectionCloses, Reaped, StrangerStarts, StrangerEnds, ProcStep,
        qdwin_locker_resource_destroy, qdwin_handle_locker_attach_lock_surface,
        qdwin_handle_locker_set_locked
    <3> QED BY <3>1
  <2>4. CASE Hung \/ ShellNext \/ ObjectNext \/ KeyboardNext \/ OutputNext
    <3>1. locker_resource' = locker_resource
      BY <2>4, OthersKeepLocker DEF lockerVars
    <3> QED BY <3>1
  <2> QED BY <2>2, <2>3, <2>4 DEF Next
<1> QED BY <1>1, SpecPeerOK, PTL DEF Spec, TakeoverOnlyOfDead

\* A new curtain covers something: on a locked session with a usable output and memory
\* for it, the outputs it spans include those that are on; without an output the present
\* one is kept (qdwin_install_lock_curtain).
LEMMA InstallKeeps ==
  ASSUME NEW outs \in SUBSET Outputs, NEW curtain, curtain # {}
  PROVE  qdwin_install_lock_curtain(TRUE, curtain, outs, TRUE) # {}
<1>1. CASE outs = {}
  BY <1>1 DEF qdwin_install_lock_curtain
<1>2. CASE outs # {}
  <2>1. PICK o \in outs : TRUE
    BY <1>2
  <2>2. o \in Int /\ o \in Outputs
    BY <2>1, LockConstants
  <2>3. o \in Span(outs)
    BY <2>1, <2>2 DEF Span
  <2> QED BY <1>2, <2>3 DEF qdwin_install_lock_curtain
<1> QED BY <1>1, <1>2, ZenonT(60)

\* While the session stays locked the curtain is replaced, never dropped, also through
\* removal of the last output, unless an allocation fails (qdwin_install_lock_curtain,
\* qdwin_output_boundary_transition).
THEOREM SpecCurtainHeld == Spec => CurtainHeldWhileLocked
<1> DEFINE A == locked /\ locked' /\ lock_curtain # {} /\ ~AllocMayFail
                => lock_curtain' # {}
<1>1. LockInv /\ LockInv' /\ [Next]_vars => [A]_vars
  <2> SUFFICES ASSUME LockInv, LockInv', Next, locked, locked', lock_curtain # {}, ~AllocMayFail
               PROVE  lock_curtain' # {}
    BY DEF vars
  <2>1. outputs \in SUBSET Outputs /\ outputs' \in SUBSET Outputs
    BY DEF LockInv, TypeOK
  <2>2. /\ qdwin_install_lock_curtain(TRUE, lock_curtain, outputs, TRUE) # {}
        /\ qdwin_install_lock_curtain(TRUE, lock_curtain, outputs', TRUE) # {}
    BY <2>1, InstallKeeps, ZenonT(60)
  <2>3. \A ok \in Allocated : ok = TRUE
    BY DEF Allocated
  <2>4. locked = TRUE /\ locked' = TRUE
    BY DEF LockInv, TypeOK
  <2>5. \/ lock_curtain' = lock_curtain
        \/ \E ok \in Allocated :
             \/ lock_curtain' = qdwin_install_lock_curtain(locked', lock_curtain, outputs, ok)
             \/ lock_curtain' = qdwin_install_lock_curtain(locked, lock_curtain, outputs, ok)
             \/ lock_curtain' = qdwin_install_lock_curtain(locked, lock_curtain, outputs', ok)
    BY <2>4, ZenonT(60) DEF Next, ShellNext, LockerNext, ObjectNext, KeyboardNext, OutputNext,
      lockVars, qdwin_handle_bind_as_shell, qdwin_shell_resource_destroy,
      qdwin_handle_attach_lock_surface, qdwin_handle_set_locked,
      qdwin_handle_attach_launcher, qdwin_launcher_resource_destroyed,
      Hung, vars, LockerStarts, LockerDies, ConnectionCloses, Reaped, StrangerStarts,
      StrangerEnds, ProcStep, LockerBinds,
      qdwin_handle_bind_as_locker, qdwin_locker_resource_destroy, EmitBroken,
      qdwin_handle_locker_attach_lock_surface, qdwin_handle_locker_set_locked,
      SurfaceCreated, SurfaceDestroyed, LockResourceDestroyed,
      qdwin_surface_added, qdwin_surface_removed, KeyboardStep,
      KeyboardPlugged, KeyboardUnplugged, notify_keyboard_focus_out,
      qdwin_on_switcher_key, SwitcherEnds, OtherBindingKey, BindingKeyReleased,
      PopupGrabStarts, PopupGrabEnds, ImGrabs, ImReleases,
      qdwin_on_output_changed, qdwin_output_boundary_transition, qdwin_om_apply
  <2> QED BY <2>2, <2>3, <2>4, <2>5
<1> QED BY <1>1, SpecLockInv, PTL DEF Spec, CurtainHeldWhileLocked

\* The lock implements its promise: only a set_locked of a bound client moves
\* it, and the desktop is hidden exactly while it is locked.
THEOREM SpecKeepsLockPromise == Spec => KeepsLockPromise
<1>1. Init => Promise!PromiseInit
  BY DEF Init, Promise!PromiseInit, Bound
<1>2. LockInv /\ LockInv' /\ [Next]_vars => [Promise!PromiseNext]_(Promise!promiseVars)
  <2> SUFFICES ASSUME LockInv, LockInv', [Next]_vars
               PROVE  [Promise!PromiseNext]_(Promise!promiseVars)
    OBVIOUS
  <2>1. /\ Bound' \in SUBSET (Lockers \cup {"shell"})
        /\ locked \in BOOLEAN /\ hidden = locked /\ hidden' = locked'
    BY DEF LockInv, TypeOK, Bound, HiddenIffLocked
  <2>2. CASE locked' = locked
    BY <2>1, <2>2 DEF Promise!PromiseNext, Promise!Rebind
  <2>3. CASE locked' = ~locked /\ Bound' = Bound /\ Bound # {}
    BY <2>1, <2>3 DEF Promise!PromiseNext, Promise!SetLocked
  <2>4. locked' = locked \/ (locked' = ~locked /\ Bound' = Bound /\ Bound # {})
    <3>1. CASE \E ok \in Allocated : qdwin_handle_set_locked(ok)
      <4>1. locked' = ~locked /\ shell_bound /\ UNCHANGED clientVars
        BY <2>1, <3>1 DEF qdwin_handle_set_locked
      <4>2. Bound' = Bound
        BY <4>1 DEF Bound, clientVars, lockerVars, procVars
      <4>3. Bound # {}
        BY <4>1 DEF Bound
      <4> QED BY <4>1, <4>2, <4>3
    <3>2. CASE \E last \in LastPromoted, ok \in Allocated :
                 qdwin_handle_locker_set_locked(last, ok)
      <4>1. locked' = ~locked /\ locker_resource # NONE /\ UNCHANGED clientVars
        BY <2>1, <3>2 DEF qdwin_handle_locker_set_locked
      <4>2. Bound' = Bound
        BY <4>1 DEF Bound, clientVars, lockerVars, procVars
      <4>3. Bound # {}
        BY <4>1 DEF Bound
      <4> QED BY <4>1, <4>2, <4>3
    <3>3. CASE UNCHANGED vars \/ KeyboardNext \/ OutputNext
      BY <3>3 DEF vars, KeyboardNext, OutputNext, lockVars, KeyboardStep,
        KeyboardPlugged, KeyboardUnplugged, notify_keyboard_focus_out,
        qdwin_on_switcher_key, SwitcherEnds, OtherBindingKey, BindingKeyReleased,
        PopupGrabStarts, PopupGrabEnds, ImGrabs, ImReleases,
        qdwin_on_output_changed, qdwin_output_boundary_transition, qdwin_om_apply
    <3>4. CASE ObjectNext
      BY <3>4 DEF ObjectNext, lockVars, SurfaceCreated, SurfaceDestroyed,
        EmitBroken, LockResourceDestroyed, qdwin_surface_added, qdwin_surface_removed
    <3>5. CASE ShellNext
      <4>1. ShellNext => \/ locked' = locked
                         \/ \E ok \in Allocated : qdwin_handle_set_locked(ok)
        BY DEF ShellNext, lockVars, qdwin_handle_bind_as_shell,
          qdwin_shell_resource_destroy, qdwin_handle_attach_lock_surface,
          qdwin_handle_attach_launcher, qdwin_launcher_resource_destroyed
      <4> QED BY <3>1, <3>5, <4>1
    <3>6. CASE LockerNext
      <4>1. LockerNext => \/ locked' = locked
                          \/ \E last \in LastPromoted, ok \in Allocated :
                               qdwin_handle_locker_set_locked(last, ok)
        BY DEF LockerNext, LockerBinds, lockVars, LockerStarts, LockerDies,
          ConnectionCloses, Reaped, StrangerStarts, StrangerEnds, ProcStep,
          qdwin_locker_resource_destroy, qdwin_handle_bind_as_locker,
          qdwin_handle_locker_attach_lock_surface
      <4> QED BY <3>2, <3>6, <4>1
    <3> QED BY <3>3, <3>4, <3>5, <3>6 DEF Next, Hung
  <2> QED BY <2>2, <2>3, <2>4
<1> QED BY <1>1, <1>2, SpecLockInv, PTL
        DEF Spec, KeepsLockPromise, Promise!PromiseSpec
=============================================================================
