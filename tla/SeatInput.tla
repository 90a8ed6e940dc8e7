------------------------------ MODULE SeatInput ------------------------------
(***************************************************************************)
(* The pointer and the keyboard of a seat: focus, the resources that hear  *)
(* of it, and devices that come and go. Two parts that share no state      *)
(* here.                                                                   *)
(***************************************************************************)
EXTENDS Integers, FiniteSets

-----------------------------------------------------------------------------
(* The focus of a seat's pointer: wl_pointer and relative-pointer resources,    *)
(* the record of each client's resources, enter, leave and the events between.  *)
(* The default grab is installed; places are positions on a line.               *)

CONSTANTS
    PointerSurfaces,
    Pointers, Relatives,    \* resources clients may create
    PointerOwnerOf,  \* the client of a surface or a resource
    Places,     \* positions of the pointer relative to a view
    MaxButtons, NONE

VARIABLES
    pointer_alive,  \* surfaces
    pointer_gone,  \* the pointer has been destroyed with its seat
    pointer_devices,  \* pointer_device_count
    pointer_res,  \* resources in the list of some weston_pointer_client
    under,      \* the view that picking at the pointer's position finds
    at,         \* where the pointer is
    pointer_focus, fclient, sx, buttons,
    told,       \* the surface a wl_pointer was last told it is in
    odd         \* resources that got an event out of place (history)

pointerVars == <<pointer_alive, pointer_gone, pointer_devices, pointer_res, under, at, pointer_focus, fclient, sx, buttons, told, odd>>

Resources == Pointers \cup Relatives
Clients == {PointerOwnerOf[r] : r \in Resources}

PointerTypeOK ==
    /\ pointer_alive \subseteq PointerSurfaces /\ pointer_res \subseteq Resources /\ odd \subseteq Resources
    /\ pointer_devices \in 0..1 /\ buttons \in 0..MaxButtons
    /\ under \in pointer_alive \cup {NONE} /\ at \in Places /\ sx \in Places
    /\ pointer_focus \in pointer_alive \cup {NONE} /\ fclient \in Clients \cup {NONE}
    /\ told \in [Pointers -> PointerSurfaces \cup {NONE}]

PointerInit ==
    /\ pointer_alive = PointerSurfaces /\ pointer_gone = FALSE /\ pointer_devices = 1 /\ pointer_res = {} /\ under = NONE
    /\ at \in Places /\ pointer_focus = NONE /\ fclient = NONE /\ sx = at /\ buttons = 0
    /\ told = [r \in Pointers |-> NONE] /\ odd = {}

PointerNow == [res |-> pointer_res, focus |-> pointer_focus, fclient |-> fclient, sx |-> sx, told |-> told, odd |-> odd]

PointerBecome(st) ==
    /\ pointer_res' = st.res /\ pointer_focus' = st.focus /\ fclient' = st.fclient /\ sx' = st.sx
    /\ told' = st.told /\ odd' = st.odd
-----------------------------------------------------------------------------
Mine(st, c) == {r \in st.res \cap Pointers : PointerOwnerOf[r] = c}

\* weston_pointer_get_pointer_client: the record exists while it lists a resource.
HasRecord(st, c) == \E r \in st.res : PointerOwnerOf[r] = c

PointerEnter(st, rs, s) ==
    [st EXCEPT !.told = [r \in Pointers |-> IF r \in rs THEN s ELSE st.told[r]],
               !.odd = @ \cup {r \in rs : st.told[r] # NONE}]

Leave(st, rs) ==
    [st EXCEPT !.told = [r \in Pointers |-> IF r \in rs THEN NONE ELSE st.told[r]],
               !.odd = @ \cup {r \in rs : st.told[r] # st.focus}]

\* Motion, button, axis, axis source or frame, to every wl_pointer of the focus.
Event(st) ==
    IF st.fclient = NONE THEN st
    ELSE [st EXCEPT !.odd = @ \cup {r \in Mine(st, st.fclient) : st.told[r] # st.focus}]

\* find_pointer_client_for_view.
RecordFor(st, v) ==
    IF v # NONE /\ HasRecord(st, PointerOwnerOf[v]) THEN PointerOwnerOf[v] ELSE NONE

\* weston_pointer_set_focus, with the pointer at p.
PointerSetFocus(st, v, p) ==
    LET refocus == v # st.focus \/ (v # NONE /\ st.sx # p)
        s1 == IF st.fclient # NONE /\ refocus
              THEN [Leave(st, Mine(st, st.fclient)) EXCEPT !.fclient = NONE] ELSE st
        c == RecordFor(s1, v)
        s2 == IF c # NONE /\ refocus THEN [PointerEnter(s1, Mine(s1, c), v) EXCEPT !.fclient = c] ELSE s1
    IN  [s2 EXCEPT !.focus = v, !.sx = IF v # NONE THEN p ELSE @]

\* default_grab_pointer_focus, weston_seat_repick.
PickFocus(st, u, p) ==
    IF buttons > 0 THEN st
    ELSE IF st.focus # u \/ (u # NONE /\ st.sx # p) THEN PointerSetFocus(st, u, p) ELSE st

EnsureRecord(st, r) ==
    LET c == PointerOwnerOf[r]
        new == ~HasRecord(st, c)
    IN  [st EXCEPT !.res = @ \cup {r},
                   !.fclient = IF new /\ st.focus # NONE /\ PointerOwnerOf[st.focus] = c THEN c ELSE @]
-----------------------------------------------------------------------------
\* seat_get_pointer.
GetPointer(r) ==
    /\ ~pointer_gone /\ r \in Pointers \ pointer_res
    /\ LET st == EnsureRecord(PointerNow, r)
       IN  PointerBecome(IF pointer_focus # NONE /\ PointerOwnerOf[pointer_focus] = PointerOwnerOf[r] THEN PointerEnter(st, {r}, pointer_focus) ELSE st)
    /\ UNCHANGED <<pointer_alive, pointer_gone, pointer_devices, under, at, buttons>>

\* relative_pointer_manager_get_relative_pointer, for a wl_pointer of this pointer.
GetRelativePointer(r) ==
    /\ ~pointer_gone /\ r \in Relatives \ pointer_res /\ Mine(PointerNow, PointerOwnerOf[r]) # {}
    /\ PointerBecome(EnsureRecord(PointerNow, r))
    /\ UNCHANGED <<pointer_alive, pointer_gone, pointer_devices, under, at, buttons>>

\* A resource is released or dies with its client: unbind_pointer_client_resource
\* and weston_pointer_cleanup_pointer_client.
UnbindResource(r) ==
    /\ r \in pointer_res
    /\ LET st == [PointerNow EXCEPT !.res = @ \ {r},
                                    !.told = [q \in Pointers |-> IF q = r THEN NONE ELSE told[q]]]
       IN  PointerBecome([st EXCEPT !.fclient = IF HasRecord(st, PointerOwnerOf[r]) \/ @ # PointerOwnerOf[r] THEN @ ELSE NONE])
    /\ UNCHANGED <<pointer_alive, pointer_gone, pointer_devices, under, at, buttons>>

\* notify_motion and weston_pointer_send_motion: the pointer moves to p, over u.
Motion(u, p) ==
    LET s1 == IF pointer_focus # NONE THEN [PointerNow EXCEPT !.sx = p] ELSE PointerNow
        s2 == PickFocus(s1, u, p)
    IN  /\ ~pointer_gone /\ pointer_devices = 1 /\ under' = u /\ at' = p
        /\ PointerBecome(IF s2.focus # NONE /\ s2.focus = pointer_focus /\ p # sx THEN Event(s2) ELSE s2)
        /\ UNCHANGED <<pointer_alive, pointer_gone, pointer_devices, buttons>>

\* notify_button with weston_pointer_send_button, default_grab_pointer_button: after
\* the last release the focus goes to the view under the pointer.
Press ==
    /\ ~pointer_gone /\ pointer_devices = 1 /\ buttons < MaxButtons
    /\ buttons' = buttons + 1 /\ PointerBecome(Event(PointerNow))
    /\ UNCHANGED <<pointer_alive, pointer_gone, pointer_devices, under, at>>

Release ==
    /\ ~pointer_gone /\ pointer_devices = 1 /\ buttons > 0
    /\ buttons' = buttons - 1
    /\ PointerBecome(IF buttons = 1 THEN PointerSetFocus(Event(PointerNow), under, at) ELSE Event(PointerNow))
    /\ UNCHANGED <<pointer_alive, pointer_gone, pointer_devices, under, at>>

\* notify_axis, notify_axis_source, notify_pointer_frame.
Axis ==
    /\ ~pointer_gone /\ pointer_devices = 1 /\ PointerBecome(Event(PointerNow))
    /\ UNCHANGED <<pointer_alive, pointer_gone, pointer_devices, under, at, buttons>>

\* The scene changes under the pointer and a repaint picks again.
Repick(u, p) ==
    /\ ~pointer_gone /\ pointer_devices = 1 /\ under' = u /\ at' = p
    /\ PointerBecome(PickFocus(PointerNow, u, p))
    /\ UNCHANGED <<pointer_alive, pointer_gone, pointer_devices, buttons>>

\* weston_pointer_handle_output_destroy: the pointer is moved to another output,
\* whether a device is plugged or not.
OutputGone(u, p) ==
    /\ ~pointer_gone /\ under' = u /\ at' = p
    /\ PointerBecome(PickFocus(PointerNow, u, p))
    /\ UNCHANGED <<pointer_alive, pointer_gone, pointer_devices, buttons>>

\* pointer_focus_view_destroyed, pointer_focus_resource_destroyed.
PointerSurfaceDestroyed(s) ==
    /\ s \in pointer_alive /\ pointer_alive' = pointer_alive \ {s}
    /\ under' = IF under = s THEN NONE ELSE under
    /\ PointerBecome(IF pointer_focus = s THEN PointerSetFocus(PointerNow, NONE, at) ELSE PointerNow)
    /\ UNCHANGED <<pointer_gone, pointer_devices, at, buttons>>

PointerSurfaceCreated(s) ==
    /\ s \notin pointer_alive /\ pointer_alive' = pointer_alive \cup {s}
    /\ UNCHANGED <<pointer_gone, pointer_devices, pointer_res, under, at, pointer_focus, fclient, sx, buttons, told, odd>>

\* weston_seat_release_pointer with the last device.
PointerUnplug ==
    /\ ~pointer_gone /\ pointer_devices = 1 /\ pointer_devices' = 0 /\ buttons' = 0
    /\ PointerBecome(PointerSetFocus(PointerNow, NONE, at))
    /\ UNCHANGED <<pointer_alive, pointer_gone, under, at>>

\* weston_seat_init_pointer.
PointerPlug ==
    /\ ~pointer_gone /\ pointer_devices = 0 /\ pointer_devices' = 1
    /\ UNCHANGED <<pointer_alive, pointer_gone, pointer_res, under, at, pointer_focus, fclient, sx, buttons, told, odd>>

\* weston_pointer_destroy, from weston_seat_release, once no device is left: the
\* clients' resources stay behind and do nothing.
PointerDestroy ==
    /\ ~pointer_gone /\ pointer_devices = 0 /\ pointer_gone' = TRUE
    /\ pointer_res' = {} /\ pointer_focus' = NONE /\ fclient' = NONE /\ told' = [r \in Pointers |-> NONE]
    /\ UNCHANGED <<pointer_alive, pointer_devices, under, at, sx, buttons, odd>>

PointerNext ==
    \/ \E r \in Resources : GetPointer(r) \/ GetRelativePointer(r) \/ UnbindResource(r)
    \/ \E u \in pointer_alive \cup {NONE}, p \in Places : Motion(u, p) \/ Repick(u, p) \/ OutputGone(u, p)
    \/ \E s \in PointerSurfaces : PointerSurfaceDestroyed(s) \/ PointerSurfaceCreated(s)
    \/ Press \/ Release \/ Axis \/ PointerUnplug \/ PointerPlug \/ PointerDestroy

PointerSpec == PointerInit /\ [][PointerNext]_pointerVars
-----------------------------------------------------------------------------
\* Whatever the order of binding, releasing, motion, clicks, hotplug and surface
\* loss, a wl_pointer gets its enters and leaves in pairs and every other event
\* between them; it believes itself in the focused surface exactly when its client
\* owns it, and the cached record of the focused client is that client's.
EventsInsideEnter ==
    /\ odd = {}
    /\ \A r \in pointer_res \cap Pointers :
          told[r] = IF pointer_focus # NONE /\ PointerOwnerOf[pointer_focus] = PointerOwnerOf[r] THEN pointer_focus ELSE NONE
    /\ fclient = RecordFor(PointerNow, pointer_focus)

-----------------------------------------------------------------------------
(* The focus of a seat's keyboard: wl_keyboard resources and the list of those   *)
(* that are focused, pressed keys, modifiers, and a keymap that waits until no   *)
(* key is down.  The default grab is installed; modifiers that also go to the    *)
(* client under the pointer are left out.                                        *)

CONSTANTS
    KeySurfaces, Boards,  \* surfaces, and wl_keyboard resources clients may create
    KeyOwnerOf,
    Keys, Held, Locks,  \* keys; those that are modifiers while held; those that lock
    Maps               \* keymaps

VARIABLES
    key_alive, key_res, flist,  \* surfaces, resources, focus_resource_list
    key_focus,
    keys,       \* keyboard->keys
    xkb,        \* the modifiers of xkb_state
    mods,       \* keyboard->modifiers
    map, pending,
    idle,       \* what this keyboard contributes to idle_inhibit
    in,         \* the backend has announced keyboard focus
    saved, usesaved,
    key_devices, key_gone,
    skew,       \* the xkb state was renewed at unplug, and no modifiers computed since
    blind,      \* resources that got the focus while the backend had none (history)
    tsurf, tkeys, tmods, tmap       \* what each resource was told

keyVars == <<key_alive, key_res, flist, key_focus, keys, xkb, mods, map, pending, idle, in, saved, usesaved,
             key_devices, key_gone, skew, blind, tsurf, tkeys, tmods, tmap>>

NoMods == [held |-> {}, locked |-> {}]
Mods == [held : SUBSET Held, locked : SUBSET Locks]

KeyTypeOK ==
    /\ key_alive \subseteq KeySurfaces /\ flist \subseteq key_res /\ key_res \subseteq Boards
    /\ key_focus \in key_alive \cup {NONE} /\ saved \in key_alive \cup {NONE}
    /\ keys \subseteq Keys /\ xkb \in Mods /\ mods \in Mods
    /\ map \in Maps /\ pending \in Maps \cup {NONE} /\ idle \in 0..Cardinality(Keys)
    /\ tsurf \in [Boards -> KeySurfaces \cup {NONE}] /\ tkeys \in [Boards -> SUBSET Keys]
    /\ tmods \in [Boards -> Mods] /\ tmap \in [Boards -> Maps \cup {NONE}]

KeyInit ==
    /\ key_alive = KeySurfaces /\ key_res = {} /\ flist = {} /\ key_focus = NONE /\ keys = {}
    /\ xkb = NoMods /\ mods = NoMods /\ map \in Maps /\ pending = NONE /\ idle = 0
    /\ in = TRUE /\ saved = NONE /\ usesaved = FALSE /\ key_devices = 1 /\ key_gone = FALSE
    /\ skew = FALSE /\ blind = {}
    /\ tsurf = [r \in Boards |-> NONE] /\ tkeys = [r \in Boards |-> {}]
    /\ tmods = [r \in Boards |-> NoMods] /\ tmap = [r \in Boards |-> NONE]

KeyNow == [res |-> key_res, flist |-> flist, focus |-> key_focus, keys |-> keys, xkb |-> xkb, mods |-> mods,
           map |-> map, pending |-> pending, idle |-> idle, saved |-> saved, usesaved |-> usesaved,
           skew |-> skew, in |-> in, blind |-> blind, tsurf |-> tsurf, tkeys |-> tkeys, tmods |-> tmods, tmap |-> tmap]

KeyBecome(st) ==
    /\ key_res' = st.res /\ flist' = st.flist /\ key_focus' = st.focus /\ keys' = st.keys
    /\ xkb' = st.xkb /\ mods' = st.mods /\ map' = st.map /\ pending' = st.pending
    /\ idle' = st.idle /\ saved' = st.saved /\ usesaved' = st.usesaved /\ skew' = st.skew
    /\ in' = st.in /\ blind' = st.blind
    /\ tsurf' = st.tsurf /\ tkeys' = st.tkeys /\ tmods' = st.tmods /\ tmap' = st.tmap

On(f, rs, x) == [r \in Boards |-> IF r \in rs THEN x ELSE f[r]]
-----------------------------------------------------------------------------
\* wl_keyboard.enter carries the pressed keys and is followed by the modifiers.
KeyEnter(st, rs) ==
    [st EXCEPT !.tsurf = On(@, rs, st.focus), !.tkeys = On(@, rs, st.keys),
               !.tmods = On(@, rs, st.mods), !.blind = IF st.in THEN @ \ rs ELSE @ \cup rs]

\* weston_keyboard_set_focus.
KeySetFocus(st, s) ==
    LET moves == st.focus # s
        s1 == IF moves THEN [st EXCEPT !.tsurf = On(@, st.flist, NONE), !.tkeys = On(@, st.flist, {}),
                                       !.flist = {}] ELSE st
        s2 == [s1 EXCEPT !.focus = s, !.usesaved = FALSE]
        mine == IF s = NONE THEN {} ELSE {r \in st.res : KeyOwnerOf[r] = KeyOwnerOf[s]}
    IN  IF moves THEN [KeyEnter(s2, mine) EXCEPT !.flist = mine] ELSE s2

\* notify_modifiers: what the xkb state says, sent if it differs from the last.
NotifyModifiers(st) ==
    [st EXCEPT !.mods = st.xkb, !.skew = FALSE,
               !.tmods = IF st.mods # st.xkb THEN On(@, st.flist, st.xkb) ELSE @]

\* xkb_state_update_key.
XkbKey(x, k, down) ==
    [held |-> IF k \notin Held THEN x.held ELSE IF down THEN x.held \cup {k} ELSE x.held \ {k},
     locked |-> IF k \in Locks /\ down
                THEN (x.locked \cup {k}) \ (x.locked \cap {k}) ELSE x.locked]

\* update_modifier_state.
UpdateModifierState(st, k, down) ==
    NotifyModifiers([st EXCEPT !.xkb = XkbKey(@, k, down)])

\* update_keymap: locked modifiers are carried over, held ones are not.  The new
\* keymap may fail to compile.
UpdateKeymap(st, ok) ==
    LET s1 == [st EXCEPT !.map = st.pending, !.pending = NONE,
                         !.xkb = [held |-> {}, locked |-> st.xkb.locked],
                         !.tmap = On(@, st.res, st.pending)]
        s2 == NotifyModifiers(s1)
    IN  IF ~ok THEN [st EXCEPT !.pending = NONE]
        ELSE IF st.xkb.locked = {} THEN s2
        ELSE [s2 EXCEPT !.tmods = On(@, st.res, s2.mods)]
-----------------------------------------------------------------------------
Rest == UNCHANGED <<key_alive, key_devices, key_gone>>
Live == ~key_gone /\ key_devices = 1 /\ in

\* notify_key with the default grab.  A repeated press is ignored.
Key_late_press(k, down, ok) ==
    /\ Live /\ (down => k \notin keys) /\ (~down => k \in keys)
    /\ LET s1 == [KeyNow EXCEPT !.keys = IF down THEN @ \cup {k} ELSE @ \ {k},
                                !.idle = IF down THEN @ + 1 ELSE @ - 1,
                                !.tkeys = [r \in Boards |-> IF r \notin flist THEN @[r]
                                             ELSE IF down THEN @[r] \cup {k} ELSE @[r] \ {k}]]
           s2 == IF s1.pending # NONE THEN UpdateKeymap(s1, ok) ELSE s1
       IN  KeyBecome(UpdateModifierState(s2, k, down))
    /\ Rest

Key(k, down, ok) ==
    /\ Live /\ (down => k \notin keys) /\ (~down => k \in keys)
    /\ LET s1 == [KeyNow EXCEPT !.keys = IF down THEN @ \cup {k} ELSE @ \ {k},
                                !.idle = IF down THEN @ + 1 ELSE @ - 1,
                                !.tkeys = [r \in Boards |-> IF r \notin flist THEN @[r]
                                             ELSE IF down THEN @[r] \cup {k} ELSE @[r] \ {k}]]
           s2 == IF s1.pending # NONE /\ s1.keys = {} THEN UpdateKeymap(s1, ok) ELSE s1
       IN  KeyBecome(UpdateModifierState(s2, k, down))
    /\ Rest

\* weston_seat_update_keymap.
NewKeymap(m, ok) ==
    /\ ~key_gone /\ key_devices = 1
    /\ LET s1 == [KeyNow EXCEPT !.pending = m]
       IN  KeyBecome(IF keys = {} THEN UpdateKeymap(s1, ok) ELSE s1)
    /\ Rest

\* weston_keyboard_set_locks.
SetLocks(l) ==
    /\ ~key_gone /\ key_devices = 1 /\ l # xkb.locked
    /\ KeyBecome(NotifyModifiers([KeyNow EXCEPT !.xkb.locked = l]))
    /\ Rest

\* The shell gives the focus to a surface, or takes it away.
FocusSet(s) ==
    /\ ~key_gone /\ key_devices = 1 /\ s \in key_alive \cup {NONE}
    /\ KeyBecome(KeySetFocus(KeyNow, s)) /\ Rest

\* keyboard_focus_resource_destroyed, and destroy_device_saved_kbd_focus for the
\* surface that was to be focused again.
KeySurfaceDestroyed(s) ==
    /\ s \in key_alive /\ key_alive' = key_alive \ {s}
    /\ LET s1 == IF key_focus = s THEN KeySetFocus(KeyNow, NONE) ELSE KeyNow
       IN  KeyBecome([s1 EXCEPT !.saved = IF @ = s THEN NONE ELSE @])
    /\ UNCHANGED <<key_devices, key_gone>>

KeySurfaceCreated(s) ==
    /\ s \notin key_alive /\ key_alive' = key_alive \cup {s} /\ KeyBecome(KeyNow) /\ UNCHANGED <<key_devices, key_gone>>

\* seat_get_keyboard.
GetKeyboard(r) ==
    /\ ~key_gone /\ r \in Boards \ key_res
    /\ LET s1 == [KeyNow EXCEPT !.res = @ \cup {r}, !.tmap[r] = map]
           mine == key_focus # NONE /\ KeyOwnerOf[key_focus] = KeyOwnerOf[r]
       IN  KeyBecome(IF mine THEN [KeyEnter(s1, {r}) EXCEPT !.flist = @ \cup {r}] ELSE s1)
    /\ Rest

\* destroy_keyboard_resource.
DestroyResource(r) ==
    /\ r \in key_res
    /\ KeyBecome([KeyNow EXCEPT !.res = @ \ {r}, !.flist = @ \ {r}, !.blind = @ \ {r}, !.tsurf[r] = NONE, !.tkeys[r] = {},
                                !.tmods[r] = NoMods, !.tmap[r] = NONE])
    /\ Rest

Presses(st, ks) == [st EXCEPT !.xkb.held = @ \cup (ks \cap Held)]

\* notify_keyboard_focus_in, when the host announces the keys that are down.
FocusIn(ks) ==
    /\ ~key_gone /\ key_devices = 1 /\ ~in /\ ks \cap Locks = {}
    /\ LET s1 == [KeyNow EXCEPT !.in = TRUE, !.keys = ks, !.idle = @ + Cardinality(ks)]
           s2 == IF ks = {} THEN s1 ELSE NotifyModifiers(Presses(s1, ks))
           s3 == [s2 EXCEPT !.saved = NONE]
       IN  KeyBecome(IF saved # NONE /\ usesaved THEN KeySetFocus(s3, saved) ELSE s3)
    /\ UNCHANGED <<key_alive, key_devices, key_gone>>

\* notify_keyboard_focus_out: every key counts as released for the modifiers and
\* the idle count, but the array of keys is kept until the next focus.
FocusOut ==
    /\ Live
    /\ LET s1 == [KeyNow EXCEPT !.in = FALSE, !.idle = @ - Cardinality(keys), !.xkb.held = @ \ keys]
           s2 == KeySetFocus(IF keys = {} THEN s1 ELSE NotifyModifiers(s1), NONE)
       IN  KeyBecome(IF key_focus = NONE THEN s2 ELSE [s2 EXCEPT !.saved = key_focus, !.usesaved = TRUE])
    /\ UNCHANGED <<key_alive, key_devices, key_gone>>

\* weston_seat_release_keyboard and weston_keyboard_reset_state; the device has
\* released its keys.
KeyUnplug ==
    /\ Live /\ keys = {} /\ key_devices' = 0
    /\ KeyBecome([KeySetFocus(KeyNow, NONE) EXCEPT !.xkb = NoMods, !.skew = TRUE])
    /\ UNCHANGED <<key_alive, key_gone>>

KeyPlug ==
    /\ ~key_gone /\ key_devices = 0 /\ key_devices' = 1 /\ KeyBecome(KeyNow) /\ UNCHANGED <<key_alive, key_gone>>

\* weston_keyboard_destroy, with the seat: what is left of the resources is inert.
KeyDestroy ==
    /\ ~key_gone /\ key_devices = 0 /\ key_gone' = TRUE
    /\ KeyBecome([KeyNow EXCEPT !.res = {}, !.flist = {}, !.focus = NONE, !.pending = NONE, !.saved = NONE,
                                !.tsurf = On(@, Boards, NONE), !.tkeys = On(@, Boards, {})])
    /\ UNCHANGED <<key_alive, key_devices>>

KeyNext ==
    \/ \E k \in Keys, down \in BOOLEAN, ok \in BOOLEAN : Key(k, down, ok)
    \/ \E m \in Maps, ok \in BOOLEAN : NewKeymap(m, ok)
    \/ \E l \in SUBSET Locks : SetLocks(l)
    \/ \E s \in KeySurfaces \cup {NONE} : FocusSet(s)
    \/ \E s \in KeySurfaces : KeySurfaceDestroyed(s) \/ KeySurfaceCreated(s)
    \/ \E r \in Boards : GetKeyboard(r) \/ DestroyResource(r)
    \/ \E ks \in SUBSET Keys : FocusIn(ks)
    \/ FocusOut \/ KeyUnplug \/ KeyPlug \/ KeyDestroy

KeySpec == KeyInit /\ [][KeyNext]_keyVars
-----------------------------------------------------------------------------
\* Every wl_keyboard and the seat agree, whatever the order of binding, focus,
\* hotplug, keys and keymap changes: a resource is told it has the focus exactly
\* while its client owns the focused surface; it then knows the modifiers and,
\* unless it got the focus while the backend had none, the keys that are down;
\* every resource has the current keymap, which never changes under a key that is
\* down.  The modifiers are those of the xkb state, except from an unplug, which
\* renews that state, to the next time they are computed.  A key that is down
\* holds the idle timer exactly once.
KeyboardsAgree ==
    /\ flist = {r \in key_res : key_focus # NONE /\ KeyOwnerOf[r] = KeyOwnerOf[key_focus]}
    /\ \A r \in key_res : /\ tsurf[r] = IF r \in flist THEN key_focus ELSE NONE
                          /\ tmap[r] = map
                          /\ r \in flist => tmods[r] = mods
                          /\ r \in flist \ blind => tkeys[r] = keys
    /\ idle = (IF in THEN Cardinality(keys) ELSE 0)
    /\ ~skew => mods = xkb
    /\ in => xkb.held = keys \cap Held
=============================================================================
