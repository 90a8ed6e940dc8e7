--------------------------- MODULE PointerControl ----------------------------
(***************************************************************************)
(* What qdwin and libweston do with a pointer: qdwin's grabs, its cursor   *)
(* sprites, and libweston's confinement. Three parts that share no state   *)
(* here.                                                                   *)
(***************************************************************************)
EXTENDS Naturals, FiniteSets, FiniteSetsExt, Integers, Sequences

-----------------------------------------------------------------------------
(* The grab slot of each seat's pointer and the shell's users of it: the     *)
(* interactive move, the popup of a toplevel, the popup of a layer surface,   *)
(* and the grabs of libweston itself (a data-device drag).                    *)
(*                                                                           *)
(* libweston keeps one pointer to a grab per weston_pointer.  Starting a grab *)
(* replaces what is there without a word; ending one installs the default     *)
(* grab; cancelling one only calls the grab's callback.  The grabs live       *)
(* inside objects that are freed on their own schedule.  Under the lock no   *)
(* move and no popup begins; locking itself leaves them as they are.          *)

CONSTANTS
    NSeats,      \* seats, in the order of compositor->seat_list
    Toplevels,   \* windows that may have a popup
    LayerPopups, \* xdg_popups of layer surfaces
    NONE

VARIABLES
    pointer,   \* seat -> "on", "off" (no device yet, or the last is unplugged and
               \* the struct stays), "dead" (the seat and its pointer are freed)
    grab_slot,  \* seat -> pointer->grab
    cancelled, \* the grabs that were cancelled and are in a slot since
    displaced, \* the grabs that another took out of their slot, unknown to them
    windows,   \* the toplevels of qdwin->toplevels
    popup,     \* toplevel -> tl->popup: NONE or [active, seat of grab.pointer]
    lpopup,    \* layer popup -> NONE or [res: popup_resource is set, active,
               \*                grabSeat, seat of grab.pointer]
    move       \* [active, handle, seat] of qdwin->move_grab

grabVars == <<pointer, grab_slot, cancelled, displaced, windows, popup, lpopup, move>>

Seats == 1 .. NSeats
Pop(t) == [kind |-> "popup", of |-> t]
Layer(l) == [kind |-> "layer", of |-> l]
Move == [kind |-> "move", of |-> NONE]
Core == [kind |-> "core", of |-> NONE]
Default == [kind |-> "default", of |-> NONE]
ShellGrabs == {Move} \cup {Pop(t) : t \in Toplevels} \cup {Layer(l) : l \in LayerPopups}
OfShell(g) == g.kind \in {"move", "popup", "layer"}
\* The grab is part of an object that was freed.
Freed(g) == [kind |-> "freed", of |-> g]
\* Freed memory was used for the grab: its pointer, or the grab itself.
Fault(g) == [kind |-> "fault", of |-> g]

NoMove == [active |-> FALSE, handle |-> NONE, seat |-> NONE]
\* What a popup keeps once its grab was ended is not read again.
Idle == [active |-> FALSE, seat |-> NONE]
NoGrab == [res |-> TRUE, active |-> FALSE, grabSeat |-> NONE, seat |-> NONE]

GrabTypeOK ==
    /\ \A s \in Seats :
          /\ pointer[s] \in {"on", "off", "dead"}
          /\ \/ grab_slot[s] \in {Core, Default} \cup ShellGrabs
             \/ grab_slot[s].kind \in {"freed", "fault"} /\ grab_slot[s].of \in ShellGrabs
    /\ cancelled \cup displaced \subseteq ShellGrabs
    /\ windows \subseteq Toplevels
    /\ \A t \in Toplevels :
          popup[t] = NONE \/ (t \in windows /\ popup[t] \in [active : BOOLEAN, seat : Seats \cup {NONE}])
    /\ \A l \in LayerPopups :
          \/ lpopup[l] = NONE
          \/ lpopup[l] \in [res : BOOLEAN, active : BOOLEAN, grabSeat : Seats \cup {NONE},
                            seat : Seats \cup {NONE}]
    /\ move \in [active : BOOLEAN, handle : Toplevels \cup {NONE}, seat : Seats \cup {NONE}]

GrabInit ==
    /\ pointer = [s \in Seats |-> "off"]
    /\ grab_slot = [s \in Seats |-> Default]
    /\ cancelled = {} /\ displaced = {}
    /\ windows = {}
    /\ popup = [t \in Toplevels |-> NONE]
    /\ lpopup = [l \in LayerPopups |-> NONE]
    /\ move = NoMove
-----------------------------------------------------------------------------
(* The slot.  Every helper maps the slots before to the slots after.          *)

\* weston_seat_get_pointer: a pointer without a device is not handed out.
HasPointer(s) == pointer[s] = "on"

\* The seat that a shell's grab uses: the first that has a pointer.
GrabSeat == IF \E s \in Seats : HasPointer(s) THEN Min({s \in Seats : HasPointer(s)}) ELSE NONE

StartGrab(slots, s, grab) == [slots EXCEPT ![s] = grab]

\* The grab's owner ends it on the pointer it was started on, which may be gone
\* with its seat.
EndGrab(slots, s, grab) == [slots EXCEPT ![s] = IF pointer[s] = "dead" THEN Fault(grab) ELSE Default]

Freeing(slots, grab) == [s \in Seats |-> IF slots[s] = grab THEN Freed(grab) ELSE slots[s]]

PopupTeardown(slots, t) ==
    Freeing(IF popup[t].active THEN EndGrab(slots, popup[t].seat, Pop(t)) ELSE slots, Pop(t))

\* A layer popup ends its grab only if it is still the one installed and its
\* seat still exists.
LayerPopupDestroy(slots, l) ==
    LET p == lpopup[l]
    IN  Freeing(IF /\ p.active /\ p.grabSeat # NONE /\ p.seat # NONE
                   /\ pointer[p.seat] = "dead" \/ slots[p.seat] = Layer(l)
                THEN EndGrab(slots, p.seat, Layer(l)) ELSE slots, Layer(l))

\* Freed memory was used.
Broken(slots) == \E s \in Seats : slots[s].kind = "fault"

\* The grab, or the pointer that its callbacks use, is gone.
Stale(g) ==
    LET live == {s \in Seats : pointer[s] # "dead"}
    IN  CASE g.kind = "freed" -> TRUE
          [] g.kind = "move" -> move.seat \notin live
          [] g.kind = "layer" -> lpopup[g.of].seat \notin live
          [] OTHER -> FALSE

\* Both end whatever grab is in the slot, not only the move.
MoveEnd(slots) == IF move.active /\ move.seat # NONE THEN EndGrab(slots, move.seat, Move) ELSE slots
MoveEndFor(slots, t) == IF move.handle = t THEN MoveEnd(slots) ELSE slots

\* The owner of the grab believes to hold it.
Holds(g) ==
    CASE g.kind = "popup" -> popup[g.of] # NONE /\ popup[g.of].active
      [] g.kind = "layer" -> lpopup[g.of] # NONE /\ lpopup[g.of].active
      [] g.kind = "move" -> move.active

InSlot(slots, g) == \E s \in Seats : slots[s] \in {g, Freed(g), Fault(g)}

\* A step gives the slots and the owners their new states.  A grab that left a
\* slot while its owner still believes to hold it was displaced.
Settle ==
    /\ cancelled' = {g \in cancelled : InSlot(grab_slot', g)}
    /\ displaced' = {g \in displaced \cup {grab_slot[s] : s \in {r \in Seats : grab_slot'[r] # grab_slot[r]}} :
                        OfShell(g) /\ (Holds(g)' \/ \E s \in Seats : grab_slot'[s] = Fault(g))}

\* The move lets go of its window; move_grab.pointer stays.
MoveOver == [move EXCEPT !.active = FALSE, !.handle = NONE]
-----------------------------------------------------------------------------
(* The interactive move.                                                      *)

BeginInteractiveMove(t) ==
    /\ ~move.active /\ t \in windows /\ GrabSeat # NONE
    /\ move' = [active |-> TRUE, handle |-> t, seat |-> GrabSeat]
    /\ UNCHANGED <<pointer, windows, popup, lpopup>>
    /\ grab_slot' = StartGrab(grab_slot, GrabSeat, Move)
    /\ Settle

\* Any button release.  The callback runs from the slot of seat s, and ends the
\* grab on grab->pointer: the pointer it was last started on.
MoveButtonReleased(s) ==
    /\ grab_slot[s] = Move /\ HasPointer(s) /\ ~Stale(Move) /\ move.active
    /\ grab_slot' = EndGrab(grab_slot, move.seat, Move)
    /\ move' = MoveOver
    /\ UNCHANGED <<pointer, windows, popup, lpopup>>
    /\ Settle
-----------------------------------------------------------------------------
(* The popup of a toplevel.                                                   *)

\* One popup per toplevel: an older one is dismissed and torn down first.  The
\* serial is checked against the devices of the seat that will be grabbed, so
\* without a pointer anywhere the request is an error.
ShowPopup(t) ==
    /\ t \in windows /\ GrabSeat # NONE
    /\ popup' = [popup EXCEPT ![t] = [active |-> TRUE, seat |-> GrabSeat]]
    /\ UNCHANGED <<pointer, windows, lpopup, move>>
    /\ LET cleared == IF popup[t] = NONE THEN grab_slot ELSE PopupTeardown(grab_slot, t)
       IN  grab_slot' = StartGrab(cleared, GrabSeat, Pop(t))
    /\ Settle

\* A press outside ends the grab and dismisses; the object waits for the shell
\* to destroy it.
PopupOutsideClick(s, t) ==
    /\ grab_slot[s] = Pop(t) /\ HasPointer(s)
    /\ popup' = [popup EXCEPT ![t] = Idle]
    /\ UNCHANGED <<pointer, windows, lpopup, move>>
    /\ grab_slot' = IF popup[t].active THEN EndGrab(grab_slot, popup[t].seat, Pop(t)) ELSE grab_slot
    /\ Settle

\* The shell destroys the popup object, or its surface.
PopupGone(t) ==
    /\ popup[t] # NONE
    /\ popup' = [popup EXCEPT ![t] = NONE]
    /\ UNCHANGED <<pointer, windows, lpopup, move>>
    /\ grab_slot' = PopupTeardown(grab_slot, t)
    /\ Settle
-----------------------------------------------------------------------------
(* The popup of a layer surface.                                              *)

GetPopup(l) ==
    /\ lpopup[l] = NONE
    /\ lpopup' = [lpopup EXCEPT ![l] = NoGrab]
    /\ UNCHANGED <<pointer, grab_slot, cancelled, displaced, windows, popup, move>>

\* xdg_popup.grab on seat s.  A grab that was replaced still counts as active,
\* so asking again changes nothing.
LayerGrab(l, s) ==
    /\ lpopup[l] # NONE /\ lpopup[l].res /\ HasPointer(s) /\ ~lpopup[l].active
    /\ lpopup' = [lpopup EXCEPT ![l] = [res |-> TRUE, active |-> TRUE, grabSeat |-> s, seat |-> s]]
    /\ UNCHANGED <<pointer, windows, popup, move>>
    /\ grab_slot' = StartGrab(grab_slot, s, Layer(l))
    /\ Settle

\* The resource is forgotten first: the popup is dismissed once.
LayerOutsideClick(s, l) ==
    /\ grab_slot[s] = Layer(l) /\ HasPointer(s) /\ ~Stale(Layer(l))
    /\ grab_slot' = IF lpopup[l].active THEN EndGrab(grab_slot, lpopup[l].seat, Layer(l)) ELSE grab_slot
    /\ lpopup' = [lpopup EXCEPT ![l].res = FALSE, ![l].active = FALSE]
    /\ UNCHANGED <<pointer, windows, popup, move>>
    /\ Settle

\* The popup's resource, its surface or its layer surface goes.
LayerPopupGone(l) ==
    /\ lpopup[l] # NONE
    /\ lpopup' = [lpopup EXCEPT ![l] = NONE]
    /\ UNCHANGED <<pointer, windows, popup, move>>
    /\ grab_slot' = LayerPopupDestroy(grab_slot, l)
    /\ Settle
-----------------------------------------------------------------------------
(* libweston: a drag, devices and seats.                                      *)

StartDrag(s) ==
    /\ HasPointer(s)
    /\ UNCHANGED <<pointer, windows, popup, lpopup, move>>
    /\ grab_slot' = StartGrab(grab_slot, s, Core)
    /\ Settle

EndDrag(s) ==
    /\ grab_slot[s] = Core /\ HasPointer(s)
    /\ UNCHANGED <<pointer, windows, popup, lpopup, move>>
    /\ grab_slot' = [grab_slot EXCEPT ![s] = Default]
    /\ Settle

GrabPlugPointer(s) ==
    /\ pointer[s] = "off"
    /\ pointer' = [pointer EXCEPT ![s] = "on"]
    /\ UNCHANGED <<grab_slot, cancelled, displaced, windows, popup, lpopup, move>>

\* The cancel callbacks.  Those of the shell's grabs note that they are
\* inactive and leave the slot; a drag ends itself.
CancelPopup(grab) ==
    [t \in Toplevels |-> IF grab = Pop(t) THEN [popup[t] EXCEPT !.active = FALSE] ELSE popup[t]]
CancelLayer(grab) ==
    [l \in LayerPopups |-> IF grab = Layer(l) THEN [lpopup[l] EXCEPT !.active = FALSE] ELSE lpopup[l]]
CancelMove(grab) ==
    IF grab = Move THEN MoveOver ELSE move

\* The last pointing device of a seat: weston_seat_release_pointer.
GrabUnplugPointer(s) ==
    /\ pointer[s] = "on" /\ grab_slot[s].kind # "freed"
    /\ pointer' = [pointer EXCEPT ![s] = "off"]
    /\ popup' = CancelPopup(grab_slot[s])
    /\ lpopup' = CancelLayer(grab_slot[s])
    /\ move' = CancelMove(grab_slot[s])
    /\ grab_slot' = IF grab_slot[s] = Core THEN [grab_slot EXCEPT ![s] = Default] ELSE grab_slot
    /\ cancelled' = cancelled \cup {g \in {grab_slot[s]} : OfShell(g)}
    /\ displaced' = {g \in displaced : Holds(g)'}
    /\ UNCHANGED <<windows>>

\* The pointer is freed with its seat; only layer popups listen.
SeatDestroyed(s) ==
    /\ pointer[s] = "off"
    /\ pointer' = [pointer EXCEPT ![s] = "dead"]
    /\ lpopup' = [l \in LayerPopups |->
                    IF lpopup[l] # NONE /\ lpopup[l].grabSeat = s
                    THEN [lpopup[l] EXCEPT !.grabSeat = NONE, !.active = FALSE, !.seat = NONE]
                    ELSE lpopup[l]]
    /\ grab_slot' = [grab_slot EXCEPT ![s] = Default]
    /\ UNCHANGED <<windows, popup, move>>
    /\ cancelled' = {g \in cancelled : InSlot(grab_slot', g)}
    /\ displaced' = {g \in displaced : Holds(g)'}

\* Any event of the pointer, or the cancellation at an unplug, calls the grab in
\* the slot.  After an unplug under the grab its owner may be freed in the slot,
\* and a move or a layer popup may have been started again on another seat's
\* pointer, which its callbacks use (qdwin.c:3924, 14862).
CalledThrough(s) ==
    /\ HasPointer(s) /\ Stale(grab_slot[s])
    /\ UNCHANGED <<pointer, windows, popup, lpopup, move>>
    /\ grab_slot' = [grab_slot EXCEPT ![s] = Fault(IF @.kind = "freed" THEN @.of ELSE @)]
    /\ Settle
-----------------------------------------------------------------------------
(* Windows, the shell, the lock and outputs.                                  *)

WindowAdded(t) ==
    /\ t \notin windows
    /\ windows' = windows \cup {t}
    /\ UNCHANGED <<pointer, grab_slot, cancelled, displaced, popup, lpopup, move>>

\* qdwin_toplevel_release_dependents: the popup, then the move.
WindowRemoved(t) ==
    /\ t \in windows
    /\ windows' = windows \ {t}
    /\ popup' = [popup EXCEPT ![t] = NONE]
    /\ LET gone == IF popup[t] = NONE THEN grab_slot ELSE PopupTeardown(grab_slot, t)
       IN  grab_slot' = MoveEndFor(gone, t)
    /\ move' = IF move.handle = t THEN MoveOver ELSE move
    /\ UNCHANGED <<pointer, lpopup>>
    /\ Settle

\* The shell unbinds; its popup objects are objects of their own.
ShellUnbinds ==
    /\ move.active
    /\ grab_slot' = MoveEnd(grab_slot)
    /\ move' = MoveOver
    /\ UNCHANGED <<pointer, windows, popup, lpopup>>
    /\ Settle

\* An output goes: the shell's grabs are ended, owners first, and what is left
\* in a slot is cancelled and ended.
BoundarySlots ==
    LET afterPopups == FoldSet(LAMBDA t, acc : PopupTeardown(acc, t), grab_slot,
                               {t \in Toplevels : popup[t] # NONE})
        afterLayers == FoldSet(LAMBDA l, acc : LayerPopupDestroy(acc, l), afterPopups,
                               {l \in LayerPopups : lpopup[l] # NONE})
        afterMove == MoveEnd(afterLayers)
    IN  [s \in Seats |-> IF ~HasPointer(s) THEN afterMove[s]
                         ELSE IF afterMove[s].kind = "freed" THEN Fault(afterMove[s].of) ELSE Default]

OutputBoundary ==
    /\ popup' = [t \in Toplevels |-> NONE]
    /\ lpopup' = [l \in LayerPopups |-> NONE]
    /\ grab_slot' = BoundarySlots
    /\ move' = MoveOver
    /\ UNCHANGED <<pointer, windows>>
    /\ Settle

GrabStep ==
    \/ \E t \in Toplevels : \/ BeginInteractiveMove(t) \/ ShowPopup(t) \/ PopupGone(t)
                            \/ WindowAdded(t) \/ WindowRemoved(t)
    \/ \E l \in LayerPopups : GetPopup(l) \/ LayerPopupGone(l)
    \/ \E s \in Seats : \/ MoveButtonReleased(s) \/ StartDrag(s) \/ EndDrag(s)
                        \/ GrabPlugPointer(s) \/ GrabUnplugPointer(s) \/ SeatDestroyed(s)
                        \/ CalledThrough(s)
                        \/ \E t \in Toplevels : PopupOutsideClick(s, t)
                        \/ \E l \in LayerPopups : LayerGrab(l, s) \/ LayerOutsideClick(s, l)
    \/ ShellUnbinds \/ OutputBoundary

\* Once freed memory was used nothing is known.
GrabUndefined == Broken(grab_slot) /\ UNCHANGED grabVars

GrabNext ==
    \/ ~Broken(grab_slot) /\ GrabStep
    \/ GrabUndefined

GrabSpec == GrabInit /\ [][GrabNext]_grabVars
-----------------------------------------------------------------------------
\* The object a slot's grab is part of exists and knows that it holds it.
GrabIsOwned(s) ==
    CASE grab_slot[s].kind = "popup" ->
            popup[grab_slot[s].of] # NONE /\ popup[grab_slot[s].of].active /\ popup[grab_slot[s].of].seat = s
      [] grab_slot[s].kind = "layer" ->
            lpopup[grab_slot[s].of] # NONE /\ lpopup[grab_slot[s].of].active /\ lpopup[grab_slot[s].of].seat = s
      [] grab_slot[s].kind = "move" -> move.active /\ move.seat = s /\ move.handle \in windows
      [] OTHER -> grab_slot[s] \in {Core, Default}

\* The grab in a slot belongs to a live object that knows it holds it, except
\* after an unplug under the grab, whose cancel callbacks leave the slot as it is
\* (qdwin.c:4007, 4279, 14948).  Freed memory is used in two cases only, both of
\* which the code can reach.  A toplevel's popup or a move ends its grab on the
\* pointer of a destroyed seat (qdwin.c:4930, 4036, 9595): then another grab had
\* taken its place before the seat went; one that kept its slot was told, and a
\* layer popup, which listens for its seat (14740), never does it.  Or an event
\* goes through a slot to a grab that is freed or whose pointer is: then that
\* grab had been cancelled by an unplug and left in the slot.
GrabsLive ==
    /\ \A s \in Seats :
          \/ GrabIsOwned(s)
          \/ \E g \in cancelled : grab_slot[s] \in {g, Freed(g)}
          \/ grab_slot[s].kind = "fault"
    /\ \A s \in Seats :
          grab_slot[s].kind = "fault" =>
             LET g == grab_slot[s].of
             IN  IF pointer[s] = "dead" THEN g \in displaced /\ g.kind # "layer" ELSE g \in cancelled

-----------------------------------------------------------------------------
(* Who owns the image under a pointer: the helper's cached sprites, the       *)
(* clients' set_cursor and wp_cursor_shape devices, and the default cursor    *)
(* that fills in when nobody has set one.  The solid-colour debugging sprite  *)
(* is left out.                                                               *)

CONSTANTS
    Pointers,
    Surfaces,    \* surfaces with the cursor role
    Devices     \* wp_cursor_shape devices

Shapes == {"default", "named"}

VARIABLES
    plugged,    \* pointers of seats with a pointing device
    alive,      \* pointer objects not freed
    focused,    \* pointers over a client's surface
    surf,       \* live surfaces
    mapped,
    cursor_slot,  \* cursor_sprites[shape].surface
    sprite,     \* pointer->sprite: [surface, by], or NONE
    private,    \* surface->committed_private
    device,     \* shape device: [pointer, stale] or NONE
    retry       \* the retry timer is armed

cursorVars == <<plugged, alive, focused, surf, mapped, cursor_slot, sprite, private, device, retry>>

\* by: the shape device that made the view, or NONE.
Sprite == [surface : Surfaces, by : Devices \cup {NONE}]

CursorTypeOK ==
    /\ plugged \subseteq Pointers /\ alive \subseteq Pointers /\ focused \subseteq Pointers
    /\ surf \subseteq Surfaces /\ mapped \subseteq Surfaces
    /\ cursor_slot \in [Shapes -> Surfaces \cup {NONE}]
    /\ sprite \in [Pointers -> Sprite \cup {NONE}]
    /\ private \in [Surfaces -> Pointers \cup {NONE}]
    /\ device \in [Devices -> [pointer : Pointers \cup {NONE}] \cup {NONE}]
    /\ retry \in BOOLEAN

CursorInit ==
    /\ plugged = {} /\ alive = {} /\ focused = {} /\ surf = {} /\ mapped = {}
    /\ cursor_slot = [h \in Shapes |-> NONE]
    /\ sprite = [p \in Pointers |-> NONE]
    /\ private = [x \in Surfaces |-> NONE]
    /\ device = [v \in Devices |-> NONE]
    /\ retry = FALSE
-----------------------------------------------------------------------------
\* The images of the pointers as one value, so that steps can be chained.
Now == [sprite |-> sprite, private |-> private, mapped |-> mapped]

Become(st) ==
    /\ sprite' = st.sprite /\ private' = st.private /\ mapped' = st.mapped

\* qdwin_pointer_unmap_sprite
Unmapped(st, p) ==
    IF st.sprite[p] = NONE THEN st
    ELSE LET x == st.sprite[p].surface
         IN  [sprite  |-> [st.sprite EXCEPT ![p] = NONE],
              private |-> IF st.private[x] = p THEN [st.private EXCEPT ![x] = NONE] ELSE st.private,
              mapped  |-> st.mapped \ {x}]

\* libweston's pointer_unmap_sprite takes the commit handler away from the
\* surface whoever it belongs to.
UnmappedByWeston(st, p) ==
    IF st.sprite[p] = NONE THEN st
    ELSE LET x == st.sprite[p].surface
         IN  [sprite  |-> [st.sprite EXCEPT ![p] = NONE],
              private |-> [st.private EXCEPT ![x] = NONE],
              mapped  |-> st.mapped \ {x}]

\* qdwin_install_cursor_sprite_view
Installed(st, p, x, by) ==
    LET u == Unmapped(st, p)
    IN  [sprite  |-> [u.sprite EXCEPT ![p] = [surface |-> x, by |-> by]],
         private |-> [u.private EXCEPT ![x] = p],
         mapped  |-> u.mapped \cup {x}]

\* qdwin_install_default_cursor_on_pointer, where no sprite is set.
Defaulted(st, p) ==
    IF st.sprite[p] = NONE /\ cursor_slot["default"] # NONE
    THEN Installed(st, p, cursor_slot["default"], NONE) ELSE st

\* The shape device gives up its view if the pointer still shows it.
TornDown(st, v) ==
    LET p == device[v].pointer
    IN  IF p # NONE /\ st.sprite[p] # NONE /\ st.sprite[p].by = v THEN Unmapped(st, p) ELSE st

CreateSurface(x) ==
    /\ x \notin surf /\ surf' = surf \cup {x}
    /\ UNCHANGED <<plugged, alive, focused, mapped, cursor_slot, sprite, private, device, retry>>

\* The views of a surface die with it; its slot and its pointers forget it.
SurfaceDestroyed(x) ==
    /\ x \in surf /\ surf' = surf \ {x} /\ mapped' = mapped \ {x}
    /\ cursor_slot' = [h \in Shapes |-> IF cursor_slot[h] = x THEN NONE ELSE cursor_slot[h]]
    /\ sprite' = [p \in Pointers |-> IF sprite[p] # NONE /\ sprite[p].surface = x THEN NONE ELSE sprite[p]]
    /\ private' = [private EXCEPT ![x] = NONE]
    /\ UNCHANGED <<plugged, alive, focused, device, retry>>

\* qdwin_handle_set_cursor_sprite: one surface per shape; registering the
\* default cursor gives it to every pointer that has none.
SetCursorSprite(h, x) ==
    /\ x \in surf /\ \A g \in Shapes : cursor_slot[g] # x
    /\ cursor_slot' = [cursor_slot EXCEPT ![h] = x]
    /\ sprite' = [p \in Pointers |->
          IF h = "default" /\ p \in plugged /\ sprite[p] = NONE
          THEN [surface |-> x, by |-> NONE] ELSE sprite[p]]
    /\ LET got == {p \in plugged : h = "default" /\ sprite[p] = NONE}
       IN  /\ IF got = {} THEN UNCHANGED <<private, mapped>>
              ELSE /\ \E p \in got : private' = [private EXCEPT ![x] = p]
                   /\ mapped' = mapped \cup {x}
           /\ retry' = (retry \/ (h = "default" /\ plugged = {}))
    /\ UNCHANGED <<plugged, alive, focused, surf, device>>

ClearCursorSprite(h) ==
    /\ cursor_slot[h] # NONE /\ cursor_slot' = [cursor_slot EXCEPT ![h] = NONE]
    /\ UNCHANGED <<plugged, alive, focused, surf, mapped, sprite, private, device, retry>>

\* A commit to a cursor surface: the handler places and maps its pointer's view.
SurfaceCommit(x) ==
    /\ x \in surf /\ private[x] # NONE /\ private[x] \in alive
    /\ sprite[private[x]] # NONE /\ sprite[private[x]].surface = x
    /\ mapped' = mapped \cup {x}
    /\ UNCHANGED <<plugged, alive, focused, surf, cursor_slot, sprite, private, device, retry>>

\* A pointing device appears: the tracker listens and installs the default.
CursorPlugPointer(p) ==
    /\ p \notin plugged
    /\ plugged' = plugged \cup {p} /\ alive' = alive \cup {p}
    /\ Become(Defaulted(Now, p))
    /\ UNCHANGED <<focused, surf, cursor_slot, device, retry>>

\* The last device goes: focus is lost (which may install the default), then
\* the image is taken away.
CursorUnplugPointer(p) ==
    /\ p \in plugged
    /\ plugged' = plugged \ {p} /\ focused' = focused \ {p}
    /\ Become(UnmappedByWeston(Defaulted(Now, p), p))
    /\ UNCHANGED <<alive, surf, cursor_slot, device, retry>>

\* The seat goes with its pointer: devices hear of it first.
PointerDestroyed(p) ==
    /\ p \in alive
    /\ alive' = alive \ {p} /\ plugged' = plugged \ {p} /\ focused' = focused \ {p}
    /\ Become(UnmappedByWeston(Now, p))
    /\ device' = [v \in Devices |-> IF device[v] # NONE /\ device[v].pointer = p
                                    THEN [pointer |-> NONE] ELSE device[v]]
    /\ UNCHANGED <<surf, cursor_slot, retry>>

FocusEnters(p) ==
    /\ p \in plugged \ focused /\ focused' = focused \cup {p}
    /\ UNCHANGED <<plugged, alive, surf, mapped, cursor_slot, sprite, private, device, retry>>

\* qdwin_default_cursor_on_focus_changed
FocusLeaves(p) ==
    /\ p \in focused /\ focused' = focused \ {p}
    /\ Become(Defaulted(Now, p))
    /\ UNCHANGED <<plugged, alive, surf, cursor_slot, device, retry>>

\* The default grab's motion handler.
CursorMotion(p) ==
    /\ p \in plugged /\ sprite[p] = NONE /\ cursor_slot["default"] # NONE
    /\ Become(Defaulted(Now, p))
    /\ UNCHANGED <<plugged, alive, focused, surf, cursor_slot, device, retry>>

\* libweston's pointer_set_cursor, from the client under the pointer.
ClientSetCursor(p, x) ==
    /\ p \in focused /\ x \in surf /\ ~(sprite[p] # NONE /\ sprite[p].surface = x)
    /\ LET u == UnmappedByWeston(Now, p)
       IN  Become([sprite  |-> [u.sprite EXCEPT ![p] = [surface |-> x, by |-> NONE]],
                   private |-> [u.private EXCEPT ![x] = p],
                   mapped  |-> u.mapped \cup {x}])
    /\ UNCHANGED <<plugged, alive, focused, surf, cursor_slot, device, retry>>

ClientHidesCursor(p) ==
    /\ p \in focused /\ sprite[p] # NONE
    /\ Become(UnmappedByWeston(Now, p))
    /\ UNCHANGED <<plugged, alive, focused, surf, cursor_slot, device, retry>>

\* qdwin_resolve_first_pointer: a device serves the first pointer there is.
GetShapeDevice(v) ==
    /\ device[v] = NONE
    /\ IF plugged = {} THEN device' = [device EXCEPT ![v] = [pointer |-> NONE]]
       ELSE \E p \in plugged : device' = [device EXCEPT ![v] = [pointer |-> p]]
    /\ UNCHANGED <<plugged, alive, focused, surf, mapped, cursor_slot, sprite, private, retry>>

SetShape(v, h) ==
    /\ device[v] # NONE /\ device[v].pointer # NONE /\ cursor_slot[h] # NONE
    /\ Become(Installed(TornDown(Now, v), device[v].pointer, cursor_slot[h], v))
    /\ UNCHANGED <<plugged, alive, focused, surf, cursor_slot, device, retry>>

ShapeDeviceDestroyed(v) ==
    /\ device[v] # NONE /\ device' = [device EXCEPT ![v] = NONE]
    /\ Become(TornDown(Now, v))
    /\ UNCHANGED <<plugged, alive, focused, surf, cursor_slot, retry>>

\* The retry comes once, a second after the default was registered.
RetryTimer ==
    /\ retry /\ retry' = FALSE
    /\ sprite' = [p \in Pointers |->
          IF p \in plugged /\ sprite[p] = NONE /\ cursor_slot["default"] # NONE
          THEN [surface |-> cursor_slot["default"], by |-> NONE] ELSE sprite[p]]
    /\ LET got == {p \in plugged : sprite[p] = NONE}
       IN  IF cursor_slot["default"] = NONE \/ got = {} THEN UNCHANGED <<private, mapped>>
           ELSE /\ \E p \in got : private' = [private EXCEPT ![cursor_slot["default"]] = p]
                /\ mapped' = mapped \cup {cursor_slot["default"]}
    /\ UNCHANGED <<plugged, alive, focused, surf, cursor_slot, device>>

CursorNext ==
    \/ RetryTimer
    \/ \E x \in Surfaces : CreateSurface(x) \/ SurfaceDestroyed(x) \/ SurfaceCommit(x)
    \/ \E h \in Shapes : ClearCursorSprite(h) \/ \E x \in Surfaces : SetCursorSprite(h, x)
    \/ \E p \in Pointers :
          \/ CursorPlugPointer(p) \/ CursorUnplugPointer(p) \/ PointerDestroyed(p)
          \/ FocusEnters(p) \/ FocusLeaves(p) \/ CursorMotion(p) \/ ClientHidesCursor(p)
          \/ \E x \in Surfaces : ClientSetCursor(p, x)
    \/ \E v \in Devices : GetShapeDevice(v) \/ ShapeDeviceDestroyed(v) \/ \E h \in Shapes : SetShape(v, h)

CursorSpec == CursorInit /\ [][CursorNext]_cursorVars
-----------------------------------------------------------------------------
\* A commit to a cursor surface always finds the pointer it was set on, still
\* there and still showing that surface (the handlers read committed_private,
\* and libweston's asserts it); a pointer shows only live surfaces, and slots
\* and shape devices point only to live objects.
CommitFindsItsPointer ==
    /\ \A x \in Surfaces : private[x] # NONE =>
          /\ x \in surf /\ private[x] \in alive
          /\ sprite[private[x]] # NONE /\ sprite[private[x]].surface = x
    /\ \A p \in Pointers : sprite[p] # NONE => p \in alive /\ sprite[p].surface \in surf
    /\ \A h \in Shapes : cursor_slot[h] # NONE => cursor_slot[h] \in surf
    /\ \A v \in Devices : device[v] # NONE => device[v].pointer \in alive \cup {NONE}

-----------------------------------------------------------------------------
(* The geometry of a confined pointer: the outline of a region, the clamping of *)
(* a motion to it and the warp into it. A region is a set of cells of a small   *)
(* grid, as pixman keeps it: boxes in bands. One unit is wl_fixed's quantum.    *)

CONSTANTS
    Width, Height,  \* of the grid, in cells
    Side,           \* of a cell, in units
    Reach           \* of one motion, in units

VARIABLES
    region, pos,
    outline,    \* what region_to_outline makes of the region
    bad         \* an assertion of the outline has failed

confineVars == <<region, pos, outline, bad>>

Cells == (0..Width - 1) \X (0..Height - 1)
Regions == SUBSET Cells \ {{}}
Points == (-1..Width * Side) \X (-1..Height * Side)
In(p, r) == <<p[1] \div Side, p[2] \div Side>> \in r
-----------------------------------------------------------------------------
\* The maximal runs of cells in a row, and the boxes of the region: bands of rows with
\* equal runs, from the top, each from the left.
RunsOf(r, y) ==
    {<<x1, x2>> \in (0..Width - 1) \X (1..Width) :
        /\ x1 < x2 /\ \A x \in x1..x2 - 1 : <<x, y>> \in r
        /\ <<x1 - 1, y>> \notin r /\ <<x2, y>> \notin r}

RowOf(runs, y1, y2) ==
    LET ord[n \in 0..Width] ==
          IF n = 0 THEN <<>>
          ELSE LET here == {run \in runs : run[1] = n - 1}
               IN  IF here = {} THEN ord[n - 1]
                   ELSE Append(ord[n - 1], [x1 |-> Side * (n - 1),
                                            x2 |-> Side * (CHOOSE run \in here : TRUE)[2],
                                            y1 |-> Side * y1, y2 |-> Side * y2])
    IN  ord[Width]

BoxesOf(r) ==
    LET Same(y) == y > 0 /\ RunsOf(r, y) = RunsOf(r, y - 1)
        Last(y) == CHOOSE z \in y..Height - 1 : /\ \A w \in y + 1..z : Same(w)
                                                /\ z = Height - 1 \/ ~Same(z + 1)
        all[y \in 0..Height] ==
          IF y = Height THEN <<>>
          ELSE (IF Same(y) THEN <<>> ELSE RowOf(RunsOf(r, y), y, Last(y) + 1)) \o all[y + 1]
    IN  all[0]

\* add_border.
Border(ax, ay, bx, by, dir) == [ax |-> ax, ay |-> ay, bx |-> bx, by |-> by, dir |-> dir]

\* compare_lines_x, as a merge sort uses it.
Before(a, b) == IF a.ax = b.ax THEN a.bx > b.bx ELSE a.ax < b.ax

\* wl_array_add moves the array when it grows, and add_non_overlapping_edges then writes
\* through a pointer into the old one: the write may be lost.
Moves(n) == n \in {1, 2, 4, 7, 13, 26}

\* One edge of add_non_overlapping_edges, after the edges before it.
AddEdge(s, b, lost) ==
    LET p == s.bs[s.prev]
        odd == p.ay # b.ay \/ (p.ax = b.ax /\ p.bx = b.bx) \/ p.ax > b.ax
        grown == Append(s.bs, Border(b.bx, b.by, p.bx, p.by, p.dir))
    IN  IF s.prev = 0 THEN [s EXCEPT !.bs = Append(@, b), !.prev = Len(s.bs) + 1]
        ELSE IF p.ax = b.ax THEN [s EXCEPT !.bs[s.prev].ax = b.bx, !.bad = @ \/ odd]
        ELSE IF p.bx = b.bx THEN [s EXCEPT !.bs[s.prev].bx = b.ax, !.bad = @ \/ odd]
        ELSE IF p.bx = b.ax THEN [s EXCEPT !.bs[s.prev].bx = b.bx, !.bad = @ \/ odd]
        ELSE IF p.bx >= b.ax
        THEN [bs |-> IF lost /\ Moves(Len(grown)) THEN grown
                     ELSE [grown EXCEPT ![s.prev].bx = b.ax],
              prev |-> Len(grown), bad |-> s.bad \/ odd]
        ELSE [bs |-> Append(s.bs, b), prev |-> Len(s.bs) + 1, bad |-> s.bad \/ odd]

\* add_non_overlapping_edges: the edges of two touching bands, less what they share.
Merge(boxes, above, below, end, st, lost) ==
    LET raw == [i \in above..end |->
                  IF i < below
                  THEN Border(boxes[i].x1, boxes[i].y2, boxes[i].x2, boxes[i].y2, "+y")
                  ELSE Border(boxes[i].x1, boxes[i].y1, boxes[i].x2, boxes[i].y1, "-y")]
        n == end - above + 1
        At(k) == CHOOSE i \in above..end :
                   Cardinality({j \in above..end : Before(raw[j], raw[i]) \/ (~Before(raw[i], raw[j]) /\ j < i)}) = k - 1
        step[k \in 0..n] ==
          IF k = 0 THEN [bs |-> st.bs, prev |-> 0, bad |-> st.bad]
          ELSE AddEdge(step[k - 1], raw[At(k)], lost)
    IN  [st EXCEPT !.bs = step[n].bs, !.bad = step[n].bad]

\* add_band_bottom_edges.
Bottoms(boxes, from, to, st) ==
    LET add == [k \in 1..to - from |->
                  LET b == boxes[from + k - 1] IN Border(b.x1, b.y2, b.x2, b.y2, "+y")]
    IN  [st EXCEPT !.bs = @ \o add]

\* The steps of region_to_outline for box i, each on what the one before left: the
\* bottoms of a band with nothing below it, the last band, a new band, and the borders
\* of the box itself. band and prevBand are indices, from one.
CloseGap(boxes, i, s) ==
    IF i > 1 /\ boxes[i].y1 # s.top /\ boxes[i].y1 # boxes[i - 1].y2
    THEN Bottoms(boxes, s.band, i, [s EXCEPT !.roof = boxes[i].y1]) ELSE s

LastBand(boxes, i, s, lost) ==
    IF boxes[i].y1 = s.roof \/ i # Len(boxes) THEN s
    ELSE IF boxes[i].y1 # s.top THEN Merge(boxes, s.band, i, i, s, lost)
    ELSE Merge(boxes, s.prevBand, s.band, i, s, lost)

NextBand(boxes, i, s, lost) ==
    IF boxes[i].y1 \in {boxes[1].y1, s.top} THEN s
    ELSE [(IF s.top # s.roof THEN Merge(boxes, s.prevBand, s.band, i - 1, s, lost) ELSE s)
          EXCEPT !.prevBand = s.band, !.band = i]

OwnBorders(boxes, b, s) ==
    LET roofs == IF b.y1 = s.roof THEN <<Border(b.x1, b.y1, b.x2, b.y1, "-y")>> ELSE <<>>
        floors == IF b.y2 = boxes[Len(boxes)].y2
                  THEN <<Border(b.x1, b.y2, b.x2, b.y2, "+y")>> ELSE <<>>
        sides == <<Border(b.x1, b.y1, b.x1, b.y2, "-x"), Border(b.x2, b.y1, b.x2, b.y2, "+x")>>
    IN  [s EXCEPT !.bs = @ \o roofs \o floors \o sides, !.top = b.y1]

AddBox(boxes, i, s, lost) ==
    OwnBorders(boxes, boxes[i],
               NextBand(boxes, i, LastBand(boxes, i, CloseGap(boxes, i, s), lost), lost))

\* region_to_outline.
OutlineOf(boxes, lost) ==
    LET step[i \in 0..Len(boxes)] ==
          IF i = 0
          THEN [bs |-> <<>>, bad |-> FALSE, top |-> 0, roof |-> boxes[1].y1, band |-> 1, prevBand |-> 1]
          ELSE AddBox(boxes, i, step[i - 1], lost)
    IN  step[Len(boxes)]

Outline(r, lost) == OutlineOf(BoxesOf(r), lost)
-----------------------------------------------------------------------------
Horizontal(b) == b.ay = b.by
Cross(ax, ay, bx, by) == ax * by - ay * bx
Abs(x) == IF x < 0 THEN -x ELSE x

\* lines_intersect of a border and the motion from p to q: <<num, den>>, how far along
\* the motion they meet, or <<>>.
Meets(b, p, q) ==
    LET rx == b.bx - b.ax  ry == b.by - b.ay
        sx == q[1] - p[1]  sy == q[2] - p[2]
        sxr == Cross(sx, sy, rx, ry)
        Norm(num, den) == IF den < 0 THEN <<-num, -den>> ELSE <<num, den>>
        t == Norm(Cross(p[1] - b.ax, p[2] - b.ay, sx, sy), -sxr)
        u == Norm(Cross(b.ax - p[1], b.ay - p[2], rx, ry), sxr)
    IN  IF sxr = 0 \/ t[1] < 0 \/ t[1] > t[2] \/ u[1] < 0 \/ u[1] > u[2] THEN <<>> ELSE u

\* get_motion_directions.
Directions(p, q) ==
    (IF p[1] < q[1] THEN {"+x"} ELSE IF p[1] > q[1] THEN {"-x"} ELSE {})
    \cup (IF p[2] < q[2] THEN {"+y"} ELSE IF p[2] > q[2] THEN {"-y"} ELSE {})

\* get_closest_border, is_border_blocking_directions: the indices of the nearest blocking
\* borders met; the code takes the first.
Closest(bs, p, q, dirs) ==
    LET met == {i \in DOMAIN bs : bs[i].dir \in dirs /\ Meets(bs[i], p, q) # <<>>}
        Nearer(i, j) == LET u == Meets(bs[i], p, q)
                            v == Meets(bs[j], p, q)
                        IN  u[1] * v[2] < v[1] * u[2]
    IN  {i \in met : \A j \in met : ~Nearer(j, i) /\ (j < i => Nearer(i, j))}

ClampTo(b, q) ==
    IF Horizontal(b) THEN <<q[1], IF b.dir = "+y" THEN b.ay - 1 ELSE b.ay>>
    ELSE <<IF b.dir = "+x" THEN b.ax - 1 ELSE b.ax, q[2]>>

\* The loop of weston_pointer_clamp_event_to_region: at most one clamp per axis.
Clamp(bs, p, q) ==
    LET step[k \in 0..2] ==
          IF k = 0 THEN [q |-> q, dirs |-> Directions(p, q)]
          ELSE LET s == step[k - 1]
                   c == Closest(bs, p, s.q, s.dirs)
               IN  IF c = {} THEN s
                   ELSE LET b == bs[CHOOSE i \in c : TRUE]
                        IN  [q |-> ClampTo(b, s.q),
                             dirs |-> s.dirs \ (IF Horizontal(b) THEN {"+y", "-y"} ELSE {"+x", "-x"})]
    IN  step[2].q

\* point_to_border_distance_2.
Distance(b, p) ==
    LET ox == IF p[1] < b.ax THEN b.ax ELSE IF p[1] > b.bx THEN b.bx ELSE p[1]
        oy == IF p[2] < b.ay THEN b.ay ELSE IF p[2] > b.by THEN b.by ELSE p[2]
    IN  (ox - p[1]) * (ox - p[1]) + (oy - p[2]) * (oy - p[2])

\* warp_to_behind_border.
Behind(b, p) ==
    LET In1(c, a, z) == IF c < a THEN a + 1 ELSE IF c > z THEN z - 1 ELSE c
    IN  CASE b.dir = "+x" -> <<b.ax - 1, In1(p[2], b.ay, b.by)>>
          [] b.dir = "-x" -> <<b.ax + 1, In1(p[2], b.ay, b.by)>>
          [] b.dir = "+y" -> <<In1(p[1], b.ax, b.bx), b.ay - 1>>
          [] b.dir = "-y" -> <<In1(p[1], b.ax, b.bx), b.ay + 1>>

\* maybe_warp_confined_pointer.
Warp(r, bs, p) ==
    IF In(p, r) THEN p
    ELSE LET i == CHOOSE i \in DOMAIN bs : \A j \in DOMAIN bs :
                    /\ Distance(bs[i], p) <= Distance(bs[j], p)
                    /\ j < i => Distance(bs[i], p) < Distance(bs[j], p)
         IN  Behind(bs[i], p)
-----------------------------------------------------------------------------
ConfineTypeOK == region \in Regions /\ pos \in Points /\ bad \in BOOLEAN

\* pointer_constraint_surface_committed: a confinement gets its region, and the pointer,
\* wherever it is, is warped into it. Points on an edge are left out: level with a far edge the
\* code leaves the pointer on it, one quantum outside.
ConfineInit ==
    /\ region \in Regions
    /\ \E lost \in BOOLEAN :
          LET o == Outline(region, lost) IN outline = o.bs /\ bad = o.bad
    /\ \E p \in Points : /\ p[1] % Side # 0 /\ p[2] % Side # 0
                         /\ pos = Warp(region, outline, p)

\* confined_pointer_grab_pointer_motion.
ConfineMotion(q) == pos' = Clamp(outline, pos, q) /\ UNCHANGED <<region, outline, bad>>

ConfineNext == \E q \in Points : Abs(q[1] - pos[1]) <= Reach /\ Abs(q[2] - pos[2]) <= Reach /\ ConfineMotion(q)

ConfineSpec == ConfineInit /\ [][ConfineNext]_confineVars
-----------------------------------------------------------------------------
\* Boxes of touching bands are apart, or one is wider than the other and over all of it.
Stepped(r) ==
    LET bs == BoxesOf(r)
        Over(a, b) == a.x1 <= b.x1 /\ b.x2 <= a.x2 /\ <<a.x1, a.x2>> # <<b.x1, b.x2>>
    IN  \A i, j \in DOMAIN bs : bs[i].y2 = bs[j].y1 =>
           \/ bs[i].x2 < bs[j].x1 \/ bs[j].x2 < bs[i].x1
           \/ Over(bs[i], bs[j]) \/ Over(bs[j], bs[i])

\* In every region of boxes that are stepped - with holes, concave corners, or in parts -
\* the warp lands inside, no motion up to a cell's side takes the pointer out, even when a
\* write to the outline was lost, and no assertion of the outline fails.
StaysInside == Stepped(region) => In(pos, region) /\ ~bad
=============================================================================
