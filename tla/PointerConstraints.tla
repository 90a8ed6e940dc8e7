------------------------- MODULE PointerConstraints -------------------------
(* Pointer locks and confinements: who is enabled, who holds the pointer's one   *)
(* grab slot, and what each client was told. The geometry is in Confinement: here *)
(* the pointer is inside a constraint's region or not, as the environment likes.  *)
EXTENDS Naturals, Sequences, SequencesExt

CONSTANTS
    Surfaces,   \* of clients, each with one view
    Flags       \* of weston_view_activate_input; qdwin's calls pass "configure" only

None == "none"

VARIABLES
    con,        \* surface |-> its constraint: st, life, kind, region
    told,       \* surface |-> the last event on its latest constraint object
    acts,       \* surface |-> how often a one-shot object was told "on"
    order,      \* the listeners of activate_signal: surfaces, oldest constraint first
    slot,       \* pointer->grab: a surface's constraint, "default" or "other"
    focus,      \* pointer->focus, as a surface
    kbd,        \* the keyboard's focus
    clicked,    \* the surface whose view has the current activate_serial
    mapped, plugged,
    dead        \* a NULL view is used, or an assertion fails

vars == <<con, told, acts, order, slot, focus, kbd, clicked, mapped, plugged, dead>>

NoCon == [st |-> "none", life |-> "oneshot", kind |-> "lock", region |-> "some"]

Now == [con |-> con, told |-> told, acts |-> acts, order |-> order, slot |-> slot,
        focus |-> focus, kbd |-> kbd, clicked |-> clicked, mapped |-> mapped,
        plugged |-> plugged, dead |-> dead]

Become(st) ==
    /\ con' = st.con /\ told' = st.told /\ acts' = st.acts /\ order' = st.order
    /\ slot' = st.slot /\ focus' = st.focus /\ kbd' = st.kbd /\ clicked' = st.clicked
    /\ mapped' = st.mapped /\ plugged' = st.plugged /\ dead' = st.dead

TypeOK ==
    /\ \A s \in Surfaces : /\ con[s].st \in {"none", "off", "on"}
                           /\ told[s] \in {"none", "off", "on"} /\ acts[s] \in 0..2
    /\ slot \in Surfaces \cup {"default", "other"} /\ focus \in Surfaces \cup {None}
    /\ kbd \in Surfaces \cup {None} /\ mapped \subseteq Surfaces /\ dead \in BOOLEAN

Init ==
    /\ con = [s \in Surfaces |-> NoCon]
    /\ told = [s \in Surfaces |-> "none"] /\ acts = [s \in Surfaces |-> 0]
    /\ order = <<>> /\ slot = "default" /\ focus = None /\ kbd = None
    /\ clicked = None /\ mapped = {} /\ plugged = TRUE /\ dead = FALSE
-----------------------------------------------------------------------------
\* default_grab_pointer_focus: what is under the pointer, unless a button is held.
Picks(st) == st.mapped \cup {None, st.focus}

\* weston_pointer_end_grab: whatever grab holds the slot.
EndGrab(st, f) == [st EXCEPT !.slot = "default", !.focus = f]

\* enable_pointer_constraint.
Enable(st, s) ==
    IF st.focus # s THEN st
    ELSE [st EXCEPT !.con[s].st = "on", !.told[s] = "on", !.slot = s,
                    !.acts[s] = IF st.con[s].life = "oneshot" /\ @ < 2 THEN @ + 1 ELSE @]

\* weston_pointer_constraint_disable.
Disable(st, s, f) == EndGrab([st EXCEPT !.con[s].st = "off", !.told[s] = "off"], f)

Destroy(st, s, f) ==
    LET quiet == IF st.con[s].st = "on" THEN Disable(st, s, f) ELSE st
    IN  [quiet EXCEPT !.con[s] = NoCon, !.order = SelectSeq(@, LAMBDA x : x # s)]

\* disable_pointer_constraint.
Deactivate(st, s, f) ==
    IF st.con[s].life = "oneshot" THEN Destroy(st, s, f) ELSE Disable(st, s, f)

\* maybe_enable_pointer_constraint.
MaybeEnable(st, s, inside) ==
    IF st.clicked = s /\ st.kbd = s /\ inside /\ st.con[s].region # "empty"
    THEN Enable(st, s) ELSE st

\* maybe_warp_confined_pointer: it uses the constraint's view, and an outline of its region.
Warp(st, s) ==
    [st EXCEPT !.dead = \/ @ \/ st.con[s].st # "on"
                        \/ st.con[s].region = "empty"]
-----------------------------------------------------------------------------
\* init_pointer_constraint, weston_pointer_constraint_create.
Create(s, life, kind, region, fullscreen, inside) ==
    /\ ~dead /\ con[s].st = "none"
    /\ LET st == [Now EXCEPT !.con[s] = [st |-> "off", life |-> life, kind |-> kind, region |-> region],
                             !.told[s] = "none", !.acts[s] = 0, !.order = Append(@, s)]
       IN  Become(IF fullscreen THEN Warp(Enable(st, s), s) ELSE MaybeEnable(st, s, inside))

\* locked_pointer_set_region, confined_pointer_set_region, and the commit that applies it:
\* pointer_constraint_surface_committed.
Commit(s, r) ==
    /\ ~dead /\ con[s].st # "none"
    /\ LET st == [Now EXCEPT !.con[s].region = r]
       IN  Become(IF con[s].kind = "confine" /\ con[s].st = "on" THEN Warp(st, s) ELSE st)

\* locked_pointer_destroy, confined_pointer_destroy, pointer_constraint_constrain_resource_destroyed.
ResourceDestroyed(s, f) ==
    /\ ~dead /\ con[s].st # "none" /\ f \in Picks(Now)
    /\ Become(Destroy(Now, s, f))

\* pointer_constraint_surface_activate of one constraint, when s is activated.
Heard(st, c, s, inside, f) ==
    IF ~st.plugged THEN st
    ELSE IF c = s /\ st.con[c].st = "off" THEN MaybeEnable(st, c, inside)
    ELSE IF c # s /\ st.con[c].st = "on" THEN Deactivate(st, c, f)
    ELSE st

\* weston_view_activate_input.
Activate(s, flag, inside, f) ==
    /\ ~dead /\ s \in mapped /\ f \in Picks(Now)
    /\ LET st == [Now EXCEPT !.kbd = s, !.clicked = IF flag = "clicked" THEN s ELSE None]
           all[k \in 0..Len(order)] ==
             IF k = 0 THEN st ELSE Heard(all[k - 1], order[k], s, inside, f)
       IN  Become(all[Len(order)])

\* weston_view_unmap: the focus is cleared first; then pointer_constraint_view_unmapped.
Unmapped(st, s, f) ==
    LET gone == [st EXCEPT !.mapped = @ \ {s}, !.kbd = IF @ = s THEN None ELSE @,
                           !.focus = IF @ = s THEN None ELSE @]
    IN  IF gone.con[s].st = "on" THEN Deactivate(gone, s, f) ELSE gone

Unmap(s, f) ==
    /\ ~dead /\ s \in mapped /\ f \in (mapped \ {s}) \cup {None}
    /\ Become(Unmapped(Now, s, f))

Map(s) == ~dead /\ s \notin mapped /\ Become([Now EXCEPT !.mapped = @ \cup {s}])

\* weston_surface_unref, the last reference.
SurfaceDestroyed(s, f) ==
    /\ ~dead /\ f \in (mapped \ {s}) \cup {None}
    /\ LET st == IF s \in mapped THEN Unmapped(Now, s, f) ELSE Now
       IN  Become([Destroy(st, s, f) EXCEPT !.clicked = IF @ = s THEN None ELSE @,
                                            !.told[s] = "none", !.acts[s] = 0])

\* The pointer moves, with the default grab.
PointerMoves(f) ==
    /\ ~dead /\ plugged /\ slot = "default" /\ f \in mapped \cup {None}
    /\ Become([Now EXCEPT !.focus = f])

\* A popup, a drag or a move takes the slot; it picks a focus of its own.
OtherGrab(f) ==
    /\ ~dead /\ plugged /\ slot # "other" /\ f \in Picks(Now)
    /\ Become([Now EXCEPT !.slot = "other", !.focus = f])

OtherEnds(f) ==
    /\ ~dead /\ slot = "other" /\ f \in Picks(Now)
    /\ Become(EndGrab(Now, f))

\* The cancel callback of whatever grab holds the slot.
Cancel(st, f) ==
    IF st.slot \in Surfaces THEN Deactivate(st, st.slot, f)
    ELSE IF st.slot = "other" THEN EndGrab(st, f) ELSE st

\* weston_seat_release_pointer, the last device; weston_seat_init_pointer.
Unplug(f) ==
    /\ ~dead /\ plugged /\ f \in mapped \cup {None}
    /\ Become([Cancel([Now EXCEPT !.focus = None], f) EXCEPT !.plugged = FALSE])

Plug == ~dead /\ ~plugged /\ Become([Now EXCEPT !.plugged = TRUE])

\* qdwin_output_boundary_transition: cancel, then no focus.
OutputBoundary(f) ==
    /\ ~dead /\ plugged /\ f \in Picks(Now)
    /\ Become([Cancel(Now, f) EXCEPT !.focus = None, !.kbd = None])

\* pointer_constraint_pointer_destroyed, for every constraint; another seat takes over.
SeatDestroyed ==
    /\ ~dead
    /\ LET all[k \in 0..Len(order)] ==
             IF k = 0 THEN Now ELSE Destroy(all[k - 1], order[k], None)
       IN  Become([all[Len(order)] EXCEPT !.slot = "default", !.focus = None, !.kbd = None, !.plugged = TRUE])

Restart ==
    /\ dead
    /\ con' = [s \in Surfaces |-> NoCon]
    /\ told' = [s \in Surfaces |-> "none"] /\ acts' = [s \in Surfaces |-> 0]
    /\ order' = <<>> /\ slot' = "default" /\ focus' = None /\ kbd' = None
    /\ clicked' = None /\ mapped' = {} /\ plugged' = TRUE /\ dead' = FALSE

Next ==
    \/ \E s \in Surfaces, life \in {"oneshot", "persistent"}, kind \in {"lock", "confine"},
          r \in {"some", "empty"}, fs, inside \in BOOLEAN : Create(s, life, kind, r, fs, inside)
    \/ \E s \in Surfaces, r \in {"some", "empty"} : Commit(s, r)
    \/ \E s \in Surfaces, f \in Surfaces \cup {None} : ResourceDestroyed(s, f) \/ Unmap(s, f) \/ SurfaceDestroyed(s, f)
    \/ \E s \in Surfaces, flag \in Flags, inside \in BOOLEAN, f \in Surfaces \cup {None} : Activate(s, flag, inside, f)
    \/ \E s \in Surfaces : Map(s)
    \/ \E f \in Surfaces \cup {None} : PointerMoves(f) \/ OtherGrab(f) \/ OtherEnds(f) \/ Unplug(f) \/ OutputBoundary(f)
    \/ Plug \/ SeatDestroyed \/ Restart

Spec == Init /\ [][Next]_vars
-----------------------------------------------------------------------------
\* Through creation, activation, other grabs, unmap, unplug and teardown in every order:
\* the slot never holds a constraint that is gone or was disabled; a client's last word
\* from its object is whether its constraint is enabled; an enabled one is on the screen,
\* a one-shot is enabled once; and a confinement that holds the slot has the focus, as
\* confined_pointer_grab_pointer_motion asserts.
ConstraintsHonest ==
    \A s \in Surfaces :
       /\ slot = s => con[s].st = "on"
       /\ (con[s].st = "on") = (told[s] = "on")
       /\ con[s].st = "on" => s \in mapped
       /\ acts[s] <= 1
       /\ slot = s /\ con[s].kind = "confine" /\ ~dead => focus = s

=============================================================================
