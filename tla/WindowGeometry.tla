---------------------------- MODULE WindowGeometry --------------------------
(***************************************************************************)
(* The geometry of windows: maximised, fullscreen and tiled state with the   *)
(* rectangle each of them saves and restores, the interactive move, and the  *)
(* rescue of windows from an output that is removed.                         *)
(*                                                                           *)
(* A position is an output and a spot on it: "float" is any free place,      *)
(* "full" the output's origin, "work" that of its work area (a maximised     *)
(* window and a left tile share it), "mid" that of a right tile.  A size is  *)
(* "app" (the client's choice), "default" (800x600), "half", "work" or       *)
(* "full".  Minimised state, layers and workspaces do not touch geometry.    *)
(* Nested proxies, XWayland's configure feedback and the chrome around a     *)
(* window are left out.                                                      *)
(***************************************************************************)
EXTENDS Integers, Sequences

CONSTANTS Toplevels,
          Outputs,
          MaxStates,  \* bound: of maximised, fullscreen and tiled, how many at once (three: any)
          NONE

ASSUME WindowConstants == NONE \notin Outputs \cup Toplevels

VARIABLES win,      \* struct qdwin_toplevel of every toplevel
          outs,     \* compositor->output_list
          drag,     \* move_grab_handle while move_grab_active, else NONE
          ptr,      \* pointer->grab
          pointer,  \* a seat has a pointer
          shell,    \* qdwin->shell_bound
          locked,
          home,     \* history: the rectangle a toplevel last had while floating
          mixed     \* history: toplevels whose special states have overlapped

vars == <<win, outs, drag, ptr, pointer, shell, locked, home, mixed>>

Spots == {"float", "mid", "work", "full"}
Sizes == {"app", "default", "half", "work", "full"}
Edges == {"none", "left", "right"}
At(o, spot) == [out |-> o, spot |-> spot]
Origin == At(NONE, "float")       \* (0,0), where a view is created
Rect(p, s) == [pos |-> p, size |-> s]
\* A slot calloc left zero, or that no state will be restored from any more.
NoRect == Rect(Origin, "unset")

NoWindow == [st |-> "none", mapped |-> FALSE, max |-> FALSE, fs |-> FALSE,
             tiled |-> "none", pos |-> Origin, outer |-> "unset", saved |-> NoRect,
             tile_saved |-> NoRect]

Init ==
    /\ win = [t \in Toplevels |-> NoWindow]
    /\ outs = <<>>
    /\ drag = NONE
    /\ ptr = "default"
    /\ pointer = FALSE
    /\ shell = FALSE
    /\ locked = FALSE
    /\ home = [t \in Toplevels |-> NoRect]
    /\ mixed = {}

live(t) == win[t].st = "live"
special(w) == w.max \/ w.fs \/ w.tiled # "none"
states(w) ==
    (IF w.max THEN 1 ELSE 0) + (IF w.fs THEN 1 ELSE 0) + (IF w.tiled # "none" THEN 1 ELSE 0)
\* The outputs on the compositor's list, and the list without its i-th.
listed(o) == \E i \in DOMAIN outs : outs[i] = o
Without(i) == SubSeq(outs, 1, i - 1) \o SubSeq(outs, i + 1, Len(outs))
qdwin_primary_output == IF outs = <<>> THEN NONE ELSE Head(outs)

-----------------------------------------------------------------------------
(* What happens to one window.  A definition ending in _bad is a faulty      *)
(* variant of the one that follows it, kept to show that the properties      *)
(* notice the fault.                                                         *)

\* qdwin_toplevel_seed_outer_from_committed
seed_outer(w) ==
    IF w.outer # "unset" THEN w.outer ELSE "default"

\* Position and outer size; apply_inset sends the client its new size.
place(w, r) ==
    [w EXCEPT !.pos = r.pos, !.outer = r.size]

apply_fullscreen_geometry(w, o) ==
    IF o = NONE THEN w ELSE place(w, Rect(At(o, "full"), "full"))

\* Entered with no output, it changes nothing.
set_maximized(w, on) ==
    IF w.max = on \/ (on /\ qdwin_primary_output = NONE) THEN w
    ELSE IF on THEN [place(w, Rect(At(qdwin_primary_output, "work"), "work"))
                       EXCEPT !.saved = Rect(w.pos, seed_outer(w)), !.max = TRUE]
    ELSE [place(w, w.saved) EXCEPT !.max = FALSE, !.saved = IF w.fs THEN @ ELSE NoRect]

\* o: the output the client asked for, NONE for the primary one.
set_fullscreen(w, on, o) ==
    LET out == IF o = NONE THEN qdwin_primary_output ELSE o
    IN  IF w.fs = on THEN IF on THEN apply_fullscreen_geometry(w, out) ELSE w
        ELSE IF ~ on THEN [place(w, w.saved) EXCEPT !.fs = FALSE, !.saved = IF w.max THEN @ ELSE NoRect]
        ELSE IF out = NONE THEN w
        ELSE [apply_fullscreen_geometry(w, out)
                EXCEPT !.saved = Rect(w.pos, seed_outer(w)), !.fs = TRUE]

TileRect(o, edge) == Rect(At(o, IF edge = "left" THEN "work" ELSE "mid"), "half")

tile_slot_bad(w) ==
    Rect(w.pos, seed_outer(w))

\* Saved "only on the first tile", so that re-tiling keeps the floating geometry.
tile_slot(w) ==
    IF w.tiled = "none" THEN Rect(w.pos, seed_outer(w)) ELSE w.tile_saved

\* qdwin_output_at_global
output_at(p) == IF listed(p.out) THEN p.out ELSE qdwin_primary_output

clear_tiled(w) ==
    [w EXCEPT !.tiled = "none", !.tile_saved = NoRect]

set_tiled(w, edge) ==
    IF edge = "none"
    THEN IF w.tiled = "none" THEN w
         ELSE clear_tiled(place(w, w.tile_saved))
    ELSE LET w1 == set_fullscreen(set_maximized(w, FALSE), FALSE, NONE)
             o == output_at(w1.pos)
         IN  IF o = NONE THEN w1
             ELSE [place(w1, TileRect(o, edge)) EXCEPT !.tile_saved = tile_slot(w1), !.tiled = edge]

\* qdwin_rehome_outer_rect: clamped into the survivor's work area, at its origin if
\* there is no room to spare.
rehome_pos(r, survivor) ==
    IF r.size \in {"work", "full"} \/ r.pos = At(survivor, "full") THEN At(survivor, "work")
    ELSE IF r.pos.out = survivor THEN r.pos
    ELSE At(survivor, "float")

rehome_rect(r, survivor) ==
    IF r.size = "unset" THEN r ELSE Rect(rehome_pos(r, survivor), r.size)

rehome_saved(w, survivor) ==
    [w EXCEPT !.saved = rehome_rect(@, survivor), !.tile_saved = rehome_rect(@, survivor)]

rehome_toplevel(w, survivor) ==
    LET w1 == rehome_saved(w, survivor)
    IN  IF w.fs THEN apply_fullscreen_geometry(w1, survivor)
        ELSE IF w.max THEN place(w1, Rect(At(survivor, "work"), "work"))
        ELSE IF w.tiled # "none" THEN place(w1, TileRect(survivor, w.tiled))
        ELSE place(w1, rehome_rect(Rect(w.pos, seed_outer(w)), survivor))

-----------------------------------------------------------------------------
(* Bookkeeping shared by the actions                                         *)

overlap(w, w1) ==
    \/ w1.max /\ w1.fs
    \/ (w1.max \/ w1.fs) /\ w.tiled # "none" /\ w1.tiled = "none"

\* Follows the step in mixed and home.  h: home, moved by a rescue.
Remember(h) ==
    /\ mixed' = {t \in Toplevels : special(win'[t]) /\ (t \in mixed \/ overlap(win[t], win'[t]))}
    /\ home' = [t \in Toplevels |-> IF t \in mixed' THEN NoRect
                                    ELSE IF special(win'[t]) THEN h[t]
                                    ELSE Rect(win'[t].pos, seed_outer(win'[t]))]

SetWindow(t, w) ==
    /\ states(w) <= MaxStates
    /\ win' = [win EXCEPT ![t] = w]
    /\ Remember(home)

\* A request of the bound shell; while locked it costs the shell its connection.
shell_may(t) == shell /\ ~ locked /\ live(t)

still == <<outs, drag, ptr, pointer, shell, locked>>

-----------------------------------------------------------------------------
(* Windows                                                                   *)

qdwin_surface_added(t) ==
    /\ win[t].st = "none"
    /\ SetWindow(t, [NoWindow EXCEPT !.st = "live"])
    /\ UNCHANGED still

\* qdwin_move_grab_end_for: whatever grab the pointer has by now is ended.
end_grab_for(t) ==
    IF drag = t THEN drag' = NONE /\ ptr' = "default" ELSE UNCHANGED <<drag, ptr>>

qdwin_surface_removed(t) ==
    /\ live(t)
    /\ win' = [win EXCEPT ![t] = [NoWindow EXCEPT !.st = "gone"]]
    /\ end_grab_for(t)
    /\ home' = [home EXCEPT ![t] = NoRect]
    /\ mixed' = mixed \ {t}
    /\ UNCHANGED <<outs, pointer, shell, locked>>

\* The client commits a buffer of size s: one of its own choice, or another frame of
\* the size it had while maximised.  The first one maps and places the window.
qdwin_surface_committed(t, s) ==
    LET w == win[t]
        w1 == [w EXCEPT !.mapped = TRUE, !.outer = IF special(w) THEN @ ELSE s]
        o == qdwin_primary_output
    IN  /\ live(t)
        /\ SetWindow(t, IF w.mapped \/ o = NONE THEN w1
                        ELSE IF w.fs THEN apply_fullscreen_geometry(w1, o)
                        ELSE [w1 EXCEPT !.pos = At(o, "float")])
        /\ UNCHANGED still

\* xdg_toplevel.set_maximized and unset_maximized, refused while locked.
qdwin_surface_maximized_requested(t, on) ==
    /\ live(t)
    /\ ~ locked
    /\ SetWindow(t, set_maximized(win[t], on))
    /\ UNCHANGED still

\* Not refused while locked.
qdwin_surface_fullscreen_requested(t, on, o) ==
    /\ live(t)
    /\ o = NONE \/ listed(o)
    /\ SetWindow(t, set_fullscreen(win[t], on, o))
    /\ UNCHANGED still

-----------------------------------------------------------------------------
(* Requests of the shell                                                     *)

qdwin_handle_request_maximize(t, on) ==
    /\ shell_may(t)
    /\ SetWindow(t, set_maximized(win[t], on))
    /\ UNCHANGED still

qdwin_handle_request_fullscreen(t, on) ==
    /\ shell_may(t)
    /\ SetWindow(t, set_fullscreen(win[t], on, NONE))
    /\ UNCHANGED still

qdwin_handle_request_tile(t, edge) ==
    /\ shell_may(t)
    /\ SetWindow(t, set_tiled(win[t], edge))
    /\ UNCHANGED still

\* Clamped onto the output that contains the point, or the primary one.
qdwin_handle_request_set_position(t, o) ==
    /\ shell_may(t)
    /\ ~ special(win[t])
    /\ drag # t
    /\ outs = <<>> \/ listed(o)
    /\ SetWindow(t, [win[t] EXCEPT !.pos = At(o, "float")])
    /\ UNCHANGED still

\* The tile is cleared before a pointer is looked for.
qdwin_handle_begin_interactive_move(t) ==
    /\ shell_may(t)
    /\ drag = NONE
    /\ ~ win[t].max /\ ~ win[t].fs
    /\ SetWindow(t, clear_tiled(win[t]))
    /\ drag' = IF pointer THEN t ELSE NONE
    /\ ptr' = IF pointer THEN "move" ELSE ptr
    /\ UNCHANGED <<outs, pointer, shell, locked>>

qdwin_handle_bind_as_shell ==
    /\ ~ shell
    /\ shell' = TRUE
    /\ UNCHANGED <<win, outs, drag, ptr, pointer, locked, home, mixed>>

unbind_ends_drag ==
    IF drag # NONE THEN drag' = NONE /\ ptr' = "default" ELSE UNCHANGED <<drag, ptr>>

qdwin_shell_resource_destroy ==
    /\ shell
    /\ shell' = FALSE
    /\ unbind_ends_drag
    /\ UNCHANGED <<win, outs, pointer, locked, home, mixed>>

-----------------------------------------------------------------------------
(* The pointer                                                               *)

qdwin_move_grab_motion(o) ==
    /\ ptr = "move"
    /\ drag # NONE
    /\ listed(o)
    /\ SetWindow(drag, [win[drag] EXCEPT !.pos = At(o, "float")])
    /\ UNCHANGED still

\* A button is released.  Without an active drag the grab stays in the slot.
qdwin_move_grab_button ==
    /\ ptr = "move"
    /\ drag # NONE
    /\ drag' = NONE
    /\ ptr' = "default"
    /\ UNCHANGED <<win, outs, pointer, shell, locked, home, mixed>>

\* weston_seat_init_pointer, weston_seat_release_pointer: the grab is cancelled,
\* which clears move_grab_active but not pointer->grab.
PointerHotplug ==
    /\ pointer' = ~ pointer
    /\ drag' = IF pointer /\ ptr = "move" THEN NONE ELSE drag
    /\ UNCHANGED <<win, outs, ptr, shell, locked, home, mixed>>

-----------------------------------------------------------------------------
(* Outputs and the lock                                                      *)

qdwin_on_output_changed(o) ==
    /\ ~ listed(o)
    /\ outs' = Append(outs, o)
    /\ UNCHANGED <<win, drag, ptr, pointer, shell, locked, home, mixed>>

\* qdwin_output_boundary_cancel_state: the drag ends, and so does a grab that an
\* unplugged pointer left behind.
boundary_ends_grab ==
    /\ drag' = NONE
    /\ ptr' = IF drag # NONE \/ pointer THEN "default" ELSE ptr

\* qdwin_toplevel_belongs_to_output.  Any output may be the one at (0,0).
OnOutput(t, o, at_zero) ==
    live(t) /\ (win[t].pos.out = o \/ (at_zero /\ win[t].pos = Origin))

\* qdwin_output_boundary_transition: the windows on the output move to the survivor;
\* without one they stay where they are.
qdwin_on_output_destroyed(o, at_zero) ==
    LET rest == Without(CHOOSE i \in DOMAIN outs : outs[i] = o)
        hit == IF rest = <<>> THEN {} ELSE {t \in Toplevels : OnOutput(t, o, at_zero)}
    IN  /\ listed(o)
        /\ outs' = rest
        /\ boundary_ends_grab
        /\ win' = [t \in Toplevels |-> IF t \in hit THEN rehome_toplevel(win[t], Head(rest)) ELSE win[t]]
        /\ UNCHANGED <<pointer, shell, locked>>
        /\ Remember([t \in Toplevels |-> IF t \in hit THEN rehome_rect(home[t], Head(rest))
                                                      ELSE home[t]])

\* The session lock, modelled in QdwinLock.
LockChanges ==
    /\ locked' = ~ locked
    /\ UNCHANGED <<win, outs, drag, ptr, pointer, shell, home, mixed>>

ClientNext ==
    \E t \in Toplevels :
      \/ qdwin_surface_added(t)
      \/ qdwin_surface_removed(t)
      \/ \E s \in {"app", "work"} : qdwin_surface_committed(t, s)
      \/ \E on \in BOOLEAN : qdwin_surface_maximized_requested(t, on)
      \/ \E on \in BOOLEAN, o \in Outputs \cup {NONE} : qdwin_surface_fullscreen_requested(t, on, o)

ShellNext ==
    \/ qdwin_handle_bind_as_shell
    \/ qdwin_shell_resource_destroy
    \/ \E t \in Toplevels :
         \/ \E on \in BOOLEAN : qdwin_handle_request_maximize(t, on)
                                  \/ qdwin_handle_request_fullscreen(t, on)
         \/ \E edge \in Edges : qdwin_handle_request_tile(t, edge)
         \/ \E o \in Outputs : qdwin_handle_request_set_position(t, o)
         \/ qdwin_handle_begin_interactive_move(t)

OtherNext ==
    \/ \E o \in Outputs : qdwin_move_grab_motion(o) \/ qdwin_on_output_changed(o)
    \/ \E o \in Outputs, at_zero \in BOOLEAN : qdwin_on_output_destroyed(o, at_zero)
    \/ qdwin_move_grab_button
    \/ PointerHotplug
    \/ LockChanges

Next == ClientNext \/ ShellNext \/ OtherNext

Spec == Init /\ [][Next]_vars

-----------------------------------------------------------------------------
(* Properties                                                                *)

Positions == [out : Outputs \cup {NONE}, spot : Spots]
Rects == [pos : Positions, size : Sizes \cup {"unset"}]
Window == [st : {"none", "live", "gone"}, mapped : BOOLEAN, max : BOOLEAN, fs : BOOLEAN,
           tiled : Edges, pos : Positions, outer : Sizes \cup {"unset"},
           saved : Rects, tile_saved : Rects]

\* Types; a maximised, fullscreen or tiled window has a slot with a size to restore
\* ("If we save 0 here, restore() walks back to outer=0").
TypeOK ==
    /\ win \in [Toplevels -> Window]
    /\ outs \in Seq(Outputs)
    /\ drag \in Toplevels \cup {NONE}
    /\ ptr \in {"default", "move"}
    /\ pointer \in BOOLEAN /\ shell \in BOOLEAN /\ locked \in BOOLEAN
    /\ mixed \subseteq Toplevels
    /\ home \in [Toplevels -> Rects]
    /\ \A t \in Toplevels : /\ win[t].max \/ win[t].fs => win[t].saved.size # "unset"
                            /\ win[t].tiled # "none" => win[t].tile_saved.size # "unset"

\* The rectangle a window floats in, or will be restored to.
Float(w) ==
    IF w.tiled # "none" THEN w.tile_saved
    ELSE IF w.max \/ w.fs THEN w.saved
    ELSE Rect(w.pos, seed_outer(w))

\* As long as its special states did not overlap, the slot that the window will be
\* restored from holds the rectangle it last had while floating, through any sequence
\* of maximise, fullscreen, tile, re-tile, drag, commits of old sizes and rescue from a
\* removed output: "a later request_tile(none) still restores the original float"
\* (qdwin_toplevel_set_tiled, qdwin_toplevel_set_maximized,
\* qdwin_output_boundary_rehome_toplevel).
FloatKept ==
    \A t \in Toplevels \ mixed : live(t) => home[t] = Float(win[t])

\* A drag in progress moves a live window on behalf of a bound shell
\* (qdwin_move_grab_end_for, qdwin_shell_resource_destroy).
DragTargetLive ==
    drag # NONE => live(drag) /\ shell

\* A window keeps the place it will be restored to, and the one being dragged is alive
\* (qdwin_toplevel_set_tiled, qdwin_toplevel_set_maximized,
\* qdwin_output_boundary_rehome_toplevel, qdwin_move_grab_end_for).
GeometryKept ==
    TypeOK /\ FloatKept /\ DragTargetLive
=============================================================================
