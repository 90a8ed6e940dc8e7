----------------------------- MODULE MCWindow -----------------------------
(* WindowGeometry on a small instance, with the configure sequence, popups and *)
(* pointer constraints of its clients.  They share no state; a behaviour is     *)
(* about one.                                                                   *)
EXTENDS WindowGeometry, TLC

CONSTANTS
    MaxConfigures, Top, Popups, ConstrainedSurfaces, Flags, ABSENT

\* Outputs are told apart only by their order in outs, popups and constrained surfaces
\* by nothing but their names.  The components share no state, so they share the names.
Interchangeable == Permutations(Outputs \cup Popups \cup ConstrainedSurfaces)

VARIABLES
    part,   \* the component this behaviour is about
    y1, y2, y3, y4, y5, y6, y7, y8, y9, y10, y11, y12, y13, y14, y15, y16   \* its variables, when it is not the main one

X == INSTANCE XdgShell WITH
        xdg_role <- y1, xdg_committed <- y2, configured <- y3, added <- y4, idle <- y5,
        configure_list <- y6, pending <- y7, next <- y8, current <- y9, content <- y10,
        width <- y11, heard <- y12, asked <- y13, again <- y14, raced <- y15,
        xdg_dead <- y16, alive <- y1, parent <- y2, owner <- y3, popup_committed <- y4,
        views <- y5, list <- y6, grabbing <- y7, grab <- y8, plugged <- y9,
        base <- y10, dying <- y11, popup_dead <- y12
N == INSTANCE PointerConstraints WITH
        Surfaces <- ConstrainedSurfaces, con <- y1, told <- y2, acts <- y3,
        order <- y4, slot <- y5, focus <- y6, kbd <- y7, clicked <- y8, mapped <- y9,
        plugged <- y10, dead <- y11

mcvars == <<part,
          win, outs, drag, ptr, pointer, shell, locked, home, mixed, y1, y2, y3, y4, y5,
          y6, y7, y8, y9, y10, y11, y12, y13, y14, y15, y16>>

MCInit ==
    \/ /\ part = "geometry" /\ Init
       /\ y1 = ABSENT /\ y2 = ABSENT /\ y3 = ABSENT /\ y4 = ABSENT /\ y5 = ABSENT
       /\ y6 = ABSENT /\ y7 = ABSENT /\ y8 = ABSENT /\ y9 = ABSENT /\ y10 = ABSENT
       /\ y11 = ABSENT /\ y12 = ABSENT /\ y13 = ABSENT /\ y14 = ABSENT /\ y15 = ABSENT
       /\ y16 = ABSENT
    \/ /\ part = "toplevel" /\ X!XdgInit /\ Init
    \/ /\ part = "popups" /\ X!PopupInit /\ Init
       /\ y13 = ABSENT /\ y14 = ABSENT /\ y15 = ABSENT /\ y16 = ABSENT
    \/ /\ part = "constraints" /\ N!Init /\ Init
       /\ y12 = ABSENT /\ y13 = ABSENT /\ y14 = ABSENT /\ y15 = ABSENT /\ y16 = ABSENT

\* A step of one component leaves the others alone.
OnlyMain ==
    UNCHANGED <<part,
                y1, y2, y3, y4, y5, y6, y7, y8, y9, y10, y11, y12, y13, y14, y15, y16>>
OnlyX ==
    UNCHANGED <<part,
                vars>>
OnlyU ==
    UNCHANGED <<part,
                vars, y13, y14, y15, y16>>
OnlyN ==
    UNCHANGED <<part,
                vars, y12, y13, y14, y15, y16>>

MCNext ==
    \/ part = "geometry" /\ Next /\ OnlyMain
    \/ part = "toplevel" /\ X!XdgNext /\ OnlyX
    \/ part = "popups" /\ X!PopupNext /\ OnlyU
    \/ part = "constraints" /\ N!Next /\ OnlyN

MCSpec == MCInit /\ [][MCNext]_mcvars
-----------------------------------------------------------------------------

\* What clients and compositor agree on is kept: a window's state follows what the shell
\* wants, unless that changed between an ack and its commit or the toplevel is not the
\* first of its xdg_surface, popups end with their parents and grabs, and a pointer
\* constraint is active only where it was asked for (xdg-shell.c, seat.c, input.c).
ClientsFollow ==
    /\ part = "toplevel" =>
          X!XdgTypeOK /\ X!StateFollows
    /\ part = "popups" =>
          X!PopupTypeOK /\ X!PopupsWhole
    /\ part = "constraints" =>
          N!TypeOK /\ N!ConstraintsHonest
=============================================================================
