--------------------------- MODULE MCWorkspaces ---------------------------
(* Workspaces on a small instance, with the surfaces around the windows, the  *)
(* focus of the seats and the geometry kernels.  They share no state; a        *)
(* behaviour is about one.                                                     *)
EXTENDS Workspaces, TLC

CONSTANTS
    Outputs, Panels, Notifications, Launchers, Layers, Wishes, Default, Windows, Seats,
    FirstSeat, Span, Half, ABSENT

\* Windows are interchangeable, and so are clients; outputs, which have the names of
\* the windows, and layer surfaces, which have those of the clients.
Interchangeable == Permutations(Toplevels \cup Outputs) \cup Permutations(Managers \cup Layers)

\* A client that asks for nothing, a bar that insists on the keyboard and a
\* full panel that accepts it.
MCYDefault == [fills |-> FALSE, zone |-> FALSE, kbd |-> "none"]
MCYWishes ==
    {MCYDefault,
     [fills |-> TRUE, zone |-> TRUE, kbd |-> "exclusive"],
     [fills |-> TRUE, zone |-> FALSE, kbd |-> "on_demand"]}

VARIABLES
    part,   \* the component this behaviour is about
    y1, y2, y3, y4, y5, y6, y7, y8, y9, y10, y11, y12, y13, y14   \* its variables, when it is not the main one

U == INSTANCE ShellLayers WITH
        shell_outs <- y1, geometry <- y2, panel <- y3, note <- y4, launcher <- y5,
        background <- y6, curtain <- y7, window <- y8, layer_outs <- y1, dim <- y2,
        ls <- y3, focus <- y4, laid <- y5, ask <- y1, got <- y2
F == INSTANCE SeatFocus WITH
        seat <- y1, plugged <- y2, listening <- y3, focus <- y4, last <- y5,
        told <- y6, recover <- y7, win <- y8, over <- y9, shell <- y10, locked <- y11,
        policy <- y12, pending <- y13, armed <- y14

mcvars == <<part,
          desk, mgr, names, shell, told, y1, y2, y3, y4, y5, y6, y7, y8, y9, y10, y11,
          y12, y13, y14>>

MCInit ==
    \/ /\ part = "workspaces" /\ Init
       /\ y1 = ABSENT /\ y2 = ABSENT /\ y3 = ABSENT /\ y4 = ABSENT /\ y5 = ABSENT
       /\ y6 = ABSENT /\ y7 = ABSENT /\ y8 = ABSENT /\ y9 = ABSENT /\ y10 = ABSENT
       /\ y11 = ABSENT /\ y12 = ABSENT /\ y13 = ABSENT /\ y14 = ABSENT
    \/ /\ part = "shellsurfaces" /\ U!ShellInit /\ Init
       /\ y9 = ABSENT /\ y10 = ABSENT /\ y11 = ABSENT /\ y12 = ABSENT /\ y13 = ABSENT
       /\ y14 = ABSENT
    \/ /\ part = "layershell" /\ U!LayerInit /\ Init
       /\ y6 = ABSENT /\ y7 = ABSENT /\ y8 = ABSENT /\ y9 = ABSENT /\ y10 = ABSENT
       /\ y11 = ABSENT /\ y12 = ABSENT /\ y13 = ABSENT /\ y14 = ABSENT
    \/ /\ part = "seats" /\ F!Init /\ Init
    \/ /\ part = "kernels" /\ U!KernelInit /\ Init
       /\ y3 = ABSENT /\ y4 = ABSENT /\ y5 = ABSENT /\ y6 = ABSENT /\ y7 = ABSENT
       /\ y8 = ABSENT /\ y9 = ABSENT /\ y10 = ABSENT /\ y11 = ABSENT /\ y12 = ABSENT
       /\ y13 = ABSENT /\ y14 = ABSENT

\* A step of one component leaves the others alone.
OnlyMain ==
    UNCHANGED <<part,
                y1, y2, y3, y4, y5, y6, y7, y8, y9, y10, y11, y12, y13, y14>>
OnlyU ==
    UNCHANGED <<part,
                vars, y9, y10, y11, y12, y13, y14>>
OnlyY ==
    UNCHANGED <<part,
                vars, y6, y7, y8, y9, y10, y11, y12, y13, y14>>
OnlyF ==
    UNCHANGED <<part,
                vars>>
OnlyK ==
    UNCHANGED <<part,
                vars, y3, y4, y5, y6, y7, y8, y9, y10, y11, y12, y13, y14>>

MCNext ==
    \/ part = "workspaces" /\ Next /\ OnlyMain
    \/ part = "shellsurfaces" /\ U!ShellNext /\ OnlyU
    \/ part = "layershell" /\ U!LayerNext /\ OnlyY
    \/ part = "seats" /\ F!Next /\ OnlyF
    \/ part = "kernels" /\ U!KernelNext /\ OnlyK

MCSpec == MCInit /\ [][MCNext]_mcvars
-----------------------------------------------------------------------------

\* The desktop is arranged as it should be: windows fit what panels leave, layer
\* surfaces are where their wishes put them, the shell knows the focus of every
\* seat, and the placement kernels meet their purpose (qdwin.c, qdwin-logic.c).
DesktopArranged ==
    /\ part = "shellsurfaces" =>
          U!ShellTypeOK /\ U!DesktopFits
    /\ part = "layershell" =>
          U!LayerTypeOK /\ U!LayersPlaced
    /\ part = "seats" =>
          F!TypeOK /\ F!ShellKnowsFocus
    /\ part = "kernels" =>
          U!KernelTypeOK /\ U!KernelsMeetPurpose
=============================================================================
