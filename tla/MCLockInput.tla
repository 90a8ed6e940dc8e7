--------------------------- MODULE MCLockInput ---------------------------
(* The session lock with a keyboard and outputs that come and go, and the      *)
(* delivery of input events to clients.  They share no state; a behaviour is   *)
(* about one.                                                                  *)
EXTENDS MCLock, TLC

CONSTANTS
    Surfaces, Pointers, Relatives, OwnerOf, Places, MaxButtons, KSurfaces, Boards,
    KOwnerOf, Keys, Held, Locks, Maps, TSurfaces, Touches, TOwnerOf, Devices, Fingers,
    Matrices, Own, Identity, Tablets, Tools, Unique, TabletClients, GSurfaces, GOwnerOf,
    DDevices, Caps, HeadOf, Heads, DOutputs, CPointers, CSurfaces, CDevices, NSeats,
    RToplevels, LayerPopups, Width, Height, Side, Reach, ABSENT
CONSTANTS
    c1, c2, ps1, ps2, ps3, pt1, pt2, pt3, q1, ks1, ks2, m1, m2, ts1, ts2, tt1, gs1,
    gs2, o1, o2

MCPOwnerOf == (ps1 :> c1) @@ (ps2 :> c1) @@ (ps3 :> c2) @@ (pt1 :> c1) @@ (pt2 :> c1) @@ (pt3 :> c2) @@ (q1 :> c1)

MCKOwnerOf == (ks1 :> c1) @@ (ks2 :> c2) @@ [b \in Boards |-> c1]

MCTOwnerOf == (ts1 :> c1) @@ (ts2 :> c2) @@ (tt1 :> c1)

MCGOwnerOf == (gs1 :> c1) @@ (gs2 :> c2)

MCDCaps == ("kb" :> {"keyboard"}) @@ ("combo" :> {"keyboard", "pointer"}) @@ ("screen" :> {"touch", "pointer"})
MCDHeadOf == ("kb" :> NONE) @@ ("combo" :> NONE) @@ ("screen" :> "h1")

\* Touch devices are told apart by nothing but their names, and so are fingers, and
\* tablets, keyboards of a client and windows with popups, which have the names of
\* the devices.
Interchangeable ==
    Permutations(Devices \cup Tablets \cup Boards \cup RToplevels) \cup Permutations(Fingers)

VARIABLES
    part,   \* the component this behaviour is about
    y1, y2, y3, y4, y5, y6, y7, y8, y9, y10, y11, y12, y13, y14, y15, y16, y17, y18,
    y19, y20, y21   \* its variables, when it is not the main one

P == INSTANCE SeatInput WITH
        PointerSurfaces <- Surfaces, PointerOwnerOf <- OwnerOf, pointer_alive <- y1,
        pointer_gone <- y2, pointer_devices <- y3, pointer_res <- y4, under <- y5,
        at <- y6, pointer_focus <- y7, fclient <- y8, sx <- y9, buttons <- y10,
        told <- y11, odd <- y12, KeySurfaces <- KSurfaces, KeyOwnerOf <- KOwnerOf,
        key_alive <- y1, key_res <- y2, flist <- y3, key_focus <- y4, keys <- y5,
        xkb <- y6, mods <- y7, map <- y8, pending <- y9, idle <- y10, in <- y11,
        saved <- y12, usesaved <- y13, key_devices <- y14, key_gone <- y15,
        skew <- y16, blind <- y17, tsurf <- y18, tkeys <- y19, tmods <- y20,
        tmap <- y21
T == INSTANCE TouchTablet WITH
        Clients <- TabletClients, TouchSurfaces <- TSurfaces, TouchOwnerOf <- TOwnerOf,
        TouchDevices <- Devices, failed <- y1, touch_plugged <- y2, mode <- y3,
        points <- y4, touch_focus <- y5, free <- y6, touch_focused <- y7, reset <- y8,
        cal <- y9, matrix <- y10, saved <- y11, wanted <- y12, excused <- y13,
        split <- y14, TabletSurfaces <- GSurfaces, TabletOwnerOf <- GOwnerOf,
        tablet_plugged <- y1, tool <- y2, home <- y3, near <- y4, current <- y5,
        tip <- y6, bound <- y7, pads <- y8, idlers <- y9, tablet_focused <- y10,
        tablet_focus <- y11, told <- y12, queued <- y13, stamp <- y14, open <- y15,
        mixed <- y16, LibinputDevices <- DDevices, Outputs <- DOutputs, hardware <- y1,
        known <- y2, ptr <- y3, out <- y4, count <- y5, suspended <- y6, lit <- y7,
        carrier <- y8, held <- y9, key <- y10, button <- y11, touches <- y12,
        leaked <- y13
R == INSTANCE PointerControl WITH
        Toplevels <- RToplevels, pointer <- y1, grab_slot <- y2, cancelled <- y3,
        windows <- y4, popup <- y5, lpopup <- y6, move <- y7, displaced <- y8, Pointers <- CPointers,
        Surfaces <- CSurfaces, Devices <- CDevices, plugged <- y1, alive <- y2,
        focused <- y3, surf <- y4, mapped <- y5, cursor_slot <- y6, sprite <- y7,
        private <- y8, device <- y9, retry <- y10, region <- y1, pos <- y2,
        outline <- y3, bad <- y4

mcvars == <<part,
          locked, hidden, lock_curtain, lk, layer, shell_bound, launcher,
          locker_resource, peer, alive, pid, proc, k, surfaces, outputs, saw, y1, y2, y3, y4, y5, y6, y7,
          y8, y9, y10, y11, y12, y13, y14, y15, y16, y17, y18, y19, y20, y21>>

MCInit ==
    \/ /\ part = "lock" /\ Init
       /\ y1 = ABSENT /\ y2 = ABSENT /\ y3 = ABSENT /\ y4 = ABSENT /\ y5 = ABSENT
       /\ y6 = ABSENT /\ y7 = ABSENT /\ y8 = ABSENT /\ y9 = ABSENT /\ y10 = ABSENT
       /\ y11 = ABSENT /\ y12 = ABSENT /\ y13 = ABSENT /\ y14 = ABSENT /\ y15 = ABSENT
       /\ y16 = ABSENT /\ y17 = ABSENT /\ y18 = ABSENT /\ y19 = ABSENT /\ y20 = ABSENT
       /\ y21 = ABSENT
    \/ /\ part = "pointer" /\ P!PointerInit /\ Init
       /\ y13 = ABSENT /\ y14 = ABSENT /\ y15 = ABSENT /\ y16 = ABSENT /\ y17 = ABSENT
       /\ y18 = ABSENT /\ y19 = ABSENT /\ y20 = ABSENT /\ y21 = ABSENT
    \/ /\ part = "keyboard" /\ P!KeyInit /\ Init
    \/ /\ part = "touch" /\ T!TouchInit /\ Init
       /\ y15 = ABSENT /\ y16 = ABSENT /\ y17 = ABSENT /\ y18 = ABSENT /\ y19 = ABSENT
       /\ y20 = ABSENT /\ y21 = ABSENT
    \/ /\ part = "tablet" /\ T!TabletInit /\ Init
       /\ y17 = ABSENT /\ y18 = ABSENT /\ y19 = ABSENT /\ y20 = ABSENT /\ y21 = ABSENT
    \/ /\ part = "devices" /\ T!DeviceInit /\ Init
       /\ y14 = ABSENT /\ y15 = ABSENT /\ y16 = ABSENT /\ y17 = ABSENT /\ y18 = ABSENT
       /\ y19 = ABSENT /\ y20 = ABSENT /\ y21 = ABSENT
    \/ /\ part = "cursor" /\ R!CursorInit /\ Init
       /\ y11 = ABSENT /\ y12 = ABSENT /\ y13 = ABSENT /\ y14 = ABSENT /\ y15 = ABSENT
       /\ y16 = ABSENT /\ y17 = ABSENT /\ y18 = ABSENT /\ y19 = ABSENT /\ y20 = ABSENT
       /\ y21 = ABSENT
    \/ /\ part = "grabs" /\ R!GrabInit /\ Init
       /\ y9 = ABSENT /\ y10 = ABSENT /\ y11 = ABSENT /\ y12 = ABSENT
       /\ y13 = ABSENT /\ y14 = ABSENT /\ y15 = ABSENT /\ y16 = ABSENT /\ y17 = ABSENT
       /\ y18 = ABSENT /\ y19 = ABSENT /\ y20 = ABSENT /\ y21 = ABSENT
    \/ /\ part = "confinement" /\ R!ConfineInit /\ Init
       /\ y5 = ABSENT /\ y6 = ABSENT /\ y7 = ABSENT /\ y8 = ABSENT /\ y9 = ABSENT
       /\ y10 = ABSENT /\ y11 = ABSENT /\ y12 = ABSENT /\ y13 = ABSENT /\ y14 = ABSENT
       /\ y15 = ABSENT /\ y16 = ABSENT /\ y17 = ABSENT /\ y18 = ABSENT /\ y19 = ABSENT
       /\ y20 = ABSENT /\ y21 = ABSENT

\* A step of one component leaves the others alone.
OnlyMain ==
    UNCHANGED <<part,
                y1, y2, y3, y4, y5, y6, y7, y8, y9, y10, y11, y12, y13, y14, y15, y16,
                y17, y18, y19, y20, y21>>
OnlyP ==
    UNCHANGED <<part,
                vars, y13, y14, y15, y16, y17, y18, y19, y20, y21>>
OnlyK ==
    UNCHANGED <<part,
                vars>>
OnlyT ==
    UNCHANGED <<part,
                vars, y15, y16, y17, y18, y19, y20, y21>>
OnlyG ==
    UNCHANGED <<part,
                vars, y17, y18, y19, y20, y21>>
OnlyD ==
    UNCHANGED <<part,
                vars, y14, y15, y16, y17, y18, y19, y20, y21>>
OnlyC ==
    UNCHANGED <<part,
                vars, y11, y12, y13, y14, y15, y16, y17, y18, y19, y20, y21>>
OnlyR ==
    UNCHANGED <<part,
                vars, y9, y10, y11, y12, y13, y14, y15, y16, y17, y18, y19, y20, y21>>
OnlyF ==
    UNCHANGED <<part,
                vars, y5, y6, y7, y8, y9, y10, y11, y12, y13, y14, y15, y16, y17, y18,
                y19, y20, y21>>

MCNext ==
    \/ part = "lock" /\ Next /\ OnlyMain
    \/ part = "pointer" /\ P!PointerNext /\ OnlyP
    \/ part = "keyboard" /\ P!KeyNext /\ OnlyK
    \/ part = "touch" /\ T!TouchNext /\ OnlyT
    \/ part = "tablet" /\ T!TabletNext /\ OnlyG
    \/ part = "devices" /\ T!DeviceNext /\ OnlyD
    \/ part = "cursor" /\ R!CursorNext /\ OnlyC
    \/ part = "grabs" /\ R!GrabNext /\ OnlyR
    \/ part = "confinement" /\ R!ConfineNext /\ OnlyF

MCSpec == MCInit /\ [][MCNext]_mcvars
-----------------------------------------------------------------------------

\* Every client is told a story that makes sense: events come between enter and
\* leave, keys and modifiers agree with the keyboard, a touch or a tool in proximity
\* is heard to its end, a seat has the capabilities of its devices, a commit of a
\* cursor finds its pointer, the grab in a slot belongs to a live owner, and a confined
\* pointer stays inside (input.c, libinput-device.c, qdwin.c).  The ways in which the
\* code breaks this are steps of the parts, and each part says that there is no other:
\* a grab that was displaced or cancelled and then outlives its window or seat
\* (GrabsLive), an assertion that a calibrator trips while touches are down
\* (TouchesWhole), a region whose boxes are not stepped (StaysInside).
InputDelivered ==
    /\ part = "pointer" =>
          P!PointerTypeOK /\ P!EventsInsideEnter
    /\ part = "keyboard" =>
          P!KeyTypeOK /\ P!KeyboardsAgree
    /\ part = "touch" =>
          T!TouchTypeOK /\ T!TouchesWhole
    /\ part = "tablet" =>
          T!TabletTypeOK /\ T!ToolHeardWhole
    /\ part = "devices" =>
          T!DeviceTypeOK /\ T!SeatIsItsDevices
    /\ part = "cursor" =>
          R!CursorTypeOK /\ R!CommitFindsItsPointer
    /\ part = "grabs" =>
          R!GrabTypeOK /\ R!GrabsLive
    /\ part = "confinement" =>
          R!ConfineTypeOK /\ R!StaysInside
=============================================================================
