--------------------------- MODULE MCActivation ---------------------------
(* ActivationGate on a small instance, and the display below it: the parts   *)
(* of the DRM backend.  They share no state; a behaviour is about one.        *)
EXTENDS ActivationGate, TLC

CONSTANTS
    Outputs, MaxRequests, Connectors, MaxTasks, Conns, Crtcs, Planes, TypeOf, NoOne,
    MaxEvents, Hardwares, Views, MaxViews, Cells, Buffers, Mems, Handles, Arrays,
    MaxSteps, Params, DPlanes, Mods, Feedbacks, Patience, ABSENT
CONSTANTS
    t1, t2, t3, f1, f2, q1, q2, a, b, w1, w2, c1, c2, p1, p2, p3, b1, b2, m1, m2, df1,
    df2

\* Two toplevels of one surface, one of another.
MCSurfaceOf == [t \in Toplevels |-> IF t = t3 THEN f2 ELSE f1]

\* A current shell, and one older than the activation gate.
MCShellVersion == [q \in Shells |-> IF q = q1 THEN 16 ELSE 11]

MCOTypeOf == (p1 :> "primary" @@ p2 :> "primary" @@ p3 :> "cursor")

PlaneRec(id, lo, hi) == [id |-> id, zmin |-> lo, zmax |-> hi]
MCPHardwares == {[scan |-> PlaneRec("scan", 0, 0), cursor |-> {PlaneRec("cursor", 2, 2)}, overlays |-> <<PlaneRec("over", 1, 1)>>, colour |-> FALSE],
                [scan |-> PlaneRec("scan", 1, 2), cursor |-> {}, overlays |-> <<PlaneRec("over", 0, 2), PlaneRec("low", 0, 0)>>, colour |-> TRUE]}
ViewRec(cs, op, k, on) == [cells |-> cs, opaque |-> op, kind |-> k, on |-> on]
MCPViews == {ViewRec({1, 2}, TRUE, "dmabuf", {"scan", "over", "low"}), ViewRec({1}, TRUE, "dmabuf", {"scan", "over", "low"}),
            ViewRec({1, 2}, FALSE, "dmabuf", {"over", "low"}), ViewRec({1}, FALSE, "cursor", {"cursor"}),
            ViewRec({2}, TRUE, "shm", {"cursor"}), ViewRec({1, 2}, TRUE, "black", {}), ViewRec({2}, TRUE, "colour", {})}

\* One or two formats with one to three modifiers, in different orders, and no format.
MCYArrays ==
    {<<>>, <<[f |-> 1, mods |-> <<1>>]>>, <<[f |-> 1, mods |-> <<2, 1>>]>>, <<[f |-> 1, mods |-> <<1, 2>>]>>,
     <<[f |-> 2, mods |-> <<3, 1>>], [f |-> 1, mods |-> <<1, 3>>]>>,
     <<[f |-> 1, mods |-> <<3>>], [f |-> 2, mods |-> <<1>>]>>,
     <<[f |-> 2, mods |-> <<2>>]>>, <<[f |-> 3, mods |-> <<1>>], [f |-> 2, mods |-> <<1, 2, 3>>]>>}

VARIABLES
    part,   \* the component this behaviour is about
    y1, y2, y3, y4, y5, y6, y7, y8, y9, y10, y11, y12, y13, y14   \* its variables, when it is not the main one

R == INSTANCE DrmDisplay WITH
        out <- y1, rec <- y2, completes <- y3, deferred <- y4, away <- y5,
        stranded <- y6, lost <- y7, recovery_dead <- y8, requests <- y9, filed <- y1,
        owed <- y2, wb <- y3, flip <- y4, ready <- y5, job <- y6, tasks <- y7,
        late <- y8, writeback_dead <- y9, object_held <- y1, kernel <- y2,
        events <- y3, missed <- y4, head <- y5, crtcOf <- y6, user <- y7,
        inherited <- y8, can <- y9, boot <- y10, scanout <- y11, cursor <- y12,
        rest <- y13
P == INSTANCE DrmScanout WITH
        hw <- y1, scene <- y2, dirty <- y3, off <- y4, propose_cur <- y5, force <- y6,
        dead <- y7, buf <- y1, cache <- y2, refs <- y3, han <- y4, gem <- y5,
        num <- y6, pend <- y7, fb_cur <- y8, fb_last <- y9, stray <- y10, arr <- y1,
        pairs <- y2, steps <- y3, table <- y4, scan <- y5, format_planes <- y6,
        Planes <- DPlanes, obj <- y1, fd <- y2, mod <- y3, said <- y4, open <- y5,
        late <- y6, surf <- y7, on <- y8, dmabuf_list <- y9, inert <- y10,
        tranche <- y11, wish <- y12, age <- y13, told <- y14

mcvars == <<part,
          tok, pend, surfaces, toplevels, removed, shell, locked, acts, y1, y2, y3, y4,
          y5, y6, y7, y8, y9, y10, y11, y12, y13, y14>>

\* Connectors are told apart by nothing but their names, and so are CRTCs: of the ways
\* they may have been connected before, one of each kind.
OneOfAKind(inherited) ==
    inherited \in {a :> NoOne @@ b :> NoOne, a :> c1 @@ b :> NoOne, a :> c1 @@ b :> c2}

MCInit ==
    \/ /\ part = "activation" /\ Init
       /\ y1 = ABSENT /\ y2 = ABSENT /\ y3 = ABSENT /\ y4 = ABSENT /\ y5 = ABSENT
       /\ y6 = ABSENT /\ y7 = ABSENT /\ y8 = ABSENT /\ y9 = ABSENT /\ y10 = ABSENT
       /\ y11 = ABSENT /\ y12 = ABSENT /\ y13 = ABSENT /\ y14 = ABSENT
    \/ /\ part = "recovery" /\ R!RecoveryInit /\ Init
       /\ y10 = ABSENT /\ y11 = ABSENT /\ y12 = ABSENT /\ y13 = ABSENT /\ y14 = ABSENT
    \/ /\ part = "writeback" /\ R!WritebackInit /\ Init
       /\ y10 = ABSENT /\ y11 = ABSENT /\ y12 = ABSENT /\ y13 = ABSENT /\ y14 = ABSENT
    \/ /\ part = "objects" /\ R!ObjectInit /\ Init
       /\ OneOfAKind(y8) /\ y14 = ABSENT
    \/ /\ part = "planes" /\ P!ProposeInit /\ Init
       /\ y8 = ABSENT /\ y9 = ABSENT /\ y10 = ABSENT /\ y11 = ABSENT /\ y12 = ABSENT
       /\ y13 = ABSENT /\ y14 = ABSENT
    \/ /\ part = "framebuffers" /\ P!FbInit /\ Init
       /\ y11 = ABSENT /\ y12 = ABSENT /\ y13 = ABSENT /\ y14 = ABSENT
    \/ /\ part = "formats" /\ P!FormatInit /\ Init
       /\ y7 = ABSENT /\ y8 = ABSENT /\ y9 = ABSENT /\ y10 = ABSENT /\ y11 = ABSENT
       /\ y12 = ABSENT /\ y13 = ABSENT /\ y14 = ABSENT
    \/ /\ part = "dmabuf" /\ P!DmabufInit /\ Init

\* A step of one component leaves the others alone.
OnlyMain ==
    UNCHANGED <<part,
                y1, y2, y3, y4, y5, y6, y7, y8, y9, y10, y11, y12, y13, y14>>
OnlyR ==
    UNCHANGED <<part,
                vars, y10, y11, y12, y13, y14>>
OnlyW ==
    UNCHANGED <<part,
                vars, y10, y11, y12, y13, y14>>
OnlyO ==
    UNCHANGED <<part,
                vars, y14>>
OnlyP ==
    UNCHANGED <<part,
                vars, y8, y9, y10, y11, y12, y13, y14>>
OnlyF ==
    UNCHANGED <<part,
                vars, y11, y12, y13, y14>>
OnlyY ==
    UNCHANGED <<part,
                vars, y7, y8, y9, y10, y11, y12, y13, y14>>
OnlyD ==
    UNCHANGED <<part,
                vars>>

MCNext ==
    \/ part = "activation" /\ Next /\ OnlyMain
    \/ part = "recovery" /\ R!RecoveryNext /\ OnlyR
    \/ part = "writeback" /\ R!WritebackNext /\ OnlyW
    \/ part = "objects" /\ R!ObjectNext /\ OnlyO
    \/ part = "planes" /\ P!ProposeNext /\ OnlyP
    \/ part = "framebuffers" /\ P!FbNext /\ OnlyF
    \/ part = "formats" /\ P!FormatNext /\ OnlyY
    \/ part = "dmabuf" /\ P!DmabufNext /\ OnlyD

MCSpec == MCInit /\ [][MCNext]_mcvars
        /\ TimerFairness
-----------------------------------------------------------------------------

\* The display survives what its devices do: once a recovery is over every lit output is
\* driven in its current mode, but for a switch the recovery left out, and one that awaits
\* a frame has a commit in flight, unless it asked while the recovery waited (drm.c:1065)
\* or was disabled in the middle of a repaint (compositor.c:8141);
\* a flip ends exactly one repaint, a writeback task ends once, objects have one owner, the
\* planes show the scene but for a plane placed where no position was left.  Handles are
\* counted exactly, but for the one a failed import of a plane gives back too often
\* (fb.c:226), and a gone object leaves no descriptor open but those of planes beyond a gap
\* (linux-dmabuf.c:49).
DisplayKept ==
    /\ part = "recovery" =>
          R!RecoveryTypeOK /\ R!RecoveryWhole
    /\ part = "writeback" =>
          R!WritebackTypeOK /\ R!WritebackWhole
    /\ part = "objects" =>
          R!ObjectTypeOK /\ R!ObjectsOwned
    /\ part = "planes" =>
          P!ProposeTypeOK /\ P!PictureIsTheScene
    /\ part = "framebuffers" =>
          P!FbTypeOK /\ P!FramebuffersWhole
    /\ part = "formats" =>
          P!FormatTypeOK /\ P!ArraysAreSets
    /\ part = "dmabuf" =>
          P!DmabufTypeOK /\ P!DmabufWhole
=============================================================================
