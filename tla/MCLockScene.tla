--------------------------- MODULE MCLockScene ---------------------------
(* The session lock with several lockers, surfaces and windows, and the scene *)
(* graph below it, from the commit of a surface to the pixels.  They share no  *)
(* state; a behaviour is about one.                                            *)
EXTENDS MCLock, TLC

CONSTANTS
    CommitSurfaces, Timed, MaxCommits, Buffers, Releases, VOutputs, OutputAt, Places, Wide, Windows,
    Back, Cells, Boxes, MaxChanges, N, RSurfaces, HomeOf, Heads, HOutputs, Widths,
    Stack, Covers, Uses, ShmBuffers, Solids, Others, Targets, NoBuffer, ABSENT
CONSTANTS
    f1, f2, f3, b1, b2, bl1, bl2, o1, o2, w1, w2, rs1, rs2, h1, h2, xs1, xs2, b3, b4,
    xt1, xt2

MCVAt == (o1 :> 0) @@ (o2 :> 1)

MCRHomeOf == (rs1 :> 1) @@ (rs2 :> 2)

MCXStack == <<xs1, xs2>>
MCXCovers == (xs1 :> {1}) @@ (xs2 :> {1, 2})
MCXUses == (xs1 :> {b1, b2, b4}) @@ (xs2 :> {b1, b3})

VARIABLES
    part,   \* the component this behaviour is about
    y1, y2, y3, y4, y5, y6, y7, y8, y9, y10, y11, y12, y13, y14, y15, y16, y17, y18   \* its variables, when it is not the main one

C == INSTANCE SurfaceContent WITH
        commit_alive <- y1, made <- y2, pend <- y3, cache <- y4, queue <- y5,
        shown <- y6, barrier <- y7, role <- y8, sub <- y9, parent <- y10, sync <- y11,
        esync <- y12, late <- y13, WlBuffers <- Buffers, res <- y1, obj <- y2,
        busy <- y3, passive <- y4, ref <- y5, owed <- y6, rel <- y7, count <- y8,
        sent <- y9, pixman_alive <- y1, committed <- y2, dirty <- y3, ps <- y4,
        damage <- y5, shadow <- y6, useShadow <- y7, target <- y8, unsafe <- y9
V == INSTANCE SceneGraph WITH
        At <- OutputAt, Outputs <- VOutputs, alive <- y1, off <- y2, view_dirty <- y3,
        view_box <- y4, layered <- y5, mapped <- y6, vmask <- y7, vout <- y8,
        smapped <- y9, smask <- y10, sout <- y11, told <- y12, lv <- y13,
        listed <- y14, view_rebuild <- y15, view_on <- y16, id <- y17, missed <- y18,
        want <- y1, paint_box <- y2, paint_dirty <- y3, solid <- y4, ver <- y5,
        sdmg <- y6, order <- y7, paint_on <- y8, zl <- y9, node <- y10,
        vrebuild <- y11, paint_rebuild <- y12, full <- y13, fb <- y14, fresh <- y15,
        changes <- y16, owed <- y17
R == INSTANCE OutputLoop WITH
        Surfaces <- RSurfaces, status <- y1, needed <- y2, ready <- y3, forced <- y4,
        idle <- y5, flying <- y6, timer <- y7, comp <- y8, deferred <- y9,
        frame <- y10, feedback <- y11, HeadOutputs <- HOutputs, head <- y1,
        outOf <- y2, made <- y3, head_on <- y4, going <- y5, width <- y6, x <- y7,
        global <- y8, dying <- y9, alive <- y10, inert <- y11, source <- y12,
        unseen <- y13

mcvars == <<part,
          locked, hidden, lock_curtain, lk, layer, shell_bound, launcher,
          locker_resource, peer, alive, pid, proc, k, surfaces, outputs, saw, y1, y2, y3, y4, y5, y6, y7,
          y8, y9, y10, y11, y12, y13, y14, y15, y16, y17, y18>>

MCInit ==
    \/ /\ part = "lock" /\ Init
       /\ y1 = ABSENT /\ y2 = ABSENT /\ y3 = ABSENT /\ y4 = ABSENT /\ y5 = ABSENT
       /\ y6 = ABSENT /\ y7 = ABSENT /\ y8 = ABSENT /\ y9 = ABSENT /\ y10 = ABSENT
       /\ y11 = ABSENT /\ y12 = ABSENT /\ y13 = ABSENT /\ y14 = ABSENT /\ y15 = ABSENT
       /\ y16 = ABSENT /\ y17 = ABSENT /\ y18 = ABSENT
    \/ /\ part = "commits" /\ C!CommitInit /\ Init
       /\ y14 = ABSENT /\ y15 = ABSENT /\ y16 = ABSENT /\ y17 = ABSENT /\ y18 = ABSENT
    \/ /\ part = "buffers" /\ C!BufferInit /\ Init
       /\ y10 = ABSENT /\ y11 = ABSENT /\ y12 = ABSENT /\ y13 = ABSENT /\ y14 = ABSENT
       /\ y15 = ABSENT /\ y16 = ABSENT /\ y17 = ABSENT /\ y18 = ABSENT
    \/ /\ part = "views" /\ V!ViewInit /\ Init
    \/ /\ part = "damage" /\ V!PaintInit /\ Init
       /\ y18 = ABSENT
    \/ /\ part = "repaint" /\ R!RepaintInit /\ Init
       /\ y12 = ABSENT /\ y13 = ABSENT /\ y14 = ABSENT /\ y15 = ABSENT /\ y16 = ABSENT
       /\ y17 = ABSENT /\ y18 = ABSENT
    \/ /\ part = "heads" /\ R!HeadInit /\ Init
       /\ y14 = ABSENT /\ y15 = ABSENT /\ y16 = ABSENT /\ y17 = ABSENT /\ y18 = ABSENT
    \/ /\ part = "pixels" /\ C!PixmanInit /\ Init
       /\ y10 = ABSENT /\ y11 = ABSENT /\ y12 = ABSENT /\ y13 = ABSENT /\ y14 = ABSENT
       /\ y15 = ABSENT /\ y16 = ABSENT /\ y17 = ABSENT /\ y18 = ABSENT

\* A step of one component leaves the others alone.
OnlyMain ==
    UNCHANGED <<part,
                y1, y2, y3, y4, y5, y6, y7, y8, y9, y10, y11, y12, y13, y14, y15, y16,
                y17, y18>>
OnlyC ==
    UNCHANGED <<part,
                vars, y14, y15, y16, y17, y18>>
OnlyB ==
    UNCHANGED <<part,
                vars, y10, y11, y12, y13, y14, y15, y16, y17, y18>>
OnlyV ==
    UNCHANGED <<part,
                vars>>
OnlyD ==
    UNCHANGED <<part,
                vars, y18>>
OnlyR ==
    UNCHANGED <<part,
                vars, y12, y13, y14, y15, y16, y17, y18>>
OnlyH ==
    UNCHANGED <<part,
                vars, y14, y15, y16, y17, y18>>
OnlyX ==
    UNCHANGED <<part,
                vars, y10, y11, y12, y13, y14, y15, y16, y17, y18>>

MCNext ==
    \/ part = "lock" /\ ObjectsNext /\ OnlyMain
    \/ part = "commits" /\ C!CommitNext /\ OnlyC
    \/ part = "buffers" /\ C!BufferNext /\ OnlyB
    \/ part = "views" /\ V!ViewNext /\ OnlyV
    \/ part = "damage" /\ V!PaintNext /\ OnlyD
    \/ part = "repaint" /\ R!RepaintNext /\ OnlyR
    \/ part = "heads" /\ R!HeadNext /\ OnlyH
    \/ part = "pixels" /\ C!PixmanNext /\ OnlyX

MCSpec == MCInit /\ [][MCNext]_mcvars
-----------------------------------------------------------------------------

\* The scene reaches the screen whole: the commits of a surface are applied in their
\* order, a buffer is released when nothing uses it, views know their outputs, the
\* damage covers what changed, the repaint loop never stalls half-way, heads are
\* announced, and the pixels drawn are those of the scene (surface-state.c,
\* compositor.c, pixman-renderer.c).
SceneWhole ==
    /\ part = "commits" =>
          C!CommitTypeOK /\ C!StreamsInOrder
    /\ part = "buffers" =>
          C!BufferTypeOK /\ C!ReleasedWhenUnused
    /\ part = "views" =>
          V!ViewTypeOK /\ V!ViewsOnTheirOutputs
    /\ part = "damage" =>
          V!PaintTypeOK /\ V!DamageSuffices
    /\ part = "repaint" =>
          R!RepaintTypeOK /\ R!LoopInOnePiece
    /\ part = "heads" =>
          R!HeadTypeOK /\ R!HeadsAnnounced
    /\ part = "pixels" =>
          C!PixmanTypeOK /\ C!PixelsTrue
=============================================================================
