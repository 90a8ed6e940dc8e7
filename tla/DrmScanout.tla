----------------------------- MODULE DrmScanout ------------------------------
(***************************************************************************)
(* What a DRM output scans out: the planes a repaint proposes,             *)
(* framebuffers, format sets, and the dmabufs clients import. Four parts   *)
(* that share no state here.                                               *)
(***************************************************************************)
EXTENDS Integers, Sequences, SequencesExt, FiniteSets, Naturals, FiniteSetsExt

-----------------------------------------------------------------------------
(* How an output's views are spread over the hardware's planes: the proposals tried    *)
(* one after the other (the last state again, planes only, planes beside the renderer, *)
(* the renderer), the stacking positions handed out from the top view down, underlays  *)
(* seen through holes in the renderer's image, solid views dropped into the background,*)
(* and the fall back after a commit that the kernel refused.                           *)

CONSTANTS
    Hardwares,   \* [scan, cursor, overlays, colour]: planes [id, zmin, zmax], highest first
    Views,       \* what a scene is made of: [cells, opaque, kind, on]
    MaxViews,
    Cells        \* the pixels of the output

VARIABLES
    hw,          \* the hardware
    scene,       \* paint_node_z_order_list, top first
    dirty,       \* paint_node_changes has more than a new buffer
    off,         \* disable_planes
    propose_cur,  \* state_cur
    force,       \* force_rebuild_state
    dead         \* an assertion failed

proposeVars == <<hw, scene, dirty, off, propose_cur, force, dead>>

INVALID == 99                                   \* DRM_PLANE_ZPOS_INVALID_PLANE
Low(a, b) == IF a < b THEN a ELSE b
Scenes == UNION {[1..n -> Views] : n \in 1..MaxViews}
HasUnderlay == \E i \in DOMAIN hw.overlays : hw.overlays[i].zmin < hw.scan.zmin

\* An output state: where each view is ("gpu", "bg" or a plane), the zpos of the planes in
\* use, the views that need a hole; and of the proposal's local variables the two lowest
\* zpos, the renderer's and the obscured region and whether a plane lacked room below.
Empty(mode) == [mode |-> mode, enabled |-> ~off, scene |-> scene, at |-> [i \in DOMAIN scene |-> "gpu"],
                z |-> [i \in DOMAIN scene |-> INVALID], hole |-> {}, over |-> INVALID,
                under |-> IF mode = "mixed" THEN hw.scan.zmin ELSE INVALID,
                rend |-> {}, obscured |-> {}, squeezed |-> FALSE]

ProposeTypeOK ==
    /\ hw \in Hardwares /\ Len(scene) \in 1..MaxViews /\ {dirty, off, force, dead} \subseteq BOOLEAN
    /\ propose_cur.mode \in {"invalid", "reuse", "planes", "mixed", "cursor", "renderer"}

ProposeInit ==
    /\ hw \in Hardwares /\ scene \in Scenes /\ dirty = TRUE /\ off = FALSE /\ force = FALSE /\ dead = FALSE
    /\ propose_cur = Empty("invalid")
-----------------------------------------------------------------------------
Opaque(i) == IF scene[i].opaque THEN scene[i].cells ELSE {}
Visible(i) == scene[i].cells \ UNION {Opaque(j) : j \in 1..(i - 1)}
Nodes == {i \in DOMAIN scene : Visible(i) # {}}
Solid(i) == scene[i].kind \in {"black", "colour"}

\* lower_solid_views_to_background_region: the background, or nothing if the solid views
\* cannot all be part of it.
LowerSolid ==
    LET solids == {i \in Nodes : Solid(i)}
        can == /\ \A i \in solids : scene[i].opaque /\ (scene[i].kind = "black" \/ hw.colour)
               /\ \A i, j \in solids : scene[i].kind = scene[j].kind
               /\ \A i \in solids, j \in Nodes \ solids : i < j => Visible(i) \cap scene[j].cells = {}
    IN IF can THEN {solids} ELSE {}

Used(st, p) == \E i \in DOMAIN st.at : st.at[i] = p.id
\* Both subtractions are of unsigned numbers: below position 0 lies the highest.
Position(low, p) == IF low \in {0, INVALID} THEN p.zmax ELSE Low(low - 1, p.zmax)
IsUnder(st, z) == st.mode = "mixed" /\ z <= hw.scan.zmin

\* A view takes plane p below the lowest position handed out so far.
OnPlane(st, i, p, low) ==
    LET z == Position(low, p)
        under == IsUnder(st, z)
    IN [st EXCEPT !.at[i] = p.id, !.z[i] = z,
                  !.hole = IF under THEN @ \cup {i} ELSE @,
                  !.under = IF under THEN z ELSE @, !.over = IF under THEN @ ELSE z,
                  !.rend = IF under THEN @ \cup Visible(i) ELSE @,
                  !.obscured = IF st.mode = "planes" /\ p # hw.scan THEN @ \cup Opaque(i) ELSE @,
                  !.squeezed = @ \/ (low # INVALID /\ low <= p.zmin)]

OnRenderer(st, i) == [st EXCEPT !.rend = @ \cup Visible(i)]

\* The overlay planes view i may be tried on, in the order of the list, each with the
\* position it must stay below.
Candidates(st, i, need) ==
    LET next(p) == IF st.over = INVALID THEN p.zmax ELSE st.over - 1
        low(p) == IF need \/ (HasUnderlay /\ IsUnder(st, next(p))) THEN st.under ELSE st.over
        usable(p) == /\ p.id \in scene[i].on /\ ~Used(st, p)
                     /\ p.zmin < low(p)
                     /\ IsUnder(st, p.zmax) => scene[i].opaque /\ HasUnderlay
        ps == SelectSeq(hw.overlays, usable)
    IN [k \in DOMAIN ps |-> [p |-> ps[k], low |-> low(ps[k])]]

\* view_with_region_matches_output_entirely.
MatchesOutput(st, i, last, bg) ==
    Cells = Opaque(i) \cup (IF i = last THEN st.obscured \cup UNION {Visible(j) : j \in bg} ELSE {})

\* drm_output_find_plane_for_paint_node: the states it can lead to.  With the renderer
\* beside it every plane is tried by the kernel, which may refuse.
FindPlane(st, i, need, last, bg) ==
    LET v == scene[i]
        low == IF need THEN st.under ELSE st.over
        cs == Candidates(st, i, need)
    IN IF v.kind \in {"shm", "cursor"}
       THEN IF st.mode # "renderer" /\ (st.mode = "cursor" => v.kind = "cursor")
               /\ "cursor" \in v.on /\ \A c \in hw.cursor : ~Used(st, c)
            THEN {OnPlane(st, i, c, low) : c \in hw.cursor} ELSE {}
       ELSE IF st.mode = "planes" /\ MatchesOutput(st, i, last, bg) /\ ~Used(st, hw.scan) /\ hw.scan.id \in v.on
            THEN {OnPlane(st, i, hw.scan, low)}
       ELSE IF st.mode = "planes" /\ cs # <<>> THEN {OnPlane(st, i, cs[1].p, cs[1].low)}
       ELSE IF st.mode = "mixed" THEN {OnPlane(st, i, cs[k].p, cs[k].low) : k \in DOMAIN cs} ELSE {}

PlaceView(st, i, last, bg) ==
    LET hidden == st.rend \cap scene[i].cells # {}
        barred == Solid(i) \/ (hidden /\ ~(HasUnderlay /\ scene[i].opaque))
        found == IF barred THEN {} ELSE FindPlane(st, i, hidden, last, bg)
    IN found \cup (IF st.mode = "planes" \/ (st.mode = "cursor" /\ found # {}) THEN {} ELSE {OnRenderer(st, i)})

\* drm_output_propose_state for a mode that is not the last state again.
ProposeState(mode) ==
    LET start == Empty(mode)
        walk(bg) ==
          LET list == SelectSeq([k \in DOMAIN scene |-> k], LAMBDA i : i \in Nodes \ bg)
              last == IF mode = "planes" /\ list # <<>> THEN Last(list) ELSE 0
              first == [start EXCEPT !.at = [i \in DOMAIN scene |-> IF i \in bg THEN "bg" ELSE "gpu"]]
          IN FoldLeft(LAMBDA S, i : UNION {PlaceView(st, i, last, bg) : st \in S}, {first}, list)
    IN CASE mode = "planes" -> UNION {walk(bg) : bg \in LowerSolid}
         [] mode = "mixed" /\ propose_cur.mode \notin {"mixed", "cursor", "renderer"} -> {}
         [] OTHER -> walk({})

\* drm_output_check_zpos_plane_states; the renderer's plane is in the state too.
Positions(st) == {<<i, st.z[i]>> : i \in {j \in DOMAIN st.at : st.z[j] # INVALID}}
                 \cup (IF st.mode = "mixed" THEN {<<0, hw.scan.zmin>>} ELSE {})
Twice(st) == \E a, b \in Positions(st) : a # b /\ a[2] = b[2]

\* What the kernel is told: the position of a plane that has only one is not.
PlaneOf(st, i) == CHOOSE p \in {hw.scan} \cup hw.cursor \cup ToSet(hw.overlays) : p.id = st.at[i]
Acceptable(st) ==
    \A i \in DOMAIN st.at : st.z[i] # INVALID =>
        LET p == PlaneOf(st, i) IN p.zmin = p.zmax \/ st.z[i] \in p.zmin..p.zmax

\* drm_output_propose_state_try_reuse.
MayReuse ==
    /\ ~force /\ propose_cur.mode \in {"planes", "mixed"} /\ ~dirty /\ propose_cur.enabled = ~off
    /\ \A i \in DOMAIN propose_cur.at : propose_cur.z[i] # INVALID => scene[i].on # {}

\* drm_assign_planes: the states of the first proposals that the kernel may let through.
Proposals ==
    LET planes == IF off THEN {} ELSE ProposeState("planes")
        mixed == IF off THEN {} ELSE ProposeState("mixed")
    IN (IF MayReuse THEN {[propose_cur EXCEPT !.scene = scene]} ELSE {})
       \cup planes \cup mixed \cup ProposeState(IF off THEN "renderer" ELSE "cursor")
-----------------------------------------------------------------------------
\* The top view goes or the stack is turned over, planes are turned off or on for this
\* output, or the top view gets a buffer no plane can show.
SceneChanges ==
    /\ ~dirty /\ ~force /\ dirty' = TRUE
    /\ scene' \in {Reverse(scene)} \cup (IF Len(scene) > 1 THEN {Tail(scene)} ELSE {})
    /\ UNCHANGED <<hw, off, propose_cur, force, dead>>

PlanesSwitched == ~dirty /\ ~force /\ off' = ~off /\ UNCHANGED <<hw, scene, dirty, propose_cur, force, dead>>

NewBuffer ==
    /\ ~dirty /\ ~force /\ scene[1].kind = "dmabuf" /\ scene' = [scene EXCEPT ![1].on = {}]
    /\ UNCHANGED <<hw, dirty, off, propose_cur, force, dead>>

\* A repaint: a state is chosen and committed; a refused one is never reused.  A reused
\* mixed state never has a view on the renderer's plane.
Repaint ==
    /\ ~dead
    /\ \E st \in Proposals :
         IF st.mode \in {"planes", "mixed"} /\ Twice(st)
         THEN dead' = TRUE /\ UNCHANGED <<dirty, propose_cur, force>>
         ELSE \E ok \in BOOLEAN :
              /\ Acceptable(st) \/ (st.mode = "cursor" /\ ~ok)
              /\ dead' = FALSE /\ dirty' = FALSE /\ force' = ~ok
              /\ propose_cur' = IF ok THEN st ELSE propose_cur
    /\ UNCHANGED <<hw, scene, off>>

ProposeRestart ==
    /\ dead /\ dead' = FALSE /\ dirty' = TRUE /\ off' = FALSE /\ force' = FALSE
    /\ propose_cur' = [Empty("invalid") EXCEPT !.enabled = TRUE] /\ UNCHANGED <<hw, scene>>

ProposeNext ==
    \/ ~dead /\ (SceneChanges \/ PlanesSwitched \/ NewBuffer)
    \/ Repaint
    \/ ProposeRestart

ProposeSpec == ProposeInit /\ [][ProposeNext]_proposeVars
-----------------------------------------------------------------------------
\* Down to the first opaque view.
Cut(seq) ==
    LET stops == {k \in DOMAIN seq : propose_cur.scene[seq[k]].opaque}
    IN IF stops = {} THEN seq ELSE SubSeq(seq, 1, CHOOSE k \in stops : \A l \in stops : k <= l)

Covering(c, S) == SetToSortSeq({i \in S : c \in propose_cur.scene[i].cells}, LAMBDA i, j : i < j)

\* What the kernel makes of cur at pixel c: planes above the renderer's image, the image
\* up to a hole, planes below it, and the background.
ShownAt(c) ==
    LET ez(i) == LET p == PlaneOf(propose_cur, i) IN IF p.zmin = p.zmax THEN p.zmin ELSE propose_cur.z[i]
        planes == {i \in DOMAIN propose_cur.at : propose_cur.z[i] # INVALID /\ c \in propose_cur.scene[i].cells}
        stack(S) == SetToSortSeq(S, LAMBDA i, j : ez(i) > ez(j))
        drawn == IF propose_cur.mode = "planes" THEN {} ELSE {i \in DOMAIN propose_cur.at : propose_cur.at[i] = "gpu"}
        image == Covering(c, drawn \cup propose_cur.hole)
        stops == {k \in DOMAIN image : image[k] \in propose_cur.hole \/ propose_cur.scene[image[k]].opaque}
        seen == IF stops = {} THEN image
                ELSE LET k == CHOOSE k \in stops : \A l \in stops : k <= l
                     IN SubSeq(image, 1, IF image[k] \in propose_cur.hole THEN k - 1 ELSE k)
        above == {i \in planes : propose_cur.mode = "planes" \/ ez(i) > hw.scan.zmin}
    IN Cut(stack(above) \o seen \o stack(planes \ above)
           \o Covering(c, {i \in DOMAIN propose_cur.at : propose_cur.at[i] = "bg"}))

\* The screen shows the views that are visible, in the order of the scene, whichever of
\* them are on planes, under the renderer's image or part of the background; except where
\* a plane was used though no position was left for it below the views above it.
PictureIsTheScene ==
    /\ dead => \E st \in Proposals : st.squeezed
    /\ propose_cur.squeezed \/ propose_cur.mode = "invalid"
       \/ \A c \in Cells : ShownAt(c) = Cut(Covering(c, DOMAIN propose_cur.scene))

-----------------------------------------------------------------------------
(* Framebuffers made from clients' dmabufs for a device that is not the renderer's:    *)
(* cached with the buffer, held by the cache and by plane states from proposal to the  *)
(* flip that replaces them.  Each plane of a buffer is imported, and the kernel's one  *)
(* handle per memory is counted over all framebuffers that use it.                     *)

CONSTANTS
    Buffers,     \* clients' dmabufs, of two planes each
    Mems,        \* memory they may lie in
    Handles,     \* handle numbers of the device
    NoOne

VARIABLES
    buf,         \* a buffer: [live, mem, direct]
    cache,       \* buffer_fb_list: "no", "bad" or "ok"
    refs,        \* refcnt of a framebuffer; 0 once it is gone
    han,         \* handles[] of a buffer's framebuffer
    gem,         \* gem_handle_refcnt
    num,         \* the handle the kernel has for a memory, 0 for none
    pend, fb_cur, fb_last,  \* fb of the pending, current and previous state of a plane
    stray        \* the handle that was given back though it was not taken, 0 for none

fbVars == <<buf, cache, refs, han, gem, num, pend, fb_cur, fb_last, stray>>

Ends == {"bo", "plane1", "plane2", "addfb", "mask", "ok"}    \* where the making of an fb ends

FbTypeOK ==
    /\ buf \in [Buffers -> [live : BOOLEAN, mem : Mems, direct : BOOLEAN]]
    /\ cache \in [Buffers -> {"no", "bad", "ok"}] /\ refs \in [Buffers -> 0..4]
    /\ han \in [Buffers -> [1..2 -> Handles \cup {0}]] /\ gem \in [Handles -> 0..6]
    /\ num \in [Mems -> Handles \cup {0}] /\ stray \in Handles \cup {0}
    /\ {pend, fb_cur, fb_last} \subseteq Buffers \cup {NoOne}

FbInit ==
    /\ buf = [b \in Buffers |-> [live |-> FALSE, mem |-> CHOOSE x \in Mems : TRUE, direct |-> FALSE]]
    /\ cache = [b \in Buffers |-> "no"] /\ refs = [b \in Buffers |-> 0]
    /\ han = [b \in Buffers |-> [i \in 1..2 |-> 0]] /\ gem = [h \in Handles |-> 0]
    /\ num = [x \in Mems |-> 0] /\ stray = 0
    /\ pend = NoOne /\ fb_cur = NoOne /\ fb_last = NoOne
-----------------------------------------------------------------------------
\* gem_handle_get: the kernel's handle for a memory, a new one if it has none.
GemGet(g, x) ==
    LET free == {h \in Handles : \A y \in Mems : g.num[y] # h}
        h == IF g.num[x] # 0 THEN g.num[x] ELSE Min(free)
    IN [num |-> [g.num EXCEPT ![x] = h], gem |-> [g.gem EXCEPT ![h] = @ + 1]]

GemPut(g, h) ==
    IF h = 0 \/ g.gem[h] = 0 THEN g
    ELSE [gem |-> [g.gem EXCEPT ![h] = @ - 1],
          num |-> [x \in Mems |-> IF g.gem[h] = 1 /\ g.num[x] = h THEN 0 ELSE g.num[x]]]

G == [gem |-> gem, num |-> num]
SetG(g) == gem' = g.gem /\ num' = g.num

\* drm_fb_destroy_dmabuf: the handles are given back.
Destroyed(b) == GemPut(GemPut(G, han[b][1]), han[b][2])

Unref(b) ==
    /\ refs' = [refs EXCEPT ![b] = @ - 1]
    /\ SetG(IF refs[b] = 1 THEN Destroyed(b) ELSE G)
-----------------------------------------------------------------------------
CreateBuffer(b, x, direct) ==
    /\ ~buf[b].live /\ refs[b] = 0
    /\ buf' = [buf EXCEPT ![b] = [live |-> TRUE, mem |-> x, direct |-> direct]]
    /\ UNCHANGED <<cache, refs, han, gem, num, pend, fb_cur, fb_last, stray>>

\* drm_fb_handle_buffer_destroy.
FbDestroyBuffer(b) ==
    /\ buf[b].live /\ buf' = [buf EXCEPT ![b].live = FALSE]
    /\ cache' = [cache EXCEPT ![b] = "no"]
    /\ IF cache[b] = "ok" THEN Unref(b) ELSE UNCHANGED <<refs, gem, num>>
    /\ UNCHANGED <<han, pend, fb_cur, fb_last, stray>>

\* drm_fb_maybe_import and drm_fb_get_from_dmabuf_attributes, up to where they end.  before:
\* the renderer's own handles, which a plane's import replaces; a plane whose import failed
\* gives back what it finds there (fb.c:226), a handle of another framebuffer if the numbers
\* of the two devices agree.
Import(b, end, before) ==
    LET x == buf[b].mem
        one == GemGet(G, x)
        two == GemGet(one, x)
        old(i) == IF buf[b].direct THEN 0 ELSE before[i]
        Taken(h) == IF h # 0 /\ gem[h] > 0 THEN h ELSE 0
    IN CASE end = "bo" -> [g |-> G, stray |-> 0]
         [] end = "plane1" -> [g |-> GemPut(G, old(1)), stray |-> Taken(old(1))]
         [] end = "plane2" -> [g |-> GemPut(GemPut(one, old(2)), one.num[x]), stray |-> Taken(old(2))]
         [] end \in {"addfb", "mask"} -> [g |-> GemPut(GemPut(two, two.num[x]), two.num[x]), stray |-> 0]
         [] end = "ok" -> [g |-> two, stray |-> 0]

\* drm_fb_get_from_paint_node, and what the proposal does with it: a new state takes it,
\* or it is put back.
GetFromPaintNode(b, end, before, take) ==
    LET known == cache[b] # "no"
        ok == IF known THEN cache[b] = "ok" ELSE end = "ok"
        made == IF known THEN [g |-> G, stray |-> 0] ELSE Import(b, end, before)
    IN /\ known => end = "ok"
       /\ take => ok /\ pend = NoOne
       /\ cache' = [cache EXCEPT ![b] = IF ok THEN "ok" ELSE "bad"]
       /\ SetG(made.g) /\ stray' = made.stray
       /\ han' = IF ok /\ ~known THEN [han EXCEPT ![b] = [i \in 1..2 |-> made.g.num[buf[b].mem]]] ELSE han
       /\ refs' = [refs EXCEPT ![b] = @ + (IF ok /\ ~known THEN 1 ELSE 0) + (IF take THEN 1 ELSE 0)]
       /\ pend' = IF take THEN b ELSE pend
       /\ UNCHANGED <<buf, fb_cur, fb_last>>

\* drm_plane_state_duplicate of the current state.
Duplicate ==
    /\ pend = NoOne /\ fb_cur # NoOne
    /\ refs' = [refs EXCEPT ![fb_cur] = @ + 1] /\ pend' = fb_cur
    /\ UNCHANGED <<buf, cache, han, gem, num, fb_cur, fb_last, stray>>

\* drm_output_assign_state, the flip that follows, and a proposal that is dropped.
Commit ==
    /\ pend # NoOne /\ fb_last = NoOne
    /\ fb_last' = fb_cur /\ fb_cur' = pend /\ pend' = NoOne
    /\ UNCHANGED <<buf, cache, refs, han, gem, num, stray>>

FlipDone ==
    /\ fb_last # NoOne /\ fb_last' = NoOne /\ Unref(fb_last)
    /\ UNCHANGED <<buf, cache, han, pend, fb_cur, stray>>

PutBack ==
    /\ pend # NoOne /\ pend' = NoOne /\ Unref(pend)
    /\ UNCHANGED <<buf, cache, han, fb_cur, fb_last, stray>>

\* drm_plane_reset_state: the output goes off.
Reset ==
    /\ fb_cur # NoOne /\ fb_last = NoOne /\ pend = NoOne
    /\ fb_cur' = NoOne /\ Unref(fb_cur)
    /\ UNCHANGED <<buf, cache, han, pend, fb_last, stray>>

\* The compositor is started again; the kernel closes its handles.  After a handle was
\* wrongly given back, this is the only step: what the other framebuffer shows is open.
FbRestart ==
    /\ stray # 0 /\ stray' = 0
    /\ buf' = [b \in Buffers |-> [buf[b] EXCEPT !.live = FALSE]]
    /\ cache' = [b \in Buffers |-> "no"] /\ refs' = [b \in Buffers |-> 0]
    /\ han' = [b \in Buffers |-> [i \in 1..2 |-> 0]] /\ SetG([gem |-> [h \in Handles |-> 0], num |-> [x \in Mems |-> 0]])
    /\ pend' = NoOne /\ fb_cur' = NoOne /\ fb_last' = NoOne

FbNext ==
    \/ /\ stray = 0
       /\ \/ \E b \in Buffers, x \in Mems, direct \in BOOLEAN : CreateBuffer(b, x, direct)
          \/ \E b \in Buffers : FbDestroyBuffer(b)
          \/ \E b \in Buffers : buf[b].live /\
               \E end \in Ends, take \in BOOLEAN :
                 \E before \in IF end \in {"plane1", "plane2"} THEN [1..2 -> Handles] ELSE {<<1, 1>>} :
                   GetFromPaintNode(b, end, before, take)
          \/ Duplicate \/ Commit \/ FlipDone \/ PutBack \/ Reset
    \/ FbRestart

FbSpec == FbInit /\ [][FbNext]_fbVars
-----------------------------------------------------------------------------
Holders(b) == (IF pend = b THEN 1 ELSE 0) + (IF fb_cur = b THEN 1 ELSE 0) + (IF fb_last = b THEN 1 ELSE 0)
              + (IF cache[b] = "ok" THEN 1 ELSE 0)
Using(h) == {<<b, i>> \in Buffers \X (1..2) : refs[b] > 0 /\ han[b][i] = h}

\* The count of a handle is the number of framebuffer planes that use it, one less for the
\* handle that was wrongly given back; and the handle of a framebuffer stays the one of its
\* memory, unless it is that one and so came to be closed.
HandlesExact ==
    /\ \A h \in Handles : gem[h] + (IF h = stray THEN 1 ELSE 0) = Cardinality(Using(h))
    /\ \A b \in Buffers, i \in 1..2 :
         refs[b] > 0 => num[buf[b].mem] = han[b][i] \/ (han[b][i] = stray /\ gem[stray] = 0)

\* A framebuffer lives exactly as long as its cache or a plane state refers to it.  Handles
\* are counted exactly and closed with the last framebuffer that uses them; a handle is
\* given back once too often only for a buffer of the renderer's that could not be imported
\* (fb.c:226), and then one handle, by one.
FramebuffersWhole ==
    /\ \A b \in Buffers : refs[b] = Holders(b)
    /\ \A x \in Mems : num[x] # 0 => gem[num[x]] > 0
    /\ HandlesExact
    /\ stray # 0 => \E b \in Buffers : buf[b].live /\ cache[b] = "bad" /\ ~buf[b].direct

-----------------------------------------------------------------------------
(* Arrays of DRM formats with their modifiers, built by joining, intersecting and      *)
(* subtracting other arrays, checked against the sets of pairs they stand for; and the *)
(* table of the renderer's pairs that clients map, with the indices of those that the  *)
(* planes can scan out.                                                                *)

CONSTANTS
    Arrays,      \* weston_drm_format_array: sequences of [f |-> format, mods |-> modifiers]
    MaxSteps     \* operations on one array

VARIABLES
    arr,         \* the array that is built
    pairs,       \* the pairs of format and modifier it should have
    steps,
    table,       \* the renderer's pairs, as clients see them, and
    scan,        \* scanout_formats_indices
    format_planes  \* formats of the planes: [formats, cursor]

formatVars == <<arr, pairs, steps, table, scan, format_planes>>

\* weston_drm_format_array_find_format.
Find(a, f) == SelectInSeq(a, LAMBDA e : e.f = f)

\* weston_drm_format_has_modifier.
HasModifier(e, m) == \E i \in DOMAIN e.mods : e.mods[i] = m

Pairs(a) == UNION {{<<a[i].f, m>> : m \in ToSet(a[i].mods)} : i \in DOMAIN a}

AddModifiers(e, mods) ==
    FoldLeft(LAMBDA r, m : IF HasModifier(r, m) THEN r ELSE [r EXCEPT !.mods = Append(@, m)], e, mods)

\* weston_drm_format_array_join.
Join(a, b) ==
    FoldLeft(LAMBDA r, e :
                LET with == IF Find(r, e.f) = 0 THEN Append(r, [f |-> e.f, mods |-> <<>>]) ELSE r
                    i == Find(with, e.f)
                IN [with EXCEPT ![i] = AddModifiers(@, e.mods)], a, b)

\* What modifiers_intersect and modifiers_subtract keep of a format, and the removal of a
\* format of which they keep nothing.
Kept(r, e, mods) == IF mods = <<>> THEN r ELSE Append(r, [e EXCEPT !.mods = mods])

\* weston_drm_format_array_intersect.
Intersect(a, b) ==
    FoldLeft(LAMBDA r, e :
                LET j == Find(b, e.f)
                IN IF j = 0 THEN r ELSE Kept(r, e, SelectSeq(e.mods, LAMBDA m : HasModifier(b[j], m))), <<>>, a)

\* weston_drm_format_array_subtract.
Subtract(a, b) ==
    FoldLeft(LAMBDA r, e :
                LET j == Find(b, e.f)
                IN IF j = 0 THEN Append(r, e)
                   ELSE Kept(r, e, SelectSeq(e.mods, LAMBDA m : ~HasModifier(b[j], m))), <<>>, a)

\* weston_drm_format_array_equal.
Equal(a, b) ==
    /\ Len(a) = Len(b)
    /\ \A i \in DOMAIN a : LET j == Find(b, a[i].f)
                           IN /\ j # 0 /\ Len(a[i].mods) = Len(b[j].mods)
                              /\ \A k \in DOMAIN a[i].mods : HasModifier(b[j], a[i].mods[k])
-----------------------------------------------------------------------------
\* format_table_add_renderer_formats: the pairs in order, numbered from 0.
Flat(a) == FoldLeft(LAMBDA r, e : r \o [i \in DOMAIN e.mods |-> <<e.f, e.mods[i]>>], <<>>, a)

\* get_scanout_formats: what some plane other than a cursor and the renderer support.
ScanoutFormats(renderer, ps) ==
    Intersect(renderer, FoldLeft(LAMBDA r, p : IF p.cursor THEN r ELSE Join(r, p.formats), <<>>, ps))

\* format_table_get_format_index, for every pair that set_scanout_indices asks for; one
\* that is not found ends it with none.
Indices(t, a) ==
    LET want == Flat(a)
        all == \A i \in DOMAIN want : \E k \in DOMAIN t : t[k] = want[i]
    IN IF all THEN [i \in DOMAIN want |-> SelectInSeq(t, LAMBDA p : p = want[i]) - 1] ELSE <<>>
-----------------------------------------------------------------------------
FormatTypeOK ==
    /\ arr \in Seq([f : Nat, mods : Seq(Nat)]) /\ pairs \subseteq (Nat \X Nat) /\ steps \in 0..MaxSteps
    /\ \A i \in DOMAIN scan : scan[i] \in 0..(Len(table) - 1)

FormatInit ==
    /\ arr \in Arrays /\ pairs = Pairs(arr) /\ steps = 0
    /\ table = <<>> /\ scan = <<>> /\ format_planes = <<>>

DoJoin(b) == arr' = Join(arr, b) /\ pairs' = pairs \cup Pairs(b)
DoIntersect(b) == arr' = Intersect(arr, b) /\ pairs' = pairs \cap Pairs(b)
DoSubtract(b) == arr' = Subtract(arr, b) /\ pairs' = pairs \ Pairs(b)

\* The renderer's formats become the table, and the DRM backend finds the scanout indices.
MakeTable(ps) ==
    /\ steps = 1 /\ table = <<>> /\ arr # <<>>
    /\ table' = Flat(arr) /\ format_planes' = ps
    /\ scan' = Indices(table', ScanoutFormats(arr, ps))
    /\ UNCHANGED <<arr, pairs, steps>>

FormatNext ==
    \/ /\ steps < MaxSteps /\ steps' = steps + 1 /\ table' = <<>> /\ scan' = <<>> /\ format_planes' = <<>>
       /\ \E b \in Arrays : DoJoin(b) \/ DoIntersect(b) \/ DoSubtract(b)
    \/ \E b, c \in Arrays, cursor \in BOOLEAN :
          MakeTable(<<[formats |-> b, cursor |-> FALSE], [formats |-> c, cursor |-> cursor]>>)
    \/ /\ steps = MaxSteps /\ steps' = 0 /\ arr' = <<>> /\ pairs' = {}
       /\ table' = <<>> /\ scan' = <<>> /\ format_planes' = <<>>

FormatSpec == FormatInit /\ [][FormatNext]_formatVars
-----------------------------------------------------------------------------
\* An array is the set of its pairs: join, intersect and subtract give what the sets give,
\* no format and no modifier of a format is there twice, and two arrays without empty
\* formats are equal exactly if their sets are.  The table's scanout indices name exactly
\* the renderer's pairs that a plane other than a cursor can show.
ArraysAreSets ==
    /\ Pairs(arr) = pairs
    /\ \A i, j \in DOMAIN arr : arr[i].f = arr[j].f => i = j
    /\ \A i \in DOMAIN arr : Len(arr[i].mods) = Cardinality(ToSet(arr[i].mods))
    /\ \A b \in Arrays : (\A i \in DOMAIN arr : arr[i].mods # <<>>) => (Equal(arr, b) <=> pairs = Pairs(b))
    /\ table # <<>> =>
         {table[scan[i] + 1] : i \in DOMAIN scan}
            = pairs \cap UNION {Pairs(format_planes[i].formats) : i \in {k \in DOMAIN format_planes : ~format_planes[k].cursor}}

-----------------------------------------------------------------------------
(* zwp_linux_dmabuf_v1: parameter objects that collect descriptors plane by plane and  *)
(* become a wl_buffer once, and the feedback of a surface, whose scanout tranche the   *)
(* DRM backend switches on and off when the scene has been asking for it long enough.  *)

CONSTANTS
    Params,      \* zwp_linux_buffer_params_v1 objects of one client
    Planes,      \* plane indices 0.. ; the code has four
    Mods,        \* format modifiers; 0 is the one of a new object
    Feedbacks,   \* zwp_linux_dmabuf_feedback_v1 objects of one surface
    Patience     \* seconds a wish must stand (MAX_TIME_SECONDS)

VARIABLES
    obj,         \* "none", "params", "used" (nothing behind it), "buffer"
    fd,          \* attributes.fd: the planes with a descriptor
    mod,         \* attributes.modifier
    said,        \* the modifier given with each plane
    open,        \* descriptors not yet closed
    late,        \* plane 0 came after another plane
    surf,        \* the surface lives
    on,          \* surface->dmabuf_feedback exists
    dmabuf_list,  \* its resource_list
    inert,       \* feedback objects without a surface
    tranche,     \* the scanout tranche: "none", "off" or "on"
    wish, age,   \* action_needed and how long it stands
    told         \* what each feedback object was last told of the scanout tranche

dmabufVars == <<obj, fd, mod, said, open, late, surf, on, dmabuf_list, inert, tranche, wish, age, told>>

bufVars == <<obj, fd, mod, said, open, late>>
feedVars == <<surf, on, dmabuf_list, inert, tranche, wish, age, told>>

DmabufTypeOK ==
    /\ obj \in [Params -> {"none", "params", "used", "buffer"}] /\ fd \in [Params -> SUBSET Planes]
    /\ mod \in [Params -> Mods] /\ said \in [Params -> [Planes -> Mods]]
    /\ open \subseteq (Params \X Planes) /\ late \subseteq Params
    /\ {surf, on} \subseteq BOOLEAN /\ dmabuf_list \subseteq Feedbacks /\ inert \subseteq Feedbacks
    /\ tranche \in {"none", "off", "on"} /\ wish \in {"none", "add", "remove"} /\ age \in 0..Patience
    /\ told \in [Feedbacks -> BOOLEAN]

DmabufInit ==
    /\ obj = [p \in Params |-> "none"] /\ fd = [p \in Params |-> {}] /\ mod = [p \in Params |-> 0]
    /\ said = [p \in Params |-> [i \in Planes |-> 0]] /\ open = {} /\ late = {}
    /\ surf = TRUE /\ on = FALSE /\ dmabuf_list = {} /\ inert = {} /\ tranche = "none"
    /\ wish = "none" /\ age = 0 /\ told = [f \in Feedbacks |-> FALSE]
-----------------------------------------------------------------------------
\* linux_dmabuf_create_params.
CreateParams(p) ==
    /\ obj[p] = "none" /\ obj' = [obj EXCEPT ![p] = "params"]
    /\ fd' = [fd EXCEPT ![p] = {}] /\ mod' = [mod EXCEPT ![p] = 0]
    /\ said' = [said EXCEPT ![p] = [i \in Planes |-> 0]] /\ late' = late \ {p}
    /\ UNCHANGED open

\* params_add; a refused one closes its descriptor and changes nothing.
Add(p, i, m) ==
    /\ obj[p] = "params" /\ i \notin fd[p] /\ (i > 0 => mod[p] = m)
    /\ <<p, i>> \notin open        \* bound: one lost descriptor per plane
    /\ mod' = [mod EXCEPT ![p] = m] /\ said' = [said EXCEPT ![p][i] = m]
    /\ fd' = [fd EXCEPT ![p] = @ \cup {i}] /\ open' = open \cup {<<p, i>>}
    /\ late' = IF i = 0 /\ fd[p] # {} THEN late \cup {p} ELSE late
    /\ UNCHANGED obj

\* linux_dmabuf_buffer_destroy closes as many planes as were added, from the first.
Closed(p) == {<<p, i>> : i \in {j \in fd[p] : j < Cardinality(fd[p])}}

\* destroy_params.
DestroyParams(p) ==
    /\ obj[p] \in {"params", "used"} /\ obj' = [obj EXCEPT ![p] = "none"]
    /\ open' = IF obj[p] = "params" THEN open \ Closed(p) ELSE open
    /\ UNCHANGED <<fd, mod, said, late>>

\* params_create_common: the object is used up; planes, sizes or the import may be wrong,
\* or there is no memory for the wl_buffer, whose import is then undone.
Create(p, ok) ==
    LET n == Cardinality(fd[p])
    IN /\ obj[p] = "params"
       /\ ok => n > 0 /\ \A i \in Planes : i < n => i \in fd[p]
       /\ obj' = [obj EXCEPT ![p] = IF ok THEN "buffer" ELSE "used"]
       /\ open' = IF ok THEN open ELSE open \ Closed(p)
       /\ UNCHANGED <<fd, mod, said, late>>

\* destroy_linux_dmabuf_wl_buffer.
DmabufDestroyBuffer(p) ==
    /\ obj[p] = "buffer" /\ obj' = [obj EXCEPT ![p] = "none"]
    /\ open' = open \ Closed(p)
    /\ UNCHANGED <<fd, mod, said, late>>
-----------------------------------------------------------------------------
\* weston_dmabuf_feedback_send to some objects, of whether the scanout tranche is active.
Send(to, active) == [f \in Feedbacks |-> IF f \in to THEN active ELSE told[f]]

\* linux_dmabuf_get_per_surface_feedback: a new object is told the active tranches.
GetFeedback(f) ==
    /\ surf /\ f \notin dmabuf_list \cup inert
    /\ on' = TRUE /\ dmabuf_list' = dmabuf_list \cup {f}
    /\ told' = Send({f}, on /\ tranche = "on")
    /\ IF on THEN UNCHANGED <<tranche, wish, age>> ELSE tranche' = "none" /\ wish' = "none" /\ age' = 0
    /\ UNCHANGED <<surf, inert>>

DestroyFeedback(f) ==
    /\ f \in dmabuf_list \cup inert /\ dmabuf_list' = dmabuf_list \ {f} /\ inert' = inert \ {f}
    /\ on' = (on /\ (f \in inert \/ dmabuf_list # {f}))
    /\ UNCHANGED <<surf, tranche, wish, age, told>>

\* weston_surface_unref with weston_dmabuf_feedback_destroy; a surface comes in its place.
SurfaceDestroyed ==
    /\ surf /\ surf' = FALSE /\ on' = FALSE
    /\ inert' = inert \cup dmabuf_list /\ dmabuf_list' = {}
    /\ UNCHANGED <<tranche, wish, age, told>>

CreateSurface ==
    /\ ~surf /\ surf' = TRUE
    /\ UNCHANGED <<on, dmabuf_list, inert, tranche, wish, age, told>>

\* weston_dmabuf_feedback_find_tranche, or a new one that is not active.
ScanoutTranche == IF tranche = "none" THEN "off" ELSE tranche

\* dmabuf_feedback_maybe_update, after a repaint in which the view's plane failures ask for
\* the scanout tranche, ask for its removal, or neither.
MaybeUpdate(need) ==
    LET have == ScanoutTranche
        idle == need = "none" \/ (need = "add" /\ have = "on") \/ (need = "remove" /\ have = "off")
        act == ~idle /\ wish = need /\ age = Patience
        now == IF act THEN (IF need = "add" THEN "on" ELSE "off") ELSE have
    IN /\ on
       /\ tranche' = now
       /\ wish' = IF idle \/ act THEN "none" ELSE need
       /\ age' = IF idle \/ act \/ wish # need THEN 0 ELSE age
       /\ told' = IF act THEN Send(dmabuf_list, now = "on") ELSE told
       /\ UNCHANGED <<surf, on, dmabuf_list, inert>>

Second ==
    /\ wish # "none" /\ on /\ age < Patience /\ age' = age + 1
    /\ UNCHANGED <<surf, on, dmabuf_list, inert, tranche, wish, told>>

DmabufNext ==
    \/ /\ \E p \in Params : \/ CreateParams(p) \/ DestroyParams(p) \/ DmabufDestroyBuffer(p)
                            \/ \E i \in Planes, m \in Mods : Add(p, i, m)
                            \/ \E ok \in BOOLEAN : Create(p, ok)
       /\ UNCHANGED feedVars
    \/ /\ \/ \E f \in Feedbacks : GetFeedback(f) \/ DestroyFeedback(f)
          \/ SurfaceDestroyed \/ CreateSurface \/ Second
          \/ \E need \in {"none", "add", "remove"} : MaybeUpdate(need)
       /\ UNCHANGED bufVars

DmabufSpec == DmabufInit /\ [][DmabufNext]_dmabufVars
-----------------------------------------------------------------------------
\* A wl_buffer has all its planes from the first on, with descriptors that are open, and
\* its planes agree on the modifier unless the first was added late.  Nothing is left open
\* of an object that is gone, but the descriptors of planes beyond a gap, which are never
\* closed (linux-dmabuf.c:49 counts from the first).  A surface has feedback exactly while someone listens to it, so
\* that sending it to all (an assertion) finds someone, and each listener knows whether
\* the scanout tranche is on.
DmabufWhole ==
    /\ \A p \in Params : obj[p] = "buffer" =>
         /\ fd[p] = {i \in Planes : i < Cardinality(fd[p])} /\ fd[p] # {}
         /\ \A i \in fd[p] : <<p, i>> \in open
         /\ p \in late \/ \A i \in fd[p] : said[p][i] = mod[p]
    /\ \A p \in Params : obj[p] \in {"none", "used"} =>
         \A i \in fd[p] : <<p, i>> \in open <=> i >= Cardinality(fd[p])
    /\ on <=> (surf /\ dmabuf_list # {})
    /\ \A f \in dmabuf_list : told[f] = (tranche = "on")
=============================================================================
