----------------------------- MODULE SceneGraph ------------------------------
(***************************************************************************)
(* The scene graph: which outputs a view is on and which list it is in,    *)
(* and the damage its paint nodes collect. Two parts that share no state   *)
(* here.                                                                   *)
(***************************************************************************)
EXTENDS Integers, Sequences, FiniteSets, SequencesExt, FiniteSetsExt

-----------------------------------------------------------------------------
(* Which outputs a view is on: layers, the view list, cached transforms,       *)
(* output assignment of views and surfaces, wl_surface.enter and leave, and     *)
(* outputs that come and go.  One dimension.           *)

CONSTANTS
    Outputs,
    At,         \* where the left edge of an output is
    Places,     \* where the left edge of a view may be
    Wide,       \* the width of every output and view
    NONE

VARIABLES
    alive, off, view_dirty, view_box, layered, mapped, vmask, vout,  \* views
    smapped,    \* surfaces with content, mapped
    smask, sout, told,
    lv,         \* the layer is in the compositor's layer list
    listed,     \* views in compositor->view_list
    view_rebuild,  \* view_list_needs_rebuild
    view_on,    \* enabled outputs, in order
    id,
    missed      \* views not in the view list when an output came or went, and since (history)

viewVars == <<alive, off, view_dirty, view_box, layered, mapped, vmask, vout, smapped, smask, sout,
              told, lv, listed, view_rebuild, view_on, id, missed>>

AllViews == {1, 2}
Surfaces == {1, 2}
Ids == 0..Cardinality(Outputs) - 1
\* View 1 is a window's, view 2 its sub-surface's.
SurfaceOf(v) == v
ParentOf(v) == IF v = 2 THEN 1 ELSE 0
Children(v) == {c \in alive : ParentOf(c) = v}
Tops == {v \in alive : ParentOf(v) = 0}

ViewTypeOK ==
    /\ alive \subseteq AllViews /\ listed \subseteq alive /\ missed \subseteq AllViews
    /\ vmask \in [AllViews -> SUBSET Ids] /\ vout \in [AllViews -> Outputs \cup {NONE}]
    /\ smask \in [Surfaces -> SUBSET Ids] /\ sout \in [Surfaces -> Outputs \cup {NONE}]
    /\ told \in [Surfaces -> SUBSET Outputs]
    /\ layered \subseteq Tops /\ mapped \subseteq alive /\ view_dirty \subseteq alive

ViewInit ==
    /\ alive = AllViews /\ off = [v \in AllViews |-> 0] /\ view_dirty = {}
    /\ view_box = [v \in AllViews |-> {}] /\ layered = {} /\ mapped = {}
    /\ vmask = [v \in AllViews |-> {}] /\ vout = [v \in AllViews |-> NONE]
    /\ smapped = {} /\ smask = [s \in Surfaces |-> {}] /\ sout = [s \in Surfaces |-> NONE]
    /\ told = [s \in Surfaces |-> {}]
    /\ lv = TRUE /\ listed = {} /\ view_rebuild = FALSE
    /\ view_on = <<>> /\ id = [o \in Outputs |-> 0]
    /\ missed = {}

ViewNow == [alive |-> alive, off |-> off, dirty |-> view_dirty, box |-> view_box, layered |-> layered,
            mapped |-> mapped, vmask |-> vmask, vout |-> vout, smapped |-> smapped, smask |-> smask,
            sout |-> sout, told |-> told, listed |-> listed, rebuild |-> view_rebuild, on |-> view_on,
            id |-> id, missed |-> missed, going |-> {}]

ViewBecome(st) ==
    /\ alive' = st.alive /\ off' = st.off /\ view_dirty' = st.dirty /\ view_box' = st.box
    /\ layered' = st.layered /\ mapped' = st.mapped /\ vmask' = st.vmask /\ vout' = st.vout
    /\ smapped' = st.smapped /\ smask' = st.smask /\ sout' = st.sout /\ told' = st.told
    /\ listed' = st.listed /\ view_rebuild' = st.rebuild /\ view_on' = st.on
    /\ id' = st.id
    /\ missed' = st.missed

Region(o) == At[o]..(At[o] + Wide - 1)
Area(st, v, o) == Cardinality(st.box[v] \cap Region(o))
-----------------------------------------------------------------------------
\* weston_surface_update_output_mask: enter and leave of the outputs in the list.
SurfaceMask(st, s, m) ==
    LET has(o) == st.id[o] \in m
        known == Range(st.on)
    IN  [st EXCEPT !.smask[s] = m,
                   !.told[s] = (@ \ {o \in known : st.id[o] \in st.smask[s] \ m})
                               \cup {o \in known : st.id[o] \in m \ st.smask[s]}]

\* weston_surface_assign_output: the output with the largest part of a view in a
\* layer.
SurfaceAssign(st, s) ==
    LET InLayer(v) == IF ParentOf(v) # 0 THEN ParentOf(v) \in st.layered ELSE v \in st.layered
        of == SelectSeq(<<2, 1>>, LAMBDA v : v \in st.alive /\ SurfaceOf(v) = s
                                             /\ st.vout[v] # NONE /\ InLayer(v))
        Better(acc, v) ==
            LET a == Area(st, v, st.vout[v])
                o == st.vout[v]
            IN  IF a > acc.max THEN [new |-> o, max |-> a]
                ELSE IF a = acc.max /\ acc.new # NONE THEN [acc EXCEPT !.new = o] ELSE acc
        won == FoldLeft(Better, [new |-> NONE, max |-> 0], of)
    IN  SurfaceMask([st EXCEPT !.sout[s] = won.new], s, UNION {st.vmask[v] : v \in Range(of)})

\* weston_view_assign_output
Assign(st, v) ==
    LET on1 == SelectSeq(st.on, LAMBDA o : o \notin st.going /\ Area(st, v, o) > 0)
        Better(acc, o) ==
            LET a == Area(st, v, o)
            IN  IF a > acc.max THEN [new |-> o, max |-> a]
                ELSE IF acc.new # NONE /\ a = acc.max THEN [acc EXCEPT !.new = o] ELSE acc
        won == FoldLeft(Better, [new |-> NONE, max |-> 0], on1)
    IN  SurfaceAssign([st EXCEPT !.vmask[v] = {st.id[o] : o \in Range(on1)}, !.vout[v] = won.new,
                                 !.missed = @ \ {v}], SurfaceOf(v))

\* weston_view_geometry_dirty_internal
Dirty(st, v) == IF v \in st.dirty THEN st ELSE [st EXCEPT !.dirty = @ \cup {v} \cup Children(v)]

\* One view of weston_view_update_transform_internal.
Place(st, v) ==
    LET base == IF ParentOf(v) # 0 THEN st.off[ParentOf(v)] ELSE 0
        at == base + st.off[v]
    IN  Assign([st EXCEPT !.dirty = @ \ {v}, !.box[v] = IF SurfaceOf(v) \in st.smapped THEN at..(at + Wide - 1) ELSE {}], v)

\* weston_view_update_transform: the parent first, the children after.
Update(st, v) ==
    LET p == ParentOf(v)
        up == IF p # 0 /\ p \in st.dirty THEN Place(st, p) ELSE st
        here == Place(up, v)
        kids == Children(v) \cap here.dirty
    IN  IF v \notin st.dirty THEN st
        ELSE FoldSet(LAMBDA c, acc : Place(acc, c), here, kids)

\* weston_view_unmap of one view.
Unmap1(st, v) ==
    IF v \notin st.mapped THEN st
    ELSE SurfaceAssign([st EXCEPT !.vout[v] = NONE, !.mapped = @ \ {v}, !.layered = @ \ {v},
                                  !.listed = @ \ {v}, !.vmask[v] = {}, !.rebuild = TRUE], SurfaceOf(v))
\* weston_view_unmap: sub-surface views first.
ViewUnmap(st, v) ==
    IF v \notin st.mapped THEN st
    ELSE Unmap1(FoldSet(LAMBDA c, acc : Unmap1(acc, c), st, Children(v)), v)
-----------------------------------------------------------------------------
\* weston_view_move_to_layer, to the layer or out of the scene.
ViewMoveToLayer(v, to) ==
    LET out == [(IF v \in mapped THEN Dirty(ViewNow, v) ELSE ViewNow)
                   EXCEPT !.rebuild = TRUE, !.layered = @ \ {v}]
        hidden == ViewUnmap(out, v)
        in(st) == [st EXCEPT !.layered = @ \cup {v}]
    IN  /\ v \in Tops
        /\ ViewBecome(IF ~to THEN hidden
                      ELSE IF ~lv THEN in(hidden)
                      ELSE Update(Dirty([in(out) EXCEPT !.mapped = @ \cup {v}], v), v))
        /\ UNCHANGED lv

\* weston_view_set_position
ViewSetPosition(v, x) ==
    /\ v \in Tops /\ x # off[v]
    /\ ViewBecome(Update(Dirty([ViewNow EXCEPT !.off[v] = x], v), v)) /\ UNCHANGED lv

\* surface_set_size: the surface's views get a new transform.
Resized(st, s) ==
    FoldSet(LAMBDA v, acc : Update(Dirty(acc, v), v), st, {v \in alive : SurfaceOf(v) = s})

\* A commit with a first buffer, and one without a buffer: size, and map or unmap.
SurfaceMap(s) ==
    /\ s \notin smapped
    /\ ViewBecome([Resized([ViewNow EXCEPT !.smapped = @ \cup {s}], s) EXCEPT !.rebuild = TRUE]) /\ UNCHANGED lv
SurfaceUnmap(s) ==
    /\ s \in smapped
    /\ LET un == FoldSet(LAMBDA v, acc : ViewUnmap(acc, v), [ViewNow EXCEPT !.smapped = @ \ {s}],
                         {v \in alive : SurfaceOf(v) = s})
       IN  ViewBecome(Resized([un EXCEPT !.sout[s] = NONE], s))
    /\ UNCHANGED lv

\* weston_view_destroy: sub-surface views go with their parent.
DestroyView(v) ==
    LET un == ViewUnmap(ViewNow, v)
        gone == {v} \cup Children(v)
        left == [un EXCEPT !.alive = @ \ gone, !.listed = @ \ gone, !.layered = @ \ gone,
                           !.dirty = @ \ gone, !.mapped = @ \ gone, !.missed = @ \ gone,
                           !.vout = [w \in AllViews |-> IF w \in gone THEN NONE ELSE @[w]],
                           !.vmask = [w \in AllViews |-> IF w \in gone THEN {} ELSE @[w]],
                           !.box = [w \in AllViews |-> IF w \in gone THEN {} ELSE @[w]],
                           !.off = [w \in AllViews |-> IF w \in gone THEN 0 ELSE @[w]],
                           !.rebuild = @ \/ (gone \cap un.listed # {})]
    IN  v \in Tops /\ ViewBecome(left) /\ UNCHANGED lv

\* weston_view_create with weston_view_create_subsurfaces.
CreateView(v) ==
    LET new == AllViews
        made == [ViewNow EXCEPT !.alive = @ \cup new, !.dirty = @ \cup new]
    IN  /\ v = 1 /\ v \notin alive
        /\ ViewBecome(FoldSet(LAMBDA w, acc : Place(acc, w), made, new)) /\ UNCHANGED lv

\* weston_layer_set_position, weston_layer_unset_position
LayerShown ==
    /\ lv' = ~lv /\ UNCHANGED <<alive, off, view_dirty, view_box, layered, mapped, vmask, vout, smapped,
                               smask, sout, told, listed, view_rebuild, view_on, id, missed>>

\* view_list_add_subsurface_view: sub-surface views of mapped surfaces.
SubViews(tops) == {c \in alive : ParentOf(c) \in tops /\ {1, 2} \subseteq smapped}

\* weston_compositor_build_view_list, before a repaint.
ViewListBuild ==
    LET tops == IF lv THEN layered ELSE {}
        kids == SubViews(tops)
        placed == FoldSet(LAMBDA v, acc : Update(acc, v), ViewNow, tops)
        all == FoldSet(LAMBDA v, acc : Update(acc, v), placed, kids)
    IN  /\ view_rebuild
        /\ ViewBecome([all EXCEPT !.listed = tops \cup kids, !.mapped = @ \cup kids, !.rebuild = FALSE])
        /\ UNCHANGED lv

\* weston_output_enable and weston_compositor_add_output: the lowest free id.
EnableOutput(o) ==
    LET free == Ids \ {id[p] : p \in Range(view_on)}
    IN  /\ o \notin Range(view_on)
        /\ ViewBecome(FoldSet(LAMBDA v, acc : Dirty(acc, v),
                              [ViewNow EXCEPT !.on = Append(@, o), !.id[o] = Min(free),
                                              !.rebuild = TRUE, !.missed = @ \cup (alive \ listed)], listed))
        /\ UNCHANGED lv

\* weston_output_disable and weston_compositor_remove_output (outputs were placed
\* with weston_output_move, so that the others stay where they are).
DisableOutput(o) ==
    LET going == [ViewNow EXCEPT !.going = {o}]
        moved == FoldSet(LAMBDA v, acc : Assign(acc, v), going, {v \in listed : id[o] \in vmask[v]})
        had == {v \in AllViews : moved.vout[v] = o}
    IN  /\ o \in Range(view_on)
        /\ ViewBecome([moved EXCEPT !.on = SelectSeq(@, LAMBDA p : p # o), !.id[o] = 0,
                                    !.vout = [v \in AllViews |-> IF v \in had THEN NONE ELSE @[v]],
                                    !.sout = [s \in Surfaces |-> IF \E v \in had : SurfaceOf(v) = s
                                                                THEN NONE ELSE @[s]],
                                    !.told = [s \in Surfaces |-> @[s] \ {o}],
                                    !.missed = @ \cup (alive \ listed)])
        /\ UNCHANGED lv

ViewNext ==
    \/ \E v \in AllViews : \/ \E to \in BOOLEAN : ViewMoveToLayer(v, to)
                           \/ \E x \in Places : ViewSetPosition(v, x)
                           \/ DestroyView(v)
                           \/ CreateView(v)
    \/ \E s \in Surfaces : SurfaceMap(s) \/ SurfaceUnmap(s)
    \/ LayerShown
    \/ ViewListBuild
    \/ \E o \in Outputs : \/ EnableOutput(o)
                          \/ DisableOutput(o)

ViewSpec == ViewInit /\ [][ViewNext]_viewVars
-----------------------------------------------------------------------------
Over(v) == {id[o] : o \in {p \in Range(view_on) : Area(ViewNow, v, p) > 0}}

\* What the compositor believes about outputs follows what is there: no view
\* points to an output that is gone; a view in the view list whose transform
\* is up to date is on exactly the outputs it covers, unless outputs changed while
\* it was not listed; a child is dirty whenever its parent is; and a client
\* is told to be on no output that is gone.
ViewsOnTheirOutputs ==
    /\ \A v \in AllViews : vout[v] # NONE => vout[v] \in Range(view_on)
    /\ \A v \in listed : v \notin view_dirty \cup missed => vmask[v] = Over(v)
    /\ \A v \in alive : ParentOf(v) \in view_dirty => v \in view_dirty
    /\ \A s \in Surfaces : told[s] \subseteq Range(view_on)

-----------------------------------------------------------------------------
(* Paint nodes: the z-order list of an output, visible regions, planes and the  *)
(* damage that decides which pixels a repaint draws again.  One output, a       *)
(* background that is always there and windows above it; the output is *)
(* a set of cells, a surface's content a number.                                *)

CONSTANTS
    Windows, Back,      \* the views of windows and of the background
    Cells,      \* what the output consists of
    Boxes,      \* where a view may be
    MaxChanges

VARIABLES
    want,       \* where a view is to be
    paint_box,  \* transform.boundingbox, as last computed, on this output
    paint_dirty,  \* views with transform.dirty
    solid,      \* views whose content is opaque
    ver,        \* the content of a surface
    sdmg,       \* surfaces with damage not yet flushed
    order,      \* windows in layers, top first
    paint_on,   \* views with this output in their output_mask
    zl,         \* paint_node_z_order_list, top first
    node,       \* the paint node of each view
    vrebuild, paint_rebuild,  \* view_list_needs_rebuild, paint_node_list_needs_rebuild
    full,       \* full_repaint_needed
    fb,         \* what the renderer has drawn in each cell
    fresh,      \* a repaint has just succeeded
    changes,    \* to the scene and failures so far
    owed        \* cells of views lowered or brought back, not drawn since (history)

paintVars == <<want, paint_box, paint_dirty, solid, ver, sdmg, order, paint_on, zl, node, vrebuild, paint_rebuild,
               full, fb, fresh, changes, owed>>

PaintedViews == Windows \cup {Back}
Planes == {"none", "primary", "over", "under"}
NoNode == [has |-> FALSE, plane |-> "none", vis |-> {}, prev |-> {}, dmg |-> {},
           stat |-> {}, opaque |-> FALSE]
NewNode(b) == [has |-> TRUE, plane |-> "primary", vis |-> b, prev |-> {}, dmg |-> {},
               stat |-> {"view", "vis"}, opaque |-> FALSE]

PaintTypeOK ==
    /\ node \in [PaintedViews -> [has : BOOLEAN, plane : Planes, vis : SUBSET Cells,
                                  prev : SUBSET Cells, dmg : SUBSET Cells,
                                  stat : SUBSET {"view", "vis"}, opaque : BOOLEAN]]
    /\ Range(order) \subseteq Windows /\ paint_on \subseteq Range(order) \cup {Back}
    /\ Range(zl) \subseteq paint_on /\ \A v \in Range(zl) : node[v].has
    /\ paint_dirty \subseteq PaintedViews /\ changes \in 0..MaxChanges /\ owed \subseteq Cells

PaintInit ==
    /\ want = [v \in PaintedViews |-> IF v = Back THEN Cells ELSE {}] /\ paint_box = want
    /\ paint_dirty = {} /\ solid = {Back} /\ ver = [v \in PaintedViews |-> 0] /\ sdmg = {}
    /\ order = <<>> /\ paint_on = {Back} /\ zl = <<>> /\ node = [v \in PaintedViews |-> NoNode]
    /\ vrebuild = TRUE /\ paint_rebuild = TRUE /\ full = TRUE
    /\ fb = [c \in Cells |-> <<>>] /\ fresh = FALSE /\ changes = 0 /\ owed = {}

PaintNow == [want |-> want, box |-> paint_box, dirty |-> paint_dirty, solid |-> solid, ver |-> ver,
             sdmg |-> sdmg, order |-> order, on |-> paint_on, zl |-> zl, node |-> node,
             vrebuild |-> vrebuild, rebuild |-> paint_rebuild, full |-> full, owed |-> owed]

PaintBecome(st) ==
    /\ want' = st.want /\ paint_box' = st.box /\ paint_dirty' = st.dirty /\ solid' = st.solid
    /\ ver' = st.ver /\ sdmg' = st.sdmg /\ order' = st.order /\ paint_on' = st.on /\ zl' = st.zl
    /\ node' = st.node /\ vrebuild' = st.vrebuild /\ paint_rebuild' = st.rebuild
    /\ full' = st.full /\ owed' = st.owed
Changed == changes < MaxChanges /\ changes' = changes + 1 /\ fresh' = FALSE
-----------------------------------------------------------------------------
Rank(seq, v) == CHOOSE i \in DOMAIN seq : seq[i] = v
Below(seq, v) == {seq[i] : i \in Rank(seq, v) + 1 .. Len(seq)}

\* paint_node_damage_below, for a node in the list.
DamageBelow(st, v, r) ==
    IF st.node[v].plane = "none" THEN st
    ELSE [st EXCEPT !.node = [w \in PaintedViews |->
            IF w \in Below(st.zl, v) THEN [st.node[w] EXCEPT !.dmg = @ \cup r] ELSE st.node[w]]]

RemoveZOrderLink(st, v) ==
    LET d == IF v \in Range(st.zl) THEN DamageBelow(st, v, st.node[v].vis) ELSE st
    IN  [d EXCEPT !.node[v] = [NoNode EXCEPT !.has = d.node[v].has, !.opaque = d.node[v].opaque],
                  !.zl = SelectSeq(@, LAMBDA w : w # v)]

\* weston_view_dirty_paint_nodes: what a blended view on a plane of its own
\* uncovers needs no repaint.
DirtyPaintNodes(st, v) ==
    IF ~st.node[v].has THEN st
    ELSE [st EXCEPT !.node[v].stat = @ \cup {"view"}
            \cup (IF st.node[v].plane = "primary" \/ st.node[v].opaque THEN {"vis"} ELSE {})]

\* weston_view_geometry_dirty_internal.
GeometryDirty(st, v) ==
    IF v \in st.dirty THEN st
    ELSE DirtyPaintNodes([st EXCEPT !.dirty = @ \cup {v}], v)

\* weston_view_set_output_mask, for the one output.
SetOutputMask(st, v, is) ==
    IF is = (v \in st.on) THEN st
    ELSE IF is THEN [st EXCEPT !.on = @ \cup {v}, !.rebuild = TRUE]
    ELSE [(IF st.node[v].has THEN RemoveZOrderLink(st, v) ELSE st) EXCEPT !.on = @ \ {v}]

\* weston_view_update_transform.
UpdateTransform(st, v) ==
    IF v \notin st.dirty THEN st
    ELSE SetOutputMask([st EXCEPT !.dirty = @ \ {v}, !.box[v] = st.want[v]], v, st.want[v] # {})
-----------------------------------------------------------------------------
\* weston_view_set_position; the transform is computed when the view list is built.
PaintSetPosition(v, b) ==
    /\ Changed /\ v \in Range(order) /\ b # want[v]
    /\ PaintBecome([GeometryDirty([PaintNow EXCEPT !.want[v] = b], v) EXCEPT !.vrebuild = TRUE])
    /\ UNCHANGED fb

\* A commit with a new buffer; other content, whole damage.
CommitBuffer(v) ==
    /\ Changed /\ v \in Range(order)
    /\ PaintBecome([PaintNow EXCEPT !.ver[v] = 1 - @, !.sdmg = @ \cup {v}])
    /\ UNCHANGED fb

\* weston_view_set_alpha, or a commit that changes whether the surface is opaque.
SetOpaque(v) ==
    /\ Changed /\ v \in Range(order)
    /\ LET s == [PaintNow EXCEPT !.solid = IF v \in @ THEN @ \ {v} ELSE @ \cup {v}]
       IN  PaintBecome(UpdateTransform(GeometryDirty(s, v), v))
    /\ UNCHANGED fb

\* weston_view_move_to_layer, with a visible layer: a view is mapped, raised or
\* lowered to any place among the others.
PaintMoveToLayer(v, i, b) ==
    LET was == v \in Range(order)
        rest == SelectSeq(order, LAMBDA w : w # v)
        s1 == IF was THEN GeometryDirty(PaintNow, v) ELSE [PaintNow EXCEPT !.want[v] = b]
        s2 == [s1 EXCEPT !.order = InsertAt(rest, i, v), !.vrebuild = TRUE,
                         !.owed = IF was /\ i > Rank(order, v) THEN @ \cup want[v] \cup paint_box[v] ELSE @]
    IN  /\ Changed /\ i \in 1..Len(rest) + 1 /\ (was => b = want[v] /\ InsertAt(rest, i, v) # order)
        /\ PaintBecome(UpdateTransform(GeometryDirty(s2, v), v))
        /\ UNCHANGED fb

\* weston_view_unmap, from a layer that is not shown or with the surface; the
\* paint nodes go (weston_view_destroy_paint_nodes).
PaintUnmap(v) ==
    /\ Changed /\ v \in Range(order)
    /\ LET s == SetOutputMask([PaintNow EXCEPT !.order = SelectSeq(@, LAMBDA w : w # v)], v, FALSE)
       IN  PaintBecome([s EXCEPT !.node[v] = NoNode, !.vrebuild = TRUE, !.dirty = @ \cup {v},
                                 !.want[v] = {}, !.box[v] = {}, !.sdmg = @ \ {v}])
    /\ UNCHANGED fb

\* weston_plane_release: the overlay goes, its node leaves the list.
PlaneRelease ==
    /\ Changed
    /\ \E v \in Range(zl) : node[v].plane = "over"
       /\ PaintBecome([RemoveZOrderLink(PaintNow, v) EXCEPT !.rebuild = TRUE])
    /\ UNCHANGED fb

\* weston_output_damage.
DamageOutput ==
    /\ ~full /\ full' = TRUE /\ Changed
    /\ UNCHANGED <<want, paint_box, paint_dirty, solid, ver, sdmg, order, paint_on, zl, node, vrebuild, paint_rebuild,
                   fb, owed>>
-----------------------------------------------------------------------------
Updated(st) ==
    LET u[i \in 0..Len(st.order)] == IF i = 0 THEN st ELSE UpdateTransform(u[i - 1], st.order[i])
    IN  u[Len(st.order)]

\* weston_compositor_build_view_list, as far as transforms and rebuild flags go.
PaintBuildViewList(st) ==
    IF ~st.vrebuild THEN st
    ELSE [Updated(st) EXCEPT !.vrebuild = FALSE, !.rebuild = TRUE]

\* weston_output_build_z_order_list.  A node that was taken off the list is used
\* again, with no plane.
BuildZOrderList(st) ==
    IF ~st.rebuild THEN st
    ELSE LET l == SelectSeq(Append(st.order, Back), LAMBDA v : v \in st.on)
             back == {v \in Range(l) : st.node[v].has /\ st.node[v].plane = "none"}
         IN  [st EXCEPT !.zl = l, !.rebuild = FALSE,
                        !.node = [v \in PaintedViews |-> IF v \in Range(l) /\ ~st.node[v].has
                                                         THEN NewNode(st.box[v]) ELSE st.node[v]],
                        !.owed = @ \cup UNION {st.box[v] : v \in back}]

\* paint_node_update_early, for every node of the list.
UpdateEarly(st) ==
    [st EXCEPT !.node = [v \in PaintedViews |->
        IF v \in Range(st.zl)
        THEN [st.node[v] EXCEPT !.opaque = IF "view" \in st.node[v].stat THEN v \in st.solid ELSE @,
                                !.stat = @ \ {"view"}]
        ELSE st.node[v]]]

Above(st, v) == {st.zl[i] : i \in 1..Rank(st.zl, v) - 1}

\* output_update_visibility and paint_node_update_visible.
UpdateVisibility(st) ==
    LET hidden(v) == UNION {st.box[w] : w \in {w \in Above(st, v) : st.node[w].opaque}}
    IN  [st EXCEPT !.node = [v \in PaintedViews |->
            IF v \in Range(st.zl)
            THEN [st.node[v] EXCEPT !.prev = st.node[v].vis, !.vis = st.box[v] \ hidden(v)]
            ELSE st.node[v]]]

\* What the backend may choose: the background is drawn; an overlay lies above all
\* that is drawn, an underlay is opaque and shows through a hole.
PlaneChoices(st) ==
    {p \in [PaintedViews -> {"primary", "over", "under"}] :
        /\ \A v \in PaintedViews : p[v] # "primary" => v \in Range(st.zl) /\ v # Back
        /\ \A v, w \in PaintedViews : p[v] = p[w] /\ v # w => p[v] = "primary"
        /\ \A v \in PaintedViews : p[v] = "over" =>
              \A w \in Above(st, v) : p[w] # "over" => st.box[w] \cap st.box[v] = {}
        /\ \A v \in PaintedViews : p[v] = "under" => st.node[v].opaque}

UpdateLate(st, p) ==
    LET redo(v) == /\ st.node[v].plane # "none"
                   /\ st.node[v].plane # p[v] \/ "vis" \in st.node[v].stat
        late(v) == [st.node[v] EXCEPT
                        !.plane = p[v], !.stat = {},
                        !.dmg = IF redo(v) THEN st.node[v].vis
                                ELSE @ \cup UNION {st.node[w].prev : w \in {w \in Above(st, v) : redo(w)}}]
    IN  [st EXCEPT !.node = [v \in PaintedViews |-> IF v \in Range(st.zl) THEN late(v) ELSE st.node[v]]]

\* output_accumulate_damage: paint_node_flush_surface_damage for every surface of
\* the list; a hole takes none.
AccumulateDamage(st) ==
    LET shown == st.sdmg \cap Range(st.zl)
    IN  [st EXCEPT !.sdmg = @ \ shown,
                   !.node = [v \in PaintedViews |->
                       IF v \in shown /\ st.node[v].plane # "under"
                       THEN [st.node[v] EXCEPT !.dmg = @ \cup st.box[v]] ELSE st.node[v]]]

Drawn(st) == SelectSeq(st.zl, LAMBDA v : st.node[v].plane \in {"primary", "under"})

\* What the renderer draws in a cell.
Picture(st, c) ==
    LET l == SelectSeq(Drawn(st), LAMBDA v : c \in st.node[v].vis)
    IN  [i \in DOMAIN l |-> IF st.node[l[i]].plane = "under" THEN <<l[i], -1>>
                            ELSE <<l[i], st.ver[l[i]]>>]

\* weston_output_flush_damage_for_primary_plane.
PrimaryDamage(st) ==
    IF st.full THEN Cells
    ELSE UNION {st.node[v].dmg \cap st.node[v].vis : v \in Range(Drawn(st))}

\* weston_output_repaint: everything up to the backend's repaint, which draws the
\* damage, or fails before it has taken it.
RepaintOutput ==
    LET s1 == UpdateVisibility(UpdateEarly(BuildZOrderList(PaintBuildViewList(PaintNow))))
    IN  \E p \in PlaneChoices(s1) :
            LET s2 == AccumulateDamage(UpdateLate(s1, p))
                d == PrimaryDamage(s2)
            IN  \/ /\ Changed /\ PaintBecome(s2) /\ UNCHANGED fb
                \/ /\ PaintBecome([s2 EXCEPT !.full = FALSE, !.owed = @ \ d,
                                             !.node = [v \in PaintedViews |-> IF v \in Range(Drawn(s2))
                                                          THEN [s2.node[v] EXCEPT !.dmg = {}]
                                                          ELSE s2.node[v]]])
                   /\ fb' = [c \in Cells |-> IF c \in d THEN Picture(s2, c) ELSE fb[c]]
                   /\ fresh' = TRUE /\ UNCHANGED changes

PaintNext ==
    \/ \E v \in Windows, b \in Boxes : PaintSetPosition(v, b)
    \/ \E v \in Windows : CommitBuffer(v) \/ SetOpaque(v) \/ PaintUnmap(v)
    \/ \E v \in Windows, i \in 1..Cardinality(Windows), b \in Boxes : PaintMoveToLayer(v, i, b)
    \/ PlaneRelease \/ DamageOutput \/ RepaintOutput

PaintSpec == PaintInit /\ [][PaintNext]_paintVars
-----------------------------------------------------------------------------
\* Only damage is drawn again, yet once a repaint has succeeded every cell of the
\* frame shows what drawing the whole scene would show.  Excepted are the cells of
\* views that were lowered, or that came back to the output, and were not drawn
\* since.  A cell that nothing is drawn in lies behind an opaque overlay.
DamageSuffices ==
    fresh => \A c \in Cells \ owed : Picture(PaintNow, c) \in {<<>>, fb[c]}
=============================================================================
