--------------------------- MODULE SurfaceContent ----------------------------
(***************************************************************************)
(* The content of a surface, from the client's commit to the renderer: the *)
(* state a commit applies or caches, the buffers it holds, and the images  *)
(* the pixman renderer keeps of them. Three parts that share no state      *)
(* here.                                                                   *)
(***************************************************************************)
EXTENDS Naturals, Sequences, SequencesExt, FiniteSets, Integers

-----------------------------------------------------------------------------
(* What becomes of a wl_surface.commit: pending state, the cache of a         *)
(* synchronized sub-surface, the queue of content updates that wait for a     *)
(* FIFO barrier or a target time, and what is applied at last.  Content is a  *)
(* version number per surface; one output shows them all.                     *)

CONSTANTS
    CommitSurfaces,
    Timed,        \* surfaces whose client uses FIFO barriers and target times
    MaxCommits,   \* bound on the commits of a surface
    NONE

VARIABLES
    commit_alive,  \* surfaces that exist
    made,      \* commits made on a surface
    pend,      \* surface->pending
    cache,     \* sub->cached
    queue,     \* the surface's transaction queue
    shown,     \* the version applied
    barrier,   \* surface->fifo_barrier
    role,      \* surfaces that ever were given the sub-surface role
    sub,       \* surfaces with a wl_subsurface
    parent,    \* sub->parent
    sync,      \* sub->synchronized
    esync,     \* sub->effectively_synchronized
    late       \* the target time of timed updates has come

commitVars == <<commit_alive, made, pend, cache, queue, shown, barrier, role, sub, parent, sync, esync, late>>
tree == <<role, sub, parent, sync, esync>>

Update == [v : 0..MaxCommits, wait : BOOLEAN, bar : BOOLEAN, timed : BOOLEAN]
Clean == [v |-> 0, wait |-> FALSE, bar |-> FALSE, timed |-> FALSE]

CommitTypeOK ==
    /\ commit_alive \subseteq CommitSurfaces /\ role \subseteq CommitSurfaces /\ sub \subseteq commit_alive \cap role
    /\ made \in [CommitSurfaces -> 0..MaxCommits] /\ shown \in [CommitSurfaces -> 0..MaxCommits]
    /\ pend \in [CommitSurfaces -> Update] /\ cache \in [CommitSurfaces -> Update]
    /\ \A s \in CommitSurfaces : \A i \in DOMAIN queue[s] : queue[s][i] \in Update
    /\ barrier \subseteq CommitSurfaces /\ sync \subseteq CommitSurfaces /\ esync \subseteq CommitSurfaces
    /\ parent \in [CommitSurfaces -> CommitSurfaces \cup {NONE}]
    /\ late \in BOOLEAN

CommitInit ==
    /\ commit_alive = CommitSurfaces /\ role = {} /\ sub = {} /\ sync = {} /\ esync = {} /\ barrier = {} /\ late = FALSE
    /\ made = [s \in CommitSurfaces |-> 0] /\ shown = [s \in CommitSurfaces |-> 0]
    /\ pend = [s \in CommitSurfaces |-> Clean] /\ cache = [s \in CommitSurfaces |-> Clean]
    /\ queue = [s \in CommitSurfaces |-> <<>>] /\ parent = [s \in CommitSurfaces |-> NONE]
-----------------------------------------------------------------------------
\* The content of all surfaces, as the sub-handlers hand it on.
Content == [pend |-> pend, cache |-> cache, queue |-> queue, shown |-> shown, barrier |-> barrier]

Becomes(st) ==
    /\ pend' = st.pend /\ cache' = st.cache /\ queue' = st.queue
    /\ shown' = st.shown /\ barrier' = st.barrier

\* weston_surface_state_merge_from; the source is left clean.
MergeFrom(dst, src) == IF src.v = 0 THEN [src EXCEPT !.v = dst.v] ELSE src

\* What a state is left as by weston_surface_apply_state: fifo_wait stays.
Applied(u) == [Clean EXCEPT !.wait = u.wait]

\* weston_fifo_surface_set_barrier
SetBarrier(st, s, u) == [st EXCEPT !.barrier = IF u.bar THEN @ \cup {s} ELSE @]

\* weston_surface_apply_state of a surface
ApplyState(st, s, u) ==
    SetBarrier([st EXCEPT !.shown[s] = IF u.v = 0 THEN @ ELSE u.v], s, u)

\* The synchronized sub-surfaces of S.
Kids(S) == {c \in sub \cap esync : parent[c] \in S}

\* weston_subsurface_parent_apply down the tree, at most two levels deep.
ApplyKids(st, S) ==
    [st EXCEPT !.shown = [s \in CommitSurfaces |-> IF s \in S /\ st.cache[s].v # 0 THEN st.cache[s].v ELSE @[s]],
               !.barrier = @ \cup {s \in S : st.cache[s].bar},
               !.cache = [s \in CommitSurfaces |-> IF s \in S THEN Applied(@[s]) ELSE @[s]]]

\* weston_surface_apply
Apply(st, s, u) == ApplyKids(ApplyKids(ApplyState(st, s, u), Kids({s})), Kids(Kids({s})))

\* weston_fifo_surface_state_ready, weston_commit_timing_surface_state_ready
FifoReady(st, s, u) == ~u.wait \/ s \notin st.barrier \/ s \in sub \cap esync
Ready(st, s, u) == FifoReady(st, s, u) /\ (~u.timed \/ late)

\* weston_surface_create_transaction, for the stream of that surface
Enqueue(st, s, u) == [st EXCEPT !.queue[s] = Append(@, u)]

\* The pending state at a commit: one more version of buffer, damage, regions and
\* callbacks, and what the client asked of fifo and commit timing.
Requested(s, wait, bar, timed) ==
    [v |-> made[s] + 1, wait |-> wait \/ pend[s].wait, bar |-> bar, timed |-> timed]

\* weston_surface_commit, with what the client set before it: a FIFO barrier,
\* waiting for one, a target time.
ClientCommit(s, wait, bar, timed) ==
    LET u == Requested(s, wait, bar, timed)
        c == MergeFrom(cache[s], u)
        inSub == [Content EXCEPT !.pend[s] = Clean, !.cache[s] = c]
    IN  /\ s \in commit_alive /\ made[s] < MaxCommits
        /\ made' = [made EXCEPT ![s] = @ + 1]
        /\ Becomes(IF s \in sub THEN IF s \in esync THEN inSub
                                      ELSE IF queue[s] # <<>> \/ ~Ready(Content, s, c)
                                      THEN Enqueue([inSub EXCEPT !.cache[s] = Clean], s, c)
                                      ELSE Apply([inSub EXCEPT !.cache[s] = Applied(c)], s, c)
                   ELSE IF queue[s] # <<>> \/ ~Ready(Content, s, u)
                   THEN Enqueue([Content EXCEPT !.pend[s] = Clean], s, u)
                   ELSE Apply([Content EXCEPT !.pend[s] = Applied(u)], s, u))
        /\ UNCHANGED <<commit_alive, tree, late>>
-----------------------------------------------------------------------------
\* weston_compositor_apply_transactions: of each queue, as long as its head is ready.
Drain(st, s) ==
    LET Step[k \in 0..MaxCommits] ==
            IF k = 0 THEN st
            ELSE LET p == Step[k - 1]
                 IN  IF p.queue[s] = <<>> \/ ~Ready(p, s, Head(p.queue[s])) THEN p
                     ELSE Apply([p EXCEPT !.queue[s] = Tail(@)], s, Head(p.queue[s]))
    IN  Step[MaxCommits]

ApplyTransactions(st) == FoldLeft(Drain, st, SetToSeq(commit_alive))

\* The repaint timer applies what became ready; weston_output_latch does so
\* again and then lets go of the output's barriers (Latch).
RepaintTimer == Becomes(ApplyTransactions(Content)) /\ UNCHANGED <<commit_alive, made, tree, late>>
Latch ==
    /\ Becomes([ApplyTransactions(Content) EXCEPT !.barrier = {}])
    /\ UNCHANGED <<commit_alive, made, tree, late>>

TimeComes == ~late /\ late' = TRUE /\ UNCHANGED <<commit_alive, made, pend, cache, queue, shown, barrier, tree>>
-----------------------------------------------------------------------------
RECURSIVE Main(_)
\* weston_surface_get_main_surface
Main(s) == IF s \in sub /\ parent[s] # NONE THEN Main(parent[s]) ELSE s

\* subcompositor_get_subsurface
GetSubsurface(s, p) ==
    /\ {s, p} \subseteq commit_alive /\ s # p /\ s \notin sub /\ Main(p) # s
    /\ role' = role \cup {s} /\ sub' = sub \cup {s} /\ parent' = [parent EXCEPT ![s] = p]
    /\ sync' = sync \cup {s} /\ esync' = esync \cup {s}
    /\ UNCHANGED <<commit_alive, made, pend, cache, queue, shown, barrier, late>>

\* weston_subsurface_update_effectively_synchronized from s down.
Effective(sy, s) ==
    LET own == s \in sy \/ (parent[s] # NONE /\ parent[s] \in sub \cap esync)
        e1 == IF own THEN esync \cup {s} ELSE esync \ {s}
        kids == {c \in sub : parent[c] = s}
        e2 == (e1 \ kids) \cup {c \in kids : c \in sy \/ s \in e1}
        grand == {c \in sub : parent[c] \in kids}
    IN  (e2 \ grand) \cup {c \in grand : c \in sy \/ parent[c] \in e2}

\* weston_subsurface_set_synchronized: one that became free is flushed.
SetSynchronized(s, on) ==
    /\ s \in sub /\ on # (s \in sync)
    /\ sync' = (IF on THEN sync \cup {s} ELSE sync \ {s})
    /\ esync' = Effective(sync', s)
    /\ IF s \in esync /\ s \notin esync'
       THEN LET kids == {c \in sub \cap esync' : parent[c] = s}
                grand == {c \in sub \cap esync' : parent[c] \in kids}
                own == ApplyState([Content EXCEPT !.cache[s] = Applied(@)], s, cache[s])
            IN  Becomes(ApplyKids(ApplyKids(own, kids), grand))
       ELSE Becomes(Content)
    /\ UNCHANGED <<commit_alive, made, role, sub, parent, late>>

\* weston_subsurface_destroy: the cached state goes with it.
SubsurfaceDestroyed(s) ==
    /\ s \in sub
    /\ sub' = sub \ {s} /\ parent' = [parent EXCEPT ![s] = NONE]
    /\ sync' = sync \ {s} /\ esync' = esync \ {s}
    /\ cache' = [cache EXCEPT ![s] = Clean]
    /\ UNCHANGED <<commit_alive, made, pend, queue, shown, barrier, role, late>>

\* weston_surface_unref of the last reference: its sub-surface, its queued
\* updates (content_update_surface_destroy) and its hold on children end.
CommitSurfaceDestroyed(s) ==
    /\ s \in commit_alive /\ commit_alive' = commit_alive \ {s}
    /\ sub' = sub \ {s} /\ sync' = sync \ {s} /\ esync' = esync \ {s}
    /\ parent' = [c \in CommitSurfaces |-> IF c = s \/ parent[c] = s THEN NONE ELSE parent[c]]
    /\ Becomes([Content EXCEPT !.pend[s] = Clean, !.cache[s] = Clean, !.queue[s] = <<>>,
                               !.shown[s] = 0, !.barrier = @ \ {s}])
    /\ made' = [made EXCEPT ![s] = MaxCommits]
    /\ UNCHANGED <<role, late>>

CommitNext ==
    \/ \E s \in CommitSurfaces : ClientCommit(s, FALSE, FALSE, FALSE)
    \/ \E s \in Timed, w, t \in BOOLEAN : ClientCommit(s, w, TRUE, t)
    \/ RepaintTimer \/ Latch \/ TimeComes
    \/ \E s, p \in CommitSurfaces : GetSubsurface(s, p)
    \/ \E s \in CommitSurfaces, on \in BOOLEAN : SetSynchronized(s, on)
    \/ \E s \in CommitSurfaces : SubsurfaceDestroyed(s) \/ CommitSurfaceDestroyed(s)

CommitSpec == CommitInit /\ [][CommitNext]_commitVars
-----------------------------------------------------------------------------
\* A surface that never was a sub-surface goes through its versions in order, and
\* its newest one is shown or still queued: a commit never overtakes an
\* earlier one that waits (weston_surface_commit joins the queue then).
StreamsInOrder ==
    \A s \in commit_alive \ role :
        LET q == queue[s]
        IN  /\ \A i \in DOMAIN q : q[i].v > shown[s] /\ (i > 1 => q[i].v > q[i - 1].v)
            /\ made[s] = IF q = <<>> THEN shown[s] ELSE Last(q).v

-----------------------------------------------------------------------------
(* Who uses a client's buffer: references that may access it or only keep it, *)
(* the wl_buffer.release that ends the use, the release objects of explicit   *)
(* synchronization, and clients that destroy a buffer in use.                 *)

CONSTANTS
    WlBuffers,
    Releases   \* zwp_linux_buffer_release objects

VARIABLES
    res,        \* buffers whose wl_buffer exists
    obj,        \* buffers whose weston_buffer exists
    busy,       \* buffer->busy_count
    passive,    \* buffer->passive_count
    ref,        \* the buffer references of a holder: buffer and type
    owed,       \* buffers the client committed and was not told to be free since
    rel,        \* the release object a holder refers to
    count,      \* its ref_count
    sent        \* release events sent for it

bufferVars == <<res, obj, busy, passive, ref, owed, rel, count, sent>>
bufs == <<res, obj, busy, passive, ref, owed>>
rels == <<rel, count, sent>>

\* The surface's pending and current state, the renderer's state of the surface,
\* and a framebuffer on a hardware plane.
Holder == {"pending", "current", "renderer", "plane"}
Nothing == [b |-> NONE, may |-> FALSE]

BufferTypeOK ==
    /\ res \subseteq obj /\ obj \subseteq WlBuffers /\ owed \subseteq WlBuffers
    /\ busy \in [WlBuffers -> 0..4] /\ passive \in [WlBuffers -> 0..4]
    /\ ref \in [Holder -> [b : WlBuffers \cup {NONE}, may : BOOLEAN]]
    /\ rel \in [Holder -> Releases \cup {NONE}]
    /\ count \in [Releases -> 0..4] /\ sent \in [Releases -> 0..2]

BufferInit ==
    /\ res = {} /\ obj = {} /\ owed = {}
    /\ busy = [b \in WlBuffers |-> 0] /\ passive = [b \in WlBuffers |-> 0]
    /\ ref = [h \in Holder |-> Nothing] /\ rel = [h \in Holder |-> NONE]
    /\ count = [r \in Releases |-> 0] /\ sent = [r \in Releases |-> 0]
-----------------------------------------------------------------------------
Use == [res |-> res, obj |-> obj, busy |-> busy, passive |-> passive, ref |-> ref, owed |-> owed]
Used(st) ==
    /\ res' = st.res /\ obj' = st.obj /\ busy' = st.busy
    /\ passive' = st.passive /\ ref' = st.ref /\ owed' = st.owed

\* weston_buffer_destroy, once nothing refers to the buffer any more.
Gone(st, b) ==
    [st EXCEPT !.obj = IF st.busy[b] + st.passive[b] = 0 /\ b \notin st.res THEN @ \ {b} ELSE @]

Reference_new_last(st, h, b, may) ==
    LET old == st.ref[h]
        taken == IF b = NONE THEN st
                 ELSE IF may THEN [st EXCEPT !.busy[b] = @ + 1]
                 ELSE [st EXCEPT !.passive[b] = @ + 1]
        set == [taken EXCEPT !.ref[h] = [b |-> b, may |-> may]]
        left == IF old.b = NONE THEN set
                ELSE IF old.may THEN [set EXCEPT !.busy[old.b] = @ - 1,
                                                 !.owed = IF old.b \in st.res THEN @ \ {old.b} ELSE @]
                ELSE [set EXCEPT !.passive[old.b] = @ - 1]
    IN  IF [b |-> b, may |-> may] = old THEN st
        ELSE IF old.b = NONE THEN left ELSE Gone(left, old.b)

\* weston_buffer_reference: the new reference is taken before the old is dropped;
\* the last one that may access the buffer sends wl_buffer.release.
Reference(st, h, b, may) ==
    LET old == st.ref[h]
        taken == IF b = NONE THEN st
                 ELSE IF may THEN [st EXCEPT !.busy[b] = @ + 1]
                 ELSE [st EXCEPT !.passive[b] = @ + 1]
        set == [taken EXCEPT !.ref[h] = [b |-> b, may |-> may]]
        free == old.may /\ set.busy[old.b] = 1 /\ old.b \in st.res
        left == IF old.b = NONE THEN set
                ELSE IF old.may THEN [set EXCEPT !.busy[old.b] = @ - 1,
                                                 !.owed = IF free THEN @ \ {old.b} ELSE @]
                ELSE [set EXCEPT !.passive[old.b] = @ - 1]
    IN  IF [b |-> b, may |-> may] = old THEN st
        ELSE IF old.b = NONE THEN left ELSE Gone(left, old.b)

\* weston_buffer_release_reference
RelReference(st, h, r) ==
    LET old == st.rel[h]
        left == IF old = NONE THEN st
                ELSE [st EXCEPT !.count[old] = @ - 1,
                                !.sent[old] = IF st.count[old] = 1 THEN @ + 1 ELSE @]
        held == IF r = NONE THEN left ELSE [left EXCEPT !.count[r] = @ + 1]
    IN  IF r = old THEN st ELSE [held EXCEPT !.rel[h] = r]

\* weston_buffer_release_move
RelMove(st, to, from) == RelReference(RelReference(st, to, st.rel[from]), from, NONE)

Rels == [rel |-> rel, count |-> count, sent |-> sent]
RelsAre(st) == rel' = st.rel /\ count' = st.count /\ sent' = st.sent
-----------------------------------------------------------------------------
\* A wl_buffer is made.
CreateBuffer(b) ==
    /\ b \notin obj
    /\ res' = res \cup {b} /\ obj' = obj \cup {b} /\ owed' = owed \ {b}
    /\ UNCHANGED <<busy, passive, ref, rels>>

\* surface_attach, of a buffer that may still be in use.
BufferAttach(b) ==
    /\ b \in res \cup {NONE}
    /\ Used(Reference(Use, "pending", b, FALSE)) /\ UNCHANGED rels

\* linux_surface_synchronization_get_release: one per commit.
GetRelease(r) ==
    /\ rel["pending"] = NONE /\ count[r] = 0 /\ sent[r] = 0
    /\ RelsAre(RelReference(Rels, "pending", r)) /\ UNCHANGED bufs

\* surface_commit: a release object without a buffer is a protocol error.
BufferCommit ==
    LET b == ref["pending"].b
        cur == Reference(Use, "current", b, b # NONE)
        told == IF b = NONE THEN cur ELSE [cur EXCEPT !.owed = @ \cup ({b} \cap res)]
    IN  /\ rel["pending"] # NONE => b # NONE
        /\ Used(Reference(told, "pending", NONE, FALSE))
        /\ RelsAre(RelMove(Rels, "current", "pending"))

\* gl_renderer_attach: nothing to do for the buffer it already has.
RendererAttach ==
    LET b == ref["current"].b
    IN  /\ b # ref["renderer"].b
        /\ Used(Reference(Use, "renderer", b, b # NONE))
        /\ RelsAre(RelReference(Rels, "renderer", IF b = NONE THEN NONE ELSE rel["current"]))

\* gl_renderer_flush_damage has copied a shared-memory buffer.
RendererCopied ==
    /\ ref["renderer"].may
    /\ Used(Reference(Use, "renderer", ref["renderer"].b, FALSE))
    /\ RelsAre(RelReference(Rels, "renderer", NONE))

\* output_accumulate_damage: renderer and backend have seen the buffer, so the
\* core lets go of it early unless a backend wants it for a plane.
EarlyRelease ==
    /\ ref["current"].b = ref["renderer"].b /\ ref["current"].may
    /\ Used(Reference(Use, "current", ref["current"].b, FALSE))
    /\ RelsAre(RelReference(Rels, "current", NONE))

\* drm_output_try_paint_node_on_plane puts the buffer itself on a plane;
\* drm_plane_state_free takes it off again.
OnPlane ==
    /\ ref["current"].may /\ ref["plane"].b = NONE
    /\ Used(Reference(Use, "plane", ref["current"].b, TRUE))
    /\ RelsAre(RelReference(Rels, "plane", rel["current"]))
OffPlane ==
    /\ ref["plane"].b # NONE
    /\ Used(Reference(Use, "plane", NONE, FALSE))
    /\ RelsAre(RelReference(Rels, "plane", NONE))

\* weston_buffer_destroy_handler: the client destroys the wl_buffer.
BufferDestroy(b) ==
    /\ b \in res
    /\ Used(Gone([Use EXCEPT !.res = @ \ {b}, !.owed = @ \ {b}], b)) /\ UNCHANGED rels

\* weston_surface_unref; the renderer's state goes with the surface.
BufferSurfaceDestroyed ==
    LET drop(st, h) == Reference(st, h, NONE, FALSE)
        relDrop(st, h) == RelReference(st, h, NONE)
    IN  /\ \E h \in Holder \ {"plane"} : ref[h].b # NONE
        /\ Used(drop(drop(drop(Use, "renderer"), "pending"), "current"))
        /\ RelsAre(relDrop(relDrop(relDrop(Rels, "renderer"), "pending"), "current"))

BufferNext ==
    \/ \E b \in WlBuffers : CreateBuffer(b) \/ BufferDestroy(b)
    \/ \E b \in WlBuffers \cup {NONE} : BufferAttach(b)
    \/ \E r \in Releases : GetRelease(r)
    \/ BufferCommit
    \/ RendererAttach
    \/ RendererCopied
    \/ EarlyRelease
    \/ OnPlane
    \/ OffPlane
    \/ BufferSurfaceDestroyed

BufferSpec == BufferInit /\ [][BufferNext]_bufferVars
-----------------------------------------------------------------------------
Refs(b, may) == {h \in Holder : ref[h].b = b /\ ref[h].may = may}

\* A client is told a buffer is free exactly when the last user that may access
\* it is done: while one is left it is still owed the release, and without one it
\* has been sent.  No reference outlives the buffer object, and a release object
\* is answered once, when its last holder lets go.
ReleasedWhenUnused ==
    /\ \A b \in WlBuffers :
          /\ busy[b] = Cardinality(Refs(b, TRUE)) /\ passive[b] = Cardinality(Refs(b, FALSE))
          /\ busy[b] + passive[b] > 0 => b \in obj
          /\ b \in res => (b \in owed <=> busy[b] > 0)
          /\ b \in obj \ res => busy[b] + passive[b] > 0
    /\ \A r \in Releases :
          /\ count[r] = Cardinality({h \in Holder : rel[h] = r})
          /\ sent[r] <= 1 /\ (sent[r] = 1 => count[r] = 0)

-----------------------------------------------------------------------------
(* pixman-renderer.c: the software renderer of the headless, VNC, RDP and      *)
(* PipeWire outputs.  A surface's image refers to the client's shared memory   *)
(* and lives as long as that; an output paints its damage into a shadow image  *)
(* (or straight into the target) and brings the render buffer it is given up   *)
(* to date with the damage that buffer has missed.                             *)
(*                                                                             *)
(* A picture is the set of its cells that do not show what the scene has there.*)
(* Surfaces are opaque; filters, alpha, and the source clip of a scaled view   *)
(* change the pixels of a cell and not which cells are painted.                *)

CONSTANTS Stack,       \* the surfaces, topmost first
          Cells,       \* parts of the output
          Covers,      \* Covers[s]: the cells of a surface
          Uses,        \* Uses[s]: the buffers its client attaches
          ShmBuffers,  \* wl_shm buffers of clients
          Solids,      \* single-pixel buffers
          Others,      \* buffers of a kind this renderer cannot paint
          Targets,     \* render buffers of the output
          NoBuffer

VARIABLES pixman_alive,  \* alive[b]: the wl_buffer, and with it the shared memory, exists
          committed, \* committed[s]: surface->buffer_ref
          dirty,     \* surfaces committed since the last attach
          ps,        \* ps[s]: struct pixman_surface_state
          damage,    \* damage of the primary plane
          shadow,    \* po->shadow_image: its wrong cells
          useShadow,
          target,    \* target[t]: struct pixman_renderbuffer
          unsafe     \* memory of a destroyed buffer was painted from

pixmanVars == <<pixman_alive, committed, dirty, ps, damage, shadow, useShadow, target, unsafe>>

PixmanSurfaces == {Stack[i] : i \in DOMAIN Stack}
PixmanBuffers == ShmBuffers \cup Solids \cup Others

NoState == [image |-> NoBuffer, buffer |-> NoBuffer, listens |-> FALSE]
NoTarget == [live |-> FALSE, damage |-> {}, wrong |-> {}]

\* The surface seen at cell c: the topmost that covers it and has content.
At(c) == {i \in DOMAIN Stack : c \in Covers[Stack[i]] /\ committed[Stack[i]] # NoBuffer}
Top(c) == Stack[CHOOSE i \in At(c) : \A j \in At(c) : i <= j]
Lost(s) == committed[s] \in Others \/ (committed[s] \in ShmBuffers /\ ~pixman_alive[committed[s]])
\* A cell whose surface cannot be painted keeps what was there.
Defined(c) == At(c) # {} /\ ~Lost(Top(c))

-----------------------------------------------------------------------------
(* Surfaces and their images.                                                *)

\* weston_buffer_reference: a buffer nobody refers to any more is freed, and
\* its destroy signal drops the images of those who listen.
Referred(b, state) == \E s \in PixmanSurfaces : state[s].buffer = b \/ committed[s] = b
DropFreed(state) ==
  [s \in PixmanSurfaces |->
     IF /\ state[s].listens
        /\ state[s].image \in ShmBuffers
        /\ ~pixman_alive[state[s].image]
        /\ ~Referred(state[s].image, state)
       THEN [state[s] EXCEPT !.image = NoBuffer, !.listens = FALSE]
       ELSE state[s]]

\* pixman_renderer_attach: a solid buffer needs no reference, an unsupported
\* one gets none, and one whose memory is gone is held without an image.
PixmanAttach(state, s) ==
  LET b == committed[s]
      new == CASE b \in Solids -> [NoState EXCEPT !.image = b]
               [] b \in ShmBuffers /\ pixman_alive[b] -> [image |-> b, buffer |-> b, listens |-> TRUE]
               [] b \in ShmBuffers /\ ~pixman_alive[b] -> [NoState EXCEPT !.buffer = b]
               [] OTHER -> NoState
  IN [state EXCEPT ![s] = new]

Checked(state, s) ==
  IF state[s].buffer \in ShmBuffers /\ ~pixman_alive[state[s].buffer]
    THEN [state[s] EXCEPT !.image = NoBuffer]
    ELSE state[s]

-----------------------------------------------------------------------------
(* Painting.                                                                 *)

\* repaint_surfaces: the cells of region, each by its topmost surface if that
\* has an image.
Painted(wrong, region, state) ==
  LET done == {c \in region : At(c) # {} /\ state[Top(c)].image # NoBuffer}
  IN (wrong \ done) \cup {c \in done : state[Top(c)].image # committed[Top(c)]}

Copied(wrong, from, region) == (wrong \ region) \cup (from \cap region)

Missed(region, t) ==
  [u \in Targets |-> IF target[u].live THEN [target[u] EXCEPT !.damage = @ \cup region] ELSE target[u]]

Repaint(t) ==
  /\ target[t].live
  /\ LET attached == [s \in PixmanSurfaces |-> IF s \in dirty THEN PixmanAttach(ps, s)[s] ELSE ps[s]]
         state == [s \in PixmanSurfaces |-> Checked(DropFreed(attached), s)]
         seen == {Top(c) : c \in {x \in Cells : At(x) # {}}}
         missed == Missed(damage, t)
         new == IF useShadow THEN Painted(shadow, damage, state) ELSE shadow
     IN /\ ps' = state
        /\ unsafe' = (unsafe \/ \E s \in seen : state[s].image \in ShmBuffers /\ ~pixman_alive[state[s].image])
        /\ shadow' = new
        /\ target' = [missed EXCEPT ![t].damage = {},
                        ![t].wrong = IF useShadow THEN Copied(@, new, missed[t].damage)
                                     ELSE Painted(@, missed[t].damage, state)]
  /\ dirty' = {}
  /\ damage' = {}
  /\ UNCHANGED <<pixman_alive, committed, useShadow>>

-----------------------------------------------------------------------------
(* What happens between two repaints.                                        *)

\* The scene changes in these cells: every picture of them is wrong.
SceneChanges(cells) ==
  /\ damage' = damage \cup cells
  /\ shadow' = IF useShadow THEN shadow \cup cells ELSE {}
  /\ target' = [t \in Targets |-> IF target[t].live THEN [target[t] EXCEPT !.wrong = @ \cup cells] ELSE NoTarget]

PixmanCommit(s, b) ==
  /\ b # NoBuffer => pixman_alive[b]
  /\ b # committed[s]
  /\ committed' = [committed EXCEPT ![s] = b]
  /\ dirty' = dirty \cup {s}
  /\ SceneChanges(Covers[s])
  /\ UNCHANGED <<pixman_alive, ps, useShadow, unsafe>>

\* The client destroys its wl_buffer.
PixmanDestroyBuffer(b) ==
  /\ pixman_alive[b]
  /\ pixman_alive' = [pixman_alive EXCEPT ![b] = FALSE]
  /\ ps' = [s \in PixmanSurfaces |->
       IF ps[s].listens /\ ps[s].image = b /\ ~Referred(b, ps)
         THEN [ps[s] EXCEPT !.image = NoBuffer, !.listens = FALSE] ELSE ps[s]]
  /\ UNCHANGED <<committed, dirty, damage, shadow, useShadow, target, unsafe>>

\* A new buffer in the place of one that nobody knows any more
NewBuffer(b) ==
  /\ ~pixman_alive[b]
  /\ ~Referred(b, ps)
  /\ \A s \in PixmanSurfaces : ps[s].image # b
  /\ pixman_alive' = [pixman_alive EXCEPT ![b] = TRUE]
  /\ UNCHANGED <<committed, dirty, ps, damage, shadow, useShadow, target, unsafe>>

\* surface_state_handle_surface_destroy, and a new surface in its place
PixmanSurfaceDestroyed(s) ==
  /\ committed[s] # NoBuffer
  /\ committed' = [committed EXCEPT ![s] = NoBuffer]
  /\ ps' = [ps EXCEPT ![s] = NoState]
  /\ dirty' = dirty \ {s}
  /\ SceneChanges(Covers[s])
  /\ UNCHANGED <<pixman_alive, useShadow, unsafe>>

CreateTarget(t) ==
  /\ ~target[t].live
  /\ target' = [target EXCEPT ![t] = [live |-> TRUE, damage |-> Cells, wrong |-> Cells]]
  /\ UNCHANGED <<pixman_alive, committed, dirty, ps, damage, shadow, useShadow, unsafe>>

\* The output keeps a reference to the image it painted last.
DestroyTarget(t) ==
  /\ target[t].live
  /\ target' = [target EXCEPT ![t] = NoTarget]
  /\ UNCHANGED <<pixman_alive, committed, dirty, ps, damage, shadow, useShadow, unsafe>>

\* A mode switch: the render buffers are discarded, and the backend's callback
\* destroys them; the new shadow image is not cleared, the output is damaged.
ResizeOutput ==
  /\ target' = [t \in Targets |-> NoTarget]
  /\ shadow' = IF useShadow THEN Cells ELSE {}
  /\ damage' = Cells
  /\ UNCHANGED <<pixman_alive, committed, dirty, ps, useShadow, unsafe>>

PixmanInit ==
  /\ pixman_alive = [b \in PixmanBuffers |-> TRUE]
  /\ committed = [s \in PixmanSurfaces |-> NoBuffer]
  /\ dirty = {}
  /\ ps = [s \in PixmanSurfaces |-> NoState]
  /\ damage = Cells
  /\ useShadow \in BOOLEAN
  /\ shadow = IF useShadow THEN Cells ELSE {}
  /\ target = [t \in Targets |-> NoTarget]
  /\ unsafe = FALSE

PixmanNext ==
  \/ \E s \in PixmanSurfaces : \E b \in Uses[s] \cup {NoBuffer} : PixmanCommit(s, b)
  \/ \E s \in PixmanSurfaces : PixmanSurfaceDestroyed(s)
  \/ \E b \in ShmBuffers : PixmanDestroyBuffer(b) \/ NewBuffer(b)
  \/ \E t \in Targets : Repaint(t) \/ CreateTarget(t) \/ DestroyTarget(t)
  \/ ResizeOutput

PixmanSpec == PixmanInit /\ [][PixmanNext]_pixmanVars

-----------------------------------------------------------------------------

PixmanTypeOK ==
  /\ pixman_alive \in [PixmanBuffers -> BOOLEAN]
  /\ committed \in [PixmanSurfaces -> PixmanBuffers \cup {NoBuffer}]
  /\ damage \subseteq Cells
  /\ \A t \in Targets : target[t].damage \subseteq Cells /\ target[t].wrong \subseteq Cells

\* What a render buffer shows.  Where it differs from the scene, the cell is in
\* the damage it has missed or in the damage that the next repaint brings, so
\* that a repaint always leaves the buffer showing the scene, whichever buffer
\* the backend picks and however many frames it was away; the shadow image, if
\* used, differs only where damage is pending.  No pixel is ever taken from
\* memory of a buffer its client destroyed, and an image of shared memory is
\* held together with the buffer it belongs to (pixman-renderer.c:439-665,
\* 709-785, 978-1060).
PixelsTrue ==
  /\ \A t \in Targets : {c \in target[t].wrong : Defined(c)} \subseteq target[t].damage \cup damage
  /\ {c \in shadow : Defined(c)} \subseteq damage
  /\ ~unsafe
  /\ \A s \in PixmanSurfaces : ps[s].image \in ShmBuffers => (ps[s].buffer = ps[s].image /\ ps[s].listens)
=============================================================================
