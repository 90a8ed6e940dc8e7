----------------------------- MODULE ShellLayers -----------------------------
(***************************************************************************)
(* What is arranged around the windows: the surfaces the shell attaches,   *)
(* those of layer-shell clients, and the computations that place them.     *)
(* Three parts that share no state here.                                   *)
(***************************************************************************)
EXTENDS Integers, Sequences, SequencesExt

-----------------------------------------------------------------------------
(* The surfaces a shell attaches to the desktop: panels, notification         *)
(* bubbles, the launcher and the background, with the outputs they sit on and *)
(* the maximised windows that are laid out around the panels.                 *)
(*                                                                           *)
(* Each object keeps a plain pointer to an output.  Outputs come, change and  *)
(* go; the shell destroys a surface and the object in either order.           *)

CONSTANTS
    Outputs, Panels, Notifications, Launchers,
    NONE

VARIABLES
    shell_outs,  \* compositor->output_list
    geometry,   \* output -> its place and size, as one of two values
    panel,      \* NONE or [output, view, zone (it reserves space), told]
    note,       \* NONE or [output, view, at (the output it is shown on)]
    launcher,   \* NONE or [output, view, sized, at]
    background, \* qdwin->shell_background: NONE or [view]
    curtain,    \* qdwin->background: "none", "shown" (in its layer), "hidden"
    window      \* where a maximised window was last laid out, or NONE

shellVars == <<shell_outs, geometry, panel, note, launcher, background, curtain, window>>

Place == Outputs \X (1 .. 2)
MaybePlace == Place \cup {NONE}

ShellTypeOK ==
    /\ shell_outs \in {s \in SeqOf(Outputs, 2) : IsInjective(s)}
    /\ geometry \in [Outputs -> 1 .. 2]
    /\ \A p \in Panels : panel[p] = NONE \/
          panel[p] \in [output : Outputs \cup {NONE}, view : BOOLEAN, zone : BOOLEAN, told : MaybePlace]
    /\ \A n \in Notifications : note[n] = NONE \/
          note[n] \in [output : Outputs \cup {NONE}, view : BOOLEAN, at : Outputs \cup {NONE}]
    /\ \A k \in Launchers : launcher[k] = NONE \/
          launcher[k] \in [output : Outputs \cup {NONE}, view : BOOLEAN, sized : BOOLEAN, at : Outputs \cup {NONE}]
    /\ background = NONE \/ background \in [view : BOOLEAN]
    /\ curtain \in {"none", "shown", "hidden"}
    /\ window = NONE \/ window \in Place \X SUBSET Panels

ShellInit ==
    /\ shell_outs = <<>>
    /\ geometry = [o \in Outputs |-> 1]
    /\ panel = [p \in Panels |-> NONE]
    /\ note = [n \in Notifications |-> NONE]
    /\ launcher = [k \in Launchers |-> NONE]
    /\ background = NONE
    /\ curtain = "none"
    /\ window = NONE
-----------------------------------------------------------------------------
(* qdwin_primary_output: the first of the list, never one being destroyed.    *)
ShellPrimary(os) == IF os = <<>> THEN NONE ELSE Head(os)

\* A panel with a view is put on its output and told where that is; one with a
\* dead surface or no output stays as it is.
PanelPlaced(p, g) ==
    IF p.view /\ p.output # NONE THEN [p EXCEPT !.told = <<p.output, g[p.output]>>] ELSE p

NotePlaced(n) == IF n.view /\ n.output # NONE THEN [n EXCEPT !.at = n.output] ELSE n

\* A launcher without content has no size to be centred by.
LauncherPlaced(k) ==
    IF k.view /\ k.output # NONE /\ k.sized THEN [k EXCEPT !.at = k.output] ELSE k

\* The work area of o: its rectangle without the zones of the panels on it.  A
\* panel counts until its object is destroyed, and one without an output counts
\* everywhere.
WorkArea(ps, g, o) ==
    << <<o, g[o]>>,
       {p \in Panels : ps[p] # NONE /\ ps[p].zone /\ ps[p].output \in {o, NONE}} >>

\* qdwin_panels_on_output_change: panels without an output get the primary one,
\* all are placed again, then maximised windows are laid out.
PanelsReplaced(ps, g, os) ==
    [p \in Panels |->
        IF ps[p] = NONE THEN NONE
        ELSE PanelPlaced([ps[p] EXCEPT !.output = IF @ = NONE THEN ShellPrimary(os) ELSE @], g)]
OnOutputChange(ps, g, os) ==
    /\ panel' = PanelsReplaced(ps, g, os)
    /\ window' = IF window = NONE \/ os = <<>> THEN window
                 ELSE WorkArea(PanelsReplaced(ps, g, os), g, ShellPrimary(os))
-----------------------------------------------------------------------------
(* Panels.                                                                    *)

AttachPanel(p, zone) ==
    /\ panel[p] = NONE
    /\ LET new == PanelPlaced([output |-> ShellPrimary(shell_outs), view |-> TRUE, zone |-> zone, told |-> NONE], geometry)
       IN  OnOutputChange([panel EXCEPT ![p] = new], geometry, shell_outs)
    /\ UNCHANGED <<shell_outs, geometry, note, launcher, background, curtain>>

PanelCommit(p) ==
    /\ panel[p] # NONE /\ panel[p].view
    /\ panel' = [panel EXCEPT ![p] = PanelPlaced(@, geometry)]
    /\ UNCHANGED <<shell_outs, geometry, note, launcher, background, curtain, window>>

\* The object, and the space it reserves, stay until the shell destroys it.
PanelSurfaceDestroyed(p) ==
    /\ panel[p] # NONE /\ panel[p].view
    /\ OnOutputChange([panel EXCEPT ![p].view = FALSE], geometry, shell_outs)
    /\ UNCHANGED <<shell_outs, geometry, note, launcher, background, curtain>>

PanelResourceDestroyed(p) ==
    /\ panel[p] # NONE
    /\ OnOutputChange([panel EXCEPT ![p] = NONE], geometry, shell_outs)
    /\ UNCHANGED <<shell_outs, geometry, note, launcher, background, curtain>>
-----------------------------------------------------------------------------
(* Notifications and the launcher: the output of the moment they are attached *)
(* is theirs until a boundary moves them.                                     *)

AttachNotification(n) ==
    /\ note[n] = NONE
    /\ note' = [note EXCEPT ![n] = NotePlaced([output |-> ShellPrimary(shell_outs), view |-> TRUE, at |-> NONE])]
    /\ UNCHANGED <<shell_outs, geometry, panel, launcher, background, curtain, window>>

NotificationCommit(n) ==
    /\ note[n] # NONE /\ note[n].view
    /\ note' = [note EXCEPT ![n] = NotePlaced(@)]
    /\ UNCHANGED <<shell_outs, geometry, panel, launcher, background, curtain, window>>

NotificationSurfaceDestroyed(n) ==
    /\ note[n] # NONE /\ note[n].view
    /\ note' = [note EXCEPT ![n].view = FALSE]
    /\ UNCHANGED <<shell_outs, geometry, panel, launcher, background, curtain, window>>

NotificationResourceDestroyed(n) ==
    /\ note[n] # NONE
    /\ note' = [note EXCEPT ![n] = NONE]
    /\ UNCHANGED <<shell_outs, geometry, panel, launcher, background, curtain, window>>

AttachLauncher(k) ==
    /\ launcher[k] = NONE
    /\ \E sized \in BOOLEAN :
          launcher' = [launcher EXCEPT ![k] =
              LauncherPlaced([output |-> ShellPrimary(shell_outs), view |-> TRUE, sized |-> sized, at |-> NONE])]
    /\ UNCHANGED <<shell_outs, geometry, panel, note, background, curtain, window>>

LauncherCommit(k) ==
    /\ launcher[k] # NONE /\ launcher[k].view
    /\ launcher' = [launcher EXCEPT ![k] = LauncherPlaced([@ EXCEPT !.sized = TRUE])]
    /\ UNCHANGED <<shell_outs, geometry, panel, note, background, curtain, window>>

LauncherSurfaceDestroyed(k) ==
    /\ launcher[k] # NONE /\ launcher[k].view
    /\ launcher' = [launcher EXCEPT ![k].view = FALSE]
    /\ UNCHANGED <<shell_outs, geometry, panel, note, background, curtain, window>>

LauncherResourceDestroyed(k) ==
    /\ launcher[k] # NONE
    /\ launcher' = [launcher EXCEPT ![k] = NONE]
    /\ UNCHANGED <<shell_outs, geometry, panel, note, background, curtain, window>>
-----------------------------------------------------------------------------
(* The background.                                                            *)

\* A previous background is destroyed first, which shows the curtain again; the
\* curtain is then taken out of its layer.
AttachBackground ==
    /\ background' = [view |-> TRUE]
    /\ curtain' = IF curtain = "none" THEN "none" ELSE "hidden"
    /\ UNCHANGED <<shell_outs, geometry, panel, note, launcher, window>>

BackgroundSurfaceDestroyed ==
    /\ background # NONE /\ background.view
    /\ background' = [view |-> FALSE]
    /\ UNCHANGED <<shell_outs, geometry, panel, note, launcher, curtain, window>>

BackgroundResourceDestroyed ==
    /\ background # NONE
    /\ background' = NONE
    /\ curtain' = IF curtain = "none" THEN "none" ELSE "shown"
    /\ UNCHANGED <<shell_outs, geometry, panel, note, launcher, window>>

\* qdwin_refresh_background makes a new curtain, on top of the layer.
RefreshBackground(os) == curtain' = IF os = <<>> THEN curtain ELSE "shown"
-----------------------------------------------------------------------------
(* Windows and outputs.                                                       *)

Maximise ==
    /\ shell_outs # <<>> /\ window = NONE
    /\ window' = WorkArea(panel, geometry, ShellPrimary(shell_outs))
    /\ UNCHANGED <<shell_outs, geometry, panel, note, launcher, background, curtain>>

Restore ==
    /\ window # NONE /\ window' = NONE
    /\ UNCHANGED <<shell_outs, geometry, panel, note, launcher, background, curtain>>

ShellOutputCreated(o) ==
    /\ ~Contains(shell_outs, o)
    /\ shell_outs' = Append(shell_outs, o)
    /\ RefreshBackground(shell_outs')
    /\ OnOutputChange(panel, geometry, shell_outs')
    /\ UNCHANGED <<geometry, note, launcher, background>>

ShellOutputResized(o) ==
    /\ Contains(shell_outs, o)
    /\ geometry' = [geometry EXCEPT ![o] = 3 - @]
    /\ RefreshBackground(shell_outs)
    /\ OnOutputChange(panel, geometry', shell_outs)
    /\ UNCHANGED <<shell_outs, note, launcher, background>>

\* The boundary transition: the shell's surfaces move first, so that windows
\* see what the survivor has left.
Survivor(o) == ShellPrimary(SelectSeq(shell_outs, LAMBDA x : x # o))
Moved(x, o) == IF x # NONE /\ x.output = o THEN [x EXCEPT !.output = Survivor(o)] ELSE x
Rehomed(ps, o) ==
    IF window # NONE /\ window[1][1] = o /\ Survivor(o) # NONE
    THEN WorkArea(ps, geometry, Survivor(o)) ELSE window

ShellOutputDestroyed(o) ==
    /\ Contains(shell_outs, o)
    /\ shell_outs' = SelectSeq(shell_outs, LAMBDA x : x # o)
    /\ panel' = [p \in Panels |-> IF panel[p] = NONE \/ panel[p].output # o THEN panel[p]
                                  ELSE PanelPlaced(Moved(panel[p], o), geometry)]
    /\ note' = [n \in Notifications |-> IF note[n] = NONE \/ note[n].output # o THEN note[n]
                                        ELSE NotePlaced(Moved(note[n], o))]
    /\ launcher' = [k \in Launchers |-> IF launcher[k] = NONE \/ launcher[k].output # o THEN launcher[k]
                                        ELSE LauncherPlaced(Moved(launcher[k], o))]
    /\ window' = Rehomed(panel', o)
    /\ RefreshBackground(shell_outs')
    /\ UNCHANGED <<geometry, background>>

ShellNext ==
    \/ \E p \in Panels : \/ \E zone \in BOOLEAN : AttachPanel(p, zone)
                         \/ PanelCommit(p) \/ PanelSurfaceDestroyed(p) \/ PanelResourceDestroyed(p)
    \/ \E n \in Notifications : \/ AttachNotification(n) \/ NotificationCommit(n)
                                \/ NotificationSurfaceDestroyed(n) \/ NotificationResourceDestroyed(n)
    \/ \E k \in Launchers : \/ AttachLauncher(k) \/ LauncherCommit(k)
                            \/ LauncherSurfaceDestroyed(k) \/ LauncherResourceDestroyed(k)
    \/ AttachBackground \/ BackgroundSurfaceDestroyed \/ BackgroundResourceDestroyed
    \/ Maximise \/ Restore
    \/ \E o \in Outputs : ShellOutputCreated(o) \/ ShellOutputResized(o) \/ ShellOutputDestroyed(o)

ShellSpec == ShellInit /\ [][ShellNext]_shellVars
-----------------------------------------------------------------------------
Live(o) == o = NONE \/ Contains(shell_outs, o)

\* No object of the shell keeps a pointer to an output that is gone, and what
\* can be shown is shown on the output it points to; a panel
\* has an output whenever there is one and was last told (qdwin_panel_v1
\* geometry) where it is now; a maximised window fills exactly what the panels
\* leave of the primary output, in whatever order outputs, panels and their
\* surfaces came and went; and with no background of the shell the curtain
\* covers the desktop.
DesktopFits ==
    /\ \A p \in Panels : panel[p] # NONE =>
          /\ Live(panel[p].output)
          /\ shell_outs # <<>> => panel[p].output # NONE
          /\ panel[p].view /\ panel[p].output # NONE =>
                panel[p].told = <<panel[p].output, geometry[panel[p].output]>>
    /\ \A n \in Notifications : note[n] # NONE =>
          /\ Live(note[n].output)
          /\ note[n].view /\ note[n].output # NONE => note[n].at = note[n].output
    /\ \A k \in Launchers : launcher[k] # NONE =>
          /\ Live(launcher[k].output)
          /\ launcher[k].view /\ launcher[k].sized /\ launcher[k].output # NONE =>
                launcher[k].at = launcher[k].output
    /\ window # NONE /\ shell_outs # <<>> => window = WorkArea(panel, geometry, ShellPrimary(shell_outs))
    /\ background = NONE => curtain # "hidden"

-----------------------------------------------------------------------------
(* wlr-layer-shell: surfaces anchored to an output, from get_layer_surface    *)
(* through configure, commit and mapping to teardown, with outputs that       *)
(* resize and go and the keyboard focus these surfaces may take.              *)
(*                                                                           *)
(* What a client asks for (anchors, size, margins, exclusive zone, keyboard   *)
(* interactivity) is one of Wishes.  Requests only store it in `pending`,     *)
(* which nothing but the next commit reads, so a commit brings any wish; the  *)
(* acknowledged serial is stored and never read and is left out.              *)

CONSTANTS
    Layers,     \* layer surfaces a client may make

    Wishes,     \* records [fills, zone, kbd]: it is sized by its output;
                \* it reserves space; "none", "exclusive" or "on_demand"
    Default    \* the wish of a client that asked for nothing

VARIABLES
    layer_outs,  \* compositor->output_list
    dim,        \* output -> one of two sizes
    ls,         \* layer surface -> NONE or its record
    focus,      \* the layer surface the seat's keyboard is on, or NONE
    laid        \* the layer surfaces whose zone the last reflow of the
                \* maximised windows took into account

layerVars == <<layer_outs, dim, ls, focus, laid>>

FIXED == 0
FALLBACK == 3       \* the 1920x1080 of a surface without any output
Size == FIXED .. FALLBACK
MaybeOutput == Outputs \cup {NONE}

LayerSurface ==
    [surface : BOOLEAN,             \* the wl_surface lives
     output : MaybeOutput, current : Wishes,
     configured : BOOLEAN,          \* initial_configure_sent
     where : MaybeOutput, size : Size,      \* its box
     told : Size \cup {NONE},       \* the size of the last configure
     view : BOOLEAN, mapped : BOOLEAN,
     at : MaybeOutput,              \* where the view was last put
     asked : BOOLEAN]               \* the last commit ended in a new configure

LayerTypeOK ==
    /\ layer_outs \in {s \in SeqOf(Outputs, 2) : IsInjective(s)}
    /\ dim \in [Outputs -> 1 .. 2]
    /\ \A l \in Layers : ls[l] = NONE \/
          ls[l] \in LayerSurface
    /\ focus \in Layers \cup {NONE}
    /\ laid \subseteq Layers

LayerInit ==
    /\ layer_outs \in {<<o>> : o \in Outputs}
    /\ dim = [o \in Outputs |-> 1]
    /\ ls = [l \in Layers |-> NONE]
    /\ focus = NONE
    /\ laid = {}
-----------------------------------------------------------------------------
LayerPrimary(os) == IF os = <<>> THEN NONE ELSE Head(os)

\* qdwin_layer_surface_resolve_output, qdwin_layer_surface_compute_box.
ResolveOutput(s, os) == IF s.output # NONE THEN s.output ELSE LayerPrimary(os)
ComputeBox(s, os, d) ==
    LET o == ResolveOutput(s, os)
    IN  [s EXCEPT !.where = o,
                  !.size = CASE ~s.current.fills -> FIXED
                             [] s.current.fills /\ o = NONE -> FALLBACK
                             [] OTHER -> d[o]]

\* qdwin_layer_surface_send_configure: the box as it is now.
SendConfigure(s) == [s EXCEPT !.told = s.size]

\* The zones that shrink the work area of the primary output.
Reserving(lss, os) ==
    {l \in Layers : lss[l] # NONE /\ lss[l].mapped /\ lss[l].current.zone
                    /\ (lss[l].output = NONE \/ lss[l].output = LayerPrimary(os))}

\* qdwin_layer_surface_apply: make the view, put it at the box, map it; the
\* first mapping lays windows out again, and an exclusive surface takes the
\* keyboard every time.
Applied(s) == [s EXCEPT !.view = TRUE, !.mapped = TRUE, !.at = s.where]
Apply(lss, l, os) ==
    LET after == [lss EXCEPT ![l] = Applied(@)]
    IN  /\ ls' = after
        /\ laid' = IF ~lss[l].mapped THEN Reserving(after, os) ELSE laid
        /\ focus' = IF after[l].current.kbd = "exclusive" THEN l ELSE focus
-----------------------------------------------------------------------------
(* Requests of the client.                                                    *)

GetLayerSurface(l) ==
    /\ ls[l] = NONE
    /\ \E o \in Range(layer_outs) \cup {NONE} :
          ls' = [ls EXCEPT ![l] =
              [surface |-> TRUE, output |-> o, current |-> Default, configured |-> FALSE, where |-> NONE, size |-> FIXED, told |-> NONE, view |-> FALSE,
               mapped |-> FALSE, at |-> NONE, asked |-> FALSE]]
    /\ UNCHANGED <<layer_outs, dim, focus, laid>>

\* What set_size, set_anchor, set_exclusive_zone, set_margin,
\* set_keyboard_interactivity and set_exclusive_edge left in pending.
Promoted(s, w) == [s EXCEPT !.current = w]

\* Before the first configure a commit is answered by one; afterwards the box
\* is computed anew, and if it changed size the client is asked again and
\* nothing else happens; otherwise the surface is shown.
Commit_moves_late(l, w) ==
    /\ ls[l] # NONE /\ ls[l].surface
    /\ LET s == ComputeBox(Promoted(ls[l], w), layer_outs, dim)
       IN  IF ~s.configured
           THEN /\ ls' = [ls EXCEPT ![l] = SendConfigure([s EXCEPT !.configured = TRUE, !.asked = TRUE])]
                /\ UNCHANGED <<focus, laid>>
           ELSE IF s.size # ls[l].size
           THEN /\ ls' = [ls EXCEPT ![l] = [s EXCEPT !.asked = TRUE]]
                /\ UNCHANGED <<focus, laid>>
           ELSE Apply([ls EXCEPT ![l] = [s EXCEPT !.asked = FALSE]], l, layer_outs)
    /\ UNCHANGED <<layer_outs, dim>>
Commit(l, w) ==
    /\ ls[l] # NONE /\ ls[l].surface
    /\ LET s == ComputeBox(Promoted(ls[l], w), layer_outs, dim)
       IN  IF ~s.configured
           THEN /\ ls' = [ls EXCEPT ![l] = SendConfigure([s EXCEPT !.configured = TRUE, !.asked = TRUE])]
                /\ UNCHANGED <<focus, laid>>
           ELSE IF s.size # ls[l].size
           THEN /\ ls' = [ls EXCEPT ![l] = SendConfigure([s EXCEPT !.asked = TRUE])]
                /\ UNCHANGED <<focus, laid>>
           ELSE Apply([ls EXCEPT ![l] = [s EXCEPT !.asked = FALSE]], l, layer_outs)
    /\ UNCHANGED <<layer_outs, dim>>

\* The teardown lays windows out again only for a zone that counts now.
Unmapped(l, s, f) ==
    LET after == [ls EXCEPT ![l] = s]
    IN  /\ ls' = after
        /\ laid' = IF ls[l].mapped /\ ls[l].current.zone THEN Reserving(after, layer_outs) ELSE laid
        /\ focus' = f

SurfaceDestroyed(l) ==
    /\ ls[l] # NONE /\ ls[l].surface
    /\ Unmapped(l, [ls[l] EXCEPT !.surface = FALSE, !.view = FALSE, !.mapped = FALSE, !.at = NONE, !.asked = FALSE],
                IF focus = l THEN NONE ELSE focus)
    /\ UNCHANGED <<layer_outs, dim>>

\* The wl_surface may outlive the role; the keyboard stays on it then.
LayerResourceDestroyed(l) ==
    /\ ls[l] # NONE
    /\ Unmapped(l, NONE, focus)
    /\ UNCHANGED <<layer_outs, dim>>
-----------------------------------------------------------------------------
(* The rest of the compositor.                                                *)

\* A click on an on-demand surface gives it the keyboard.
Click(l) ==
    /\ ls[l] # NONE /\ ls[l].view /\ ls[l].current.kbd = "on_demand"
    /\ ~\E x \in Layers \ {l} :
          ls[x] # NONE /\ ls[x].surface /\ ls[x].current.kbd = "exclusive" /\ focus = x
    /\ focus' = l
    /\ UNCHANGED <<layer_outs, dim, ls, laid>>

\* The keyboard goes to an application window, or its surface is destroyed.
FocusElsewhere ==
    /\ focus # NONE /\ focus' = NONE
    /\ UNCHANGED <<layer_outs, dim, ls, laid>>

LayerOutputCreated(o) ==
    /\ ~Contains(layer_outs, o)
    /\ layer_outs' = Append(layer_outs, o)
    /\ laid' = Reserving(ls, layer_outs')
    /\ UNCHANGED <<dim, ls, focus>>

\* Boxes are not computed here: the next commit does.
LayerOutputResized(o) ==
    /\ Contains(layer_outs, o)
    /\ dim' = [dim EXCEPT ![o] = 3 - @]
    /\ laid' = Reserving(ls, layer_outs)
    /\ UNCHANGED <<layer_outs, ls, focus>>

\* The boundary transition moves every surface of the output, and every one
\* that follows the primary, to the survivor, configures it and moves its view.
LayerOutputDestroyed(o) ==
    /\ Contains(layer_outs, o)
    /\ layer_outs' = SelectSeq(layer_outs, LAMBDA x : x # o)
    /\ LET to(s) == SendConfigure(ComputeBox([s EXCEPT !.output = LayerPrimary(layer_outs')], layer_outs', dim))
           move(s) == IF s.view THEN Applied(to(s)) ELSE to(s)
       IN  ls' = [l \in Layers |-> IF ls[l] # NONE /\ ls[l].output \in {o, NONE} THEN move(ls[l]) ELSE ls[l]]
    /\ UNCHANGED <<dim, focus, laid>>

LayerNext ==
    \/ \E l \in Layers : \/ GetLayerSurface(l)
                         \/ SurfaceDestroyed(l) \/ LayerResourceDestroyed(l) \/ Click(l)
                         \/ \E w \in Wishes : Commit(l, w)
    \/ FocusElsewhere
    \/ \E o \in Outputs : LayerOutputCreated(o) \/ LayerOutputResized(o) \/ LayerOutputDestroyed(o)

LayerSpec == LayerInit /\ [][LayerNext]_layerVars
-----------------------------------------------------------------------------
\* A layer surface points to an output that exists or to none; once it was
\* configured the client knows the size of its box; a mapped one has a live
\* surface, was configured, and its view is where its box is unless the client
\* was asked for another size and has not committed since.
LayersPlaced ==
    \A l \in Layers : ls[l] # NONE =>
        /\ ls[l].output = NONE \/ Contains(layer_outs, ls[l].output)
        /\ ls[l].configured => ls[l].told = ls[l].size
        /\ ls[l].mapped => ls[l].view /\ ls[l].surface /\ ls[l].configured
        /\ ls[l].view /\ ls[l].at # ls[l].where => ls[l].asked
-----------------------------------------------------------------------------
(* The pure computations behind windows and layers, each against what it is   *)
(* for: laying a layer surface out, bringing a window back onto an output,    *)
(* placing a new window, snapping a dragged one, sizing a client for its      *)
(* frame, and ordering selection serials.                                     *)

CONSTANTS
    Span,      \* coordinates and sizes are taken from 0..Span
    Half       \* serials count modulo 2 * Half

VARIABLES
    ask,       \* the computation and its arguments
    got        \* its result, once there is one

kernelVars == <<ask, got>>

Steps == 5

\* C's division truncates towards zero.
Quot(a, b) == IF a >= 0 THEN a \div b ELSE -((-a) \div b)
Least(a, b) == IF a < b THEN a ELSE b
Most(a, b) == IF a > b THEN a ELSE b
Dist(a, b) == IF a < b THEN b - a ELSE a - b
-----------------------------------------------------------------------------
LayerBox(lo, hi, want, mlo, mhi, b, n) ==
    LET size == IF want = 0 THEN Most(0, n - (mlo + mhi)) ELSE want
        pos  == IF want = 0 THEN b + mlo
                ELSE IF lo = hi THEN b + n \div 2 - want \div 2
                ELSE IF lo THEN b + mlo ELSE b + n - want - mhi
    IN  [pos |-> pos, size |-> size]

\* qdwin_layer_exclusive_edge: the edge a zone is reserved at, if there is one;
\* an edge the client chose is one of its anchors (checked in set_exclusive_edge).
ExclusiveEdge(anchor, chosen) ==
    CASE chosen # {} -> chosen
      [] Cardinality(anchor) = 1 -> anchor
      [] anchor = {"top", "left", "right"} -> {"top"}
      [] anchor = {"bottom", "left", "right"} -> {"bottom"}
      [] anchor = {"left", "top", "bottom"} -> {"left"}
      [] anchor = {"right", "top", "bottom"} -> {"right"}
      [] OTHER -> {}

\* qdwin_rehome_outer_rect along one axis.
Rehome(x, outer, w, n) ==
    LET o == Most(outer, 1)
        m == Most(n, 1)
        hi == IF o <= m THEN w + m - o ELSE w
    IN  IF x < w THEN w ELSE IF x > hi THEN hi ELSE x

\* qdwin_client_extent_for_geometry
ClientExtent(want, surface, extent, learned) ==
    Most(1, want - Most(Most(0, surface - extent), learned))

\* qdwin_selection_serial_is_stale, with an unsigned difference.
SerialStale(current, incoming) == (current - incoming) % (2 * Half) < Half - 1

\* qdwin_placement_overlap of a slot with the windows that are there.
Overlap(x, y, w, h, others) ==
    FoldSet(LAMBDA t, sum :
              LET dx == Least(x + w, t.x + t.w) - Most(x, t.x)
                  dy == Least(y + h, t.y + t.h) - Most(y, t.y)
              IN  IF dx > 0 /\ dy > 0 THEN sum + dx * dy ELSE sum,
            0, others)

\* qdwin_compute_placement, SMART: the centre unless it overlaps, else the first
\* slot of a coarse grid with the least overlap.
Smart(area, w, h, others) ==
    LET cx == area.x + Quot(area.w - w, 2)
        cy == area.y + Quot(area.h - h, 2)
        Slot[k \in 0..Steps * Steps - 1] ==
            [x |-> Most(area.x, area.x + Quot((area.w - w) * (k % Steps), Steps - 1)),
             y |-> Most(area.y, area.y + Quot((area.h - h) * (k \div Steps), Steps - 1))]
        Cost(k) == Overlap(Slot[k].x, Slot[k].y, w, h, others)
        centre == Overlap(cx, cy, w, h, others)
        best == Min({Cost(k) : k \in DOMAIN Slot})
        k == Min({j \in DOMAIN Slot : Cost(j) = best})
        p == IF centre = 0 \/ best >= centre THEN [x |-> cx, y |-> cy] ELSE Slot[k]
    IN  [x |-> Most(p.x, area.x), y |-> Most(p.y, area.y)]

\* qdwin_snap_move_position along one axis: the work area's edges first, then
\* the other windows' (abutting on either side, aligned); one snap only.
Snap(v, size, w, n, other, dist) ==
    LET targets == <<w, w + n - size, other.pos + other.size, other.pos - size, other.pos>>
        near == {i \in DOMAIN targets : Dist(v, targets[i]) <= dist}
    IN  IF near = {} THEN v ELSE targets[Min(near)]
-----------------------------------------------------------------------------
Small == 0..Span
Edge == {"top", "bottom", "left", "right"}
Rects == [x : {0, 3}, y : {0, 2}, w : {2, 4}, h : {2, 3}]

Asked ==
    [fn : {"box"}, lo : BOOLEAN, hi : BOOLEAN, want : Small, mlo : 0..2, mhi : 0..2, n : Small]
    \cup {[fn |-> "edge", anchor |-> a, chosen |-> c] : <<a, c>> \in {<<a, c>> \in (SUBSET Edge) \X ({{}} \cup {{e} : e \in Edge}) : c \subseteq a}}
    \cup [fn : {"rehome"}, x : -3..Span + 3, outer : 0..4, n : 0..4]
    \cup [fn : {"extent"}, want : Small, surface : Small, geometry : Small, learned : 0..2]
    \cup [fn : {"serial"}, current : 0..2 * Half - 1, incoming : 0..2 * Half - 1]
    \cup [fn : {"smart"}, w : {2, 3, 9}, h : {2, 3}, others : {{}} \cup {{a} : a \in Rects} \cup {{a, b} : a \in Rects, b \in Rects}]
    \cup [fn : {"snap"}, v : -2..Span + 2, size : 1..3, other : [pos : 0..Span, size : 1..3], dist : 0..2]

Area == [x |-> 1, y |-> 1, w |-> 8, h |-> 6]

Answer(q) ==
    CASE q.fn = "box"    -> LayerBox(q.lo, q.hi, q.want, q.mlo, q.mhi, 1, q.n)
      [] q.fn = "edge"   -> ExclusiveEdge(q.anchor, q.chosen)
      [] q.fn = "rehome" -> Rehome(q.x, q.outer, 1, q.n)
      [] q.fn = "extent" -> ClientExtent(q.want, q.surface, q.geometry, q.learned)
      [] q.fn = "serial" -> SerialStale(q.current, q.incoming)
      [] q.fn = "smart"  -> Smart(Area, q.w, q.h, q.others)
      [] q.fn = "snap"   -> Snap(q.v, q.size, 1, Span, q.other, q.dist)

KernelInit == ask \in Asked /\ got = <<>>

Compute == got = <<>> /\ got' = <<Answer(ask)>> /\ UNCHANGED ask
Done == got # <<>> /\ UNCHANGED kernelVars

KernelNext == Compute \/ Done

KernelSpec == KernelInit /\ [][KernelNext]_kernelVars

KernelTypeOK == ask \in Asked
-----------------------------------------------------------------------------
\* A stretched box fills what the margins leave; one held at a single edge keeps
\* that edge's margin; one held at none or both has as much room on either side.
BoxMeets(q, r) ==
    LET before == r.pos - 1
        after  == q.n - before - r.size
    IN  IF q.want = 0 THEN q.mlo + q.mhi <= q.n => before = q.mlo /\ after = q.mhi
        ELSE IF q.lo # q.hi THEN IF q.lo THEN before = q.mlo ELSE after = q.mhi
        ELSE Dist(before, after) <= 1

\* The position kept inside the area that is nearest to the old one.
RehomeMeets(q, r) ==
    LET o == Most(q.outer, 1)
        m == Most(q.n, 1)
        inside == {p \in 1..1 + m : p + o <= 1 + m}
    IN  IF inside = {} THEN r = 1
        ELSE r \in inside /\ \A p \in inside : Dist(r, q.x) <= Dist(p, q.x)

\* A window that fits lies in the work area, with no more overlap than at the
\* centre or in a corner; a free centre is taken.
SmartMeets(q, r) ==
    LET Cost(p) == Overlap(p.x, p.y, q.w, q.h, q.others)
        c == [x |-> Most(1, 1 + Quot(8 - q.w, 2)), y |-> Most(1, 1 + Quot(6 - q.h, 2))]
        corners == {[x |-> x, y |-> y] : x \in {1, Most(1, 9 - q.w)}, y \in {1, 7 - q.h}}
    IN  /\ q.w <= 8 => r.x \in 1..9 - q.w /\ r.y \in 1..7 - q.h
        /\ Cost(c) = 0 => r = c
        /\ q.w <= 8 => \A p \in corners \cup {c} : Cost(r) <= Cost(p)

\* Each computation does what it is for.  A laid out layer surface stays between
\* its margins; a zone belongs to one of the surface's own edges; a rehomed
\* window is at the nearest place inside; the client is sized so that frame and
\* content fill the geometry; of two serials less than half the circle apart
\* the older is stale and the newer is not, and a serial is stale to itself; smart placement never does worse than the
\* centre and leaves a free centre alone; a snap moves by the distance at most.
KernelsMeetPurpose ==
    got # <<>> =>
    LET r == got[1] IN
    CASE ask.fn = "box"    -> BoxMeets(ask, r)
      [] ask.fn = "edge"   -> r \subseteq ask.anchor /\ Cardinality(r) <= 1
      [] ask.fn = "rehome" -> RehomeMeets(ask, r)
      [] ask.fn = "extent" -> r >= 1 /\ (r > 1 => r + Most(ask.surface - ask.geometry, ask.learned) <= ask.want)
      [] ask.fn = "serial" -> LET ahead == (ask.incoming - ask.current) % (2 * Half)
                              IN  /\ ahead \in 1..Half => ~r
                                  /\ ahead = 0 \/ ahead > Half + 1 => r
      [] ask.fn = "smart"  -> SmartMeets(ask, r)
      [] ask.fn = "snap"   -> Dist(r, ask.v) <= ask.dist
=============================================================================
