------------------------ MODULE WindowGeometryProofs ------------------------
(***************************************************************************)
(* The geometry of windows for any windows and outputs.  GeometryKept is   *)
(* inductive: Good is what it says of one window, Keeps what every request *)
(* does to one.                                                            *)
(***************************************************************************)
EXTENDS WindowGeometry, TLAPS

\* What the type invariant says of one window.
Good(w) ==
    /\ w \in Window
    /\ w.max \/ w.fs => w.saved.size # "unset"
    /\ w.tiled # "none" => w.tile_saved.size # "unset"

\* A request leaves a good window, which will be restored to the same rectangle if it is
\* in a special state and its states do not overlap.
Keeps(w, r) ==
    /\ Good(r)
    /\ r.st = w.st
    /\ special(r) /\ ~overlap(w, r) => Float(r) = Float(w)

-----------------------------------------------------------------------------
(* Rectangles                                                               *)

\* A rectangle is its position and its size.
LEMMA RectIs ==
  ASSUME NEW p \in Positions, NEW s \in Sizes \cup {"unset"}
  PROVE  /\ Rect(p, s) \in Rects /\ Rect(p, s).pos = p /\ Rect(p, s).size = s
  BY DEF Rect, Rects

\* And nothing else.
LEMMA RectOf ==
  ASSUME NEW r \in Rects
  PROVE  /\ r.pos \in Positions /\ r.size \in Sizes \cup {"unset"}
         /\ Rect(r.pos, r.size) = r
  BY DEF Rect, Rects

\* Positions on an output.
LEMMA AtIs ==
  ASSUME NEW o \in Outputs \cup {NONE}, NEW s \in Spots
  PROVE  At(o, s) \in Positions
  BY DEF At, Positions

\* The origin, and the slot that holds nothing.
LEMMA NoRectIs == Origin \in Positions /\ NoRect \in Rects /\ NoRect.size = "unset"
<1>1. Origin \in Positions
  BY AtIs DEF Origin, Spots
<1> QED BY <1>1, RectIs DEF NoRect

\* The size a window is given when it has none yet.
LEMMA SeedIs ==
  ASSUME NEW w \in Window
  PROVE  /\ seed_outer(w) \in Sizes /\ seed_outer(w) # "unset"
         /\ w.outer # "unset" => seed_outer(w) = w.outer
  BY DEF seed_outer, Window, Sizes

\* So that where it floats is a rectangle with a size.
LEMMA FloatIs ==
  ASSUME NEW w, Good(w)
  PROVE  Float(w) \in Rects /\ Float(w).size # "unset"
<1>1. w \in Window
  BY DEF Good
<1>2. w.pos \in Positions /\ w.saved \in Rects /\ w.tile_saved \in Rects
  BY <1>1 DEF Window
<1>3. Rect(w.pos, seed_outer(w)) \in Rects /\ Rect(w.pos, seed_outer(w)).size # "unset"
  BY <1>1, <1>2, SeedIs, RectIs
<1> QED BY <1>2, <1>3 DEF Float, Good
-----------------------------------------------------------------------------
(* What the requests do to one window                                       *)

\* place moves a window and nothing else.
LEMMA PlaceIs ==
  ASSUME NEW w \in Window, NEW r \in Rects, NEW p, p = place(w, r)
  PROVE  /\ p \in Window /\ p.pos = r.pos /\ p.outer = r.size
         /\ p.st = w.st /\ p.mapped = w.mapped /\ p.max = w.max /\ p.fs = w.fs
         /\ p.tiled = w.tiled /\ p.saved = w.saved /\ p.tile_saved = w.tile_saved
<1>1. r.pos \in Positions /\ r.size \in Sizes \cup {"unset"}
  BY RectOf
<1>2. p \in Window
  BY <1>1 DEF place, Window
<1> QED BY <1>1, <1>2 DEF place, Window

\* So does apply_fullscreen_geometry, on an output if there is one.
LEMMA FullscreenIs ==
  ASSUME NEW w \in Window, NEW o \in Outputs \cup {NONE}, NEW p, p = apply_fullscreen_geometry(w, o)
  PROVE  /\ p \in Window
         /\ p.st = w.st /\ p.mapped = w.mapped /\ p.max = w.max /\ p.fs = w.fs
         /\ p.tiled = w.tiled /\ p.saved = w.saved /\ p.tile_saved = w.tile_saved
<1>1. CASE o = NONE
  BY <1>1 DEF apply_fullscreen_geometry
<1>2. CASE o # NONE
  <2>1. Rect(At(o, "full"), "full") \in Rects
    BY AtIs, RectIs DEF Spots, Sizes
  <2>2. p = place(w, Rect(At(o, "full"), "full"))
    BY <1>2 DEF apply_fullscreen_geometry
  <2> QED BY <2>1, <2>2, PlaceIs
<1> QED BY <1>1, <1>2

\* The primary output is an output, if there is one.
LEMMA PrimaryIs ==
  ASSUME outs \in Seq(Outputs)
  PROVE  qdwin_primary_output \in Outputs \cup {NONE}
<1>1. outs # <<>> => Head(outs) \in Outputs
  OBVIOUS
<1> QED BY <1>1 DEF qdwin_primary_output

\* A window leaves the maximised state: it is where it floats, unless it is still in
\* another special state.
LEMMA UnmaximizeIs ==
  ASSUME NEW w, Good(w), NEW r, r = set_maximized(w, FALSE)
  PROVE  /\ Good(r) /\ r.st = w.st /\ r.max = FALSE /\ r.fs = w.fs /\ r.tiled = w.tiled
         /\ r.tile_saved = w.tile_saved /\ Float(r) = Float(w)
<1>1. w \in Window
  BY DEF Good
<1>2. CASE ~w.max
  <2>1. w.max = FALSE
    BY <1>1, <1>2 DEF Window
  <2>2. r = w
    BY <2>1 DEF set_maximized
  <2> QED BY <2>1, <2>2
<1>3. CASE w.max
  <2> DEFINE p == place(w, w.saved)
             v == IF w.fs THEN p.saved ELSE NoRect
             q == [p EXCEPT !.max = FALSE, !.saved = v]
  <2>1. w.saved \in Rects /\ w.max = TRUE
    BY <1>1, <1>3 DEF Window
  <2>2. /\ p \in Window /\ p.pos = w.saved.pos /\ p.outer = w.saved.size
        /\ p.st = w.st /\ p.max = w.max /\ p.fs = w.fs
        /\ p.tiled = w.tiled /\ p.saved = w.saved /\ p.tile_saved = w.tile_saved
    BY <1>1, <2>1, PlaceIs
  <2>3. r = q
    BY <2>1 DEF set_maximized
  <2> HIDE DEF p
  <2>4. v \in Rects /\ (w.fs => v = w.saved)
    BY <2>1, <2>2, NoRectIs
  <2> HIDE DEF v
  <2>5. q \in Window
    BY <2>2, <2>4 DEF Window
  <2>6. /\ q.max = FALSE /\ q.saved = v /\ q.pos = p.pos /\ q.outer = p.outer /\ q.st = p.st
        /\ q.fs = p.fs /\ q.tiled = p.tiled /\ q.tile_saved = p.tile_saved
    BY <2>2, <2>4 DEF Window
  <2> HIDE DEF q
  <2>7. w.saved.size # "unset" /\ Rect(w.saved.pos, w.saved.size) = w.saved
    BY <1>3, <2>1, RectOf DEF Good
  <2>8. Rect(q.pos, seed_outer(q)) = w.saved
    BY <2>2, <2>6, <2>7 DEF seed_outer
  <2>9. Good(q)
    BY <2>2, <2>4, <2>5, <2>6, <2>7 DEF Good
  <2>10. Float(q) = Float(w)
    BY <1>3, <2>2, <2>4, <2>6, <2>8 DEF Float
  <2> QED BY <2>2, <2>3, <2>6, <2>9, <2>10
<1> QED BY <1>2, <1>3

\* The same for the fullscreen state.
LEMMA UnfullscreenIs ==
  ASSUME NEW w, Good(w), NEW o \in Outputs \cup {NONE}, NEW r, r = set_fullscreen(w, FALSE, o)
  PROVE  /\ Good(r) /\ r.st = w.st /\ r.max = w.max /\ r.fs = FALSE /\ r.tiled = w.tiled
         /\ r.tile_saved = w.tile_saved /\ Float(r) = Float(w)
<1>1. w \in Window
  BY DEF Good
<1>2. CASE ~w.fs
  <2>1. w.fs = FALSE
    BY <1>1, <1>2 DEF Window
  <2>2. r = w
    BY <2>1 DEF set_fullscreen
  <2> QED BY <2>1, <2>2
<1>3. CASE w.fs
  <2> DEFINE p == place(w, w.saved)
             v == IF w.max THEN p.saved ELSE NoRect
             q == [p EXCEPT !.fs = FALSE, !.saved = v]
  <2>1. w.saved \in Rects /\ w.fs = TRUE
    BY <1>1, <1>3 DEF Window
  <2>2. /\ p \in Window /\ p.pos = w.saved.pos /\ p.outer = w.saved.size
        /\ p.st = w.st /\ p.max = w.max /\ p.fs = w.fs
        /\ p.tiled = w.tiled /\ p.saved = w.saved /\ p.tile_saved = w.tile_saved
    BY <1>1, <2>1, PlaceIs
  <2>3. r = q
    BY <2>1 DEF set_fullscreen
  <2> HIDE DEF p
  <2>4. v \in Rects /\ (w.max => v = w.saved)
    BY <2>1, <2>2, NoRectIs
  <2> HIDE DEF v
  <2>5. q \in Window
    BY <2>2, <2>4 DEF Window
  <2>6. /\ q.fs = FALSE /\ q.saved = v /\ q.pos = p.pos /\ q.outer = p.outer /\ q.st = p.st
        /\ q.max = p.max /\ q.tiled = p.tiled /\ q.tile_saved = p.tile_saved
    BY <2>2, <2>4 DEF Window
  <2> HIDE DEF q
  <2>7. w.saved.size # "unset" /\ Rect(w.saved.pos, w.saved.size) = w.saved
    BY <1>3, <2>1, RectOf DEF Good
  <2>8. Rect(q.pos, seed_outer(q)) = w.saved
    BY <2>2, <2>6, <2>7 DEF seed_outer
  <2>9. Good(q)
    BY <2>2, <2>4, <2>5, <2>6, <2>7 DEF Good
  <2>10. Float(q) = Float(w)
    BY <1>3, <2>2, <2>4, <2>6, <2>8 DEF Float
  <2> QED BY <2>2, <2>3, <2>6, <2>9, <2>10
<1> QED BY <1>2, <1>3
\* A window enters a special state: the slot holds where it floated.
LEMMA EnterKeeps ==
  ASSUME NEW w, Good(w), NEW r \in Window, r.saved = Rect(w.pos, seed_outer(w)),
         r.st = w.st, r.tiled = w.tiled, r.tile_saved = w.tile_saved,
         \/ r.max /\ ~w.max /\ r.fs = w.fs
         \/ r.fs /\ ~w.fs /\ r.max = w.max
  PROVE  Keeps(w, r)
<1> DEFINE v == Rect(w.pos, seed_outer(w))
<1>1. w \in Window /\ w.pos \in Positions
  BY DEF Good, Window
<1>2. v \in Rects /\ v.size # "unset"
  BY <1>1, SeedIs, RectIs
<1> HIDE DEF v
<1>3. r.saved = v
  BY DEF v
<1>5. Good(r)
  BY <1>2, <1>3 DEF Good
<1>6. ASSUME ~overlap(w, r), w.tiled = "none"
      PROVE  Float(r) = Float(w)
  <2>1. ~w.max /\ ~w.fs
    BY <1>6 DEF overlap
  <2> QED BY <1>3, <1>6, <2>1 DEF Float, v
<1>7. w.tiled # "none" => Float(r) = Float(w)
  BY DEF Float
<1> QED BY <1>5, <1>6, <1>7 DEF Keeps

\* A window is good for itself.
LEMMA SameKeeps ==
  ASSUME NEW w, Good(w)
  PROVE  Keeps(w, w)
  BY DEF Keeps

\* Maximised or restored.
LEMMA MaximizeKeeps ==
  ASSUME outs \in Seq(Outputs), NEW w, Good(w), NEW on \in BOOLEAN, NEW r,
         r = set_maximized(w, on)
  PROVE  Keeps(w, r)
<1>1. w \in Window /\ qdwin_primary_output \in Outputs \cup {NONE} /\ w.max \in BOOLEAN
  BY PrimaryIs DEF Good, Window
<1>2. CASE on = FALSE
  <2>1. r = set_maximized(w, FALSE)
    BY <1>2
  <2> QED BY <2>1, UnmaximizeIs DEF Keeps
<1>3. CASE on = TRUE /\ (w.max \/ qdwin_primary_output = NONE)
  <2>1. r = w
    BY <1>1, <1>3 DEF set_maximized
  <2> QED BY <2>1, SameKeeps
<1>4. CASE on = TRUE /\ ~w.max /\ qdwin_primary_output # NONE
  <2> DEFINE a == Rect(At(qdwin_primary_output, "work"), "work")
             p == place(w, a)
             v == Rect(w.pos, seed_outer(w))
             q == [p EXCEPT !.saved = v, !.max = TRUE]
  <2>1. r = q
    BY <1>1, <1>4 DEF set_maximized
  <2>2. a \in Rects /\ v \in Rects
    <3>1. At(qdwin_primary_output, "work") \in Positions /\ w.pos \in Positions
      BY <1>1, AtIs DEF Spots, Window
    <3> QED BY <1>1, <3>1, RectIs, SeedIs DEF Sizes
  <2> HIDE DEF a
  <2>3. /\ p \in Window /\ p.st = w.st /\ p.max = w.max /\ p.fs = w.fs
        /\ p.tiled = w.tiled /\ p.tile_saved = w.tile_saved
    BY <1>1, <2>2, PlaceIs
  <2> HIDE DEF p, v
  <2>4. q \in Window
    BY <2>2, <2>3 DEF Window
  <2>5. /\ q.saved = v /\ q.max = TRUE /\ q.st = p.st /\ q.fs = p.fs
        /\ q.tiled = p.tiled /\ q.tile_saved = p.tile_saved
    BY <2>2, <2>3 DEF Window
  <2> HIDE DEF q
  <2>6. Keeps(w, q)
    BY <1>4, <2>3, <2>4, <2>5, EnterKeeps DEF v
  <2> QED BY <2>1, <2>6
<1> QED BY <1>2, <1>3, <1>4

\* Fullscreen, moved to another output while fullscreen, or restored.
LEMMA FullscreenKeeps ==
  ASSUME outs \in Seq(Outputs), NEW w, Good(w), NEW on \in BOOLEAN,
         NEW o \in Outputs \cup {NONE}, NEW r, r = set_fullscreen(w, on, o)
  PROVE  Keeps(w, r)
<1> DEFINE out == IF o = NONE THEN qdwin_primary_output ELSE o
           p == apply_fullscreen_geometry(w, out)
<1>1. w \in Window /\ out \in Outputs \cup {NONE} /\ w.fs \in BOOLEAN
  BY PrimaryIs DEF Good, Window
<1> HIDE DEF out
<1>2. /\ p \in Window /\ p.st = w.st /\ p.max = w.max /\ p.fs = w.fs
      /\ p.tiled = w.tiled /\ p.saved = w.saved /\ p.tile_saved = w.tile_saved
  BY <1>1, FullscreenIs
<1>3. CASE on = FALSE
  <2>1. r = set_fullscreen(w, FALSE, o)
    BY <1>3
  <2> HIDE DEF p
  <2>2. Good(r) /\ r.st = w.st /\ Float(r) = Float(w)
    BY <2>1, UnfullscreenIs
  <2> QED BY <2>2 DEF Keeps
<1>4. CASE on = TRUE /\ w.fs
  <2>1. r = p
    BY <1>1, <1>4 DEF set_fullscreen, out
  <2> HIDE DEF p
  <2>2. Good(p) /\ p.st = w.st
    BY <1>2 DEF Good
  <2>3. Float(p) = Float(w)
    BY <1>2, <1>4 DEF Float
  <2> QED BY <2>1, <2>2, <2>3 DEF Keeps
<1>5. CASE on = TRUE /\ ~w.fs /\ out = NONE
  <2>1. r = w
    BY <1>1, <1>5 DEF set_fullscreen, out
  <2> QED BY <2>1, SameKeeps
<1>6. CASE on = TRUE /\ ~w.fs /\ out # NONE
  <2> DEFINE v == Rect(w.pos, seed_outer(w))
             q == [p EXCEPT !.saved = v, !.fs = TRUE]
  <2>1. r = q
    BY <1>1, <1>6 DEF set_fullscreen, out
  <2>2. v \in Rects
    <3>1. w.pos \in Positions
      BY <1>1 DEF Window
    <3> QED BY <1>1, <3>1, RectIs, SeedIs
  <2> HIDE DEF p, v
  <2>4. q \in Window
    BY <1>2, <2>2 DEF Window
  <2>5. /\ q.saved = v /\ q.fs = TRUE /\ q.st = p.st /\ q.max = p.max
        /\ q.tiled = p.tiled /\ q.tile_saved = p.tile_saved
    BY <1>2, <2>2 DEF Window
  <2> HIDE DEF q
  <2>6. Keeps(w, q)
    BY <1>2, <1>6, <2>4, <2>5, EnterKeeps DEF v
  <2> QED BY <2>1, <2>6
<1> QED BY <1>3, <1>4, <1>5, <1>6
\* The output a position is on, or the primary one.
LEMMA OutputAtIs ==
  ASSUME outs \in Seq(Outputs), NEW p \in Positions
  PROVE  output_at(p) \in Outputs \cup {NONE}
<1>1. p.out \in Outputs \cup {NONE}
  BY DEF Positions
<1> QED BY <1>1, PrimaryIs DEF output_at

\* The rectangle of a tile.
LEMMA TileIs ==
  ASSUME NEW o \in Outputs, NEW edge \in Edges
  PROVE  TileRect(o, edge) \in Rects
<1>1. At(o, IF edge = "left" THEN "work" ELSE "mid") \in Positions
  BY AtIs DEF Spots
<1> QED BY <1>1, RectIs DEF TileRect, Sizes

\* A window leaves its tile.
LEMMA ClearIs ==
  ASSUME NEW w \in Window, NEW r, r = clear_tiled(w)
  PROVE  /\ r \in Window /\ r.tiled = "none" /\ r.tile_saved = NoRect /\ r.st = w.st
         /\ r.pos = w.pos /\ r.outer = w.outer /\ r.max = w.max /\ r.fs = w.fs
         /\ r.saved = w.saved
<1>1. r \in Window
  BY NoRectIs DEF clear_tiled, Window, Edges
<1> QED BY <1>1, NoRectIs DEF clear_tiled, Window, Edges

\* Tiled, tiled to the other side, or restored.
LEMMA TiledKeeps ==
  ASSUME outs \in Seq(Outputs), NEW w, Good(w), NEW edge \in Edges, NEW r,
         r = set_tiled(w, edge)
  PROVE  Keeps(w, r)
<1>1. w \in Window /\ w.tile_saved \in Rects
  BY DEF Good, Window
<1>2. CASE edge = "none" /\ w.tiled = "none"
  <2>1. r = w
    BY <1>2 DEF set_tiled
  <2> QED BY <2>1, SameKeeps
<1>3. CASE edge = "none" /\ w.tiled # "none"
  <2> DEFINE p == place(w, w.tile_saved)
  <2>1. /\ p \in Window /\ p.st = w.st /\ p.max = w.max /\ p.fs = w.fs /\ p.saved = w.saved
    BY <1>1, PlaceIs
  <2>2. r = clear_tiled(p)
    BY <1>3 DEF set_tiled
  <2> HIDE DEF p
  <2>3. /\ r \in Window /\ r.tiled = "none" /\ r.st = p.st
        /\ r.max = p.max /\ r.fs = p.fs /\ r.saved = p.saved
    BY <2>1, <2>2, ClearIs
  <2>4. Good(r)
    BY <2>1, <2>3 DEF Good
  <2>5. special(r) => overlap(w, r)
    BY <1>3, <2>3 DEF special, overlap
  <2> QED BY <2>1, <2>3, <2>4, <2>5 DEF Keeps
<1>4. CASE edge # "none"
  <2> DEFINE m == set_maximized(w, FALSE)
             f == set_fullscreen(m, FALSE, NONE)
             o == output_at(f.pos)
             p == place(f, TileRect(o, edge))
             v == tile_slot(f)
             q == [p EXCEPT !.tile_saved = v, !.tiled = edge]
  <2>1. r = IF o = NONE THEN f ELSE q
    BY <1>4 DEF set_tiled
  <2>2. /\ Good(m) /\ m.st = w.st /\ m.max = FALSE /\ m.tiled = w.tiled
        /\ m.tile_saved = w.tile_saved /\ Float(m) = Float(w)
    BY UnmaximizeIs
  <2> HIDE DEF m
  <2>3. /\ Good(f) /\ f.st = m.st /\ f.max = m.max /\ f.fs = FALSE /\ f.tiled = m.tiled
        /\ f.tile_saved = m.tile_saved /\ Float(f) = Float(m)
    BY <2>2, UnfullscreenIs
  <2> HIDE DEF f
  <2>4. f \in Window /\ f.pos \in Positions
    BY <2>3 DEF Good, Window
  <2>5. o \in Outputs \cup {NONE}
    BY <2>4, OutputAtIs
  <2> HIDE DEF o
  <2>6. v = Float(f)
    BY <2>2, <2>3 DEF Float, tile_slot
  <2>7. v \in Rects /\ v.size # "unset"
    BY <2>3, <2>6, FloatIs
  <2> HIDE DEF v
  <2>8. CASE o = NONE
    <3>1. r = f
      BY <2>1, <2>8
    <3> QED BY <2>2, <2>3, <3>1 DEF Keeps
  <2>9. CASE o # NONE
    <3>1. TileRect(o, edge) \in Rects
      BY <2>5, <2>9, TileIs
    <3>2. /\ p \in Window /\ p.st = f.st /\ p.max = f.max /\ p.fs = f.fs
      BY <2>4, <3>1, PlaceIs
    <3> HIDE DEF p
    <3>3. q \in Window
      BY <2>7, <3>2 DEF Window
    <3>4. q.tile_saved = v /\ q.tiled = edge /\ q.st = p.st /\ q.max = p.max /\ q.fs = p.fs
      BY <2>7, <3>2 DEF Window
    <3>5. r = q
      BY <2>1, <2>9
    <3> HIDE DEF q
    <3>6. Good(q)
      BY <2>2, <2>3, <2>7, <3>2, <3>3, <3>4 DEF Good
    <3>7. Float(q) = Float(w)
      BY <1>4, <2>2, <2>3, <2>6, <3>4 DEF Float
    <3> QED BY <2>2, <2>3, <3>2, <3>4, <3>5, <3>6, <3>7 DEF Keeps
  <2> QED BY <2>8, <2>9
<1> QED BY <1>2, <1>3, <1>4

\* A window that is in no special state before and after a step, or whose slots and states
\* are as before.
LEMMA MovedKeeps ==
  ASSUME NEW w, Good(w), NEW r \in Window, r.st = w.st, r.max = w.max, r.fs = w.fs,
         r.tiled = w.tiled, r.saved = w.saved, r.tile_saved = w.tile_saved
  PROVE  Keeps(w, r)
<1>1. Good(r)
  BY DEF Good
<1>2. special(r) => Float(r) = Float(w)
  BY DEF special, Float
<1> QED BY <1>1, <1>2 DEF Keeps
\* A rectangle is moved to a surviving output and keeps its size.
LEMMA RehomeRectIs ==
  ASSUME NEW r \in Rects, NEW o \in Outputs
  PROVE  rehome_rect(r, o) \in Rects /\ rehome_rect(r, o).size = r.size
<1>1. r.pos \in Positions /\ r.size \in Sizes \cup {"unset"}
  BY RectOf
<1>2. At(o, "work") \in Positions /\ At(o, "float") \in Positions
  BY AtIs DEF Spots
<1>3. rehome_pos(r, o) \in Positions
  BY <1>1, <1>2 DEF rehome_pos
<1> QED BY <1>1, <1>3, RectIs DEF rehome_rect

\* A window is moved to it with both of its slots.
LEMMA RehomeIs ==
  ASSUME NEW w, Good(w), NEW o \in Outputs, NEW r, r = rehome_toplevel(w, o)
  PROVE  /\ Good(r) /\ r.st = w.st /\ r.max = w.max /\ r.fs = w.fs /\ r.tiled = w.tiled
         /\ special(r) => Float(r) = rehome_rect(Float(w), o)
<1> DEFINE a == rehome_rect(w.saved, o)
           b == rehome_rect(w.tile_saved, o)
           q == [w EXCEPT !.saved = a, !.tile_saved = b]
<1>1. w \in Window /\ w.saved \in Rects /\ w.tile_saved \in Rects /\ w.pos \in Positions
      /\ w.tiled \in Edges
  BY DEF Good, Window
<1>2. /\ a \in Rects /\ a.size = w.saved.size /\ b \in Rects /\ b.size = w.tile_saved.size
  BY <1>1, RehomeRectIs
<1>3. rehome_saved(w, o) = q
  BY DEF rehome_saved
<1> HIDE DEF a, b
<1>4. q \in Window
  BY <1>1, <1>2 DEF Window
<1>5. /\ q.saved = a /\ q.tile_saved = b /\ q.st = w.st /\ q.max = w.max /\ q.fs = w.fs
      /\ q.tiled = w.tiled
  BY <1>1, <1>2 DEF Window
<1> HIDE DEF q
<1> DEFINE f == Rect(w.pos, seed_outer(w))
<1>6. /\ Rect(At(o, "work"), "work") \in Rects /\ TileRect(o, w.tiled) \in Rects
      /\ rehome_rect(f, o) \in Rects
  <2>1. At(o, "work") \in Positions /\ f \in Rects
    BY <1>1, AtIs, SeedIs, RectIs DEF Spots
  <2> HIDE DEF f
  <2> QED BY <1>1, <2>1, RectIs, TileIs, RehomeRectIs DEF Sizes
<1> HIDE DEF f
<1>7. /\ r \in Window /\ r.st = q.st /\ r.max = q.max /\ r.fs = q.fs
      /\ r.tiled = q.tiled /\ r.saved = q.saved /\ r.tile_saved = q.tile_saved
  <2>1. CASE w.fs
    <3>1. r = apply_fullscreen_geometry(q, o)
      BY <1>3, <2>1 DEF rehome_toplevel
    <3> QED BY <1>4, <3>1, FullscreenIs
  <2>2. CASE ~w.fs
    <3>1. PICK c \in Rects : r = place(q, c)
      BY <1>3, <1>6, <2>2 DEF rehome_toplevel, f
    <3> QED BY <1>4, <3>1, PlaceIs
  <2> QED BY <2>1, <2>2
<1>8. Good(r)
  BY <1>2, <1>5, <1>7 DEF Good
<1>9. special(r) => Float(r) = rehome_rect(Float(w), o)
  BY <1>5, <1>7 DEF special, Float, a, b
<1> QED BY <1>5, <1>7, <1>8, <1>9

-----------------------------------------------------------------------------
(* The steps                                                                *)

\* The variables that are neither windows nor outputs.
RestOK ==
    /\ drag \in Toplevels \cup {NONE}
    /\ ptr \in {"default", "move"}
    /\ pointer \in BOOLEAN /\ shell \in BOOLEAN /\ locked \in BOOLEAN
    /\ DragTargetLive

\* The windows, with their history.
WindowsOK ==
    /\ win \in [Toplevels -> Window]
    /\ \A t \in Toplevels : Good(win[t])
    /\ mixed \subseteq Toplevels
    /\ home \in [Toplevels -> Rects]
    /\ FloatKept

\* The list of outputs.
OutsOK ==
    outs \in Seq(Outputs)

\* GeometryKept, in three parts.
LEMMA InParts == GeometryKept <=> WindowsOK /\ RestOK /\ OutsOK
  BY DEF GeometryKept, TypeOK, WindowsOK, RestOK, OutsOK, Good

\* The history follows the windows.
LEMMA RememberOK ==
  ASSUME win' \in [Toplevels -> Window], \A t \in Toplevels : Good(win'[t]),
         NEW h \in [Toplevels -> Rects], Remember(h),
         \A t \in Toplevels : win'[t].st = "live" /\ special(win'[t]) /\ t \notin mixed'
                              => h[t] = Float(win'[t])
  PROVE  WindowsOK'
<1>1. mixed' \subseteq Toplevels
  BY DEF Remember
<1>2. ASSUME NEW t \in Toplevels
      PROVE  /\ home'[t] \in Rects
             /\ t \notin mixed' /\ win'[t].st = "live" => home'[t] = Float(win'[t])
  <2> DEFINE f == Rect(win'[t].pos, seed_outer(win'[t]))
  <2>1. home'[t] = IF t \in mixed' THEN NoRect ELSE IF special(win'[t]) THEN h[t] ELSE f
    BY DEF Remember
  <2>2. Good(win'[t]) /\ win'[t] \in Window /\ win'[t].pos \in Positions
    BY DEF Window
  <2>3. f \in Rects
    BY <2>2, SeedIs, RectIs
  <2>4. ~special(win'[t]) => Float(win'[t]) = f
    BY DEF special, Float
  <2> HIDE DEF f
  <2> QED BY <2>1, <2>3, <2>4, NoRectIs
<1>3. home' \in [Toplevels -> Rects]
  <2>1. home' = [t \in Toplevels |-> home'[t]]
    BY DEF Remember
  <2> QED BY <1>2, <2>1
<1> QED BY <1>1, <1>2, <1>3 DEF WindowsOK, FloatKept, live

\* One window changes.
LEMMA SetWindowOK ==
  ASSUME WindowsOK, NEW t \in Toplevels, NEW w, SetWindow(t, w), Good(w),
         Keeps(win[t], w) \/ ~special(w)
  PROVE  WindowsOK' /\ \A u \in Toplevels : u # t => win'[u] = win[u]
<1>1. w \in Window /\ win' = [win EXCEPT ![t] = w] /\ Remember(home)
  BY DEF Good, SetWindow
<1>2. win' \in [Toplevels -> Window] /\ win'[t] = w /\ \A u \in Toplevels : u # t => win'[u] = win[u]
  BY <1>1 DEF WindowsOK
<1>3. \A u \in Toplevels : Good(win'[u])
  BY <1>2 DEF WindowsOK
<1>4. ASSUME NEW u \in Toplevels, win'[u].st = "live", special(win'[u]), u \notin mixed'
      PROVE  home[u] = Float(win'[u])
  <2>1. u \notin mixed /\ ~overlap(win[u], win'[u])
    BY <1>1, <1>4 DEF Remember
  <2>2. CASE u # t
    BY <1>2, <1>4, <2>1, <2>2 DEF WindowsOK, FloatKept, live
  <2>3. CASE u = t
    <3>1. Keeps(win[t], w)
      BY <1>2, <1>4, <2>3
    <3>2. Float(w) = Float(win[t]) /\ win[t].st = "live"
      BY <1>2, <1>4, <2>1, <2>3, <3>1 DEF Keeps
    <3> QED BY <1>2, <2>1, <2>3, <3>2 DEF WindowsOK, FloatKept, live
  <2> QED BY <2>2, <2>3
<1>5. home \in [Toplevels -> Rects]
  BY DEF WindowsOK
<1> QED BY <1>1, <1>2, <1>3, <1>4, <1>5, RememberOK
\* A request that changes one live window and nothing else.
LEMMA RequestOK ==
  ASSUME WindowsOK, RestOK, NEW t \in Toplevels, NEW w, SetWindow(t, w), Keeps(win[t], w),
         UNCHANGED still
  PROVE  WindowsOK' /\ RestOK'
<1>1. Good(w) /\ w.st = win[t].st
  BY DEF Keeps
<1>2. WindowsOK' /\ \A u \in Toplevels : u # t => win'[u] = win[u]
  BY <1>1, SetWindowOK
<1>3. win'[t] = w
  BY DEF SetWindow, WindowsOK
<1>4. \A u \in Toplevels : win'[u].st = win[u].st
  BY <1>1, <1>2, <1>3
<1> QED BY <1>2, <1>4 DEF RestOK, DragTargetLive, live, still

\* The windows and their history are left alone.
LEMMA WindowsSame ==
  ASSUME WindowsOK, UNCHANGED <<win, home, mixed>>
  PROVE  WindowsOK'
  BY DEF WindowsOK, FloatKept, live

\* The record of a window that is created or gone.
LEMMA NewIs ==
  ASSUME NEW s \in {"live", "gone"}, NEW w, w = [NoWindow EXCEPT !.st = s]
  PROVE  Good(w) /\ ~special(w) /\ w.st = s
<1>1. NoWindow \in Window
  BY NoRectIs DEF NoWindow, Window, Edges
<1>2. w \in Window
  BY <1>1 DEF Window
<1>3. w.st = s /\ w.max = FALSE /\ w.fs = FALSE /\ w.tiled = "none"
  BY <1>1 DEF NoWindow
<1> QED BY <1>2, <1>3 DEF Good, special

\* The steps of the client.
LEMMA ClientOK ==
  ASSUME WindowsOK, RestOK, outs \in Seq(Outputs), ClientNext
  PROVE  WindowsOK' /\ RestOK' /\ outs' \in Seq(Outputs)
<1>0. \A t \in Toplevels : Good(win[t]) /\ win[t] \in Window
  BY DEF WindowsOK
<1>1. ASSUME NEW t \in Toplevels, qdwin_surface_added(t)
      PROVE  WindowsOK' /\ RestOK' /\ outs' \in Seq(Outputs)
  <2> DEFINE w == [NoWindow EXCEPT !.st = "live"]
  <2>1. Good(w) /\ ~special(w) /\ w.st = "live"
    BY NewIs
  <2>2. win[t].st = "none" /\ SetWindow(t, w) /\ UNCHANGED still
    BY <1>1 DEF qdwin_surface_added
  <2> HIDE DEF w
  <2>3. WindowsOK' /\ \A u \in Toplevels : u # t => win'[u] = win[u]
    BY <2>1, <2>2, SetWindowOK
  <2>4. drag # t
    BY <2>2, WindowConstants DEF RestOK, DragTargetLive, live
  <2> QED BY <2>2, <2>3, <2>4 DEF still, RestOK, DragTargetLive, live
<1>2. ASSUME NEW t \in Toplevels, qdwin_surface_removed(t)
      PROVE  WindowsOK' /\ RestOK' /\ outs' \in Seq(Outputs)
  <2> DEFINE w == [NoWindow EXCEPT !.st = "gone"]
  <2>1. Good(w) /\ w.st = "gone"
    BY NewIs
  <2>2. /\ win' = [win EXCEPT ![t] = w] /\ end_grab_for(t) /\ home' = [home EXCEPT ![t] = NoRect]
        /\ mixed' = mixed \ {t} /\ UNCHANGED <<outs, pointer, shell, locked>>
    BY <1>2 DEF qdwin_surface_removed
  <2> HIDE DEF w
  <2>3. w \in Window
    BY <2>1 DEF Good
  <2>4. /\ win' \in [Toplevels -> Window] /\ win'[t] = w
        /\ \A u \in Toplevels : u # t => win'[u] = win[u]
    BY <2>2, <2>3 DEF WindowsOK
  <2>5. /\ home' \in [Toplevels -> Rects] /\ \A u \in Toplevels : u # t => home'[u] = home[u]
        /\ mixed' \subseteq Toplevels
    BY <2>2, NoRectIs DEF WindowsOK
  <2>6. WindowsOK'
    BY <2>1, <2>2, <2>4, <2>5 DEF WindowsOK, FloatKept, live
  <2>7. drag' \in Toplevels \cup {NONE} /\ ptr' \in {"default", "move"} /\ drag' # t
        /\ (drag' # NONE => drag' = drag)
    BY <2>2, WindowConstants DEF end_grab_for, RestOK
  <2> QED BY <2>2, <2>4, <2>6, <2>7 DEF RestOK, DragTargetLive, live
<1>3. ASSUME NEW t \in Toplevels, NEW s \in {"app", "work"}, qdwin_surface_committed(t, s)
      PROVE  WindowsOK' /\ RestOK' /\ outs' \in Seq(Outputs)
  <2> DEFINE x == IF special(win[t]) THEN win[t].outer ELSE s
             w1 == [win[t] EXCEPT !.mapped = TRUE, !.outer = x]
             o == qdwin_primary_output
             w2 == [w1 EXCEPT !.pos = At(o, "float")]
             w == IF win[t].mapped \/ o = NONE THEN w1
                  ELSE IF win[t].fs THEN apply_fullscreen_geometry(w1, o) ELSE w2
  <2>1. SetWindow(t, w) /\ UNCHANGED still
    BY <1>3 DEF qdwin_surface_committed
  <2>2. x \in Sizes \cup {"unset"}
    BY <1>0 DEF Window, Sizes
  <2> HIDE DEF x
  <2>3. w1 \in Window
    BY <1>0, <2>2 DEF Window
  <2>4. /\ w1.st = win[t].st /\ w1.max = win[t].max /\ w1.fs = win[t].fs /\ w1.tiled = win[t].tiled
        /\ w1.saved = win[t].saved /\ w1.tile_saved = win[t].tile_saved
    BY <1>0, <2>2 DEF Window
  <2> HIDE DEF w1
  <2>5. o \in Outputs \cup {NONE} /\ At(o, "float") \in Positions
    BY PrimaryIs, AtIs DEF Spots
  <2>6. w2 \in Window
    BY <2>3, <2>5 DEF Window
  <2>7. /\ w2.st = w1.st /\ w2.max = w1.max /\ w2.fs = w1.fs /\ w2.tiled = w1.tiled
        /\ w2.saved = w1.saved /\ w2.tile_saved = w1.tile_saved
    BY <2>3, <2>5 DEF Window
  <2> HIDE DEF o, w2
  <2> DEFINE g == apply_fullscreen_geometry(w1, o)
  <2>8. /\ g \in Window /\ g.st = w1.st /\ g.max = w1.max /\ g.fs = w1.fs /\ g.tiled = w1.tiled
        /\ g.saved = w1.saved /\ g.tile_saved = w1.tile_saved
    BY <2>3, <2>5, FullscreenIs
  <2>9. w \in {w1, w2, g}
    OBVIOUS
  <2> HIDE DEF g, w
  <2>10. /\ w \in Window /\ w.st = win[t].st /\ w.max = win[t].max /\ w.fs = win[t].fs
         /\ w.tiled = win[t].tiled /\ w.saved = win[t].saved /\ w.tile_saved = win[t].tile_saved
    BY <2>3, <2>4, <2>6, <2>7, <2>8, <2>9
  <2>11. Keeps(win[t], w)
    BY <1>0, <2>10, MovedKeeps
  <2> QED BY <2>1, <2>11, RequestOK DEF still
<1>4. ASSUME NEW t \in Toplevels, NEW on \in BOOLEAN, qdwin_surface_maximized_requested(t, on)
      PROVE  WindowsOK' /\ RestOK' /\ outs' \in Seq(Outputs)
  <2> DEFINE w == set_maximized(win[t], on)
  <2>1. Keeps(win[t], w)
    BY <1>0, MaximizeKeeps
  <2>2. SetWindow(t, w) /\ UNCHANGED still
    BY <1>4 DEF qdwin_surface_maximized_requested
  <2> HIDE DEF w
  <2> QED BY <2>1, <2>2, RequestOK DEF still
<1>5. ASSUME NEW t \in Toplevels, NEW on \in BOOLEAN, NEW o \in Outputs \cup {NONE},
             qdwin_surface_fullscreen_requested(t, on, o)
      PROVE  WindowsOK' /\ RestOK' /\ outs' \in Seq(Outputs)
  <2> DEFINE w == set_fullscreen(win[t], on, o)
  <2>1. Keeps(win[t], w)
    BY <1>0, FullscreenKeeps
  <2>2. SetWindow(t, w) /\ UNCHANGED still
    BY <1>5 DEF qdwin_surface_fullscreen_requested
  <2> HIDE DEF w
  <2> QED BY <2>1, <2>2, RequestOK DEF still
<1> QED BY <1>1, <1>2, <1>3, <1>4, <1>5 DEF ClientNext
\* A window is put on an output, where it floats if it is in no special state.
LEMMA PutKeeps ==
  ASSUME NEW w, Good(w), NEW o \in Outputs, NEW r, r = [w EXCEPT !.pos = At(o, "float")]
  PROVE  Keeps(w, r)
<1>1. w \in Window /\ At(o, "float") \in Positions
  BY AtIs DEF Good, Spots
<1>2. r \in Window
  BY <1>1 DEF Window
<1>3. /\ r.st = w.st /\ r.max = w.max /\ r.fs = w.fs
      /\ r.tiled = w.tiled /\ r.saved = w.saved /\ r.tile_saved = w.tile_saved
  BY <1>1 DEF Window
<1> QED BY <1>2, <1>3, MovedKeeps

\* An output goes: the windows on it move to the survivor with their slots, and so does
\* the rectangle each of them last floated in.
LEMMA BoundaryOK ==
  ASSUME WindowsOK, RestOK, outs \in Seq(Outputs), NEW o \in Outputs, NEW at_zero \in BOOLEAN,
         qdwin_on_output_destroyed(o, at_zero)
  PROVE  WindowsOK' /\ RestOK' /\ outs' \in Seq(Outputs)
<1> DEFINE i == CHOOSE i \in DOMAIN outs : outs[i] = o
           rest == Without(i)
           hit == IF rest = <<>> THEN {} ELSE {t \in Toplevels : OnOutput(t, o, at_zero)}
           h == [t \in Toplevels |-> IF t \in hit THEN rehome_rect(home[t], Head(rest)) ELSE home[t]]
<1>1. /\ listed(o) /\ outs' = rest /\ boundary_ends_grab
      /\ win' = [t \in Toplevels |-> IF t \in hit THEN rehome_toplevel(win[t], Head(rest)) ELSE win[t]]
      /\ UNCHANGED <<pointer, shell, locked>> /\ Remember(h)
  BY DEF qdwin_on_output_destroyed
<1>2. i \in 1 .. Len(outs)
  <2>1. \E j \in DOMAIN outs : outs[j] = o
    BY <1>1 DEF listed
  <2>2. i \in DOMAIN outs
    BY <2>1
  <2> QED BY <2>2
<1> HIDE DEF i
<1>3. rest \in Seq(Outputs)
  <2>1. SubSeq(outs, 1, i - 1) \in Seq(Outputs) /\ SubSeq(outs, i + 1, Len(outs)) \in Seq(Outputs)
    BY <1>2
  <2> QED BY <2>1 DEF Without
<1>4. hit # {} => Head(rest) \in Outputs
  <2> HIDE DEF rest
  <2> QED BY <1>3
<1>5. hit \subseteq Toplevels
  OBVIOUS
<1> HIDE DEF hit, rest
<1>6. ASSUME NEW t \in Toplevels
      PROVE  /\ Good(win'[t]) /\ win'[t].st = win[t].st
             /\ t \notin hit => win'[t] = win[t]
             /\ t \in hit /\ special(win'[t])
                  => Float(win'[t]) = rehome_rect(Float(win[t]), Head(rest))
  <2>1. Good(win[t])
    BY DEF WindowsOK
  <2>2. CASE t \in hit
    <3>1. win'[t] = rehome_toplevel(win[t], Head(rest)) /\ Head(rest) \in Outputs
      BY <1>1, <1>4, <2>2
    <3> QED BY <2>1, <2>2, <3>1, RehomeIs, ZenonT(60)
  <2>3. CASE t \notin hit
    BY <1>1, <2>1, <2>3
  <2> QED BY <2>2, <2>3
<1>7. win' \in [Toplevels -> Window]
  <2>1. win' = [t \in Toplevels |-> win'[t]]
    BY <1>1
  <2>2. \A t \in Toplevels : win'[t] \in Window
    BY <1>6 DEF Good
  <2> QED BY <2>1, <2>2
<1>8. h \in [Toplevels -> Rects]
  <2>1. ASSUME NEW t \in Toplevels
        PROVE  (IF t \in hit THEN rehome_rect(home[t], Head(rest)) ELSE home[t]) \in Rects
    <3>1. home[t] \in Rects
      BY DEF WindowsOK
    <3> QED BY <1>4, <3>1, RehomeRectIs
  <2> QED BY <2>1
<1>9. ASSUME NEW t \in Toplevels, win'[t].st = "live", special(win'[t]), t \notin mixed'
      PROVE  h[t] = Float(win'[t])
  <2>1. t \notin mixed
    BY <1>1, <1>9 DEF Remember
  <2>2. home[t] = Float(win[t])
    BY <1>6, <1>9, <2>1 DEF WindowsOK, FloatKept, live
  <2> QED BY <1>6, <1>9, <2>2
<1> HIDE DEF h
<1>10. WindowsOK'
  BY <1>1, <1>6, <1>7, <1>8, <1>9, RememberOK
<1>11. drag' = NONE /\ ptr' \in {"default", "move"}
  BY <1>1 DEF boundary_ends_grab, RestOK
<1> QED BY <1>1, <1>3, <1>10, <1>11 DEF RestOK, DragTargetLive

\* The requests of the shell, and its coming and going.
LEMMA ShellOK ==
  ASSUME WindowsOK, RestOK, outs \in Seq(Outputs), ShellNext
  PROVE  WindowsOK' /\ RestOK' /\ outs' \in Seq(Outputs)
<1>0. \A t \in Toplevels : Good(win[t]) /\ win[t] \in Window
  BY DEF WindowsOK
<1>1. CASE qdwin_handle_bind_as_shell
  <2>1. WindowsOK'
    BY <1>1, WindowsSame DEF qdwin_handle_bind_as_shell
  <2> QED BY <1>1, <2>1 DEF qdwin_handle_bind_as_shell, RestOK, DragTargetLive, live
<1>2. CASE qdwin_shell_resource_destroy
  <2>1. WindowsOK'
    BY <1>2, WindowsSame DEF qdwin_shell_resource_destroy
  <2>2. drag' = NONE /\ ptr' \in {"default", "move"}
    BY <1>2 DEF qdwin_shell_resource_destroy, unbind_ends_drag, RestOK
  <2> QED BY <1>2, <2>1, <2>2 DEF qdwin_shell_resource_destroy, RestOK, DragTargetLive
<1>3. ASSUME NEW t \in Toplevels, NEW on \in BOOLEAN, qdwin_handle_request_maximize(t, on)
      PROVE  WindowsOK' /\ RestOK' /\ outs' \in Seq(Outputs)
  <2> DEFINE w == set_maximized(win[t], on)
  <2>1. Keeps(win[t], w)
    BY <1>0, MaximizeKeeps
  <2>2. SetWindow(t, w) /\ UNCHANGED still
    BY <1>3 DEF qdwin_handle_request_maximize
  <2> HIDE DEF w
  <2> QED BY <2>1, <2>2, RequestOK DEF still
<1>4. ASSUME NEW t \in Toplevels, NEW on \in BOOLEAN, qdwin_handle_request_fullscreen(t, on)
      PROVE  WindowsOK' /\ RestOK' /\ outs' \in Seq(Outputs)
  <2> DEFINE w == set_fullscreen(win[t], on, NONE)
  <2>1. Keeps(win[t], w)
    BY <1>0, FullscreenKeeps
  <2>2. SetWindow(t, w) /\ UNCHANGED still
    BY <1>4 DEF qdwin_handle_request_fullscreen
  <2> HIDE DEF w
  <2> QED BY <2>1, <2>2, RequestOK DEF still
<1>5. ASSUME NEW t \in Toplevels, NEW edge \in Edges, qdwin_handle_request_tile(t, edge)
      PROVE  WindowsOK' /\ RestOK' /\ outs' \in Seq(Outputs)
  <2> DEFINE w == set_tiled(win[t], edge)
  <2>1. Keeps(win[t], w)
    BY <1>0, TiledKeeps
  <2>2. SetWindow(t, w) /\ UNCHANGED still
    BY <1>5 DEF qdwin_handle_request_tile
  <2> HIDE DEF w
  <2> QED BY <2>1, <2>2, RequestOK DEF still
<1>6. ASSUME NEW t \in Toplevels, NEW o \in Outputs, qdwin_handle_request_set_position(t, o)
      PROVE  WindowsOK' /\ RestOK' /\ outs' \in Seq(Outputs)
  <2> DEFINE w == [win[t] EXCEPT !.pos = At(o, "float")]
  <2>1. Keeps(win[t], w)
    BY <1>0, PutKeeps
  <2>2. SetWindow(t, w) /\ UNCHANGED still
    BY <1>6 DEF qdwin_handle_request_set_position
  <2> HIDE DEF w
  <2> QED BY <2>1, <2>2, RequestOK DEF still
<1>7. ASSUME NEW t \in Toplevels, qdwin_handle_begin_interactive_move(t)
      PROVE  WindowsOK' /\ RestOK' /\ outs' \in Seq(Outputs)
  <2> DEFINE w == clear_tiled(win[t])
  <2>1. /\ shell /\ win[t].st = "live" /\ ~win[t].max /\ ~win[t].fs /\ SetWindow(t, w)
        /\ drag' = (IF pointer THEN t ELSE NONE) /\ ptr' = (IF pointer THEN "move" ELSE ptr)
        /\ UNCHANGED <<outs, pointer, shell, locked>>
    BY <1>7 DEF qdwin_handle_begin_interactive_move, shell_may, live
  <2>2. /\ w \in Window /\ w.tiled = "none" /\ w.st = win[t].st /\ w.max = win[t].max
        /\ w.fs = win[t].fs
    BY <1>0, ClearIs
  <2> HIDE DEF w
  <2>3. Good(w) /\ ~special(w)
    BY <2>1, <2>2 DEF Good, special
  <2>4. WindowsOK'
    BY <2>1, <2>3, SetWindowOK
  <2>5. win'[t] = w
    BY <2>1 DEF SetWindow, WindowsOK
  <2> QED BY <2>1, <2>2, <2>4, <2>5 DEF RestOK, DragTargetLive, live
<1> QED BY <1>1, <1>2, <1>3, <1>4, <1>5, <1>6, <1>7 DEF ShellNext

\* The pointer, the outputs and the lock.
LEMMA OtherOK ==
  ASSUME WindowsOK, RestOK, outs \in Seq(Outputs), OtherNext
  PROVE  WindowsOK' /\ RestOK' /\ outs' \in Seq(Outputs)
<1>0. \A t \in Toplevels : Good(win[t]) /\ win[t] \in Window
  BY DEF WindowsOK
<1>1. ASSUME NEW o \in Outputs, qdwin_move_grab_motion(o)
      PROVE  WindowsOK' /\ RestOK' /\ outs' \in Seq(Outputs)
  <2> DEFINE w == [win[drag] EXCEPT !.pos = At(o, "float")]
  <2>1. drag \in Toplevels /\ SetWindow(drag, w) /\ UNCHANGED still
    BY <1>1 DEF qdwin_move_grab_motion, RestOK
  <2>2. Keeps(win[drag], w)
    BY <1>0, <2>1, PutKeeps
  <2> HIDE DEF w
  <2>3. \A t \in Toplevels : drag = t => WindowsOK' /\ RestOK'
    BY <2>1, <2>2, RequestOK
  <2> QED BY <2>1, <2>3 DEF still
<1>2. ASSUME NEW o \in Outputs, qdwin_on_output_changed(o)
      PROVE  WindowsOK' /\ RestOK' /\ outs' \in Seq(Outputs)
  <2>1. WindowsOK'
    BY <1>2, WindowsSame DEF qdwin_on_output_changed
  <2>2. outs' \in Seq(Outputs)
    BY <1>2 DEF qdwin_on_output_changed
  <2> QED BY <1>2, <2>1, <2>2 DEF qdwin_on_output_changed, RestOK, DragTargetLive, live
<1>3. ASSUME NEW o \in Outputs, NEW at_zero \in BOOLEAN, qdwin_on_output_destroyed(o, at_zero)
      PROVE  WindowsOK' /\ RestOK' /\ outs' \in Seq(Outputs)
  BY <1>3, BoundaryOK
<1>4. CASE qdwin_move_grab_button
  <2>1. WindowsOK'
    BY <1>4, WindowsSame DEF qdwin_move_grab_button
  <2> QED BY <1>4, <2>1 DEF qdwin_move_grab_button, RestOK, DragTargetLive
<1>5. CASE PointerHotplug
  <2>1. WindowsOK'
    BY <1>5, WindowsSame DEF PointerHotplug
  <2>2. drag' \in {drag, NONE} /\ pointer' \in BOOLEAN
    BY <1>5 DEF PointerHotplug
  <2> QED BY <1>5, <2>1, <2>2 DEF PointerHotplug, RestOK, DragTargetLive, live
<1>6. CASE LockChanges
  <2>1. WindowsOK'
    BY <1>6, WindowsSame DEF LockChanges
  <2>2. locked' \in BOOLEAN
    BY <1>6 DEF LockChanges
  <2> QED BY <1>6, <2>1, <2>2 DEF LockChanges, RestOK, DragTargetLive, live
<1> QED BY <1>1, <1>2, <1>3, <1>4, <1>5, <1>6 DEF OtherNext

-----------------------------------------------------------------------------
(* The theorem                                                              *)

\* A window keeps the place it will be restored to, through any sequence of requests of
\* client and shell and any outputs that come and go, and the one being dragged is alive;
\* for any windows and outputs (qdwin_toplevel_set_tiled, qdwin_toplevel_set_maximized,
\* qdwin_output_boundary_rehome_toplevel, qdwin_move_grab_end_for).
THEOREM SpecGeometryKept == Spec => []GeometryKept
<1>1. Init => GeometryKept
  <2> SUFFICES ASSUME Init PROVE GeometryKept
    OBVIOUS
  <2>1. Good(NoWindow) /\ NoWindow \in Window /\ NoWindow.st = "none"
    <3>1. NoWindow \in Window
      BY NoRectIs DEF NoWindow, Window, Edges
    <3>2. NoWindow.max = FALSE /\ NoWindow.fs = FALSE /\ NoWindow.tiled = "none"
          /\ NoWindow.st = "none"
      BY DEF NoWindow
    <3> QED BY <3>1, <3>2 DEF Good
  <2>2. WindowsOK
    <3>1. win \in [Toplevels -> Window] /\ home \in [Toplevels -> Rects] /\ mixed \subseteq Toplevels
      BY <2>1, NoRectIs DEF Init
    <3>2. \A t \in Toplevels : win[t] = NoWindow
      BY DEF Init
    <3> QED BY <2>1, <3>1, <3>2 DEF WindowsOK, FloatKept, live
  <2>3. RestOK
    BY DEF Init, RestOK, DragTargetLive
  <2>4. OutsOK
    BY DEF Init, OutsOK
  <2> QED BY <2>2, <2>3, <2>4, InParts
<1>2. GeometryKept /\ [Next]_vars => GeometryKept'
  <2> SUFFICES ASSUME GeometryKept, [Next]_vars PROVE GeometryKept'
    OBVIOUS
  <2>1. WindowsOK /\ RestOK /\ outs \in Seq(Outputs)
    BY InParts DEF OutsOK
  <2>2. WindowsOK' /\ RestOK' /\ outs' \in Seq(Outputs)
    <3>1. CASE UNCHANGED vars
      <4>1. WindowsOK'
        BY <2>1, <3>1, WindowsSame DEF vars
      <4> QED BY <2>1, <3>1, <4>1 DEF vars, RestOK, DragTargetLive, live
    <3>2. CASE Next
      BY <2>1, <3>2, ClientOK, ShellOK, OtherOK DEF Next
    <3> QED BY <3>1, <3>2
  <2>3. WindowsOK' /\ RestOK' /\ OutsOK'
    BY <2>2 DEF OutsOK
  <2> QED BY <2>3, InParts, PTL
<1> QED BY <1>1, <1>2, PTL DEF Spec
=============================================================================
