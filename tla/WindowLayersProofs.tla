------------------------- MODULE WindowLayersProofs -------------------------
(***************************************************************************)
(* Layers and focus for any windows and any number of workspaces.          *)
(* LayersRight is inductive; its parts about the windows, the list of       *)
(* toplevels and the focus are preserved separately, since an action that   *)
(* touches one of them mostly leaves the others alone.                      *)
(***************************************************************************)
EXTENDS WindowLayers, WellFoundedInduction, TLAPS

\* What is in a visible layer is painted, unless the screen is locked.
Painted(w, l) ==
    ~ l => /\ w.view.layer = "normal" => w.view.mapped
           /\ w.chrome.layer = "normal" => w.chrome.mapped

WindowsOK ==
    /\ win \in [Toplevels -> Window]
    /\ active \in Indices /\ count \in 1 .. MaxWorkspaces
    /\ locked \in BOOLEAN
    /\ astray \subseteq Toplevels
    /\ active < count
    /\ \A t \in Toplevels : /\ win[t].ws < count
                            /\ win[t].live /\ t \notin astray => InItsLayer(win[t], active)
                            /\ Painted(win[t], locked)

ListOK == tops \in Seq(Toplevels) /\ ListIsLive

FocusOK == focus \in Toplevels \cup {NONE} /\ idle \in BOOLEAN

\* The invariant is these three together.
LEMMA InParts == LayersRight <=> WindowsOK /\ ListOK /\ FocusOK
<1>1. (ShownIffItShould /\ ChromeFollows)
      <=> \A t \in Toplevels : win[t].live /\ t \notin astray => InItsLayer(win[t], active)
  BY DEF ShownIffItShould, ChromeFollows, InItsLayer, live
<1>2. UnlockPaints <=> \A t \in Toplevels : Painted(win[t], locked)
  BY DEF UnlockPaints, Painted
<1> QED BY <1>1, <1>2 DEF LayersRight, TypeOK, WorkspacesExist, WindowsOK, ListOK, FocusOK

-----------------------------------------------------------------------------
(* The list of toplevels                                                    *)

\* A set of numbers that is not empty has a least one.
LEMMA Least ==
  ASSUME NEW S \in SUBSET Nat, S # {}
  PROVE  \E i \in S : \A j \in S : i <= j
<1> DEFINE R == {ss \in Nat \X Nat : ss[1] < ss[2]}
<1>1. IsWellFoundedOn(R, Nat)
  BY NatLessThanWellFounded DEF OpToRel
<1>2. \E x \in S : \A y \in S : ~ (<<y, x>> \in R)
  <2> HIDE DEF R
  <2> QED BY <1>1, WFMin, Zenon
<1>3. PICK i \in S : \A y \in S : ~ (<<y, i>> \in R)
  BY <1>2
<1>4. \A y \in S : ~(y < i)
  BY <1>3
<1> QED BY <1>4

\* The walk of the list finds a visible window if the list has one
\* (qdwin_workspace_refocus_seats, qdwin_seat_focus_recover_idle_cb).
LEMMA FirstVisibleIs ==
  ASSUME tops \in Seq(Toplevels), NEW W, NEW a, NEW f, f = first_visible(W, a)
  PROVE  /\ f \in Toplevels \cup {NONE}
         /\ f # NONE => is_visible(W, f, a)
         /\ f = NONE => \A i \in DOMAIN tops : ~ is_visible(W, tops[i], a)
<1> DEFINE seen == {i \in DOMAIN tops : is_visible(W, tops[i], a)}
<1>1. DOMAIN tops = 1 .. Len(tops) /\ Len(tops) \in Nat
      /\ \A i \in DOMAIN tops : tops[i] \in Toplevels
  OBVIOUS
<1>2. seen \in SUBSET Nat
  BY <1>1
<1>3. f = IF seen = {} THEN NONE ELSE tops[CHOOSE i \in seen : \A j \in seen : i <= j]
  BY DEF first_visible
<1>4. CASE seen = {}
  BY <1>3, <1>4
<1>5. CASE seen # {}
  <2> DEFINE i == CHOOSE n \in seen : \A j \in seen : n <= j
  <2>1. i \in seen
    <3> HIDE DEF seen
    <3>1. \E n \in seen : \A j \in seen : n <= j
      BY <1>2, <1>5, Least
    <3> QED BY <3>1
  <2>2. f = tops[i]
    BY <1>3, <1>5
  <2>3. f \in Toplevels /\ is_visible(W, f, a)
    <3> HIDE DEF i
    <3> QED BY <1>1, <2>1, <2>2
  <2> QED BY <2>3, LayerConstants
<1> QED BY <1>4, <1>5

\* A window that comes is put in front of the list (qdwin_surface_added).
LEMMA LinkOK ==
  ASSUME ListOK, NEW t \in Toplevels, ~ win[t].live, tops' = <<t>> \o tops,
         \A u \in Toplevels : win'[u].live <=> (win[u].live \/ u = t)
  PROVE  ListOK'
<1>1. tops \in Seq(Toplevels) /\ Len(tops) \in Nat /\ DOMAIN tops = 1 .. Len(tops)
  BY DEF ListOK
<1>2. tops' \in Seq(Toplevels)
  BY <1>1
<1>3. Len(tops') = Len(tops) + 1 /\ DOMAIN tops' = 1 .. Len(tops) + 1
  BY <1>1
<1>4. tops'[1] = t /\ \A i \in 2 .. Len(tops) + 1 : tops'[i] = tops[i - 1]
  BY <1>1
<1>5. \A i \in DOMAIN tops : tops[i] # t
  BY DEF ListOK, ListIsLive, Contains, Once, live
<1>6. \A u \in Toplevels : win'[u].live <=> \E i \in DOMAIN tops' : tops'[i] = u
  <2> SUFFICES ASSUME NEW u \in Toplevels
               PROVE  win'[u].live <=> \E i \in DOMAIN tops' : tops'[i] = u
    OBVIOUS
  <2>1. win[u].live <=> \E i \in DOMAIN tops : tops[i] = u
    BY DEF ListOK, ListIsLive, Contains, Once, live
  <2>2. ASSUME NEW i \in DOMAIN tops, tops[i] = u PROVE \E j \in DOMAIN tops' : tops'[j] = u
    <3>1. i + 1 \in DOMAIN tops' /\ tops'[i + 1] = u
      BY <1>1, <1>3, <1>4, <2>2
    <3> QED BY <3>1
  <2>3. ASSUME NEW j \in DOMAIN tops', tops'[j] = u, u # t PROVE \E i \in DOMAIN tops : tops[i] = u
    <3>1. j - 1 \in DOMAIN tops /\ tops[j - 1] = u
      BY <1>1, <1>3, <1>4, <2>3
    <3> QED BY <3>1
  <2>4. 1 \in DOMAIN tops' /\ tops'[1] = t
    BY <1>1, <1>3, <1>4
  <2> QED BY <2>1, <2>2, <2>3, <2>4
<1>7. \A i, j \in DOMAIN tops' : tops'[i] = tops'[j] => i = j
  <2>1. \A i, j \in DOMAIN tops : tops[i] = tops[j] => i = j
    BY DEF ListOK, ListIsLive, Once
  <2> SUFFICES ASSUME NEW i \in DOMAIN tops', NEW j \in DOMAIN tops', tops'[i] = tops'[j], i # j
               PROVE  FALSE
    OBVIOUS
  <2>2. i \in 1 .. Len(tops) + 1 /\ j \in 1 .. Len(tops) + 1
    BY <1>3
  <2>3. i # 1 => i - 1 \in DOMAIN tops /\ tops'[i] = tops[i - 1]
    BY <1>1, <1>4, <2>2
  <2>4. j # 1 => j - 1 \in DOMAIN tops /\ tops'[j] = tops[j - 1]
    BY <1>1, <1>4, <2>2
  <2>5. CASE i = 1 \/ j = 1
    BY <1>4, <1>5, <2>3, <2>4, <2>5
  <2>6. CASE i # 1 /\ j # 1
    <3>1. i - 1 = j - 1
      BY <2>1, <2>3, <2>4, <2>6
    <3> QED BY <2>2, <3>1
  <2> QED BY <2>5, <2>6
<1> QED BY <1>2, <1>6, <1>7 DEF ListOK, ListIsLive, Contains, Once, live

\* A part of a list, from its m-th element to its n-th.
LEMMA SubSeqIs ==
  ASSUME NEW S, NEW s \in Seq(S), NEW m \in 1 .. Len(s) + 1, NEW n \in m - 1 .. Len(s)
  PROVE  /\ SubSeq(s, m, n) \in Seq(S)
         /\ Len(SubSeq(s, m, n)) = n + 1 - m
         /\ \A i \in 1 .. n + 1 - m : SubSeq(s, m, n)[i] = s[m + i - 1]
<1>1. Len(s) \in Nat /\ m \in Nat /\ n \in Nat /\ m <= n + 1
  OBVIOUS
<1>2. Len(SubSeq(s, m, n)) = n + 1 - m
  BY <1>1
<1>3. \A i \in 1 .. n + 1 - m : SubSeq(s, m, n)[i] = s[m + i - 1]
  BY <1>1
<1>4. SubSeq(s, m, n) \in Seq(S)
  BY <1>1
<1> QED BY <1>2, <1>3, <1>4

\* Two lists one after the other.
LEMMA ConcatIs ==
  ASSUME NEW S, NEW p \in Seq(S), NEW q \in Seq(S), NEW r, r = p \o q
  PROVE  /\ r \in Seq(S) /\ Len(r) = Len(p) + Len(q)
         /\ \A i \in 1 .. Len(p) : r[i] = p[i]
         /\ \A i \in Len(p) + 1 .. Len(p) + Len(q) : r[i] = q[i - Len(p)]
  OBVIOUS

\* r is list s without its k-th element.
Shorter(r, s, k, S) ==
    /\ r \in Seq(S) /\ Len(r) = Len(s) - 1 /\ DOMAIN r = 1 .. Len(s) - 1
    /\ \A i \in 1 .. Len(s) - 1 : r[i] = IF i < k THEN s[i] ELSE s[i + 1]

\* What is left of a list when its k-th link is removed (wl_list_remove).
LEMMA WithoutIs ==
  ASSUME NEW S, NEW s \in Seq(S), NEW k \in 1 .. Len(s), NEW r, r = Without(s, k)
  PROVE  Shorter(r, s, k, S)
<1>1. Len(s) \in Nat /\ k \in Nat /\ 1 <= k /\ k <= Len(s)
  OBVIOUS
<1>2. PICK p : p = SubSeq(s, 1, k - 1)
  OBVIOUS
<1>3. PICK q : q = SubSeq(s, k + 1, Len(s))
  OBVIOUS
<1>4. p \in Seq(S) /\ Len(p) = k - 1 /\ \A i \in 1 .. k - 1 : p[i] = s[i]
  BY <1>1, <1>2, SubSeqIs
<1>5. q \in Seq(S) /\ Len(q) = Len(s) - k /\ \A i \in 1 .. Len(s) - k : q[i] = s[k + i]
  <2>1. k + 1 \in 1 .. Len(s) + 1 /\ Len(s) \in (k + 1) - 1 .. Len(s)
    BY <1>1
  <2>2. /\ q \in Seq(S) /\ Len(q) = Len(s) + 1 - (k + 1)
        /\ \A i \in 1 .. Len(s) + 1 - (k + 1) : q[i] = s[(k + 1) + i - 1]
    BY <1>3, <2>1, SubSeqIs
  <2>3. Len(s) + 1 - (k + 1) = Len(s) - k
    BY <1>1
  <2>4. \A i \in 1 .. Len(s) - k : (k + 1) + i - 1 = k + i
    BY <1>1
  <2> QED BY <2>2, <2>3, <2>4
<1>6. /\ r \in Seq(S) /\ Len(r) = Len(p) + Len(q)
      /\ \A i \in 1 .. Len(p) : r[i] = p[i]
      /\ \A i \in Len(p) + 1 .. Len(p) + Len(q) : r[i] = q[i - Len(p)]
  <2>1. r = p \o q
    BY <1>2, <1>3, Zenon DEF Without
  <2>2. p \in Seq(S) /\ q \in Seq(S)
    BY <1>4, <1>5
  <2> QED BY <2>1, <2>2, ConcatIs, SMTT(30)
<1>7. r \in Seq(S) /\ Len(r) = Len(s) - 1
  BY <1>1, <1>4, <1>5, <1>6
<1>8. DOMAIN r = 1 .. Len(s) - 1
  BY <1>7
<1>9. ASSUME NEW i \in 1 .. Len(s) - 1
      PROVE  r[i] = IF i < k THEN s[i] ELSE s[i + 1]
  <2>1. CASE i < k
    <3>1. i \in 1 .. Len(p) /\ i \in 1 .. k - 1
      BY <1>1, <1>4, <2>1
    <3> QED BY <1>4, <1>6, <2>1, <3>1
  <2>2. CASE ~(i < k)
    <3>1. i \in Len(p) + 1 .. Len(p) + Len(q) /\ i - Len(p) \in 1 .. Len(s) - k
          /\ k + (i - Len(p)) = i + 1
      BY <1>1, <1>4, <1>5, <2>2
    <3>2. r[i] = q[i - Len(p)]
      BY <1>6, <3>1
    <3>3. q[i - Len(p)] = s[k + (i - Len(p))]
      BY <1>5, <3>1
    <3> QED BY <2>2, <3>1, <3>2, <3>3
  <2> QED BY <2>1, <2>2
<1> QED BY <1>7, <1>8, <1>9 DEF Shorter

\* A window that goes is taken out of it (qdwin_surface_removed).
LEMMA UnlinkOK ==
  ASSUME ListOK, NEW t \in Toplevels, win[t].live, tops' = Unlinked(t),
         \A u \in Toplevels : win'[u].live <=> (win[u].live /\ u # t)
  PROVE  ListOK'
<1>1. tops \in Seq(Toplevels) /\ Len(tops) \in Nat /\ DOMAIN tops = 1 .. Len(tops)
  BY DEF ListOK
<1>2. PICK k \in DOMAIN tops : k = (CHOOSE j \in DOMAIN tops : tops[j] = t) /\ tops[k] = t
  BY DEF ListOK, ListIsLive, Contains, Once, live
<1>3. tops' = Without(tops, k)
  BY <1>2 DEF Unlinked
<1>4. k \in 1 .. Len(tops)
  BY <1>1, <1>2
<1>7. /\ tops' \in Seq(Toplevels) /\ Len(tops') = Len(tops) - 1 /\ DOMAIN tops' = 1 .. Len(tops) - 1
      /\ \A i \in 1 .. Len(tops) - 1 : tops'[i] = IF i < k THEN tops[i] ELSE tops[i + 1]
  <2>1. tops \in Seq(Toplevels)
    BY <1>1
  <2>2. Shorter(tops', tops, k, Toplevels)
    BY <1>3, <1>4, <2>1, WithoutIs, Zenon
  <2> QED BY <2>2 DEF Shorter
<1>8. tops' \in Seq(Toplevels) /\ Len(tops') = Len(tops) - 1 /\ DOMAIN tops' = 1 .. Len(tops) - 1
  BY <1>7
<1>9. \A i \in 1 .. Len(tops) - 1 : tops'[i] = IF i < k THEN tops[i] ELSE tops[i + 1]
  BY <1>7
<1>10. \A i, j \in DOMAIN tops : tops[i] = tops[j] => i = j
  BY DEF ListOK, ListIsLive, Once
<1>11. \A u \in Toplevels : win'[u].live <=> \E i \in DOMAIN tops' : tops'[i] = u
  <2> SUFFICES ASSUME NEW u \in Toplevels
               PROVE  win'[u].live <=> \E i \in DOMAIN tops' : tops'[i] = u
    OBVIOUS
  <2>1. win[u].live <=> \E i \in DOMAIN tops : tops[i] = u
    BY DEF ListOK, ListIsLive, Contains, Once, live
  <2>2. ASSUME NEW i \in DOMAIN tops, tops[i] = u, u # t PROVE \E j \in DOMAIN tops' : tops'[j] = u
    <3>1. i # k /\ i \in 1 .. Len(tops)
      BY <1>1, <1>2, <2>2
    <3>2. CASE i < k
      BY <1>1, <1>4, <1>8, <1>9, <2>2, <3>1, <3>2
    <3>3. CASE i > k
      <4>1. i - 1 \in DOMAIN tops' /\ tops'[i - 1] = tops[i]
        BY <1>1, <1>4, <1>8, <1>9, <3>1, <3>3
      <4> QED BY <2>2, <4>1
    <3> QED BY <1>4, <3>1, <3>2, <3>3
  <2>3. ASSUME NEW j \in DOMAIN tops', tops'[j] = u PROVE u # t /\ \E i \in DOMAIN tops : tops[i] = u
    <3> DEFINE i == IF j < k THEN j ELSE j + 1
    <3>1. i \in DOMAIN tops /\ i # k /\ tops[i] = u
      BY <1>1, <1>4, <1>8, <1>9, <2>3
    <3> QED BY <1>2, <1>10, <3>1
  <2> QED BY <2>1, <2>2, <2>3
<1>12. \A i, j \in DOMAIN tops' : tops'[i] = tops'[j] => i = j
  <2> SUFFICES ASSUME NEW i \in DOMAIN tops', NEW j \in DOMAIN tops', tops'[i] = tops'[j]
               PROVE  i = j
    OBVIOUS
  <2> DEFINE up(n) == IF n < k THEN n ELSE n + 1
  <2>1. up(i) \in DOMAIN tops /\ up(j) \in DOMAIN tops /\ tops[up(i)] = tops[up(j)]
    BY <1>1, <1>4, <1>8, <1>9
  <2>2. up(i) = up(j)
    <3> HIDE DEF up
    <3> QED BY <1>10, <2>1
  <2> QED BY <1>1, <1>4, <1>8, <2>2
<1> QED BY <1>8, <1>11, <1>12 DEF ListOK, ListIsLive, Contains, Once, live

\* Any other step leaves the list to the same windows.
LEMMA ListSame ==
  ASSUME ListOK, tops' = tops, \A u \in Toplevels : win'[u].live = win[u].live
  PROVE  ListOK'
  BY DEF ListOK, ListIsLive, Contains, Once, live

-----------------------------------------------------------------------------
(* One window                                                               *)

\* A view that is moved to a layer (weston_view_move_to_layer).
LEMMA MovedIs ==
  ASSUME NEW l \in Layers, locked \in BOOLEAN
  PROVE  /\ Moved(l) \in Views /\ Moved(l).layer = l
         /\ ~ locked => (l = "normal" => Moved(l).mapped)
  BY DEF Moved, Views

\* A window moved to a layer with its chrome (qdwin_toplevel_move_to_layer).
LEMMA MoveIs ==
  ASSUME NEW w \in Window, NEW l \in Layers \ {"none"}, locked \in BOOLEAN,
         NEW r, r = move_to_layer(w, l)
  PROVE  /\ r \in Window
         /\ r.live = w.live /\ r.surf = w.surf /\ r.min = w.min /\ r.ws = w.ws
         /\ r.view.layer = l
         /\ Has(r.chrome) => r.chrome.layer = l
         /\ Painted(r, locked)
<1>1. Moved(l) \in Views /\ Moved(l).layer = l /\ (~ locked => (l = "normal" => Moved(l).mapped))
  BY MovedIs
<1>2. PICK c \in Views : c = (IF Has(w.chrome) THEN Moved(l) ELSE w.chrome)
  BY <1>1 DEF Window
<1>3. PICK m \in Views : m = Moved(l)
  BY <1>1
<1>4. r = [w EXCEPT !.view = m, !.chrome = c]
  BY <1>2, <1>3 DEF move_to_layer
<1>5. /\ r \in Window
      /\ r.live = w.live /\ r.surf = w.surf /\ r.min = w.min /\ r.ws = w.ws
      /\ r.view = m /\ r.chrome = c
  BY <1>4 DEF Window
<1>6. c = m \/ c.layer = "none"
  BY <1>2, <1>3 DEF Has
<1> QED BY <1>1, <1>3, <1>5, <1>6 DEF Has, Painted

\* r is window w after it was sorted for active workspace a: if it is live and not
\* minimised it is where its state says.
SortedAs(r, w, a) ==
    /\ r \in Window
    /\ r.live = w.live /\ r.surf = w.surf /\ r.min = w.min /\ r.ws = w.ws
    /\ Painted(r, locked)
    /\ r.live /\ ~ r.min => InItsLayer(r, a)
    /\ r.min => r = w

\* That is what sorting does (qdwin_toplevel_apply_workspace_visibility).
LEMMA SortIs ==
  ASSUME NEW w \in Window, NEW a \in Indices, locked \in BOOLEAN, Painted(w, locked),
         NEW r, r = apply_workspace_visibility(w, a)
  PROVE  SortedAs(r, w, a)
<1>1. CASE ~ w.live \/ w.min
  <2>1. r = w
    BY <1>1 DEF apply_workspace_visibility
  <2> QED BY <1>1, <2>1 DEF SortedAs
<1>2. CASE w.live /\ ~ w.min
  <2>1. PICK l \in Layers \ {"none"} : l = IF w.ws = a THEN "normal" ELSE "hidden"
    BY DEF Layers
  <2>2. r = move_to_layer(w, l)
    BY <1>2, <2>1 DEF apply_workspace_visibility
  <2>3. /\ r \in Window
        /\ r.live = w.live /\ r.surf = w.surf /\ r.min = w.min /\ r.ws = w.ws
        /\ r.view.layer = l
        /\ Has(r.chrome) => r.chrome.layer = l
        /\ Painted(r, locked)
    BY <2>2, MoveIs
  <2>4. ItsLayer(r, a) = l
    BY <1>2, <2>1, <2>3 DEF ItsLayer
  <2> QED BY <1>2, <2>3, <2>4 DEF InItsLayer, SortedAs
<1>3. w.live \in BOOLEAN /\ w.min \in BOOLEAN
  BY DEF Window
<1> QED BY <1>1, <1>2, <1>3

\* A minimised window's place does not depend on the workspaces.
LEMMA MinimisedStays ==
  ASSUME NEW w \in Window, NEW r \in Window, NEW a, NEW b, r.min, w.min = r.min,
         r.view = w.view, r.chrome = w.chrome, InItsLayer(w, a)
  PROVE  InItsLayer(r, b)
  BY DEF InItsLayer, ItsLayer

-----------------------------------------------------------------------------
(* The windows                                                              *)

\* A step after which every window is well formed and painted, on a workspace that exists,
\* and on its layer unless it was astray before or is taken astray (Stray).
LEMMA WindowsKept ==
  ASSUME WindowsOK, NEW ts \in SUBSET Toplevels, Stray(ts), win' \in [Toplevels -> Window],
         active' \in Indices, count' \in 1 .. MaxWorkspaces, locked' \in BOOLEAN, active' < count',
         \A t \in Toplevels : /\ win'[t].ws < count' /\ Painted(win'[t], locked')
                              /\ win'[t].live /\ t \notin astray \cup ts => InItsLayer(win'[t], active')
  PROVE  WindowsOK'
<1>1. astray' = {t \in astray \cup ts : win'[t].live /\ ~ InItsLayer(win'[t], active')}
  BY DEF Stray
<1>2. astray' \subseteq Toplevels
  BY <1>1 DEF WindowsOK
<1>3. ASSUME NEW t \in Toplevels
      PROVE  win'[t].live /\ t \notin astray' => InItsLayer(win'[t], active')
  BY <1>1
<1> QED BY <1>2, <1>3 DEF WindowsOK

\* One window becomes w, and the workspaces and the lock stay.
LEMMA OneKept ==
  ASSUME WindowsOK, NEW ts \in SUBSET Toplevels, Stray(ts), NEW t \in Toplevels, NEW w \in Window,
         win' = [win EXCEPT ![t] = w], active' = active, count' = count, locked' = locked,
         w.ws < count, Painted(w, locked),
         w.live /\ t \notin astray \cup ts => InItsLayer(w, active)
  PROVE  WindowsOK'
<1>1. win' \in [Toplevels -> Window]
  BY DEF WindowsOK
<1>2. \A u \in Toplevels : win'[u] = IF u = t THEN w ELSE win[u]
  BY DEF WindowsOK
<1>3. ASSUME NEW u \in Toplevels
      PROVE  /\ win'[u].ws < count' /\ Painted(win'[u], locked')
             /\ win'[u].live /\ u \notin astray \cup ts => InItsLayer(win'[u], active')
  BY <1>2 DEF WindowsOK
<1> QED BY <1>1, <1>3, WindowsKept DEF WindowsOK

\* Nothing about the windows changes.
LEMMA WindowsSame ==
  ASSUME WindowsOK, UNCHANGED <<win, active, locked, astray>>, count' \in 1 .. MaxWorkspaces,
         count' >= count
  PROVE  WindowsOK'
<1>1. count \in Int /\ active \in Int /\ count' \in Int
  BY LayerConstants DEF WindowsOK, Indices
<1>2. \A t \in Toplevels : win[t].ws \in Int
  BY LayerConstants DEF WindowsOK, Window, Indices
<1> QED BY <1>1, <1>2 DEF WindowsOK

-----------------------------------------------------------------------------
(* The focus                                                                *)

\* Whatever the focus is moved to, it stays a window or nothing.
LEMMA SetFocusOK ==
  ASSUME FocusOK, NEW f \in Toplevels \cup {NONE}, SetFocus(f)
  PROVE  FocusOK' /\ focus' = f
  BY DEF FocusOK, SetFocus

\* It may also be left alone.
LEMMA KeepFocusOK ==
  ASSUME FocusOK, KeepFocus
  PROVE  FocusOK' /\ focus' = focus
  BY DEF FocusOK, KeepFocus

\* After a change of workspaces the focus is on a visible window, or on nothing if the list
\* has no such window; while locked it stays (qdwin_workspace_refocus_seats).
LEMMA RefocusOK ==
  ASSUME FocusOK, ListOK, NEW W, NEW a, refocus_seats(W, a)
  PROVE  /\ FocusOK'
         /\ locked => focus' = focus
         /\ ~ locked => IF focus' = NONE THEN \A i \in DOMAIN tops : ~ is_visible(W, tops[i], a)
                        ELSE is_visible(W, focus', a)
<1>1. PICK f : f = first_visible(W, a)
  OBVIOUS
<1>2. /\ f \in Toplevels \cup {NONE}
      /\ f # NONE => is_visible(W, f, a)
      /\ f = NONE => \A i \in DOMAIN tops : ~ is_visible(W, tops[i], a)
  BY <1>1, FirstVisibleIs DEF ListOK
<1>3. CASE locked \/ (focus # NONE /\ is_visible(W, focus, a))
  <2>1. FocusOK' /\ focus' = focus
    BY <1>3, KeepFocusOK DEF refocus_seats
  <2> QED BY <1>3, <2>1
<1>4. CASE ~(locked \/ (focus # NONE /\ is_visible(W, focus, a)))
  <2>1. SetFocus(f)
    BY <1>1, <1>4 DEF refocus_seats
  <2>2. FocusOK' /\ focus' = f
    BY <1>2, <2>1, SetFocusOK
  <2> QED BY <1>2, <1>4, <2>2
<1> QED BY <1>3, <1>4

-----------------------------------------------------------------------------
(* The steps                                                                *)

\* No live window changes its workspace, and the active one stays.
SameWorkspaces ==
    /\ active' = active
    /\ \A u \in Toplevels : win[u].live /\ win'[u].live => win'[u].ws = win[u].ws

\* The invariant is kept, and nothing gains the focus behind the lock.
Kept ==
    /\ WindowsOK' /\ ListOK' /\ FocusOK'
    /\ locked => focus' \in {focus, NONE}

\* One window changes, but neither its life nor its workspace.
LEMMA OneStep ==
  ASSUME WindowsOK, ListOK, NEW ts \in SUBSET Toplevels, Stray(ts), NEW t \in Toplevels,
         NEW w \in Window, win' = [win EXCEPT ![t] = w],
         UNCHANGED <<tops, active, count, locked>>,
         w.live = win[t].live, w.ws = win[t].ws, Painted(w, locked),
         w.live /\ t \notin astray \cup ts => InItsLayer(w, active)
  PROVE  WindowsOK' /\ ListOK' /\ SameWorkspaces
<1>1. w.ws < count
  BY DEF WindowsOK
<1>2. WindowsOK'
  BY <1>1, OneKept
<1>3. \A u \in Toplevels : win'[u].live = win[u].live /\ win'[u].ws = win[u].ws
  BY DEF WindowsOK
<1>4. ListOK'
  BY <1>3, ListSame
<1> QED BY <1>2, <1>3, <1>4 DEF SameWorkspaces

\* A window comes (qdwin_surface_added).
LEMMA AddedOK ==
  ASSUME WindowsOK, ListOK, FocusOK, NEW t \in Toplevels, qdwin_surface_added(t)
  PROVE  Kept /\ SameWorkspaces
<1>1. PICK m \in Views : m = Moved("normal") /\ m.layer = "normal" /\ (~ locked => m.mapped)
  BY MovedIs DEF WindowsOK, Layers
<1>2. PICK w : w = [NoWindow EXCEPT !.live = TRUE, !.ws = active, !.view = m]
  OBVIOUS
<1>3. /\ w \in Window /\ w.live /\ ~ w.min /\ w.ws = active /\ w.view = m
      /\ w.chrome.layer = "none"
  BY <1>2, LayerConstants DEF NoWindow, NoView, Window, Views, Layers, WindowsOK, Indices
<1>4. win' = [win EXCEPT ![t] = w]
  BY <1>1, <1>2 DEF qdwin_surface_added
<1>5. InItsLayer(w, active) /\ Painted(w, locked)
  BY <1>1, <1>3 DEF InItsLayer, ItsLayer, Has, Painted
<1>6. WindowsOK'
  <2>1. w.ws < count
    BY <1>3 DEF WindowsOK
  <2> QED BY <1>3, <1>4, <1>5, <2>1, OneKept DEF qdwin_surface_added
<1>7. \A u \in Toplevels : win'[u] = IF u = t THEN w ELSE win[u]
  BY <1>4 DEF WindowsOK
<1>8. ListOK'
  <2>1. \A u \in Toplevels : win'[u].live <=> (win[u].live \/ u = t)
    BY <1>3, <1>7
  <2> QED BY <2>1, LinkOK DEF qdwin_surface_added, live
<1>9. FocusOK' /\ focus' = focus
  BY KeepFocusOK DEF qdwin_surface_added
<1>10. SameWorkspaces
  BY <1>7 DEF SameWorkspaces, qdwin_surface_added, live
<1> QED BY <1>6, <1>8, <1>9, <1>10 DEF Kept

\* A window goes (qdwin_surface_removed).
LEMMA RemovedOK ==
  ASSUME WindowsOK, ListOK, FocusOK, NEW t \in Toplevels, qdwin_surface_removed(t)
  PROVE  Kept /\ SameWorkspaces
<1>1. /\ NoWindow \in Window /\ NoWindow.live = FALSE /\ NoWindow.ws = 0
      /\ NoWindow.view.layer = "none" /\ NoWindow.chrome.layer = "none"
  BY LayerConstants DEF NoWindow, NoView, Window, Views, Layers, Indices, WindowsOK
<1>2. win' = [win EXCEPT ![t] = NoWindow]
  BY DEF qdwin_surface_removed
<1>3. WindowsOK'
  <2>1. Painted(NoWindow, locked)
    BY <1>1 DEF Painted
  <2>2. NoWindow.ws < count
    BY <1>1 DEF WindowsOK
  <2> QED BY <1>1, <1>2, <2>1, <2>2, OneKept DEF qdwin_surface_removed
<1>4. \A u \in Toplevels : win'[u] = IF u = t THEN NoWindow ELSE win[u]
  BY <1>2 DEF WindowsOK
<1>5. ListOK'
  <2>1. \A u \in Toplevels : win'[u].live <=> (win[u].live /\ u # t)
    BY <1>1, <1>4
  <2> QED BY <2>1, UnlinkOK DEF qdwin_surface_removed, live
<1>6. FocusOK' /\ focus' \in {focus, NONE}
  BY KeepFocusOK, SetFocusOK DEF qdwin_surface_removed
<1>7. SameWorkspaces
  BY <1>1, <1>4 DEF SameWorkspaces, qdwin_surface_removed
<1> QED BY <1>3, <1>5, <1>6, <1>7 DEF Kept

\* A window is mapped and may take the focus (qdwin_surface_committed).
LEMMA CommittedOK ==
  ASSUME WindowsOK, ListOK, FocusOK, NEW t \in Toplevels, qdwin_surface_committed(t)
  PROVE  Kept /\ SameWorkspaces
<1>1. PICK w : w = [win[t] EXCEPT !.surf = TRUE]
  OBVIOUS
<1>2. /\ w \in Window /\ w.live = win[t].live /\ w.ws = win[t].ws /\ w.min = win[t].min
      /\ w.view = win[t].view /\ w.chrome = win[t].chrome
  BY <1>1 DEF WindowsOK, Window
<1>3. win' = [win EXCEPT ![t] = w]
  BY <1>1 DEF qdwin_surface_committed
<1>4. Painted(w, locked) /\ (w.live /\ t \notin astray \cup {} => InItsLayer(w, active))
  BY <1>2 DEF WindowsOK, Painted, InItsLayer, ItsLayer
<1>5. WindowsOK' /\ ListOK' /\ SameWorkspaces
  BY <1>2, <1>3, <1>4, OneStep DEF qdwin_surface_committed
<1>6. FocusOK' /\ (locked => focus' = focus)
  BY KeepFocusOK, SetFocusOK DEF qdwin_surface_committed, autofocus
<1> QED BY <1>5, <1>6 DEF Kept

\* A client unmaps its window (weston_surface_unmap).
LEMMA UnmapOK ==
  ASSUME WindowsOK, ListOK, FocusOK, NEW t \in Toplevels, weston_surface_unmap(t)
  PROVE  Kept /\ SameWorkspaces
<1>1. PICK v \in Views : v = (IF win[t].view.mapped THEN NoView ELSE win[t].view)
  BY DEF WindowsOK, Window, NoView, Views, Layers
<1>2. PICK w : w = [win[t] EXCEPT !.surf = FALSE, !.view = v]
  OBVIOUS
<1>3. /\ w \in Window /\ w.live = win[t].live /\ w.ws = win[t].ws
      /\ w.view = v /\ w.chrome = win[t].chrome
  BY <1>2 DEF WindowsOK, Window
<1>4. win' = [win EXCEPT ![t] = w]
  BY <1>1, <1>2 DEF weston_surface_unmap, WindowsOK, Window
<1>5. Painted(w, locked)
  BY <1>1, <1>3 DEF WindowsOK, Painted, NoView
<1>6. WindowsOK' /\ ListOK' /\ SameWorkspaces
  <2>1. t \in astray \cup {t}
    OBVIOUS
  <2> QED BY <1>3, <1>4, <1>5, <2>1, OneStep DEF weston_surface_unmap
<1>7. FocusOK' /\ focus' \in {focus, NONE}
  BY KeepFocusOK, SetFocusOK DEF weston_surface_unmap
<1> QED BY <1>6, <1>7 DEF Kept

\* A window is minimised (qdwin_toplevel_set_minimized).
LEMMA MinimizedOK ==
  ASSUME WindowsOK, ListOK, FocusOK, NEW t \in Toplevels, qdwin_toplevel_set_minimized(t)
  PROVE  Kept /\ SameWorkspaces
<1>1. PICK m : m = move_to_layer(win[t], "minimized")
  OBVIOUS
<1>2. /\ m \in Window /\ m.live = win[t].live /\ m.ws = win[t].ws
      /\ m.view.layer = "minimized" /\ (Has(m.chrome) => m.chrome.layer = "minimized")
      /\ Painted(m, locked)
  BY <1>1, MoveIs DEF WindowsOK, Layers
<1>3. PICK w : w = [m EXCEPT !.min = TRUE]
  OBVIOUS
<1>4. /\ w \in Window /\ w.live = m.live /\ w.ws = m.ws /\ w.min
      /\ w.view = m.view /\ w.chrome = m.chrome
  BY <1>2, <1>3 DEF Window
<1>5. win' = [win EXCEPT ![t] = w]
  BY <1>1, <1>3 DEF qdwin_toplevel_set_minimized, SetWindow
<1>6. Painted(w, locked) /\ InItsLayer(w, active)
  BY <1>2, <1>4 DEF Painted, InItsLayer, ItsLayer
<1>7. WindowsOK' /\ ListOK' /\ SameWorkspaces
  BY <1>2, <1>4, <1>5, <1>6, OneStep DEF qdwin_toplevel_set_minimized, SetWindow
<1>8. FocusOK' /\ focus' = focus
  BY KeepFocusOK DEF qdwin_toplevel_set_minimized
<1> QED BY <1>7, <1>8 DEF Kept

\* A window is raised, out of the minimised layer or within its own
\* (qdwin_handle_request_raise).
LEMMA RaiseOK ==
  ASSUME WindowsOK, ListOK, FocusOK, NEW t \in Toplevels, qdwin_handle_request_raise(t)
  PROVE  Kept /\ SameWorkspaces
<1>1. win[t] \in Window /\ active \in Indices /\ locked \in BOOLEAN /\ Painted(win[t], locked)
  BY DEF WindowsOK
<1>2. \E w \in Window : /\ win' = [win EXCEPT ![t] = w]
                        /\ w.live = win[t].live /\ w.ws = win[t].ws
                        /\ Painted(w, locked) /\ InItsLayer(w, active)
  <2>1. CASE win[t].min \/ win[t].ws # active
    <3>1. PICK u : u = [win[t] EXCEPT !.min = FALSE]
      OBVIOUS
    <3>2. /\ u \in Window /\ u.live = win[t].live /\ u.ws = win[t].ws /\ u.min = FALSE
          /\ u.view = win[t].view /\ u.chrome = win[t].chrome
      BY <1>1, <3>1 DEF Window
    <3>3. PICK w : w = apply_workspace_visibility(u, active)
      OBVIOUS
    <3>4. Painted(u, locked)
      BY <1>1, <3>2 DEF Painted
    <3>5. /\ w \in Window /\ w.live = u.live /\ w.min = u.min /\ w.ws = u.ws
          /\ Painted(w, locked) /\ (w.live /\ ~ w.min => InItsLayer(w, active))
      BY <1>1, <3>2, <3>3, <3>4, SortIs DEF SortedAs
    <3>6. win' = [win EXCEPT ![t] = w]
      BY <2>1, <3>1, <3>3 DEF qdwin_handle_request_raise, SetWindow
    <3>7. win[t].live
      BY DEF qdwin_handle_request_raise, live
    <3> QED BY <3>2, <3>5, <3>6, <3>7
  <2>2. CASE ~(win[t].min \/ win[t].ws # active)
    <3>1. PICK w : w = move_to_layer(win[t], "normal")
      OBVIOUS
    <3>2. /\ w \in Window /\ w.live = win[t].live /\ w.ws = win[t].ws /\ w.min = win[t].min
          /\ w.view.layer = "normal" /\ (Has(w.chrome) => w.chrome.layer = "normal")
          /\ Painted(w, locked)
      BY <1>1, <3>1, MoveIs DEF Layers
    <3>3. win' = [win EXCEPT ![t] = w]
      BY <2>2, <3>1 DEF qdwin_handle_request_raise, SetWindow
    <3>4. InItsLayer(w, active)
      BY <2>2, <3>2 DEF InItsLayer, ItsLayer
    <3> QED BY <3>2, <3>3, <3>4
  <2> QED BY <2>1, <2>2
<1>3. PICK w \in Window : /\ win' = [win EXCEPT ![t] = w]
                          /\ w.live = win[t].live /\ w.ws = win[t].ws
                          /\ Painted(w, locked) /\ InItsLayer(w, active)
  BY <1>2
<1>4. WindowsOK' /\ ListOK' /\ SameWorkspaces
  BY <1>3, OneStep DEF qdwin_handle_request_raise, SetWindow
<1>5. FocusOK' /\ focus' = focus
  BY KeepFocusOK DEF qdwin_handle_request_raise
<1> QED BY <1>4, <1>5 DEF Kept

\* Decoration comes or goes (qdwin_chrome_attach_side).
LEMMA ChromeOK ==
  ASSUME WindowsOK, ListOK, FocusOK, NEW t \in Toplevels, qdwin_chrome_attach_side(t)
  PROVE  Kept /\ SameWorkspaces
<1>1. PICK l \in Layers : l = IF win[t].ws = active THEN "normal" ELSE "hidden"
  BY DEF Layers
<1>2. Moved(l) \in Views /\ (~ locked => (Moved(l).layer = "normal" => Moved(l).mapped))
  BY MovedIs DEF WindowsOK
<1>3. PICK c \in Views : c = (IF Has(win[t].chrome) THEN NoView ELSE Moved(l))
  BY <1>2 DEF NoView, Views, Layers
<1>4. PICK w : w = [win[t] EXCEPT !.chrome = c]
  OBVIOUS
<1>5. /\ w \in Window /\ w.live = win[t].live /\ w.ws = win[t].ws
      /\ w.view = win[t].view /\ w.chrome = c
  BY <1>4 DEF WindowsOK, Window
<1>6. win' = [win EXCEPT ![t] = w]
  BY <1>1, <1>3, <1>4 DEF qdwin_chrome_attach_side, WindowsOK, Window
<1>7. Painted(w, locked)
  BY <1>2, <1>3, <1>5 DEF WindowsOK, Painted, NoView
<1>8. WindowsOK' /\ ListOK' /\ SameWorkspaces
  <2>1. t \in astray \cup {t}
    OBVIOUS
  <2> QED BY <1>5, <1>6, <1>7, <2>1, OneStep DEF qdwin_chrome_attach_side
<1>9. FocusOK' /\ focus' = focus
  BY KeepFocusOK DEF qdwin_chrome_attach_side
<1> QED BY <1>8, <1>9 DEF Kept

\* A click focuses a window and may raise it (qdwin_proxy_default_grab_button).
LEMMA ClickOK ==
  ASSUME WindowsOK, ListOK, FocusOK, NEW t \in Toplevels, ClickToFocus(t)
  PROVE  Kept /\ SameWorkspaces
<1>1. win[t] \in Window /\ active \in Indices /\ locked \in BOOLEAN /\ Painted(win[t], locked)
  BY DEF WindowsOK
<1>2. \E w \in Window : /\ win' = [win EXCEPT ![t] = w]
                        /\ w.live = win[t].live /\ w.ws = win[t].ws /\ Painted(w, locked)
  <2>1. CASE SetWindow(t, move_to_layer(win[t], "normal"))
    <3>1. PICK w : w = move_to_layer(win[t], "normal")
      OBVIOUS
    <3>2. w \in Window /\ w.live = win[t].live /\ w.ws = win[t].ws /\ Painted(w, locked)
      BY <1>1, <3>1, MoveIs DEF Layers
    <3> QED BY <2>1, <3>1, <3>2 DEF SetWindow
  <2>2. CASE win' = win
    <3>1. win' = [win EXCEPT ![t] = win[t]]
      BY <2>2 DEF WindowsOK
    <3> QED BY <1>1, <3>1
  <2> QED BY <2>1, <2>2 DEF ClickToFocus
<1>3. PICK w \in Window : /\ win' = [win EXCEPT ![t] = w]
                          /\ w.live = win[t].live /\ w.ws = win[t].ws /\ Painted(w, locked)
  BY <1>2
<1>4. WindowsOK' /\ ListOK' /\ SameWorkspaces
  <2>1. Stray({t}) /\ UNCHANGED <<tops, active, count, locked>> /\ t \in astray \cup {t}
    BY DEF ClickToFocus, SetWindow
  <2> QED BY <1>3, <2>1, OneStep
<1>5. FocusOK' /\ ~ locked
  BY SetFocusOK DEF ClickToFocus
<1> QED BY <1>4, <1>5 DEF Kept

\* An activation shows the content of a window and focuses it (qdwin_activation_perform).
LEMMA PerformOK ==
  ASSUME WindowsOK, ListOK, FocusOK, NEW t \in Toplevels, qdwin_activation_perform(t)
  PROVE  Kept /\ SameWorkspaces
<1>1. PICK m \in Views : m = Moved("normal") /\ (~ locked => m.mapped)
  BY MovedIs DEF WindowsOK, Layers
<1>2. PICK w : w = [win[t] EXCEPT !.view = m]
  OBVIOUS
<1>3. /\ w \in Window /\ w.live = win[t].live /\ w.ws = win[t].ws
      /\ w.view = m /\ w.chrome = win[t].chrome
  BY <1>2 DEF WindowsOK, Window
<1>4. win' = [win EXCEPT ![t] = w]
  BY <1>1, <1>2 DEF qdwin_activation_perform, SetWindow
<1>5. Painted(w, locked)
  BY <1>1, <1>3 DEF WindowsOK, Painted
<1>6. WindowsOK' /\ ListOK' /\ SameWorkspaces
  <2>1. t \in astray \cup {t}
    OBVIOUS
  <2> QED BY <1>3, <1>4, <1>5, <2>1, OneStep DEF qdwin_activation_perform, SetWindow
<1>7. FocusOK' /\ ~ locked
  BY SetFocusOK DEF qdwin_activation_perform
<1> QED BY <1>6, <1>7 DEF Kept

-----------------------------------------------------------------------------
(* Changes of workspaces                                                    *)

\* A window whose workspace becomes n, sorted for active workspace a: where it was on its
\* layer it is again.
LEMMA ResortIs ==
  ASSUME NEW w \in Window, NEW n \in Indices, NEW a \in Indices, locked \in BOOLEAN,
         Painted(w, locked), NEW u, u = [w EXCEPT !.ws = n],
         NEW r, r = apply_workspace_visibility(u, a)
  PROVE  /\ r \in Window /\ r.live = w.live /\ r.ws = n
         /\ Painted(r, locked)
         /\ \A b : r.live /\ InItsLayer(w, b) => InItsLayer(r, a)
<1>2. /\ u \in Window /\ u.live = w.live /\ u.min = w.min /\ u.ws = n
      /\ u.view = w.view /\ u.chrome = w.chrome
  BY DEF Window
<1>3. Painted(u, locked)
  BY <1>2 DEF Painted
<1>4. /\ r \in Window /\ r.live = u.live /\ r.min = u.min /\ r.ws = u.ws
      /\ Painted(r, locked)
      /\ r.live /\ ~ r.min => InItsLayer(r, a)
      /\ r.min => r = u
  <2>1. u \in Window
    BY <1>2
  <2>2. SortedAs(r, u, a)
    BY <1>3, <2>1, SortIs, Zenon
  <2> QED BY <2>2 DEF SortedAs
<1>5. ASSUME NEW b, r.live, InItsLayer(w, b) PROVE InItsLayer(r, a)
  <2>1. CASE r.min
    BY <1>2, <1>4, <1>5, <2>1, MinimisedStays
  <2>2. CASE ~ r.min
    BY <1>4, <1>5, <2>2
  <2> QED BY <2>1, <2>2
<1> QED BY <1>2, <1>4, <1>5

\* All windows are sorted again, each for workspace n(t) and active workspace a, and the
\* focus follows.
LEMMA ResortAllOK ==
  ASSUME WindowsOK, ListOK, FocusOK, NEW n \in [Toplevels -> Indices],
         win' = [t \in Toplevels |-> apply_workspace_visibility([win[t] EXCEPT !.ws = n[t]], active')],
         active' \in Indices, count' \in 1 .. MaxWorkspaces, active' < count',
         \A t \in Toplevels : n[t] < count',
         UNCHANGED <<tops, locked>>, Stray({}), refocus_seats(win', active')
  PROVE  Kept
<1>1. ASSUME NEW t \in Toplevels
      PROVE  /\ win'[t] \in Window /\ win'[t].live = win[t].live /\ win'[t].ws = n[t]
             /\ Painted(win'[t], locked)
             /\ \A b : win'[t].live /\ InItsLayer(win[t], b) => InItsLayer(win'[t], active')
  <2>1. win[t] \in Window /\ locked \in BOOLEAN /\ Painted(win[t], locked) /\ n[t] \in Indices
    BY DEF WindowsOK
  <2>2. win'[t] = apply_workspace_visibility([win[t] EXCEPT !.ws = n[t]], active')
    OBVIOUS
  <2> QED BY <2>1, <2>2, ResortIs
<1>2. win' \in [Toplevels -> Window]
  BY <1>1
<1>3. ASSUME NEW t \in Toplevels
      PROVE  /\ win'[t].ws < count' /\ Painted(win'[t], locked')
             /\ win'[t].live /\ t \notin astray \cup {} => InItsLayer(win'[t], active')
  BY <1>1 DEF WindowsOK
<1>4. locked' \in BOOLEAN
  BY DEF WindowsOK
<1>5. WindowsOK'
  BY <1>2, <1>3, <1>4, WindowsKept
<1>6. ListOK'
  BY <1>1, ListSame
<1>7. FocusOK' /\ (locked => focus' = focus)
  BY RefocusOK
<1> QED BY <1>5, <1>6, <1>7 DEF Kept

\* Another workspace becomes the active one (qdwin_set_active_workspace).
LEMMA ActiveOK ==
  ASSUME WindowsOK, ListOK, FocusOK, NEW i \in Indices, qdwin_set_active_workspace(i)
  PROVE  Kept
<1>1. PICK n \in [Toplevels -> Indices] : n = [t \in Toplevels |-> win[t].ws]
  BY DEF WindowsOK, Window
<1>2. \A t \in Toplevels : [win[t] EXCEPT !.ws = n[t]] = win[t]
  BY <1>1 DEF WindowsOK, Window
<1>3. win' = [t \in Toplevels |-> apply_workspace_visibility([win[t] EXCEPT !.ws = n[t]], active')]
  BY <1>2 DEF qdwin_set_active_workspace
<1>4. active' \in Indices /\ count' \in 1 .. MaxWorkspaces /\ active' < count'
      /\ \A t \in Toplevels : n[t] < count'
  BY <1>1 DEF qdwin_set_active_workspace, WindowsOK
<1> QED BY <1>3, <1>4, ResortAllOK DEF qdwin_set_active_workspace

\* What is above a removed workspace moves down, and what is on it falls back one.
LEMMA DownIs ==
  ASSUME NEW c \in Nat, c > 1, NEW n \in Nat, n < c, NEW i \in Nat, i < c
  PROVE  down(n, i) \in Nat /\ down(n, i) < c - 1
  BY DEF down

\* A workspace goes (qdwin_workspace_remove).
LEMMA RemoveWorkspaceOK ==
  ASSUME WindowsOK, ListOK, FocusOK, NEW i \in Indices, qdwin_workspace_remove(i)
  PROVE  Kept
<1>1. count \in Nat /\ count > 1 /\ i \in Nat /\ i < count /\ count' = count - 1
      /\ active \in Nat /\ active < count /\ count <= MaxWorkspaces /\ MaxWorkspaces \in Nat
  BY LayerConstants DEF qdwin_workspace_remove, WindowsOK, Indices
<1>2. ASSUME NEW t \in Toplevels PROVE win[t].ws \in Nat /\ win[t].ws < count
  <2>1. win[t] \in Window /\ win[t].ws < count
    BY DEF WindowsOK
  <2>2. win[t].ws \in Indices
    BY <2>1 DEF Window
  <2> QED BY <2>1, <2>2 DEF Indices
<1>3. down(active, i) \in Nat /\ down(active, i) < count - 1
  BY <1>1, DownIs
<1>4. \A t \in Toplevels : down(win[t].ws, i) \in Nat /\ down(win[t].ws, i) < count - 1
  BY <1>1, <1>2, DownIs
<1>5. PICK n : n = [t \in Toplevels |-> down(win[t].ws, i)]
  OBVIOUS
<1>6. n \in [Toplevels -> Indices] /\ \A t \in Toplevels : n[t] < count'
  BY <1>1, <1>4, <1>5 DEF Indices
<1>7. active' = down(active, i)
  BY <1>1, <1>3 DEF qdwin_workspace_remove
<1>8. active' \in Indices /\ count' \in 1 .. MaxWorkspaces /\ active' < count'
  BY <1>1, <1>3, <1>7 DEF Indices
<1>9. win' = [t \in Toplevels |-> apply_workspace_visibility([win[t] EXCEPT !.ws = n[t]], active')]
  BY <1>5 DEF qdwin_workspace_remove
<1> QED BY <1>6, <1>8, <1>9, ResortAllOK DEF qdwin_workspace_remove

\* A window is sent to another workspace (qdwin_handle_move_toplevel_to_workspace).
LEMMA SendOK ==
  ASSUME WindowsOK, ListOK, FocusOK, NEW t \in Toplevels, NEW i \in Indices,
         qdwin_handle_move_toplevel_to_workspace(t, i)
  PROVE  Kept
<1>1. win[t] \in Window /\ active \in Indices /\ locked \in BOOLEAN /\ Painted(win[t], locked)
  BY DEF WindowsOK
<1>2. PICK w : w = apply_workspace_visibility([win[t] EXCEPT !.ws = i], active)
  OBVIOUS
<1>3. /\ w \in Window /\ w.live = win[t].live /\ w.ws = i /\ Painted(w, locked)
      /\ \A b : w.live /\ InItsLayer(win[t], b) => InItsLayer(w, active)
  BY <1>1, <1>2, ResortIs
<1>4. win' = [win EXCEPT ![t] = w]
  BY <1>2 DEF qdwin_handle_move_toplevel_to_workspace
<1>5. w.live /\ t \notin astray \cup {} => InItsLayer(w, active)
  BY <1>3 DEF WindowsOK
<1>6. WindowsOK'
  <2>1. w.ws < count
    BY <1>3 DEF qdwin_handle_move_toplevel_to_workspace
  <2> QED BY <1>3, <1>4, <1>5, <2>1, OneKept DEF qdwin_handle_move_toplevel_to_workspace
<1>7. ListOK'
  <2>1. \A u \in Toplevels : win'[u].live = win[u].live
    BY <1>3, <1>4 DEF WindowsOK
  <2> QED BY <2>1, ListSame DEF qdwin_handle_move_toplevel_to_workspace
<1>8. FocusOK' /\ (locked => focus' = focus)
  BY RefocusOK DEF qdwin_handle_move_toplevel_to_workspace
<1> QED BY <1>6, <1>7, <1>8 DEF Kept

-----------------------------------------------------------------------------
(* The focus, the number of workspaces and the lock                         *)

\* Steps that leave the windows alone, but for the lock (qdwin_handle_set_keyboard_focus,
\* qdwin_seat_focus_recover_idle_cb, qdwin_workspace_create, qdwin_hide_non_lock_layers).
LEMMA QuietOK ==
  ASSUME WindowsOK, ListOK, FocusOK,
         \/ \E f \in Toplevels \cup {NONE} : qdwin_handle_set_keyboard_focus(f)
         \/ qdwin_seat_focus_recover_idle_cb \/ qdwin_workspace_create \/ Lock
         \/ UNCHANGED vars
  PROVE  Kept /\ SameWorkspaces
<1>1. ASSUME win' = win, tops' = tops, active' = active PROVE ListOK' /\ SameWorkspaces
  BY <1>1, ListSame DEF SameWorkspaces
<1>2. count \in Int /\ MaxWorkspaces \in Int
  BY LayerConstants DEF WindowsOK
<1>3. ASSUME NEW f \in Toplevels \cup {NONE}, qdwin_handle_set_keyboard_focus(f)
      PROVE  Kept /\ SameWorkspaces
  <2>1. WindowsOK'
    BY <1>2, <1>3, WindowsSame DEF qdwin_handle_set_keyboard_focus, WindowsOK
  <2>2. FocusOK' /\ ~ locked
    BY <1>3, SetFocusOK DEF qdwin_handle_set_keyboard_focus
  <2> QED BY <1>1, <1>3, <2>1, <2>2 DEF qdwin_handle_set_keyboard_focus, Kept
<1>4. CASE qdwin_seat_focus_recover_idle_cb
  <2>1. WindowsOK'
    BY <1>2, <1>4, WindowsSame DEF qdwin_seat_focus_recover_idle_cb, WindowsOK
  <2>2. first_visible(win, active) \in Toplevels \cup {NONE}
    BY FirstVisibleIs DEF ListOK
  <2>3. FocusOK' /\ (locked => focus' = focus)
    BY <1>4, <2>2 DEF qdwin_seat_focus_recover_idle_cb, FocusOK
  <2> QED BY <1>1, <1>4, <2>1, <2>3 DEF qdwin_seat_focus_recover_idle_cb, Kept
<1>5. CASE qdwin_workspace_create
  <2>1. count' \in 1 .. MaxWorkspaces /\ count' >= count
    BY <1>2, <1>5 DEF qdwin_workspace_create, WindowsOK
  <2>2. WindowsOK'
    BY <1>5, <2>1, WindowsSame DEF qdwin_workspace_create
  <2>3. FocusOK' /\ focus' = focus
    BY <1>5 DEF qdwin_workspace_create, FocusOK
  <2> QED BY <1>1, <1>5, <2>2, <2>3 DEF qdwin_workspace_create, Kept
<1>6. CASE Lock
  <2>1. \A t \in Toplevels : Painted(win[t], TRUE)
    BY DEF Painted
  <2>2. WindowsOK'
    BY <1>6, <2>1 DEF Lock, WindowsOK
  <2>3. FocusOK' /\ focus' = focus
    BY <1>6 DEF Lock, FocusOK
  <2> QED BY <1>1, <1>6, <2>2, <2>3 DEF Lock, Kept
<1>7. CASE UNCHANGED vars
  <2>1. WindowsOK'
    BY <1>2, <1>7, WindowsSame DEF vars, WindowsOK
  <2>2. FocusOK' /\ focus' = focus
    BY <1>7 DEF vars, FocusOK
  <2> QED BY <1>1, <1>7, <2>1, <2>2 DEF vars, Kept
<1> QED BY <1>3, <1>4, <1>5, <1>6, <1>7

\* A view is mapped again where its layer has its position back.
LEMMA RemapIs ==
  ASSUME NEW v \in Views, NEW r, r = remap_after_unlock(v)
  PROVE  r \in Views /\ r.layer = v.layer /\ (r.layer = "normal" => r.mapped)
<1>1. CASE v.layer = "normal"
  <2>1. r = [v EXCEPT !.mapped = TRUE]
    BY <1>1 DEF remap_after_unlock
  <2> QED BY <2>1 DEF Views
<1>2. CASE v.layer # "normal"
  BY <1>2 DEF remap_after_unlock
<1> QED BY <1>1, <1>2

\* An unlock paints what is in the visible layers (qdwin_show_non_lock_layers).
LEMMA UnlockOK ==
  ASSUME WindowsOK, ListOK, FocusOK, Unlock
  PROVE  Kept /\ SameWorkspaces
<1>1. ASSUME NEW t \in Toplevels
      PROVE  /\ win'[t] \in Window /\ win'[t].live = win[t].live /\ win'[t].ws = win[t].ws
             /\ win'[t].min = win[t].min
             /\ win'[t].view.layer = win[t].view.layer /\ win'[t].chrome.layer = win[t].chrome.layer
             /\ Painted(win'[t], FALSE)
  <2>1. win[t] \in Window /\ win[t].view \in Views /\ win[t].chrome \in Views
    BY DEF WindowsOK, Window
  <2>2. PICK v : v = remap_after_unlock(win[t].view)
    OBVIOUS
  <2>3. PICK c : c = remap_after_unlock(win[t].chrome)
    OBVIOUS
  <2>4. v \in Views /\ v.layer = win[t].view.layer /\ (v.layer = "normal" => v.mapped)
    BY <2>1, <2>2, RemapIs
  <2>5. c \in Views /\ c.layer = win[t].chrome.layer /\ (c.layer = "normal" => c.mapped)
    BY <2>1, <2>3, RemapIs
  <2>6. win'[t] = [win[t] EXCEPT !.view = v, !.chrome = c]
    BY <2>2, <2>3 DEF Unlock
  <2>7. /\ win'[t] \in Window /\ win'[t].live = win[t].live /\ win'[t].ws = win[t].ws
        /\ win'[t].min = win[t].min /\ win'[t].view = v /\ win'[t].chrome = c
    BY <2>1, <2>4, <2>5, <2>6 DEF Window
  <2> QED BY <2>4, <2>5, <2>7 DEF Painted
<1>2. win' \in [Toplevels -> Window]
  <2>1. DOMAIN win' = Toplevels /\ win' = [t \in Toplevels |-> win'[t]]
    BY DEF Unlock
  <2> QED BY <1>1, <2>1
<1>3. \A t \in Toplevels : InItsLayer(win[t], active) => InItsLayer(win'[t], active)
  BY <1>1 DEF InItsLayer, ItsLayer, Has
<1>4. WindowsOK'
  BY <1>1, <1>2, <1>3 DEF Unlock, WindowsOK
<1>5. ListOK'
  BY <1>1, ListSame DEF Unlock
<1>6. FocusOK' /\ focus' = focus
  BY DEF Unlock, FocusOK
<1>7. SameWorkspaces
  BY <1>1 DEF SameWorkspaces, Unlock
<1> QED BY <1>4, <1>5, <1>6, <1>7 DEF Kept

-----------------------------------------------------------------------------
(* The theorems                                                             *)

\* The steps after which the focus is settled again.
Resorts ==
    \/ \E t \in Toplevels, i \in Indices : qdwin_handle_move_toplevel_to_workspace(t, i)
    \/ \E i \in Indices : qdwin_set_active_workspace(i) \/ qdwin_workspace_remove(i)

\* Every step keeps the invariant, and only these change workspaces.
LEMMA StepOK ==
  ASSUME WindowsOK, ListOK, FocusOK, [Next]_vars
  PROVE  Kept /\ (Resorts \/ SameWorkspaces)
<1>1. ASSUME NEW t \in Toplevels,
             \/ qdwin_surface_added(t) \/ qdwin_surface_removed(t)
             \/ qdwin_surface_committed(t) \/ weston_surface_unmap(t)
             \/ qdwin_toplevel_set_minimized(t) \/ qdwin_handle_request_raise(t)
             \/ qdwin_chrome_attach_side(t) \/ ClickToFocus(t) \/ qdwin_activation_perform(t)
      PROVE  Kept /\ SameWorkspaces
  BY <1>1, AddedOK, RemovedOK, CommittedOK, UnmapOK, MinimizedOK, RaiseOK, ChromeOK, ClickOK,
     PerformOK
<1>2. CASE Resorts
  BY <1>2, SendOK, ActiveOK, RemoveWorkspaceOK DEF Resorts
<1>3. CASE \/ \E f \in Toplevels \cup {NONE} : qdwin_handle_set_keyboard_focus(f)
           \/ qdwin_seat_focus_recover_idle_cb \/ qdwin_workspace_create \/ Lock
           \/ UNCHANGED vars
  BY <1>3, QuietOK
<1>4. CASE Unlock
  BY <1>4, UnlockOK
<1> QED BY <1>1, <1>2, <1>3, <1>4 DEF Next, Resorts

\* Windows and chrome are on the layer their state asks for, on a workspace that exists, and
\* painted once the screen is unlocked, for any windows and any number of workspaces
\* (qdwin_toplevel_apply_workspace_visibility, qdwin_workspace_remove,
\* qdwin_show_non_lock_layers).
THEOREM SpecLayersRight == Spec => []LayersRight
<1>1. Init => LayersRight
  <2> SUFFICES ASSUME Init PROVE LayersRight
    OBVIOUS
  <2>1. 0 \in Indices /\ active \in Indices /\ count \in 1 .. MaxWorkspaces /\ active < count
    BY LayerConstants DEF Init, Indices
  <2>2. /\ NoWindow \in Window /\ NoWindow.live = FALSE /\ NoWindow.ws = 0
        /\ NoWindow.view.layer = "none" /\ NoWindow.chrome.layer = "none"
    BY <2>1 DEF NoWindow, NoView, Window, Views, Layers
  <2>3. \A t \in Toplevels : win[t] = NoWindow
    BY DEF Init
  <2>4. WindowsOK
    <3>1. win \in [Toplevels -> Window] /\ locked \in BOOLEAN /\ astray \subseteq Toplevels
      BY <2>2 DEF Init
    <3>2. Painted(NoWindow, locked)
      BY <2>2 DEF Painted
    <3>3. 0 < count
      BY LayerConstants DEF Init
    <3> QED BY <2>1, <2>2, <2>3, <3>1, <3>2, <3>3 DEF WindowsOK
  <2>5. ListOK
    BY <2>2, <2>3 DEF Init, ListOK, ListIsLive, Contains, Once, live
  <2>6. FocusOK
    BY DEF Init, FocusOK
  <2> QED BY <2>4, <2>5, <2>6, InParts
<1>2. LayersRight /\ [Next]_vars => LayersRight'
  <2> SUFFICES ASSUME LayersRight, [Next]_vars PROVE LayersRight'
    OBVIOUS
  <2>1. WindowsOK' /\ ListOK' /\ FocusOK'
    BY InParts, StepOK DEF Kept
  <2> QED BY <2>1, InParts, PTL
<1> QED BY <1>1, <1>2, PTL DEF Spec

\* After a step that changes workspaces the focus is on a visible window, or on nothing if
\* there is none.
LEMMA ResortsSettle ==
  ASSUME ListOK, ListOK', FocusOK, win' \in [Toplevels -> Window], Resorts, ~ locked
  PROVE  IF focus' = NONE THEN \A t \in Toplevels : ~ is_visible(win', t, active')
         ELSE is_visible(win', focus', active')
<1>1. refocus_seats(win', active') /\ tops' = tops
  BY DEF Resorts, qdwin_handle_move_toplevel_to_workspace, qdwin_set_active_workspace,
         qdwin_workspace_remove
<1>2. IF focus' = NONE THEN \A i \in DOMAIN tops : ~ is_visible(win', tops[i], active')
      ELSE is_visible(win', focus', active')
  BY <1>1, RefocusOK
<1>3. ASSUME NEW t \in Toplevels, is_visible(win', t, active')
      PROVE  \E i \in DOMAIN tops : tops[i] = t
  <2>1. win'[t].live
    BY <1>3 DEF is_visible
  <2> QED BY <1>1, <2>1 DEF ListOK, ListIsLive, Contains, live
<1> QED BY <1>2, <1>3

\* A change of workspaces leaves the focus on a visible window if there is one, and nothing
\* gains the focus behind the lock, for any windows and any number of workspaces
\* (qdwin_workspace_refocus_seats, qdwin_toplevel_autofocus_if_ready).
THEOREM SpecFocusSettles == Spec => FocusSettles
<1> DEFINE A == ~ locked /\ (active' # active
                  \/ \E t \in Toplevels : live(t) /\ live(t)' /\ win'[t].ws # win[t].ws)
                => IF focus' = NONE THEN \A t \in Toplevels : ~ is_visible(win', t, active')
                   ELSE is_visible(win', focus', active')
           B == locked => focus' \in {focus, NONE}
<1>1. LayersRight /\ [Next]_vars => [A]_vars /\ [B]_vars
  <2> SUFFICES ASSUME LayersRight, [Next]_vars PROVE A /\ B
    OBVIOUS
  <2>1. WindowsOK /\ ListOK /\ FocusOK
    BY InParts
  <2>2. Kept /\ (Resorts \/ SameWorkspaces)
    BY <2>1, StepOK
  <2>3. B
    BY <2>2 DEF Kept
  <2>4. CASE SameWorkspaces
    BY <2>3, <2>4 DEF SameWorkspaces, live
  <2>5. CASE Resorts
    <3>1. win' \in [Toplevels -> Window] /\ ListOK'
      BY <2>2 DEF Kept, WindowsOK
    <3>2. ~ locked => IF focus' = NONE THEN \A t \in Toplevels : ~ is_visible(win', t, active')
                      ELSE is_visible(win', focus', active')
      BY <2>1, <2>5, <3>1, ResortsSettle
    <3> QED BY <2>3, <3>2
  <2> QED BY <2>2, <2>3, <2>4, <2>5
<1> QED BY <1>1, SpecLayersRight, PTL DEF Spec, FocusSettles, RefocusSettles, NoFocusBehindTheLock
=============================================================================
