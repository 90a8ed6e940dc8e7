-------------------------- MODULE WorkspacesProofs --------------------------
(***************************************************************************)
(* The workspaces for any windows, clients and number of workspaces, and   *)
(* for batches of any length.  WorkspacesAgree is inductive.  A commit     *)
(* replays a batch: what one replayed request keeps, whatever its index,   *)
(* is carried along the batch by induction on its length.                  *)
(***************************************************************************)
EXTENDS Workspaces, WellFoundedInduction, TLAPS

Places == [Toplevels -> Nat \cup {NONE}]

\* The desktop, one client, all of them, and the shell.
DeskOK(d) ==
    /\ d \in Desks
    /\ d.active < d.count
    /\ \A t \in Toplevels : d.ws[t] # NONE => d.ws[t] < d.count

ManagerOK(r, d, ns) ==
    /\ r \in ManagerStates
    /\ r.bound => r.count = d.count /\ r.on = d.active
    /\ r.named = ns \cap r.handles

ManagersOK(M, d, ns) ==
    /\ M \in [Managers -> ManagerStates]
    /\ \A m \in Managers : ManagerOK(M[m], d, ns)

ToldOK(w, d) ==
    /\ w \in Places
    /\ shell => w = d.ws

\* What holds between two requests of a batch.
States == [desk : Desks, mgr : [Managers -> ManagerStates], told : Places]

Good(S) ==
    /\ S \in States
    /\ DeskOK(S.desk)
    /\ ManagersOK(S.mgr, S.desk, names)
    /\ ToldOK(S.told, S.desk)

\* No window passes another, none comes or goes; what is shown stays shown.
InOrder(d, e) ==
    \A t, u \in Toplevels :
        /\ d.ws[t] # NONE <=> e.ws[t] # NONE
        /\ d.ws[t] # NONE /\ d.ws[u] # NONE /\ d.ws[t] <= d.ws[u] => e.ws[t] <= e.ws[u]

StillShown(d, e) ==
    \A t \in Toplevels : d.ws[t] = d.active => e.ws[t] = e.active

Now == [desk |-> desk, mgr |-> mgr, told |-> told]

\* The invariant is these parts together.
LEMMA InParts ==
  WorkspacesAgree <=> /\ DeskOK(desk) /\ ManagersOK(mgr, desk, names) /\ ToldOK(told, desk)
                      /\ names \subseteq Nameable /\ shell \in BOOLEAN
BY DEF WorkspacesAgree, TypeOK, WorkspacesInRange, ManagersAgree, NamesAgree, WorkspaceTold,
       DeskOK, ManagersOK, ManagerOK, ToldOK, live, Places

-----------------------------------------------------------------------------
(* The helpers                                                              *)

\* New handles show the workspaces there are, under their names
\* (qdwin_ext_ws_manager_create_handles).
LEMMA CreateHandlesOK ==
  ASSUME NEW r \in ManagerStates, NEW d, DeskOK(d), NEW q, q = create_handles(r, d)
  PROVE  ManagerOK(q, d, names) /\ q.bound = r.bound /\ q.pending = r.pending
<1>1. d.count \in 1 .. MaxWorkspaces /\ d.active \in Nat
  BY DEF DeskOK, Desks
<1>2. 0 .. d.count - 1 \subseteq Indices
  BY <1>1, WorkspaceConstants DEF Indices
<1>3. /\ q.bound = r.bound /\ q.group = r.group /\ q.pending = r.pending
      /\ q.count = d.count /\ q.on = d.active /\ q.handles = 0 .. d.count - 1
      /\ q.named = names \cap 0 .. d.count - 1
  BY DEF create_handles, ManagerStates
<1>4. q \in ManagerStates
  <2>1. PICK h, n : h = 0 .. d.count - 1 /\ n = names \cap h
    OBVIOUS
  <2>2. h \in SUBSET Indices /\ n \in SUBSET Indices /\ d.count \in Nat
    BY <1>1, <1>2, <2>1, WorkspaceConstants
  <2>3. q = [r EXCEPT !.count = d.count, !.handles = h, !.on = d.active, !.named = n]
    BY <2>1 DEF create_handles
  <2> QED BY <1>1, <2>2, <2>3 DEF ManagerStates
<1> QED BY <1>3, <1>4 DEF ManagerOK

\* After a resync every client shows the workspaces there are (qdwin_ext_ws_resync_all).
LEMMA ResyncOK ==
  ASSUME NEW S \in States, DeskOK(S.desk), ToldOK(S.told, S.desk),
         \A m \in Managers : S.mgr[m].named = names \cap S.mgr[m].handles,
         NEW r, r = resync_all(S)
  PROVE  Good(r) /\ r.desk = S.desk
<1> DEFINE M == [m \in Managers |-> IF S.mgr[m].bound THEN create_handles(S.mgr[m], S.desk)
                                    ELSE S.mgr[m]]
<1>1. r.desk = S.desk /\ r.told = S.told /\ r.mgr = M /\ r = [S EXCEPT !.mgr = M]
  BY DEF resync_all, States
<1>2. ASSUME NEW m \in Managers PROVE ManagerOK(M[m], S.desk, names)
  <2>1. S.mgr[m] \in ManagerStates
    BY DEF States
  <2>2. PICK q : q = create_handles(S.mgr[m], S.desk)
    OBVIOUS
  <2>3. ManagerOK(q, S.desk, names)
    BY <2>1, <2>2, CreateHandlesOK
  <2> QED BY <2>1, <2>2, <2>3 DEF ManagerOK
<1>3. M \in [Managers -> ManagerStates]
  BY <1>2 DEF ManagerOK
<1> HIDE DEF M
<1>4. r \in States
  BY <1>1, <1>3 DEF States
<1> QED BY <1>1, <1>2, <1>3, <1>4 DEF Good, ManagersOK

\* After a broadcast every client has the active workspace marked
\* (qdwin_ext_ws_broadcast_state).
LEMMA BroadcastOK ==
  ASSUME NEW S \in States, DeskOK(S.desk), ToldOK(S.told, S.desk),
         \A m \in Managers : S.mgr[m].named = names \cap S.mgr[m].handles,
         \A m \in Managers : S.mgr[m].bound => S.mgr[m].count = S.desk.count,
         NEW r, r = broadcast_state(S)
  PROVE  Good(r) /\ r.desk = S.desk
<1> DEFINE M == [m \in Managers |-> IF S.mgr[m].bound THEN [S.mgr[m] EXCEPT !.on = S.desk.active]
                                    ELSE S.mgr[m]]
<1>1. r.desk = S.desk /\ r.told = S.told /\ r.mgr = M /\ r = [S EXCEPT !.mgr = M]
  BY DEF broadcast_state, States
<1>2. ASSUME NEW m \in Managers PROVE ManagerOK(M[m], S.desk, names)
  <2>1. S.mgr[m] \in ManagerStates /\ S.desk.active \in Nat
    BY DEF States, Desks
  <2>2. PICK q : q = [S.mgr[m] EXCEPT !.on = S.desk.active]
    OBVIOUS
  <2>3. /\ q \in ManagerStates /\ q.on = S.desk.active /\ q.bound = S.mgr[m].bound
        /\ q.count = S.mgr[m].count /\ q.named = S.mgr[m].named /\ q.handles = S.mgr[m].handles
    BY <2>1, <2>2 DEF ManagerStates
  <2>4. M[m] = IF S.mgr[m].bound THEN q ELSE S.mgr[m]
    BY <2>2
  <2> HIDE DEF M
  <2> QED BY <2>1, <2>3, <2>4 DEF ManagerOK
<1>3. M \in [Managers -> ManagerStates]
  BY <1>2 DEF ManagerOK
<1> HIDE DEF M
<1>4. r \in States
  BY <1>1, <1>3 DEF States
<1> QED BY <1>1, <1>2, <1>3, <1>4 DEF Good, ManagersOK

-----------------------------------------------------------------------------
(* One replayed request, whatever its index                                 *)

\* An index that has no workspace is ignored, any other becomes the active one
\* (qdwin_set_active_workspace).
LEMMA SetActiveOK ==
  ASSUME NEW S, Good(S), NEW i \in Nat, NEW r, r = set_active_workspace(S, i)
  PROVE  Good(r) /\ InOrder(S.desk, r.desk)
<1>1. CASE i >= S.desk.count
  BY <1>1 DEF set_active_workspace, InOrder
<1>2. CASE ~ (i >= S.desk.count)
  <2>1. PICK d : d = [S.desk EXCEPT !.active = i]
    OBVIOUS
  <2>2. PICK T : T = [S EXCEPT !.desk = d]
    OBVIOUS
  <2>3. S.desk \in Desks /\ S \in States
    BY DEF Good, States
  <2>4. d \in Desks /\ d.count = S.desk.count /\ d.active = i /\ d.ws = S.desk.ws
    BY <2>1, <2>3 DEF Desks
  <2>5. DeskOK(d)
    BY <1>2, <2>3, <2>4 DEF DeskOK, Good, Desks
  <2>6. T \in States /\ T.desk = d /\ T.mgr = S.mgr /\ T.told = S.told
    BY <2>2, <2>3, <2>4 DEF States
  <2>7. r = broadcast_state(T)
    BY <1>2, <2>1, <2>2 DEF set_active_workspace
  <2>8. Good(r) /\ r.desk = d
    BY <2>4, <2>5, <2>6, <2>7, BroadcastOK DEF Good, ManagersOK, ManagerOK, ToldOK
  <2> QED BY <2>4, <2>8 DEF InOrder
<1> QED BY <1>1, <1>2

\* One workspace more, up to the limit; no window and no active index changes
\* (qdwin_workspace_create).
LEMMA CreateOK ==
  ASSUME NEW S, Good(S), NEW r, r = workspace_create(S)
  PROVE  Good(r) /\ InOrder(S.desk, r.desk) /\ StillShown(S.desk, r.desk)
<1>1. CASE S.desk.count >= MaxWorkspaces
  BY <1>1 DEF workspace_create, InOrder, StillShown
<1>2. CASE ~ (S.desk.count >= MaxWorkspaces)
  <2>1. PICK d : d = [S.desk EXCEPT !.count = S.desk.count + 1]
    OBVIOUS
  <2>2. PICK T : T = [S EXCEPT !.desk = d]
    OBVIOUS
  <2>3. S.desk \in Desks /\ S \in States
    BY DEF Good, States
  <2>4. S.desk.count \in 1 .. MaxWorkspaces
    BY <2>3 DEF Desks
  <2>5. S.desk.count + 1 \in 1 .. MaxWorkspaces
    BY <1>2, <2>4, WorkspaceConstants
  <2>6. /\ d \in Desks /\ d.count = S.desk.count + 1 /\ d.active = S.desk.active
        /\ d.ws = S.desk.ws
    BY <2>1, <2>3, <2>5 DEF Desks
  <2>7. DeskOK(d)
    BY <2>3, <2>4, <2>6 DEF DeskOK, Good, Desks
  <2>8. T \in States /\ T.desk = d /\ T.mgr = S.mgr /\ T.told = S.told
    BY <2>2, <2>3, <2>6 DEF States
  <2>9. r = resync_all(T)
    BY <1>2, <2>1, <2>2 DEF workspace_create
  <2>10. Good(r) /\ r.desk = d
    BY <2>6, <2>7, <2>8, <2>9, ResyncOK DEF Good, ManagersOK, ManagerOK, ToldOK
  <2> QED BY <2>6, <2>10 DEF InOrder, StillShown
<1> QED BY <1>1, <1>2

\* Where a window goes when workspace i of c is removed: to one that is left, and not
\* past a window that was not before it (qdwin_workspace_remove).
LEMMA ShiftIs ==
  ASSUME NEW c \in Nat, c > 1, NEW i \in Nat, i < c, NEW v \in Nat, v < c, NEW w \in Nat, w < c
  PROVE  /\ shift_window(v, i) \in Nat /\ shift_window(v, i) < c - 1
         /\ v <= w => shift_window(v, i) <= shift_window(w, i)
         /\ shift_active(v, i, c - 1) = shift_window(v, i)
BY WorkspaceConstants DEF shift_window, shift_active

\* A removal moves windows and the active index alike, so that every index exists, the
\* order is kept and what is shown stays shown (qdwin_workspace_remove).
LEMMA RemoveOK ==
  ASSUME NEW S, Good(S), NEW i \in Nat, NEW r, r = workspace_remove(S, i)
  PROVE  Good(r) /\ InOrder(S.desk, r.desk) /\ StillShown(S.desk, r.desk)
<1>1. CASE S.desk.count <= 1 \/ i >= S.desk.count
  BY <1>1 DEF workspace_remove, InOrder, StillShown
<1>2. CASE ~ (S.desk.count <= 1 \/ i >= S.desk.count)
  <2>1. PICK c, a, w : /\ c = S.desk.count - 1 /\ a = shift_active(S.desk.active, i, c)
                       /\ w = [t \in Toplevels |-> shift_window(S.desk.ws[t], i)]
    OBVIOUS
  <2>2. PICK d : d = [count |-> c, active |-> a, ws |-> w]
    OBVIOUS
  <2>3. PICK T : T = [S EXCEPT !.desk = d]
    OBVIOUS
  <2>4. PICK U : U = emit_workspaces(T)
    OBVIOUS
  <2>5. r = resync_all(U)
    BY <1>2, <2>1, <2>2, <2>3, <2>4 DEF workspace_remove
  <2>6. /\ S \in States /\ S.desk \in Desks /\ S.desk.count \in Nat /\ S.desk.count > 1
        /\ S.desk.count <= MaxWorkspaces /\ i < S.desk.count
        /\ S.desk.active \in Nat /\ S.desk.active < S.desk.count
    BY <1>2, WorkspaceConstants DEF Good, States, Desks, DeskOK
  <2>7. c \in 1 .. MaxWorkspaces /\ S.desk.count = c + 1
    BY <2>1, <2>6, WorkspaceConstants
  <2>8. a = shift_window(S.desk.active, i) /\ a \in Nat /\ a < c
    BY <2>1, <2>6, ShiftIs
  <2>9. ASSUME NEW t \in Toplevels
        PROVE  /\ S.desk.ws[t] = NONE => w[t] = NONE
               /\ S.desk.ws[t] # NONE => /\ S.desk.ws[t] \in Nat /\ S.desk.ws[t] < S.desk.count
                                         /\ w[t] = shift_window(S.desk.ws[t], i)
                                         /\ w[t] \in Nat /\ w[t] < c
    <3>1. w[t] = shift_window(S.desk.ws[t], i) /\ S.desk.ws[t] \in Nat \cup {NONE}
      BY <2>1, <2>6 DEF Desks
    <3>2. S.desk.ws[t] # NONE => S.desk.ws[t] < S.desk.count
      BY DEF Good, DeskOK
    <3>3. CASE S.desk.ws[t] = NONE
      BY <3>1, <3>3 DEF shift_window
    <3>4. CASE S.desk.ws[t] # NONE
      BY <2>1, <2>6, <3>1, <3>2, <3>4, ShiftIs
    <3> QED BY <3>3, <3>4
  <2>10. w \in Places
    BY <2>1, <2>9 DEF Places
  <2>11. d \in Desks /\ d.count = c /\ d.active = a /\ d.ws = w
    BY <2>2, <2>7, <2>8, <2>10 DEF Desks, Places
  <2>12. DeskOK(d)
    BY <2>8, <2>9, <2>11, WorkspaceConstants DEF DeskOK
  <2>13. T \in States /\ T.desk = d /\ T.mgr = S.mgr /\ T.told = S.told
    BY <2>3, <2>6, <2>11 DEF States
  <2>14. U \in States /\ U.desk = d /\ U.mgr = S.mgr /\ U.told = IF shell THEN w ELSE S.told
    BY <2>4, <2>10, <2>11, <2>13 DEF States, emit_workspaces
  <2>15. ToldOK(U.told, U.desk)
    BY <2>10, <2>11, <2>14 DEF ToldOK, Good
  <2>16. Good(r) /\ r.desk = d
    BY <2>5, <2>12, <2>14, <2>15, ResyncOK DEF Good, ManagersOK, ManagerOK
  <2>17. InOrder(S.desk, d)
    <3> SUFFICES ASSUME NEW t \in Toplevels, NEW u \in Toplevels
                 PROVE  /\ S.desk.ws[t] # NONE <=> w[t] # NONE
                        /\ S.desk.ws[t] # NONE /\ S.desk.ws[u] # NONE
                           /\ S.desk.ws[t] <= S.desk.ws[u] => w[t] <= w[u]
      BY <2>11 DEF InOrder
    <3>1. S.desk.ws[t] # NONE <=> w[t] # NONE
      BY <2>9, WorkspaceConstants
    <3>2. ASSUME S.desk.ws[t] # NONE, S.desk.ws[u] # NONE, S.desk.ws[t] <= S.desk.ws[u]
          PROVE  w[t] <= w[u]
      <4>1. PICK v, x : v = S.desk.ws[t] /\ x = S.desk.ws[u]
        OBVIOUS
      <4>2. /\ v \in Nat /\ v < S.desk.count /\ x \in Nat /\ x < S.desk.count /\ v <= x
            /\ w[t] = shift_window(v, i) /\ w[u] = shift_window(x, i)
        BY <2>9, <3>2, <4>1
      <4>3. shift_window(v, i) <= shift_window(x, i)
        BY <2>6, <4>2, ShiftIs
      <4> QED BY <4>2, <4>3
    <3> QED BY <3>1, <3>2
  <2>18. StillShown(S.desk, d)
    BY <2>6, <2>8, <2>9, <2>11, WorkspaceConstants DEF StillShown
  <2> QED BY <2>16, <2>17, <2>18
<1> QED BY <1>1, <1>2

\* One request of a batch, against the workspaces as it finds them
\* (qdwin_ext_ws_manager_flush).
LEMMA ReplayOK ==
  ASSUME NEW S, Good(S), NEW op \in Ops, NEW r, r = Replay(S, op)
  PROVE  /\ Good(r) /\ InOrder(S.desk, r.desk)
         /\ op.kind # "activate" => StillShown(S.desk, r.desk)
<1>1. op.kind \in {"activate", "create", "remove"} /\ op.index \in Nat
  BY WorkspaceConstants DEF Ops, Indices
<1>2. CASE op.kind = "activate"
  BY <1>1, <1>2, SetActiveOK DEF Replay
<1>3. CASE op.kind = "create"
  BY <1>1, <1>3, CreateOK DEF Replay
<1>4. CASE op.kind = "remove"
  BY <1>1, <1>4, RemoveOK DEF Replay
<1> QED BY <1>1, <1>2, <1>3, <1>4

-----------------------------------------------------------------------------
(* A batch                                                                  *)

\* A set of numbers that is not empty has a least one.
LEMMA Least ==
  ASSUME NEW S \in SUBSET Nat, S # {}
  PROVE  \E i \in S : \A j \in S : i <= j
<1> DEFINE R == {ss \in Nat \X Nat : ss[1] < ss[2]}
<1>1. IsWellFoundedOn(R, Nat)
  BY NatLessThanWellFounded DEF OpToRel
<1>2. \E x \in S : \A y \in S : ~ (<<y, x>> \in R)
  <2> HIDE DEF R
  <2> QED BY <1>1, WFMin, Zenon
<1>3. PICK i \in S : \A y \in S : ~ (<<y, i>> \in R)
  BY <1>2
<1>4. \A y \in S : ~(y < i)
  BY <1>3, ZenonT(60)
<1> QED BY <1>4

\* f is what the requests up to the n-th make of s, one after the other.
Unrolls(f, s, ops, n) ==
    f = [k \in 0 .. n |-> IF k = 0 THEN s ELSE Replay(f[k - 1], ops[k])]

\* Induction on the number of requests: one more is replayed on what there is.
LEMMA Unrolled ==
  ASSUME NEW s, NEW ops, NEW n \in Nat
  PROVE  \E f : Unrolls(f, s, ops, n)
<1> DEFINE Bad == {k \in Nat : ~ \E f : Unrolls(f, s, ops, k)}
<1>1. ASSUME Bad # {} PROVE FALSE
  <2>1. Bad \in SUBSET Nat
    OBVIOUS
  <2>2. PICK k \in Bad : \A j \in Bad : k <= j
    <3> HIDE DEF Bad
    <3> QED BY <1>1, <2>1, Least
  <2>3. k \in Nat /\ ~ \E f : Unrolls(f, s, ops, k)
    BY <2>2
  <2>4. CASE k = 0
    <3>1. PICK f : f = [j \in 0 .. 0 |-> s]
      OBVIOUS
    <3>2. f = [j \in 0 .. 0 |-> IF j = 0 THEN s ELSE Replay(f[j - 1], ops[j])]
      BY <3>1
    <3> QED BY <2>3, <2>4, <3>2 DEF Unrolls
  <2>5. CASE k # 0
    <3>1. k - 1 \in Nat /\ k - 1 \notin Bad
      BY <2>2, <2>3, <2>5
    <3>2. PICK f : Unrolls(f, s, ops, k - 1)
      BY <3>1
    <3>3. \A j \in 0 .. k - 1 : f[j] = IF j = 0 THEN s ELSE Replay(f[j - 1], ops[j])
      BY <3>2 DEF Unrolls
    <3>4. PICK g : g = [j \in 0 .. k |-> IF j = k THEN Replay(f[k - 1], ops[k]) ELSE f[j]]
      OBVIOUS
    <3>5. ASSUME NEW j \in 0 .. k PROVE g[j] = IF j = 0 THEN s ELSE Replay(g[j - 1], ops[j])
      <4>1. j \in Int /\ 0 <= j /\ j <= k
        BY <2>3
      <4>2. CASE j = k
        <5>1. g[j] = Replay(f[k - 1], ops[k])
          BY <3>4, <4>2
        <5>2. g[k - 1] = f[k - 1]
          BY <2>3, <2>5, <3>4
        <5> QED BY <2>5, <4>2, <5>1, <5>2
      <4>3. CASE j # k
        <5>1. g[j] = f[j] /\ j \in 0 .. k - 1
          BY <2>3, <3>4, <4>1, <4>3
        <5>2. j # 0 => g[j - 1] = f[j - 1]
          BY <2>3, <3>4, <4>1, <4>3
        <5> QED BY <3>3, <5>1, <5>2
      <4> QED BY <4>2, <4>3
    <3>6. g = [j \in 0 .. k |-> IF j = 0 THEN s ELSE Replay(g[j - 1], ops[j])]
      BY <3>4, <3>5, Zenon
    <3> QED BY <2>3, <3>6 DEF Unrolls
  <2> QED BY <2>4, <2>5
<1> QED BY <1>1

\* The batch is replayed from what there is, request by request.
LEMMA ReplayedIs ==
  ASSUME NEW ops, Len(ops) \in Nat
  PROVE  \E f : Unrolls(f, Now, ops, Len(ops)) /\ Replayed(ops) = f[Len(ops)]
<1> DEFINE F == CHOOSE f : f = [k \in 0 .. Len(ops) |->
                                  IF k = 0 THEN Now ELSE Replay(f[k - 1], ops[k])]
<1>1. \E f : f = [k \in 0 .. Len(ops) |-> IF k = 0 THEN Now ELSE Replay(f[k - 1], ops[k])]
  <2>1. PICK f : Unrolls(f, Now, ops, Len(ops))
    BY Unrolled
  <2> QED BY <2>1 DEF Unrolls
<1>2. F = [k \in 0 .. Len(ops) |-> IF k = 0 THEN Now ELSE Replay(F[k - 1], ops[k])]
  BY <1>1
<1>3. Replayed(ops) = F[Len(ops)]
  BY DEF Replayed, Now
<1> HIDE DEF F
<1> QED BY <1>2, <1>3 DEF Unrolls

\* What a batch keeps from the desktop it began with.
Kept(S, quiet) ==
    /\ Good(S)
    /\ InOrder(desk, S.desk)
    /\ quiet => StillShown(desk, S.desk)

\* A request of a batch keeps what the ones before it kept.
LEMMA KeptOn ==
  ASSUME NEW S, NEW quiet \in BOOLEAN, Kept(S, quiet), NEW op \in Ops,
         quiet => op.kind # "activate", NEW r, r = Replay(S, op)
  PROVE  Kept(r, quiet)
<1>1. Good(r) /\ InOrder(S.desk, r.desk)
  BY ReplayOK DEF Kept
<1>2. quiet => StillShown(S.desk, r.desk)
  BY ReplayOK DEF Kept
<1>3. InOrder(desk, r.desk)
  BY <1>1 DEF Kept, InOrder
<1>4. quiet => StillShown(desk, r.desk)
  BY <1>2 DEF Kept, StillShown
<1> QED BY <1>1, <1>3, <1>4 DEF Kept

\* A batch of any length, staged against whatever workspaces there were then
\* (qdwin_ext_ws_manager_flush).
LEMMA BatchOK ==
  ASSUME Good(Now), NEW ops \in Seq(Ops), NEW r, r = Replayed(ops), NEW quiet \in BOOLEAN,
         quiet => \A k \in 1 .. Len(ops) : ops[k].kind # "activate"
  PROVE  Kept(r, quiet)
<1>1. Len(ops) \in Nat /\ \A k \in 1 .. Len(ops) : ops[k] \in Ops
  OBVIOUS
<1>2. PICK f : Unrolls(f, Now, ops, Len(ops)) /\ r = f[Len(ops)]
  BY <1>1, ReplayedIs
<1>3. \A k \in 0 .. Len(ops) : f[k] = IF k = 0 THEN Now ELSE Replay(f[k - 1], ops[k])
  BY <1>2 DEF Unrolls
<1>4. Kept(f[0], quiet)
  <2>1. f[0] = Now
    BY <1>1, <1>3
  <2>2. Now.desk = desk
    BY DEF Now
  <2> QED BY <2>1, <2>2 DEF Kept, InOrder, StillShown
<1> DEFINE Bad == {k \in 0 .. Len(ops) : ~ Kept(f[k], quiet)}
<1>5. ASSUME Bad # {} PROVE FALSE
  <2>1. Bad \in SUBSET Nat
    BY <1>1
  <2>2. PICK k \in Bad : \A j \in Bad : k <= j
    <3> HIDE DEF Bad
    <3> QED BY <1>5, <2>1, Least
  <2>3. k \in 0 .. Len(ops) /\ ~ Kept(f[k], quiet)
    BY <2>2
  <2>4. k # 0
    BY <1>4, <2>3
  <2>5. k \in 1 .. Len(ops) /\ k - 1 \in 0 .. Len(ops)
    BY <1>1, <2>3, <2>4
  <2>6. k - 1 \notin Bad
    <3> HIDE DEF Bad
    <3> QED BY <2>2, <2>5
  <2>7. Kept(f[k - 1], quiet)
    BY <2>5, <2>6
  <2>8. f[k] = Replay(f[k - 1], ops[k])
    BY <1>3, <2>3, <2>4
  <2>9. Kept(f[k], quiet)
    BY <1>1, <2>5, <2>7, <2>8, KeptOn
  <2> QED BY <2>3, <2>9
<1> QED BY <1>1, <1>2, <1>5

-----------------------------------------------------------------------------
(* The actions                                                              *)

\* A record of one client changes and the rest of the desktop does not.
LEMMA OneManager ==
  ASSUME WorkspacesAgree, NEW m \in Managers, NEW r, ManagerOK(r, desk, names),
         mgr' = [mgr EXCEPT ![m] = r], UNCHANGED <<desk, names, shell, told>>
  PROVE  WorkspacesAgree'
<1>1. ManagersOK(mgr, desk, names)
  BY InParts
<1>2. mgr' \in [Managers -> ManagerStates]
  BY <1>1 DEF ManagersOK, ManagerOK
<1>3. \A n \in Managers : ManagerOK(mgr'[n], desk, names)
  BY <1>1 DEF ManagersOK
<1>4. desk' = desk /\ names' = names /\ shell' = shell /\ told' = told
  OBVIOUS
<1> QED
  BY <1>2, <1>3, <1>4
  DEF WorkspacesAgree, TypeOK, WorkspacesInRange, ManagersAgree, NamesAgree, WorkspaceTold,
      ManagerOK, live

\* Binding, staging and destroying objects concern one client
\* (bind_ext_workspace_manager, qdwin_ext_ws_pending_add, the resource destructors).
LEMMA ClientStep ==
  ASSUME WorkspacesAgree, NEW m \in Managers,
         \/ bind_ext_workspace_manager(m)
         \/ \E i \in Indices, k \in {"activate", "remove"} : handle_request(m, k, i)
         \/ \E i \in Indices : handle_destroy(m, i)
         \/ group_create_workspace(m)
         \/ group_destroy(m)
         \/ manager_gone(m)
  PROVE  WorkspacesAgree'
<1>1. DeskOK(desk) /\ ManagersOK(mgr, desk, names)
  BY InParts
<1>2. ManagerOK(mgr[m], desk, names) /\ mgr[m] \in ManagerStates /\ mgr \in [Managers -> ManagerStates]
  BY <1>1 DEF ManagersOK, ManagerOK
<1>3. NoManager \in ManagerStates
  BY DEF NoManager, ManagerStates
<1>4. CASE bind_ext_workspace_manager(m)
  <2>1. PICK n : n = [NoManager EXCEPT !.bound = TRUE, !.group = TRUE]
    OBVIOUS
  <2>2. n \in ManagerStates
    BY <1>3, <2>1 DEF ManagerStates
  <2>3. PICK r : r = create_handles(n, desk)
    OBVIOUS
  <2>4. ManagerOK(r, desk, names)
    BY <1>1, <2>2, <2>3, CreateHandlesOK
  <2>5. mgr' = [mgr EXCEPT ![m] = r] /\ UNCHANGED <<desk, names, shell, told>>
    BY <1>4, <2>1, <2>3 DEF bind_ext_workspace_manager
  <2> QED BY <2>4, <2>5, OneManager
<1>5. ASSUME NEW op \in Ops, Stage(m, op) PROVE WorkspacesAgree'
  <2>1. PICK q : q = Append(mgr[m].pending, op)
    OBVIOUS
  <2>2. q \in Seq(Ops)
    BY <1>2, <2>1 DEF ManagerStates
  <2>3. PICK r : r = [mgr[m] EXCEPT !.pending = q]
    OBVIOUS
  <2>4. ManagerOK(r, desk, names)
    BY <1>2, <2>2, <2>3 DEF ManagerOK, ManagerStates
  <2>5. mgr' = [mgr EXCEPT ![m] = r] /\ UNCHANGED <<desk, names, shell, told>>
    BY <1>5, <2>1, <2>3 DEF Stage
  <2> QED BY <2>4, <2>5, OneManager
<1>6. CASE \E i \in Indices, k \in {"activate", "remove"} : handle_request(m, k, i)
  <2>1. PICK i \in Indices, k \in {"activate", "remove"} : handle_request(m, k, i)
    BY <1>6
  <2>2. [kind |-> k, index |-> i] \in Ops
    BY DEF Ops
  <2> QED BY <1>5, <2>1, <2>2 DEF handle_request
<1>7. CASE group_create_workspace(m)
  <2>1. [kind |-> "create", index |-> 0] \in Ops
    BY DEF Ops
  <2> QED BY <1>5, <1>7, <2>1 DEF group_create_workspace
<1>8. CASE \E i \in Indices : handle_destroy(m, i)
  <2>1. PICK i \in Indices : handle_destroy(m, i)
    BY <1>8
  <2>2. PICK h, n : h = mgr[m].handles \ {i} /\ n = mgr[m].named \ {i}
    OBVIOUS
  <2>3. PICK r : r = [mgr[m] EXCEPT !.handles = h, !.named = n]
    OBVIOUS
  <2>4. r \in ManagerStates /\ r.bound = mgr[m].bound /\ r.count = mgr[m].count
        /\ r.on = mgr[m].on /\ r.handles = h /\ r.named = n
    BY <1>2, <2>2, <2>3 DEF ManagerStates
  <2>5. ManagerOK(r, desk, names)
    BY <1>2, <2>2, <2>4 DEF ManagerOK
  <2>6. mgr' = [mgr EXCEPT ![m] = r] /\ UNCHANGED <<desk, names, shell, told>>
    BY <1>2, <2>1, <2>2, <2>3 DEF handle_destroy
  <2> QED BY <2>5, <2>6, OneManager
<1>9. CASE group_destroy(m)
  <2>1. PICK r : r = [mgr[m] EXCEPT !.group = FALSE]
    OBVIOUS
  <2>2. ManagerOK(r, desk, names)
    BY <1>2, <2>1 DEF ManagerOK, ManagerStates
  <2>3. mgr' = [mgr EXCEPT ![m] = r] /\ UNCHANGED <<desk, names, shell, told>>
    BY <1>9, <2>1 DEF group_destroy
  <2> QED BY <2>2, <2>3, OneManager
<1>10. CASE manager_gone(m)
  <2>1. ManagerOK(NoManager, desk, names)
    BY <1>3 DEF ManagerOK, NoManager
  <2>2. mgr' = [mgr EXCEPT ![m] = NoManager] /\ UNCHANGED <<desk, names, shell, told>>
    BY <1>10 DEF manager_gone
  <2> QED BY <2>1, <2>2, OneManager
<1> QED BY <1>4, <1>6, <1>7, <1>8, <1>9, <1>10

\* A commit keeps the invariant, and what a batch keeps (qdwin_ext_ws_manager_commit).
LEMMA CommitStep ==
  ASSUME WorkspacesAgree, NEW m \in Managers, manager_commit(m), NEW quiet \in BOOLEAN,
         quiet => \A k \in 1 .. Len(mgr[m].pending) : mgr[m].pending[k].kind # "activate"
  PROVE  /\ WorkspacesAgree'
         /\ InOrder(desk, desk')
         /\ quiet => StillShown(desk, desk')
<1>1. /\ DeskOK(desk) /\ ManagersOK(mgr, desk, names) /\ ToldOK(told, desk)
      /\ names \subseteq Nameable /\ shell \in BOOLEAN
  BY InParts
<1>2. Good(Now)
  <2>1. Now.desk = desk /\ Now.mgr = mgr /\ Now.told = told
    BY DEF Now
  <2>2. Now \in States
    BY <1>1 DEF Now, States, DeskOK, ManagersOK, ToldOK
  <2> QED BY <1>1, <2>1, <2>2 DEF Good
<1>3. mgr[m].pending \in Seq(Ops)
  BY <1>1 DEF ManagersOK, ManagerStates
<1>4. PICK S : S = Replayed(mgr[m].pending)
  OBVIOUS
<1>5. Kept(S, quiet)
  BY <1>2, <1>3, <1>4, BatchOK
<1>6. PICK r : r = [S.mgr[m] EXCEPT !.pending = <<>>]
  OBVIOUS
<1>7. /\ desk' = S.desk /\ mgr' = [S.mgr EXCEPT ![m] = r] /\ told' = S.told
      /\ names' = names /\ shell' = shell
  BY <1>4, <1>6 DEF manager_commit, manager_flush
<1>8. ManagersOK(S.mgr, S.desk, names) /\ DeskOK(S.desk) /\ ToldOK(S.told, S.desk)
  BY <1>5 DEF Kept, Good
<1>9. ManagerOK(r, S.desk, names)
  <2>1. ManagerOK(S.mgr[m], S.desk, names)
    BY <1>8 DEF ManagersOK
  <2>2. PICK q : q = S.mgr[m]
    OBVIOUS
  <2>3. r = [q EXCEPT !.pending = <<>>] /\ q \in ManagerStates
    BY <1>6, <2>1, <2>2 DEF ManagerOK
  <2>4. /\ r \in ManagerStates /\ r.bound = q.bound /\ r.count = q.count /\ r.on = q.on
        /\ r.named = q.named /\ r.handles = q.handles
    <3>1. <<>> \in Seq(Ops)
      OBVIOUS
    <3>2. PICK e : e = <<>>
      OBVIOUS
    <3>3. e \in Seq(Ops) /\ r = [q EXCEPT !.pending = e]
      BY <2>3, <3>1, <3>2
    <3> QED BY <2>3, <3>3 DEF ManagerStates
  <2> QED BY <2>1, <2>2, <2>4 DEF ManagerOK
<1>10. ManagersOK(mgr', S.desk, names)
  <2>1. mgr' \in [Managers -> ManagerStates]
    BY <1>7, <1>8, <1>9 DEF ManagersOK, ManagerOK
  <2>2. \A n \in Managers : ManagerOK(mgr'[n], S.desk, names)
    BY <1>7, <1>8, <1>9 DEF ManagersOK
  <2> QED BY <2>1, <2>2 DEF ManagersOK
<1>11. WorkspacesAgree'
  BY <1>1, <1>7, <1>8, <1>10
  DEF WorkspacesAgree, TypeOK, WorkspacesInRange, ManagersAgree, NamesAgree, WorkspaceTold,
      DeskOK, ManagersOK, ManagerOK, ToldOK, live, Places
<1> QED BY <1>5, <1>7, <1>11 DEF Kept

\* The windows and where the shell was told they are (surface_added, surface_removed,
\* qdwin_handle_move_toplevel_to_workspace).
LEMMA WindowStep ==
  ASSUME WorkspacesAgree, NEW t \in Toplevels, NEW w \in Nat \cup {NONE}, w # NONE => w < desk.count,
         desk' = [desk EXCEPT !.ws[t] = w],
         told' \in Places, shell => told' = [told EXCEPT ![t] = w],
         UNCHANGED <<mgr, names, shell>>
  PROVE  WorkspacesAgree'
<1>1. /\ desk \in Desks /\ desk.ws \in Places
      /\ \A u \in Toplevels : desk.ws[u] # NONE => desk.ws[u] < desk.count
  BY DEF WorkspacesAgree, TypeOK, Desks, Places, WorkspacesInRange, live
<1>2. /\ desk' \in Desks /\ desk'.count = desk.count /\ desk'.active = desk.active
      /\ desk'.ws = [desk.ws EXCEPT ![t] = w]
  BY <1>1 DEF Desks, Places
<1>3. TypeOK'
  BY <1>2 DEF WorkspacesAgree, TypeOK, Places
<1>4. WorkspacesInRange'
  BY <1>1, <1>2 DEF WorkspacesAgree, WorkspacesInRange, live, Places
<1>5. WorkspaceTold'
  BY <1>2 DEF WorkspacesAgree, WorkspaceTold
<1> QED BY <1>2, <1>3, <1>4, <1>5 DEF WorkspacesAgree, ManagersAgree, NamesAgree

\* A name reaches every client that has the handle (qdwin_ext_ws_broadcast_name).
LEMMA NameStep ==
  ASSUME WorkspacesAgree, NEW i \in Nameable, set_workspace_name(i)
  PROVE  WorkspacesAgree'
<1>1. /\ names' \in {names \cup {i}, names \ {i}}
      /\ mgr' = [m \in Managers |-> IF i \in mgr[m].handles
                                    THEN [mgr[m] EXCEPT !.named = names' \cap (mgr[m].named \cup {i})]
                                    ELSE mgr[m]]
      /\ UNCHANGED <<desk, shell, told>>
  BY DEF set_workspace_name, broadcast_name
<1>2. DeskOK(desk) /\ ManagersOK(mgr, desk, names) /\ ToldOK(told, desk)
      /\ names' \subseteq Nameable /\ shell \in BOOLEAN
  BY <1>1, InParts
<1>3. ASSUME NEW m \in Managers PROVE ManagerOK(mgr'[m], desk, names')
  <2>1. ManagerOK(mgr[m], desk, names)
    BY <1>2 DEF ManagersOK
  <2>2. PICK n : n = names' \cap (mgr[m].named \cup {i})
    OBVIOUS
  <2>3. PICK r : r = [mgr[m] EXCEPT !.named = n]
    OBVIOUS
  <2>4. mgr'[m] = IF i \in mgr[m].handles THEN r ELSE mgr[m]
    BY <1>1, <2>2, <2>3
  <2>5. CASE i \in mgr[m].handles
    <3>1. n = names' \cap mgr[m].handles
      BY <1>1, <2>1, <2>2, <2>5 DEF ManagerOK
    <3>2. n \in SUBSET Indices
      BY <2>1, <3>1 DEF ManagerOK, ManagerStates
    <3>3. r \in ManagerStates /\ r.bound = mgr[m].bound /\ r.count = mgr[m].count
          /\ r.on = mgr[m].on /\ r.handles = mgr[m].handles /\ r.named = n
      BY <2>1, <2>3, <3>2 DEF ManagerOK, ManagerStates
    <3> QED BY <2>1, <2>4, <2>5, <3>1, <3>3 DEF ManagerOK
  <2>6. CASE i \notin mgr[m].handles
    <3>1. names \cap mgr[m].handles = names' \cap mgr[m].handles
      BY <1>1, <2>6
    <3> QED BY <2>1, <2>4, <2>6, <3>1 DEF ManagerOK
  <2> QED BY <2>5, <2>6
<1>4. mgr' \in [Managers -> ManagerStates]
  BY <1>1, <1>3 DEF ManagerOK
<1> QED
  BY <1>1, <1>2, <1>3, <1>4
  DEF WorkspacesAgree, TypeOK, WorkspacesInRange, ManagersAgree, NamesAgree, WorkspaceTold,
      DeskOK, ManagersOK, ManagerOK, ToldOK, live, Places

\* Every step keeps the invariant.
LEMMA StepOK == WorkspacesAgree /\ [Next]_vars => WorkspacesAgree'
<1> SUFFICES ASSUME WorkspacesAgree, [Next]_vars PROVE WorkspacesAgree'
  OBVIOUS
<1>1. /\ desk \in Desks /\ desk.ws \in Places /\ told \in Places
      /\ desk.active \in Nat /\ desk.active < desk.count
  BY DEF WorkspacesAgree, TypeOK, Desks, Places, WorkspacesInRange
<1>2. ASSUME NEW m \in Managers, manager_commit(m) PROVE WorkspacesAgree'
  BY <1>2, CommitStep
<1>3. ASSUME NEW t \in Toplevels, surface_added(t) PROVE WorkspacesAgree'
  <2>1. /\ desk' = [desk EXCEPT !.ws[t] = desk.active]
        /\ told' = IF shell THEN [told EXCEPT ![t] = desk.active] ELSE told
        /\ UNCHANGED <<mgr, names, shell>>
    BY <1>3 DEF surface_added
  <2>2. told' \in Places
    BY <1>1, <2>1 DEF Places
  <2> QED BY <1>1, <2>1, <2>2, WindowStep
<1>4. ASSUME NEW t \in Toplevels, surface_removed(t) PROVE WorkspacesAgree'
  <2>1. /\ desk' = [desk EXCEPT !.ws[t] = NONE] /\ told' = [told EXCEPT ![t] = NONE]
        /\ UNCHANGED <<mgr, names, shell>>
    BY <1>4 DEF surface_removed
  <2>2. told' \in Places
    BY <1>1, <2>1 DEF Places
  <2> QED BY <2>1, <2>2, WindowStep
<1>5. ASSUME NEW t \in Toplevels, NEW i \in Indices, move_toplevel_to_workspace(t, i)
      PROVE  WorkspacesAgree'
  <2>1. /\ i < desk.count /\ i \in Nat
        /\ desk' = [desk EXCEPT !.ws[t] = i] /\ told' = [told EXCEPT ![t] = i]
        /\ UNCHANGED <<mgr, names, shell>>
    BY <1>5, WorkspaceConstants DEF move_toplevel_to_workspace, Indices
  <2>2. told' \in Places
    BY <1>1, <2>1 DEF Places
  <2> QED BY <2>1, <2>2, WindowStep
<1>6. CASE bind_as_shell \/ shell_gone
  <2>1. told' \in Places /\ shell' \in BOOLEAN /\ (shell' => told' = desk.ws)
        /\ UNCHANGED <<desk, mgr, names>>
    BY <1>1, <1>6 DEF bind_as_shell, shell_gone, Places
  <2> QED
    BY <2>1
    DEF WorkspacesAgree, TypeOK, WorkspacesInRange, ManagersAgree, NamesAgree, WorkspaceTold,
        live, Places
<1>7. CASE UNCHANGED vars
  BY <1>7 DEF vars, WorkspacesAgree, TypeOK, WorkspacesInRange, ManagersAgree, NamesAgree,
              WorkspaceTold, live
<1> QED BY <1>2, <1>3, <1>4, <1>5, <1>6, <1>7, ClientStep, NameStep DEF Next

\* The invariant holds of the state the compositor starts in (wet_shell_init).
LEMMA InitOK == Init => WorkspacesAgree
<1> SUFFICES ASSUME Init PROVE WorkspacesAgree
  OBVIOUS
<1>1. /\ desk \in Desks /\ desk.count = FirstCount /\ desk.active = 0
      /\ desk.ws = [t \in Toplevels |-> NONE]
  BY WorkspaceConstants DEF Init, Desks
<1>2. NoManager \in ManagerStates
  BY DEF NoManager, ManagerStates
<1>3. mgr \in [Managers -> ManagerStates] /\ \A m \in Managers : mgr[m] = NoManager
  BY <1>2 DEF Init
<1>4. TypeOK
  BY <1>1, <1>3 DEF Init, TypeOK
<1>5. WorkspacesInRange
  BY <1>1, WorkspaceConstants DEF WorkspacesInRange, live
<1>6. ManagersAgree /\ NamesAgree
  BY <1>3 DEF Init, ManagersAgree, NamesAgree, NoManager
<1> QED BY <1>4, <1>5, <1>6 DEF Init, WorkspacesAgree, WorkspaceTold

-----------------------------------------------------------------------------

\* The desktop, its ext-workspace clients and the shell agree on the workspaces, however
\* stale the requests of a batch are when it is committed (qdwin_ext_ws_manager_flush).
THEOREM SpecWorkspacesAgree == Spec => []WorkspacesAgree
BY InitOK, StepOK, PTL DEF Spec

\* A commit, of any batch, carries no window past another and, when it activates no
\* workspace, hides no window that is shown (qdwin_workspace_remove).
THEOREM SpecCommitKeepsDesktop == Spec => CommitKeepsDesktop
<1> DEFINE Order == \A m \in Managers : manager_commit(m) =>
                      \A t, u \in Toplevels : live(t) /\ live(u) /\ desk.ws[t] <= desk.ws[u]
                                                  => desk'.ws[t] <= desk'.ws[u]
           Shown == \A m \in Managers :
                      manager_commit(m)
                      /\ (\A k \in 1 .. Len(mgr[m].pending) : mgr[m].pending[k].kind # "activate")
                          => \A t \in Toplevels : desk.ws[t] = desk.active
                                                      => desk'.ws[t] = desk'.active
<1>1. ASSUME WorkspacesAgree PROVE Order
  <2> SUFFICES ASSUME NEW m \in Managers, manager_commit(m) PROVE InOrder(desk, desk')
    BY DEF InOrder, live
  <2> QED BY <1>1, CommitStep
<1>2. ASSUME WorkspacesAgree PROVE Shown
  <2> SUFFICES ASSUME NEW m \in Managers, manager_commit(m),
                      \A k \in 1 .. Len(mgr[m].pending) : mgr[m].pending[k].kind # "activate"
               PROVE  StillShown(desk, desk')
    BY DEF StillShown
  <2> QED BY <1>2, CommitStep
<1>3. WorkspacesAgree => [Order]_vars /\ [Shown]_vars
  BY <1>1, <1>2
<1> HIDE DEF Order, Shown
<1>4. Spec => [][Order]_vars /\ [][Shown]_vars
  BY <1>3, SpecWorkspacesAgree, PTL
<1> USE DEF Order, Shown
<1> QED BY <1>4 DEF CommitKeepsDesktop, CommitKeepsOrder, ShownStaysShown
=============================================================================
