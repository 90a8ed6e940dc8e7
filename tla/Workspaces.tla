------------------------------ MODULE Workspaces ------------------------------
(***************************************************************************)
(* The workspaces and their ext-workspace-v1 clients.  Workspaces are       *)
(* positions 0 .. count-1, exactly one of them active; every window carries *)
(* the position of its own.  Clients hold a manager each, stage requests on *)
(* their handles and apply them with a commit; what a commit changes is     *)
(* announced to every manager, and where the windows went to the shell.     *)
(*                                                                         *)
(* A workspace name is its index being in names or not (a custom name, or   *)
(* the positional default); one group spans the desktop, and its            *)
(* output_enter and output_leave events are left out.  What a workspace     *)
(* change does to layers and focus is WindowLayers.                         *)
(***************************************************************************)
EXTENDS Integers, Sequences, Functions

CONSTANTS Toplevels,
          Managers,
          MaxWorkspaces,   \* QDWIN_MAX_WORKSPACES
          FirstCount,      \* QDWIN_DEFAULT_WORKSPACES, or QDWIN_WORKSPACE_COUNT
          MaxStaged,       \* BOUND: requests staged at a time, over all clients
          Nameable,        \* BOUND: the indices the shell names
          NONE

ASSUME WorkspaceConstants ==
    /\ MaxWorkspaces \in Nat
    /\ FirstCount \in 1 .. MaxWorkspaces     \* QDWIN_WORKSPACE_COUNT is ignored outside
    /\ NONE \notin Nat

VARIABLES desk,     \* [count, active, ws]: workspace_count, active_workspace, tl->workspace
          mgr,      \* struct qdwin_ext_ws_manager, with what its client was told
          names,    \* the indices whose workspace_names[] entry is set
          shell,    \* qdwin->shell_bound
          told      \* the toplevel_workspace last sent to the bound shell

vars == <<desk, mgr, names, shell, told>>

Indices == 0 .. MaxWorkspaces - 1
Ops == [kind : {"activate", "remove"}, index : Indices] \cup [kind : {"create"}, index : {0}]

\* handles: the slots whose client still has the handle; on, named: the active
\* index and the custom names its events last showed.
NoManager == [bound |-> FALSE, group |-> FALSE, count |-> 0, handles |-> {},
              on |-> 0, named |-> {}, pending |-> <<>>]

Init ==
    /\ desk = [count |-> FirstCount, active |-> 0, ws |-> [t \in Toplevels |-> NONE]]
    /\ mgr = [m \in Managers |-> NoManager]
    /\ names = {}
    /\ shell = FALSE
    /\ told = [t \in Toplevels |-> NONE]

live(t) == desk.ws[t] # NONE

-----------------------------------------------------------------------------
(* A definition ending in _bad is a faulty variant of the one that follows   *)
(* it, kept to show that the properties notice the fault.                    *)

\* qdwin_ext_ws_manager_create_handles, after destroy_handles on a resync.
create_handles(r, d) ==
    [r EXCEPT !.count = d.count, !.handles = 0 .. d.count - 1, !.on = d.active,
              !.named = names \cap 0 .. d.count - 1]

resync_all(S) ==
    [S EXCEPT !.mgr = [m \in Managers |->
        IF S.mgr[m].bound THEN create_handles(S.mgr[m], S.desk) ELSE S.mgr[m]]]

broadcast_state_bad(S) ==
    [S EXCEPT !.mgr = [m \in Managers |->
        IF S.mgr[m].bound /\ S.mgr[m].pending # <<>> THEN [S.mgr[m] EXCEPT !.on = S.desk.active]
        ELSE S.mgr[m]]]

broadcast_state(S) ==
    [S EXCEPT !.mgr = [m \in Managers |->
        IF S.mgr[m].bound THEN [S.mgr[m] EXCEPT !.on = S.desk.active] ELSE S.mgr[m]]]

set_active_workspace(S, i) ==
    IF i >= S.desk.count THEN S
    ELSE broadcast_state([S EXCEPT !.desk = [S.desk EXCEPT !.active = i]])

workspace_create(S) ==
    IF S.desk.count >= MaxWorkspaces THEN S
    ELSE resync_all([S EXCEPT !.desk = [S.desk EXCEPT !.count = S.desk.count + 1]])

\* Windows of the removed workspace fall back one slot, those above shift down.
shift_window_bad(w, i) ==
    IF w = NONE THEN NONE
    ELSE IF w = i THEN 0
    ELSE IF w > i THEN w - 1 ELSE w

shift_window(w, i) ==
    IF w = NONE THEN NONE
    ELSE IF w = i THEN IF i > 0 THEN i - 1 ELSE 0
    ELSE IF w > i THEN w - 1 ELSE w

shift_active(a, i, c) ==
    LET b == IF a > i \/ (a = i /\ i > 0) THEN a - 1 ELSE a
    IN  IF b >= c THEN c - 1 ELSE b

emit_workspaces(S) ==
    IF shell THEN [S EXCEPT !.told = S.desk.ws] ELSE S

workspace_remove(S, i) ==
    IF S.desk.count <= 1 \/ i >= S.desk.count THEN S
    ELSE LET d == [count |-> S.desk.count - 1,
                   active |-> shift_active(S.desk.active, i, S.desk.count - 1),
                   ws |-> [t \in Toplevels |-> shift_window(S.desk.ws[t], i)]]
         IN  resync_all(emit_workspaces([S EXCEPT !.desk = d]))

Replay(S, op) ==
    CASE op.kind = "activate" -> set_active_workspace(S, op.index)
      [] op.kind = "create"   -> workspace_create(S)
      [] op.kind = "remove"   -> workspace_remove(S, op.index)

-----------------------------------------------------------------------------
(* Requests of ext-workspace clients                                         *)

bind_ext_workspace_manager(m) ==
    /\ ~ mgr[m].bound
    /\ mgr' = [mgr EXCEPT ![m] = create_handles([NoManager EXCEPT !.bound = TRUE, !.group = TRUE], desk)]
    /\ UNCHANGED <<desk, names, shell, told>>

\* qdwin_ext_ws_pending_add
Stage(m, op) ==
    /\ FoldFunction(LAMBDA r, n : n + Len(r.pending), 0, mgr) < MaxStaged
    /\ mgr' = [mgr EXCEPT ![m].pending = Append(@, op)]
    /\ UNCHANGED <<desk, names, shell, told>>

\* A handle the client was told is removed has lost its manager: inert.
handle_request(m, kind, i) ==
    /\ i \in mgr[m].handles
    /\ Stage(m, [kind |-> kind, index |-> i])

group_create_workspace(m) ==
    /\ mgr[m].group
    /\ Stage(m, [kind |-> "create", index |-> 0])

\* BOUND: one object destroyed at a time.
Intact == \A m \in Managers : mgr[m].bound => mgr[m].group /\ mgr[m].handles = 0 .. mgr[m].count - 1

handle_destroy(m, i) ==
    /\ i \in mgr[m].handles
    /\ Intact
    /\ mgr' = [mgr EXCEPT ![m].handles = @ \ {i}, ![m].named = @ \ {i}]
    /\ UNCHANGED <<desk, names, shell, told>>

group_destroy(m) ==
    /\ mgr[m].group
    /\ Intact
    /\ mgr' = [mgr EXCEPT ![m].group = FALSE]
    /\ UNCHANGED <<desk, names, shell, told>>

\* The staged requests, front to back, against the workspaces as each finds them.
Replayed(ops) ==
    LET S[n \in 0 .. Len(ops)] ==
            IF n = 0 THEN [desk |-> desk, mgr |-> mgr, told |-> told]
            ELSE Replay(S[n - 1], ops[n])
    IN  S[Len(ops)]

manager_flush(m) ==
    LET S == Replayed(mgr[m].pending)
    IN  /\ desk' = S.desk
        /\ mgr' = [S.mgr EXCEPT ![m] = [S.mgr[m] EXCEPT !.pending = <<>>]]
        /\ told' = S.told

manager_commit(m) ==
    /\ mgr[m].bound
    /\ mgr[m].pending # <<>>
    /\ manager_flush(m)
    /\ UNCHANGED <<names, shell>>

\* stop, or the client disconnects: what it staged is discarded.
manager_gone(m) ==
    /\ mgr[m].bound
    /\ mgr' = [mgr EXCEPT ![m] = NoManager]
    /\ UNCHANGED <<desk, names, shell, told>>

-----------------------------------------------------------------------------
(* The shell and the windows                                                 *)

\* bind_as_shell replays toplevel_added, with the workspace, for every toplevel.
bind_as_shell ==
    /\ ~ shell
    /\ shell' = TRUE
    /\ told' = desk.ws
    /\ UNCHANGED <<desk, mgr, names>>

\* Custom names survive the shell.
shell_gone ==
    /\ shell
    /\ shell' = FALSE
    /\ told' = [t \in Toplevels |-> NONE]
    /\ UNCHANGED <<desk, mgr, names>>

surface_added(t) ==
    /\ ~ live(t)
    /\ desk' = [desk EXCEPT !.ws[t] = desk.active]
    /\ told' = IF shell THEN [told EXCEPT ![t] = desk.active] ELSE told
    /\ UNCHANGED <<mgr, names, shell>>

surface_removed(t) ==
    /\ live(t)
    /\ desk' = [desk EXCEPT !.ws[t] = NONE]
    /\ told' = [told EXCEPT ![t] = NONE]
    /\ UNCHANGED <<mgr, names, shell>>

\* An index past the last workspace is ignored; a move to where the window already is
\* is answered all the same.
move_toplevel_to_workspace(t, i) ==
    /\ shell
    /\ live(t)
    /\ i < desk.count
    /\ desk' = [desk EXCEPT !.ws[t] = i]
    /\ told' = [told EXCEPT ![t] = i]
    /\ UNCHANGED <<mgr, names, shell>>

broadcast_name(i) ==
    mgr' = [m \in Managers |->
        IF i \in mgr[m].handles THEN [mgr[m] EXCEPT !.named = names' \cap (@ \cup {i})] ELSE mgr[m]]

\* A name may be set ahead of the workspace it is for.
set_workspace_name(i) ==
    /\ shell
    /\ names' \in {names \cup {i}, names \ {i}} \ {names}
    /\ broadcast_name(i)
    /\ UNCHANGED <<desk, shell, told>>

-----------------------------------------------------------------------------
Next ==
    \/ \E m \in Managers :
          \/ bind_ext_workspace_manager(m)
          \/ \E i \in Indices, k \in {"activate", "remove"} : handle_request(m, k, i)
          \/ \E i \in Indices : handle_destroy(m, i)
          \/ group_create_workspace(m)
          \/ group_destroy(m)
          \/ manager_commit(m)
          \/ manager_gone(m)
    \/ \E t \in Toplevels :
          \/ surface_added(t)
          \/ surface_removed(t)
          \/ \E i \in Indices : move_toplevel_to_workspace(t, i)
    \/ bind_as_shell
    \/ shell_gone
    \/ \E i \in Nameable : set_workspace_name(i)

Spec == Init /\ [][Next]_vars

-----------------------------------------------------------------------------
(* Properties                                                                *)

Desks == [count : 1 .. MaxWorkspaces, active : Nat, ws : [Toplevels -> Nat \cup {NONE}]]
ManagerStates == [bound : BOOLEAN, group : BOOLEAN, count : Nat, handles : SUBSET Indices,
                  on : Nat, named : SUBSET Indices, pending : Seq(Ops)]

\* Every variable has its type; indices that are staged are those of handles.
TypeOK ==
    /\ desk \in Desks
    /\ mgr \in [Managers -> ManagerStates]
    /\ names \subseteq Nameable
    /\ shell \in BOOLEAN
    /\ told \in [Toplevels -> Nat \cup {NONE}]

\* However stale a staged index is by the time it is replayed (qdwin.c:11256 and
\* 11290 check it then), the active workspace and every window's are workspaces
\* that exist, and there is always one.
WorkspacesInRange ==
    /\ desk.active < desk.count
    /\ \A t \in Toplevels : live(t) => desk.ws[t] < desk.count

\* Every bound manager has the workspaces there are, with the active one marked,
\* whoever committed the change (resync_all and broadcast_state reach all of them).
ManagersAgree ==
    \A m \in Managers : mgr[m].bound =>
        /\ mgr[m].count = desk.count
        /\ mgr[m].on = desk.active

\* A handle shows the custom name of its index if and only if the shell set one,
\* also when the name was set before the workspace existed (qdwin.c:9530).
NamesAgree ==
    \A m \in Managers : mgr[m].named = names \cap mgr[m].handles

\* The shell knows the workspace of every window, after a removal shifted them too
\* (qdwin.c:11312 refreshes the sidecar).
WorkspaceTold ==
    shell => told = desk.ws

\* A commit never carries one window past another: those on one workspace stay
\* together, the others stay in order (qdwin_workspace_remove's renumbering).
CommitKeepsOrder ==
    [][\A m \in Managers : manager_commit(m) =>
          \A t, u \in Toplevels : live(t) /\ live(u) /\ desk.ws[t] <= desk.ws[u]
                                      => desk'.ws[t] <= desk'.ws[u]]_vars

\* Removing and creating workspaces, in any batch that activates none, leaves every
\* window that is shown shown: the active index follows the windows it showed.
ShownStaysShown ==
    [][\A m \in Managers :
          manager_commit(m) /\ (\A k \in 1 .. Len(mgr[m].pending) : mgr[m].pending[k].kind # "activate")
              => \A t \in Toplevels : desk.ws[t] = desk.active => desk'.ws[t] = desk'.active]_vars

\* The desktop, its ext-workspace clients and the shell agree on the workspaces: all
\* indices exist, every client shows the same ones under the same names, and the shell
\* knows where every window is (qdwin_workspace_remove, qdwin_ext_ws_resync_all).
WorkspacesAgree ==
    /\ TypeOK
    /\ WorkspacesInRange
    /\ ManagersAgree
    /\ NamesAgree
    /\ WorkspaceTold

\* A commit renumbers workspaces without carrying one window past another and without
\* hiding what is shown (qdwin_ext_ws_manager_flush, qdwin_workspace_remove).
CommitKeepsDesktop ==
    CommitKeepsOrder /\ ShownStaysShown
=============================================================================
