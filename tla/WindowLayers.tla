---------------------------- MODULE WindowLayers ----------------------------
(***************************************************************************)
(* Which windows are on the screen: the layers a window and its chrome      *)
(* are moved between by minimise, raise, click, activation, workspace       *)
(* changes, unmapping and the lock, and the keyboard focus that follows.    *)
(*                                                                         *)
(* A view is in the list of a layer and, separately, mapped (painted) or    *)
(* not: libweston unmaps a view that is moved to a layer with no position,  *)
(* which the minimised and hidden layers never have and the others lose     *)
(* while locked.  One seat with a keyboard; the locker's own window is      *)
(* QdwinLock's, nested proxies are left out, and so is everything else a    *)
(* focus can be on.                                                         *)
(***************************************************************************)
EXTENDS Integers, Sequences

CONSTANTS Toplevels,
          MaxWorkspaces,   \* QDWIN_MAX_WORKSPACES
          NONE

ASSUME LayerConstants == NONE \notin Toplevels /\ MaxWorkspaces \in Nat

VARIABLES win,      \* struct qdwin_toplevel of every toplevel
          tops,     \* qdwin->toplevels, newest first
          stack,    \* the content views in normal_layer's list, top first
          active,   \* qdwin->active_workspace
          count,    \* qdwin->workspace_count
          locked,   \* qdwin->locked: the normal layer has no position
          focus,    \* keyboard->focus
          idle,     \* tr->focus_recover_idle is queued
          astray    \* history: windows some request took off the layer of their state

vars == <<win, tops, stack, active, count, locked, focus, idle, astray>>

Layers == {"none", "normal", "minimized", "hidden"}
NoView == [layer |-> "none", mapped |-> FALSE]

\* surf: the surface is mapped; view: the content view; chrome: its decoration,
\* [layer, mapped] like view, "none" when there is none.
NoWindow == [live |-> FALSE, surf |-> FALSE, min |-> FALSE, ws |-> 0,
             view |-> NoView, chrome |-> NoView]

Init ==
    /\ win = [t \in Toplevels |-> NoWindow]
    /\ tops = <<>>
    /\ stack = <<>>
    /\ active = 0
    /\ count \in 1 .. MaxWorkspaces
    /\ locked = FALSE
    /\ focus = NONE
    /\ idle = FALSE
    /\ astray = {}

Contains(s, e) == \E i \in DOMAIN s : s[i] = e
Once(s) == \A i, j \in DOMAIN s : s[i] = s[j] => i = j
Reverse(s) == [i \in 1 .. Len(s) |-> s[Len(s) + 1 - i]]

live(t) == win[t].live
Has(v) == v.layer # "none"

-----------------------------------------------------------------------------
(* A definition ending in _bad is a faulty variant of the one that follows   *)
(* it, kept to show that the properties notice the fault.                    *)

\* weston_view_move_to_layer
Moved(layer) == [layer |-> layer, mapped |-> layer = "normal" /\ ~ locked]

move_to_layer(w, layer) ==
    [w EXCEPT !.view = Moved(layer), !.chrome = IF Has(@) THEN Moved(layer) ELSE @]

apply_workspace_visibility_bad(w, a) ==
    move_to_layer(w, IF w.ws = a THEN "normal" ELSE "hidden")

apply_workspace_visibility(w, a) ==
    IF ~ w.live \/ w.min THEN w
    ELSE move_to_layer(w, IF w.ws = a THEN "normal" ELSE "hidden")

\* qdwin_toplevel_is_visible; W: the windows, a: the active workspace.
is_visible(W, t, a) == W[t].live /\ ~ W[t].min /\ W[t].ws = a /\ W[t].surf

\* The head-most visible toplevel of the list, NONE if there is none.
first_visible(W, a) ==
    LET seen == {i \in DOMAIN tops : is_visible(W, tops[i], a)}
    IN  IF seen = {} THEN NONE ELSE tops[CHOOSE i \in seen : \A j \in seen : i <= j]

\* wl_list_remove of the i-th link, and of t's.
Without(s, i) == SubSeq(s, 1, i - 1) \o SubSeq(s, i + 1, Len(s))
Unlinked(t) == Without(tops, CHOOSE j \in DOMAIN tops : tops[j] = t)

\* The normal layer's list after these windows were moved, in this order: each one
\* moved there goes on top.
Restack(W, moved) ==
    LET keep == SelectSeq(stack, LAMBDA t : W[t].view.layer = "normal" /\ ~ Contains(moved, t))
        put == SelectSeq(moved, LAMBDA t : W[t].view.layer = "normal")
    IN  Reverse(put) \o keep

-----------------------------------------------------------------------------
(* Bookkeeping                                                               *)

ItsLayer(w, a) ==
    IF w.min THEN "minimized" ELSE IF w.ws = a THEN "normal" ELSE "hidden"

InItsLayer(w, a) ==
    /\ w.view.layer = ItsLayer(w, a)
    /\ Has(w.chrome) => w.chrome.layer = w.view.layer

\* Taken astray by this step, or before it and not yet back.
Stray(ts) ==
    astray' = {t \in astray \cup ts : win'[t].live /\ ~ InItsLayer(win'[t], active')}

\* weston_keyboard_set_focus; when it drops to nothing the recovery is queued, once.
SetFocus(f) ==
    /\ focus' = f
    /\ idle' = (idle \/ (f = NONE /\ focus # NONE /\ ~ locked))

KeepFocus == UNCHANGED <<focus, idle>>

refocus_seats(W, a) ==
    IF locked \/ (focus # NONE /\ is_visible(W, focus, a)) THEN KeepFocus
    ELSE SetFocus(first_visible(W, a))

\* One window changes, and is put on top if the step moved it to the normal layer.
SetWindow(t, w) ==
    /\ win' = [win EXCEPT ![t] = w]
    /\ stack' = Restack(win', <<t>>)
    /\ UNCHANGED <<tops, active, count, locked>>

-----------------------------------------------------------------------------
(* Windows                                                                   *)

\* Released from the held layer at once; the surface has no buffer yet.
qdwin_surface_added(t) ==
    /\ ~ live(t)
    /\ win' = [win EXCEPT ![t] = [NoWindow EXCEPT !.live = TRUE, !.ws = active, !.view = Moved("normal")]]
    /\ tops' = <<t>> \o tops
    /\ stack' = Restack(win', <<t>>)
    /\ KeepFocus
    /\ UNCHANGED <<active, count, locked>>
    /\ Stray({})

autofocus_bad(t) ==
    win[t].ws = active

\* qdwin_toplevel_autofocus_if_ready
autofocus(t) ==
    ~ locked /\ win[t].ws = active

\* The first buffer, or one after the client unmapped: the surface is mapped, the view
\* stays in the layer it is in, or in none.
qdwin_surface_committed(t) ==
    /\ live(t) /\ ~ win[t].surf
    /\ win' = [win EXCEPT ![t].surf = TRUE]
    /\ IF autofocus(t) THEN SetFocus(t) ELSE KeepFocus
    /\ UNCHANGED <<tops, stack, active, count, locked>>
    /\ Stray({})

\* The client commits a NULL buffer.  Only a mapped view leaves its layer and takes
\* the focus with it.
weston_surface_unmap(t) ==
    /\ win[t].surf
    /\ win' = [win EXCEPT ![t].surf = FALSE, ![t].view = IF @.mapped THEN NoView ELSE @]
    /\ stack' = SelectSeq(stack, LAMBDA u : u # t \/ ~ win[t].view.mapped)
    /\ IF focus = t /\ win[t].view.mapped THEN SetFocus(NONE) ELSE KeepFocus
    /\ UNCHANGED <<tops, active, count, locked>>
    /\ Stray({t})

\* The surface's resource goes first and takes the keyboard focus along.
qdwin_surface_removed(t) ==
    /\ live(t)
    /\ win' = [win EXCEPT ![t] = NoWindow]
    /\ tops' = Unlinked(t)
    /\ stack' = SelectSeq(stack, LAMBDA u : u # t)
    /\ IF focus = t THEN SetFocus(NONE) ELSE KeepFocus
    /\ UNCHANGED <<active, count, locked>>
    /\ Stray({})

\* From the client at any time, from the shell while unlocked.  The focus stays.
qdwin_toplevel_set_minimized(t) ==
    /\ live(t) /\ ~ win[t].min
    /\ SetWindow(t, [move_to_layer(win[t], "minimized") EXCEPT !.min = TRUE])
    /\ KeepFocus
    /\ Stray({})

qdwin_handle_request_raise(t) ==
    /\ ~ locked /\ live(t)
    /\ SetWindow(t, IF win[t].min \/ win[t].ws # active
                    THEN apply_workspace_visibility([win[t] EXCEPT !.min = FALSE], active)
                    ELSE move_to_layer(win[t], "normal"))
    /\ KeepFocus
    /\ Stray({})

\* attach_decoration and its removal.
qdwin_chrome_attach_side(t) ==
    /\ live(t)
    /\ win' = [win EXCEPT ![t].chrome =
                 IF Has(@) THEN NoView ELSE Moved(IF win[t].ws = active THEN "normal" ELSE "hidden")]
    /\ KeepFocus
    /\ UNCHANGED <<tops, stack, active, count, locked>>
    /\ Stray({t})

\* A left press on window t.  Its chrome is found by position whatever layer it is on,
\* its content only in the normal layer.  Raised if the policy says so.
ClickToFocus(t) ==
    /\ ~ locked
    /\ \/ live(t) /\ Has(win[t].chrome)
       \/ Contains(stack, t) /\ win[t].surf
    /\ \/ SetWindow(t, move_to_layer(win[t], "normal"))
       \/ UNCHANGED <<win, stack, tops, active, count, locked>>
    /\ SetFocus(t)
    /\ Stray({t})

\* Only the content view is moved, whatever state the window is in.
qdwin_activation_perform(t) ==
    /\ ~ locked /\ live(t)
    /\ SetWindow(t, [win[t] EXCEPT !.view = Moved("normal")])
    /\ SetFocus(t)
    /\ Stray({t})

\* f: the window the shell names, or NONE for UINT32_MAX.
qdwin_handle_set_keyboard_focus(f) ==
    /\ ~ locked
    /\ f # NONE => live(f)
    /\ f # focus
    /\ SetFocus(f)
    /\ UNCHANGED <<win, tops, stack, active, count, locked, astray>>

qdwin_seat_focus_recover_idle_cb_bad ==
    /\ idle /\ tops # <<>>
    /\ idle' = FALSE
    /\ focus' = IF locked \/ focus # NONE \/ ~ is_visible(win, Head(tops), active)
                THEN focus ELSE Head(tops)
    /\ UNCHANGED <<win, tops, stack, active, count, locked, astray>>

\* A focus on a surface that is no longer mapped counts as none.
qdwin_seat_focus_recover_idle_cb ==
    /\ idle
    /\ idle' = FALSE
    /\ focus' = IF locked \/ (focus # NONE /\ win[focus].surf) \/ first_visible(win, active) = NONE
                THEN focus ELSE first_visible(win, active)
    /\ UNCHANGED <<win, tops, stack, active, count, locked, astray>>

-----------------------------------------------------------------------------
(* Workspaces and the lock                                                   *)

qdwin_set_active_workspace(i) ==
    /\ i < count /\ i # active
    /\ active' = i
    /\ win' = [t \in Toplevels |-> apply_workspace_visibility(win[t], i)]
    /\ stack' = Restack(win', SelectSeq(tops, LAMBDA t : ~ win[t].min))
    /\ refocus_seats(win', i)
    /\ UNCHANGED <<tops, count, locked>>
    /\ Stray({})

\* The number of workspace n after the removal of the i-th; what was on that one falls
\* back one slot.
down(n, i) ==
    IF n > i \/ (n = i /\ i > 0) THEN n - 1 ELSE n

\* Of two workspaces, the removal of either leaves everything on the first.
qdwin_workspace_remove(i) ==
    /\ count > 1 /\ i < count
    /\ count' = count - 1
    /\ active' = IF down(active, i) >= count' THEN count' - 1 ELSE down(active, i)
    /\ win' = [t \in Toplevels |->
                 apply_workspace_visibility([win[t] EXCEPT !.ws = down(win[t].ws, i)], active')]
    /\ stack' = Restack(win', SelectSeq(tops, LAMBDA t : ~ win[t].min))
    /\ refocus_seats(win', active')
    /\ UNCHANGED <<tops, locked>>
    /\ Stray({})

qdwin_workspace_create ==
    /\ count < MaxWorkspaces
    /\ count' = count + 1
    /\ UNCHANGED <<win, tops, stack, active, locked, focus, idle, astray>>

\* Not refused while locked.
qdwin_handle_move_toplevel_to_workspace(t, i) ==
    /\ live(t)
    /\ i < count /\ i # win[t].ws
    /\ win' = [win EXCEPT ![t] = apply_workspace_visibility([@ EXCEPT !.ws = i], active)]
    /\ stack' = Restack(win', IF win[t].min THEN <<>> ELSE <<t>>)
    /\ refocus_seats(win', active)
    /\ UNCHANGED <<tops, active, count, locked>>
    /\ Stray({})

\* qdwin_hide_non_lock_layers: the layers lose their position, no view is unmapped.
Lock ==
    /\ ~ locked
    /\ locked' = TRUE
    /\ UNCHANGED <<win, tops, stack, active, count, focus, idle, astray>>

\* qdwin_layer_remap_after_unlock: if any view of the layer is unmapped all are moved
\* to it again, bottom first.
remap_after_unlock(v) ==
    IF v.layer = "normal" THEN [v EXCEPT !.mapped = TRUE] ELSE v

RemapOrder_bad ==
    IF \E t \in Toplevels : win[t].view.layer = "normal" /\ ~ win[t].view.mapped
    THEN Reverse(stack) ELSE stack

\* The bottom view is taken again and again, and put on top.
RemapOrder ==
    LET n == Len(stack)
        Turned[i \in 0 .. n] ==
          IF i = 0 THEN stack ELSE <<Turned[i - 1][n]>> \o SubSeq(Turned[i - 1], 1, n - 1)
    IN  Turned[n]

\* qdwin_show_non_lock_layers
Unlock ==
    /\ locked
    /\ locked' = FALSE
    /\ win' = [t \in Toplevels |-> [win[t] EXCEPT !.view = remap_after_unlock(@),
                                                  !.chrome = remap_after_unlock(@)]]
    /\ stack' = RemapOrder
    /\ UNCHANGED <<tops, active, count, focus, idle, astray>>

-----------------------------------------------------------------------------
Indices == 0 .. MaxWorkspaces - 1

Next ==
    \/ \E t \in Toplevels :
          \/ qdwin_surface_added(t) \/ qdwin_surface_removed(t)
          \/ qdwin_surface_committed(t) \/ weston_surface_unmap(t)
          \/ qdwin_toplevel_set_minimized(t) \/ qdwin_handle_request_raise(t)
          \/ qdwin_chrome_attach_side(t) \/ ClickToFocus(t) \/ qdwin_activation_perform(t)
          \/ \E i \in Indices : qdwin_handle_move_toplevel_to_workspace(t, i)
    \/ \E f \in Toplevels \cup {NONE} : qdwin_handle_set_keyboard_focus(f)
    \/ \E i \in Indices : qdwin_set_active_workspace(i) \/ qdwin_workspace_remove(i)
    \/ qdwin_workspace_create
    \/ qdwin_seat_focus_recover_idle_cb
    \/ Lock \/ Unlock

\* The event loop runs its idle sources before it waits again.
Spec == Init /\ [][Next]_vars /\ WF_vars(qdwin_seat_focus_recover_idle_cb)

-----------------------------------------------------------------------------
(* Properties                                                                *)

Views == [layer : Layers, mapped : BOOLEAN]
Window == [live : BOOLEAN, surf : BOOLEAN, min : BOOLEAN, ws : Indices,
           view : Views, chrome : Views]

TypeOK ==
    /\ win \in [Toplevels -> Window]
    /\ tops \in Seq(Toplevels)
    /\ active \in Indices /\ count \in 1 .. MaxWorkspaces
    /\ focus \in Toplevels \cup {NONE}
    /\ locked \in BOOLEAN /\ idle \in BOOLEAN
    /\ astray \subseteq Toplevels

\* The list of toplevels holds the live windows, each of them once (qdwin_surface_added,
\* qdwin_surface_removed).
ListIsLive ==
    /\ \A t \in Toplevels : live(t) <=> Contains(tops, t)
    /\ Once(tops)

\* The active workspace exists, and so does that of every window, whichever workspaces
\* were removed before (qdwin_workspace_remove).
WorkspacesExist ==
    /\ active < count
    /\ \A t \in Toplevels : win[t].ws < count

\* The stack is the content views of the normal layer, each of them once
\* (weston_view_move_to_layer).
StackIsNormalLayer ==
    /\ \A t \in Toplevels : Contains(stack, t) <=> win[t].view.layer = "normal"
    /\ Once(stack)

\* A window is on the screen only if it is not minimised and its workspace is the
\* active one, and is back on it when it should be: whatever the order of minimise,
\* raise, workspace changes and locks.  Not so for a window that an activation, a click
\* on chrome left behind, or its client's own unmapping took off its layer, until the
\* next request that sorts it (qdwin.c:11164).
ShownIffItShould ==
    \A t \in Toplevels : live(t) /\ t \notin astray => win[t].view.layer = ItsLayer(win[t], active)

\* The chrome is on the layer its window is on ("Land on the same layer as the content
\* view", qdwin.c:3016), with the same exceptions.
ChromeFollows ==
    \A t \in Toplevels : live(t) /\ t \notin astray /\ Has(win[t].chrome)
        => win[t].chrome.layer = win[t].view.layer

\* Once unlocked, everything in a visible layer is painted, what was put there during
\* the lock too (qdwin.c:7513): nothing stays black.
UnlockPaints ==
    ~ locked => \A t \in Toplevels : \A v \in {win[t].view, win[t].chrome} :
                    v.layer = "normal" => v.mapped

\* Unlocking leaves the stacking order as it is, however many views it maps again.
UnlockKeepsStack ==
    [][locked /\ ~ locked' => stack' = stack]_vars

\* When the active workspace changes or a window leaves it, the focus ends on a visible
\* window, or on none if there is no such window (qdwin.c:11206).
RefocusSettles ==
    [][~ locked /\ (active' # active \/ \E t \in Toplevels : live(t) /\ live(t)' /\ win'[t].ws # win[t].ws)
          => IF focus' = NONE THEN \A t \in Toplevels : ~ is_visible(win', t, active')
             ELSE is_visible(win', focus', active')]_vars

\* While locked no window gains the focus: not by mapping, not by a move between
\* workspaces the shell is free to ask for, not by a recovery queued before the lock.
NoFocusBehindTheLock ==
    [][locked => focus' \in {focus, NONE}]_vars

\* A focus that dropped to nothing is given to a visible window at the next turn of the
\* loop, unless there is none or the screen is locked by then (qdwin.c:11086).
FocusRecovers ==
    idle ~> (focus # NONE \/ locked \/ first_visible(win, active) = NONE)

\* Windows and their chrome are on the layer their state asks for, on a workspace that
\* exists, and what is on a visible layer is painted once the screen is unlocked
\* (qdwin_toplevel_apply_workspace_visibility, qdwin_workspace_remove,
\* qdwin_show_non_lock_layers).
LayersRight ==
    /\ TypeOK
    /\ ListIsLive
    /\ WorkspacesExist
    /\ ShownIffItShould
    /\ ChromeFollows
    /\ UnlockPaints

\* The stacking order holds what is in the normal layer, through every step, and an unlock
\* leaves it as it was (weston_view_move_to_layer, qdwin_layer_remap_after_unlock).
StackKept ==
    []StackIsNormalLayer /\ UnlockKeepsStack

\* A change of workspaces leaves the focus on something visible, and nothing gains it
\* behind the lock (qdwin_workspace_refocus_seats, qdwin_toplevel_autofocus_if_ready).
FocusSettles ==
    RefocusSettles /\ NoFocusBehindTheLock
=============================================================================
