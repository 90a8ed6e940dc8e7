------------------------------ MODULE SeatFocus ------------------------------
(* Keyboard focus per seat as the shell hears of it: seat trackers and their  *)
(* listener on a keyboard that comes and goes, and focus-follows-mouse with   *)
(* its settle timer.                                                          *)
EXTENDS Naturals

CONSTANTS
    Windows,
    Seats,     \* the first of them, FirstSeat, has the pointer
    FirstSeat,
    NONE

VARIABLES
    seat,       \* tracked seats
    plugged,    \* seats with a keyboard
    listening,  \* kbd_focus_listener_installed
    focus,      \* keyboard->focus, a window or NONE
    last,       \* last_focused_handle
    told,       \* what the shell heard last of a seat
    recover,    \* focus_recover_idle is queued
    win,        \* mapped windows
    over,       \* the window under the pointer
    shell, locked,
    policy,     \* focus policy: click, or follow at once or after a delay
    pending,    \* ffm_pending_handle
    armed       \* ffm_timer runs

vars == <<seat, plugged, listening, focus, last, told, recover, win, over, shell, locked, policy, pending, armed>>
keys == <<focus, last, told, recover>>
ffm == <<policy, pending, armed>>

Handles == Windows \cup {NONE}

TypeOK ==
    /\ seat \subseteq Seats /\ plugged \subseteq Seats /\ listening \subseteq Seats /\ recover \subseteq Seats
    /\ focus \in [Seats -> Handles] /\ last \in [Seats -> Handles] /\ told \in [Seats -> Handles]
    /\ win \subseteq Windows /\ over \in Handles /\ pending \in Handles
    /\ shell \in BOOLEAN /\ locked \in BOOLEAN /\ armed \in BOOLEAN
    /\ policy \in {"click", "now", "delay"}

Init ==
    /\ seat = {} /\ plugged = {} /\ listening = {} /\ recover = {}
    /\ focus = [s \in Seats |-> NONE] /\ last = [s \in Seats |-> NONE] /\ told = [s \in Seats |-> NONE]
    /\ win = {} /\ over = NONE /\ pending = NONE
    /\ shell = FALSE /\ locked = FALSE /\ armed = FALSE /\ policy = "click"
-----------------------------------------------------------------------------
\* weston_keyboard_set_focus on the seats S, and the trackers that hear of it
\* (qdwin_seat_emit_focus_now): the shell is told of changes only, and losing
\* the focus while unlocked queues the recovery.
SetFocus(S, w, hear) ==
    LET news == {s \in S \cap hear : last[s] # w}
    IN  /\ focus' = [s \in Seats |-> IF s \in S THEN w ELSE focus[s]]
        /\ last' = [s \in Seats |-> IF s \in news THEN w ELSE last[s]]
        /\ told' = [s \in Seats |-> IF s \in news /\ shell THEN w ELSE told[s]]
        /\ recover' = IF w = NONE /\ ~locked THEN recover \cup (news \cap plugged) ELSE recover

\* weston_seat_init tells the compositor, which tracks the seat.
SeatCreated(s) ==
    /\ s \notin seat /\ seat' = seat \cup {s}
    /\ last' = [last EXCEPT ![s] = NONE] /\ told' = [told EXCEPT ![s] = NONE]
    /\ UNCHANGED <<plugged, listening, focus, recover, win, over, shell, locked, ffm>>

\* updated_caps: the listener moves onto the keyboard there is now.
PlugKeyboard(s) ==
    /\ s \in seat \ plugged /\ plugged' = plugged \cup {s}
    /\ listening' = listening \cup {s}
    /\ last' = [last EXCEPT ![s] = NONE]
    /\ UNCHANGED <<seat, focus, told, recover, win, over, shell, locked, ffm>>

\* The last keyboard goes: focus is dropped while the listener is still there.
UnplugKeyboard(s) ==
    /\ s \in plugged /\ plugged' = plugged \ {s}
    /\ LET news == listening \cap {s}
       IN  /\ focus' = [focus EXCEPT ![s] = NONE]
           /\ last' = [last EXCEPT ![s] = IF s \in news THEN NONE ELSE @]
           /\ told' = [told EXCEPT ![s] = IF s \in news /\ shell THEN NONE ELSE @]
    /\ listening' = listening \ {s}
    /\ UNCHANGED <<seat, recover, win, over, shell, locked, ffm>>

\* Every backend takes the devices away before it releases the seat.
SeatReleased(s) ==
    /\ s \in seat \ plugged /\ seat' = seat \ {s}
    /\ recover' = recover \ {s}
    /\ UNCHANGED <<plugged, listening, focus, last, told, win, over, shell, locked, ffm>>

\* A window maps, and is activated on every seat unless the session is locked.
WindowMapped(w) ==
    /\ w \notin win /\ win' = win \cup {w}
    /\ IF locked THEN UNCHANGED keys ELSE SetFocus(plugged, w, listening)
    /\ UNCHANGED <<seat, plugged, listening, over, shell, locked, ffm>>

WindowUnmapped(w) ==
    /\ w \in win /\ win' = win \ {w}
    /\ SetFocus({s \in plugged : focus[s] = w}, NONE, listening)
    /\ over' = IF over = w THEN NONE ELSE over
    /\ UNCHANGED <<seat, plugged, listening, shell, locked, ffm>>

\* A click, a switch by keyboard, a request of the shell.
Activate(s, w) ==
    /\ s \in plugged /\ w \in win /\ ~locked /\ focus[s] # w
    /\ SetFocus({s}, w, listening)
    /\ UNCHANGED <<seat, plugged, listening, win, over, shell, locked, ffm>>

\* qdwin_seat_focus_recover_idle_cb: a successor is focused if there is one.
RecoverFocus(s) ==
    /\ s \in recover
    /\ IF locked \/ s \notin plugged \/ focus[s] \in win \/ win = {}
       THEN recover' = recover \ {s} /\ UNCHANGED <<focus, last, told>>
       ELSE \E w \in win :
              /\ focus' = [focus EXCEPT ![s] = w]
              /\ last' = [last EXCEPT ![s] = w]
              /\ told' = [told EXCEPT ![s] = IF shell THEN w ELSE @]
              /\ recover' = recover \ {s}
    /\ UNCHANGED <<seat, plugged, listening, win, over, shell, locked, ffm>>

FfmCancelled == pending' = NONE /\ armed' = FALSE

\* qdwin_toplevel_focus on every seat
FocusAll(w) == SetFocus({s \in plugged : focus[s] # w}, w, listening)

\* The pointer moves, onto w or within it (qdwin_ffm_consider).
Motion(w) ==
    /\ w \in win \cup {NONE} /\ over' = w
    /\ IF locked \/ policy = "click" THEN UNCHANGED <<pending, armed, keys>>
       ELSE IF w = NONE \/ (FirstSeat \in plugged /\ focus[FirstSeat] = w)
       THEN FfmCancelled /\ UNCHANGED keys
       ELSE IF policy = "now"
       THEN pending' = NONE /\ UNCHANGED armed /\ FocusAll(w)
       ELSE IF pending = w THEN UNCHANGED <<pending, armed, keys>>
       ELSE pending' = w /\ armed' = TRUE /\ UNCHANGED keys
    /\ UNCHANGED <<seat, plugged, listening, win, shell, locked, policy>>

\* qdwin_ffm_timer_cb
FfmTimer ==
    /\ armed /\ armed' = FALSE
    /\ IF locked \/ policy = "click" \/ over = NONE \/ over # pending THEN UNCHANGED keys
       ELSE FocusAll(over)
    /\ UNCHANGED <<seat, plugged, listening, win, over, shell, locked, policy, pending>>

SetWmPolicy(p) ==
    /\ shell /\ policy' = p
    /\ IF p = "click" THEN FfmCancelled ELSE UNCHANGED <<pending, armed>>
    /\ UNCHANGED <<seat, plugged, listening, keys, win, over, shell, locked>>

\* qdwin_replay_seat_focus_for_shell
BindShell ==
    /\ ~shell /\ shell' = TRUE
    /\ last' = [s \in Seats |-> IF s \in seat THEN (IF s \in plugged THEN focus[s] ELSE NONE) ELSE last[s]]
    /\ told' = [s \in Seats |-> IF s \in seat THEN last'[s] ELSE told[s]]
    /\ UNCHANGED <<seat, plugged, listening, focus, recover, win, over, locked, ffm>>

UnbindShell ==
    /\ shell /\ shell' = FALSE
    /\ FfmCancelled /\ policy' = "click"
    /\ UNCHANGED <<seat, plugged, listening, keys, win, over, locked>>

\* The lock takes the keyboard focus from every window.
Lock ==
    /\ ~locked /\ locked' = TRUE
    /\ LET lost == {s \in plugged : focus[s] # NONE}
           news == {s \in lost \cap listening : last[s] # NONE}
       IN  /\ focus' = [s \in Seats |-> IF s \in lost THEN NONE ELSE focus[s]]
           /\ last' = [s \in Seats |-> IF s \in news THEN NONE ELSE last[s]]
           /\ told' = [s \in Seats |-> IF s \in news /\ shell THEN NONE ELSE told[s]]
    /\ UNCHANGED <<seat, plugged, listening, recover, win, over, shell, ffm>>

Unlock ==
    /\ locked /\ locked' = FALSE
    /\ UNCHANGED <<seat, plugged, listening, keys, win, over, shell, ffm>>

Next ==
    \/ FfmTimer \/ BindShell \/ UnbindShell \/ Lock \/ Unlock
    \/ \E p \in {"click", "now", "delay"} : SetWmPolicy(p)
    \/ \E s \in Seats : SeatCreated(s) \/ PlugKeyboard(s) \/ UnplugKeyboard(s) \/ SeatReleased(s) \/ RecoverFocus(s)
    \/ \E w \in Windows : WindowMapped(w) \/ WindowUnmapped(w) \/ \E s \in Seats : Activate(s, w)
    \/ \E w \in Handles : Motion(w)

Spec == Init /\ [][Next]_vars
-----------------------------------------------------------------------------
\* The shell's idea of which window has a seat's keyboard is always right:
\* through hotplug of keyboards and seats, recovery, focus-follows-mouse, the
\* lock, and a shell that left and came back (the dedupe on
\* last_focused_handle never swallows a change).  No focus-follows-mouse timer
\* outlives its policy, and no listener sits on a keyboard that is gone.
ShellKnowsFocus ==
    /\ shell => \A s \in seat : told[s] = IF s \in plugged THEN focus[s] ELSE NONE
    /\ \A s \in Seats : focus[s] # NONE => s \in plugged /\ focus[s] \in win
    /\ armed => policy # "click" /\ shell
    /\ listening = plugged

=============================================================================
