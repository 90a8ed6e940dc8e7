----------------------------- MODULE IdlePolicy -----------------------------
(***************************************************************************)
(* Idle inhibitors (zwp_idle_inhibit_v1) and idle notifications            *)
(* (ext-idle-notify-v1) over libweston's idle state.                       *)
(*                                                                         *)
(* weston.ini either gives an idle time, and libweston's one-shot timer    *)
(* makes the session idle, or idle-time=0, and the notifications' own      *)
(* timers do ("internal-idle mode").  Time passes in ticks; a timer that   *)
(* is due fires before the next tick.  A surface is shown when it is       *)
(* mapped, has a buffer and a view (qdwin_idle_inhibit_should_hold); it    *)
(* may stop being shown with a signal (its own unmap) or without one (its  *)
(* parent's).  SLEEPING and OFFSCREEN behave as IDLE here.                 *)
(***************************************************************************)
EXTENDS Integers, FiniteSets

CONSTANTS Inhibitors, Surfaces,
          Notifications,
          IdleTimes,         \* idle-time settings, 0 included, in ticks
          Timeouts,          \* timeouts clients ask for, in ticks
          NONE

OFF == -1                    \* a disarmed timer; 0 is due
Poll == 1                    \* QDWIN_IDLE_INTERNAL_INHIBIT_POLL_MS
MaxQuiet == 3                \* BOUND: quiet times are told apart up to here

VARIABLES idleTime,  \* ec->idle_time, read once
          state,     \* ec->state: "active" or "idle"
          inhibit,   \* ec->idle_inhibit
          idleLeft,  \* libweston's idle timer
          pressed,   \* a key or button is down: libweston's own hold
          surf,      \* surface |-> "none", "hidden", "shown"
          inh,       \* inhibitor |-> [surf, active], or NONE
          recheck,   \* idle_inhibit_recheck_timer is armed
          disabled,  \* idle_inhibit_disabled
          notif,     \* notification |-> [timeout, ign, idle, left, since], or NONE
          quiet,     \* ticks since the last input of any kind
          early      \* history: `idled' was sent before its time

vars == <<idleTime, state, inhibit, idleLeft, pressed, surf, inh, recheck, disabled,
          notif, quiet, early>>
holds == <<pressed, surf, inh, recheck, disabled>>

Internal == idleTime = 0

Init ==
    /\ idleTime \in IdleTimes
    /\ state = "active"
    /\ inhibit = 0
    /\ idleLeft = IF Internal THEN OFF ELSE idleTime
    /\ pressed = FALSE
    /\ surf = [s \in Surfaces |-> "none"]
    /\ inh = [i \in Inhibitors |-> NONE]
    /\ recheck = FALSE /\ disabled = FALSE
    /\ notif = [n \in Notifications |-> NONE]
    /\ quiet = 0
    /\ early = FALSE

Live == {n \in Notifications : notif[n] # NONE}
Capped(k) == IF k < MaxQuiet THEN k ELSE MaxQuiet

(***************************************************************************)
(* Input.                                                                  *)
(***************************************************************************)
Restarted(r) ==
    [r EXCEPT !.idle = FALSE, !.since = 0,
              !.left = IF Internal /\ r.timeout > 0 THEN r.timeout ELSE OFF]

\* qdwin_on_wake_signal: sent by weston_compositor_wake unless already active.
OnWake(f) == IF state = "active" THEN f
             ELSE [n \in Notifications |-> IF f[n] = NONE THEN NONE ELSE Restarted(f[n])]

\* qdwin_idle_note_activity, called by the default grabs and the input method's
\* grab after the wake: internal mode only.
NoteActivity(f) == IF ~Internal THEN f
                   ELSE [n \in Notifications |-> IF f[n] = NONE THEN NONE ELSE Restarted(f[n])]

\* weston_compositor_wake, then the grab's handler; `noted' tells whether the
\* handler is one that notes activity.
Wake(noted) ==
    /\ state' = "active"
    /\ idleLeft' = IF Internal THEN OFF ELSE idleTime
    /\ notif' = IF noted THEN NoteActivity(OnWake(notif)) ELSE OnWake(notif)
    /\ quiet' = 0

Input(noted) ==
    /\ Wake(noted)
    /\ UNCHANGED <<idleTime, inhibit, holds, early>>

\* A press holds the session awake until its release.
Press(noted) ==
    /\ ~pressed /\ pressed' = TRUE
    /\ inhibit' = inhibit + 1
    /\ Wake(noted)
    /\ UNCHANGED <<idleTime, surf, inh, recheck, disabled, early>>

Release(noted) ==
    /\ pressed /\ pressed' = FALSE
    /\ inhibit' = inhibit - 1
    /\ Wake(noted)
    /\ UNCHANGED <<idleTime, surf, inh, recheck, disabled, early>>

(***************************************************************************)
(* Inhibitors.                                                             *)
(***************************************************************************)

\* qdwin_idle_inhibitor_sync for the inhibitors of I, given what is shown and
\* whether the feature is disabled: the holds after it.
Synced(I, h, shown, dis) ==
    [i \in Inhibitors |->
        IF i \notin I \/ h[i] = NONE THEN h[i]
        ELSE [h[i] EXCEPT !.active = ~dis /\ h[i].surf # NONE /\ shown[h[i].surf] = "shown"]]

Active(h) == {i \in Inhibitors : h[i] # NONE /\ h[i].active}

Adopt_no_rearm(h) ==
    /\ inh' = h
    /\ inhibit' = inhibit + Cardinality(Active(h)) - Cardinality(Active(inh))
    /\ UNCHANGED idleLeft

\* activate and deactivate: the count follows; when the last hold goes while the
\* session is active, libweston's timer gets a fresh interval.
Adopt(h) ==
    /\ inh' = h
    /\ inhibit' = inhibit + Cardinality(Active(h)) - Cardinality(Active(inh))
    /\ idleLeft' = IF Active(inh) \ Active(h) # {} /\ inhibit' = 0 /\ ~Internal
                         /\ state = "active"
                   THEN idleTime ELSE idleLeft

Rest == <<idleTime, state, pressed, disabled, notif, quiet, early>>

CreateInhibitor(i, s) ==
    LET h == Synced({i}, [inh EXCEPT ![i] = [surf |-> s, active |-> FALSE]], surf, disabled) IN
    /\ inh[i] = NONE /\ surf[s] # "none" /\ ~disabled
    /\ Adopt(h)
    /\ recheck' = (recheck \/ \A j \in Inhibitors : inh[j] = NONE)
    /\ UNCHANGED <<surf, Rest>>

DestroyInhibitor(i) ==
    /\ inh[i] # NONE
    /\ Adopt([inh EXCEPT ![i] = NONE])
    /\ UNCHANGED <<surf, recheck, Rest>>

\* A surface appears, or maps or unmaps with its own signal.
SurfaceSignalled(s, to) ==
    LET now == [surf EXCEPT ![s] = to] IN
    /\ surf[s] # to /\ to # "none"
    /\ surf' = now
    /\ Adopt(Synced({i \in Inhibitors : inh[i] # NONE /\ inh[i].surf = s}, inh, now, disabled))
    /\ UNCHANGED <<recheck, Rest>>

\* A parent unmaps or maps, the buffer or the last view goes: no signal.
SurfaceUnsignalled(s, to) ==
    /\ surf[s] \notin {"none", to} /\ to # "none"
    /\ surf' = [surf EXCEPT ![s] = to]
    /\ UNCHANGED <<inh, inhibit, idleLeft, recheck, Rest>>

\* qdwin_idle_inhibitor_surface_destroyed.
SurfaceDestroyed(s) ==
    LET mine == {i \in Inhibitors : inh[i] # NONE /\ inh[i].surf = s}
        gone == [i \in Inhibitors |-> IF i \in mine THEN [inh[i] EXCEPT !.surf = NONE] ELSE inh[i]]
    IN /\ surf[s] # "none"
       /\ surf' = [surf EXCEPT ![s] = "none"]
       /\ Adopt(Synced(mine, gone, surf, disabled))
       /\ UNCHANGED <<recheck, Rest>>

\* qdwin_idle_inhibit_recheck: syncs everyone and re-arms itself while there is
\* an inhibitor; if that fails the feature is disabled for good.
Recheck(armed) ==
    /\ recheck
    /\ recheck' = (armed /\ \E i \in Inhibitors : inh[i] # NONE)
    /\ disabled' = (disabled \/ (~armed /\ \E i \in Inhibitors : inh[i] # NONE))
    /\ Adopt(Synced(Inhibitors, inh, surf, disabled'))
    /\ UNCHANGED <<idleTime, state, pressed, notif, quiet, early, surf>>

(***************************************************************************)
(* Notifications.                                                          *)
(***************************************************************************)
CreateNotification(n, t, ign) ==
    /\ notif[n] = NONE
    /\ notif' = [notif EXCEPT ![n] = [timeout |-> t, ign |-> ign, idle |-> FALSE, since |-> 0,
                                      left |-> IF Internal /\ t > 0 THEN t ELSE OFF]]
    /\ UNCHANGED <<idleTime, state, inhibit, idleLeft, holds, quiet, early>>

DestroyNotification(n) ==
    /\ notif[n] # NONE
    /\ notif' = [notif EXCEPT ![n] = NONE]
    /\ UNCHANGED <<idleTime, state, inhibit, idleLeft, holds, quiet, early>>

Inhibited(r) == ~r.ign /\ inhibit > 0

\* qdwin_on_idle_signal for one notification (not in internal mode).
OnIdleSignal(r) ==
    CASE r.idle \/ Inhibited(r) -> r
      [] r.timeout <= idleTime -> [r EXCEPT !.idle = TRUE]
      [] OTHER -> [r EXCEPT !.left = r.timeout - idleTime]

TooEarly(f) == \E n \in Live : f[n].idle /\ ~notif[n].idle /\ quiet < f[n].timeout

\* libweston's idle_handler: one-shot, and without effect while inhibited.
IdleHandler ==
    /\ idleLeft = 0 /\ idleLeft' = OFF
    /\ IF inhibit > 0 THEN UNCHANGED <<state, notif, early>>
       ELSE /\ state' = "idle"
            /\ notif' = [n \in Notifications |->
                            IF notif[n] = NONE THEN NONE ELSE OnIdleSignal(notif[n])]
            /\ early' = (early \/ TooEarly(notif'))
    /\ UNCHANGED <<idleTime, inhibit, holds, quiet>>

\* qdwin_idle_notification_timer_fire: already idle, nothing; too little quiet,
\* wait for the rest; inhibited, look again later (internal mode) or never; or
\* idle, and in internal mode the session with it.
TimerFire(n) ==
    LET r == notif[n] IN
    /\ r # NONE /\ r.left = 0
    /\ notif' = [notif EXCEPT ![n] =
                    IF ~r.idle /\ Internal /\ r.timeout > 0 /\ r.since < r.timeout
                    THEN [r EXCEPT !.left = r.timeout - r.since]
                    ELSE IF ~r.idle /\ Inhibited(r)
                    THEN [r EXCEPT !.left = IF Internal /\ r.timeout > 0 THEN Poll ELSE OFF]
                    ELSE [r EXCEPT !.left = OFF, !.idle = TRUE]]
    /\ state' = IF notif'[n].idle /\ ~r.idle /\ Internal /\ ~r.ign THEN "idle" ELSE state
    /\ early' = (early \/ TooEarly(notif'))
    /\ UNCHANGED <<idleTime, inhibit, idleLeft, holds, quiet>>

Later(k) == IF k = OFF THEN OFF ELSE k - 1

Tick ==
    /\ idleLeft # 0 /\ \A n \in Live : notif[n].left # 0
    /\ idleLeft' = Later(idleLeft)
    /\ notif' = [n \in Notifications |->
                    IF notif[n] = NONE THEN NONE
                    ELSE [notif[n] EXCEPT !.left = Later(@), !.since = Capped(@ + 1)]]
    /\ quiet' = Capped(quiet + 1)
    /\ UNCHANGED <<idleTime, state, inhibit, holds, early>>

Next ==
    \/ \E noted \in BOOLEAN : Input(noted) \/ Press(noted) \/ Release(noted)
    \/ \E i \in Inhibitors : DestroyInhibitor(i) \/ \E s \in Surfaces : CreateInhibitor(i, s)
    \/ \E s \in Surfaces : \/ SurfaceDestroyed(s)
                           \/ \E to \in {"hidden", "shown"} :
                                 SurfaceSignalled(s, to) \/ SurfaceUnsignalled(s, to)
    \/ \E armed \in BOOLEAN : Recheck(armed)
    \/ \E n \in Notifications :
          \/ \E t \in Timeouts, ign \in BOOLEAN : CreateNotification(n, t, ign)
          \/ DestroyNotification(n) \/ TimerFire(n)
    \/ IdleHandler \/ Tick

Spec == Init /\ [][Next]_vars
-----------------------------------------------------------------------------
\* Type correctness of the idle state.
TypeOK ==
    /\ idleTime \in IdleTimes /\ state \in {"active", "idle"}
    /\ inhibit \in 0..(Cardinality(Inhibitors) + 1)
    /\ idleLeft \in OFF..idleTime
    /\ surf \in [Surfaces -> {"none", "hidden", "shown"}]
    /\ \A i \in Inhibitors : inh[i] = NONE \/ inh[i] \in [surf : Surfaces \cup {NONE}, active : BOOLEAN]
    /\ \A n \in Live : notif[n].left >= OFF /\ notif[n].since \in 0..MaxQuiet

\* The compositor's count is exactly the holds there are: it never leaks one
\* when an inhibitor, a surface or the feature goes (qdwin_idle_inhibitor_*).
CountExact == inhibit = Cardinality(Active(inh)) + (IF pressed THEN 1 ELSE 0)

\* With an idle time configured, an active session that nothing holds has a
\* deadline: whatever released the last hold, the session will go idle without
\* further input (qdwin_idle_inhibitor_deactivate; libweston's timer is one-shot).
DeadlineLives == ~Internal /\ state = "active" /\ inhibit = 0 => idleLeft # OFF

\* In internal mode a notification that is not idle always has its timer armed,
\* through inhibition, input and wake-ups (qdwin_idle_notification_timer_fire).
TimerLives ==
    Internal => \A n \in Live : ~notif[n].idle /\ notif[n].timeout > 0 => notif[n].left # OFF

\* A notification that honours inhibitors is idle only while the session is:
\* every `idled' is taken back by the wake-up (the state transition in
\* qdwin_idle_notification_timer_fire, qdwin_on_wake_signal).
IdledWillResume == \A n \in Live : notif[n].idle /\ ~notif[n].ign => state = "idle"

\* With an idle time configured, no client is told `idled' before the user has
\* been quiet for as long as it asked (qdwin_on_idle_signal, the second timer).
NeverEarly == ~Internal => ~early

Holds(i) == inh[i] # NONE /\ inh[i].active
Justified(i) == inh[i].surf # NONE /\ surf[inh[i].surf] = "shown"

\* An inhibitor whose surface stopped being shown without a signal does not hold
\* the session for ever: as long as it does, the backstop timer that will find it
\* is running, and the timer's own failure let go of every hold
\* (qdwin_idle_inhibit_recheck).
StaleHoldWatched == \A i \in Inhibitors : Holds(i) /\ ~Justified(i) => recheck

=============================================================================
