---------------------------- MODULE ViewStreams ----------------------------
(***************************************************************************)
(* Forwarding of one window as a video stream (qdwin_view_stream_v1) and   *)
(* the input channel of the forwarding process (qdwin_stream_input_v1).    *)
(*                                                                         *)
(* A subscription pins a window onto a pipewire output, creates a seat for *)
(* the stream and forks qdistro-forward.  The stream may be ended by the   *)
(* shell, by the death of the child, by the loss of the window and by the  *)
(* lock, in any order and in one turn of the event loop.                   *)
(*                                                                         *)
(* str[s] is struct qdwin_view_stream.  child[s] and proc are the kernel's *)
(* side: what became of the child, and which process a pid number names.   *)
(* weston reaps every child from its signalfd handler, so a pid may be     *)
(* reused before qdwin learns of the death.  A pidfd names the child       *)
(* itself.                                                                 *)
(*                                                                         *)
(* Abstracted: a position is the output it lies on; the key, axis and      *)
(* modifier requests, which reach the same window as a button does; the    *)
(* contents of token and password.  A request that ends in an error or in  *)
(* no_memory costs the shell its connection (ShellDisconnects).  A window  *)
(* that waits for an admin decision is only ever denied.                   *)
(***************************************************************************)
EXTENDS Naturals, FiniteSets

CONSTANTS Streams,    \* bound: the subscriptions of one behaviour
          Toplevels,  \* bound: the windows of one behaviour
          Desktop,    \* outputs of the desktop
          Pipewire,   \* outputs of the pipewire backend
          Pids,       \* process numbers
          FOREIGN,    \* a process that is no forward
          NONE

ASSUME StreamConstants ==
    /\ IsFiniteSet(Streams) /\ Desktop # {} /\ Desktop \cap Pipewire = {}
    /\ FOREIGN \notin Streams
    /\ NONE \notin {FOREIGN} \cup Streams \cup Toplevels \cup Desktop \cup Pipewire \cup Pids

VARIABLES str,      \* the streams
          child,    \* the forward process of a stream
          proc,     \* what a pid number names: a stream's child, another process or none
          conn,     \* the child is connected as a Wayland client
          where,    \* the output a window is on, NONE once the window is gone
          outputs,  \* the desktop outputs that are plugged in
          shell,    \* the shell is bound
          locked,
          astray,   \* history: windows pinned twice, or rehomed onto a pipewire output
          stray     \* history: a stream's SIGTERM went to a process that is not its child

vars == <<str, child, proc, conn, where, outputs, shell, locked, astray, stray>>

NoStream ==
    [obj |-> "none", released |-> FALSE, torn |-> FALSE, listed |-> FALSE, tl |-> NONE,
     pw |-> NONE, prev |-> NONE, pinned |-> FALSE, pid |-> NONE, watch |-> FALSE,
     token |-> FALSE, claims |-> 0, port |-> 0, handle |-> FALSE, allow |-> FALSE, seat |-> FALSE,
     confine |-> FALSE, grab |-> "default", focus |-> "none"]

Init ==
    /\ str = [s \in Streams |-> NoStream]
    /\ child = [s \in Streams |-> "none"]
    /\ proc = [p \in Pids |-> NONE]
    /\ conn = {}
    /\ where \in [Toplevels -> Desktop]
    /\ outputs = Desktop
    /\ shell = FALSE
    /\ locked = FALSE
    /\ astray = {}
    /\ stray = FALSE

dead(s) == child[s] \in {"zombie", "reaped"}

-----------------------------------------------------------------------------
(* Releasing one stream.  A definition that ends in _bad is the definition  *)
(* after it with a fault, kept to show that a property notices the fault.   *)

qdwin_view_stream_disarm_pidfd(q) == [q EXCEPT !.watch = FALSE]

\* What SIGTERM through the pidfd does to the child of s: nothing if it is dead.
terminated(c) == IF c = "running" THEN "signalled" ELSE c

qdwin_stream_confine_grab_end(q) ==
    [q EXCEPT !.confine = FALSE,
              !.grab = IF q.confine /\ q.grab = "confine" THEN "default" ELSE @]

qdwin_stream_seat_release(q) ==
    IF q.seat
    THEN [qdwin_stream_confine_grab_end(q) EXCEPT !.seat = FALSE, !.focus = "none",
                                                  !.grab = IF @ = "other" THEN "default" ELSE @]
    ELSE q

released(q) ==
    IF q.released THEN q
    ELSE [qdwin_view_stream_disarm_pidfd(qdwin_stream_seat_release(q)) EXCEPT
              !.released = TRUE, !.handle = FALSE, !.pid = NONE, !.pinned = FALSE,
              !.listed = FALSE, !.token = FALSE, !.allow = FALSE, !.tl = NONE,
              !.pw = NONE, !.prev = NONE]

qdwin_view_stream_unpin_bad(ss, t, list_order) ==
    {where[t]}

\* Where a window may be once the streams of ss were unpinned.  A stream puts its window
\* back where that stream found it, so the last one decides: the list is walked from the
\* newest stream to the oldest, the objects of a lost client in any order.
qdwin_view_stream_unpin(ss, t, list_order) ==
    LET pinned == {s \in ss : str[s].pinned /\ ~str[s].released /\ str[s].tl = t}
        lasts == {s \in pinned : list_order => \A r \in pinned : str[s].port <= str[r].port}
    IN  IF pinned = {} \/ where[t] = NONE THEN {where[t]} ELSE {str[s].prev : s \in lasts}

Unpinned(ss, list_order) ==
    {f \in [Toplevels -> Desktop \cup Pipewire \cup {NONE}] :
        \A t \in Toplevels : f[t] \in qdwin_view_stream_unpin(ss, t, list_order)}

\* A kill by number reaches whatever process has the number now.
signal_target_bad(s) ==
    IF str[s].pid # NONE THEN proc[str[s].pid] ELSE NONE

\* The process SIGTERM is sent to: the one the pidfd was opened for, inside the handler
\* that forked it, so before its number could pass to another.  Without a pidfd no signal
\* is sent, the number is not used.
signal_target(s) ==
    IF str[s].pid # NONE /\ str[s].watch THEN s ELSE NONE

qdwin_view_stream_reap_forward(ss) ==
    LET hit == {signal_target(s) : s \in ss}
    IN  /\ child' = [s \in Streams |-> IF s \in hit THEN terminated(child[s]) ELSE child[s]]
        /\ stray' = (stray \/ \E s \in ss : signal_target(s) \notin {s, NONE})

\* qdwin_view_stream_terminate: the resource stays as a tombstone.
terminate(q) == [released(q) EXCEPT !.torn = TRUE]

\* qdwin_stream_resource_destroyed.
destroyed(q) == [released(q) EXCEPT !.obj = "freed", !.torn = FALSE, !.claims = 0, !.port = 0]

Live(s) == str[s].listed

TerminateAll(ss) ==
    /\ str' = [s \in Streams |-> IF s \in ss THEN terminate(str[s]) ELSE str[s]]
    /\ qdwin_view_stream_reap_forward(ss)

-----------------------------------------------------------------------------
(* qdwin_handle_subscribe_view_stream.                                      *)

qdwin_find_free_pipewire_output ==
    {o \in Pipewire : \A s \in Streams : Live(s) => str[s].pw # o}

NextPort == Cardinality({s \in Streams : str[s].obj # "none"})

\* The record up to the point where the child is forked.
Subscribed(t, o, allow, seat) ==
    [NoStream EXCEPT !.obj = "struct", !.listed = TRUE, !.tl = t, !.pw = o,
                     !.prev = where[t], !.pinned = TRUE, !.allow = allow,
                     !.port = NextPort, !.token = TRUE, !.seat = seat]

\* Denied by the server after the object was set up: denied is sent and the object
\* destroyed, which unpins the window again.
DeniedLate(s, t, o, allow, seat) ==
    str' = [str EXCEPT ![s] = [destroyed(Subscribed(t, o, allow, seat)) EXCEPT !.obj = "late"]]

\* No free pipewire output, or the window waits for an admin decision.
SubscribeDenied(s) ==
    /\ shell /\ str[s].obj = "none"
    /\ str' = [str EXCEPT ![s].obj = "inert"]
    /\ UNCHANGED <<child, proc, conn, where, outputs, shell, locked, astray, stray>>

\* qdwin_view_stream_spawn_forward returns -1: no child, or one that was sent SIGTERM.
SpawnFails(s, p) ==
    \/ UNCHANGED <<child, proc>>
    \/ /\ proc[p] = NONE
       /\ proc' = [proc EXCEPT ![p] = s]
       /\ child' = [child EXCEPT ![s] = "signalled"]

\* BOUND: a second stream starts only while no input channel is in use.  Streams share
\* windows, outputs and pids, and nothing of their input.
InputIdle ==
    conn = {} /\ \A s \in Streams : str[s].claims = 0

qdwin_handle_subscribe_view_stream(s, t, o, p, allow) ==
    /\ InputIdle
    /\ shell /\ str[s].obj = "none" /\ where[t] # NONE
    /\ o \in qdwin_find_free_pipewire_output
    /\ \/ \* getrandom failed, or the forward could not be started
          /\ \E seat \in BOOLEAN : DeniedLate(s, t, o, allow, seat)
          /\ SpawnFails(s, p)
          /\ UNCHANGED <<where, astray>>
       \/ \* approved
          /\ proc[p] = NONE
          /\ str' = [str EXCEPT ![s] = [Subscribed(t, o, allow, TRUE) EXCEPT !.pid = p,
                                                                             !.watch = TRUE]]
          /\ proc' = [proc EXCEPT ![p] = s]
          /\ child' = [child EXCEPT ![s] = "running"]
          /\ where' = [where EXCEPT ![t] = o]
          /\ astray' = IF where[t] \in Pipewire THEN astray \cup {t} ELSE astray
    /\ UNCHANGED <<conn, outputs, shell, locked, stray>>

-----------------------------------------------------------------------------
(* What ends a stream.                                                      *)

\* qdwin_forward_pidfd_ready: the numeric pid is given up before the cleanup.
qdwin_forward_pidfd_ready(s) ==
    /\ str[s].watch /\ dead(s)
    /\ where' \in Unpinned({s}, TRUE)
    /\ str' = [str EXCEPT ![s] = terminate(qdwin_view_stream_disarm_pidfd(
                                               [@ EXCEPT !.pid = NONE]))]
    /\ UNCHANGED <<child, proc, conn, outputs, shell, locked, astray, stray>>

\* qdwin_toplevel_release_dependents, then the window is freed.
qdwin_toplevel_release_dependents(t) ==
    /\ where[t] # NONE
    /\ TerminateAll({s \in Streams : Live(s) /\ str[s].tl = t})
    /\ where' = [where EXCEPT ![t] = NONE]
    /\ astray' = astray \ {t}
    /\ UNCHANGED <<proc, conn, outputs, shell, locked>>

\* set_locked(1) of the shell and of the locker, and set_locked(0).
qdwin_handle_set_locked ==
    /\ locked' = ~locked
    /\ IF locked
       THEN UNCHANGED <<str, child, stray, where>>
       ELSE LET ss == {s \in Streams : Live(s)}
            IN  TerminateAll(ss) /\ where' \in Unpinned(ss, TRUE)
    /\ UNCHANGED <<proc, conn, outputs, shell, astray>>

\* The shell's connection ends, with every object on it.
LoseShell ==
    LET ss == {s \in Streams : str[s].obj \in {"inert", "struct"}}
    IN  /\ shell' = FALSE
        /\ where' \in Unpinned(ss, FALSE)
        /\ str' = [s \in Streams |-> IF s \in ss THEN destroyed(str[s])
                                     ELSE IF str[s].obj = "late" THEN [str[s] EXCEPT !.obj = "freed"]
                                     ELSE str[s]]
        /\ qdwin_view_stream_reap_forward(ss)
        /\ UNCHANGED <<proc, conn, outputs, locked, astray>>

ShellDisconnects ==
    shell /\ LoseShell

\* A destroy request for an object the server has destroyed already (a late denial) is an
\* error of the client, which is disconnected.
qdwin_stream_handle_destroy(s) ==
    /\ shell
    /\ \/ /\ str[s].obj \in {"inert", "struct"}
          /\ where' \in Unpinned({s}, TRUE)
          /\ str' = [str EXCEPT ![s] = destroyed(@)]
          /\ qdwin_view_stream_reap_forward({s})
          /\ UNCHANGED <<proc, conn, outputs, shell, locked, astray>>
       \/ /\ str[s].obj = "late"
          /\ LoseShell

qdwin_handle_bind_as_shell ==
    /\ ~shell
    /\ shell' = TRUE
    /\ UNCHANGED <<str, child, proc, conn, where, outputs, locked, astray, stray>>

-----------------------------------------------------------------------------
(* The input channel.                                                       *)

qdwin_stream_confine_grab_start(q) ==
    IF q.confine \/ ~q.seat THEN q
    ELSE [q EXCEPT !.confine = TRUE, !.grab = "confine",
                   !.focus = IF q.allow THEN "source" ELSE @]

qdwin_stream_input_handle_resource_destroyed(q) ==
    IF q.handle
    THEN [qdwin_stream_confine_grab_end(q) EXCEPT !.handle = FALSE, !.token = FALSE]
    ELSE q

ForwardConnects(s) ==
    /\ child[s] = "running" /\ s \notin conn
    /\ \A r \in Streams \ {s} : ~Live(r)   \* BOUND: see InputIdle
    /\ conn' = conn \cup {s}
    /\ UNCHANGED <<str, child, proc, where, outputs, shell, locked, astray, stray>>

\* The forward closes its connection, or the kernel does for a dead one.
ForwardDisconnects(s) ==
    /\ s \in conn
    /\ conn' = conn \ {s}
    /\ str' = [str EXCEPT ![s] = qdwin_stream_input_handle_resource_destroyed(@)]
    /\ UNCHANGED <<child, proc, where, outputs, shell, locked, astray, stray>>

\* A claim with the token of s, by the child it was given to.  One that fails is answered
\* with an error, which ends the connection.  The requests of a dead child may still be
\* in its socket.
qdwin_stream_input_handle_claim(s) ==
    /\ s \in conn
    /\ IF Live(s) /\ str[s].token /\ ~str[s].handle /\ str[s].pid # NONE
       THEN /\ str' = [str EXCEPT ![s] = qdwin_stream_confine_grab_start(
                                             [@ EXCEPT !.handle = TRUE, !.claims = str[s].claims + 1])]
            /\ UNCHANGED conn
       ELSE /\ conn' = conn \ {s}
            /\ str' = [str EXCEPT ![s] = qdwin_stream_input_handle_resource_destroyed(@)]
    /\ UNCHANGED <<child, proc, where, outputs, shell, locked, astray, stray>>

qdwin_stream_input_handle_destroy(s) ==
    /\ s \in conn /\ str[s].handle
    /\ str' = [str EXCEPT ![s] = qdwin_stream_input_handle_resource_destroyed(@)]
    /\ UNCHANGED <<child, proc, conn, where, outputs, shell, locked, astray, stray>>

qdwin_stream_confine_target(q) ==
    q.allow /\ q.tl # NONE

InjectedFocus_bad(q) ==
    {"none", "source", "other"}

\* Where an injected motion or button goes: the confinement grab forces it to the source
\* view, the default grab picks by position and another grab does as it likes.
InjectedFocus(q) ==
    IF q.grab = "confine"
    THEN {IF qdwin_stream_confine_target(q) THEN "source" ELSE q.focus}
    ELSE {"none", "source", "other"}

qdwin_stream_input_inject_pointer(s) ==
    /\ s \in conn /\ str[s].handle
    /\ ~locked /\ str[s].allow /\ str[s].seat /\ str[s].tl # NONE
    /\ \E f \in InjectedFocus(str[s]) : str' = [str EXCEPT ![s].focus = f]
    /\ UNCHANGED <<child, proc, conn, where, outputs, shell, locked, astray, stray>>

\* A client answers a press on the stream's seat with a drag or a popup grab, and ends it.
\* weston_pointer_start_grab replaces a grab without cancelling it.
weston_pointer_start_grab(s) ==
    /\ str[s].seat /\ str[s].focus # "none" /\ str[s].grab # "other"
    /\ str' = [str EXCEPT ![s].grab = "other"]
    /\ UNCHANGED <<child, proc, conn, where, outputs, shell, locked, astray, stray>>

weston_pointer_end_grab(s) ==
    /\ str[s].grab = "other"
    /\ \E f \in {"none", "source", "other"} :
          str' = [str EXCEPT ![s].grab = "default", ![s].focus = f]
    /\ UNCHANGED <<child, proc, conn, where, outputs, shell, locked, astray, stray>>

-----------------------------------------------------------------------------
(* Outputs and windows.                                                     *)

qdwin_output_boundary_cancel_state(q) ==
    IF q.seat
    THEN [qdwin_stream_confine_grab_end(q) EXCEPT !.grab = "default", !.focus = "none"]
    ELSE q

\* The restore target of a stream leaves the output that goes.
Repaired(s, o, survivor) ==
    IF Live(s) /\ str[s].prev = o THEN [str[s] EXCEPT !.prev = survivor] ELSE str[s]

\* The survivor is the first output of the list, of whichever backend.
qdwin_output_boundary_transition(o, survivor) ==
    /\ o \in outputs /\ survivor \in (outputs \ {o}) \cup Pipewire
    /\ outputs' = outputs \ {o}
    /\ str' = [s \in Streams |-> qdwin_output_boundary_cancel_state(Repaired(s, o, survivor))]
    /\ where' = [t \in Toplevels |-> IF where[t] = o THEN survivor ELSE where[t]]
    /\ astray' = IF survivor \in Pipewire
                 THEN astray \cup {t \in Toplevels :
                                      \/ where[t] = o
                                      \/ \E s \in Streams : /\ Live(s) /\ str[s].tl = t
                                                            /\ str[s].prev = o}
                 ELSE astray
    /\ UNCHANGED <<child, proc, conn, shell, locked, stray>>

OutputAdded(o) ==
    /\ o \in Desktop \ outputs
    /\ outputs' = outputs \cup {o}
    /\ UNCHANGED <<str, child, proc, conn, where, shell, locked, astray, stray>>

\* The user or the shell moves a window.
WindowMoves(t, o) ==
    /\ where[t] \notin {NONE, o} /\ o \in outputs
    /\ where' = [where EXCEPT ![t] = o]
    /\ UNCHANGED <<str, child, proc, conn, outputs, shell, locked, astray, stray>>

-----------------------------------------------------------------------------
(* The kernel.                                                              *)

ForwardExits(s) ==
    /\ child[s] \in {"running", "signalled"}
    /\ child' = [child EXCEPT ![s] = "zombie"]
    /\ UNCHANGED <<str, proc, conn, where, outputs, shell, locked, astray, stray>>

\* weston's signalfd handler.
WestonReaps(s) ==
    /\ child[s] = "zombie"
    /\ child' = [child EXCEPT ![s] = "reaped"]
    /\ proc' = [p \in Pids |-> IF proc[p] = s THEN NONE ELSE proc[p]]
    /\ UNCHANGED <<str, conn, where, outputs, shell, locked, astray, stray>>

PidReused(p) ==
    /\ proc[p] = NONE
    /\ proc' = [proc EXCEPT ![p] = FOREIGN]
    /\ UNCHANGED <<str, child, conn, where, outputs, shell, locked, astray, stray>>

OtherExits(p) ==
    /\ proc[p] = FOREIGN
    /\ proc' = [proc EXCEPT ![p] = NONE]
    /\ UNCHANGED <<str, child, conn, where, outputs, shell, locked, astray, stray>>

-----------------------------------------------------------------------------
Next ==
    \/ \E s \in Streams :
          \/ SubscribeDenied(s)
          \/ \E t \in Toplevels, o \in Pipewire, p \in Pids, allow \in BOOLEAN :
                qdwin_handle_subscribe_view_stream(s, t, o, p, allow)
          \/ qdwin_forward_pidfd_ready(s)
          \/ qdwin_stream_handle_destroy(s)
          \/ ForwardConnects(s)
          \/ ForwardDisconnects(s)
          \/ qdwin_stream_input_handle_claim(s)
          \/ qdwin_stream_input_handle_destroy(s)
          \/ qdwin_stream_input_inject_pointer(s)
          \/ weston_pointer_start_grab(s)
          \/ weston_pointer_end_grab(s)
          \/ ForwardExits(s)
          \/ WestonReaps(s)
    \/ \E t \in Toplevels : qdwin_toplevel_release_dependents(t)
    \/ \E t \in Toplevels, o \in Desktop : WindowMoves(t, o)
    \/ \E o \in Desktop, survivor \in Desktop \cup Pipewire :
          qdwin_output_boundary_transition(o, survivor)
    \/ \E o \in Desktop : OutputAdded(o)
    \/ \E p \in Pids : PidReused(p) \/ OtherExits(p)
    \/ qdwin_handle_set_locked
    \/ qdwin_handle_bind_as_shell
    \/ ShellDisconnects

Spec == Init /\ [][Next]_vars

-----------------------------------------------------------------------------
(* Properties.                                                              *)

StreamType ==
    [obj : {"none", "inert", "struct", "late", "freed"}, released : BOOLEAN, torn : BOOLEAN,
     listed : BOOLEAN, tl : Toplevels \cup {NONE}, pw : Pipewire \cup {NONE},
     prev : Desktop \cup Pipewire \cup {NONE}, pinned : BOOLEAN, pid : Pids \cup {NONE},
     watch : BOOLEAN, token : BOOLEAN, claims : Nat, port : Nat, handle : BOOLEAN,
     allow : BOOLEAN, seat : BOOLEAN, confine : BOOLEAN,
     grab : {"default", "confine", "other"}, focus : {"none", "source", "other"}]

\* A stream restores its window to an output that is plugged in or never unplugged.
TypeOK ==
    /\ str \in [Streams -> StreamType]
    /\ child \in [Streams -> {"none", "running", "signalled", "zombie", "reaped"}]
    /\ proc \in [Pids -> Streams \cup {FOREIGN, NONE}]
    /\ conn \subseteq Streams
    /\ where \in [Toplevels -> outputs \cup Pipewire \cup {NONE}]
    /\ \A s \in Streams : str[s].prev \in outputs \cup Pipewire \cup {NONE}
    /\ outputs \subseteq Desktop
    /\ shell \in BOOLEAN /\ locked \in BOOLEAN /\ stray \in BOOLEAN
    /\ astray \subseteq Toplevels

\* A live stream holds all it was given, and one that is denied or whose server side was
\* revoked holds nothing, though its client may keep the object for ever: no output, window,
\* seat, grab, claim, token, child or watch (qdwin_view_stream_release_server_state).
HoldsAllOrNothing ==
    \A s \in Streams :
        /\ Live(s) <=> str[s].obj = "struct" /\ ~str[s].released
        /\ Live(s) => /\ str[s].tl # NONE /\ str[s].pw # NONE /\ str[s].pinned
                      /\ str[s].seat /\ str[s].pid # NONE /\ str[s].watch
        /\ ~Live(s) => /\ str[s].tl = NONE /\ str[s].pw = NONE /\ ~str[s].pinned
                       /\ str[s].prev = NONE /\ ~str[s].seat /\ str[s].grab = "default"
                       /\ ~str[s].confine /\ ~str[s].handle /\ ~str[s].token /\ ~str[s].allow
                       /\ str[s].pid = NONE /\ ~str[s].watch

\* A client whose stream ended on the server's side and who still has the object was told
\* (qdwin_view_stream_terminate is the only server-side end).
TombstoneTold ==
    \A s \in Streams :
        str[s].obj = "struct" /\ str[s].released => str[s].torn

\* Ending a stream never signals a process other than its own forward, whoever has the
\* child's number by then (qdwin_view_stream_reap_forward).
SignalsOwnChild ==
    ~stray

\* A forward that was never sent SIGTERM and has not exited belongs to a live stream that
\* watches it, on every path of qdwin_view_stream_spawn_forward and of the teardown.
NoOrphanForward ==
    \A s \in Streams :
        child[s] = "running" => Live(s) /\ str[s].watch /\ proc[str[s].pid] = s

\* A pipewire output carries one stream (qdwin_find_free_pipewire_output).
OutputCarriesOneStream ==
    \A s, r \in Streams :
        s # r /\ Live(s) /\ Live(r) => str[s].pw # str[r].pw

\* A window that no live stream shows is back on the desktop, unless it had two streams at
\* once or lost its output to a pipewire one; and a stream that shows it remembers an
\* output of the desktop to put it back on (qdwin_view_stream_unpin).
WindowComesBack ==
    /\ \A t \in Toplevels : where[t] \in Pipewire /\ t \notin astray
                            => \E s \in Streams : str[s].pinned /\ str[s].tl = t
    /\ \A s \in Streams : str[s].pinned /\ str[s].tl \notin astray => str[s].prev \in Desktop

\* The token of a stream is good for one claim, even if the claimant lets go of the handle
\* or reconnects (qdwin_stream_input_handle_resource_destroyed).
TokenOneShot ==
    \A s \in Streams : /\ str[s].claims <= 1
                       /\ str[s].claims = 1 /\ str[s].token => str[s].handle

\* Injected input stays in the window while the confinement grab is in place, and the
\* seat of a stream that may not inject points nowhere (qdwin_stream_confine_grab_start).
ConfinedToSource ==
    \A s \in Streams :
        /\ str[s].grab = "confine" => str[s].confine /\ str[s].focus # "other"
        /\ ~str[s].allow => str[s].focus = "none" /\ str[s].grab # "other"

\* However a stream ends, it leaves nothing behind: what it held is free, its client was
\* told, its child was stopped and nobody else's, its output can be given to another stream
\* (qdwin_view_stream_release_server_state, qdwin_view_stream_terminate).
StreamsEndClean ==
    /\ TypeOK
    /\ HoldsAllOrNothing
    /\ TombstoneTold
    /\ SignalsOwnChild
    /\ NoOrphanForward
    /\ OutputCarriesOneStream

\* The input of a forward: one claim per token, and what it injects stays in the window
\* (qdwin_stream_input_handle_claim, qdwin_stream_confine_motion).
InputConfined ==
    TokenOneShot /\ ConfinedToSource
=============================================================================
