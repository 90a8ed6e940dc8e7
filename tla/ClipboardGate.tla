--------------------------- MODULE ClipboardGate ---------------------------
(***************************************************************************)
(* The clipboard of one seat, and qdwin's receive-time gate in front of    *)
(* it: libweston's selection and offers (data-device.c), its clipboard     *)
(* manager that caches the selection (clipboard.c), the send shim qdwin    *)
(* puts into every selected source, and the requests it holds until the    *)
(* shell decides (qdwin.c, "spec/10 v15").                                 *)
(*                                                                         *)
(* Everything runs on one event loop, so an action is one dispatched       *)
(* request, disconnect or timer with every callback it triggers.  Setting  *)
(* the selection is re-entrant: the clipboard manager's listener runs      *)
(* before qdwin's on the same signal, and may itself set the selection.    *)
(*                                                                         *)
(* A request r stands for one wl_data_offer.receive (or one internal read  *)
(* by the clipboard manager) with its file descriptor.  req[r] counts how  *)
(* often the descriptor was handed to the source and how often qdwin       *)
(* closed it; fd says whether the pending entry still owns it, and verdict *)
(* (a history variable) what a shell answered.                             *)
(*                                                                         *)
(* Assumed of the environment: a client passes serials the compositor gave *)
(* it, so that a fresh serial is newer than the selection's.  Left out:    *)
(* drag and drop, the primary selection, read errors of the cache, and     *)
(* the compositor's shutdown.                                              *)
(***************************************************************************)
EXTENDS Naturals, FiniteSets

CONSTANTS Clients,      \* the ordinary Wayland clients
          Sources,      \* their wl_data_source objects
          SourceOwner,  \* [Sources -> Clients]
          Requests,     \* bound: the receives of one behaviour
          Shells,       \* the connections that may take the shell role
          ShellVersion, \* [Shells -> Nat], the bound version of qdwin_shell_v1
          Silos,        \* the identities set_keyboard_focus_v2 may name
          AllocMayFail, \* whether allocations and timer creation may fail
          CLIP,         \* the clipboard manager's cached source
          NONE

ASSUME ClipboardConstants ==
    /\ SourceOwner \in [Sources -> Clients]
    /\ ShellVersion \in [Shells -> Nat]
    /\ AllocMayFail \in BOOLEAN
    /\ CLIP \notin Sources
    /\ NONE \notin Clients \cup Sources \cup Shells \cup Silos \cup {CLIP}

AllSources == Sources \cup {CLIP}

VARIABLES selection,  \* seat->selection_data_source
          send,       \* which callback source->send is: "orig", "shim", or "gone" (no source)
          wraps,      \* qdwin->data_source_wraps, by source
          offer,      \* the client that holds source->offer, or NONE
          req,        \* the requests and their descriptors
          focus,      \* the client of keyboard->focus that has a data device
          silo,       \* qdwin_seat_tracker::last_target_silo
          alive,      \* the connected clients
          windows,    \* the clients with a tracked toplevel
          shell,      \* qdwin->shell_resource
          locked

selVars == <<selection, send, wraps, offer>>
clientVars == <<focus, silo, alive, windows>>
vars == <<selection, send, wraps, offer, req, focus, silo, alive, windows, shell, locked>>

NoRequest == [st |-> "none", source |-> NONE, target |-> NONE, shell |-> NONE,
              fd |-> FALSE, timer |-> FALSE, sends |-> 0, closes |-> 0,
              verdict |-> "none"]

Init ==
    /\ selection = NONE
    /\ send = [s \in AllSources |-> "gone"]
    /\ wraps = {}
    /\ offer = [s \in AllSources |-> NONE]
    /\ req = [r \in Requests |-> NoRequest]
    /\ focus = NONE
    /\ silo = NONE
    /\ alive = {}
    /\ windows = {}
    /\ shell = NONE
    /\ locked = FALSE

AllocOutcomes == IF AllocMayFail THEN BOOLEAN ELSE {TRUE}

-----------------------------------------------------------------------------
(* One pending receive.  Definitions ending in _bad are faulty variants of  *)
(* the definition that follows them, kept to show that the properties below *)
(* notice the fault.                                                        *)

pending(r) == req[r].st = "pending"

qdwin_data_offer_pending_close_bad(q, allow) ==
    IF allow /\ q.fd THEN [q EXCEPT !.sends = @ + 1]
    ELSE IF q.fd THEN [q EXCEPT !.closes = @ + 1]
    ELSE q

\* original_send() closes its copy; otherwise qdwin closes the descriptor.
qdwin_data_offer_pending_close(q, allow) ==
    IF allow /\ q.fd THEN [q EXCEPT !.sends = @ + 1, !.fd = FALSE]
    ELSE IF q.fd THEN [q EXCEPT !.closes = @ + 1, !.fd = FALSE]
    ELSE q

\* Nothing of the entry is left; what became of the descriptor is history.
qdwin_data_offer_pending_free(q) ==
    [q EXCEPT !.st = "settled", !.timer = FALSE, !.fd = FALSE, !.source = NONE, !.target = NONE,
              !.shell = NONE, !.closes = IF q.fd THEN @ + 1 ELSE @]

\* The loop over data_offer_pending: the entries of hit are freed.
FreeEntries(rs, hit) ==
    [r \in Requests |-> IF r \in hit /\ rs[r].st = "pending"
                        THEN qdwin_data_offer_pending_free(rs[r])
                        ELSE rs[r]]

qdwin_data_offer_pending_free_all_bad(rs) ==
    rs

qdwin_data_offer_pending_free_all(rs) ==
    FreeEntries(rs, Requests)

-----------------------------------------------------------------------------
(* The shim in source->send.  s is the source, r the new request.           *)

OwnerOf(s) == IF s = CLIP THEN NONE ELSE SourceOwner[s]

qdwin_shell_can_receive_v15 ==
    shell # NONE /\ ShellVersion[shell] >= 15

Denied == [NoRequest EXCEPT !.st = "settled", !.closes = 1]

Pending(s, target) ==
    [NoRequest EXCEPT !.st = "pending", !.source = s, !.target = target,
                      !.shell = shell, !.fd = TRUE, !.timer = TRUE]

\* timer_ok: the 2 s timer could be created and armed.
ArmTimer_bad(q, timer_ok) ==
    IF timer_ok THEN q ELSE [q EXCEPT !.timer = FALSE]

ArmTimer(q, timer_ok) ==
    IF timer_ok THEN q ELSE qdwin_data_offer_pending_free([q EXCEPT !.timer = FALSE])

\* target is the client of source->offer; mime_ok: within QDWIN_MIME_TYPE_MAX.
qdwin_data_source_send_shim(s, target, installed, mime_ok, alloc_ok, timer_ok) ==
    IF /\ s \in installed
       /\ qdwin_shell_can_receive_v15
       /\ mime_ok
       /\ OwnerOf(s) \in windows
       /\ target \in windows
       /\ alloc_ok
    THEN ArmTimer(Pending(s, target), timer_ok)
    ELSE Denied

\* source->send(source, mime, fd), whichever callback is installed.
SourceSend(s, target, mime_ok, alloc_ok, timer_ok) ==
    IF send[s] = "shim"
    THEN qdwin_data_source_send_shim(s, target, wraps, mime_ok, alloc_ok, timer_ok)
    ELSE [NoRequest EXCEPT !.st = "settled", !.sends = 1]

-----------------------------------------------------------------------------
(* weston_seat_set_selection and the two listeners of selection_signal,     *)
(* over the record w of the seat's selection state.                         *)

Selection == [selection |-> selection, send |-> send, wraps |-> wraps, offer |-> offer]

SetSelectionState(w) ==
    /\ selection' = w.selection
    /\ send' = w.send
    /\ wraps' = w.wraps
    /\ offer' = w.offer

qdwin_install_data_source_wrap_bad(w, s, alloc_ok) ==
    IF w.send[s] = "shim" \/ ~ alloc_ok
    THEN w
    ELSE [w EXCEPT !.send[s] = "shim", !.wraps = @ \cup {s}]

qdwin_install_data_source_wrap(w, s, alloc_ok) ==
    IF w.send[s] = "shim"
    THEN w
    ELSE [w EXCEPT !.send[s] = "shim", !.wraps = IF alloc_ok THEN @ \cup {s} ELSE @]

\* seat->selection_data_source = s, announced to the focused client.
Announce(w, s, to) ==
    [w EXCEPT !.selection = s,
              !.offer = IF s # NONE /\ to # NONE THEN [@ EXCEPT ![s] = to] ELSE @]

\* The source is freed: its wrap, the offers of it and, if it was selected,
\* the selection go with it.
ForgetSource(w, s) ==
    [w EXCEPT !.selection = IF @ = s THEN NONE ELSE @,
              !.send[s] = "gone",
              !.wraps = @ \ {s},
              !.offer[s] = NONE]

\* The selection becomes NULL.  clipboard_set_selection answers the signal by
\* selecting the cache, if there is one, which announces it and emits the signal
\* again; qdwin's listener wraps whatever is selected when it runs.
select_null(w, to, alloc_ok) ==
    LET w1 == Announce(w, NONE, to)
    IN  IF w1.send[CLIP] = "gone"
        THEN w1
        ELSE qdwin_install_data_source_wrap(Announce(w1, CLIP, to), CLIP, alloc_ok)

\* A client's source s is selected.  The clipboard manager drops its old cache
\* and, when s offers a type and the pipe can be made, starts a new one (cache);
\* only then does qdwin's listener run.
select_source(w, s, to, cache, alloc_ok) ==
    LET w1 == ForgetSource(Announce(w, s, to), CLIP)
        w2 == IF cache THEN [w1 EXCEPT !.send[CLIP] = "orig"] ELSE w1
    IN  qdwin_install_data_source_wrap(w2, s, alloc_ok)

\* wl_signal destroy of source s: qdwin_data_source_wrap_on_source_destroy frees
\* the pending entries of its wrap, destroy_selection_data_source the selection.
DestroySource(w, s, to, alloc_ok) ==
    LET w1 == ForgetSource(w, s)
    IN  IF w.selection = s THEN select_null(w1, to, alloc_ok) ELSE w1

FreeOfSource_bad(rs, ss) ==
    rs

FreeOfSource(rs, ss) ==
    FreeEntries(rs, {r \in Requests : rs[r].source \in ss})

-----------------------------------------------------------------------------
(* Clients                                                                  *)

WithoutToplevels(c) ==
    windows \ {c}

ClientConnects(c) ==
    /\ c \notin alive
    /\ alive' = alive \cup {c}
    /\ UNCHANGED <<selVars, req, focus, silo, windows, shell, locked>>

qdwin_surface_added(c) ==
    /\ c \in alive \ windows
    /\ windows' = windows \cup {c}
    /\ UNCHANGED <<selVars, req, focus, silo, alive, shell, locked>>

\* The client's last toplevel goes.  Its keyboard focus goes with it.
qdwin_surface_removed(c) ==
    /\ c \in windows
    /\ windows' = WithoutToplevels(c)
    /\ focus' = IF focus = c THEN NONE ELSE focus
    /\ UNCHANGED <<selVars, req, silo, alive, shell, locked>>

create_data_source(s) ==
    /\ SourceOwner[s] \in alive
    /\ send[s] = "gone"
    /\ send' = [send EXCEPT ![s] = "orig"]
    /\ UNCHANGED <<selection, wraps, offer, req, clientVars, shell, locked>>

destroy_data_source(s) ==
    /\ send[s] # "gone"
    /\ \E ok \in AllocOutcomes : SetSelectionState(DestroySource(Selection, s, focus, ok))
    /\ req' = FreeOfSource(req, {s})
    /\ UNCHANGED <<clientVars, shell, locked>>

\* A client frees its newest offer of s.
destroy_data_offer(s) ==
    /\ offer[s] # NONE
    /\ offer' = [offer EXCEPT ![s] = NONE]
    /\ UNCHANGED <<selection, send, wraps, req, clientVars, shell, locked>>

\* The connection ends.  wl_client's destroy listeners run first
\* (qdwin_data_offer_target_destroyed), then its objects are destroyed.
ClientDies(c) ==
    LET mine == {s \in Sources : SourceOwner[s] = c /\ send[s] # "gone"}
        to   == IF focus = c THEN NONE ELSE focus
        w1   == [selection |-> selection,
                 send |-> [s \in AllSources |-> IF s \in mine THEN "gone" ELSE send[s]],
                 wraps |-> wraps \ mine,
                 offer |-> [s \in AllSources |->
                              IF s \in mine \/ offer[s] = c THEN NONE ELSE offer[s]]]
    IN  /\ c \in alive
        /\ alive' = alive \ {c}
        /\ windows' = WithoutToplevels(c)
        /\ focus' = to
        /\ \E ok \in AllocOutcomes :
             SetSelectionState(IF selection \in mine THEN select_null(w1, to, ok) ELSE w1)
        /\ req' = FreeOfSource(FreeEntries(req, {r \in Requests : req[r].target = c}), mine)
        /\ UNCHANGED <<silo, shell, locked>>

\* A fresh serial; a request with an older one than the selection's is ignored.
\* Re-selecting a source that already carries the shim sends the clipboard
\* manager's own read through the gate, as request r.
data_device_set_selection(s) ==
    /\ send[s] # "gone"
    /\ \E cache \in BOOLEAN, ok \in AllocOutcomes :
         SetSelectionState(select_source(Selection, s, focus, cache, ok))
         /\ IF cache /\ send[s] = "shim"
            THEN \E r \in Requests, ok2, ok3 \in AllocOutcomes :
                   /\ req[r].st = "none"
                   /\ req' = [req EXCEPT ![r] =
                                SourceSend(s, IF focus # NONE THEN focus ELSE offer[s], TRUE, ok2, ok3)]
            ELSE UNCHANGED req
    /\ UNCHANGED <<clientVars, shell, locked>>

\* Keyboard focus moves to client c, who is sent the selection.
weston_seat_set_keyboard_focus(c) ==
    /\ c \in windows
    /\ focus' = c
    /\ offer' = IF selection # NONE THEN [offer EXCEPT ![selection] = c] ELSE offer
    /\ UNCHANGED <<selection, send, wraps, req, silo, alive, windows, shell, locked>>

\* current: the client reads its newest offer and the source has no newer one.
data_offer_receive(c, s, r) ==
    /\ c \in alive
    /\ req[r].st = "none"
    /\ \E current, mime_ok \in BOOLEAN, ok, ok2 \in AllocOutcomes :
         /\ current => offer[s] = c
         /\ req' = [req EXCEPT ![r] = IF current THEN SourceSend(s, c, mime_ok, ok, ok2)
                                      ELSE Denied]
    /\ UNCHANGED <<selVars, clientVars, shell, locked>>

-----------------------------------------------------------------------------
(* The 2 s timer and the shell                                              *)

qdwin_data_offer_pending_timeout_cb(r) ==
    /\ pending(r)
    /\ req[r].timer
    /\ req' = [req EXCEPT ![r] = qdwin_data_offer_pending_free(
                                   qdwin_data_offer_pending_close(@, FALSE))]
    /\ UNCHANGED <<selVars, clientVars, shell, locked>>

\* An answer to a request that is no longer pending is ignored.
qdwin_handle_data_offer_receive_decision(r, allow) ==
    /\ shell # NONE
    /\ pending(r)
    /\ req' = [req EXCEPT ![r] = qdwin_data_offer_pending_free(
                                   qdwin_data_offer_pending_close(
                                     [@ EXCEPT !.verdict = IF allow THEN "allow" ELSE "deny"],
                                     allow))]
    /\ UNCHANGED <<selVars, clientVars, shell, locked>>

qdwin_handle_bind_as_shell(q) ==
    /\ shell = NONE
    /\ shell' = q
    /\ UNCHANGED <<selVars, req, clientVars, locked>>

\* The shell disconnects, or a protocol error was posted to it.
ShellGone ==
    /\ shell' = NONE
    /\ req' = qdwin_data_offer_pending_free_all(req)
    /\ UNCHANGED <<selVars, clientVars, locked>>

qdwin_shell_resource_destroy ==
    /\ shell # NONE
    /\ ShellGone

qdwin_handle_clear_selection ==
    /\ shell # NONE
    /\ ShellVersion[shell] >= 11
    /\ \/ locked /\ ShellGone                  \* error "locked"
       \/ /\ ~ locked
          /\ selection # NONE
          /\ \E ok \in AllocOutcomes : SetSelectionState(select_null(Selection, focus, ok))
          /\ UNCHANGED <<req, clientVars, shell, locked>>

\* Focus goes to the client of the target toplevel, or (NONE) nowhere; clear says
\* whether the seat's selection is dropped first.
FocusRequest(c, clear) ==
    \E ok \in AllocOutcomes :
      LET w1 == IF clear THEN select_null(Selection, focus, ok) ELSE Selection
          w2 == IF c # NONE /\ c # focus /\ w1.selection # NONE
                THEN [w1 EXCEPT !.offer[w1.selection] = c] ELSE w1
      IN  SetSelectionState(w2) /\ focus' = c

qdwin_handle_set_keyboard_focus(c) ==
    /\ shell # NONE
    /\ ShellVersion[shell] >= 14
    /\ \/ locked /\ ShellGone
       \/ /\ ~ locked
          /\ c \in windows \cup {NONE}
          /\ FocusRequest(c, TRUE)
          /\ UNCHANGED <<req, silo, alive, windows, shell, locked>>

\* An empty or unknown silo (NONE) counts as another one.
qdwin_handle_set_keyboard_focus_v2(c, target_silo) ==
    LET cross_silo == c = NONE \/ target_silo = NONE \/ target_silo # silo
    IN  /\ shell # NONE
        /\ ShellVersion[shell] >= 16
        /\ \/ locked /\ ShellGone
           \/ /\ ~ locked
              /\ c \in windows \cup {NONE}
              /\ FocusRequest(c, cross_silo)
              /\ silo' = IF c = NONE THEN NONE ELSE target_silo
              /\ UNCHANGED <<req, alive, windows, shell, locked>>

\* The session lock, modelled in QdwinLock: here only the flag the handlers read.
LockChanges ==
    /\ locked' = ~ locked
    /\ UNCHANGED <<selVars, req, clientVars, shell>>

ClientNext ==
    \/ \E c \in Clients : \/ ClientConnects(c) \/ ClientDies(c)
                          \/ qdwin_surface_added(c) \/ qdwin_surface_removed(c)
                          \/ weston_seat_set_keyboard_focus(c)
    \/ \E s \in Sources : \/ create_data_source(s) \/ destroy_data_source(s)
                          \/ data_device_set_selection(s)
    \/ \E s \in AllSources : destroy_data_offer(s)
    \/ \E c \in Clients, s \in AllSources, r \in Requests : data_offer_receive(c, s, r)

ShellNext ==
    \/ \E q \in Shells : qdwin_handle_bind_as_shell(q)
    \/ qdwin_shell_resource_destroy
    \/ \E r \in Requests, allow \in BOOLEAN :
         qdwin_handle_data_offer_receive_decision(r, allow)
    \/ qdwin_handle_clear_selection
    \/ \E c \in Clients \cup {NONE} : qdwin_handle_set_keyboard_focus(c)
    \/ \E c \in Clients \cup {NONE}, i \in Silos \cup {NONE} :
         qdwin_handle_set_keyboard_focus_v2(c, i)

Next ==
    \/ ClientNext
    \/ ShellNext
    \/ \E r \in Requests : qdwin_data_offer_pending_timeout_cb(r)
    \/ LockChanges

Spec == Init /\ [][Next]_vars

\* The event loop runs a timer that has expired.
TimerFairness ==
    \A r \in Requests : WF_vars(qdwin_data_offer_pending_timeout_cb(r))

-----------------------------------------------------------------------------
(* Properties                                                               *)

Statuses == {"none", "pending", "settled"}

Request ==
    [st : Statuses, source : AllSources \cup {NONE}, target : Clients \cup {NONE},
     shell : Shells \cup {NONE}, fd : BOOLEAN, timer : BOOLEAN, sends : Nat, closes : Nat,
     verdict : {"none", "allow", "deny"}]

TypeOK ==
    /\ selection \in AllSources \cup {NONE}
    /\ send \in [AllSources -> {"gone", "orig", "shim"}]
    /\ wraps \subseteq AllSources
    /\ offer \in [AllSources -> Clients \cup {NONE}]
    /\ req \in [Requests -> Request]
    /\ focus \in Clients \cup {NONE}
    /\ silo \in Silos \cup {NONE}
    /\ alive \subseteq Clients
    /\ windows \subseteq alive
    /\ shell \in Shells \cup {NONE}
    /\ locked \in BOOLEAN

\* Every descriptor that reaches the gate is settled exactly once: while the
\* request is pending qdwin owns it and has neither sent nor closed it, and when
\* the entry is gone it was either handed to the source or closed, never both and
\* never twice, whichever of decision, timeout, source loss, receiver loss and
\* shell loss came first (qdwin_data_offer_pending_close and _free).
DescriptorSettledOnce ==
    \A r \in Requests :
      /\ pending(r) <=> req[r].fd
      /\ req[r].sends + req[r].closes = IF req[r].st = "settled" THEN 1 ELSE 0

\* A wrap belongs to a source that carries the shim, and a source goes no later than the
\* client that made it (qdwin_data_source_wrap_on_source_destroy, destroy_data_source).
WrapsLive ==
    /\ \A s \in wraps : send[s] = "shim"
    /\ \A s \in Sources : send[s] # "gone" => SourceOwner[s] \in alive

\* A pending entry's pointers are good: its wrap and source exist and are the ones
\* the shim replaced, and the receiver is still connected, so that an "allow" calls
\* original_send on a live source (qdwin_data_source_wrap_on_source_destroy,
\* qdwin_data_offer_target_destroyed).
PendingPointersLive ==
    \A r \in Requests : pending(r) =>
      /\ req[r].source \in wraps
      /\ send[req[r].source] = "shim"
      /\ req[r].target \in alive
      /\ OwnerOf(req[r].source) \in alive

\* "A replacement shell must never inherit outstanding approvals": whoever may
\* decide a pending request is the shell that was told of it
\* (qdwin_shell_resource_destroy).
AskedShellDecides ==
    \A r \in Requests : pending(r) => shell # NONE /\ req[r].shell = shell

\* Whatever is selected or offered carries the shim, the clipboard manager's cache and sources
\* whose wrap could not be allocated included: no receive reaches a source's own
\* callback (qdwin_on_seat_selection_changed, qdwin_install_data_source_wrap).
OfferedIsGated ==
    /\ selection # NONE => send[selection] = "shim"
    /\ \A s \in AllSources : offer[s] # NONE => send[s] = "shim"

\* A receiver's descriptor reaches the source only if the shell allowed that very
\* request; a timeout, a lost party or an answer that comes too late never sends
\* (qdwin_data_offer_pending_timeout_cb, qdwin_handle_data_offer_receive_decision).
SentOnlyIfAllowed ==
    \A r \in Requests : req[r].sends > 0 => req[r].verdict = "allow"

\* No request stays pending: whatever the shell does, the 2 s timer ends it, and a
\* request whose timer cannot be made is denied at once
\* (qdwin_data_source_send_shim).
EveryReceiveEnds ==
    \A r \in Requests : pending(r) ~> ~ pending(r)

\* The entries of data_offer_pending are sound: of their type, and every pointer in a
\* pending one is good (qdwin_data_source_wrap_on_source_destroy,
\* qdwin_data_offer_target_destroyed).
PendingSound ==
    TypeOK /\ WrapsLive /\ PendingPointersLive

\* Nothing gets past the gate: whatever is offered carries the shim, and a descriptor
\* reaches its source only with the shell's permission (qdwin_install_data_source_wrap,
\* qdwin_handle_data_offer_receive_decision).
NothingPastTheGate ==
    OfferedIsGated /\ SentOnlyIfAllowed
=============================================================================
