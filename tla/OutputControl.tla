---------------------------- MODULE OutputControl ----------------------------
(***************************************************************************)
(* Requests about outputs: screen capture, and wlr-output-management. Two  *)
(* parts that share no state here.                                         *)
(***************************************************************************)
EXTENDS Naturals, FiniteSets, Sequences, SequencesExt, FiniteSetsExt

-----------------------------------------------------------------------------
(***************************************************************************)
(* Screen capture of the designated output: libweston's capture sources    *)
(* and tasks (output-capture.c) and the retained frame from which qdwin    *)
(* answers a capture when the output cannot repaint (qdwin_capture_* ).    *)
(*                                                                         *)
(* A source belongs to a client; it has at most one pending task, the      *)
(* buffer the client handed over.  A repaint answers every pending task;   *)
(* nothing promises that a repaint runs (sleep, a lost seat, a forced-off  *)
(* display, a wedged backend).  A frame, a buffer and the advertised       *)
(* requirements are told apart by the output mode they fit.                *)
(*                                                                         *)
(* Left out: other outputs (qdwin_capture_auth_cb refuses them all), the   *)
(* writeback source (DRM only), buffers that are not shared memory (they   *)
(* fail where another one completes).                                      *)
(***************************************************************************)

CONSTANTS Sources, Clients,
          OwnerOf(_),   \* the client that creates a source
          Modes,        \* sizes and formats the output may have
          MaxVetoes,    \* BOUND on the plane vetoes left behind by disables
          NONE

Kinds == {"framebuffer", "full"}         \* pixel sources of the renderer

VARIABLES shell,     \* [client, v33]: the bound shell; does it know stale marks
          active,    \* compositor->session_active
          out,       \* the output: [on, lit, mode, frame]; frame is the retained one
          armed,     \* capture_stale_timer_armed
          src,       \* source |-> [kind, linked], or NONE
          cap,       \* [task, marked, skipped, vetoes, left]: the pending tasks
          wrong      \* history: a shell that knows stale marks got old pixels unmarked

captureVars == <<shell, active, out, armed, src, cap, wrong>>

(* cap.task[s]: the mode of the pending buffer, or NONE;  cap.marked: the   *)
(* sources whose client was sent capture_served_stale while they waited;    *)
(* cap.skipped: the sources whose task the retained frame could not serve;  *)
(* cap.vetoes: output->disable_planes; cap.left: the tasks that were        *)
(* pending when their output was disabled.                                  *)

CaptureInit ==
    /\ shell = [client |-> NONE, v33 |-> FALSE]
    /\ active = TRUE
    /\ out = [on |-> TRUE, lit |-> TRUE, mode |-> CHOOSE m \in Modes : TRUE, frame |-> NONE]
    /\ armed = FALSE
    /\ src = [s \in Sources |-> NONE]
    /\ cap = [task |-> [s \in Sources |-> NONE], marked |-> {}, skipped |-> {}, vetoes |-> 0, left |-> 0]
    /\ wrong = FALSE

Pending(c) == {s \in Sources : c.task[s] # NONE}

\* The retained frame may be handed out only in the mode it was painted in.
Usable == out.frame = out.mode

Authorized(s) == shell.client = OwnerOf(s)

(***************************************************************************)
(* Tasks.                                                                  *)
(***************************************************************************)

Filed(c, s, m) == [c EXCEPT !.task[s] = m, !.vetoes = @ + 1]

\* weston_capture_task_destroy for the tasks of S.
Destroyed(c, S) ==
    LET n == Cardinality(S \cap Pending(c)) IN
    [c EXCEPT !.task = [s \in Sources |-> IF s \in S THEN NONE ELSE @[s]],
              !.marked = @ \ S, !.skipped = @ \ S, !.vetoes = @ - n]

\* weston_output_pull_capture_task: authorised, and the buffer still fits.
\* The others of S get `failed' or `retry'.
Completed(c, S) == {s \in S : Authorized(s) /\ c.task[s] = out.mode}

\* A task of S completes with the retained frame though no mark was sent while it waited.
Unmarked(c, S) == shell.v33 /\ ~(Completed(c, S) \subseteq c.marked)

\* The stale mark is one event to the shell: it counts for every request of the
\* shell's client that is open at that moment.
Mark(c) ==
    [c EXCEPT !.marked = @ \cup (IF shell.v33 THEN {s \in Pending(c) : OwnerOf(s) = shell.client}
                                              ELSE {})]

\* qdwin_capture_serve_stale: <<tasks after, old pixels went out unmarked>>.  The mark is
\* posted before the answers and before it is known whether the frame fits;
\* only framebuffer tasks are answered.
ServeStale(c) ==
    LET S == {s \in Pending(c) : src[s].kind = "framebuffer"} IN
    CASE out.frame = NONE -> <<[c EXCEPT !.skipped = @ \cup S], FALSE>>
      [] Pending(c) = {} -> <<c, FALSE>>
      [] OTHER ->
           IF Usable THEN <<Destroyed(Mark(c), S), Unmarked(Mark(c), S)>>
                     ELSE <<[Mark(c) EXCEPT !.skipped = @ \cup S], FALSE>>

Serve(c) ==
    /\ cap' = ServeStale(c)[1]
    /\ wrong' = (wrong \/ ServeStale(c)[2])

(***************************************************************************)
(* Requests.                                                               *)
(***************************************************************************)

BindShell(c, v) ==
    /\ shell.client = NONE
    /\ shell' = [client |-> c, v33 |-> v]
    /\ UNCHANGED <<active, out, armed, src, cap, wrong>>

UnbindShell ==
    /\ shell.client # NONE
    /\ shell' = [client |-> NONE, v33 |-> FALSE]
    /\ UNCHANGED <<active, out, armed, src, cap, wrong>>

\* weston_capture_v1.create; a wl_output that is gone gives an unlinked source.
CreateSource(s, k) ==
    /\ src[s] = NONE
    /\ src' = [src EXCEPT ![s] = [kind |-> k, linked |-> out.on]]
    /\ UNCHANGED <<shell, active, out, armed, cap, wrong>>

\* destroy_capture_source, by the client or its disconnect.
DestroySource(s) ==
    /\ src[s] # NONE
    /\ src' = [src EXCEPT ![s] = NONE]
    /\ cap' = Destroyed(cap, {s})
    /\ UNCHANGED <<shell, active, out, armed, wrong>>

\* weston_capture_source_v1.capture with a buffer for the current mode, then
\* qdwin_capture_task_filed_cb.  A second request while one is pending is a
\* protocol error; an unlinked source and a misfit buffer are answered at once
\* and change nothing.
Capture_without_timer(s) ==
    /\ src[s] # NONE /\ src[s].linked /\ cap.task[s] = NONE
    /\ IF active /\ out.lit
       THEN /\ cap' = Filed(cap, s, out.mode)
            /\ UNCHANGED <<armed, wrong>>
       ELSE /\ Serve(Filed(cap, s, out.mode))
            /\ UNCHANGED armed
    /\ UNCHANGED <<shell, active, out, src>>

Capture(s) ==
    /\ src[s] # NONE /\ src[s].linked /\ cap.task[s] = NONE
    /\ IF active /\ out.lit
       THEN /\ cap' = Filed(cap, s, out.mode)
            /\ armed' = TRUE
            /\ UNCHANGED wrong
       ELSE /\ Serve(Filed(cap, s, out.mode))
            /\ UNCHANGED armed
    /\ UNCHANGED <<shell, active, out, src>>

\* The client destroys the wl_buffer of a pending task: `failed'.
DestroyBuffer(s) ==
    /\ cap.task[s] # NONE
    /\ cap' = Destroyed(cap, {s})
    /\ UNCHANGED <<shell, active, out, armed, src, wrong>>

(***************************************************************************)
(* The compositor.                                                         *)
(***************************************************************************)

\* qdwin_capture_stale_timer_cb.
StaleTimer ==
    /\ armed
    /\ armed' = FALSE
    /\ IF out.on /\ Pending(cap) # {} THEN Serve(cap) ELSE UNCHANGED <<cap, wrong>>
    /\ UNCHANGED <<shell, active, out, src>>

\* A repaint pulls the tasks of every pixel source, then retains the frame.
CaptureRepaint ==
    /\ out.on /\ out.lit /\ active
    /\ cap' = Destroyed(cap, Pending(cap))
    /\ out' = [out EXCEPT !.frame = out.mode]
    /\ UNCHANGED <<shell, active, armed, src, wrong>>

\* weston_output_update_capture_info after a mode change: the tasks stay and
\* get `retry' when they are pulled.
ChangeMode(m) ==
    /\ out.on /\ m # out.mode
    /\ out' = [out EXCEPT !.mode = m]
    /\ UNCHANGED <<shell, active, armed, src, cap, wrong>>

ToggleSession ==
    /\ active' = ~active
    /\ UNCHANGED <<shell, out, armed, src, cap, wrong>>

TogglePower ==
    /\ out.on
    /\ out' = [out EXCEPT !.lit = ~@]
    /\ UNCHANGED <<shell, active, armed, src, cap, wrong>>

\* weston_output_capture_info_destroy: the sources are unlinked first, so the
\* tasks that fail here do not take back their plane veto.
DisableOutput ==
    /\ out.on
    /\ cap.vetoes <= MaxVetoes
    /\ out' = [out EXCEPT !.on = FALSE, !.frame = NONE]
    /\ src' = [s \in Sources |-> IF src[s] = NONE THEN NONE ELSE [src[s] EXCEPT !.linked = FALSE]]
    /\ cap' = [Destroyed(cap, Sources) EXCEPT !.vetoes = cap.vetoes,
                                              !.left = @ + Cardinality(Pending(cap))]
    /\ UNCHANGED <<shell, active, armed, wrong>>

\* weston_output_capture_info_create, then qdwin_capture_retention_maybe_arm.
EnableOutput ==
    /\ ~out.on
    /\ out' = [out EXCEPT !.on = TRUE]
    /\ UNCHANGED <<shell, active, armed, src, cap, wrong>>

CaptureNext ==
    \/ \E c \in Clients, v \in BOOLEAN : BindShell(c, v)
    \/ UnbindShell \/ StaleTimer \/ CaptureRepaint \/ ToggleSession \/ TogglePower
    \/ DisableOutput \/ EnableOutput
    \/ \E m \in Modes : ChangeMode(m)
    \/ \E s \in Sources : \/ \E k \in Kinds : CreateSource(s, k)
                          \/ DestroySource(s) \/ Capture(s) \/ DestroyBuffer(s)

\* Only the event loop's timer is relied on.
CaptureSpec == CaptureInit /\ [][CaptureNext]_captureVars /\ WF_captureVars(StaleTimer)
-----------------------------------------------------------------------------
\* Type correctness; a task is pending only at a source linked to the output.
CaptureTypeOK ==
    /\ shell \in [client : Clients \cup {NONE}, v33 : BOOLEAN]
    /\ active \in BOOLEAN /\ armed \in BOOLEAN
    /\ out \in [on : BOOLEAN, lit : BOOLEAN, mode : Modes, frame : Modes \cup {NONE}]
    /\ src \in [Sources -> [kind : Kinds, linked : BOOLEAN] \cup {NONE}]
    /\ cap.task \in [Sources -> Modes \cup {NONE}]
    /\ cap.vetoes \in 0..(MaxVetoes + Cardinality(Sources))
    /\ \A s \in Pending(cap) : src[s] # NONE /\ src[s].linked
    /\ cap.left \in Nat /\ wrong \in BOOLEAN
    /\ cap.marked \subseteq Pending(cap) /\ cap.skipped \subseteq Pending(cap)

\* A shell that knows stale marks never gets a retained frame without having been sent
\* capture_served_stale while it waited, also when the capture was filed under a shell
\* that has lost the role since (qdwin_capture_serve_stale: the mark is one event to the
\* shell of the moment, and goes out before the answers).
StaleIsMarked == ~wrong

\* The output's planes are off exactly for the pending tasks, so that a capture sees every
\* surface and they come back after it; but a task that was pending when its output was
\* disabled keeps them off for good (output-capture.c unlinks the source first).
PlanesHeld == cap.vetoes = Cardinality(Pending(cap)) + cap.left

Waiting(s) == s \in Pending(cap) /\ src[s].kind = "framebuffer"
Settled(s) == s \notin Pending(cap) \/ s \in cap.skipped

\* A framebuffer capture never hangs: it is answered or taken back, unless an
\* attempt to serve it found no retained frame that fits, even if no repaint
\* ever comes again (the wedge timer of qdwin_capture_task_filed_cb).
CaptureSettles == \A s \in Sources : Waiting(s) ~> Settled(s)

-----------------------------------------------------------------------------
(* wlr-output-management in qdwin: heads announced with a serial, a           *)
(* configuration that must name every head, and its application to the        *)
(* outputs, undone when one of its steps fails.  Two heads may share an       *)
(* output (clones).  Mode, scale, transform and position are one setting.     *)

CONSTANTS
    Heads,      \* desktop heads
    Screens,    \* weston_outputs
    ScreenOf,   \* the output a head is attached to
    Settings

VARIABLES
    screen,     \* [power, setting]; power is "on", "off", "gone"
    flip,       \* outputs with a page flip pending: the backend postpones a disable
    leaving,    \* outputs whose disable was postponed
    config,     \* NONE or the client's configuration
    result,     \* what it was answered
    refused     \* outputs the backend would not bring back in the last undo

managerVars == <<screen, flip, leaving, config, result, refused>>

Wants == {"off", "keep"} \cup Settings          \* disable, enable, enable with
Entry == [head : Heads, want : Wants]

ManagerTypeOK ==
    /\ screen \in [Screens -> [power : {"on", "off", "gone"}, setting : Settings]]
    /\ flip \subseteq Screens /\ leaving \subseteq Screens /\ refused \subseteq Screens
    /\ \/ config = NONE
       \/ /\ config.fresh \in BOOLEAN /\ config.used \in BOOLEAN /\ config.inert \in BOOLEAN
          /\ config.entries \in Seq(Entry)
    /\ result \in {"none", "succeeded", "failed", "cancelled"}

ManagerInit ==
    /\ screen \in [Screens -> [power : {"on"}, setting : Settings]]
    /\ flip = {} /\ leaving = {}
    /\ config = NONE
    /\ result = "none" /\ refused = {}
-----------------------------------------------------------------------------
Present(h) == screen[ScreenOf[h]].power # "gone"

\* qdwin_om_resync_all: the serial moves, every announced head goes inert.  What an
\* outdated configuration asks for is never looked at again.
Bumped(c) == IF c = NONE THEN NONE ELSE [c EXCEPT !.fresh = FALSE, !.entries = <<>>]

CreateConfiguration ==
    /\ config = NONE
    /\ config' = [fresh |-> TRUE, used |-> FALSE, inert |-> FALSE, entries |-> <<>>]
    /\ result' = "none" /\ refused' = {}
    /\ UNCHANGED <<screen, flip, leaving>>

\* enable_head with what is set on it, or disable_head.  A head twice is an error
\* that ends the client.
ConfigureHead(h, want) ==
    /\ config # NONE /\ ~config.used /\ config.fresh /\ Present(h)
    /\ \A i \in 1..Len(config.entries) : config.entries[i].head # h
    /\ config' = [config EXCEPT !.entries = <<[head |-> h, want |-> want]>> \o @]
    /\ UNCHANGED <<screen, flip, leaving, result, refused>>

\* The client names a head it was told is finished.
ConfigureInert ==
    /\ config # NONE /\ ~config.used /\ ~config.inert
    /\ config' = [config EXCEPT !.inert = TRUE]
    /\ UNCHANGED <<screen, flip, leaving, result, refused>>

\* The configuration goes, with its client or after its answer.
ConfigResourceDestroyed ==
    /\ config # NONE /\ config' = NONE /\ result' = "none" /\ refused' = {}
    /\ UNCHANGED <<screen, flip, leaving>>
-----------------------------------------------------------------------------
(* Applying.  A layout is what an application works on: the outputs, those    *)
(* leaving, and whether a step failed.                                        *)

\* weston_output_disable: the backend postpones it while a flip is pending.
Disable(s, o) ==
    CASE s.screen[o].power # "on" -> s
      [] s.screen[o].power = "on" /\ o \in s.flip -> [s EXCEPT !.leaving = @ \cup {o}]
      [] OTHER -> [s EXCEPT !.screen[o].power = "off", !.bump = TRUE]

\* One entry: bring the output up, switch its setting.  The backend refuses
\* either for the outputs in bad.
EntryApplied(s, e, bad) ==
    LET o  == ScreenOf[e.head]
        up == IF s.screen[o].power = "on" THEN s
              ELSE IF o \in bad.enable THEN [s EXCEPT !.failed = TRUE]
              ELSE [s EXCEPT !.screen[o].power = "on", !.bump = TRUE]
    IN  CASE s.failed -> s
          [] ~s.failed /\ e.want = "off" -> Disable(s, o)
          [] ~s.failed /\ e.want # "off" ->
                IF up.failed \/ e.want \in {"keep", s.screen[o].setting} THEN up
                ELSE IF o \in bad.switch THEN [up EXCEPT !.failed = TRUE]
                ELSE [up EXCEPT !.screen[o].setting = e.want, !.bump = TRUE]

AllApplied(s, es, bad) ==
    LET applied[i \in 0..Len(es)] ==
          IF i = 0 THEN s ELSE EntryApplied(applied[i - 1], es[i], bad)
    IN  applied[Len(es)]

\* qdwin_om_restore of one output to what was captured.
Restored_no_redisable(was, s, o, bad) ==
    LET up == IF was[o].power = "on" /\ s.screen[o].power = "off"
              THEN IF o \in bad.enable THEN [s EXCEPT !.refused = @ \cup {o}]
                                       ELSE [s EXCEPT !.screen[o].power = "on", !.bump = TRUE]
              ELSE s
    IN  IF up.screen[o].power = "on" /\ up.screen[o].setting # was[o].setting
        THEN IF o \in bad.switch THEN [up EXCEPT !.refused = @ \cup {o}]
                                 ELSE [up EXCEPT !.screen[o].setting = was[o].setting, !.bump = TRUE]
        ELSE up

Restored(was, s, o, bad) ==
    LET up  == IF was[o].power = "on" /\ s.screen[o].power = "off"
               THEN IF o \in bad.enable THEN [s EXCEPT !.refused = @ \cup {o}]
                                        ELSE [s EXCEPT !.screen[o].power = "on", !.bump = TRUE]
               ELSE s
        set == IF up.screen[o].power = "on" /\ up.screen[o].setting # was[o].setting
               THEN IF o \in bad.switch THEN [up EXCEPT !.refused = @ \cup {o}]
                                        ELSE [up EXCEPT !.screen[o].setting = was[o].setting, !.bump = TRUE]
               ELSE up
    IN  IF was[o].power = "off" THEN Disable(set, o) ELSE set

AllRestored(s, bad) == FoldSet(LAMBDA o, a : Restored(screen, a, o, bad), s, Screens)

\* qdwin_om_config_realize up to the apply pass.
Acceptable == ~config.inert /\ \E i \in 1..Len(config.entries) : config.entries[i].want # "off"
\* qdwin_om_config_all_heads_set; a missing head is an error that ends the client.
AllHeadsSet ==
    \A h \in Heads : Present(h) => \E i \in 1..Len(config.entries) : config.entries[i].head = h

Answered(a) == /\ result' = a
               /\ config' = [config EXCEPT !.used = TRUE, !.entries = <<>>, !.inert = FALSE]

\* apply or test of a configuration whose serial has passed.
Cancelled ==
    /\ config # NONE /\ ~config.used /\ ~config.fresh
    /\ Answered("cancelled")
    /\ UNCHANGED <<screen, flip, leaving, refused>>

ConfigTest ==
    /\ config # NONE /\ ~config.used /\ config.fresh /\ AllHeadsSet
    /\ Answered(IF Acceptable THEN "succeeded" ELSE "failed")
    /\ UNCHANGED <<screen, flip, leaving, refused>>

\* The apply pass, and the undo when it fails.
Realized(bad) ==
    LET s0 == [screen |-> screen, flip |-> flip, leaving |-> leaving, failed |-> ~Acceptable,
               refused |-> {}, bump |-> FALSE]
        s1 == IF Acceptable THEN AllApplied(s0, config.entries, bad) ELSE s0
        s2 == IF s1.failed /\ Acceptable THEN AllRestored(s1, bad) ELSE s1
    IN  /\ screen' = s2.screen /\ leaving' = s2.leaving /\ refused' = s2.refused
        /\ result' = IF s1.failed THEN "failed" ELSE "succeeded"
        /\ config' = [config EXCEPT !.used = TRUE, !.fresh = @ /\ s1.failed /\ ~s2.bump,
                                   !.entries = <<>>, !.inert = FALSE]

\* The backend may refuse to enable some outputs and to switch some.
ConfigApply ==
    /\ config # NONE /\ ~config.used /\ config.fresh /\ AllHeadsSet
    /\ \E e, s \in SUBSET Screens : Realized([enable |-> e, switch |-> s])
    /\ UNCHANGED flip
-----------------------------------------------------------------------------
(* The backend.                                                               *)

\* An output is repainted, and its flip completes; a postponed disable follows.
ManagerRepaint(o) ==
    /\ screen[o].power = "on" /\ o \notin flip \cup leaving
    /\ flip' = flip \cup {o}
    /\ UNCHANGED <<screen, leaving, config, result, refused>>
FlipDone(o) ==
    /\ o \in flip /\ flip' = flip \ {o}
    /\ leaving' = leaving \ {o}
    /\ IF o \in leaving
       THEN screen' = [screen EXCEPT ![o].power = "off"] /\ config' = Bumped(config)
       ELSE UNCHANGED <<screen, config>>
    /\ UNCHANGED <<result, refused>>

\* A monitor is unplugged and its output destroyed, or plugged in again.
Unplug(o) ==
    /\ screen[o].power = "on" /\ o \notin flip
    /\ screen' = [screen EXCEPT ![o].power = "gone"]
    /\ leaving' = leaving \ {o} /\ config' = Bumped(config)
    /\ UNCHANGED <<flip, result, refused>>
Plug(o) ==
    /\ screen[o].power = "gone"
    /\ screen' = [screen EXCEPT ![o].power = "on"] /\ config' = Bumped(config)
    /\ UNCHANGED <<flip, leaving, result, refused>>

ManagerNext ==
    \/ CreateConfiguration \/ ConfigureInert \/ ConfigResourceDestroyed \/ Cancelled \/ ConfigTest
    \/ ConfigApply
    \/ \E h \in Heads, w \in Wants : ConfigureHead(h, w)
    \/ \E o \in Screens : ManagerRepaint(o) \/ FlipDone(o) \/ Unplug(o) \/ Plug(o)

ManagerSpec == ManagerInit /\ [][ManagerNext]_managerVars
-----------------------------------------------------------------------------
\* A configuration that fails half way leaves every output as it was, on or off
\* and with its setting, but for one the backend would not bring back and one
\* whose disable it had postponed; and no configuration made for an earlier
\* layout changes anything (qdwin_om_capture, qdwin_om_restore, the serial).
LayoutAtomicStep ==
    config # NONE /\ ~config.used /\ config' # NONE /\ config'.used /\ result' # "succeeded" =>
        /\ \A o \in Screens \ (refused' \cup leaving') :
              screen'[o].power = screen[o].power
              /\ (screen[o].power = "on" => screen'[o].setting = screen[o].setting)
        /\ ~config.fresh => screen' = screen
=============================================================================
