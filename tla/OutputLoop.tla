----------------------------- MODULE OutputLoop ------------------------------
(***************************************************************************)
(* Outputs: the repaint loop that paces them, and the heads and            *)
(* configuration that create and destroy them. Two parts that share no     *)
(* state here.                                                             *)
(***************************************************************************)
EXTENDS Naturals, Sequences, FiniteSets, FiniteSetsExt, SequencesExt, Integers

-----------------------------------------------------------------------------
(* The repaint loop of libweston's outputs: requests, the idle task that      *)
(* starts a loop, the shared repaint timer, the backend's completions, power, *)
(* sleep and a backend that defers, with the frame callbacks and presentation *)
(* feedback that ride on it.  One backend; outputs repaint in order.          *)

CONSTANTS
    N,          \* outputs are 1..N
    Surfaces,
    HomeOf      \* the primary output of a surface

VARIABLES
    status,     \* output->repaint_status
    needed,     \* output->repaint_needed
    ready,      \* output->ready
    forced,     \* outputs powered off (WESTON_OUTPUT_POWER_FORCED_OFF)
    idle,       \* outputs with an idle_repaint_source
    flying,     \* outputs whose backend owes a completion
    timer,      \* the repaint timer is armed
    comp,       \* compositor->state
    deferred,   \* backend->deferred
    frame,      \* surfaces with a frame callback waiting
    feedback    \* where a surface's presentation feedback is: on the
                \* surface's list (Own), on an output's, or nowhere (0)

repaintVars == <<status, needed, ready, forced, idle, flying, timer, comp, deferred, frame, feedback>>

RepaintOutputs == 1..N
Own == N + 1
Loop == {"not_scheduled", "begin_from_idle", "scheduled", "awaiting", "deferred"}
Asleep == comp \in {"sleeping", "offscreen"}

RepaintTypeOK ==
    /\ status \in [RepaintOutputs -> Loop]
    /\ needed \subseteq RepaintOutputs /\ ready \subseteq RepaintOutputs /\ forced \subseteq RepaintOutputs
    /\ idle \subseteq RepaintOutputs /\ flying \subseteq RepaintOutputs
    /\ timer \in BOOLEAN /\ deferred \in BOOLEAN
    /\ comp \in {"active", "idle", "sleeping", "offscreen"}
    /\ frame \subseteq Surfaces
    /\ feedback \in [Surfaces -> 0..N + 1]

RepaintInit ==
    /\ status = [o \in RepaintOutputs |-> "not_scheduled"]
    /\ needed = {} /\ ready = {} /\ forced = {} /\ idle = {} /\ flying = {}
    /\ timer = FALSE /\ comp = "active" /\ deferred = FALSE
    /\ frame = {} /\ feedback = [s \in Surfaces |-> 0]
-----------------------------------------------------------------------------
\* The state the sub-handlers hand on to each other.
RepaintNow == [status |-> status, needed |-> needed, ready |-> ready, forced |-> forced,
               idle |-> idle, flying |-> flying, timer |-> timer, comp |-> comp,
               deferred |-> deferred, frame |-> frame, feedback |-> feedback]

RepaintBecome(st) ==
    /\ status' = st.status /\ needed' = st.needed /\ ready' = st.ready
    /\ forced' = st.forced /\ idle' = st.idle /\ flying' = st.flying
    /\ timer' = st.timer /\ comp' = st.comp /\ deferred' = st.deferred
    /\ frame' = st.frame /\ feedback' = st.feedback

Sleepy(st) == st.comp \in {"sleeping", "offscreen"}

\* weston_output_put_back_feedback_list
PutBack(st, o) ==
    [st EXCEPT !.feedback = [s \in Surfaces |-> IF @[s] = o THEN Own ELSE @[s]]]

\* weston_output_schedule_repaint_reset
Reset(st, o) == [PutBack(st, o) EXCEPT !.status[o] = "not_scheduled"]

\* weston_repaint_timer_arm
TimerArm(st) ==
    [st EXCEPT !.timer = @ \/ \E o \in RepaintOutputs : st.status[o] = "scheduled"]

\* weston_output_schedule_repaint
Schedule(st, o) ==
    IF o \notin st.ready \/ Sleepy(st) \/ o \in st.forced THEN st
    ELSE LET n == [st EXCEPT !.needed = @ \cup {o}]
         IN  IF n.status[o] # "not_scheduled" THEN n
             ELSE IF n.deferred THEN [n EXCEPT !.status[o] = "deferred"]
             ELSE [n EXCEPT !.status[o] = "begin_from_idle", !.idle = @ \cup {o}]

ScheduleAll(st, S) == FoldSet(LAMBDA o, acc : Schedule(acc, o), st, S)

\* weston_output_schedule_repaint_restart, with its full damage
Restart(st, o) == Schedule(TimerArm([st EXCEPT !.status[o] = "scheduled"]), o)

\* weston_output_finish_frame: valid is a frame that was shown, invalid one that
\* only starts the loop.
FinishFrame(st, o, valid) ==
    IF st.deferred /\ valid THEN [st EXCEPT !.status[o] = "deferred"]
    ELSE LET told == [s \in Surfaces |-> IF valid /\ st.feedback[s] = o THEN 0 ELSE st.feedback[s]]
         IN  TimerArm([st EXCEPT !.feedback = told, !.status[o] = "scheduled"])

\* weston_output_repaint, which the backend refuses or not: callbacks go out
\* either way, and the surfaces' feedback joins the output's.
RepaintOutput(st, o, ok) ==
    LET mine == {s \in Surfaces : HomeOf[s] = o}
        n == [st EXCEPT !.needed = @ \ {o},
                        !.frame = @ \ mine,
                        !.feedback = [s \in Surfaces |-> IF s \in mine /\ @[s] = Own THEN o ELSE @[s]]]
    IN  IF ok THEN [n EXCEPT !.status[o] = "awaiting", !.flying = @ \cup {o}] ELSE Reset(n, o)

\* weston_output_check_repaint of an output that is due.  fifo: outputs with a barrier of
\* wp_fifo, which ask for the repaint themselves; held: outputs about to be disabled, or
\* that repaint only for a capture and have none.
Wanted(st, fifo) == IF Sleepy(st) THEN st ELSE [st EXCEPT !.needed = @ \cup fifo]
Refused(st, o, held) == Sleepy(st) \/ o \notin st.needed \/ o \in st.forced \cup held

\* The backend's part of the timer: outputs repaint in order until one fails,
\* and then those that had been repainted leave the loop again.
RepaintAll(st, todo, bad) ==
    LET before == {o \in todo : \A b \in bad : o < b}
        done == FoldSet(LAMBDA o, acc : RepaintOutput(acc, o, TRUE), st, before)
    IN  IF bad = {} THEN done
        ELSE LET b == CHOOSE o \in bad : TRUE
                 failed == RepaintOutput(done, b, FALSE)
                 dropped == [failed EXCEPT !.flying = @ \ before]
             IN  FoldSet(LAMBDA o, acc : Reset(acc, o), dropped, before)
-----------------------------------------------------------------------------
\* A client commits: it may want a frame callback and presentation feedback.
Commit(s, wants) ==
    /\ RepaintBecome(Schedule([RepaintNow EXCEPT !.frame = IF wants THEN @ \cup {s} ELSE @,
                                                 !.feedback[s] = IF wants /\ @ = 0 THEN Own ELSE @],
                              HomeOf[s]))

\* weston_output_set_ready
SetReady(o) ==
    /\ o \notin ready
    /\ RepaintBecome(Schedule([RepaintNow EXCEPT !.ready = @ \cup {o}], o))

\* idle_repaint: the backend starts at once, waits for a vblank, is busy or fails.
IdleRepaint(o, how) ==
    /\ o \in idle
    /\ LET st == [RepaintNow EXCEPT !.idle = @ \ {o}, !.status[o] = "awaiting"]
       IN  RepaintBecome(IF Asleep THEN Reset(st, o)
                         ELSE CASE how = "now"   -> FinishFrame(st, o, FALSE)
                                [] how = "later" -> [st EXCEPT !.flying = @ \cup {o}]
                                [] how = "busy"  -> Restart(st, o)
                                [] how = "fails" -> Reset(st, o))

\* output_repaint_timer_handler: the outputs in due are within a millisecond of
\* their time, and the first of bad is one the backend fails on.
RepaintTimer(due, bad, fifo, held) ==
    /\ timer
    /\ LET asked == {o \in due \cap ready : status[o] = "scheduled"}
           now == Wanted([RepaintNow EXCEPT !.timer = FALSE], fifo)
           refused == {o \in asked : Refused(now, o, held)}
           st == FoldSet(LAMBDA o, acc : Reset(acc, o), now, refused)
           todo == asked \ refused
       IN  /\ due = {o \in RepaintOutputs : o \in due /\ status[o] = "scheduled"}
           /\ fifo \cup held \subseteq asked
           /\ bad \subseteq todo
           /\ RepaintBecome(TimerArm(RepaintAll(st, todo, bad)))

\* The backend reports: shown, shown at an unknown time, or lost.
Completed(o, what) ==
    /\ o \in flying
    /\ LET st == [RepaintNow EXCEPT !.flying = @ \ {o}]
       IN  RepaintBecome(IF what = "lost" THEN [st EXCEPT !.status[o] = "not_scheduled"]
                         ELSE FinishFrame(st, o, what = "shown"))

\* weston_compositor_sleep and weston_compositor_offscreen
Sleep(how) == comp # how /\ comp' = how /\ UNCHANGED <<status, needed, ready, forced, idle, flying, timer, deferred, frame, feedback>>

\* weston_compositor_wake: outputs that are lit again repaint.
Wake ==
    /\ comp # "active"
    /\ RepaintBecome(ScheduleAll([RepaintNow EXCEPT !.comp = "active"], RepaintOutputs \ forced))

GoIdle == comp = "active" /\ comp' = "idle" /\ UNCHANGED <<status, needed, ready, forced, idle, flying, timer, deferred, frame, feedback>>

\* weston_output_force_power
ForcePower(o, on) ==
    /\ on <=> o \in forced
    /\ LET st == [RepaintNow EXCEPT !.forced = IF on THEN @ \ {o} ELSE @ \cup {o}]
       IN  RepaintBecome(IF ~Asleep /\ on THEN Schedule(st, o) ELSE st)

\* weston_backend_set_deferred, weston_backend_clear_deferred
SetDeferred == ~deferred /\ deferred' = TRUE /\ UNCHANGED <<status, needed, ready, forced, idle, flying, timer, comp, frame, feedback>>
ClearDeferred ==
    /\ deferred
    /\ LET held == {o \in RepaintOutputs : status[o] = "deferred"}
           st == [RepaintNow EXCEPT !.deferred = FALSE,
                                    !.status = [o \in RepaintOutputs |-> IF o \in held THEN "not_scheduled" ELSE @[o]]]
       IN  RepaintBecome(ScheduleAll(st, held))

RepaintNext ==
    \/ \E s \in Surfaces, w \in BOOLEAN : Commit(s, w)
    \/ \E o \in RepaintOutputs : SetReady(o)
    \/ \E o \in RepaintOutputs, how \in {"now", "later", "busy", "fails"} : IdleRepaint(o, how)
    \/ \E due \in SUBSET RepaintOutputs, bad \in {{}} \cup {{o} : o \in RepaintOutputs} :
         \E fifo \in SUBSET due, held \in SUBSET due : RepaintTimer(due, bad, fifo, held)
    \/ \E o \in RepaintOutputs, what \in {"shown", "unknown", "lost"} : Completed(o, what)
    \/ \E how \in {"sleeping", "offscreen"} : Sleep(how)
    \/ Wake
    \/ GoIdle
    \/ \E o \in RepaintOutputs, on \in BOOLEAN : ForcePower(o, on)
    \/ SetDeferred
    \/ ClearDeferred

RepaintSpec == RepaintInit /\ [][RepaintNext]_repaintVars
-----------------------------------------------------------------------------
\* The loop of each output is in one piece: an idle task exists exactly where the
\* loop is to begin from it (weston_output_schedule_repaint asserts so), the
\* backend owes a completion exactly where one is awaited (asserted by
\* weston_output_finish_frame), and with an output scheduled the timer runs.
LoopInOnePiece ==
    /\ \A o \in RepaintOutputs :
          /\ o \in idle <=> status[o] = "begin_from_idle"
          /\ o \in flying <=> status[o] = "awaiting"
          /\ status[o] = "scheduled" => timer
    /\ \A s \in Surfaces : feedback[s] \in RepaintOutputs => feedback[s] = HomeOf[s]

-----------------------------------------------------------------------------
(* libweston's heads (connectors) and outputs: attaching, enabling, disabling  *)
(* (which a backend may postpone), the wl_output globals and what clients       *)
(* bound, the row the outputs stand in, and the notice that heads changed.      *)

CONSTANTS
    Heads,
    HeadOutputs,
    Widths,     \* widths of the modes
    NONE

VARIABLES
    head,       \* heads the backend has added
    outOf,      \* head->output
    made,       \* outputs the frontend created
    head_on,    \* enabled ones, in order
    going,      \* output->destroying
    width, x,   \* output->width and pos
    global,     \* heads with a wl_output global
    dying,      \* heads whose former global waits for its timer
    alive, inert,\* heads with a client's wl_output that works, and that is dead
    source,     \* heads_changed_source is armed
    unseen      \* a change the frontend was not called for (history)

headVars == <<head, outOf, made, head_on, going, width, x, global, dying, alive, inert, source, unseen>>

HeadTypeOK ==
    /\ head \subseteq Heads /\ made \subseteq HeadOutputs /\ Range(head_on) \subseteq made
    /\ outOf \in [Heads -> HeadOutputs \cup {NONE}]
    /\ global \cup dying \cup alive \cup inert \subseteq Heads /\ going \subseteq made
    /\ source \in BOOLEAN /\ unseen \in BOOLEAN
    /\ width \in [HeadOutputs -> Widths] /\ \A o \in HeadOutputs : x[o] \in Nat

HeadInit ==
    /\ head = {} /\ outOf = [h \in Heads |-> NONE] /\ made = {} /\ head_on = <<>> /\ going = {}
    /\ width = [o \in HeadOutputs |-> Min(Widths)] /\ x = [o \in HeadOutputs |-> 0]
    /\ global = {} /\ dying = {} /\ alive = {} /\ inert = {}
    /\ source = FALSE /\ unseen = FALSE

HeadNow == [head |-> head, outOf |-> outOf, made |-> made, on |-> head_on, going |-> going,
            width |-> width, x |-> x, global |-> global, dying |-> dying, alive |-> alive,
            inert |-> inert]
HeadBecome(st) ==
    /\ head' = st.head /\ outOf' = st.outOf /\ made' = st.made /\ head_on' = st.on
    /\ going' = st.going /\ width' = st.width /\ x' = st.x /\ global' = st.global
    /\ dying' = st.dying /\ alive' = st.alive /\ inert' = st.inert

Enabled(st, o) == o \in Range(st.on)
HeadsOf(st, o) == {h \in Heads : st.outOf[h] = o}
-----------------------------------------------------------------------------
\* weston_head_remove_global: what clients bound goes dead; the global itself is
\* destroyed by a timer.
RemoveGlobal(st, h) ==
    [st EXCEPT !.global = @ \ {h}, !.dying = IF h \in st.global THEN @ \cup {h} ELSE @,
               !.alive = @ \ {h}, !.inert = IF h \in st.alive THEN @ \cup {h} ELSE @]

\* weston_compositor_reflow_outputs
Reflow(st, o, delta) ==
    [st EXCEPT !.x = [p \in HeadOutputs |-> IF Enabled(st, p) /\ @[p] > st.x[o] THEN @[p] + delta ELSE @[p]]]

\* weston_compositor_remove_output
RemoveOutput(st, o) ==
    LET flown == Reflow(st, o, -st.width[o])
        gone == [flown EXCEPT !.on = SelectSeq(@, LAMBDA p : p # o), !.x[o] = 0]
    IN  FoldSet(LAMBDA h, acc : RemoveGlobal(acc, h), gone, HeadsOf(st, o))

\* weston_output_disable; a backend may postpone it and call it again later.
DisableOutput(st, o, postponed) ==
    IF postponed THEN [st EXCEPT !.going = @ \cup {o}]
    ELSE [(IF Enabled(st, o) THEN RemoveOutput(st, o) ELSE st) EXCEPT !.going = @ \ {o}]

\* weston_head_detach: an enabled output is disabled with its last head.
DetachHead(st, h, postponed) ==
    LET o == st.outOf[h]
        free == [st EXCEPT !.outOf[h] = NONE]
        off == RemoveGlobal(free, h)
    IN  IF o = NONE \/ ~Enabled(st, o) THEN free
        ELSE IF HeadsOf(off, o) = {} THEN DisableOutput(off, o, postponed) ELSE off
-----------------------------------------------------------------------------
\* weston_compositor_schedule_heads_changed
Scheduled == source' = TRUE /\ unseen' = TRUE

\* weston_head_init and weston_compositor_add_head
AddHead(h) ==
    /\ h \notin head /\ HeadBecome([HeadNow EXCEPT !.head = @ \cup {h}]) /\ Scheduled

\* weston_head_set_device_changed and the setters that call it
DeviceChanged(h) == h \in head /\ HeadBecome(HeadNow) /\ Scheduled

\* weston_compositor_call_heads_changed, from idle or flushed by the frontend.
CallHeadsChanged == source /\ source' = FALSE /\ unseen' = FALSE /\ HeadBecome(HeadNow)

\* weston_output_attach_head; the backend may allow several heads.
AttachHead(o, h) ==
    /\ o \in made /\ h \in head /\ outOf[h] = NONE
    /\ HeadBecome([HeadNow EXCEPT !.outOf[h] = o, !.global = IF Enabled(HeadNow, o) THEN @ \cup {h} ELSE @])
    /\ UNCHANGED <<source, unseen>>

\* weston_compositor_create_output with its first head.
CreateOutput(o, h) ==
    /\ o \notin made /\ h \in head /\ outOf[h] = NONE
    /\ HeadBecome([HeadNow EXCEPT !.made = @ \cup {o}, !.outOf[h] = o])
    /\ UNCHANGED <<source, unseen>>

\* weston_output_enable and weston_compositor_add_output; the frontend puts the
\* output at the end of the row.
Enable(o, w) ==
    /\ o \in made /\ ~Enabled(HeadNow, o) /\ HeadsOf(HeadNow, o) # {}
    /\ LET end == Max({0} \cup {x[p] + width[p] : p \in Range(head_on)})
       IN  HeadBecome([HeadNow EXCEPT !.on = Append(@, o), !.width[o] = w, !.x[o] = end,
                                      !.global = @ \cup HeadsOf(HeadNow, o)])
    /\ UNCHANGED <<source, unseen>>

\* The frontend disables an output, or the backend completes what it postponed.
Disable(o, postponed) ==
    /\ o \in made /\ (Enabled(HeadNow, o) \/ o \in going)
    /\ HeadBecome(DisableOutput(HeadNow, o, postponed)) /\ UNCHANGED <<source, unseen>>

\* weston_head_detach and weston_head_release
Detach(h, postponed) ==
    /\ outOf[h] # NONE /\ HeadBecome(DetachHead(HeadNow, h, postponed)) /\ UNCHANGED <<source, unseen>>
ReleaseHead(h, postponed) ==
    /\ h \in head
    /\ HeadBecome([DetachHead(HeadNow, h, postponed) EXCEPT !.head = @ \ {h}]) /\ UNCHANGED <<source, unseen>>

\* weston_output_release: heads are detached after the output is removed.
ReleaseOutput(o) ==
    LET gone == IF Enabled(HeadNow, o) THEN RemoveOutput(HeadNow, o) ELSE HeadNow
    IN  /\ o \in made
        /\ HeadBecome([FoldSet(LAMBDA h, acc : DetachHead(acc, h, FALSE), gone, HeadsOf(HeadNow, o))
                      EXCEPT !.made = @ \ {o}, !.going = @ \ {o}])
        /\ UNCHANGED <<source, unseen>>

\* weston_output_mode_set_native: the outputs to the right move.
SetMode(o, w) ==
    /\ Enabled(HeadNow, o) /\ w # width[o]
    /\ HeadBecome(Reflow([HeadNow EXCEPT !.width[o] = w], o, w - width[o])) /\ UNCHANGED <<source, unseen>>

\* bind_output: a global that is about to go, or a head without output, gives a
\* dead object.
BindOutput(h) ==
    /\ h \in global \cup dying
    /\ HeadBecome(IF h \in global /\ outOf[h] # NONE THEN [HeadNow EXCEPT !.alive = @ \cup {h}]
                  ELSE [HeadNow EXCEPT !.inert = @ \cup {h}])
    /\ UNCHANGED <<source, unseen>>

\* weston_global_handle_timer_event
GlobalTimer(h) == h \in dying /\ HeadBecome([HeadNow EXCEPT !.dying = @ \ {h}]) /\ UNCHANGED <<source, unseen>>

\* unbind_resource
Unbind(h) ==
    /\ h \in alive \cup inert
    /\ HeadBecome([HeadNow EXCEPT !.alive = @ \ {h}, !.inert = @ \ {h}]) /\ UNCHANGED <<source, unseen>>

HeadNext ==
    \/ \E h \in Heads : \/ AddHead(h)
                        \/ DeviceChanged(h)
                        \/ BindOutput(h)
                        \/ Unbind(h)
                        \/ GlobalTimer(h)
                        \/ \E o \in HeadOutputs : AttachHead(o, h) \/ CreateOutput(o, h)
                        \/ \E p \in BOOLEAN : Detach(h, p) \/ ReleaseHead(h, p)
    \/ CallHeadsChanged
    \/ \E o \in HeadOutputs : \/ \E w \in Widths : Enable(o, w) \/ SetMode(o, w)
                              \/ \E p \in BOOLEAN : Disable(o, p)
                              \/ ReleaseOutput(o)

HeadSpec == HeadInit /\ [][HeadNext]_headVars
-----------------------------------------------------------------------------
\* A head is announced exactly while an enabled output drives it, and a client's
\* wl_output works no longer than that, so that its head always has an output to
\* ask (xdg_output_manager_get_xdg_output does so without a check).  Enabled
\* outputs have a head unless their disabling was postponed, stand side by side
\* from 0 without gap or overlap, and a change of heads is always followed by a
\* call of the frontend.
HeadsAnnounced ==
    /\ global = {h \in head : outOf[h] # NONE /\ Enabled(HeadNow, outOf[h])}
    /\ alive \subseteq global
    /\ \A o \in Range(head_on) \ going : HeadsOf(HeadNow, o) # {}
    /\ \A h \in Heads : outOf[h] # NONE => h \in head /\ outOf[h] \in made
    /\ \A i \in 1..Len(head_on) :
          x[head_on[i]] = FoldSet(LAMBDA j, acc : acc + width[head_on[j]], 0, {j \in 1..Len(head_on) : x[head_on[j]] < x[head_on[i]]})
    /\ \A i, j \in 1..Len(head_on) : i # j => x[head_on[i]] # x[head_on[j]]
    /\ unseen => source
=============================================================================
