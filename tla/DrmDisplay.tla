----------------------------- MODULE DrmDisplay ------------------------------
(***************************************************************************)
(* The DRM backend's commits: recovery, power and mode changes, writeback  *)
(* tasks, and the objects of a device. Three parts that share no state     *)
(* here.                                                                   *)
(***************************************************************************)
EXTENDS Naturals, FiniteSets, Folds, Sequences, SequencesExt

-----------------------------------------------------------------------------
(* The outputs of one KMS device with atomic mode setting: non-blocking commits and  *)
(* their completion events, what is put off until a completion (destruction, disable,*)
(* power off, mode switch), and the device's recovery, which commits all state from  *)
(* scratch once no commit is in flight and holds other repaints back meanwhile.      *)
(* A pass of the repaint timer is one step; planes, heads and buffers are elsewhere. *)

CONSTANTS Outputs,
    MaxRequests  \* requests to disable, destroy, power, switch or recover

VARIABLES
    out,        \* the outputs: see OutputRec
    rec,        \* device->recovery_status
    completes,  \* device->atomic_completes_pending
    deferred,   \* backend->deferred
    away,       \* the session is inactive: compositor state OFFSCREEN
    stranded,   \* outputs with a repaint_status that nothing is there to move on
    lost,       \* outputs whose mode switch the recovery that was under way left out
    recovery_dead,  \* a failed assertion
    requests

recoveryVars == <<out, rec, completes, deferred, away, stranded, lost, recovery_dead, requests>>

Modes == {1, 2}
OutputRec == [enabled : BOOLEAN,
    loop : {"none", "idle", "awaiting", "scheduled", "deferred"},  \* repaint_status
    needed : BOOLEAN,       \* repaint_needed
    dark : BOOLEAN,         \* power_state FORCED_OFF
    on : BOOLEAN,           \* state_cur->dpms
    flip : BOOLEAN,         \* atomic_complete_pending, and state_last
    later : SUBSET {"destroy", "disable", "dpms_off", "mode_switch"},  \* *_pending
    mode : Modes,           \* current_mode
    kms : {0} \cup Modes]   \* the mode the kernel drives it with, 0 if off

New == [enabled |-> FALSE, loop |-> "none", needed |-> FALSE, dark |-> FALSE, on |-> FALSE,
        flip |-> FALSE, later |-> {}, mode |-> 1, kms |-> 0]

RecoveryTypeOK ==
    /\ out \in [Outputs -> OutputRec] /\ rec \in {"unnecessary", "wait", "scheduled", "applied"}
    /\ completes \in 0..Cardinality(Outputs) /\ {deferred, away, recovery_dead} \subseteq BOOLEAN
    /\ stranded \subseteq Outputs /\ lost \subseteq Outputs /\ requests \in 0..MaxRequests

Fresh == [out |-> [o \in Outputs |-> New], rec |-> "scheduled", completes |-> 0,
          deferred |-> FALSE, away |-> FALSE, stranded |-> {}, lost |-> {}, dead |-> FALSE]
RecoveryNow == [out |-> out, rec |-> rec, completes |-> completes, deferred |-> deferred,
                away |-> away, stranded |-> stranded, lost |-> lost, dead |-> recovery_dead]
RecoveryBecome(st) ==
    /\ out' = st.out /\ rec' = st.rec /\ completes' = st.completes /\ deferred' = st.deferred
    /\ away' = st.away /\ stranded' = st.stranded /\ lost' = st.lost /\ recovery_dead' = st.dead

\* drm_device_create: a new device starts in a scheduled recovery.
RecoveryInit ==
    /\ out = Fresh.out /\ rec = Fresh.rec /\ completes = 0 /\ deferred = FALSE
    /\ away = FALSE /\ stranded = {} /\ lost = {} /\ recovery_dead = FALSE
    /\ requests = 0

RecoveryAssert(st, p) == [st EXCEPT !.dead = @ \/ ~p]
-----------------------------------------------------------------------------
\* weston_output_schedule_repaint.
Schedule(st, o) ==
    LET r == st.out[o] IN
    IF ~r.enabled \/ st.away \/ r.dark THEN st
    ELSE [st EXCEPT !.out[o].needed = TRUE,
                    !.out[o].loop = IF r.loop # "none" THEN @
                                    ELSE IF st.deferred THEN "deferred" ELSE "idle"]

ScheduleAll(st) ==
    [st EXCEPT !.out = [o \in Outputs |-> Schedule(st, o).out[o]]]

\* weston_output_finish_frame, with or without a valid time stamp.
FinishFrame(st, o, stamped) ==
    [RecoveryAssert(st, st.out[o].loop = "awaiting") EXCEPT !.stranded = @ \ {o},
        !.out[o].loop = IF st.deferred /\ stamped THEN "deferred" ELSE "scheduled"]

\* drm_device_recovery_schedule: damage everything, then hold all others back.
RecoverySchedule(st) ==
    [ScheduleAll(RecoveryAssert(st, st.rec = "wait" /\ st.completes = 0)) EXCEPT
        !.rec = "scheduled", !.deferred = TRUE]

\* drm_device_recovery_required.
RecoveryRequired(st) ==
    IF st.rec # "unnecessary" THEN st
    ELSE IF st.completes > 0 THEN [st EXCEPT !.rec = "wait"]
    ELSE RecoverySchedule([st EXCEPT !.rec = "wait"])

\* weston_backend_clear_deferred.
ClearDeferred(st) ==
    LET held == {o \in Outputs : st.out[o].enabled /\ st.out[o].loop = "deferred"}
        freed == [st EXCEPT !.deferred = FALSE, !.stranded = @ \ held,
                    !.out = [o \in Outputs |-> IF o \in held THEN [@[o] EXCEPT !.loop = "none"] ELSE @[o]]]
    IN [freed EXCEPT !.out = [o \in Outputs |-> IF o \in held THEN Schedule(freed, o).out[o] ELSE @[o]]]

\* drm_device_recovery_complete.
RecoveryComplete(st) ==
    ClearDeferred([RecoveryAssert(st, st.rec = "applied") EXCEPT !.rec = "unnecessary"])

\* drm_output_get_disable_state and drm_pending_state_apply_sync: a blocking commit that
\* turns o off; it is part of any scheduled recovery, and its failure is only logged.
CommitOff(st, o, ok) ==
    IF ~ok THEN st
    ELSE LET off == [RecoveryAssert(st, ~st.out[o].flip) EXCEPT !.out[o].on = FALSE, !.out[o].kms = 0]
             cut == {p \in Outputs \ {o} : off.out[p].on /\ off.out[p].kms # off.out[p].mode}
         IN IF st.rec = "scheduled"
            THEN RecoveryComplete([off EXCEPT !.rec = "applied", !.lost = @ \cup cut])
            ELSE off

\* drm_output_apply_mode.
ApplyMode(st, o) ==
    RecoveryRequired([st EXCEPT !.lost = IF st.rec = "applied" THEN @ \cup {o} ELSE @])

\* drm_output_deinit and weston_compositor_remove_output; the idle task is removed and
\* repaint_status and repaint_needed are kept.
RecoveryRemove(st, o, ok) ==
    LET off == CommitOff(st, o, ok)
    IN [off EXCEPT !.out[o].enabled = FALSE, !.out[o].on = FALSE, !.out[o].later = {},
        !.stranded = IF off.out[o].loop \in {"idle", "awaiting", "deferred"} THEN @ \cup {o} ELSE @]

\* drm_output_destroy: the next output of this name is a new object.
Destroyed(st, o, ok) == [RecoveryRemove(st, o, ok) EXCEPT !.out[o] = New, !.stranded = @ \ {o}]

\* drm_output_update_complete.
UpdateComplete(st, o, ok) ==
    LET r == st.out[o]
        s0 == [st EXCEPT !.out[o].flip = FALSE, !.out[o].later = {},
                 !.lost = IF {"dpms_off", "mode_switch"} \subseteq r.later /\ ~ok THEN @ \cup {o} ELSE @]
        s1 == IF "dpms_off" \in r.later THEN CommitOff(s0, o, ok)
              ELSE IF "mode_switch" \in r.later THEN ApplyMode(s0, o) ELSE s0
    IN IF "destroy" \in r.later THEN Destroyed(s0, o, ok)
       ELSE IF "disable" \in r.later THEN RecoveryRemove(s0, o, ok)
       ELSE IF ~s1.out[o].on /\ r.loop # "awaiting" THEN s1
       ELSE FinishFrame(s1, o, s1.out[o].on)

\* atomic_flip_handler.
FlipDone_early(o, ok) ==
    /\ out[o].flip /\ ~recovery_dead
    /\ LET s0 == [RecoveryNow EXCEPT !.completes = @ - 1]
           s1 == IF s0.completes = 0 /\ s0.rec = "applied" THEN RecoveryComplete(s0) ELSE s0
           s2 == UpdateComplete(s1, o, ok)
       IN RecoveryBecome(IF s2.completes = 0 /\ s2.rec # "unnecessary" THEN RecoverySchedule(s2) ELSE s2)

FlipDone(o, ok) ==
    /\ out[o].flip /\ ~recovery_dead
    /\ LET s0 == UpdateComplete(RecoveryNow, o, ok)
           s1 == [RecoveryAssert(s0, s0.completes > 0) EXCEPT !.completes = @ - 1]
           s2 == IF s1.completes = 0 /\ s1.rec = "applied" THEN RecoveryComplete(s1) ELSE s1
       IN RecoveryBecome(IF s2.completes = 0 /\ s2.rec # "unnecessary" THEN RecoverySchedule(s2) ELSE s2)
-----------------------------------------------------------------------------
\* Something on the output changed.
Damage(o) == out[o].enabled /\ ~recovery_dead /\ RecoveryBecome(Schedule(RecoveryNow, o)) /\ out' # out

\* What drm_output_start_repaint_loop does: recovery, a time stamp from the kernel, or a
\* commit of the current state (which may fail) to get one.
StartLoop(st, o) ==
    LET r == st.out[o]
        s1 == IF st.rec = "wait" THEN RecoverySchedule(st) ELSE st
    IN IF r.later \cap {"destroy", "disable"} # {} THEN {st}
       ELSE IF st.rec = "wait" /\ st.completes > 0 THEN {[st EXCEPT !.stranded = @ \cup {o}]}
       ELSE IF s1.rec = "scheduled" \/ ~r.on THEN {FinishFrame(s1, o, FALSE)}
       ELSE {FinishFrame(s1, o, FALSE),
             [s1 EXCEPT !.out[o].loop = "scheduled"],               \* EBUSY: restart
             [s1 EXCEPT !.out[o].loop = "none"]}                    \* EACCES: reset
            \cup (IF r.flip \/ r.kms # r.mode THEN {}
                  ELSE {[s1 EXCEPT !.out[o].flip = TRUE, !.completes = @ + 1]})

\* idle_repaint.
IdleRepaint(o) ==
    /\ out[o].loop = "idle" /\ o \notin stranded /\ ~recovery_dead
    /\ LET s0 == [RecoveryNow EXCEPT !.out[o].loop = "awaiting"] IN
       \E st \in IF away THEN {[s0 EXCEPT !.out[o].loop = "none"]} ELSE StartLoop(s0, o) : RecoveryBecome(st)

\* weston_output_check_repaint; one about to go is refused by drm_output_repaint.
Paintable(o) ==
    /\ out[o].enabled /\ out[o].loop = "scheduled" /\ out[o].needed /\ ~away /\ ~out[o].dark
    /\ out[o].later \cap {"destroy", "disable"} = {}

\* output_repaint_timer_handler finds an output due that it will not paint.
NotPainted(o) ==
    /\ out[o].enabled /\ out[o].loop = "scheduled" /\ ~Paintable(o) /\ ~recovery_dead
    /\ RecoveryBecome([RecoveryNow EXCEPT !.out[o].loop = "none"])

\* drm_output_assign_state of a lit output after a non-blocking commit.
Assigned(r) == [r EXCEPT !.flip = TRUE, !.on = TRUE, !.kms = r.mode]

\* drm_repaint_begin, drm_output_repaint of all of S and drm_repaint_flush_device, which
\* may succeed; the kernel changes a mode only if the commit allows it.
CommitAll(st, S) ==
    LET new == [st EXCEPT !.completes = @ + Cardinality(S), !.lost = @ \ S,
            !.out = [o \in Outputs |->
                IF o \in S THEN [Assigned(@[o]) EXCEPT !.loop = "awaiting", !.needed = FALSE]
                ELSE IF st.rec = "scheduled" /\ ~@[o].enabled THEN [@[o] EXCEPT !.kms = 0] ELSE @[o]]]
    IN IF st.rec = "scheduled"
       THEN [new EXCEPT !.rec = "applied",
               !.lost = @ \cup {p \in Outputs \ S : st.out[p].on /\ st.out[p].kms # st.out[p].mode}]
       ELSE new

MayModeset(S) == rec = "scheduled" \/ \E o \in S : ~out[o].on

RepaintFlushed(S) ==
    /\ S # {} /\ \A o \in S : Paintable(o)
    /\ \A o \in S : out[o].kms # out[o].mode => MayModeset(S)
    /\ ~recovery_dead /\ RecoveryBecome(CommitAll(RecoveryAssert(RecoveryNow, \A o \in S : ~out[o].flip), S))

\* The commit is refused, as busy (restart) or otherwise (reset), or an output of S cannot
\* be rendered and all that was painted is cancelled.
RepaintFails(S, busy) ==
    /\ S # {} /\ \A o \in S : Paintable(o) /\ ~recovery_dead
    /\ RecoveryBecome(LET s0 == [RecoveryNow EXCEPT !.out = [o \in Outputs |-> IF o \in S
                          THEN [@[o] EXCEPT !.needed = FALSE, !.loop = "none"] ELSE @[o]]]
                      IN IF ~busy THEN s0
                         ELSE [s0 EXCEPT !.out = [o \in Outputs |->
                                 IF o \in S THEN [@[o] EXCEPT !.needed = TRUE, !.loop = "scheduled"] ELSE @[o]]])
-----------------------------------------------------------------------------
\* weston_output_enable, drm_output_enable: it first serves the events of outputs that are
\* to be disabled or destroyed.
RecoveryEnable(o) ==
    /\ ~out[o].enabled /\ ~recovery_dead
    /\ \A p \in Outputs : out[p].later \cap {"destroy", "disable"} = {}
    /\ RecoveryBecome(Schedule([RecoveryNow EXCEPT !.out[o].enabled = TRUE], o))

\* weston_output_disable, drm_output_disable.
RecoveryDisable(o, ok) ==
    /\ out[o].enabled /\ ~recovery_dead
    /\ RecoveryBecome(IF out[o].flip THEN [RecoveryNow EXCEPT !.out[o].later = @ \cup {"disable"}]
                      ELSE RecoveryRemove(RecoveryNow, o, ok))

\* weston_output_destroy, drm_output_destroy.
Destroy(o, ok) ==
    /\ out[o].enabled /\ ~recovery_dead
    /\ RecoveryBecome(IF out[o].flip THEN [RecoveryNow EXCEPT !.out[o].later = @ \cup {"destroy"}]
                      ELSE Destroyed(RecoveryNow, o, ok))

\* drm_set_dpms.
SetOff(st, o, ok) ==
    IF ~st.out[o].on THEN st
    ELSE IF st.out[o].flip THEN [st EXCEPT !.out[o].later = @ \cup {"dpms_off"}]
    ELSE CommitOff(st, o, ok)

SetOn(st, o) ==
    IF st.out[o].on THEN st
    ELSE Schedule([st EXCEPT !.out[o].later = @ \ {"dpms_off"}], o)

\* weston_output_force_power.
RecoveryPowerOff(o, ok) ==
    /\ out[o].enabled /\ ~out[o].dark /\ ~recovery_dead
    /\ LET s0 == [RecoveryNow EXCEPT !.out[o].dark = TRUE] IN
       RecoveryBecome(IF away THEN s0 ELSE SetOff(s0, o, ok))
PowerOn(o) ==
    /\ out[o].enabled /\ out[o].dark /\ ~recovery_dead
    /\ LET s0 == [RecoveryNow EXCEPT !.out[o].dark = FALSE] IN
       RecoveryBecome(IF away THEN s0 ELSE SetOn(s0, o))

\* drm_output_switch_mode.
SwitchMode(o, m) ==
    /\ out[o].enabled /\ out[o].mode # m /\ ~recovery_dead
    /\ LET s0 == [RecoveryNow EXCEPT !.out[o].mode = m] IN
       RecoveryBecome(IF out[o].flip THEN [s0 EXCEPT !.out[o].later = @ \cup {"mode_switch"}]
                      ELSE ApplyMode(s0, o))

\* drm_backend_update_connector of a head that stays connected, drm_output_attach_head.
ConnectorUpdated == ~recovery_dead /\ rec = "unnecessary" /\ RecoveryBecome(RecoveryRequired(RecoveryNow))

\* session_notify; weston_compositor_wake brings every output's power up to date.
SessionLeaves ==
    /\ ~away /\ ~recovery_dead
    /\ RecoveryBecome([RecoveryNow EXCEPT !.away = TRUE,
                  !.out = [o \in Outputs |-> [@[o] EXCEPT !.needed = FALSE]]])
SessionReturns(ok) ==
    /\ away /\ ~recovery_dead
    /\ LET Wake(st, o) == IF ~out[o].enabled THEN st
                          ELSE IF out[o].dark THEN SetOff(st, o, ok) ELSE SetOn(st, o)
       IN RecoveryBecome(RecoveryRequired(MapThenFoldSet(LAMBDA o, st : Wake(st, o), [RecoveryNow EXCEPT !.away = FALSE],
              LAMBDA o : o, LAMBDA S : CHOOSE o \in S : TRUE, Outputs)))

\* The compositor is started again after it died.
RecoveryRestart == recovery_dead /\ RecoveryBecome(Fresh)

Request ==
    \/ \E o \in Outputs, ok \in BOOLEAN : RecoveryDisable(o, ok) \/ Destroy(o, ok) \/ RecoveryPowerOff(o, ok)
    \/ \E o \in Outputs, m \in Modes : SwitchMode(o, m)
    \/ ConnectorUpdated

Step ==
    \/ \E o \in Outputs : Damage(o) \/ IdleRepaint(o) \/ NotPainted(o) \/ RecoveryEnable(o) \/ PowerOn(o)
    \/ \E o \in Outputs, ok \in BOOLEAN : FlipDone(o, ok)
    \/ \E S \in SUBSET Outputs : RepaintFlushed(S) \/ \E busy \in BOOLEAN : RepaintFails(S, busy)
    \/ SessionLeaves \/ (\E ok \in BOOLEAN : SessionReturns(ok)) \/ RecoveryRestart

RecoveryNext ==
    \/ requests < MaxRequests /\ Request /\ requests' = requests + 1
    \/ Step /\ UNCHANGED requests

RecoverySpec == RecoveryInit /\ [][RecoveryNext]_recoveryVars
-----------------------------------------------------------------------------
\* No assertion of the repaint loop or of the recovery fails; completions are counted
\* exactly; nothing is in flight while a recovery is scheduled and something is while one
\* was applied; repaints are held back only for a recovery; and once none is called for,
\* an output that is lit and has nothing in flight is driven in its current mode, unless a
\* recovery was committed without its switch (or the off that came with it failed).  An
\* enabled output awaits a frame only with a commit in flight and is held back only with
\* the others, but for one that asked for its first frame while a recovery waited
\* (drm.c:1065), or was disabled in the middle of a repaint and enabled again
\* (compositor.c:8141): its status stays as it was and it is not painted again.
RecoveryWhole ==
    /\ ~recovery_dead
    /\ completes = Cardinality({o \in Outputs : out[o].flip})
    /\ rec = "scheduled" => completes = 0
    /\ rec \in {"wait", "applied"} => completes > 0
    /\ deferred => rec \in {"scheduled", "applied"}
    /\ rec = "unnecessary" =>
         \A o \in Outputs \ lost : out[o].on /\ ~out[o].flip => out[o].kms = out[o].mode
    /\ \A o \in stranded : out[o].loop \in {"idle", "awaiting", "deferred"}
    /\ \A o \in Outputs \ stranded : out[o].enabled =>
         /\ out[o].loop = "awaiting" => out[o].flip
         /\ out[o].loop = "deferred" => deferred

-----------------------------------------------------------------------------
(* Screenshots through a writeback connector of a KMS device: the capture task an    *)
(* output picks in its repaint, the commit that carries it, the fence the kernel     *)
(* signals, and the handling of the device's events, which stops while a writeback   *)
(* is unfinished.  All outputs can use every writeback connector.                    *)

CONSTANTS Connectors, MaxTasks

VARIABLES
    filed,    \* outputs with a capture task a client has filed
    owed,     \* tasks pulled from an output and not yet retired or destroyed
    wb,       \* output->wb_state: <<>> or one State
    flip,     \* outputs whose commit is not yet known to be complete
    ready,    \* outputs whose completion event can be read
    job,      \* the writeback jobs of the kernel: [output, connector, done]
    tasks,    \* tasks filed so far
    late,     \* a task was left over from a repaint that failed
    writeback_dead  \* a failed assertion

writebackVars == <<filed, owed, wb, flip, ready, job, tasks, late, writeback_dead>>

\* struct drm_writeback_state; fence is -1 without a descriptor, watched its wb_source.
State == [stage : {"prepare", "check", "waiting"}, conn : Connectors, ct : BOOLEAN,
          fence : BOOLEAN, refs : BOOLEAN]

WritebackTypeOK ==
    /\ filed \subseteq Outputs /\ owed \in [Outputs -> 0..MaxTasks]
    /\ wb \in [Outputs -> {<<>>} \cup {<<s>> : s \in State}]
    /\ ready \subseteq flip /\ flip \subseteq Outputs
    /\ job \subseteq [output : Outputs, conn : Connectors, done : BOOLEAN]
    /\ tasks \in 0..MaxTasks /\ {late, writeback_dead} \subseteq BOOLEAN

WritebackNow == [owed |-> owed, wb |-> wb, late |-> late, dead |-> writeback_dead]
WritebackBecome(st) == owed' = st.owed /\ wb' = st.wb /\ late' = st.late /\ writeback_dead' = st.dead

WritebackInit ==
    /\ filed = {} /\ owed = [o \in Outputs |-> 0] /\ wb = [o \in Outputs |-> <<>>]
    /\ flip = {} /\ ready = {} /\ job = {} /\ tasks = 0 /\ late = FALSE /\ writeback_dead = FALSE

Stage(st, o) == IF st.wb[o] = <<>> THEN "off" ELSE st.wb[o][1].stage
-----------------------------------------------------------------------------
\* drm_writeback_success_screenshot, drm_writeback_fail_screenshot: the task, unless its
\* client destroyed it, is retired and the state goes.
Settle(st, o) ==
    [st EXCEPT !.owed[o] = IF st.wb[o][1].ct THEN @ - 1 ELSE @, !.wb[o] = <<>>]

Free(st, o) == {c \in Connectors : \A p \in Outputs : st.wb[p] = <<>> \/ st.wb[p][1].conn # c}

\* drm_output_pick_writeback_capture_task; fits: planes may be used and a framebuffer can
\* be made of the client's buffer.
Pick(st, o, fits) ==
    IF o \notin filed \/ st.wb[o] # <<>> \/ Free(st, o) = {} \/ ~fits THEN st
    ELSE [st EXCEPT !.owed[o] = @ + 1,
            !.wb[o] = <<[stage |-> "prepare", conn |-> CHOOSE c \in Free(st, o) : TRUE,
                         ct |-> TRUE, fence |-> FALSE, refs |-> FALSE]>>]

\* drm_assign_planes, before the repaint picks its task: planes are referenced for a task
\* that an earlier repaint left prepared.
AssignPlanes(st, o) ==
    IF Stage(st, o) = "prepare" THEN [st EXCEPT !.wb[o][1].refs = TRUE] ELSE st

\* assign_planes and drm_output_repaint of the outputs of a device, in the order of the list.
PrepareAll(S, fits) ==
    FoldLeft(LAMBDA st, o : Pick(AssignPlanes(st, o), o, fits), WritebackNow, SetToSeq(S))

\* drm_output_apply_state_atomic for a lit output and a real commit.
Attach(st, S) ==
    [st EXCEPT !.wb = [o \in Outputs |->
        IF o \in S /\ Stage(st, o) = "prepare" THEN <<[st.wb[o][1] EXCEPT !.stage = "check"]>> ELSE @[o]]]

\* The kernel takes the commit: the fences are there and the jobs run.
RepaintCommitted(S, fits) ==
    /\ S # {} /\ S \cap flip = {} /\ ~writeback_dead
    /\ LET st == PrepareAll(S, fits)
           new == {o \in S : Stage(st, o) = "prepare"}
           up == Attach(st, S)
       IN /\ WritebackBecome([up EXCEPT !.wb = [o \in Outputs |->
                       IF o \in new THEN <<[@[o][1] EXCEPT !.fence = TRUE]>> ELSE @[o]]])
          /\ job' = job \cup {[output |-> o, conn |-> st.wb[o][1].conn, done |-> FALSE] : o \in new}
    /\ flip' = flip \cup S /\ filed' = filed \ S
    /\ UNCHANGED <<ready, tasks>>

\* The kernel refuses it: the tasks in it fail.
RepaintRefused(S, fits) ==
    /\ S # {} /\ S \cap flip = {} /\ ~writeback_dead
    /\ LET st == Attach(PrepareAll(S, fits), S)
       IN WritebackBecome(FoldLeft(Settle, st, SetToSeq({o \in S : st.wb[o] # <<>>})))
    /\ filed' = filed \ S /\ UNCHANGED <<flip, ready, job, tasks>>

\* An output could not be rendered and the pass is cancelled, or (built) a property of an
\* output could not be added to the request: tasks stay with their outputs.
RepaintCancelled(S, fits, built) ==
    /\ S # {} /\ S \cap flip = {} /\ ~writeback_dead
    /\ LET st == PrepareAll(S, fits)
           s1 == IF built THEN Attach(st, S) ELSE st
       IN WritebackBecome([s1 EXCEPT !.late = \E o \in Outputs : Stage(s1, o) = "prepare"])
    /\ filed' = filed \ S /\ UNCHANGED <<flip, ready, job, tasks>>

\* A blocking commit turns o off: a prepared task fails.
WritebackPowerOff(o) ==
    /\ o \notin flip /\ Stage(WritebackNow, o) = "prepare" /\ ~writeback_dead
    /\ WritebackBecome(Settle(WritebackNow, o)) /\ UNCHANGED <<filed, flip, ready, job, tasks>>
-----------------------------------------------------------------------------
\* drm_writeback_try_complete: poll the fence (which may fail), or watch it.  A descriptor
\* that is missing cannot be watched.
TryComplete(st, o, pollError) ==
    CASE Stage(st, o) \in {"off", "waiting"} -> st
      [] Stage(st, o) = "prepare" -> [st EXCEPT !.dead = TRUE]
      [] OTHER ->
           LET done == \A j \in job : j.output = o => j.done IN
           IF (pollError /\ st.wb[o][1].fence) \/ done \/ ~st.wb[o][1].fence THEN Settle(st, o)
           ELSE [st EXCEPT !.wb[o][1].stage = "waiting"]

\* A job whose state is gone is the kernel's alone.
Jobs(st) == {j \in job : st.wb[j.output] # <<>>} \cup {j \in job : st.wb[j.output] = <<>> /\ ~j.done}

DrmInput(pollError) ==
    /\ ready # {} /\ ~writeback_dead
    /\ LET st == FoldLeft(LAMBDA s, o : TryComplete(s, o, pollError), WritebackNow, SetToSeq(Outputs))
           wait == st.dead \/ \E o \in Outputs : Stage(st, o) = "waiting"
       IN /\ WritebackBecome(st) /\ job' = Jobs(st)
          /\ IF wait THEN UNCHANGED <<flip, ready>> ELSE flip' = flip \ ready /\ ready' = {}
    /\ UNCHANGED <<filed, tasks>>

\* drm_writeback_save_callback: the watched fence is signalled.
SaveCallback(o) ==
    /\ Stage(WritebackNow, o) = "waiting" /\ ~writeback_dead
    /\ \A j \in job : j.output = o => j.done
    /\ WritebackBecome(Settle(WritebackNow, o)) /\ job' = {j \in job : j.output # o}
    /\ UNCHANGED <<filed, flip, ready, tasks>>

\* The kernel: a commit completes on the screen; a writeback job is done.
FlipReady(o) == o \in flip \ ready /\ ready' = ready \cup {o} /\ UNCHANGED <<filed, owed, wb, flip, job, tasks, late, writeback_dead>>

JobDone(j) ==
    /\ ~j.done
    /\ job' = (job \ {j}) \cup (IF wb[j.output] = <<>> THEN {} ELSE {[j EXCEPT !.done = TRUE]})
    /\ UNCHANGED <<filed, owed, wb, flip, ready, tasks, late, writeback_dead>>
-----------------------------------------------------------------------------
\* A client files a task.
FileTask(o) ==
    /\ o \notin filed /\ tasks < MaxTasks /\ ~writeback_dead
    /\ filed' = filed \cup {o} /\ tasks' = tasks + 1
    /\ UNCHANGED <<owed, wb, flip, ready, job, late, writeback_dead>>

\* The client's buffer or capture source is destroyed: drm_writeback_state_ct_destroy_handler.
TaskDestroyed(o) ==
    /\ ~writeback_dead
    /\ \/ o \in filed /\ filed' = filed \ {o} /\ UNCHANGED <<owed, wb>>
       \/ /\ wb[o] # <<>> /\ wb[o][1].ct
          /\ wb' = [wb EXCEPT ![o][1].ct = FALSE] /\ owed' = [owed EXCEPT ![o] = @ - 1]
          /\ UNCHANGED filed
    /\ UNCHANGED <<flip, ready, job, tasks, late, writeback_dead>>

\* The compositor is started again after it died.
WritebackRestart ==
    /\ writeback_dead /\ filed' = {} /\ owed' = [o \in Outputs |-> 0] /\ wb' = [o \in Outputs |-> <<>>]
    /\ flip' = {} /\ ready' = {} /\ job' = {} /\ tasks' = 0 /\ late' = FALSE /\ writeback_dead' = FALSE

WritebackNext ==
    \/ \E S \in SUBSET Outputs, fits \in BOOLEAN :
         \/ RepaintCommitted(S, fits) \/ RepaintRefused(S, fits)
         \/ \E built \in BOOLEAN : RepaintCancelled(S, fits, built)
    \/ \E e \in BOOLEAN : DrmInput(e)
    \/ \E o \in Outputs : WritebackPowerOff(o) \/ SaveCallback(o) \/ FlipReady(o) \/ FileTask(o) \/ TaskDestroyed(o)
    \/ \E j \in job : JobDone(j)
    \/ WritebackRestart

WritebackSpec == WritebackInit /\ [][WritebackNext]_writebackVars
-----------------------------------------------------------------------------
\* A task that was taken from its client is retired exactly once, unless the client
\* destroys it; a connector has one user; the output a job reads is not committed anew and
\* its target is kept until the job is done (or polling its fence failed); events are left
\* unread only while a fence is watched; and a completion finds only submitted tasks,
\* unless a failed repaint left one.
WritebackWhole ==
    /\ \A o \in Outputs : owed[o] = IF wb[o] # <<>> /\ wb[o][1].ct THEN 1 ELSE 0
    /\ \A o, p \in Outputs : o # p /\ wb[o] # <<>> /\ wb[p] # <<>> => wb[o][1].conn # wb[p][1].conn
    /\ \A o \in Outputs : Stage(WritebackNow, o) = "waiting" => o \in flip /\ wb[o][1].fence
    /\ \A o \in Outputs : Stage(WritebackNow, o) = "check" /\ wb[o][1].fence => o \in flip
    /\ writeback_dead => late

-----------------------------------------------------------------------------
(* The objects of a KMS device: the backend's start with everything it acquires and   *)
(* gives back when a step fails, the heads that follow the kernel's connectors as     *)
(* hot-plug events are read, and the CRTC and planes an output takes when it is       *)
(* enabled and gives back when it is disabled.  Planes may roam between CRTCs.        *)

CONSTANTS
    Conns,      \* connectors; an output has the name of the head it is created for
    Crtcs, Planes,
    TypeOf,     \* the type of a plane
    NoOne,      \* no output, CRTC or plane
    MaxEvents   \* unread hot-plug events

VARIABLES
    object_held,  \* what the backend has acquired; {} when it does not run
    kernel,     \* a connector in the kernel: "absent", "off" or "on"
    events,     \* unread udev events: a connector, or NoOne for a change of anything
    missed,     \* an event could not be handled
    head,       \* what the head of a connector shows, "absent" without one
    crtcOf,     \* output->crtc
    user,       \* crtc->output
    inherited,  \* the CRTC that drove a connector before
    can,        \* plane->possible_crtcs
    boot,       \* plane->crtc_id: the CRTC a plane was on before
    scanout, cursor, rest   \* an output's scanout_handle, cursor_handle, plane_handle_list

objectVars == <<object_held, kernel, events, missed, head, crtcOf, user, inherited, can, boot, scanout, cursor, rest>>

NoPlanes == [o \in Conns |-> NoOne]
Enabled == {o \in Conns : crtcOf[o] # NoOne}

ObjectTypeOK ==
    /\ object_held \subseteq {"launcher", "udev", "session", "device", "renderer", "input", "monitor", "api"}
    /\ {kernel, head} \subseteq [Conns -> {"absent", "off", "on"}] /\ missed \in BOOLEAN
    /\ \A i \in DOMAIN events : events[i] \in Conns \cup {NoOne}
    /\ crtcOf \in [Conns -> Crtcs \cup {NoOne}] /\ user \in [Crtcs -> Conns \cup {NoOne}]
    /\ can \in [Planes -> SUBSET Crtcs] /\ {scanout, cursor} \subseteq [Conns -> Planes \cup {NoOne}]
    /\ rest \in [Conns -> SUBSET Planes]

ObjectInit ==
    /\ object_held = {} /\ events = <<>> /\ missed = FALSE
    /\ kernel = [c \in Conns |-> "on"] /\ head = [c \in Conns |-> "absent"]
    /\ crtcOf = NoPlanes /\ user = [c \in Crtcs |-> NoOne]
    /\ inherited \in [Conns -> {NoOne} \cup Crtcs]
    /\ \A c, d \in Conns : c # d => inherited[c] = NoOne \/ inherited[c] # inherited[d]
    /\ can \in [Planes -> SUBSET Crtcs \ {{}}] /\ \A p \in Planes : TypeOf[p] # "primary" => can[p] = Crtcs
    /\ boot \in [Planes -> {NoOne} \cup Crtcs]
    /\ \A p \in Planes : boot[p] # NoOne => TypeOf[p] = "primary" /\ boot[p] \in can[p]
    /\ \A p, q \in Planes : p # q => boot[p] = NoOne \/ boot[p] # boot[q]
    /\ {boot[p] : p \in Planes} \cup {NoOne} = {inherited[c] : c \in Conns} \cup {NoOne}
    /\ scanout = NoPlanes /\ cursor = NoPlanes /\ rest = [o \in Conns |-> {}]
-----------------------------------------------------------------------------
\* drm_backend_create, one step after the other; the last registers bindings, formats and
\* interfaces.
Steps == <<"launcher", "udev", "session", "device", "renderer", "input", "monitor", "api">>

\* Where a failing step jumps to (0: err_compositor, 5: err_udev_monitor), and what the
\* labels from there down give back.
Label(k) == CASE k = 1 -> 0 [] k = 2 -> 1 [] k = 4 -> 2 [] k \in {5, 6} -> 3
              [] k = 7 -> 4 [] k = 8 -> 5
Undone(k) == {(<<"launcher", "udev", "device", "input", "monitor">>)[i] : i \in 1..Label(k)}

Start(k) ==
    /\ object_held = {} /\ k # 3   \* listening for the session cannot fail
    /\ IF k <= Len(Steps)
       THEN object_held' = {Steps[i] : i \in 1..(k - 1)} \ Undone(k) /\ UNCHANGED head
       ELSE object_held' = ToSet(Steps) /\ head' = kernel  \* drm_backend_discover_connectors
    /\ UNCHANGED <<kernel, events, missed, crtcOf, user, inherited, can, boot, scanout, cursor, rest>>

Running == "device" \in object_held
-----------------------------------------------------------------------------
\* A connector comes, goes or changes in the kernel, which says so in an event about it or
\* in one about the device.
KernelChanges(c, how) ==
    /\ Running /\ kernel[c] # how /\ Len(events) < MaxEvents
    /\ kernel' = [kernel EXCEPT ![c] = how]
    /\ \E e \in {c, NoOne} : events' = Append(events, e)
    /\ UNCHANGED <<object_held, missed, head, crtcOf, user, inherited, can, boot, scanout, cursor, rest>>

\* drm_output_deinit_planes and drm_output_detach_crtc of the outputs in S.
Deinit(S) ==
    /\ crtcOf' = [o \in Conns |-> IF o \in S THEN NoOne ELSE crtcOf[o]]
    /\ user' = [c \in Crtcs |-> IF user[c] \in S THEN NoOne ELSE user[c]]
    /\ scanout' = [o \in Conns |-> IF o \in S THEN NoOne ELSE scanout[o]]
    /\ cursor' = [o \in Conns |-> IF o \in S THEN NoOne ELSE cursor[o]]
    /\ rest' = [o \in Conns |-> IF o \in S THEN {} ELSE rest[o]]

UdevEvent(ok) ==
    /\ Running /\ events # <<>>
    /\ LET e == Head(events)
           gone == {c \in Conns : ok /\ kernel[c] = "absent"}
       IN /\ head' = [c \in Conns |-> IF c \in gone THEN "absent"
                                      ELSE IF ok /\ e \in {c, NoOne} THEN kernel[c] ELSE head[c]]
          /\ Deinit(gone \cap Enabled)
    /\ missed' = (missed \/ ~ok) /\ events' = Tail(events)
    /\ UNCHANGED <<object_held, kernel, inherited, can, boot>>
-----------------------------------------------------------------------------
NumPlanes(c) == Cardinality({p \in Planes : c \in can[p]})

\* drm_output_pick_crtc: the inherited one, else the free one with most planes that no
\* other unused head inherited, else the last that fits, else any.
PickCrtc(o) ==
    LET free == {c \in Crtcs : user[c] = NoOne}
        unclaimed == {c \in free : NumPlanes(c) > 0 /\ \A d \in Conns \ {o} :
                        head[d] # "absent" /\ d \notin Enabled => inherited[d] # c}
        best == {c \in unclaimed : \A d \in unclaimed : NumPlanes(d) <= NumPlanes(c)}
    IN IF inherited[o] \in free THEN {inherited[o]}
       ELSE IF best # {} THEN best ELSE free

\* drm_output_find_special_plane for the output whose CRTC is c.
Special(c, type) ==
    {p \in Planes :
        /\ TypeOf[p] = type /\ c \in can[p]
        /\ \A o \in Enabled : scanout[o] # p /\ cursor[o] # p
        /\ type = "primary" => boot[p] \in {NoOne, c}}

\* drm_output_enable: attach a CRTC, tie the two special planes to it and take a handle on
\* every plane it can use; a later failure gives back all but the ties.
ObjectEnable(o, works) ==
    /\ Running /\ head[o] = "on" /\ o \notin Enabled
    /\ \E c \in PickCrtc(o) :
         IF Special(c, "primary") = {}
         THEN UNCHANGED <<crtcOf, user, can, scanout, cursor, rest>>
         ELSE \E p \in Special(c, "primary"),
                 q \in IF Special(c, "cursor") = {} THEN {NoOne} ELSE Special(c, "cursor") :
              LET tied == [r \in Planes |-> IF r \in {p, q} THEN {c} ELSE can[r]] IN
              /\ can' = tied
              /\ IF works
                 THEN /\ crtcOf' = [crtcOf EXCEPT ![o] = c] /\ user' = [user EXCEPT ![c] = o]
                      /\ scanout' = [scanout EXCEPT ![o] = p] /\ cursor' = [cursor EXCEPT ![o] = q]
                      /\ rest' = [rest EXCEPT ![o] = {r \in Planes : c \in tied[r]} \ {p, q}]
                 ELSE UNCHANGED <<crtcOf, user, scanout, cursor, rest>>
    /\ UNCHANGED <<object_held, kernel, events, missed, head, inherited, boot>>

ObjectDisable(o) ==
    /\ o \in Enabled /\ Deinit({o})
    /\ UNCHANGED <<object_held, kernel, events, missed, head, inherited, can, boot>>

\* A compositor whose backend failed to start ends.
Exit ==
    /\ ~Running /\ object_held # {} /\ object_held' = {}
    /\ UNCHANGED <<kernel, events, missed, head, crtcOf, user, inherited, can, boot, scanout, cursor, rest>>

ObjectNext ==
    \/ \E k \in 1..9 : Start(k)
    \/ \E c \in Conns, how \in {"absent", "off", "on"} : KernelChanges(c, how)
    \/ \E ok \in BOOLEAN : UdevEvent(ok)
    \/ \E o \in Conns : ObjectDisable(o) \/ \E works \in BOOLEAN : ObjectEnable(o, works)
    \/ Exit

ObjectSpec == ObjectInit /\ [][ObjectNext]_objectVars
-----------------------------------------------------------------------------
\* CRTCs and outputs name each other; the scanout and cursor plane of an output are of
\* that type, work on its CRTC and belong to no other output; an enabled output has a
\* head; once all events are read the heads are the kernel's connectors; and a start that
\* failed leaves only its session listener and the compositor's renderer.
ObjectsOwned ==
    /\ \A c \in Crtcs, o \in Conns : user[c] = o <=> crtcOf[o] = c
    /\ \A o \in Enabled :
         /\ head[o] # "absent"
         /\ TypeOf[scanout[o]] = "primary" /\ can[scanout[o]] = {crtcOf[o]}
         /\ cursor[o] # NoOne => TypeOf[cursor[o]] = "cursor" /\ can[cursor[o]] = {crtcOf[o]}
         /\ \A p \in Enabled \ {o} : {scanout[o], cursor[o]} \cap {scanout[p], cursor[p]} \subseteq {NoOne}
    /\ Running /\ events = <<>> /\ ~missed => head = kernel
    /\ ~Running => object_held \subseteq {"session", "renderer"}
=============================================================================
