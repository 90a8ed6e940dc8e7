---------------------------- MODULE MCSession ----------------------------
(* The session around the windows: what a shell configures, screen capture,  *)
(* idleness, who may bind what, sandboxes and the layout of the outputs.  The  *)
(* components share no state; a behaviour is about one.                        *)
EXTENDS Naturals, FiniteSets, Sequences, TLC

CONSTANTS
    Outputs, Remotes, Devices, Configs, Rates, HotkeyIds, Chords, STOCK, NONE, Sources,
    Clients, OwnerOf(_), Modes, MaxVetoes, Inhibitors, Surfaces, Notifications,
    IdleTimes, Timeouts, MaxOptions, Contexts, Conns, Helpers, Engines, Heads, Screens,
    ScreenOf, Settings, ABSENT
CONSTANTS
    c1, c2, cs1, cs2, h1, h2, h3, o1, o2

MCCOwnerOf(s) == IF s = cs1 THEN c1 ELSE c2

\* Two heads show the same picture.
MCOScreenOf == (h1 :> o1) @@ (h2 :> o2) @@ (h3 :> o2)

VARIABLES
    part,   \* the component this behaviour is about
    y1, y2, y3, y4, y5, y6, y7, y8, y9, y10, y11, y12   \* its variables

S == INSTANCE ShellSession WITH
        shell <- y1, locked <- y2, hotkeys <- y3, forced <- y4, out <- y5, pc <- y6,
        dev <- y7, repeat <- y8, gate <- y9, missed <- y10
C == INSTANCE OutputControl WITH
        shell <- y1, active <- y2, out <- y3, armed <- y4, src <- y5, cap <- y6,
        wrong <- y7, screen <- y1, flip <- y2, leaving <- y3, config <- y4,
        result <- y5, refused <- y6
I == INSTANCE IdlePolicy WITH
        idleTime <- y1, state <- y2, inhibit <- y3, idleLeft <- y4, pressed <- y5,
        surf <- y6, inh <- y7, recheck <- y8, disabled <- y9, notif <- y10,
        quiet <- y11, early <- y12
B == INSTANCE ClientPolicy WITH
        asked <- y1, malformed <- y2, step <- y3, inforce <- y4, hooks <- y5,
        mem <- y6, bind_shell <- y7, grant <- y8, sec <- y1, engine <- y2,
        committed <- y3, resource <- y4, udata <- y5, back <- y6, conn <- y7,
        record <- y8, born <- y9, context_shell <- y10, owns <- y11

vars == <<part,
          y1, y2, y3, y4, y5, y6, y7, y8, y9, y10, y11, y12>>

Init ==
    \/ /\ part = "session" /\ S!Init
       /\ y11 = ABSENT /\ y12 = ABSENT
    \/ /\ part = "capture" /\ C!CaptureInit
       /\ y8 = ABSENT /\ y9 = ABSENT /\ y10 = ABSENT /\ y11 = ABSENT /\ y12 = ABSENT
    \/ /\ part = "idle" /\ I!Init
    \/ /\ part = "policy" /\ B!BindInit
       /\ y9 = ABSENT /\ y10 = ABSENT /\ y11 = ABSENT /\ y12 = ABSENT
    \/ /\ part = "sandbox" /\ B!ContextInit
       /\ y12 = ABSENT
    \/ /\ part = "outputs" /\ C!ManagerInit
       /\ y7 = ABSENT /\ y8 = ABSENT /\ y9 = ABSENT /\ y10 = ABSENT /\ y11 = ABSENT
       /\ y12 = ABSENT

\* A step of one component leaves the others alone.
OnlyS ==
    UNCHANGED <<part,
                y11, y12>>
OnlyC ==
    UNCHANGED <<part,
                y8, y9, y10, y11, y12>>
OnlyI ==
    UNCHANGED <<part>>
OnlyB ==
    UNCHANGED <<part,
                y9, y10, y11, y12>>
OnlyX ==
    UNCHANGED <<part,
                y12>>
OnlyO ==
    UNCHANGED <<part,
                y7, y8, y9, y10, y11, y12>>

Next ==
    \/ part = "session" /\ S!Next /\ OnlyS
    \/ part = "capture" /\ C!CaptureNext /\ OnlyC
    \/ part = "idle" /\ I!Next /\ OnlyI
    \/ part = "policy" /\ B!BindNext /\ OnlyB
    \/ part = "sandbox" /\ B!ContextNext /\ OnlyX
    \/ part = "outputs" /\ C!ManagerNext /\ OnlyO

Spec == Init /\ [][Next]_vars
        /\ WF_vars(part = "capture" /\ C!StaleTimer /\ OnlyC)
-----------------------------------------------------------------------------

\* The session is kept: a shell that is gone left nothing forced but on outputs that were
\* disabled then, devices have the configuration last accepted, stale pixels are marked
\* and the planes come back after a capture but for one cut off by a disable, idle counts
\* and timers are exact, the bind policy and the sandboxes are enforced (qdwin.c,
\* output-capture.c).
SessionKept ==
    /\ part = "session" =>
          S!TypeOK /\ S!SessionGone /\ S!ForcedIsDark /\ S!ConfigInForce
    /\ part = "capture" =>
          C!CaptureTypeOK /\ C!StaleIsMarked /\ C!PlanesHeld
    /\ part = "idle" =>
          I!TypeOK /\ I!CountExact /\ I!DeadlineLives /\ I!TimerLives /\
          I!IdledWillResume /\ I!NeverEarly /\ I!StaleHoldWatched
    /\ part = "policy" =>
          B!BindTypeOK /\ B!PolicyEnforced
    /\ part = "sandbox" =>
          B!ContextTypeOK /\ B!SandboxKept
    /\ part = "outputs" =>
          C!ManagerTypeOK

\* An output configuration is applied whole or not at all (qdwin_output_config_apply).
StepsKept == [][part = "outputs" => C!LayoutAtomicStep]_vars

\* A framebuffer capture that was accepted is answered or taken back, if only by the
\* fallback timer (qdwin_capture_stale_timer_cb), or was tried and found no retained frame
\* that fits; the other kinds wait for a repaint.
CaptureSettles ==
    \A s \in Sources :
        (part = "capture" /\ C!Waiting(s)) ~> (part # "capture" \/ C!Settled(s))
=============================================================================
