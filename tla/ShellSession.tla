---------------------------- MODULE ShellSession ----------------------------
(***************************************************************************)
(* What the bound shell configures for the whole session and what its loss *)
(* takes back: hotkeys, display power, pointer configuration, key repeat   *)
(* and the input gates of remote outputs (qdwin.c, the requests of         *)
(* qdwin_shell_v1 and qdwin_shell_resource_destroy).                       *)
(*                                                                         *)
(* An output is in libweston's output_list (enabled) or in its             *)
(* pending_output_list (disabled); its power state and, for an RDP slot,   *)
(* its input gate belong to the output and survive a disable.  A pointer   *)
(* configuration, a repeat rate and a chord are opaque values: clamping    *)
(* and the capability tests of a device are left out.                      *)
(***************************************************************************)
EXTENDS Naturals

CONSTANTS Outputs,      \* physical outputs
          Remotes,      \* pre-created RDP slots ("rdp-N")
          Devices,      \* libinput pointer devices
          Configs,      \* pointer configurations a shell may push
          Rates,        \* repeat settings a shell may push
          HotkeyIds, Chords,
          STOCK,        \* the device's or the compositor's own default
          NONE

VARIABLES shell,        \* qdwin->shell_bound
          locked,       \* qdwin->locked
          hotkeys,      \* id |-> chord or NONE
          forced,       \* display_forced_off
          out,          \* output |-> [enabled, dark]
          pc,           \* pointer_config: the snapshot, or NONE when not valid
          dev,          \* device |-> configuration in force, or NONE (absent)
          repeat,       \* [now, dflt, over]: compositor->kb_repeat_*, default_kb_*
          gate,         \* remote slot |-> [enabled, open]
          missed        \* history: outputs a walk over output_list passed by

vars == <<shell, locked, hotkeys, forced, out, pc, dev, repeat, gate, missed>>

Init ==
    /\ shell = FALSE /\ locked = FALSE
    /\ hotkeys = [i \in HotkeyIds |-> NONE]
    /\ forced = FALSE
    /\ out = [o \in Outputs |-> [enabled |-> TRUE, dark |-> FALSE]]
    /\ pc = NONE
    /\ dev = [d \in Devices |-> STOCK]
    /\ repeat = [now |-> STOCK, dflt |-> STOCK, over |-> FALSE]
    /\ gate = [r \in Remotes |-> [enabled |-> FALSE, open |-> FALSE]]
    /\ missed = {}

(***************************************************************************)
(* Requests of the bound shell.                                            *)
(***************************************************************************)

\* bind_as_shell.
BindAsShell ==
    /\ ~shell
    /\ shell' = TRUE
    /\ UNCHANGED <<locked, hotkeys, forced, out, pc, dev, repeat, gate, missed>>

RegisterHotkey(i, c) ==
    /\ shell
    /\ hotkeys' = [hotkeys EXCEPT ![i] = c]
    /\ UNCHANGED <<shell, locked, forced, out, pc, dev, repeat, gate, missed>>

UnregisterHotkey(i) ==
    /\ shell
    /\ hotkeys' = [hotkeys EXCEPT ![i] = NONE]
    /\ UNCHANGED <<shell, locked, forced, out, pc, dev, repeat, gate, missed>>

\* qdwin_set_all_outputs_power walks output_list: enabled outputs only.
SetAllOutputsPower(on) ==
    [o \in Outputs |-> IF out[o].enabled THEN [out[o] EXCEPT !.dark = ~on] ELSE out[o]]

\* The dark outputs such a walk does not reach.
PassedBy == {o \in Outputs : ~out[o].enabled /\ out[o].dark}

\* Allowed while locked: the screen must be able to wake.
SetDisplayPower(on) ==
    /\ shell
    /\ forced' = ~on
    /\ out' = SetAllOutputsPower(on)
    /\ missed' = (missed \cap Remotes) \cup PassedBy
    /\ UNCHANGED <<shell, locked, hotkeys, pc, dev, repeat, gate>>

\* qdwin_pointer_config_walk: every device that is plugged in now.
PointerConfigWalk(v) == [d \in Devices |-> IF dev[d] = NONE THEN NONE ELSE v]

\* Dropped without an error while locked.
SetPointerConfig(v) ==
    /\ shell
    /\ IF locked THEN UNCHANGED <<pc, dev>>
                 ELSE pc' = v /\ dev' = PointerConfigWalk(v)
    /\ UNCHANGED <<shell, locked, hotkeys, forced, out, repeat, gate, missed>>

\* The default is remembered at the first override of a session only.
SetKeyRepeat(v) ==
    /\ shell
    /\ IF locked THEN UNCHANGED repeat
       ELSE repeat' = [now |-> v, dflt |-> IF repeat.over THEN repeat.dflt ELSE repeat.now,
                       over |-> TRUE]
    /\ UNCHANGED <<shell, locked, hotkeys, forced, out, pc, dev, gate, missed>>

(***************************************************************************)
(* qdwin_shell_resource_destroy: the shell leaves, crashes, or is          *)
(* disconnected by a fatal protocol error.                                 *)
(***************************************************************************)
LoseShell ==
    /\ shell' = FALSE
    /\ hotkeys' = [i \in HotkeyIds |-> NONE]
    /\ forced' = FALSE
    /\ out' = IF forced THEN SetAllOutputsPower(TRUE) ELSE out
    /\ pc' = NONE
    /\ dev' = IF pc # NONE THEN PointerConfigWalk(STOCK) ELSE dev
    /\ repeat' = IF repeat.over THEN [repeat EXCEPT !.now = repeat.dflt, !.over = FALSE]
                                ELSE repeat
    /\ gate' = [r \in Remotes |-> IF gate[r].enabled THEN [gate[r] EXCEPT !.open = FALSE]
                                  ELSE gate[r]]
    /\ missed' = (IF forced THEN PassedBy ELSE missed \cap Outputs)
                   \cup {r \in Remotes : ~gate[r].enabled /\ gate[r].open}

ShellGone ==
    /\ shell
    /\ LoseShell
    /\ UNCHANGED locked

\* set_remote_output_input finds the slot in either list.  Opening a gate
\* while locked is a fatal error: the shell is disconnected.
SetRemoteOutputInput(r, on) ==
    /\ shell
    /\ IF on /\ locked
       THEN LoseShell
       ELSE /\ gate' = [gate EXCEPT ![r].open = on]
            /\ missed' = missed \ {r}
            /\ UNCHANGED <<shell, hotkeys, forced, out, pc, dev, repeat>>
    /\ UNCHANGED locked

(***************************************************************************)
(* The session around it.                                                  *)
(***************************************************************************)

\* The lock is QdwinLock's; here it only opens and closes.
ToggleLock ==
    /\ locked' = ~locked
    /\ UNCHANGED <<shell, hotkeys, forced, out, pc, dev, repeat, gate, missed>>

\* weston_output_disable: an unplug or the output manager.
DisableOutput(o) ==
    /\ out[o].enabled
    /\ out' = [out EXCEPT ![o].enabled = FALSE]
    /\ UNCHANGED <<shell, locked, hotkeys, forced, pc, dev, repeat, gate, missed>>

\* qdwin_on_output_changed: an output enabled while the display is forced off
\* is powered off at once; otherwise it keeps the power state it had.
OnOutputChanged(o) ==
    /\ ~out[o].enabled
    /\ out' = [out EXCEPT ![o] = [enabled |-> TRUE, dark |-> @.dark \/ forced]]
    /\ UNCHANGED <<shell, locked, hotkeys, forced, pc, dev, repeat, gate, missed>>

\* A slot is enabled for a peer and disabled after it.
EnableRemote(r, on) ==
    /\ gate[r].enabled # on
    /\ gate' = [gate EXCEPT ![r].enabled = on]
    /\ UNCHANGED <<shell, locked, hotkeys, forced, out, pc, dev, repeat, missed>>

\* A device that is plugged in comes with its own defaults.
PlugDevice(d) ==
    /\ dev[d] = NONE
    /\ dev' = [dev EXCEPT ![d] = STOCK]
    /\ UNCHANGED <<shell, locked, hotkeys, forced, out, pc, repeat, gate, missed>>

UnplugDevice(d) ==
    /\ dev[d] # NONE
    /\ dev' = [dev EXCEPT ![d] = NONE]
    /\ UNCHANGED <<shell, locked, hotkeys, forced, out, pc, repeat, gate, missed>>

Next ==
    \/ BindAsShell \/ ShellGone \/ ToggleLock
    \/ \E i \in HotkeyIds : UnregisterHotkey(i) \/ \E c \in Chords : RegisterHotkey(i, c)
    \/ \E on \in BOOLEAN : SetDisplayPower(on)
    \/ \E v \in Configs : SetPointerConfig(v)
    \/ \E v \in Rates : SetKeyRepeat(v)
    \/ \E r \in Remotes, on \in BOOLEAN : SetRemoteOutputInput(r, on) \/ EnableRemote(r, on)
    \/ \E o \in Outputs : DisableOutput(o) \/ OnOutputChanged(o)
    \/ \E d \in Devices : PlugDevice(d) \/ UnplugDevice(d)

Spec == Init /\ [][Next]_vars
-----------------------------------------------------------------------------
\* Type correctness of the session's settings.
TypeOK ==
    /\ shell \in BOOLEAN /\ locked \in BOOLEAN /\ forced \in BOOLEAN
    /\ hotkeys \in [HotkeyIds -> Chords \cup {NONE}]
    /\ out \in [Outputs -> [enabled : BOOLEAN, dark : BOOLEAN]]
    /\ pc \in Configs \cup {NONE}
    /\ dev \in [Devices -> Configs \cup {STOCK, NONE}]
    /\ repeat \in [now : Rates \cup {STOCK}, dflt : Rates \cup {STOCK}, over : BOOLEAN]
    /\ gate \in [Remotes -> [enabled : BOOLEAN, open : BOOLEAN]]
    /\ missed \subseteq Outputs \cup Remotes

\* Nothing a shell configured outlives it (qdwin_shell_resource_destroy):
\* without a shell there is no hotkey, every device has its own defaults, the
\* repeat rate is the one the compositor started with, the display is lit and
\* every remote gate is shut.  The outputs that were disabled when the walk over
\* output_list should have reached them are the only exceptions.
SessionGone ==
    ~shell =>
       /\ \A i \in HotkeyIds : hotkeys[i] = NONE
       /\ \A d \in Devices : dev[d] \in {STOCK, NONE}
       /\ repeat.now = STOCK /\ ~repeat.over
       /\ ~forced
       /\ \A o \in Outputs \ missed : ~out[o].dark
       /\ \A r \in Remotes \ missed : ~gate[r].open

\* While the shell holds the display off every enabled output is off, the ones
\* plugged in or re-enabled since included (qdwin_on_output_changed).
ForcedIsDark == forced => \A o \in Outputs : out[o].enabled => out[o].dark

\* What is in force is what was last accepted, whatever was pushed, dropped or plugged in
\* since: a device has the shell's last accepted pointer configuration or, plugged in after
\* it, its own defaults, never one that was replaced; and an overridden repeat rate still
\* remembers the rate of the start (a push while locked is dropped whole, set_pointer_config
\* and set_key_repeat).
ConfigInForce ==
    /\ \A d \in Devices : dev[d] \in {pc, STOCK, NONE}
    /\ repeat.dflt = STOCK

\* A shell that turned the display off and went away leaves no output dark
\* (qdwin.c:989, "so a crashed shell never leaves the screen dark").
NeverLeftDark == ~shell => \A o \in Outputs : out[o].enabled => ~out[o].dark
=============================================================================
