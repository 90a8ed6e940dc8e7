# A TLA+ model of qdwin

qdwin is a shell plugin for libweston: one C translation unit (`src/qdwin/qdwin.c`) that
owns the windows, the session lock, the clipboard policy and a dozen Wayland protocols of a
desktop whose shell (qdshell) and locker (qdlocker) are separate processes. It runs inside a
vendored libweston (`src/libweston-vendored/`), which does the input, the scene graph and the
display. This directory holds TLA+ models of the stateful parts of both, TLC configurations
that check them on small instances, and TLAPS proofs for instances of any size.

The compositor is a single thread that dispatches one event at a time. A handler is
therefore one atomic step, with every callback and listener it triggers. What interleaves,
and what the models are about, is the order of *events*: requests of several clients,
disconnects and crashes, timers, hotplug, and the destruction of objects that point at each
other. `wl_resource_post_error` is fatal to the client it is posted to, so a handler that
posts an error is modelled as the loss of that client.

## Parts of the system and their modules

The parts of qdwin itself:

| Part | Module | What makes it hard |
|---|---|---|
| Session lock | `QdwinLock`, `LockPromise` | two clients drive it, each may crash; four objects die in any order |
| Keyboard grabs | `QdwinLock` | two records of one fact, one slot for many users |
| Clipboard and receive gate | `ClipboardGate` | re-entrant signals, late answers, shell restart |
| Primary selection | `Transfers` | offers outlive their source |
| xdg-activation gate | `ActivationGate` | two owners of one object, stale target |
| Shell binding, display power, pointer and key configuration, hotkeys, remote input | `ShellSession` | everything a shell set must be undone, on devices that came and went |
| Window states and the interactive move | `WindowGeometry` | overlapping restore slots, outputs that vanish |
| Layers, minimising, raising, focus recovery | `WindowLayers` | several owners of a window's layer, the lock |
| Focus as the shell hears of it | `SeatFocus` | keyboards that are replaced, a settle timer |
| View streams and stream input | `ViewStreams` | five causes of an end, reused pids |
| Workspaces, ext-workspace | `Workspaces` | positions that other clients renumber |
| Nested compositors, outer and inner side | `NestedSessions` | pending decisions; a byte stream in any segmentation |
| Idle inhibit and notify | `IdlePolicy` | one-shot timers against inhibitors and input |
| Output manager | `OutputControl` | one of several steps fails |
| Layer shell | `ShellLayers` | outputs that change between configure and commit |
| Panels, notifications, launcher, background | `ShellLayers` | plain pointers to outputs |
| Pointer grabs of move and popups | `PointerControl` | one slot per seat, grabs inside objects that are freed |
| Text input, input method, virtual keyboard | `TextInput` | asynchronous answers, echoes |
| Cursor sprites | `PointerControl` | `committed_private` read at a later commit |
| Screen capture and retention | `OutputControl` | no repaint ever comes; the role changes hands |
| Start-up and bind policy | `ClientPolicy` | pids that change while they are examined |
| Security contexts | `ClientPolicy` | clients outlive their context |
| Decision kernels (`qdwin-logic.c`) | `ShellLayers` | boundaries of arithmetic |

The parts of libweston below it:

| Part | Module | What makes it hard |
|---|---|---|
| Seats: pointer, keyboard, touch, tablets | `SeatInput`, `TouchTablet` | resources and devices that come and go in the middle of a gesture |
| libinput seats | `TouchTablet` | capabilities by counting, suspend with keys held |
| Pointer constraints, confinement | `PointerConstraints`, `PointerControl` | one grab slot; half-open edges |
| Drag and drop | `Transfers` | source, target and grab end in any order |
| xdg-shell configure sequence, popups | `XdgShell` | several configures in flight; a stack on two slots |
| Surface state | `SurfaceContent` | sub-surface caches against a queue of updates |
| Buffers | `SurfaceContent` | release exactly when the last user is done |
| Views, outputs, heads | `SceneGraph`, `OutputLoop` | cached assignments, postponed disable |
| Damage, repaint loop | `SceneGraph`, `OutputLoop` | cached regions; one timer for all outputs |
| Pixman renderer | `SurfaceContent` | images into memory a client may free |
| Debug log | `DebugLog` | stdio buffers in front of subscribers, a ring buffer |
| dmabuf, formats | `DrmScanout` | partial imports; array algorithms |
| DRM backend | `DrmDisplay`, `DrmScanout` | completions against destruction, power, mode and reset; shared handles |

Each module begins with what it models and what it leaves out. Actions have the name of the
handler, listener or function they model; steps of the environment (a surface is created, a
locker starts, time passes) have names of their own. `PROJECT.json` maps each definition to
its lines. A definition `X_bad`, or `X_` with another suffix, is `X` with a plausible
mistake; no specification uses it, and putting it in `X`'s place violates the property it is
listed with.

A module that several parts name holds them one after the other. They are state-disjoint: each
has its own section, its own `Init` and `Next` and a prefix on its names, and no action of one
mentions a variable of another. Components that do share state are in one specification: the
keyboard grab and the lock in `QdwinLock`, the selection, the clipboard manager and the gate in
`ClipboardGate`, the pointer grab and the window in `WindowGeometry`, the layers, the focus and
the lock in `WindowLayers`.

Not modelled: the GL and Vulkan renderers, colour management, the PipeWire backend's buffers,
the other backends, XWayland and xdg-shell v6, fractional scale, cursor themes, the shared
helpers, the protocol XML and the test clients. They are input and output, numeric, unused
by qdwin's sessions, or hold no state a property here would be about; `PROJECT.json` gives
the reason for each.

### Session lock

The variables of `QdwinLock` are fields of `struct qdwin`: `locked`, `hidden` (the layers
other than the lock layer have no position), `lock_curtain` (the outputs it covers), `lk`
(the lock's pointers), the layer of every toplevel, the bound shell and locker, and
the keyboard record `k`. `saw` records what each client was last told.

A locker's process (`alive`), its number in the kernel's table (`proc`), the number in the
credentials of its connection (`pid`) and what qdwin remembers of the bound one (`peer`: number
and start time) are four things, so that a takeover can race the disconnect, a bind can be
handled after its sender died, and a number can be taken by another process, a second locker
included. Any reading of a start time may fail (`UNREAD`). Assumed: lockers are in the
compositor's pid namespace, so that a credential names them.

Listeners that are linked a second time while they are still on a list break the lists of the
first surface (`lk.relinked`). The next commit or destruction of that surface is undefined; it is
modelled as a step after which nothing is served any more (`EmitBroken`, `lk.hung`).

The record `k` keeps libweston's slot (`keyboard->grab`) apart from qdwin's own record
(`overlay_grab_active`, its role), because cancel, hotplug and competing grabs update only
one of the two. A window mapped while the layers have no position is `"unmapped"` until
something maps it again.

`LockPromise` has three variables: the lock, whether the desktop is shown, and who is bound.
`QdwinLock` implements it under the mapping `desktop_shown <- ~hidden`.

Abstracted: z-order inside a layer, two raw views of one surface (counted as one), the
commit callback of the lock surface, and the fullscreen request that a promotion sends.

### Clipboard gate

`select_null`, `select_source` and `DestroySource` follow the nested
`weston_seat_set_selection`: libweston's clipboard manager was registered first, so its
listener runs before qdwin's and may select its cache inside the outer call. A request is one
`receive` with its descriptor; counters record how often it was handed on and closed. The
shell comes in two versions, of which one predates the gate. Keyboard focus that moves by
clicks or by recovery is an action of its own. Assumed: clients pass serials they were given.

### Activation gate

A token `k` has up to two owners, the client's object and the pending activation. Toplevels
are used once, so a pointer to a freed one is recognisable; acting on one is undefined
behaviour and modelled as either outcome.

### Window geometry

`win[t]` holds the state bits of a toplevel, its position and outer size, and the two slots
it may be restored from: `saved` (shared by maximise and fullscreen) and `tile_saved`. A
position is an output and one of four spots on it, a size one of five names; every rule that
compares or saves rectangles is about these. A slot nothing will be restored from is reset,
which the code does not do and never looks at. `drag` is qdwin's record of the move grab and
`ptr` libweston's. `home` follows the rectangle a window last had while floating; `mixed`
holds the windows that were maximised and fullscreen at once, or lost their tile while either
held, for which the code does not keep that rectangle. A view at (0,0) that no output placed
may or may not be on the output that is removed, since any output may be the one at (0,0).

### Window layers

A view is in the list of a layer and, separately, mapped. The minimised and hidden layers
never have a position, and the others lose theirs while locked; a view moved to such a layer
is unmapped. `stack` is the order of the layer lists, `tops` the list of toplevels, `focus`
the keyboard's focus and `idle` whether the recovery callback is scheduled. `astray` marks a
window that the code itself lets become visible against its bits (activation of a minimised
window, the one known exception to `ShownIffItShould`).

### View streams

`str[s]` is `struct qdwin_view_stream`; `child[s]` and `proc` are the kernel's side: what
became of the child and which process a pid names. weston reaps every child, so a pid may be
reused before qdwin learns of the death; a pidfd names the child itself, and SIGTERM is sent
through it and never by number. `stray` records a signal that reached anybody else.

### Workspaces

Workspaces are positions, and staged requests carry positions. A commit replays the staged
requests in order (`manager_flush`) and then announces the result to every manager and the
shell. Names are modelled as the set of positions that have a custom one.

### Text input

An input method composes and commits without knowing what was sent to it meanwhile. The
serials it echoes are abstracted to whether it has read every `done` (`fresh`) and whether one
was sent since it began the requests of its next commit (`batch`); its commit is accepted
exactly if `batch` is "current". `knows` is the text input whose latest content it has read and
`text` the one its pending text was composed for, so `wrong` records a commit whose serial was
accepted and whose text was meant for another input or an older content. `kgrab` is the
keyboard's slot and `kg` the grab in it: cancelled, freed, and called after that.

## Runs

Eleven runs pass; TLC also checks deadlock freedom in each. A run is about one main component,
whose module the MC module extends, and in most runs also about components that share no state
with it: the variable `part` says which component a behaviour is about, `y1`, `y2`, ... are
that component's variables, and a property of theirs is guarded by `part`. The state spaces
add up, they do not multiply.

| Run | Instance | Shows |
|---|---|---|
| `lock_core` | 2 lockers one after the other (1 process number), 1 lock surface, 2 toplevels (one a locker's), allocations may fail, no launcher | `LockSound`, `DesktopComesBack`, `ShellInformed`, `KeepsLockPromise` |
| | surfaces, buffers, views, damage, repaint, heads, pixman | `SceneWhole` |
| `lock_keyboard` | 1 locker, 2 outputs, all keyboard users and hotplug | `LockerGrabOnlyWhileLocked`, `CurtainHeldWhileLocked` |
| | pointer, keyboard, touch, tablet, libinput, cursors, grabs, confinement | `InputDelivered` |
| `lock_restart` | 2 lockers that crash and restart, a third process, 3 process numbers, fair | `InheritedLockIsTypable`: a lock without a locker gets one that receives keys, or ends; `TakeoverOnlyOfDead` |
| `activation` | 2 tokens, 3 toplevels on 2 surfaces, 2 shells, allocations may fail, fair timers | `TokensSound`, `SingleUse`, `NoActivationWhileLocked`, `GatedByShell`, `EveryActivationEnds` |
| | the DRM backend, formats, dmabuf | `DisplayKept` |
| `clipboard` | 2 clients, 1 source and the cache, 2 receives, 2 shells, allocations may fail, fair timers | `PendingSound`, `DescriptorSettledOnce`, `AskedShellDecides`, `NothingPastTheGate`, `EveryReceiveEnds` |
| | primary selection, drag and drop | `TransfersWhole` |
| `streams` | 2 streams of one window, 2 desktop and 2 pipewire outputs, 2 pids (symmetric) | `StreamsEndClean`, `WindowComesBack`, `InputConfined` |
| | nested proxies, nested publisher, debug log | `RemoteWhole` |
| `workspaces` | 2 windows, 2 managers (symmetric), 3 workspaces, batches of 2 | `WorkspacesAgree`, `CommitKeepsDesktop` |
| | shell surfaces, layer shell, focus tracking, kernels | `DesktopArranged` |
| `layers` | 2 windows with chrome, 2 workspaces, fair idle callback | `LayersRight`, `StackKept`, `FocusSettles`, `FocusRecovers` |
| `text_input` | 2 text inputs, 3 surfaces of 2 clients, 2 input methods, 1 virtual keyboard (symmetric) | `TextInputServed`, `GrabEndsWithHolder` |
| `window` | 1 toplevel, 2 outputs (symmetric), shell, pointer and lock that come and go | `GeometryKept` |
| | xdg-shell toplevels, popups, pointer constraints | `ClientsFollow` |
| `session` | shell configuration, capture, idle, bind policy, sandboxes, output manager | `SessionKept`, `StepsKept`, `CaptureSettles` |
| `claim_never_dark` | shell configuration | the violation below |

**Bounds.** Two of each process suffice where the code distinguishes only "the bound one",
"another one" and "none". One lock surface and two toplevels give every combination of raw
and promoted lock view; a third adds no pointer. Two receives or two activations let one be
settled while another is pending; each list operation concerns one entry or all. Windows
share only the outputs and the one drag, so one toplevel meets every case of its geometry,
and two outputs are one that goes and one that survives; it may be in two of the
three special states at once (`MaxStates`), which is what makes them overlap. Two streams of one window are what
pinning and pids can be confused by. Three workspaces have a first, a middle and a last, and
a batch of two can invalidate its own second request. Object identities used once (tokens,
toplevels, requests) bound the length of a behaviour, not the order of its events. Counters
that would grow without end (commits, packets, configures, plane vetoes, printed bytes) have
a bound named in the module that declares it (`MaxCommits`, `MaxPackets`, `MaxConfigures`,
`MaxVetoes`, `Oldest`, ...).

**Symmetry** is used where the module treats the values alike, in runs without liveness. Since a
behaviour is about one part, sets of different parts may share their model values, and one
group of permutations then serves several of them. The activation run, which checks liveness,
uses none; its part `objects` starts instead from one initial state of each kind
(`OneOfAKind` in `MCActivation`).

**Fairness.** `LockerFairness`: systemd reaps and restarts qdlocker (`Restart=always`), a
started locker binds, and the event loop notices a closed connection. Start and bind are strong
because another crash can disable them; three process numbers for two lockers and one other
process leave one for the restart. `TimerFairness`: the event loop runs a timer that
stays expired. `FocusRecovers` needs that the idle callback runs, `CaptureSettles` that the
stale timer does. No fairness is assumed of any client, of the shell's answers or of decisions.

## Findings

`claim_never_dark` states what `qdwin.c:988` says of the display restore on shell loss ("so a
crashed shell never leaves the screen dark"). TLC shows that an output which is disabled when
the shell dies keeps the power state it was forced into, and is dark when it is enabled again.

Further differences and loose ends met while modelling, for which no run is kept. The models
have the transitions as the code does them.

*Lock.* If the locker's toplevel is promoted while a raw lock surface is attached and demoted
again, `lock_surface` is NULL, the teardown of the handle does not unlink the listeners
(`qdwin.c:7719`), and the next attach links them a second time (7941, 9932), which breaks the
signal lists of the first surface. `LockSound` says that this is the only way it happens.
A lock by the shell is not sent to the locker (`qdwin-locker-v1.xml:179`,
`qdwin.c:7996`). The curtain is not re-installed on output changes (`qdwin.c:10343`, 13257).
After an output was removed, locked keys do not reach the locker (`qdwin-locker-v1.xml:156`,
`qdwin.c:19144`). Destroying the lock handle holds the lock (`qdwin-shell-v1.xml:2001` says it
unlocks). After a cancelled locker grab an unlock leaves the overlay grab in the keyboard's
slot (`qdwin.c:9943`), and a cancelled input-method grab stays there after its object is freed
(17602): the next key or unplug calls through freed memory (`GrabIsHeld`, after an unplug only). An attached lock surface is composited before the lock (`qdwin-shell-v1.xml:2000`);
an attach after a promotion leaves the first lock view (687).

*Activation and clipboard.* A pending activation's target outlives its toplevel (20759), and a
new shell inherits pending activations (9626). An activation whose timer could not be created
may stay pending (`qdwin-shell-v1.xml:1029`). Destroying the token object revokes a token
already handed on (20303). A verdict sent while locked disconnects the shell (8023: it is
deferred). `clear_selection` leaves the clipboard manager's copy selected
(`qdwin-shell-v1.xml:1000`). A receive on an offer of an earlier selection is announced as one
of the current selection (1203). Primary selection: the device link dangles after its seat is
destroyed (18980), old offers forward receives, an equal serial counts as stale.

*Windows.* Restore slots stay on a removed output (19438). Maximise and fullscreen share a
slot, so tiling a window that was both restores the geometry of one (8803). A begun move
clears the tile even without a pointer. Activation of a minimised window moves only its
content view and keeps the bit; minimising leaves the keyboard focus; an unmapped and remapped
window is focused but in no layer; chrome of a minimised window is inserted visibly (4513).
ext-workspace requests are positional (11366), and custom names do not shift. A bind replays
`toplevel_added` without `toplevel_state`. CASCADE and UNDER_MOUSE clamp only left and top.

*Streams and nesting.* Streams ended in subscription order leave the window on a pipewire
output. An output removal or a drag ends the confinement grab (6425). Late denial at 5850. A
proxy may be without a view (22104), and binding its pixels moves it to the normal layer even
if minimised. A failed advertise leaves the sink's source with a freed toplevel (21003); a
hang-up neither removes the source nor releases held keys.

*Pointer grabs, layer shell, shell surfaces.* Cancel callbacks leave their slot installed, so
an event may go to a grab that was freed or whose pointer was (3924, 14862); a popup or a move
that another grab displaced ends its own on the pointer of a destroyed seat (4930, 4036, 9595).
`GrabsLive` says that these are the only ways. Popup teardown ends whatever grab is in the slot;
popups are not dismissed on minimise or lock
(`qdwin-shell-v1.xml:2070`). A layer surface maps without ack or buffer (14003); a zone change
triggers no reflow; a NULL-buffer commit does not unmap. `refresh_background` re-shows the
curtain over the shell's background (7888 against 10250); a panel whose surface died still
reserves its zone.

*Outputs, idle, input method, start-up.* A failed apply may leave some heads changed (11860)
or an enabled output dark (12565). Secondary idle timers consumed under an inhibitor are not
re-armed. `done` is re-sent (17560), and destroying the served text input leaves another
unserved. A malformed `--qdwin-allowed-uid` parses as 0; a failed init leaves its globals
(24357). The dedicated layer-shell uid can never bind (15397).

*libweston, scene.* `weston_output_repaint_failed` leaves its feedback, an always failing
output starves the later ones. A parent's `set_desync` strands a grandchild's cached state
(`surface-state.c:969`). Existing views are not reassigned when an output appears
(`compositor.c:7751`), nor when it moves; a returning view brings no damage
(`compositor.c:479`). The gl attach of the same buffer with a new release object returns early.
The plane veto leaks (11313). `weston_surface_copy_content` of pixman reads without an shm
check.

*libweston, input.* Idle inhibition of pressed buttons and keys is not released at unplug.
Confinement can trip its assertion (`input.c:5316`) or leave the region on diagonals. A
constraint of a non-fullscreen surface is never activated (`doc/protocol.md:112`). The popup
grab's list may hold a popup twice (`seat.c:389`). A drag uses a pointer that is NULL or freed in
the cases `DragsWhole` lists (`data-device.c:506`, 675, 869, 982, 1079). Calibration mode waits
for touches to be lifted, and its assertions can fail meanwhile (`touch-calibration.c:188`, 316);
a calibration saved for another device under it is lost (623). Tablet frames mix time stamps (`libinput-device.c:642`). The default
output is not assigned in every order (`libinput-device.c:886`).

*libweston, DRM.* A recovery does not hold every request it says it holds (`drm.c:98`); power on
does not cancel a pending off (8985); a mode switch is lost in a recovery. An output that asks
for its first frame while a recovery waits is not answered (1065), and one disabled in the middle
of a repaint is not painted after it is enabled again (`compositor.c:8141`). Writeback closes a
fence twice (3631). The session listener is never removed (4704). `zpos_min` is unchecked
(`state-propose.c:443`). An import that fails at a plane gives back a handle it did not take
(`fb.c:226`); descriptors of planes beyond a gap are not closed (`linux-dmabuf.c:49`). A
change of mind between an ack and its commit is compared with a state that is about to go, and
may be lost (`xdg-shell.c:1873`). The debug stream sends `complete` after `failure` (`weston-log-wayland.c:157`).

## Proofs

TLAPS proves the safety of eight components for any values of their constants. Each proof rests
on the `ASSUME` of its module alone: that `NONE` and the like are no members of the sets they
stand beside, that sets the code counts are finite, that the desktop's outputs are no pipewire
ones.

| Module | Theorems | States |
|---|---|---|
| `QdwinLockProofs` | `SpecLockInv`, `SpecLockSound`, `SpecLockerGrab`, `SpecDesktopComesBack`, `SpecShellInformed`, `SpecTakeover`, `SpecCurtainHeld`, `SpecKeepsLockPromise` | every safety property of the lock, and that `QdwinLock` implements `LockPromise` |
| `ActivationGateProofs` | `SpecTokensSound`, `SpecSingleUse`, `SpecNoActivationWhileLocked`, `SpecGatedByShell` | every safety property of the activation gate |
| `ClipboardGateProofs` | `SpecGateHolds`, `SpecPendingSound`, `SpecDescriptorSettledOnce`, `SpecAskedShellDecides`, `SpecNothingPastTheGate` | every safety property of the receive gate |
| `ViewStreamsProofs` | `SpecStreamsSound`, `SpecStreamsEndClean`, `SpecWindowComesBack`, `SpecInputConfined` | every safety property of the streams |
| `WindowGeometryProofs` | `SpecGeometryKept` | the safety property of the windows' geometry |
| `WindowLayersProofs` | `SpecLayersRight`, `SpecFocusSettles` | every safety property of layers and focus but the stacking order |
| `TextInputProofs` | `SpecTextInputServed`, `SpecGrabEnds` | every safety property of text input and input methods |
| `WorkspacesProofs` | `SpecWorkspacesAgree`, `SpecCommitKeepsDesktop` | every safety property of the workspaces and their clients |

**The lock.** None of its properties is inductive alone. The inductive invariant is

    LockInv == TypeOK /\ HiddenIffLocked /\ LockerGrabOnlyWhileLocked
               /\ DesktopComesBack /\ ShellInformed /\ PointersOK(lk, layer, surfaces)

- `HiddenIffLocked` connects the flag with the layers: a window inserted while the layers are
  hidden becomes `"unmapped"`, which is allowed only while locked.
- `LinksOK`, inductive on top of it, says that the listeners are where `lock_surface` says unless
  a toplevel overlaid them, whence `LinkedOnce`. `PeerOK` says that a running process still has
  its number and that of a bound one the number and the start time were remembered; so
  `qdwin_locker_peer_alive` finds it alive whatever can be read, which is `TakeoverOnlyOfDead`.
- `PointersOK` strengthens `LockPointersLive`. It says which of raw surface and toplevel the
  view, surface and listener pointers name *together*, and that every raw view's surface is
  alive; without it a destroy handler that clears one pointer would leave the next in doubt.

Each helper has a lemma (`KeyboardOps`, `LayerOps`, `AttachOK`, `PromoteOK`,
`DestroyedCbOK`, ...) that says what it preserves. `ShellStep`, `LockerStep`, `ObjectStep`
and `KeyboardOutputStep` take the actions one by one, and `NextInv` combines them. The
refinement maps the two `set_locked` handlers to `SetLocked` and every other step to
`Rebind` or a stutter.

**The activation gate.** `TokensSound` is inductive because it says who owns a token and not
only that it is freed at most once: a token is alive exactly while the client's object or a
pending activation owns it, and one that waits or has activated is used. `Fine` is what this
means for one token with its pending entry, and `Pointwise` that `TokensSound` is `Fine` of all
of them; a handler changes one token, so each step is `Fine` of that one. The action properties
are then read off the actions: only `qdwin_activation_perform` counts an activation.

**The receive gate.** The four properties hold only together. That a descriptor goes to its
source only with permission needs that whatever is offered carries the shim, which needs that a
wrap's source is alive, which needs the order in which a dying client's sources and requests
go. `Wrapped` is what holds of the selection also half-way through the nested
`weston_seat_set_selection`, `Gated` what holds between two steps; each of `FreeOfSource`,
`Announce` and the listeners is shown to lead from one to the other. `Fine` is what holds of one
request, given the wraps, the clients and the shell.

**The streams.** `Good` is what one stream may be: live and holding window, output, seat, child
and watch, or holding none of them. `SoundS` adds what relates streams to each other and to
their children (an output carries one stream; a running child's stream is live and its number
names the child, since only its death frees the number), `SoundW` where the windows are. A release is total: `ReleasedIs` shows it
from `Releasable`, which a subscription that fails half-way already has. Every path that ends
streams is then an instance of `Ended` (the others are untouched and no child is left running)
and `UnpinnedBack` (each window goes where its last stream found it). That place is an output
of the desktop unless the window had two streams or lost its output to a pipewire one: this is
why `WindowComesBack` also speaks of streams that are still live.

**The geometry.** `GeometryKept` is inductive: `Good` is what its types say of one window and
`Keeps` what every request does to one, namely that a window whose states do not overlap will be
restored to the rectangle it would have been restored to before (`Float`). A request is `Keeps` of
the window it names, a lost output moves a window, its slots and `home` alike. The history
variable `mixed` leaves out the windows whose special states have overlapped: maximised and
fullscreen share one slot, so the code really loses a rectangle there (see
Findings). `MaxStates` is a bound of the instance; the proof holds for any value of it, and from
three on it excludes nothing.

**Layers and focus.** `LayersRight` is inductive. Its parts about the windows, the list of
toplevels and the focus are kept separately: a window is followed through `move_to_layer` and the
sorting by workspace, where a minimised window's place does not depend on workspaces; the list is
followed through its two link operations. `FocusSettles` needs that part: the walk of the list
finds a visible window if there is one only because every live window is on it. The proof also
shows that the clamp of the active workspace in `qdwin_workspace_remove` never acts.

**Text input.** `TextInputServed` is inductive, `GoneIsForgotten` included: that the input method
serves a text input of the focused surface needs that an unplugged keyboard has no focus and that
what is on the list is alive. `Parts` takes it apart into the list (`ListOK`), one text input
(`EntryOK`) and one input method (`MethodOK`), because `qdwin_im_sync_seat` and the focus listener
change every record by the same function. `CandidateIs` shows that the first entered and enabled
text input of the list, found by least index, is one that `MethodOK` allows. That text reaches only the
input it was composed for is `NothingLateDelivered`, inductive because it follows the serial from
`fresh` to `batch` to `text`. `TextConstants` says that `NONE` is no object and `SUPERSEDED`, what
text is composed for once its input has changed, no text input.

**Workspaces.** `WorkspacesAgree` is inductive between actions, but a commit is a batch of requests
whose indices may be stale. `Good` is what holds between two requests of a batch, and
`SetActiveOK`, `CreateOK` and `RemoveOK` show that each keeps it whatever its index. The batch is
the recursive function of `Replayed`; `Unrolled` shows that this function exists and `BatchOK`
carries `Kept` along it, both by taking the least number of requests that would fail. `ShiftIs` is
the arithmetic of a removal: windows and active index move by the same monotone function, and the
clamp of the active index never acts. `CommitKeepsDesktop` follows from `Kept`, for batches longer
than the run's `MaxStaged`. `WorkspaceConstants` says that the first count is one the code accepts
and that `NONE` is no index.

**Only model-checked.** Liveness under fairness is outside the prover: `InheritedLockIsTypable`,
`EveryActivationEnds`, `EveryReceiveEnds`, `FocusRecovers`, `CaptureSettles`. So is what folds and
other recursive definitions compute: the stacking order of `WindowLayers`, the kernels and the
array algorithms. Invariants
of components that only share a run with a main component (`SceneWhole`, `InputDelivered`,
`DisplayKept`, `TransfersWhole`, `RemoteWhole`, `DesktopArranged`, `ClientsFollow`, `SessionKept`,
`StepsKept`) are checked on the instances of the table above and
not proved; nothing in them is known to be out of reach.
