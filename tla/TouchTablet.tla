----------------------------- MODULE TouchTablet -----------------------------
(***************************************************************************)
(* Touch, tablets, and the libinput devices behind a seat. Three parts     *)
(* that share no state here.                                               *)
(***************************************************************************)
EXTENDS Integers, FiniteSets, FiniteSetsExt

-----------------------------------------------------------------------------
(* Touch input of one seat: the focus of the touch points, the wl_touch         *)
(* resources that follow it, and the global touch mode that hands the devices   *)
(* to a calibrator and back once every touch has been lifted.                   *)

CONSTANTS
    TouchSurfaces, Touches,  \* surfaces, and wl_touch resources clients may create
    TouchOwnerOf,       \* the client of either
    TouchDevices,       \* touch devices that can be calibrated
    Fingers,            \* touch points at most
    Matrices,           \* calibrations a client may save
    Own, Identity, NONE

VARIABLES
    failed,     \* the assertion that has failed, or NONE
    touch_plugged, mode, points, touch_focus, free, touch_focused,
    reset,      \* pending_focus_reset
    cal,        \* compositor->touch_calibrator
    matrix, saved,
    wanted,     \* the calibration the device should be used with (history)
    excused,    \* devices whose saved calibration the code loses (history)
    split       \* a touch ended elsewhere than it began (history)

touchVars == <<failed, touch_plugged, mode, points, touch_focus, free, touch_focused, reset, cal, matrix, saved,
               wanted, excused, split>>

Modes == {"NORMAL", "PREP_CALIB", "CALIB", "PREP_NORMAL"}
ForClients == {"NORMAL", "PREP_CALIB"}

NoCal == [on |-> FALSE, surface |-> FALSE, mapped |-> FALSE, listening |-> FALSE, device |-> NONE,
          output |-> FALSE, view |-> FALSE, cancelled |-> FALSE, ignore |-> FALSE]

\* points[f]: the device the finger is on and who was told of it going down.
Point == [dev : TouchDevices, toClients : BOOLEAN]

TouchTypeOK ==
    /\ touch_plugged \subseteq TouchDevices /\ mode \in Modes
    /\ \A p \in {points[f] : f \in Fingers} : p = <<>> \/ p[1] \in Point
    /\ touch_focus \in TouchSurfaces \cup {NONE} /\ free \subseteq Touches /\ touch_focused \subseteq Touches
    /\ cal.device \in TouchDevices \cup {NONE} /\ excused \subseteq TouchDevices
    /\ \A d \in TouchDevices : {matrix[d], saved[d], wanted[d]} \subseteq Matrices \cup {Own, Identity}

TouchInit ==
    /\ failed = NONE /\ touch_plugged = TouchDevices /\ mode = "NORMAL"
    /\ points = [f \in Fingers |-> <<>>] /\ touch_focus = NONE /\ free = {} /\ touch_focused = {}
    /\ reset = FALSE /\ cal = NoCal /\ matrix = [d \in TouchDevices |-> Own] /\ saved = matrix
    /\ wanted = matrix /\ excused = {} /\ split = FALSE

Down == {f \in Fingers : points[f] # <<>>}

TouchNow == [failed |-> failed, mode |-> mode, cal |-> cal, matrix |-> matrix, saved |-> saved,
             num |-> Cardinality(Down)]

TouchBecome(st) ==
    /\ failed' = st.failed /\ mode' = st.mode /\ cal' = st.cal /\ matrix' = st.matrix
    /\ saved' = st.saved
-----------------------------------------------------------------------------
\* map_calibrator: it asserts the output and then the surface.
Map(st) ==
    IF ~st.cal.output THEN [st EXCEPT !.failed = "output"]
    ELSE IF ~st.cal.surface THEN [st EXCEPT !.failed = "surface"]
    ELSE [st EXCEPT !.cal.view = TRUE,
                    !.saved[st.cal.device] = st.matrix[st.cal.device],
                    !.matrix[st.cal.device] = Identity]

Unmap(st) ==
    LET s1 == [st EXCEPT !.cal.listening = FALSE]
        s2 == [s1 EXCEPT !.cal.view = FALSE, !.cal.mapped = FALSE]
    IN  IF ~s1.cal.view THEN s1
        ELSE IF s1.cal.device = NONE THEN s2
        ELSE [s2 EXCEPT !.matrix[s1.cal.device] = s1.saved[s1.cal.device]]

\* touch_calibrator_mode_changed.
ModeChanged(st) ==
    IF st.cal.on /\ ~st.cal.cancelled /\ st.mode = "CALIB" THEN Map(st) ELSE st

UpdateMode(st) ==
    IF st.num > 0 THEN st
    ELSE CASE st.mode = "PREP_NORMAL" -> ModeChanged([st EXCEPT !.mode = "NORMAL"])
           [] st.mode = "PREP_CALIB" -> ModeChanged([st EXCEPT !.mode = "CALIB"])
           [] OTHER -> st

\* weston_compositor_set_touch_mode_normal.
SetModeNormal(st) ==
    CASE st.mode \in {"PREP_NORMAL", "NORMAL"} -> st
      [] st.mode = "PREP_CALIB" -> ModeChanged([st EXCEPT !.mode = "NORMAL"])
      [] OTHER -> UpdateMode([st EXCEPT !.mode = "PREP_NORMAL"])

\* weston_compositor_set_touch_mode_calib.
SetModeCalib(st) ==
    CASE st.mode \in {"PREP_CALIB", "CALIB"} -> [st EXCEPT !.failed = "mode"]
      [] st.mode = "PREP_NORMAL" -> ModeChanged([st EXCEPT !.mode = "CALIB"])
      [] OTHER -> UpdateMode([st EXCEPT !.mode = "PREP_CALIB"])

\* weston_touch_set_focus.
TouchSetFocus(s) ==
    /\ touch_focus' = s
    /\ IF s # NONE /\ s = touch_focus THEN UNCHANGED <<free, touch_focused>>
       ELSE /\ touch_focused' = {t \in free \cup touch_focused : s # NONE /\ TouchOwnerOf[t] = TouchOwnerOf[s]}
            /\ free' = (free \cup touch_focused) \ touch_focused'
-----------------------------------------------------------------------------
calVars == <<failed, mode, cal, matrix, saved>>
focusVars == <<touch_focus, free, touch_focused>>

\* notify_touch_calibrator: ok says whether the position lies on the device.
ToCalibrator(d, type, n, ok) ==
    LET cancelling == type = "motion" /\ ~ok
    IN  /\ cal' = IF ~cal.on \/ d # cal.device THEN cal
                  ELSE IF cal.ignore THEN [cal EXCEPT !.ignore = n # 0]
                  ELSE [cal EXCEPT !.ignore = cancelling]
        /\ failed' = IF cal.on /\ d = cal.device /\ cal.ignore /\ n = 0 /\ type # "up"
                     THEN "lifted" ELSE NONE
        /\ UNCHANGED <<mode, matrix, saved>>

\* notify_touch_normalized: a finger goes down over v; only the first one picks the focus.
TouchDown(f, d, v, ok) ==
    /\ failed = NONE /\ points[f] = <<>> /\ d \in touch_plugged
    /\ points' = [points EXCEPT ![f] = <<[dev |-> d, toClients |-> mode \in ForClients]>>]
    /\ IF mode \in ForClients
       THEN /\ UNCHANGED calVars
            /\ IF Down = {} THEN TouchSetFocus(v) ELSE v = NONE /\ UNCHANGED focusVars
       ELSE /\ v = NONE /\ ToCalibrator(d, "down", Cardinality(Down) + 1, ok)
            /\ UNCHANGED focusVars
    /\ UNCHANGED <<touch_plugged, reset, wanted, excused, split>>

\* It moves: to the focus, or to the calibrator.
TouchMotion(f, ok) ==
    /\ failed = NONE /\ points[f] # <<>>
    /\ IF mode \in ForClients THEN UNCHANGED calVars
       ELSE ToCalibrator(points[f][1].dev, "motion", Cardinality(Down), ok)
    /\ split' = (split \/ points[f][1].toClients # (mode \in ForClients))
    /\ UNCHANGED <<touch_plugged, points, reset, wanted, excused>> /\ UNCHANGED focusVars

TouchUp(f) ==
    /\ failed = NONE /\ points[f] # <<>> /\ points' = [points EXCEPT ![f] = <<>>]
    /\ IF mode \in ForClients THEN reset' = TRUE /\ UNCHANGED calVars
       ELSE reset' = reset /\ ToCalibrator(points[f][1].dev, "up", Cardinality(Down) - 1, TRUE)
    /\ split' = (split \/ points[f][1].toClients # (mode \in ForClients))
    /\ UNCHANGED <<touch_plugged, wanted, excused>> /\ UNCHANGED focusVars

\* notify_touch_frame ends every group of events.
TouchFrame ==
    /\ failed = NONE /\ touch_plugged # {}
    /\ IF mode \in ForClients /\ reset
       THEN /\ reset' = FALSE
            /\ IF Down = {} THEN TouchSetFocus(NONE) ELSE UNCHANGED focusVars
       ELSE UNCHANGED <<reset>> /\ UNCHANGED focusVars
    /\ TouchBecome(UpdateMode(TouchNow))
    /\ UNCHANGED <<touch_plugged, points, wanted, excused, split>>

\* notify_touch_cancel: the default grab and the calibrator only pass it on.
TouchCancel ==
    /\ failed = NONE /\ touch_plugged # {} /\ TouchBecome(UpdateMode(TouchNow))
    /\ UNCHANGED <<touch_plugged, points, reset, wanted, excused, split>> /\ UNCHANGED focusVars
-----------------------------------------------------------------------------
seatVars == <<points, touch_focus, free, touch_focused, reset>>

\* touch_calibration_create_calibrator: a second one is a protocol error.
CreateCalibrator(d) ==
    /\ failed = NONE /\ ~cal.on /\ d \in touch_plugged
    /\ cal' = [NoCal EXCEPT !.on = TRUE, !.surface = TRUE, !.listening = TRUE, !.device = d,
                            !.output = TRUE]
    /\ UNCHANGED <<failed, touch_plugged, mode, matrix, saved, wanted, excused, split>> /\ UNCHANGED seatVars

\* touch_calibrator_surface_committed, for a surface of the output's size; another size
\* or no content is a protocol error, which leaves DestroyCalibrator.
SurfaceCommitted(fits) ==
    /\ failed = NONE /\ cal.listening
    /\ LET st == [TouchNow EXCEPT !.cal.listening = FALSE]
       IN  TouchBecome(IF fits THEN SetModeCalib([st EXCEPT !.cal.mapped = TRUE]) ELSE st)
    /\ UNCHANGED <<touch_plugged, wanted, excused, split>> /\ UNCHANGED seatVars

\* touch_calibrator_convert, past its protocol errors: it asserts the view.
Convert ==
    /\ failed = NONE /\ cal.on /\ cal.surface /\ cal.mapped /\ ~cal.cancelled
    /\ failed' = IF cal.view THEN NONE ELSE "view"
    /\ UNCHANGED <<touch_plugged, mode, cal, matrix, saved, wanted, excused, split>> /\ UNCHANGED seatVars

\* destroy_touch_calibrator.
DestroyCalibrator ==
    /\ failed = NONE /\ cal.on
    /\ LET s1 == SetModeNormal([TouchNow EXCEPT !.cal.on = FALSE])
           s2 == IF cal.surface THEN Unmap(s1) ELSE s1
       IN  TouchBecome([s2 EXCEPT !.cal = NoCal])
    /\ UNCHANGED <<touch_plugged, wanted, excused, split>> /\ UNCHANGED seatVars

\* touch_calibrator_cancel_calibration.
Cancel(st) ==
    LET s1 == [st EXCEPT !.cal.cancelled = TRUE]
    IN  IF s1.cal.surface THEN Unmap(s1) ELSE s1

\* touch_calibrator_output_destroyed.
TouchOutputDestroyed ==
    /\ failed = NONE /\ cal.on /\ cal.output /\ TouchBecome(Cancel([TouchNow EXCEPT !.cal.output = FALSE]))
    /\ UNCHANGED <<touch_plugged, wanted, excused, split>> /\ UNCHANGED seatVars

\* touch_calibrator_surface_destroyed.
CalibratorSurfaceDestroyed ==
    /\ failed = NONE /\ cal.on /\ cal.surface
    /\ TouchBecome([Unmap(TouchNow) EXCEPT !.cal.surface = FALSE, !.cal.mapped = FALSE])
    /\ UNCHANGED <<touch_plugged, wanted, excused, split>> /\ UNCHANGED seatVars

\* touch_calibration_save, when the frontend could store the matrix.
Save(d, x) ==
    /\ failed = NONE /\ d \in touch_plugged
    /\ IF cal.on /\ cal.mapped
       THEN saved' = [saved EXCEPT ![d] = x] /\ UNCHANGED matrix
       ELSE matrix' = [matrix EXCEPT ![d] = x] /\ UNCHANGED saved
    /\ wanted' = [wanted EXCEPT ![d] = x]
    /\ excused' = IF cal.on /\ cal.mapped /\ ~(cal.view /\ cal.device = d)
                  THEN excused \cup {d} ELSE excused \ {d}
    /\ UNCHANGED <<failed, touch_plugged, mode, cal, split>> /\ UNCHANGED seatVars
-----------------------------------------------------------------------------
\* weston_touch_device_destroy and weston_seat_release_touch; the backend has lifted
\* the device's touches. The calibrator's listener runs first. Nothing is left of the
\* device, and the next one has its own calibration.
TouchUnplug(d) ==
    /\ failed = NONE /\ d \in touch_plugged /\ \A f \in Down : points[f][1].dev # d
    /\ touch_plugged' = touch_plugged \ {d}
    /\ LET st == IF cal.on /\ cal.device = d THEN Cancel([TouchNow EXCEPT !.cal.device = NONE]) ELSE TouchNow
       IN  TouchBecome([st EXCEPT !.matrix[d] = Own, !.saved[d] = Own])
    /\ wanted' = [wanted EXCEPT ![d] = Own] /\ excused' = excused \ {d}
    /\ IF touch_plugged' = {} THEN TouchSetFocus(NONE) ELSE UNCHANGED focusVars
    /\ UNCHANGED <<points, reset, split>>

\* weston_touch_create_touch_device and weston_seat_init_touch.
TouchPlug(d) ==
         /\ failed = NONE /\ d \notin touch_plugged /\ touch_plugged' = touch_plugged \cup {d}
         /\ UNCHANGED <<failed, mode, cal, matrix, saved, wanted, excused, split>> /\ UNCHANGED seatVars

\* seat_get_touch.
GetTouch(t) ==
    /\ failed = NONE /\ t \notin free \cup touch_focused
    /\ IF touch_focus # NONE /\ TouchOwnerOf[t] = TouchOwnerOf[touch_focus]
       THEN touch_focused' = touch_focused \cup {t} /\ UNCHANGED free
       ELSE free' = free \cup {t} /\ UNCHANGED touch_focused
    /\ UNCHANGED <<touch_plugged, points, touch_focus, reset, wanted, excused, split>> /\ UNCHANGED calVars

\* destroy_touch_resource.
ReleaseTouch(t) ==
    /\ failed = NONE /\ t \in free \cup touch_focused /\ free' = free \ {t} /\ touch_focused' = touch_focused \ {t}
    /\ UNCHANGED <<touch_plugged, points, touch_focus, reset, wanted, excused, split>> /\ UNCHANGED calVars

\* touch_focus_resource_destroyed, touch_focus_view_destroyed: the focused surface goes;
\* its client may create another one.
TouchSurfaceDestroyed(s) ==
    /\ failed = NONE /\ touch_focus = s /\ TouchSetFocus(NONE)
    /\ UNCHANGED <<touch_plugged, points, reset, wanted, excused, split>> /\ UNCHANGED calVars

\* The supervisor starts the compositor again.
Restart ==
    /\ failed # NONE /\ failed' = NONE /\ touch_plugged' = TouchDevices /\ mode' = "NORMAL"
    /\ points' = [f \in Fingers |-> <<>>] /\ touch_focus' = NONE /\ free' = {} /\ touch_focused' = {}
    /\ reset' = FALSE /\ cal' = NoCal /\ matrix' = [d \in TouchDevices |-> Own] /\ saved' = matrix'
    /\ wanted' = matrix' /\ excused' = {} /\ split' = FALSE

TouchNext ==
    \/ \E f \in Fingers, d \in TouchDevices, v \in TouchSurfaces \cup {NONE}, ok \in BOOLEAN : TouchDown(f, d, v, ok)
    \/ \E f \in Fingers, ok \in BOOLEAN : TouchMotion(f, ok)
    \/ \E f \in Fingers : TouchUp(f)
    \/ TouchFrame
    \/ TouchCancel
    \/ \E d \in TouchDevices : CreateCalibrator(d)
    \/ \E fits \in BOOLEAN : SurfaceCommitted(fits)
    \/ DestroyCalibrator
    \/ TouchOutputDestroyed
    \/ CalibratorSurfaceDestroyed
    \/ \E d \in TouchDevices, x \in Matrices : Save(d, x)
    \/ Convert
    \/ \E d \in TouchDevices : TouchUnplug(d)
    \/ \E d \in TouchDevices : TouchPlug(d)
    \/ \E t \in Touches : GetTouch(t)
    \/ \E t \in Touches : ReleaseTouch(t)
    \/ \E s \in TouchSurfaces : TouchSurfaceDestroyed(s)
    \/ Restart

TouchSpec == TouchInit /\ [][TouchNext]_touchVars
-----------------------------------------------------------------------------
\* A touch that clients saw begin ends with clients and one a calibrator saw begin never
\* reaches a client; the resources that get the events are those of the focused client; a
\* device works with the calibration last saved for it except under the calibrator's
\* window, where it is raw, and the window is there only in calibration mode. The modes
\* change in the middle of touches, frames, unplugs and the death of the calibrator. Of
\* the assertions on the way two can fail, both because calibration mode waits for
\* touches to be lifted: a coordinate is converted before the window is there
\* (touch-calibration.c:316), or the surface goes in that time, which cancels nothing, and
\* the mode changes without it (touch-calibration.c:188). A calibration saved while the calibrator's surface is mapped, for a
\* device that is not under its window, is lost (touch-calibration.c:623).
TouchesWhole ==
    /\ failed # NONE =>
         /\ cal.on /\ ~cal.view /\ ~cal.cancelled
         /\ \/ failed = "surface" /\ ~cal.surface /\ mode = "CALIB"
            \/ failed = "view" /\ cal.surface /\ cal.mapped /\ mode = "PREP_CALIB"
    /\ failed = NONE =>
      /\ ~split
      /\ touch_focused = {t \in free \cup touch_focused : touch_focus # NONE /\ TouchOwnerOf[t] = TouchOwnerOf[touch_focus]}
      /\ cal.view => /\ mode = "CALIB" /\ cal.surface /\ cal.output /\ ~cal.cancelled
                     /\ cal.device \in touch_plugged
      /\ \A d \in touch_plugged \ excused :
           IF cal.view /\ cal.device = d THEN matrix[d] = Identity /\ saved[d] = wanted[d]
           ELSE matrix[d] = wanted[d]

-----------------------------------------------------------------------------
(* Tablets and their tools: the resources of clients, the focus of a tool, the  *)
(* tip, and the frames that libinput does not send and an idle callback makes   *)
(* up. Each step is one libinput event; several come before the loop is idle.   *)
(* Tools are pens or erasers, and some view lies under every position.          *)

CONSTANTS
    Tablets, Tools,
    Unique,     \* tools with a serial: tracked by the seat, others by their tablet
    Clients, TabletSurfaces, TabletOwnerOf

VARIABLES
    tablet_plugged,  \* tablets
    tool,       \* "none", "live" or "freed"
    home,       \* the tablet in whose list a tool that is not unique is
    near,       \* the tablet over which libinput has the tool
    current,    \* tool->current_tablet
    tip,        \* tool->tip_is_down
    bound,      \* clients with a tablet seat
    pads,       \* clients in a tablet's resource_list
    idlers, tablet_focused,  \* clients in a tool's resource_list, focus_resource_list
    tablet_focus,
    told,       \* what a client has been told of a tool
    queued,     \* tool->frame_time is set: an idle callback is queued
    stamp,      \* frame_time, 1 while it is not set
    open,       \* time stamps of events the client has had no frame for
    mixed       \* some frame held events of two stamps (history)

tabletVars == <<tablet_plugged, tool, home, near, current, tip, bound, pads, idlers, tablet_focused, tablet_focus, told,
                queued, stamp, open, mixed>>

Stamps == {1, 2}
Away == [in |-> FALSE, down |-> FALSE]

TabletTypeOK ==
    /\ tablet_plugged \subseteq Tablets /\ bound \subseteq Clients
    /\ tool \in [Tools -> {"none", "live", "freed"}]
    /\ \A x \in {home, near, current} : x \in [Tools -> Tablets \cup {NONE}]
    /\ tip \in [Tools -> BOOLEAN] /\ pads \in [Tablets -> SUBSET Clients]
    /\ idlers \in [Tools -> SUBSET Clients] /\ tablet_focused \in [Tools -> SUBSET Clients]
    /\ tablet_focus \in [Tools -> TabletSurfaces \cup {NONE}] /\ queued \subseteq Tools
    /\ told \in [Tools -> [Clients -> [in : BOOLEAN, down : BOOLEAN]]]
    /\ open \in [Tools -> [Clients -> SUBSET Stamps]]

TabletInit ==
    /\ tablet_plugged = {} /\ tool = [t \in Tools |-> "none"] /\ home = [t \in Tools |-> NONE]
    /\ near = home /\ current = home /\ tip = [t \in Tools |-> FALSE] /\ bound = {}
    /\ pads = [b \in Tablets |-> {}] /\ idlers = [t \in Tools |-> {}] /\ tablet_focused = idlers
    /\ tablet_focus = home /\ told = [t \in Tools |-> [c \in Clients |-> Away]]
    /\ queued = {} /\ stamp = [t \in Tools |-> 1]
    /\ open = [t \in Tools |-> [c \in Clients |-> {}]] /\ mixed = FALSE

\* What the events of one tool change.
TabletNow(t) == [idlers |-> idlers[t], focused |-> tablet_focused[t], focus |-> tablet_focus[t], told |-> told[t],
                 open |-> open[t], mixed |-> mixed, queued |-> t \in queued, stamp |-> stamp[t]]

TabletBecome(t, st) ==
    /\ idlers' = [idlers EXCEPT ![t] = st.idlers] /\ tablet_focused' = [tablet_focused EXCEPT ![t] = st.focused]
    /\ tablet_focus' = [tablet_focus EXCEPT ![t] = st.focus] /\ told' = [told EXCEPT ![t] = st.told]
    /\ open' = [open EXCEPT ![t] = st.open] /\ mixed' = st.mixed
    /\ queued' = (IF st.queued THEN queued \cup {t} ELSE queued \ {t})
    /\ stamp' = [stamp EXCEPT ![t] = st.stamp]
-----------------------------------------------------------------------------
\* An event to the focused resources, and the frame that ends a group of them.
Send(st, at) ==
    [st EXCEPT !.open = [c \in Clients |-> IF c \in st.focused THEN @[c] \cup {at} ELSE @[c]]]

Frame(st) ==
    [st EXCEPT !.open = [c \in Clients |-> IF c \in st.focused THEN {} ELSE @[c]],
               !.mixed = @ \/ \E c \in st.focused : Cardinality(st.open[c]) > 1]

TabletSetFocus(st, v, down) ==
    LET leave == st.focus # NONE /\ st.focused # {}
        s1 == IF ~leave THEN st
              ELSE Frame([st EXCEPT !.told = [c \in Clients |->
                                                 IF c \in st.focused THEN Away ELSE @[c]]])
        s2 == IF leave THEN [s1 EXCEPT !.idlers = @ \cup s1.focused, !.focused = {}] ELSE s1
        mine == IF v = NONE THEN {} ELSE s2.idlers \cap {TabletOwnerOf[v]}
    IN  IF mine # {}
        THEN [s2 EXCEPT !.idlers = @ \ mine, !.focused = mine, !.focus = v,
                        !.told = [c \in Clients |-> IF c \in mine THEN [in |-> TRUE, down |-> down]
                                                    ELSE @[c]]]
        ELSE [s2 EXCEPT !.focus = v]

\* weston_tablet_tool_send_motion; pressure, distance, tilt and buttons only send.
TabletMotion(st, v, down, at) ==
    Send(IF v # st.focus THEN TabletSetFocus(st, v, down) ELSE st, at)

\* notify_tablet_tool_down and notify_tablet_tool_up.
TipTo(st, down, at) ==
    Send([st EXCEPT !.told = [c \in Clients |-> IF c \in st.focused
                                                THEN [@[c] EXCEPT !.down = down] ELSE @[c]]], at)

\* async_notify_tablet_tool_frame.
AsyncFrame(st, at) ==
    IF st.queued /\ st.stamp = at THEN st
    ELSE [(IF st.queued THEN Frame(st) ELSE st) EXCEPT !.queued = TRUE, !.stamp = at]
-----------------------------------------------------------------------------
toolVars == <<idlers, tablet_focused, tablet_focus, told, open, mixed, queued, stamp>>
Lists(t) == IF t \in Unique THEN TRUE ELSE home[t] \in tablet_plugged

\* handle_tablet_proximity, in: the first time creates the tool and announces it.
ProximityIn(t, b, v, at) ==
    LET new == tool[t] # "live"
        st == IF new THEN [TabletNow(t) EXCEPT !.idlers = bound, !.focused = {}, !.focus = NONE,
                                               !.told = [c \in Clients |-> Away], !.queued = FALSE,
                                               !.open = [c \in Clients |-> {}]]
              ELSE TabletNow(t)
    IN  /\ b \in tablet_plugged /\ near[t] = NONE
        /\ new => t \notin queued
        /\ t \in Unique \/ new \/ home[t] = b
        /\ tool' = [tool EXCEPT ![t] = "live"] /\ near' = [near EXCEPT ![t] = b]
        /\ home' = IF new /\ t \notin Unique THEN [home EXCEPT ![t] = b] ELSE home
        /\ current' = [current EXCEPT ![t] = b]
        /\ TabletBecome(t, AsyncFrame(TabletMotion(st, v, FALSE, at), at))
        /\ UNCHANGED <<tablet_plugged, tip, bound, pads>>

\* handle_tablet_proximity, out; libinput lifts the tip first.
ProximityOut(t, at) ==
    /\ near[t] # NONE /\ ~tip[t] /\ near' = [near EXCEPT ![t] = NONE]
    /\ TabletBecome(t, AsyncFrame(TabletSetFocus(TabletNow(t), NONE, FALSE), at))
    /\ UNCHANGED <<tablet_plugged, tool, home, current, tip, bound, pads>>

\* handle_tablet_axis, handle_tablet_button.
Axis(t, v, at) ==
    /\ near[t] # NONE
    /\ TabletBecome(t, AsyncFrame(TabletMotion(TabletNow(t), v, tip[t], at), at))
    /\ UNCHANGED <<tablet_plugged, tool, home, near, current, tip, bound, pads>>

\* handle_tablet_tip: the position first, then the tip.
Tip(t, v, at) ==
    /\ near[t] # NONE /\ tip' = [tip EXCEPT ![t] = ~tip[t]]
    /\ TabletBecome(t, AsyncFrame(TipTo(TabletMotion(TabletNow(t), v, tip[t], at), ~tip[t], at), at))
    /\ UNCHANGED <<tablet_plugged, tool, home, near, current, bound, pads>>

\* idle_notify_tablet_tool_frame.
Idle(t) ==
    /\ t \in queued
    /\ TabletBecome(t, [(IF tool[t] = "live" THEN Frame(TabletNow(t)) ELSE TabletNow(t))
                       EXCEPT !.queued = FALSE, !.stamp = 1])
    /\ UNCHANGED <<tablet_plugged, tool, home, near, current, tip, bound, pads>>

\* evdev_device_init_tablet, notify_tablet_added.
TabletPlug(b) ==
          /\ b \notin tablet_plugged /\ tablet_plugged' = tablet_plugged \cup {b} /\ pads' = [pads EXCEPT ![b] = bound]
          /\ UNCHANGED <<tool, home, near, current, tip, bound>> /\ UNCHANGED toolVars

\* weston_tablet_destroy with weston_tablet_tool_destroy of the tools in its list;
\* libinput has sent them out of proximity.
TabletUnplug(b) ==
    LET local == {t \in Tools : tool[t] = "live" /\ home[t] = b}
    IN  /\ b \in tablet_plugged /\ \A t \in Tools : near[t] # b
        /\ tablet_plugged' = tablet_plugged \ {b} /\ pads' = [pads EXCEPT ![b] = {}]
        /\ tool' = [t \in Tools |-> IF t \in local THEN "freed" ELSE tool[t]]
        /\ idlers' = [t \in Tools |-> IF t \in local THEN {} ELSE idlers[t]]
        /\ tablet_focused' = [t \in Tools |-> IF t \in local THEN {} ELSE tablet_focused[t]]
        /\ tablet_focus' = [t \in Tools |-> IF t \in local THEN NONE ELSE tablet_focus[t]]
        /\ home' = [t \in Tools |-> IF t \in local THEN NONE ELSE home[t]]
        /\ UNCHANGED <<near, current, tip, bound, told, open, mixed, queued, stamp>>

\* tablet_manager_get_tablet_seat: every tablet and every tool is announced. The
\* tablet seat has no working destructor: it goes with its client.
GetTabletSeat(c) ==
    /\ c \notin bound /\ bound' = bound \cup {c}
    /\ pads' = [b \in Tablets |-> IF b \in tablet_plugged THEN pads[b] \cup {c} ELSE pads[b]]
    /\ idlers' = [t \in Tools |-> IF tool[t] = "live" /\ Lists(t) THEN idlers[t] \cup {c} ELSE idlers[t]]
    /\ UNCHANGED <<tablet_plugged, tool, home, near, current, tip, tablet_focused, tablet_focus, told, queued, stamp,
                   open, mixed>>

\* tablet_tool_focus_resource_destroyed, tablet_tool_focus_view_destroyed. The surface's
\* client may create another one.
TabletSurfaceDestroyed(t) ==
    /\ tablet_focus[t] # NONE /\ TabletBecome(t, TabletSetFocus(TabletNow(t), NONE, tip[t]))
    /\ UNCHANGED <<tablet_plugged, tool, home, near, current, tip, bound, pads>>

\* The client disconnects: its surfaces and resources go, in either order.
Disconnect(c) ==
    /\ c \in bound /\ bound' = bound \ {c} /\ pads' = [b \in Tablets |-> pads[b] \ {c}]
    /\ idlers' = [t \in Tools |-> idlers[t] \ {c}] /\ tablet_focused' = [t \in Tools |-> tablet_focused[t] \ {c}]
    /\ tablet_focus' = [t \in Tools |-> IF tablet_focus[t] # NONE /\ TabletOwnerOf[tablet_focus[t]] = c THEN NONE ELSE tablet_focus[t]]
    /\ told' = [t \in Tools |-> [told[t] EXCEPT ![c] = Away]]
    /\ open' = [t \in Tools |-> [open[t] EXCEPT ![c] = {}]]
    /\ UNCHANGED <<tablet_plugged, tool, home, near, current, tip, queued, stamp, mixed>>

TabletNext ==
    \/ \E t \in Tools, b \in Tablets, v \in TabletSurfaces, at \in Stamps : ProximityIn(t, b, v, at)
    \/ \E t \in Tools, at \in Stamps : ProximityOut(t, at)
    \/ \E t \in Tools, v \in TabletSurfaces, at \in Stamps : Axis(t, v, at)
    \/ \E t \in Tools, v \in TabletSurfaces, at \in Stamps : Tip(t, v, at)
    \/ \E t \in Tools : Idle(t)
    \/ \E b \in Tablets : TabletPlug(b)
    \/ \E b \in Tablets : TabletUnplug(b)
    \/ \E c \in Clients : GetTabletSeat(c)
    \/ \E t \in Tools : TabletSurfaceDestroyed(t)
    \/ \E c \in Clients : Disconnect(c)

TabletSpec == TabletInit /\ [][TabletNext]_tabletVars
-----------------------------------------------------------------------------
\* A client hears of a tool only between its proximity in and out, has been told that the
\* tip is down exactly while it is, and no event waits for a frame that is not coming;
\* the tablet named in proximity in is one the client knows and that is plugged. Focus,
\* tip, unplugging, late binding and the queued frame may meet in any order.
ToolHeardWhole ==
    /\ \A t \in Tools, c \in Clients :
         /\ told[t][c].in <=> c \in tablet_focused[t]
         /\ c \in tablet_focused[t] => /\ tool[t] = "live" /\ near[t] # NONE /\ tablet_focus[t] # NONE
                                       /\ TabletOwnerOf[tablet_focus[t]] = c /\ told[t][c].down = tip[t]
                                       /\ c \in pads[current[t]]
         /\ open[t][c] # {} => t \in queued
    /\ \A t \in Tools : near[t] # NONE => current[t] = near[t] /\ near[t] \in tablet_plugged

-----------------------------------------------------------------------------
(* libinput's devices and the seat they form: capabilities that come and go     *)
(* with devices, the output a device belongs to, one key, one button and the    *)
(* fingers as the seat counts them, and suspending the session.                 *)

CONSTANTS
    LibinputDevices,
    Caps,       \* what a device can do: "keyboard", "pointer", "touch"
    HeadOf,     \* the head udev names for a device, or NONE
    Heads, Outputs

VARIABLES
    hardware,   \* devices that are there
    known,      \* devices the compositor has an evdev_device for
    ptr,        \* those with EVDEV_SEAT_POINTER in seat_caps
    out,        \* device->output
    count,      \* the seat's device counts
    suspended, lit, carrier,    \* enabled outputs, and the one a connected head is on
    held,       \* devices on which the key, the button or a finger is down
    key, button, touches,       \* the seat's view: pressed, pressed, num_tp
    leaked      \* a touch began or ended while its device had no output (history)

deviceVars == <<hardware, known, ptr, out, count, suspended, lit, carrier, held, key, button, touches,
                leaked>>

Kinds == {"keyboard", "pointer", "touch"}
Can(x) == {d \in LibinputDevices : x \in Caps[d]}

DeviceTypeOK ==
    /\ known \subseteq hardware /\ hardware \subseteq LibinputDevices /\ ptr \subseteq known
    /\ out \in [LibinputDevices -> Outputs \cup {NONE}] /\ count \in [Kinds -> 0..Cardinality(LibinputDevices)]
    /\ lit \subseteq Outputs /\ carrier \in [Heads -> Outputs \cup {NONE}]
    /\ held \in [Kinds -> SUBSET LibinputDevices] /\ touches \in 0..Cardinality(LibinputDevices)
    /\ {suspended, key, button, leaked} \subseteq BOOLEAN

DeviceInit ==
    /\ hardware = {} /\ known = {} /\ ptr = {} /\ out = [d \in LibinputDevices |-> NONE]
    /\ count = [x \in Kinds |-> 0] /\ suspended = FALSE /\ lit = {}
    /\ carrier = [h \in Heads |-> NONE] /\ held = [x \in Kinds |-> {}]
    /\ key = FALSE /\ button = FALSE /\ touches = 0 /\ leaked = FALSE

screenVars == <<lit, carrier>>
inputVars == <<held, key, button, touches, leaked>>
-----------------------------------------------------------------------------
\* output_find_by_head_name, among the enabled outputs.
FindByHead(h, on, at) == IF at[h] \in on THEN at[h] ELSE NONE

OutputChanged(o, on, at) ==
    [d \in LibinputDevices |-> IF d \notin known THEN out[d]
                               ELSE IF HeadOf[d] # NONE THEN FindByHead(HeadOf[d], on, at)
                               ELSE IF out[d] = NONE THEN o ELSE out[d]]

\* notify_output_create.
OutputCreated(o, hs) ==
    /\ o \notin lit /\ \A h \in hs : carrier[h] = NONE
    /\ lit' = lit \cup {o} /\ carrier' = [h \in Heads |-> IF h \in hs THEN o ELSE carrier[h]]
    /\ out' = OutputChanged(o, lit', carrier')
    /\ UNCHANGED <<hardware, known, ptr, count, suspended>> /\ UNCHANGED inputVars

\* notify_output_heads_changed: a head joins or leaves the enabled output.
HeadsChanged(o, h) ==
    /\ o \in lit /\ carrier[h] \in {o, NONE}
    /\ carrier' = [carrier EXCEPT ![h] = IF @ = o THEN NONE ELSE o]
    /\ out' = OutputChanged(o, lit, carrier')
    /\ UNCHANGED <<hardware, known, ptr, count, suspended, lit>> /\ UNCHANGED inputVars

\* notify_output_destroy of each device on it.
DeviceOutputDestroyed(o) ==
    /\ o \in lit /\ lit' = lit \ {o}
    /\ carrier' = [h \in Heads |-> IF carrier[h] = o THEN NONE ELSE carrier[h]]
    /\ out' = [d \in LibinputDevices |-> IF out[d] = o THEN NONE ELSE out[d]]
    /\ UNCHANGED <<hardware, known, ptr, count, suspended>> /\ UNCHANGED inputVars
-----------------------------------------------------------------------------
\* evdev_device_create and device_added of every device in ds.
Added(ds) ==
    /\ known' = known \cup ds
    /\ count' = [x \in Kinds |-> count[x] + (IF x = "pointer" THEN 0 ELSE Cardinality(ds \cap Can(x)))]
    /\ \E first \in (IF lit = {} THEN {NONE} ELSE lit) :
         out' = [d \in LibinputDevices |-> IF d \notin ds THEN out[d]
                                           ELSE IF HeadOf[d] # NONE THEN FindByHead(HeadOf[d], lit, carrier)
                                           ELSE first]

\* evdev_device_destroy of every device in ds; libinput has released what was held on
\* them. The last touch device takes the touch state with it.
Removed(ds) ==
    LET left == [x \in Kinds |-> Cardinality(known \cap (IF x = "pointer" THEN ptr ELSE Can(x)) \cap ds)]
    IN  /\ \A x \in Kinds : held[x] \cap ds = {}
        /\ known' = known \ ds /\ ptr' = ptr \ ds
        /\ count' = [x \in Kinds |-> count[x] - left[x]]
        /\ out' = [d \in LibinputDevices |-> IF d \in ds THEN NONE ELSE out[d]]
        /\ touches' = IF left["touch"] > 0 /\ count'["touch"] = 0 THEN 0 ELSE touches
        /\ leaked' = (leaked /\ ~(left["touch"] > 0 /\ count'["touch"] = 0))

DevicePlug(d) ==
          /\ d \notin hardware /\ hardware' = hardware \cup {d}
          /\ IF suspended THEN UNCHANGED <<known, count, out>> ELSE Added({d})
          /\ UNCHANGED <<ptr, suspended>> /\ UNCHANGED screenVars /\ UNCHANGED inputVars

DeviceUnplug(d) ==
    /\ d \in hardware /\ hardware' = hardware \ {d}
    /\ Removed(known \cap {d})
    /\ UNCHANGED <<suspended, held, key, button>> /\ UNCHANGED screenVars

\* udev_input_disable: libinput_suspend removes every device.
Disable ==
    /\ ~suspended /\ suspended' = TRUE /\ Removed(known)
    /\ UNCHANGED <<hardware, held, key, button>> /\ UNCHANGED screenVars

\* udev_input_enable.
Enable ==
    /\ suspended /\ suspended' = FALSE /\ Added(hardware)
    /\ UNCHANGED <<hardware, ptr>> /\ UNCHANGED screenVars /\ UNCHANGED inputVars
-----------------------------------------------------------------------------
\* ensure_pointer_capability.
EnsurePointer(d) ==
    /\ ptr' = IF d \in Can("pointer") THEN ptr \cup {d} ELSE ptr
    /\ count' = [count EXCEPT !["pointer"] = IF d \in Can("pointer") \ ptr THEN @ + 1 ELSE @]

Toggled(x, d) == IF d \in held[x] THEN held[x] \ {d} ELSE held[x] \cup {d}

SeatWide(x, d) == Cardinality(Toggled(x, d)) = IF d \in held[x] THEN 0 ELSE 1

\* handle_keyboard_key.
Key(d) ==
    /\ d \in known \cap Can("keyboard") /\ held' = [held EXCEPT !["keyboard"] = Toggled("keyboard", d)]
    /\ key' = IF SeatWide("keyboard", d) THEN ~key ELSE key
    /\ UNCHANGED <<hardware, known, ptr, out, count, suspended, button, touches, leaked>>
    /\ UNCHANGED screenVars

\* handle_pointer_button.
Button(d) ==
    /\ d \in known \cap Can("pointer") /\ EnsurePointer(d)
    /\ held' = [held EXCEPT !["pointer"] = Toggled("pointer", d)]
    /\ button' = IF SeatWide("pointer", d) THEN ~button ELSE button
    /\ UNCHANGED <<hardware, known, out, suspended, key, touches, leaked>> /\ UNCHANGED screenVars

\* handle_pointer_motion, handle_pointer_motion_absolute and handle_pointer_axis.
DeviceMotion(d) ==
    /\ d \in known \cap Can("pointer") /\ EnsurePointer(d)
    /\ UNCHANGED <<hardware, known, out, suspended>> /\ UNCHANGED screenVars /\ UNCHANGED inputVars

\* handle_touch_down and handle_touch_up: ignored while the device has no output;
\* an up nobody waits for is dropped by notify_touch_normalized.
Touch(d) ==
    LET up == d \in held["touch"]
    IN  /\ d \in known \cap Can("touch") /\ held' = [held EXCEPT !["touch"] = Toggled("touch", d)]
        /\ touches' = IF out[d] = NONE THEN touches
                      ELSE IF ~up THEN touches + 1
                      ELSE IF touches = 0 THEN 0 ELSE touches - 1
        /\ leaked' = (leaked \/ out[d] = NONE)
        /\ touches' <= Cardinality(LibinputDevices)
        /\ UNCHANGED <<hardware, known, ptr, out, count, suspended, key, button>>
        /\ UNCHANGED screenVars

DeviceNext ==
    \/ \E o \in Outputs, hs \in SUBSET Heads : OutputCreated(o, hs)
    \/ \E o \in Outputs, h \in Heads : HeadsChanged(o, h)
    \/ \E o \in Outputs : DeviceOutputDestroyed(o)
    \/ \E d \in LibinputDevices : DevicePlug(d)
    \/ \E d \in LibinputDevices : DeviceUnplug(d)
    \/ Disable
    \/ Enable
    \/ \E d \in LibinputDevices : Key(d)
    \/ \E d \in LibinputDevices : Button(d)
    \/ \E d \in LibinputDevices : DeviceMotion(d)
    \/ \E d \in LibinputDevices : Touch(d)

DeviceSpec == DeviceInit /\ [][DeviceNext]_deviceVars
-----------------------------------------------------------------------------
\* The seat is the sum of its devices: it has a capability exactly as often as devices
\* that bring it, a key or button is pressed while some device holds it, a device named
\* after a head is on the output that carries it, and no device is on an output that is
\* gone; the touches are counted right as long as every touch had an output. Devices,
\* heads, outputs and the session come and go in any order, with keys held.
SeatIsItsDevices ==
    /\ \A x \in Kinds : count[x] = Cardinality(known \cap (IF x = "pointer" THEN ptr ELSE Can(x)))
    /\ key = (held["keyboard"] # {}) /\ button = (held["pointer"] # {})
    /\ ~leaked => touches = Cardinality(held["touch"])
    /\ \A d \in known : /\ out[d] \in lit \cup {NONE}
                        /\ HeadOf[d] # NONE => out[d] = FindByHead(HeadOf[d], lit, carrier)
    /\ suspended => known = {}
=============================================================================
