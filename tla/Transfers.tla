------------------------------ MODULE Transfers ------------------------------
(***************************************************************************)
(* The other transfers between clients: the primary selection (qdwin.c)    *)
(* and drag and drop (data-device.c). Two parts that share no state here.  *)
(***************************************************************************)
EXTENDS Naturals, FiniteSets, FiniteSetsExt

-----------------------------------------------------------------------------
(* The primary selection of each seat: sources, the devices that are told of  *)
(* the selection, the offers they are given, and receiving from an offer.     *)
(* A request with an older serial than the selection's is ignored, which is   *)
(* the same as not making it.                                                 *)

CONSTANTS
    PrimaryClients, Silo,   \* the clients and the silo each belongs to
    Sources, SourceOwner,   \* data sources and their clients
    Seats, NONE

VARIABLES
    seat,       \* live seats
    current,    \* the source that owns the selection of a seat
    primary_source,  \* live sources
    bound,      \* source->pseat: the seat whose selection it is
    device,     \* devices: <<client, seat>>
    told,       \* the source whose offer a device heard last, or NONE
    offers,     \* [client, source] of the offers alive; source may be NONE
    dangling,   \* devices still linked into the list of a freed seat
    pasted      \* [from, to] of the last receive that was passed on

primaryVars == <<seat, current, primary_source, bound, device, told, offers, dangling, pasted>>

Devices == PrimaryClients \X Seats

PrimaryTypeOK ==
    /\ seat \subseteq Seats /\ primary_source \subseteq Sources
    /\ current \in [Seats -> Sources \cup {NONE}]
    /\ bound \in [Sources -> Seats \cup {NONE}]
    /\ device \subseteq Devices /\ dangling \subseteq Devices
    /\ told \in [Devices -> Sources \cup {NONE}]
    /\ offers \subseteq [client : PrimaryClients, source : Sources \cup {NONE}]
    /\ pasted = NONE \/ pasted \in [from : PrimaryClients, to : PrimaryClients]

PrimaryInit ==
    /\ seat = Seats /\ primary_source = {} /\ device = {} /\ dangling = {}
    /\ current = [s \in Seats |-> NONE]
    /\ bound = [x \in Sources |-> NONE]
    /\ told = [d \in Devices |-> NONE]
    /\ offers = {} /\ pasted = NONE
-----------------------------------------------------------------------------
On(s) == {d \in device : d[2] = s}

\* qdwin_primary_seat_clear_selection: the owner is let go, every device told.
PrimaryCleared(s) ==
    /\ current' = [current EXCEPT ![s] = NONE]
    /\ bound' = IF current[s] = NONE THEN bound ELSE [bound EXCEPT ![current[s]] = NONE]
    /\ told' = [d \in Devices |-> IF d \in On(s) THEN NONE ELSE told[d]]

PrimaryCreateSource(x) ==
    /\ x \notin primary_source /\ primary_source' = primary_source \cup {x}
    /\ UNCHANGED <<seat, current, bound, device, told, offers, dangling, pasted>>

PrimaryGetDevice(d) ==
    /\ d[2] \in seat /\ d \notin device \cup dangling
    /\ device' = device \cup {d}
    /\ told' = [told EXCEPT ![d] = current[d[2]]]
    /\ offers' = IF current[d[2]] = NONE THEN offers
                 ELSE offers \cup {[client |-> d[1], source |-> current[d[2]]]}
    /\ UNCHANGED <<seat, current, primary_source, bound, dangling, pasted>>

\* A source that is the selection of another seat is refused.
SetSelection(d, x) ==
    /\ d \in device /\ x \in primary_source /\ SourceOwner[x] = d[1]
    /\ bound[x] \in {NONE, d[2]}
    /\ LET s == d[2]
       IN  /\ current' = [current EXCEPT ![s] = x]
           /\ bound' = [y \in Sources |-> IF y = x THEN s ELSE IF y = current[s] THEN NONE ELSE bound[y]]
           /\ told' = [e \in Devices |-> IF e \in On(s) THEN x ELSE told[e]]
           /\ offers' = offers \cup {[client |-> e[1], source |-> x] : e \in On(s)}
    /\ UNCHANGED <<seat, primary_source, device, dangling, pasted>>

\* The client lets go, or the shell does: clear_selection, a focus change, the
\* loss of an output.
ClearSelection(s) ==
    /\ s \in seat /\ PrimaryCleared(s)
    /\ UNCHANGED <<seat, primary_source, device, offers, dangling, pasted>>

\* The source goes: the offers that point to it are made inert.
SourceDestroyed(x) ==
    /\ x \in primary_source /\ primary_source' = primary_source \ {x}
    /\ IF bound[x] # NONE THEN PrimaryCleared(bound[x]) ELSE UNCHANGED <<current, bound, told>>
    /\ offers' = {IF o.source = x THEN [o EXCEPT !.source = NONE] ELSE o : o \in offers}
    /\ UNCHANGED <<seat, device, dangling, pasted>>

OfferDestroyed(o) ==
    /\ o \in offers /\ offers' = offers \ {o}
    /\ UNCHANGED <<seat, current, primary_source, bound, device, told, dangling, pasted>>

\* Receiving is passed on within a silo; otherwise the descriptor is closed.
Receive(o) ==
    /\ o \in offers /\ o.source # NONE
    /\ Silo[SourceOwner[o.source]] = Silo[o.client]
    /\ pasted' = [from |-> SourceOwner[o.source], to |-> o.client]
    /\ UNCHANGED <<seat, current, primary_source, bound, device, told, offers, dangling>>

DeviceDestroyed(d) ==
    /\ d \in device \cup dangling
    /\ device' = device \ {d} /\ dangling' = dangling \ {d}
    /\ told' = [told EXCEPT ![d] = NONE]
    /\ UNCHANGED <<seat, current, primary_source, bound, offers, pasted>>

\* The seat goes: its devices lose their seat but stay linked in its list.
SeatDestroyed(s) ==
    /\ s \in seat /\ seat' = seat \ {s}
    /\ PrimaryCleared(s)
    /\ device' = device \ On(s) /\ dangling' = dangling \cup On(s)
    /\ UNCHANGED <<primary_source, offers, pasted>>

PrimaryNext ==
    \/ \E x \in Sources : PrimaryCreateSource(x) \/ SourceDestroyed(x)
    \/ \E d \in Devices : PrimaryGetDevice(d) \/ DeviceDestroyed(d) \/ \E x \in Sources : SetSelection(d, x)
    \/ \E s \in Seats : ClearSelection(s) \/ SeatDestroyed(s)
    \/ \E o \in offers : OfferDestroyed(o) \/ Receive(o)

PrimarySpec == PrimaryInit /\ [][PrimaryNext]_primaryVars
-----------------------------------------------------------------------------
\* Whatever order sources, offers, devices and seats go in: no offer leads to a
\* freed source, a source knows the one seat it is the selection of, every
\* device last heard of the selection its seat has now, and nothing crossed
\* from one silo to another (the clear_ and destroy handlers, receive).
PrimaryConsistent ==
    /\ \A o \in offers : o.source # NONE => o.source \in primary_source
    /\ \A s \in Seats : current[s] # NONE => current[s] \in primary_source /\ bound[current[s]] = s /\ s \in seat
    /\ \A x \in Sources : bound[x] # NONE => current[bound[x]] = x
    /\ \A d \in device : told[d] = current[d[2]]
    /\ pasted # NONE => Silo[pasted.from] = Silo[pasted.to]

-----------------------------------------------------------------------------
(* A drag: the grab that a client's start_drag installs, the data device that is       *)
(* entered under it, the offers made of the source, the action both sides agree on,    *)
(* and drop, finish and cancel. The seat has a keyboard. A request that draws a        *)
(* protocol error changes nothing; its client's objects are destroyed like anyone's.   *)
(* Bounds: a source is dragged once (a second start_drag of it, or one with the serial *)
(* of the same touch, is not modelled), only another client is a target of a pointer's *)
(* drag, and while a second button prolongs a drag no device or surface goes. A source *)
(* that is also the selection is not modelled.                                         *)

CONSTANTS
    DragClients, Owner,  \* the clients, and the one that drags
    Offers,           \* wl_data_offer objects
    Masks,            \* sets of actions a target may allow; the source allows them all
    NoOne, Gone       \* no pointer; a pointer to a destroyed view

Copy == 1
Move == 2
Ask  == 4

VARIABLES
    new,         \* clients that bound version 3 of the protocol
    src,         \* the data source
    off,         \* the offers: who holds it, what they allow, what they were told
    drag,        \* struct weston_drag and the grab it is in
    has, up,     \* clients with a data device, with a mapped surface
    icon,        \* the icon's surface: without and with the drag's commit handler, shown, gone
    held,        \* buttons down in a drag: its own ("grab") and another; a touch is "grab"
    ent,         \* the clients told enter and not yet leave
    heard,       \* what was told of the end of the drag: drop to the target, finished and
                 \* what came after it to the source; "touch" if it was a touch's
    second,      \* another button was down when the drag's was released
    fault        \* what was used although it is NULL or freed, or NoOne

wholeVars == <<new, src, off, drag, has, up, icon, held, ent, heard, second>>
dragVars == <<wholeVars, fault>>

Faults == {"view", "source", "offer", "interface", "other drag"}

NoSource == [live |-> FALSE, used |-> FALSE, set |-> FALSE, acts |-> {}, action |-> 0, comp |-> 0, told |-> 0,
             seat |-> FALSE, accepted |-> FALSE, offer |-> NoOne]
NoOffer  == [to |-> NoOne, src |-> FALSE, acts |-> {}, pref |-> 0, ask |-> FALSE, told |-> 0]
NoDrag   == [on |-> FALSE, kind |-> "pointer", focus |-> NoOne, dev |-> NoOne, icon |-> FALSE]

DragTypeOK ==
    /\ new \subseteq DragClients /\ has \subseteq DragClients /\ up \subseteq DragClients /\ ent \subseteq DragClients
    /\ src \in [live : BOOLEAN, used : BOOLEAN, set : BOOLEAN, acts : {{}, UNION Masks}, action : {0, Copy, Move, Ask},
                comp : {0, Copy, Move}, told : {0, Copy, Move, Ask},
                seat : BOOLEAN, accepted : BOOLEAN, offer : Offers \cup {NoOne}]
    /\ off \in [Offers -> [to : DragClients \cup {NoOne}, src : BOOLEAN, acts : Masks \cup {{}},
                           pref : {0, Copy, Move, Ask}, ask : BOOLEAN, told : {0, Copy, Move, Ask}]]
    /\ drag \in [on : BOOLEAN, kind : {"pointer", "touch"}, focus : DragClients \cup {NoOne, Gone},
                 dev : DragClients \cup {NoOne}, icon : BOOLEAN]
    /\ icon \in {"plain", "handled", "shown", "gone"}
    /\ held \subseteq {"grab", "other"} /\ heard \subseteq {"drop", "finished", "late", "touch"}
    /\ second \in BOOLEAN /\ fault \in Faults \cup {NoOne}

DragInit ==
    /\ new \in {DragClients, {Owner}, DragClients \ {Owner}}
    /\ src = NoSource /\ off = [o \in Offers |-> NoOffer] /\ drag = NoDrag
    /\ has = DragClients /\ up = DragClients /\ ent = {} /\ held = {} /\ heard = {}
    /\ icon = "plain"
    /\ second = FALSE /\ fault = NoOne
-----------------------------------------------------------------------------
\* data_offer_choose_action.
Choose(s, o) ==
    LET theirs == IF o.to \in new THEN o.acts ELSE {Copy}
        pref == IF o.to \in new THEN o.pref ELSE 0
        both == theirs \cap (IF Owner \in new THEN s.acts ELSE {Copy})
    IN CASE both = {} -> 0
         [] s.seat /\ s.comp \in both -> s.comp
         [] ~(s.seat /\ s.comp \in both) /\ pref \in both -> pref
         [] OTHER -> Min(both)

\* data_offer_update_action: st has the source and the offers.
UpdateAction_quietly(st, o) ==
    IF st.off[o].src THEN [st EXCEPT !.src.action = Choose(st.src, st.off[o])] ELSE st

UpdateAction(st, o) ==
    LET a == Choose(st.src, st.off[o])
        tell == ~st.off[o].ask
    IN IF ~st.off[o].src \/ st.src.action = a THEN st
       ELSE [src |-> [st.src EXCEPT !.action = a, !.told = IF tell /\ Owner \in new THEN a ELSE @],
             off |-> [st.off EXCEPT ![o].told = IF tell /\ st.off[o].to \in new THEN a ELSE @]]

Set(st) == src' = st.src /\ off' = st.off

\* weston_drag_clear_focus, as what becomes of the drag.
DragCleared(d) == IF d.dev # NoOne THEN [d EXCEPT !.dev = NoOne, !.focus = NoOne] ELSE d

\* An offer without its source: what it allowed and was told matters no more.
Orphan(o) == [NoOffer EXCEPT !.to = o.to]

\* weston_drag_set_focus takes the offer away from whom the pointer left ...
Detached(st) ==
    IF st.src.offer = NoOne THEN st
    ELSE [src |-> [st.src EXCEPT !.offer = NoOne], off |-> [st.off EXCEPT ![st.src.offer] = Orphan(@)]]

\* ... and weston_data_source_send_offer makes the next one.
Offered(st, o, c) ==
    UpdateAction([src |-> [st.src EXCEPT !.accepted = FALSE, !.offer = o],
                  off |-> [st.off EXCEPT ![o] = [NoOffer EXCEPT !.to = c, !.src = TRUE]]], o)

Free == {o \in Offers : off[o].to = NoOne}

\* Nothing is known after a fault: the drag stays as it was.
Fails(what) == fault' = what /\ UNCHANGED wholeVars

\* drag_grab_focus_internal for the drag d over the surface of v, or over nothing; a
\* surface is compared with that of the last focus.
Refocus(d, st, v) ==
    /\ has # {} => Free # {}
    /\ d.focus = Gone => v = NoOne
    /\ IF d.focus = v \/ v = NoOne
       THEN /\ drag' = (IF d.focus = v THEN d ELSE DragCleared(d)) /\ ent' = (IF d.focus = v THEN ent ELSE {})
            /\ Set(st)
       ELSE LET found == v \in has
                o == CHOOSE x \in Free : TRUE
                was == DragCleared(d)
            IN /\ drag' = IF found THEN [was EXCEPT !.focus = v, !.dev = v] ELSE was
               /\ ent' = IF found THEN {v} ELSE {}
               /\ Set(IF found THEN Offered(Detached(st), o, v) ELSE Detached(st))
    /\ UNCHANGED fault
-----------------------------------------------------------------------------
\* create_data_source and data_source_set_actions.
DragCreateSource ==
    /\ ~src.live /\ src' = [NoSource EXCEPT !.live = TRUE] /\ heard' = {}
    /\ UNCHANGED <<new, off, drag, has, up, icon, held, ent, second, fault>>

SourceSetActions(mask) ==
    /\ src.live /\ Owner \in new /\ ~src.set /\ ~src.seat
    /\ src' = [src EXCEPT !.acts = mask, !.set = TRUE]
    /\ UNCHANGED <<new, off, drag, has, up, icon, held, ent, heard, second, fault>>

\* data_device_end_drag_grab and the end of the grabs; buttons matter no more, and the
\* next drag finds a new icon, and devices and surfaces again.
EndDrag ==
    /\ drag' = NoDrag /\ ent' = {}
    /\ icon' = "plain" /\ held' = {} /\ has' = DragClients /\ up' = DragClients

\* destroy_data_source: offers forget it, and its drag ends.
DestroySource ==
    /\ src.live /\ src' = NoSource
    /\ off' = [o \in Offers |-> Orphan(off[o])]
    /\ IF drag.on THEN EndDrag ELSE UNCHANGED <<drag, ent, icon, held, has, up>>
    /\ UNCHANGED <<new, heard, second, fault>>

\* notify_button: another button is pressed during a drag.
Press ==
    /\ held = {"grab"} /\ drag.kind = "pointer" /\ held' = {"grab", "other"}
    /\ up = DragClients /\ has = DragClients /\ icon = "handled"  \* bound
    /\ UNCHANGED <<new, src, off, drag, has, up, icon, ent, heard, second, fault>>

\* data_device_start_drag; without a source it writes through NULL.
StartDrag(kind) ==
    LET d == [NoDrag EXCEPT !.on = TRUE, !.kind = kind, !.icon = (icon # "gone")]
    IN /\ ~drag.on /\ held' = {"grab"} /\ Owner \in has \cap up
       /\ src.live /\ ~src.used      \* bound
       /\ icon' = IF d.icon THEN "handled" ELSE icon
       /\ heard' = {kind} \ {"pointer"} /\ second' = FALSE
       /\ IF kind = "touch" THEN Refocus(d, [src |-> [src EXCEPT !.seat = TRUE, !.used = TRUE], off |-> off], Owner)
          ELSE drag' = d /\ src' = [src EXCEPT !.seat = TRUE, !.used = TRUE] /\ UNCHANGED <<off, ent, fault>>
       /\ UNCHANGED <<new, has, up>>

StartWithoutSource == ~drag.on /\ Owner \in has \cap up /\ Fails("source")

\* drag_grab_focus, drag_grab_motion and drag_grab_touch_motion.
Motion(v) ==
    /\ drag.on /\ v \in up \cup {NoOne} /\ Refocus(drag, [src |-> src, off |-> off], v)
    /\ UNCHANGED <<new, has, up, icon, held, heard, second>>

MotionFromGone == drag.on /\ drag.focus = Gone /\ up \ {Owner} # {} /\ Fails("view")

\* wl_data_source.cancelled; it comes late if the drag was finished.
Cancelled == IF Owner \in new /\ "finished" \in heard THEN heard \cup {"late"} ELSE heard

\* drag_grab_button.
Dropping == drag.dev # NoOne /\ src.accepted /\ src.action # 0

DropWithoutOffer ==
    drag.kind = "pointer" /\ "grab" \in held /\ Dropping /\ src.offer = NoOne /\ Fails("offer")

Release(b) ==
    LET drop == Dropping
        mine == b = "grab"
    IN /\ mine /\ drop => src.offer # NoOne
       /\ drag.kind = "pointer" /\ b \in held
       /\ second' = (second \/ (mine /\ held # {b}))
       /\ heard' = IF ~mine THEN heard ELSE IF drop THEN heard \cup {"drop"} ELSE Cancelled
       /\ src' = IF mine /\ drop THEN [src EXCEPT !.seat = FALSE] ELSE src
       /\ off' = IF mine /\ drop
                 THEN [off EXCEPT ![src.offer].ask = (src.action = Ask)] ELSE off
       /\ IF held = {b} THEN EndDrag ELSE held' = held \ {b} /\ UNCHANGED <<drag, ent, icon, has, up>>
       /\ UNCHANGED <<new, fault>>

\* drag_grab_touch_up of the finger that drags.
TouchUp ==
    /\ drag.on /\ drag.kind = "touch"
    /\ src' = [src EXCEPT !.seat = FALSE] /\ EndDrag
    /\ heard' = IF drag.dev # NoOne THEN heard \cup {"drop"} ELSE heard
    /\ UNCHANGED <<new, off, second, fault>>

\* drag_grab_cancel and drag_grab_touch_cancel: the device went, or the grab was broken.
Cancel ==
    /\ drag.on /\ EndDrag
    /\ UNCHANGED <<new, src, off, heard, second, fault>>

\* drag_grab_keyboard_modifiers of a pointer's drag.
Modifiers(action) ==
    LET st == [src |-> [src EXCEPT !.comp = action], off |-> off]
    IN /\ drag.on /\ drag.kind = "pointer"
       /\ Set(IF src.offer = NoOne THEN st ELSE UpdateAction(st, src.offer))
       /\ UNCHANGED <<new, drag, has, up, icon, held, ent, heard, second, fault>>

\* weston_touch_start_drag gives the keyboard's grab no interface: whatever the keyboard
\* does next calls through NULL.
KeyboardOfTouch == drag.on /\ drag.kind = "touch" /\ Fails("interface")

\* drag_grab_keyboard_cancel takes a pointer's drag for a touch's: the grab that it ends
\* is not the one installed.
KeyboardCancel == drag.on /\ drag.kind = "pointer" /\ Fails("other drag")
-----------------------------------------------------------------------------
Current(o) == off[o].src /\ src.offer = o

\* data_offer_accept.
Accept(o, yes) ==
    /\ Current(o) /\ src' = [src EXCEPT !.accepted = yes]
    /\ UNCHANGED <<new, off, drag, has, up, icon, held, ent, heard, second, fault>>

\* data_offer_set_actions.
OfferSetActions(o, mask, pref) ==
    /\ off[o].to \in new /\ off[o].src
    /\ Set(UpdateAction([src |-> src, off |-> [off EXCEPT ![o].acts = mask, ![o].pref = pref]], o))
    /\ UNCHANGED <<new, drag, has, up, icon, held, ent, heard, second, fault>>

\* data_source_notify_finish.
NotifyFinish(o) ==
    IF ~src.set THEN UNCHANGED <<src, heard>>
    ELSE /\ src' = [src EXCEPT !.offer = NoOne, !.told = IF off[o].ask /\ Owner \in new THEN src.action ELSE @]
         /\ heard' = IF Owner \in new THEN heard \cup {"finished"} ELSE heard

Finish(o) ==
    /\ off[o].to \in new /\ Current(o) /\ ~src.seat /\ src.accepted /\ src.action \notin {0, Ask}
    /\ NotifyFinish(o)
    /\ UNCHANGED <<new, off, drag, has, up, icon, held, ent, second, fault>>

\* destroy_data_offer.
DestroyOffer(o) ==
    /\ off[o].to # NoOne /\ off' = [off EXCEPT ![o] = NoOffer]
    /\ IF ~Current(o) THEN UNCHANGED <<src, heard>>
       ELSE /\ src' = [src EXCEPT !.offer = NoOne,
                                  !.told = IF off[o].to \notin new /\ src.set /\ off[o].ask THEN src.action ELSE @]
            /\ heard' = IF Owner \notin new THEN heard
                        ELSE IF off[o].to \in new THEN Cancelled
                        ELSE IF src.set THEN heard \cup {"finished"} ELSE heard
    /\ UNCHANGED <<new, drag, has, up, icon, held, ent, second, fault>>

\* unbind_data_device and destroy_drag_focus; get_data_device.
ReleaseDevice(c) ==
    /\ drag.on /\ c \in has /\ held = {"grab"} /\ has' = has \ {c} /\ ent' = ent \ {c}
    /\ drag' = IF drag.dev = c THEN [drag EXCEPT !.dev = NoOne] ELSE drag
    /\ UNCHANGED <<new, src, off, up, icon, held, heard, second, fault>>

DragGetDevice(c) ==
    /\ c \notin has /\ has' = has \cup {c}
    /\ UNCHANGED <<new, src, off, drag, up, icon, held, ent, heard, second, fault>>

\* The drag does not listen to its focus: a destroyed view stays in drag->focus.  The
\* pointer is picked again before the next event, and leaves the surface.
SurfaceGone(c) ==
    /\ drag.on /\ c \in up /\ held = {"grab"} /\ up' = up \ {c}
    /\ drag' = IF drag.focus = c THEN [drag EXCEPT !.focus = Gone] ELSE drag
    /\ UNCHANGED <<new, src, off, has, icon, held, ent, heard, second, fault>>

SurfaceBack(c) ==
    /\ c \notin up /\ up' = up \cup {c}
    /\ UNCHANGED <<new, src, off, drag, has, icon, held, ent, heard, second, fault>>

\* drag_surface_configure for the icon; handle_drag_icon_destroy.
IconCommit ==
    /\ icon = "handled" /\ icon' = "shown"
    /\ UNCHANGED <<new, src, off, drag, has, up, held, ent, heard, second, fault>>

IconDestroyed ==
    /\ icon # "gone" /\ drag.on /\ icon' = "gone"
    /\ drag' = [drag EXCEPT !.icon = FALSE]
    /\ UNCHANGED <<new, src, off, has, up, held, ent, heard, second, fault>>

\* The compositor starts again after it died.
Restart ==
    /\ fault # NoOne /\ fault' = NoOne /\ new' = new /\ second' = FALSE
    /\ src' = NoSource /\ off' = [o \in Offers |-> NoOffer] /\ drag' = NoDrag
    /\ has' = DragClients /\ up' = DragClients /\ ent' = {} /\ held' = {} /\ heard' = {}
    /\ icon' = "plain"

DragNext ==
    \/ /\ fault = NoOne
       /\ \/ DragCreateSource \/ DestroySource \/ SourceSetActions(UNION Masks)
          \/ Press \/ \E b \in {"grab", "other"} : Release(b)
          \/ \E kind \in {"pointer", "touch"} : StartDrag(kind)
          \/ StartWithoutSource \/ MotionFromGone \/ DropWithoutOffer \/ KeyboardOfTouch
          \/ \E v \in (DragClients \ {Owner}) \cup {NoOne} : Motion(v)
          \/ TouchUp \/ Cancel \/ KeyboardCancel \/ \E a \in {0, Move} : Modifiers(a)
          \/ \E o \in Offers : \/ \E yes \in BOOLEAN : Accept(o, yes)
                               \/ \E m \in Masks : \E p \in {0, Max(m)} : OfferSetActions(o, m, p)
                               \/ Finish(o) \/ DestroyOffer(o)
          \/ \E c \in DragClients \ {Owner} : ReleaseDevice(c) \/ DragGetDevice(c) \/ SurfaceGone(c) \/ SurfaceBack(c)
          \/ IconCommit \/ IconDestroyed
    \/ Restart

DragSpec == DragInit /\ [][DragNext]_dragVars
-----------------------------------------------------------------------------
\* A drag tells a whole story.  The one data device that was told enter and not leave is
\* the drag's focus, and none is after the drag.  A drag has its source and the icon its
\* handler.  While the source is dragged it and its only offer have been told the same
\* action, the one their masks, the keyboard and the preference give.  The source
\* hears of finish only after the target of the drop (but for a touch), and of no cancel
\* after it unless a second button prolonged the drag; not with a client of an older
\* version, for which a destroyed offer counts as finished.  This holds up to and in the
\* state in which a pointer that is NULL or freed is used, which the code can reach:
\*   - the drag's focus is a destroyed view and the pointer is over another surface
\*     (data-device.c:506);
\*   - the target destroyed the offer that it had accepted, and the drop writes through
\*     the offer (675); an offer that the pointer's leaving took away is never dropped;
\*   - anything happens on the keyboard of a touch's drag, whose grab has no interface
\*     (982), or the keyboard goes during a pointer's, whose cancel ends the touch's
\*     grab (869);
\*   - a drag is started without a source (1079).
DragsWhole ==
    /\ ent = {drag.dev} \ {NoOne}
    /\ drag.dev # NoOne => drag.focus \in {drag.dev, Gone}
    /\ drag.on => src.live
    /\ icon \in {"handled", "shown"} <=> (drag.on /\ drag.icon)
    /\ \A o \in Offers : src.offer = o => off[o].src
    /\ \A o \in Offers :
         (src.offer = o /\ src.seat /\ drag.dev = off[o].to /\ {p \in Offers : off[p].src} = {o}) =>
            /\ src.action = Choose(src, off[o])
            /\ Owner \in new => src.told = src.action
            /\ off[o].to \in new => off[o].told = src.action
    /\ new = DragClients => /\ "finished" \in heard => heard \cap {"drop", "touch"} # {}
                            /\ "late" \in heard => second
    /\ fault = "offer" => \A o \in Offers : off[o].to = drag.dev => ~off[o].src
=============================================================================
