------------------------------ MODULE XdgShell -------------------------------
(***************************************************************************)
(* xdg-shell as libweston-desktop serves it: the configure sequence of a   *)
(* toplevel, and the stack of popups. Two parts that share no state here.  *)
(***************************************************************************)
EXTENDS Naturals, Sequences, SequencesExt

-----------------------------------------------------------------------------
(* An xdg_toplevel: the state the shell wants, the configure events that carry it, *)
(* the client's acks and commits that make it current. Maximized stands for the    *)
(* window states; a size is 0 (the client chooses), 1 or 2.                        *)

CONSTANTS MaxConfigures     \* configure events not yet acked

Sizes == {1, 2}
Wish == [max : BOOLEAN, size : {0} \cup Sizes]
Plain == [max |-> FALSE, size |-> 0]

VARIABLES
    xdg_role,       \* whether the surface has an xdg_toplevel object
    xdg_committed, configured, added,
    idle,           \* configure_idle
    configure_list, \* the states of the events sent and not acked
    pending, next,
    current,        \* maximized, of its state
    content, width, \* what the surface shows
    heard, asked,   \* of this xdg_toplevel: a configure was sent; the client committed
    again,          \* it is not the first of its xdg_surface
    raced,          \* the shell changed its mind between an ack and its commit
    xdg_dead        \* a NULL resource is used

xdgVars == <<xdg_role, xdg_committed, configured, added, idle, configure_list, pending, next,
             current, content, width, heard, asked, again, raced, xdg_dead>>

XdgTypeOK ==
    /\ pending \in Wish /\ next \in Wish
    /\ configure_list \in Seq(Wish) /\ width \in {0} \cup Sizes
    /\ {xdg_role, xdg_committed, configured, added, idle, content, current, heard, asked, again, raced, xdg_dead} \subseteq BOOLEAN

XdgFresh ==
    [role |-> FALSE, committed |-> FALSE, configured |-> FALSE, added |-> FALSE,
     idle |-> FALSE, configure_list |-> <<>>, pending |-> Plain, next |-> Plain,
     current |-> FALSE, content |-> FALSE, width |-> 0, heard |-> FALSE, asked |-> FALSE,
     again |-> FALSE, raced |-> FALSE, dead |-> FALSE]

XdgNow ==
       [role |-> xdg_role, committed |-> xdg_committed, configured |-> configured, added |-> added,
        idle |-> idle, configure_list |-> configure_list, pending |-> pending, next |-> next,
        current |-> current, content |-> content, width |-> width,
        heard |-> heard, asked |-> asked, again |-> again, raced |-> raced, dead |-> xdg_dead]

XdgBecome(st) ==
    /\ xdg_role' = st.role /\ xdg_committed' = st.committed /\ configured' = st.configured
    /\ added' = st.added /\ idle' = st.idle /\ configure_list' = st.configure_list
    /\ pending' = st.pending /\ next' = st.next /\ current' = st.current
    /\ content' = st.content /\ width' = st.width
    /\ heard' = st.heard /\ asked' = st.asked /\ again' = st.again
    /\ raced' = st.raced /\ xdg_dead' = st.dead

XdgInit ==
    /\ xdg_role = FALSE /\ xdg_committed = FALSE /\ configured = FALSE /\ added = FALSE
    /\ idle = FALSE /\ configure_list = <<>> /\ pending = Plain /\ next = Plain
    /\ current = FALSE /\ content = FALSE /\ width = 0
    /\ heard = FALSE /\ asked = FALSE /\ again = FALSE /\ raced = FALSE /\ xdg_dead = FALSE
-----------------------------------------------------------------------------
\* weston_desktop_xdg_toplevel_state_compare: is the wish what the client was last told?
Same(st) ==
    LET n == Len(st.configure_list)
        last == IF n = 0 THEN [max |-> st.current, size |-> st.width]
                ELSE st.configure_list[n]
    IN  /\ st.configured
        /\ st.pending.max = last.max
        /\ st.pending.size = last.size \/ st.pending.size = 0

\* weston_desktop_xdg_surface_schedule_configure.
Schedule_once(st) ==
    IF ~st.committed \/ st.configure_list # <<>> THEN st
    ELSE [st EXCEPT !.idle = ~Same(st), !.raced = @ \/ st.next.max # st.current]

Schedule(st) ==
    IF ~st.committed THEN st
    ELSE [st EXCEPT !.idle = ~Same(st),
                    !.raced = @ \/ (st.configure_list = <<>> /\ st.next.max # st.current)]

\* weston_desktop_xdg_toplevel_ensure_added.
EnsureAdded(st) == IF st.added THEN st ELSE [Schedule(st) EXCEPT !.added = TRUE]

\* weston_desktop_xdg_surface_protocol_get_toplevel.  A second one while the first lives,
\* which the code does not refuse, is left out.
GetToplevel ==
    /\ ~xdg_dead /\ ~xdg_role
    /\ XdgBecome([XdgNow EXCEPT !.role = TRUE, !.again = xdg_committed])

\* weston_desktop_xdg_toplevel_resource_destroy; the xdg_surface stays.
ToplevelDestroyed ==
    /\ ~xdg_dead /\ xdg_role
    /\ XdgBecome([XdgNow EXCEPT !.role = FALSE, !.content = FALSE, !.heard = FALSE,
                                !.asked = FALSE, !.again = FALSE])

\* weston_desktop_surface_destroy, weston_desktop_xdg_surface_destroy: the client's
\* surface, its xdg_surface or the client itself is gone.
SurfaceDestroyed == ~xdg_dead /\ XdgBecome(XdgFresh)

\* The requests of the client that the shell answers: set_maximized and the like.
Requests == ~xdg_dead /\ xdg_role /\ XdgBecome(EnsureAdded(XdgNow))

\* weston_desktop_xdg_toplevel_set_maximized and its siblings, called by the shell.
SetState(b) ==
    /\ ~xdg_dead /\ added
    /\ XdgBecome(Schedule([XdgNow EXCEPT !.pending.max = b]))

\* weston_desktop_xdg_toplevel_set_size.
SetSize(n) ==
    /\ ~xdg_dead /\ added
    /\ XdgBecome(Schedule([XdgNow EXCEPT !.pending.size = n]))

\* weston_desktop_xdg_toplevel_send_configure.
Configure(st) == [st EXCEPT !.heard = TRUE, !.configure_list = Append(@, st.pending)]

\* weston_desktop_xdg_surface_send_configure, from the idle source.
SendConfigure ==
    /\ ~xdg_dead /\ idle
    /\ IF ~xdg_role THEN XdgBecome([XdgNow EXCEPT !.idle = FALSE])
       ELSE /\ Len(configure_list) < MaxConfigures
            /\ XdgBecome([Configure(XdgNow) EXCEPT !.idle = FALSE])

\* weston_desktop_xdg_surface_protocol_ack_configure of the i-th event.
AckConfigure(i) ==
    /\ ~xdg_dead /\ xdg_role
    /\ XdgBecome([XdgNow EXCEPT !.configured = TRUE, !.next = configure_list[i],
                                !.configure_list = SubSeq(@, i + 1, Len(@))])

\* weston_desktop_xdg_toplevel_committed.
ToplevelCommitted(st, w, g) ==
    IF w = 0 THEN EnsureAdded(st)
    ELSE IF st.next.max /\ st.next.size # g THEN XdgFresh    \* invalid_surface_state
    ELSE [st EXCEPT !.current = st.next.max]

\* weston_desktop_xdg_surface_committed: the surface has content of width w, or none (0),
\* and a window geometry of size g. An error ends the client.
XdgCommit(w, g) ==
    /\ ~xdg_dead
    /\ LET shown == [XdgNow EXCEPT !.content = w # 0, !.width = w]
           first == IF xdg_committed THEN shown ELSE Schedule([shown EXCEPT !.committed = TRUE])
       IN  IF ~xdg_role THEN XdgBecome(shown)
           ELSE IF w # 0 /\ ~configured THEN XdgBecome(XdgFresh)  \* unconfigured_buffer
           ELSE XdgBecome(ToplevelCommitted([first EXCEPT !.asked = TRUE], w, g))

\* weston_desktop_surface_close: the shell asks the client to close.
Close ==
    /\ ~xdg_dead /\ added
    /\ XdgBecome(IF xdg_role THEN XdgNow ELSE [XdgFresh EXCEPT !.dead = TRUE])

XdgRestart == xdg_dead /\ XdgBecome(XdgFresh)

XdgNext ==
    \/ GetToplevel \/ ToplevelDestroyed \/ SurfaceDestroyed \/ Requests
    \/ \E b \in BOOLEAN : SetState(b)
    \/ \E n \in {0} \cup Sizes : SetSize(n) \/ \E g \in Sizes : XdgCommit(n, g)
    \/ SendConfigure \/ Close \/ XdgRestart
    \/ \E i \in DOMAIN configure_list : AckConfigure(i)

XdgSpec == XdgInit /\ [][XdgNext]_xdgVars
-----------------------------------------------------------------------------
\* Nothing is on its way: no idle source, no event unacked, no ack uncommitted.
Quiet == xdg_role /\ xdg_committed /\ ~idle /\ configure_list = <<>> /\ next.max = current /\ configured

\* When nothing is on its way the window's current state is the one the shell wants,
\* however sets, idles, acks and commits interleaved, with two exceptions: the shell
\* changed its mind between an ack and its commit, when the wish is compared with a state
\* that is about to go (xdg-shell.c:1873), and a toplevel that is not the first of its
\* xdg_surface, which counts as configured from the start. But for such a one an initial
\* commit is answered, or about to be. And the shell hears of a window once it is
\* committed to.
StateFollows ==
    /\ Quiet /\ ~raced /\ ~again /\ content => current = pending.max
    /\ asked /\ xdg_role /\ ~again => heard \/ idle
    /\ asked /\ xdg_role => added

-----------------------------------------------------------------------------
(* Popups of a window: the desktop surfaces and their views, kept in step along the *)
(* parent links, and the popup grab of a seat, a stack of popups on the keyboard's  *)
(* and the pointer's grab slot. One client; its window has one view.                *)

CONSTANTS Top, Popups       \* the window and the client's popups

Surfaces == {Top} \cup Popups
None == 0
Gone == 1       \* a pointer to freed memory
Devices == {"keyboard", "pointer"}

VARIABLES
    alive,      \* desktop surfaces
    parent,     \* surface->parent, of the desktop surface
    owner,      \* popup->parent, kept even when the parent is gone
    popup_committed,  \* popups with a first commit
    views,      \* surfaces that have a view
    list,       \* popup_grab.surfaces, the topmost first
    grabbing,   \* popup_grab.client is set
    grab,       \* the holder of each device's slot
    plugged,
    base,       \* popup_grab.grab_surface
    dying,      \* a protocol error was posted
    popup_dead  \* freed or doubly linked memory is used

popupVars == <<alive, parent, owner, popup_committed, views, list, grabbing, grab, plugged, base,
               dying, popup_dead>>

PopupTypeOK ==
    /\ alive \subseteq Surfaces /\ views \subseteq Surfaces /\ popup_committed \subseteq Popups
    /\ parent \in [Surfaces -> Surfaces \cup {None}]
    /\ owner \in [Surfaces -> Surfaces \cup {None, Gone}]
    /\ list \in Seq(Popups) /\ grabbing \in BOOLEAN /\ dying \in BOOLEAN
    /\ grab \in [Devices -> {"default", "popup", "other"}]
    /\ plugged \subseteq Devices /\ base \in Surfaces \cup {None}
    /\ popup_dead \in {"", "parent", "linked"}

PopupFresh ==
    [alive |-> {}, parent |-> [s \in Surfaces |-> None], owner |-> [s \in Surfaces |-> None],
     committed |-> {}, views |-> {}, list |-> <<>>, grabbing |-> FALSE,
     grab |-> [d \in Devices |-> "default"], plugged |-> Devices, base |-> None,
     dying |-> FALSE, dead |-> ""]

PopupNow ==
         [alive |-> alive, parent |-> parent, owner |-> owner, committed |-> popup_committed,
          views |-> views, list |-> list, grabbing |-> grabbing, grab |-> grab,
          plugged |-> plugged, base |-> base, dying |-> dying, dead |-> popup_dead]

PopupBecome(st) ==
    /\ alive' = st.alive /\ parent' = st.parent /\ owner' = st.owner
    /\ popup_committed' = st.committed /\ views' = st.views /\ list' = st.list
    /\ grabbing' = st.grabbing /\ grab' = st.grab /\ plugged' = st.plugged
    /\ base' = st.base /\ dying' = st.dying /\ popup_dead' = st.dead

PopupInit ==
    /\ alive = {} /\ parent = [s \in Surfaces |-> None] /\ owner = [s \in Surfaces |-> None]
    /\ popup_committed = {} /\ views = {} /\ list = <<>> /\ grabbing = FALSE
    /\ grab = [d \in Devices |-> "default"] /\ plugged = Devices /\ base = None
    /\ dying = FALSE /\ popup_dead = ""
-----------------------------------------------------------------------------
\* The surface and those hanging from it.
Subtree(st, s) ==
    LET grow[n \in Nat] ==
            IF n = 0 THEN {s}
            ELSE grow[n - 1] \cup {t \in Surfaces : st.parent[t] \in grow[n - 1]}
    IN  grow[2]

\* weston_desktop_view_destroy: the views of the children go with it.
DestroyView(st, s) == [st EXCEPT !.views = @ \ Subtree(st, s)]

\* weston_desktop_surface_create_desktop_view: and come with it.
CreateView(st, s) == [st EXCEPT !.views = @ \cup (Subtree(st, s) \cap st.alive)]

\* weston_desktop_surface_unset_relative_to.
UnsetRelativeTo(st, s) ==
    IF st.parent[s] = None THEN st
    ELSE DestroyView([st EXCEPT !.parent[s] = None], s)

\* weston_desktop_surface_set_relative_to: as many views as the parent has.
SetRelativeTo(st, s, p) ==
    IF st.parent[s] = p THEN st
    ELSE LET linked == [st EXCEPT !.parent[s] = p]
         IN  IF p \in st.views THEN CreateView(linked, s) ELSE DestroyView(linked, s)

\* weston_desktop_surface_popup_dismiss; the client hears popup_done.
Dismiss(st, s) == DestroyView(st, s)

GrabEnd(st) ==
    LET gone == FoldLeft(Dismiss, st, st.list)
        mine == {d \in st.plugged : st.grab[d] = "popup"}
    IN  [gone EXCEPT !.list = <<>>, !.grabbing = FALSE, !.base = None,
                     !.grab = [d \in Devices |-> IF d \in mine THEN "default" ELSE @[d]]]

\* weston_desktop_seat_popup_grab_start: slots another grab has taken are taken back. The
\* seat's link and listener are inserted anew for the keyboard's grab.
GrabStart(st, p) ==
    LET want == {d \in st.plugged : st.grab[d] # "popup"}
    IN  [st EXCEPT !.grabbing = TRUE,
                   !.grab = [d \in Devices |-> IF d \in want THEN "popup" ELSE @[d]],
                   !.base = IF "keyboard" \in want THEN p ELSE @,
                   !.dead = IF "keyboard" \in want /\ st.base # None THEN "linked" ELSE @]

\* weston_desktop_seat_popup_grab_remove_surface.
Ungrab(st, s) ==
    LET rest == [st EXCEPT !.list = SelectSeq(@, LAMBDA t : t # s)]
    IN  IF rest.list = <<>> THEN GrabEnd(rest) ELSE rest

\* weston_desktop_xdg_popup_destroy: one not on top is the client's error.
PopupDestroy(st, s) ==
    IF ~Contains(st.list, s) THEN st
    ELSE Ungrab([st EXCEPT !.dying = @ \/ Head(st.list) # s], s)

\* weston_desktop_surface_destroy.
SurfaceDestroy(st, s) ==
    LET role == PopupDestroy(st, s)
        own == UnsetRelativeTo(role, s)
        kids == {t \in Surfaces : own.parent[t] = s}
        free == [own EXCEPT !.parent = [t \in Surfaces |-> IF t \in kids THEN None ELSE @[t]],
                            !.views = @ \ (Subtree(own, s) \cup {s}),
                            !.alive = @ \ {s}, !.committed = @ \ {s},
                            !.owner = [t \in Surfaces |-> IF t = s THEN None
                                       ELSE IF @[t] = s THEN Gone ELSE @[t]]]
    IN  IF st.base = s /\ own.base = s THEN GrabEnd(free) ELSE free
-----------------------------------------------------------------------------
Live == popup_dead = "" /\ ~dying

\* weston_desktop_xdg_toplevel_ensure_added, weston_desktop_surface_create_view: the window
\* of the client is known to the shell, which gives it a view.
MapTop ==
    /\ Live /\ Top \notin alive
    /\ PopupBecome(CreateView([PopupNow EXCEPT !.alive = @ \cup {Top}], Top))

\* weston_desktop_xdg_surface_protocol_get_popup.
GetPopup(s, p) ==
    /\ Live /\ s \notin alive /\ p \in alive
    /\ PopupBecome(SetRelativeTo([PopupNow EXCEPT !.alive = @ \cup {s}, !.owner[s] = p], s, p))

\* weston_desktop_xdg_popup_protocol_grab, weston_desktop_surface_popup_grab: with a serial
\* of the seat's own, or not.
Grab(s, own) ==
    /\ Live /\ s \in alive
    /\ IF s \in popup_committed \/ (list # <<>> /\ Head(list) # owner[s])
       THEN PopupBecome([PopupNow EXCEPT !.dying = TRUE])
       ELSE IF owner[s] = Gone THEN PopupBecome([PopupNow EXCEPT !.dead = "parent"])
       ELSE IF ~own \/ plugged = {} THEN PopupBecome(Dismiss(PopupNow, s))
       ELSE PopupBecome([GrabStart(PopupNow, owner[s]) EXCEPT !.list = <<s>> \o @])

\* weston_desktop_xdg_surface_committed, weston_desktop_xdg_popup_committed: its position
\* is computed anew from the parent.
PopupCommit(s) ==
    /\ Live /\ s \in alive
    /\ IF owner[s] = Gone THEN PopupBecome([PopupNow EXCEPT !.dead = "parent"])
       ELSE PopupBecome(SetRelativeTo([PopupNow EXCEPT !.committed = @ \cup {s}], s, owner[s]))

\* The surface, its xdg_surface or its xdg_popup is destroyed, in any order; so are all of
\* a client that goes away.
Destroy(s) ==
    /\ popup_dead = "" /\ s \in alive
    /\ PopupBecome(SurfaceDestroy(PopupNow, s))

ClientGone ==
    /\ dying /\ alive = {} /\ popup_dead = ""
    /\ PopupBecome([PopupNow EXCEPT !.dying = FALSE])

\* weston_desktop_seat_popup_grab_pointer_button: a click outside the client's surfaces.
\* weston_seat_break_desktop_grabs.
ClickOutside == popup_dead = "" /\ grab["pointer"] = "popup" /\ PopupBecome(GrabEnd(PopupNow))

\* Other grabs of the slots start over the popup's, and end to the default one.
OtherGrab(d) == popup_dead = "" /\ d \in plugged /\ PopupBecome([PopupNow EXCEPT !.grab[d] = "other"])
OtherEnds(d) == popup_dead = "" /\ grab[d] = "other" /\ PopupBecome([PopupNow EXCEPT !.grab[d] = "default"])

\* The cancel callback of the slot's holder, then the device is gone.
Unplug(d) ==
    /\ popup_dead = "" /\ d \in plugged
    /\ LET st == IF grab[d] = "popup" THEN GrabEnd(PopupNow) ELSE PopupNow
       IN  PopupBecome([st EXCEPT !.plugged = @ \ {d}, !.grab[d] = "default"])
Plug(d) == popup_dead = "" /\ d \notin plugged /\ PopupBecome([PopupNow EXCEPT !.plugged = @ \cup {d}])

PopupRestart == popup_dead # "" /\ PopupBecome(PopupFresh)

PopupNext ==
    \/ MapTop \/ ClientGone \/ ClickOutside \/ PopupRestart
    \/ \E s \in Popups : PopupCommit(s) \/ \E p \in Surfaces \ {s} : GetPopup(s, p)
    \/ \E s \in Popups, own \in BOOLEAN : Grab(s, own)
    \/ \E s \in Surfaces : Destroy(s)
    \/ \E d \in Devices : OtherGrab(d) \/ OtherEnds(d) \/ Unplug(d) \/ Plug(d)

PopupSpec == PopupInit /\ [][PopupNext]_popupVars
-----------------------------------------------------------------------------
\* The grab lasts exactly as long as it has popups, all of them live and stacked each on
\* its parent; a slot is the popup grab's only while it lasts; the surface that gets the
\* keyboard back is live; and a popup is in view only if its live parent is.
PopupsWhole ==
    /\ grabbing <=> list # <<>>
    /\ ToSet(list) \subseteq alive
    /\ ~dying => \A i \in 1..Len(list) - 1 : owner[list[i]] = list[i + 1]
    /\ (\E d \in Devices : grab[d] = "popup") => grabbing
    /\ grab["keyboard"] = "popup" => base # None
    /\ base # None => base \in alive /\ grabbing
    /\ views \subseteq alive
    /\ \A s \in Popups : s \in views => parent[s] \in views
    /\ \A s \in Popups : parent[s] # None => parent[s] \in alive /\ s \in alive
=============================================================================
