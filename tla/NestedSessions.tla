--------------------------- MODULE NestedSessions ----------------------------
(***************************************************************************)
(* Nested compositors: the outer side, which shows their windows as        *)
(* proxies (qdwin.c), and the inner side, which publishes them. Two parts  *)
(* that share no state here.                                               *)
(***************************************************************************)
EXTENDS Naturals, FiniteSets, Sequences, SequencesExt

-----------------------------------------------------------------------------
(* The outer side of a nested compositor: the toplevels it advertises, the    *)
(* proxy window qdwin makes for each, the shell's decision whether it may be  *)
(* shown, the pixels a consumer binds to it, and the routing of pointer and   *)
(* keyboard to the proxy under the pointer.                                   *)

CONSTANTS
    Pubs,       \* toplevels the nested compositor may advertise
    Cap,        \* QDWIN_NESTED_TOPLEVEL_CAP_PER_UID
    NONE

VARIABLES
    pub,        \* its resource: "none", "live", "doomed" (an error was posted)
    proxy,      \* NONE or the proxy toplevel of a resource
    focus,      \* the proxy whose view the pointer is on, or NONE
    active,     \* qdwin->active_input_proxy
    locked,
    shell,      \* "none", "old" or "gates" (version 8 or later)
    gate        \* the broker is required (QDWIN_NESTED_BROKER_OPTIONAL unset)

proxyVars == <<pub, proxy, focus, active, locked, shell, gate>>

Proxy == [pending : BOOLEAN,        \* nested_proxy_pending_decision
          view : {"curtain", "pixels", "none"},
          input : BOOLEAN,          \* the curtain's input region is not empty
          stash : BOOLEAN,          \* a surface is bound but not shown
          layer : {"held", "normal", "away"},
          away : BOOLEAN]           \* minimised or on another workspace

ProxyTypeOK ==
    /\ pub \in [Pubs -> {"none", "live", "doomed"}]
    /\ \A n \in Pubs : proxy[n] = NONE \/ proxy[n] \in Proxy
    /\ {focus, active} \subseteq Pubs \cup {NONE}
    /\ {locked, gate} \subseteq BOOLEAN /\ shell \in {"none", "old", "gates"}

ProxyInit ==
    /\ pub = [n \in Pubs |-> "none"]
    /\ proxy = [n \in Pubs |-> NONE]
    /\ focus = NONE /\ active = NONE
    /\ locked = FALSE
    /\ shell = "none"
    /\ gate \in BOOLEAN
-----------------------------------------------------------------------------
Exists(n) == proxy[n] # NONE

\* weston_compositor_pick_view: pixels have their own input region, a curtain
\* the one it was given; the layer does not matter.
Pickable(n) == Exists(n) /\ (proxy[n].view = "pixels" \/ (proxy[n].view = "curtain" /\ proxy[n].input))

\* The view the pointer was on is destroyed; the next repaint picks again.
ViewGone(n) == focus' = IF focus = n THEN NONE ELSE focus

\* A new curtain: with an input region and on the normal layer if the proxy was
\* approved, without and on the held one otherwise.  Making it may fail.
Recurtained(p, ok) ==
    IF ok THEN [p EXCEPT !.view = "curtain", !.input = ~p.pending,
                         !.layer = IF p.pending THEN "held" ELSE "normal"]
          ELSE [p EXCEPT !.view = "none"]

\* qdwin_nested_proxy_destroy.  Ending a popup or a drag of the proxy makes the
\* default grab pick again while the proxy's view still exists: the proxy itself
\* is passed over, any other may become active.
ProxyDestroyed(n, others) ==
    /\ proxy' = [proxy EXCEPT ![n] = NONE]
    /\ \/ /\ focus' = IF focus = n THEN NONE ELSE focus
          /\ active' = IF active = n THEN NONE ELSE active
       \/ /\ ~locked
          /\ focus' \in others \cup {NONE}
          /\ active' = focus'
Others(n) == {m \in Pubs \ {n} : Pickable(m)}
-----------------------------------------------------------------------------
(* The nested compositor.                                                     *)

ProxyCreate ==
    LET pending == shell = "gates" \/ gate
    IN  [pending |-> pending, view |-> "curtain", input |-> ~pending, stash |-> FALSE,
         layer |-> IF pending THEN "held" ELSE "normal", away |-> FALSE]

CountForUid == Cardinality({n \in Pubs : pub[n] # "none"})

\* Making the curtain may fail; the resource exists without a proxy then.
AdvertiseToplevel(n) ==
    /\ pub[n] = "none" /\ "doomed" \notin {pub[m] : m \in Pubs}
    /\ CountForUid < Cap
    /\ pub' = [pub EXCEPT ![n] = "live"]
    /\ \/ proxy' = [proxy EXCEPT ![n] = ProxyCreate]
       \/ UNCHANGED proxy
    /\ UNCHANGED <<focus, active, locked, shell, gate>>

\* At the cap the client is sent an error and loses everything it advertised.
AdvertiseOverCap ==
    /\ CountForUid >= Cap /\ "doomed" \notin {pub[m] : m \in Pubs}
    /\ pub' = [n \in Pubs |-> IF pub[n] = "live" THEN "doomed" ELSE pub[n]]
    /\ UNCHANGED <<proxy, focus, active, locked, shell, gate>>

\* Only a proxy that still has its curtain is resized.
SetGeometry(n, ok) ==
    /\ pub[n] = "live" /\ Exists(n) /\ proxy[n].view = "curtain"
    /\ proxy' = [proxy EXCEPT ![n] = Recurtained(@, ok)]
    /\ ViewGone(n)
    /\ UNCHANGED <<pub, active, locked, shell, gate>>

\* The resource goes, with or without its client.
ToplevelResourceDestroyed(n) ==
    /\ pub[n] # "none"
    /\ pub' = [pub EXCEPT ![n] = "none"]
    /\ IF Exists(n) THEN ProxyDestroyed(n, Others(n)) ELSE UNCHANGED <<proxy, focus, active>>
    /\ UNCHANGED <<locked, shell, gate>>
-----------------------------------------------------------------------------
(* The shell.                                                                 *)

BindAsShell(v) == shell = "none" /\ shell' = v /\ UNCHANGED <<pub, proxy, focus, active, locked, gate>>
ShellGone == shell # "none" /\ shell' = "none" /\ UNCHANGED <<pub, proxy, focus, active, locked, gate>>

\* qdwin_nested_proxy_activate_pixel_surface and qdwin_toplevel_release_holding:
\* a stashed surface replaces the curtain unless its view cannot be made; a
\* workspace switch meanwhile parks the proxy.
Allowed(p, ok, parked) ==
    LET q == IF p.stash /\ ok THEN [p EXCEPT !.view = "pixels", !.stash = FALSE]
             ELSE [p EXCEPT !.input = p.view = "curtain", !.stash = FALSE]
    IN  [q EXCEPT !.pending = FALSE, !.layer = IF parked THEN "away" ELSE "normal", !.away = parked]

DecisionAllow(n, ok, parked) ==
    /\ shell # "none" /\ Exists(n) /\ proxy[n].pending /\ proxy[n].view # "none"
    /\ proxy' = [proxy EXCEPT ![n] = Allowed(@, ok, parked)]
    /\ ViewGone(n)
    /\ UNCHANGED <<pub, active, locked, shell, gate>>

\* The error takes the nested client with it; the proxy goes at once.
DecisionDeny(n) ==
    /\ shell # "none" /\ Exists(n) /\ proxy[n].pending
    /\ pub' = [m \in Pubs |-> IF pub[m] = "live" THEN "doomed" ELSE pub[m]]
    /\ ProxyDestroyed(n, Others(n))
    /\ UNCHANGED <<locked, shell, gate>>

\* Minimise, restore and workspace switches; an undecided proxy refuses them.
Hide(n) ==
    /\ Exists(n) /\ ~proxy[n].pending /\ proxy[n].view # "none" /\ ~proxy[n].away
    /\ proxy' = [proxy EXCEPT ![n].away = TRUE, ![n].layer = "away"]
    /\ UNCHANGED <<pub, focus, active, locked, shell, gate>>
Unhide(n) ==
    /\ Exists(n) /\ proxy[n].away /\ proxy[n].view # "none"
    /\ proxy' = [proxy EXCEPT ![n].away = FALSE, ![n].layer = "normal"]
    /\ UNCHANGED <<pub, focus, active, locked, shell, gate>>
-----------------------------------------------------------------------------
(* The consumer that feeds a proxy its pixels.                                *)

BindProxyPixels(n, ok) ==
    /\ Exists(n)
    /\ IF proxy[n].pending
       THEN /\ proxy' = [proxy EXCEPT ![n].stash = TRUE]
            /\ UNCHANGED focus
       ELSE /\ proxy' = [proxy EXCEPT ![n] =
                  IF ok THEN [@ EXCEPT !.view = "pixels", !.layer = "normal"]
                        ELSE [@ EXCEPT !.view = IF @ = "pixels" THEN "none" ELSE @]]
            /\ ViewGone(n)
    /\ UNCHANGED <<pub, active, locked, shell, gate>>

PixelSurfaceDestroyed(n, ok) ==
    /\ Exists(n)
    /\ \/ /\ proxy[n].view = "pixels"
          /\ proxy' = [proxy EXCEPT ![n] = Recurtained(@, ok)]
          /\ ViewGone(n)
       \/ /\ proxy[n].stash
          /\ proxy' = [proxy EXCEPT ![n].stash = FALSE]
          /\ UNCHANGED focus
    /\ UNCHANGED <<pub, active, locked, shell, gate>>
-----------------------------------------------------------------------------
(* Input.                                                                     *)

\* The default grab, on motion and whenever libweston picks again: while locked
\* only the lock view has the pointer and the active proxy stays as it was.
DefaultGrabFocus ==
    /\ IF locked THEN focus' = NONE /\ UNCHANGED active
       ELSE /\ focus' \in {n \in Pubs : Pickable(n)} \cup {NONE}
            /\ active' = focus'
    /\ UNCHANGED <<pub, proxy, locked, shell, gate>>

\* A click on a visible window puts the pointer on it without tracking; chrome
\* and content of an undecided proxy are passed over.
DefaultGrabButton(n) ==
    /\ ~locked /\ Exists(n) /\ ~proxy[n].pending /\ proxy[n].view # "none"
    /\ focus' = n
    /\ UNCHANGED <<pub, proxy, active, locked, shell, gate>>

LockToggles == locked' = ~locked /\ UNCHANGED <<pub, proxy, focus, active, shell, gate>>

ProxyNext ==
    \/ \E n \in Pubs : \/ AdvertiseToplevel(n) \/ ToplevelResourceDestroyed(n)
                       \/ DecisionDeny(n) \/ Hide(n) \/ Unhide(n) \/ DefaultGrabButton(n)
                       \/ \E ok \in BOOLEAN : \/ SetGeometry(n, ok) \/ BindProxyPixels(n, ok)
                                              \/ PixelSurfaceDestroyed(n, ok)
                                              \/ \E parked \in BOOLEAN : DecisionAllow(n, ok, parked)
    \/ AdvertiseOverCap
    \/ \E v \in {"old", "gates"} : BindAsShell(v)
    \/ ShellGone \/ DefaultGrabFocus \/ LockToggles

ProxySpec == ProxyInit /\ [][ProxyNext]_proxyVars
-----------------------------------------------------------------------------
\* Until the shell has allowed it a proxy shows nothing of its client and gets
\* no input: its view is the curtain on the held layer with an empty input
\* region, whoever binds pixels or resizes it meanwhile, and neither the
\* pointer nor qdwin->active_input_proxy is ever on it; nor is either ever on a
\* proxy that was destroyed.
UndecidedIsInert ==
    /\ \A n \in Pubs : Exists(n) /\ proxy[n].pending =>
          /\ proxy[n].view # "pixels" /\ ~Pickable(n) /\ proxy[n].layer = "held"
          /\ focus # n /\ active # n
    /\ \A n \in {focus, active} \ {NONE} : Exists(n)

-----------------------------------------------------------------------------
(* The inner side of a nested compositor: publishing a toplevel to the outer  *)
(* qdwin, pinning it to a pipewire output, and the input sink, a stream       *)
(* socket on which the outer sends packets of input.                          *)

CONSTANTS
    Inner,      \* toplevels of the inner clients
    Pool,       \* pipewire outputs of the inner compositor
    Conns,      \* connections the outer may open to sinks, each used once
    RBuf,       \* sizeof rbuf, in units of four bytes
    MaxPackets \* packets sent on one connection

VARIABLES
    manager,    \* the outer manager: "ready", "failed" or "gone"
    window,     \* "none", "new" (not yet published), "published"
    pin,        \* nested_pw_output
    sink,       \* NONE or [peer, watch, rbuf]: nested_input_sink and the watch
    orphan,     \* windows with a sink nothing will close any more
    conn        \* [to, end, sent, wire, read] of a connection

publisherVars == <<manager, window, pin, sink, orphan, conn>>

Header == 2                     \* magic, version, type and length: eight bytes
Sizes == {Header, Header + 1}   \* a ping has no payload, a focus change one unit

\* A unit is the i-th of packet n of connection c.
Unit == Conns \X (1..MaxPackets) \X (1..Header + 1)

PublisherTypeOK ==
    /\ manager \in {"ready", "failed", "gone"}
    /\ window \in [Inner -> {"none", "new", "published"}]
    /\ pin \in [Inner -> Pool \cup {NONE}]
    /\ \A t \in Inner : sink[t] = NONE \/
          (/\ {sink[t].peer, sink[t].watch} \subseteq Conns \cup {NONE}
           /\ sink[t].rbuf \in Seq(Unit) /\ Len(sink[t].rbuf) <= RBuf)
    /\ orphan \subseteq Inner
    /\ \A c \in Conns :
          /\ conn[c].to \in Inner \cup {NONE}
          /\ conn[c].end \in {"none", "waiting", "left", "open", "closed"}
          /\ conn[c].sent \in Seq(Sizes) /\ conn[c].wire \in Seq(Unit)
          /\ conn[c].read \in Seq(Conns \X (1..MaxPackets))

Unused == [to |-> NONE, end |-> "none", sent |-> <<>>, wire |-> <<>>, read |-> <<>>]
Over == [Unused EXCEPT !.end = "closed"]    \* closed by both sides

PublisherInit ==
    /\ manager = "ready"
    /\ window = [t \in Inner |-> "none"]
    /\ pin = [t \in Inner |-> NONE]
    /\ sink = [t \in Inner |-> NONE]
    /\ orphan = {}
    /\ conn = [c \in Conns |-> Unused]
-----------------------------------------------------------------------------
(* The inner toplevel.                                                        *)

WindowAdded(t) ==
    /\ window[t] = "none"
    /\ window' = [window EXCEPT ![t] = "new"]
    /\ UNCHANGED <<manager, pin, sink, orphan, conn>>

\* The first pipewire output no toplevel is pinned to.
PickPwOutput == {o \in Pool : \A t \in Inner : pin[t] # o}

NewSink == [peer |-> NONE, watch |-> NONE, rbuf |-> <<>>]

\* The commit of a toplevel not yet published: pin, open the sink, advertise.
\* Each may fail; a sink whose toplevel could not be advertised is replaced, not
\* closed, at the next commit.
NestedPublishToplevel(t) ==
    /\ window[t] = "new" /\ manager = "ready"
    /\ IF PickPwOutput \cup ({pin[t]} \ {NONE}) = {} THEN pin' = pin
       ELSE \E o \in PickPwOutput : pin' = [pin EXCEPT ![t] = o]
    /\ orphan' = IF sink[t] # NONE THEN orphan \cup {t} ELSE orphan
    /\ \/ sink' = [sink EXCEPT ![t] = NewSink]
       \/ sink' = [sink EXCEPT ![t] = NONE]
    /\ \/ window' = [window EXCEPT ![t] = "published"]
       \/ UNCHANGED window
    /\ UNCHANGED <<manager, conn>>

\* What the kernel does to the connections of a sink that is closed: the outer
\* end reads an end of file.
Hangup(cs) == [c \in Conns |-> IF c \in cs THEN Over ELSE conn[c]]
At(t) == {c \in Conns : conn[c].to = t}

\* qdwin_surface_removed and qdwin_nested_unpublish_toplevel, which does nothing
\* for a toplevel that was never advertised.
WindowRemoved(t) ==
    /\ window[t] # "none"
    /\ window' = [window EXCEPT ![t] = "none"]
    /\ pin' = [pin EXCEPT ![t] = NONE]
    /\ sink' = [sink EXCEPT ![t] = NONE]
    /\ orphan' = IF window[t] = "new" /\ sink[t] # NONE THEN orphan \cup {t} ELSE orphan
    /\ conn' = Hangup(At(t))
    /\ UNCHANGED manager

\* The outer withdraws its global, or its connection fails.
OuterLost(s) ==
    /\ manager = "ready" /\ manager' = s
    /\ UNCHANGED <<window, pin, sink, orphan, conn>>
-----------------------------------------------------------------------------
(* The outer qdwin, another process: it connects to the sink it was told of   *)
(* and sends a packet as a header and, separately, a payload.                 *)

Connect(c, t) ==
    /\ window[t] = "published" /\ sink[t] # NONE /\ conn[c].end = "none"
    /\ conn' = [conn EXCEPT ![c].to = t, ![c].end = "waiting"]
    /\ UNCHANGED <<manager, window, pin, sink, orphan>>

HalfSent(c) ==
    /\ conn[c].sent # <<>> /\ Last(conn[c].sent) = Header + 1
    /\ Len(conn[c].wire) > 0 => Last(conn[c].wire)[3] = Header
    /\ Len(conn[c].wire) = 0 =>
          \E t \in Inner : sink[t] # NONE /\ sink[t].peer = c /\ sink[t].rbuf # <<>>
                           /\ Last(sink[t].rbuf)[3] = Header

Units(c, n, i, j) == [k \in 1..(j - i + 1) |-> <<c, n, i + k - 1>>]

SendHeader(c, size) ==
    /\ conn[c].end \in {"waiting", "open"} /\ ~HalfSent(c)
    /\ Len(conn[c].sent) < MaxPackets
    /\ conn' = [conn EXCEPT ![c].sent = Append(@, size),
                            ![c].wire = @ \o Units(c, Len(conn[c].sent) + 1, 1, Header)]
    /\ UNCHANGED <<manager, window, pin, sink, orphan>>

SendPayload(c) ==
    /\ conn[c].end \in {"waiting", "open"} /\ HalfSent(c)
    /\ conn' = [conn EXCEPT ![c].wire = @ \o Units(c, Len(conn[c].sent), Header + 1, Header + 1)]
    /\ UNCHANGED <<manager, window, pin, sink, orphan>>

OuterCloses(c) ==
    /\ conn[c].end \in {"waiting", "open"}
    /\ conn' = [conn EXCEPT ![c] = IF @.end = "open" THEN [@ EXCEPT !.end = "closed"]
                                   ELSE [Unused EXCEPT !.to = conn[c].to, !.end = "left"]]
    /\ UNCHANGED <<manager, window, pin, sink, orphan>>
-----------------------------------------------------------------------------
(* The callbacks of the inner event loop.                                     *)

\* qdwin_nested_input_sink_listen_cb: the old peer is unwatched, then replaced.
\* A watch that cannot be added costs the peer.
ListenCb(t, c) ==
    /\ sink[t] # NONE /\ conn[c].to = t /\ conn[c].end = "waiting"
    /\ \/ /\ sink' = [sink EXCEPT ![t] = [peer |-> c, watch |-> c, rbuf |-> <<>>]]
          /\ conn' = [Hangup({sink[t].peer} \ {NONE}) EXCEPT ![c].end = "open"]
       \/ /\ sink' = [sink EXCEPT ![t] = NewSink]
          /\ conn' = Hangup({sink[t].peer, c} \ {NONE})
    /\ UNCHANGED <<manager, window, pin, orphan>>

\* The peer that was waiting is gone when accept4 runs: the old peer is watched
\* again, or closed if that fails.
ListenCbNothing(t, c) ==
    /\ sink[t] # NONE /\ conn[c].to = t /\ conn[c].end = "left"
    /\ sink[t].peer # NONE
    /\ \/ UNCHANGED sink /\ conn' = Hangup({c})
       \/ /\ sink' = [sink EXCEPT ![t].peer = NONE, ![t].watch = NONE]
          /\ conn' = Hangup({c, sink[t].peer})
    /\ UNCHANGED <<manager, window, pin, orphan>>

\* A packet is whole once the units its header announces are there.
SizeOf(u) == conn[u[1]].sent[u[2]]
HasPacket(b) == Len(b) >= Header /\ b[1][3] = 1 /\ Len(b) >= SizeOf(b[1])

\* qdwin_nested_input_sink_read_one: take what fits, then one packet off the
\* front, if there is one; a front that is no header yields none.
Filled(s) ==
    LET room == RBuf - Len(s.rbuf)
        got  == IF Len(s.wire) < room THEN Len(s.wire) ELSE room
    IN  [s EXCEPT !.rbuf = @ \o SubSeq(s.wire, 1, got),
                  !.wire = SubSeq(@, got + 1, Len(@))]
Taken(s) ==
    LET b == s.rbuf
    IN  [s EXCEPT !.rbuf = SubSeq(b, SizeOf(b[1]) + 1, Len(b)),
                  !.read = Append(@, <<b[1][1], b[1][2]>>)]

\* The loop of the callback, until there is no packet.
Drained[s \in [rbuf : Seq(Unit), wire : Seq(Unit), read : Seq(Conns \X (1..MaxPackets))]] ==
    LET f == Filled(s) IN IF HasPacket(f.rbuf) THEN Drained[Taken(f)] ELSE f

ReadOne(s) == LET f == Filled(s) IN IF HasPacket(f.rbuf) THEN Taken(f) ELSE f

PeerReadable_one_packet(t) ==
    /\ sink[t] # NONE /\ sink[t].watch # NONE
    /\ LET c == sink[t].watch
           d == ReadOne([rbuf |-> sink[t].rbuf, wire |-> conn[c].wire, read |-> conn[c].read])
       IN  /\ conn[c].end = "open" /\ conn[c].wire # <<>>
           /\ sink' = [sink EXCEPT ![t].rbuf = d.rbuf]
           /\ conn' = [conn EXCEPT ![c].wire = d.wire, ![c].read = d.read]
    /\ UNCHANGED <<manager, window, pin, orphan>>

\* qdwin_nested_input_sink_peer_cb on bytes.
PeerReadable(t) ==
    /\ sink[t] # NONE /\ sink[t].watch # NONE
    /\ LET c == sink[t].watch
           d == Drained[[rbuf |-> sink[t].rbuf, wire |-> conn[c].wire, read |-> conn[c].read]]
       IN  /\ conn[c].end = "open" /\ conn[c].wire # <<>>
           /\ sink' = [sink EXCEPT ![t].rbuf = d.rbuf]
           /\ conn' = [conn EXCEPT ![c].wire = d.wire, ![c].read = d.read]
    /\ UNCHANGED <<manager, window, pin, orphan>>

\* The same callback on a hang-up: what is still in the socket is not read.
PeerHangup(t) ==
    /\ sink[t] # NONE /\ sink[t].watch # NONE /\ conn[sink[t].watch].end = "closed"
    /\ sink' = [sink EXCEPT ![t].peer = NONE, ![t].watch = NONE]
    /\ conn' = Hangup({sink[t].watch})
    /\ UNCHANGED <<manager, window, pin, orphan>>

PublisherNext ==
    \/ \E t \in Inner :
          \/ WindowAdded(t) \/ NestedPublishToplevel(t) \/ WindowRemoved(t)
          \/ PeerReadable(t) \/ PeerHangup(t)
          \/ \E c \in Conns : Connect(c, t) \/ ListenCb(t, c) \/ ListenCbNothing(t, c)
    \/ \E c \in Conns : SendPayload(c) \/ OuterCloses(c)
    \/ \E c \in Conns, size \in Sizes : SendHeader(c, size)
    \/ \E s \in {"failed", "gone"} : OuterLost(s)

PublisherSpec == PublisherInit /\ [][PublisherNext]_publisherVars
-----------------------------------------------------------------------------
\* The sink dispatches the packets of a connection exactly once and in the order
\* the outer sent them, never a byte of an earlier peer; and when it has read
\* all there is, no whole packet stays behind in its buffer, where no event
\* would ever come for it (read_one, the drain loop and accept).
InputInOrder ==
    \A t \in Inner, c \in Conns : sink[t] # NONE /\ sink[t].peer = c =>
        /\ conn[c].read = [n \in 1..Len(conn[c].read) |-> <<c, n>>]
        /\ conn[c].wire = <<>> => ~HasPacket(sink[t].rbuf)
        /\ sink[t].rbuf # <<>> => sink[t].rbuf[1][3] = 1
        /\ sink[t].watch = c
=============================================================================
