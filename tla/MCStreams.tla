---------------------------- MODULE MCStreams ----------------------------
(* ViewStreams on a small instance, with the two ends of nested compositors  *)
(* and the debug log.  They share no state; a behaviour is about one.         *)
EXTENDS ViewStreams, TLC

CONSTANTS
    Pubs, Cap, Inner, Pool, Conns, RBuf, MaxPackets, Scopes, OneShot, LStreams, Rec,
    Size, Lengths, Stdio, Oldest, ABSENT
CONSTANTS
    ca, cb, lw1

\* Streams, windows, outputs and pids are interchangeable, and so are the windows
\* a nested compositor advertises and the connections to its sinks, which have the
\* names of the streams.
Interchangeable ==
    Permutations(Streams \cup Pubs \cup Conns) \cup Permutations(Toplevels) \cup Permutations(Desktop)
        \cup Permutations(Pipewire) \cup Permutations(Pids)

VARIABLES
    part,   \* the component this behaviour is about
    y1, y2, y3, y4, y5, y6, y7   \* its variables, when it is not the main one

N == INSTANCE NestedSessions WITH
        pub <- y1, proxy <- y2, focus <- y3, active <- y4, locked <- y5, shell <- y6,
        gate <- y7, manager <- y1, window <- y2, pin <- y3, sink <- y4, orphan <- y5,
        conn <- y6
L == INSTANCE DebugLog WITH
        Streams <- LStreams, scopes <- y1, subs <- y2, buf <- y3, pending <- y4,
        stream <- y5, ring <- y6, fed <- y7

mcvars == <<part,
          str, child, proc, conn, where, outputs, shell, locked, astray, stray, y1, y2,
          y3, y4, y5, y6, y7>>

MCInit ==
    \/ /\ part = "streams" /\ Init
       /\ y1 = ABSENT /\ y2 = ABSENT /\ y3 = ABSENT /\ y4 = ABSENT /\ y5 = ABSENT
       /\ y6 = ABSENT /\ y7 = ABSENT
    \/ /\ part = "proxy" /\ N!ProxyInit /\ Init
    \/ /\ part = "publisher" /\ N!PublisherInit /\ Init
       /\ y7 = ABSENT
    \/ /\ part = "log" /\ L!Init /\ Init

\* A step of one component leaves the others alone.
OnlyMain ==
    UNCHANGED <<part,
                y1, y2, y3, y4, y5, y6, y7>>
OnlyN ==
    UNCHANGED <<part,
                vars>>
OnlyP ==
    UNCHANGED <<part,
                vars, y7>>
OnlyL ==
    UNCHANGED <<part,
                vars>>

MCNext ==
    \/ part = "streams" /\ Next /\ OnlyMain
    \/ part = "proxy" /\ N!ProxyNext /\ OnlyN
    \/ part = "publisher" /\ N!PublisherNext /\ OnlyP
    \/ part = "log" /\ L!Next /\ OnlyL

MCSpec == MCInit /\ [][MCNext]_mcvars
-----------------------------------------------------------------------------

\* What leaves the compositor leaves it whole: an undecided nested window is inert,
\* nested input arrives in order and in one piece, and a log stream is told its
\* scopes' output or that it is over (qdwin.c, weston-log.c).
RemoteWhole ==
    /\ part = "proxy" =>
          N!ProxyTypeOK /\ N!UndecidedIsInert
    /\ part = "publisher" =>
          N!PublisherTypeOK /\ N!InputInOrder
    /\ part = "log" =>
          L!TypeOK /\ L!LogWhole
=============================================================================
