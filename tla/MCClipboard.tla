--------------------------- MODULE MCClipboard ---------------------------
(* ClipboardGate on a small instance, and the other two ways of handing data *)
(* from client to client.  They share no state; a behaviour is about one.     *)
EXTENDS ClipboardGate, TLC

CONSTANTS
    PClients, Silo, PSources, PSourceOwner, Seats, DClients, Owner, Offers, Masks,
    NoOne, Gone, ABSENT
CONSTANTS
    ca, cb, s1, s2, q1, q2, c1, c2, x1, x2, o1, o2

\* One source per client.
MCSourceOwner == [s \in Sources |-> IF s = s1 THEN ca ELSE cb]

\* A current shell and one older than the receive gate.
MCShellVersion == [q \in Shells |-> IF q = q1 THEN 16 ELSE 14]

\* Two clients in two silos, one source each.
MCPSilo == (c1 :> "a") @@ (c2 :> "b")
MCPSourceOwner == (x1 :> c1) @@ (x2 :> c2)

MCDMasks == {{1, 2}, {2, 4}}   \* with an action in common, and with ask

VARIABLES
    part,   \* the component this behaviour is about
    y1, y2, y3, y4, y5, y6, y7, y8, y9, y10, y11, y12   \* its variables, when it is not the main one

P == INSTANCE Transfers WITH
        PrimaryClients <- PClients, Sources <- PSources, SourceOwner <- PSourceOwner,
        seat <- y1, current <- y2, primary_source <- y3, bound <- y4, device <- y5,
        told <- y6, offers <- y7, dangling <- y8, pasted <- y9,
        DragClients <- DClients, new <- y1, src <- y2, off <- y3, drag <- y4,
        has <- y5, up <- y6, icon <- y7, held <- y8, ent <- y9, heard <- y10,
        second <- y11, fault <- y12

mcvars == <<part,
          selection, send, wraps, offer, req, focus, silo, alive, windows, shell,
          locked, y1, y2, y3, y4, y5, y6, y7, y8, y9, y10, y11, y12>>

MCInit ==
    \/ /\ part = "clipboard" /\ Init
       /\ y1 = ABSENT /\ y2 = ABSENT /\ y3 = ABSENT /\ y4 = ABSENT /\ y5 = ABSENT
       /\ y6 = ABSENT /\ y7 = ABSENT /\ y8 = ABSENT /\ y9 = ABSENT /\ y10 = ABSENT
       /\ y11 = ABSENT /\ y12 = ABSENT
    \/ /\ part = "primary" /\ P!PrimaryInit /\ Init
       /\ y10 = ABSENT /\ y11 = ABSENT /\ y12 = ABSENT
    \/ /\ part = "drag" /\ P!DragInit /\ Init

\* A step of one component leaves the others alone.
OnlyMain ==
    UNCHANGED <<part,
                y1, y2, y3, y4, y5, y6, y7, y8, y9, y10, y11, y12>>
OnlyP ==
    UNCHANGED <<part,
                vars, y10, y11, y12>>
OnlyD ==
    UNCHANGED <<part,
                vars>>

MCNext ==
    \/ part = "clipboard" /\ Next /\ OnlyMain
    \/ part = "primary" /\ P!PrimaryNext /\ OnlyP
    \/ part = "drag" /\ P!DragNext /\ OnlyD

MCSpec == MCInit /\ [][MCNext]_mcvars
        /\ TimerFairness
-----------------------------------------------------------------------------

\* A primary selection and a drag are whole: every device and offer agrees with the
\* selection and its silo, and the source and the target of a drag hear the same
\* story to its end, whoever goes first (qdwin.c, data-device.c).  A drag may end in the
\* use of a pointer that is NULL or freed, in the cases that DragsWhole lists.
TransfersWhole ==
    /\ part = "primary" =>
          P!PrimaryTypeOK /\ P!PrimaryConsistent
    /\ part = "drag" =>
          P!DragTypeOK /\ P!DragsWhole
=============================================================================
