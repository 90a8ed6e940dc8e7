------------------------ MODULE ClipboardGateProofs ------------------------
(***************************************************************************)
(* The receive gate for any clients, sources, requests and shells.  The    *)
(* four safety properties of the gate, taken together, are inductive: what *)
(* a request may be is Fine, what the seat's selection may be is Gated.    *)
(***************************************************************************)
EXTENDS ClipboardGate, TLAPS

\* The record the selection's operators work on.
SelType ==
    [selection : AllSources \cup {NONE},
     send : [AllSources -> {"gone", "orig", "shim"}],
     wraps : SUBSET AllSources,
     offer : [AllSources -> Clients \cup {NONE}]]

\* What holds of selection state w when the clients of A are connected, also half-way
\* through weston_seat_set_selection.
Wrapped(w, A) ==
    /\ w \in SelType
    /\ \A s \in AllSources : s \in w.wraps \/ w.offer[s] # NONE => w.send[s] = "shim"
    /\ \A s \in Sources : w.send[s] # "gone" => SourceOwner[s] \in A

\* What holds of it between two steps.
Gated(w, A) ==
    /\ Wrapped(w, A)
    /\ w.selection # NONE => w.send[w.selection] = "shim"

\* What holds of one request q when the sources of W are wrapped, the clients of A are
\* connected and the shell is h.
Fine(q, W, A, h) ==
    /\ q \in Request
    /\ q.st = "pending" <=> q.fd
    /\ q.st # "settled" => q.sends = 0 /\ q.closes = 0
    /\ q.st = "settled" => \/ q.sends = 0 /\ q.closes = 1
                           \/ q.sends = 1 /\ q.closes = 0 /\ q.verdict = "allow"
    /\ q.st = "pending" => /\ q.source \in W /\ OwnerOf(q.source) \in A /\ q.target \in A
                           /\ h # NONE /\ q.shell = h

\* The variables that are neither the selection nor the requests.
Rest ==
    /\ focus \in Clients \cup {NONE}
    /\ silo \in Silos \cup {NONE}
    /\ alive \subseteq Clients
    /\ windows \subseteq alive
    /\ shell \in Shells \cup {NONE}
    /\ locked \in BOOLEAN

Sound ==
    /\ Rest
    /\ Gated(Selection, alive)
    /\ req \in [Requests -> Request]
    /\ \A r \in Requests : Fine(req[r], wraps, alive, shell)

\* The properties the runs check, as one.
GateHolds ==
    PendingSound /\ DescriptorSettledOnce /\ AskedShellDecides /\ NothingPastTheGate

\* Selection's fields are the variables.
LEMMA Fields ==
    /\ Selection.selection = selection /\ Selection.send = send
    /\ Selection.wraps = wraps /\ Selection.offer = offer
  BY DEF Selection

\* The gate's properties, request by request.
LEMMA Pointwise == GateHolds <=> Sound
<1>1. ASSUME req \in [Requests -> Request], NEW r \in Requests, \A s \in wraps : send[s] = "shim"
      PROVE  Fine(req[r], wraps, alive, shell)
               <=> /\ pending(r) <=> req[r].fd
                   /\ req[r].sends + req[r].closes = IF req[r].st = "settled" THEN 1 ELSE 0
                   /\ req[r].sends > 0 => req[r].verdict = "allow"
                   /\ pending(r) => /\ req[r].source \in wraps
                                    /\ send[req[r].source] = "shim"
                                    /\ req[r].target \in alive
                                    /\ OwnerOf(req[r].source) \in alive
                   /\ pending(r) => shell # NONE /\ req[r].shell = shell
  <2>1. req[r] \in Request
    BY <1>1
  <2>2. req[r].sends \in Nat /\ req[r].closes \in Nat
    BY <2>1 DEF Request
  <2>3. req[r].st = "settled" =>
          (req[r].sends + req[r].closes = 1 <=> \/ req[r].sends = 0 /\ req[r].closes = 1
                                                \/ req[r].sends = 1 /\ req[r].closes = 0)
    BY <2>2
  <2>4. req[r].sends + req[r].closes = 0 <=> req[r].sends = 0 /\ req[r].closes = 0
    BY <2>2
  <2>5. req[r].sends > 0 <=> req[r].sends # 0
    BY <2>2
  <2> QED BY <1>1, <2>1, <2>3, <2>4, <2>5 DEF Fine, pending
<1>2. Selection \in SelType <=> /\ selection \in AllSources \cup {NONE}
                                /\ send \in [AllSources -> {"gone", "orig", "shim"}]
                                /\ wraps \subseteq AllSources
                                /\ offer \in [AllSources -> Clients \cup {NONE}]
  BY DEF Selection, SelType
<1> QED BY <1>1, <1>2, Fields DEF GateHolds, PendingSound, DescriptorSettledOnce, AskedShellDecides,
           NothingPastTheGate, TypeOK, WrapsLive, PendingPointersLive, OfferedIsGated,
           SentOnlyIfAllowed, Sound, Rest, Gated, Wrapped
-----------------------------------------------------------------------------
(* The selection                                                            *)

\* A selection state is known by its four fields.
LEMMA Same ==
  ASSUME NEW w \in SelType
  PROVE  w = [selection |-> w.selection, send |-> w.send, wraps |-> w.wraps, offer |-> w.offer]
  BY DEF SelType

\* qdwin_install_data_source_wrap leaves source s with the shim, wrapped or not.
LEMMA InstallIs ==
  ASSUME NEW w \in SelType, NEW s \in AllSources, NEW ok \in BOOLEAN
  PROVE  LET v == qdwin_install_data_source_wrap(w, s, ok)
         IN  /\ v \in SelType
             /\ v.selection = w.selection
             /\ v.send = [w.send EXCEPT ![s] = "shim"]
             /\ w.wraps \subseteq v.wraps /\ v.wraps \subseteq w.wraps \cup {s}
             /\ v.offer = w.offer
<1> DEFINE W == IF ok THEN w.wraps \cup {s} ELSE w.wraps
<1>1. CASE w.send[s] = "shim"
  <2>1. w.send \in [AllSources -> {"gone", "orig", "shim"}]
    BY DEF SelType
  <2>2. w.send = [w.send EXCEPT ![s] = "shim"]
    BY <1>1, <2>1
  <2> QED BY <1>1, <2>2 DEF qdwin_install_data_source_wrap
<1>2. CASE w.send[s] # "shim"
  <2>1. qdwin_install_data_source_wrap(w, s, ok)
          = [selection |-> w.selection, send |-> [w.send EXCEPT ![s] = "shim"],
             wraps |-> W, offer |-> w.offer]
    BY <1>2 DEF qdwin_install_data_source_wrap, SelType
  <2>2. W \subseteq AllSources /\ w.wraps \subseteq W /\ W \subseteq w.wraps \cup {s}
    BY DEF SelType
  <2> HIDE DEF W
  <2>3. [selection |-> w.selection, send |-> [w.send EXCEPT ![s] = "shim"],
         wraps |-> W, offer |-> w.offer] \in SelType
    BY <2>2 DEF SelType
  <2> QED BY <2>1, <2>2, <2>3
<1> QED BY <1>1, <1>2

\* Announce selects s and offers it to the focused client, if there is one.
LEMMA AnnounceIs ==
  ASSUME NEW w \in SelType, NEW s \in AllSources \cup {NONE}, NEW to \in Clients \cup {NONE}
  PROVE  LET v == Announce(w, s, to)
         IN  /\ v \in SelType
             /\ v.selection = s /\ v.send = w.send /\ v.wraps = w.wraps
             /\ v.offer = IF s # NONE /\ to # NONE THEN [w.offer EXCEPT ![s] = to] ELSE w.offer
<1> DEFINE O == IF s # NONE /\ to # NONE THEN [w.offer EXCEPT ![s] = to] ELSE w.offer
<1>1. Announce(w, s, to) = [selection |-> s, send |-> w.send, wraps |-> w.wraps, offer |-> O]
  <2>1. CASE s # NONE /\ to # NONE
    <3>1. Announce(w, s, to) = [w EXCEPT !.selection = s, !.offer = [w.offer EXCEPT ![s] = to]]
      BY <2>1 DEF Announce, SelType
    <3>2. O = [w.offer EXCEPT ![s] = to]
      BY <2>1
    <3> QED BY <3>1, <3>2 DEF SelType
  <2>2. CASE ~ (s # NONE /\ to # NONE)
    <3>1. Announce(w, s, to) = [w EXCEPT !.selection = s, !.offer = w.offer]
      BY <2>2 DEF Announce, SelType
    <3>2. O = w.offer
      BY <2>2
    <3> QED BY <3>1, <3>2 DEF SelType
  <2> QED BY <2>1, <2>2
<1>2. O \in [AllSources -> Clients \cup {NONE}]
  BY DEF SelType
<1> HIDE DEF O
<1>3. [selection |-> s, send |-> w.send, wraps |-> w.wraps, offer |-> O] \in SelType
  BY <1>2 DEF SelType
<1> QED BY <1>1, <1>3 DEF O

\* A source that is forgotten is neither selected, wrapped nor offered.
LEMMA ForgetIs ==
  ASSUME NEW w \in SelType, NEW s \in AllSources
  PROVE  LET v == ForgetSource(w, s)
         IN  /\ v \in SelType
             /\ v.selection = IF w.selection = s THEN NONE ELSE w.selection
             /\ v.send = [w.send EXCEPT ![s] = "gone"]
             /\ v.wraps = w.wraps \ {s}
             /\ v.offer = [w.offer EXCEPT ![s] = NONE]
<1> DEFINE S == IF w.selection = s THEN NONE ELSE w.selection
<1>1. ForgetSource(w, s)
        = [selection |-> S, send |-> [w.send EXCEPT ![s] = "gone"],
           wraps |-> w.wraps \ {s}, offer |-> [w.offer EXCEPT ![s] = NONE]]
  <2>1. ForgetSource(w, s) = [w EXCEPT !.selection = S, !.send = [w.send EXCEPT ![s] = "gone"],
                                       !.wraps = w.wraps \ {s},
                                       !.offer = [w.offer EXCEPT ![s] = NONE]]
    BY DEF ForgetSource, SelType
  <2> HIDE DEF S
  <2> QED BY <2>1 DEF SelType
<1>2. S \in AllSources \cup {NONE}
  BY DEF SelType
<1>3. w.wraps \ {s} \subseteq AllSources
  BY DEF SelType
<1> HIDE DEF S
<1>4. [selection |-> S, send |-> [w.send EXCEPT ![s] = "gone"],
       wraps |-> w.wraps \ {s}, offer |-> [w.offer EXCEPT ![s] = NONE]] \in SelType
  BY <1>2, <1>3 DEF SelType
<1> QED BY <1>1, <1>4 DEF S

\* Whatever is selected once the selection was set to NULL, the clipboard's cache
\* included, is gated.
LEMMA SelectNull ==
  ASSUME NEW A, NEW w, Wrapped(w, A), NEW to \in Clients \cup {NONE}, NEW ok \in BOOLEAN
  PROVE  /\ Gated(select_null(w, to, ok), A)
         /\ w.wraps \subseteq select_null(w, to, ok).wraps
<1> DEFINE w1 == Announce(w, NONE, to)
           w2 == Announce(w1, CLIP, to)
           w3 == qdwin_install_data_source_wrap(w2, CLIP, ok)
<1>1. w \in SelType /\ CLIP \in AllSources /\ CLIP \notin Sources /\ NONE \notin AllSources
  BY ClipboardConstants DEF Wrapped, AllSources
<1>2. /\ w1 \in SelType /\ w1.selection = NONE /\ w1.send = w.send
      /\ w1.wraps = w.wraps /\ w1.offer = w.offer
  <2>1. w1 = [w EXCEPT !.selection = NONE, !.offer = w.offer]
    BY <1>1 DEF Announce, SelType
  <2>2. w1 = [selection |-> NONE, send |-> w.send, wraps |-> w.wraps, offer |-> w.offer]
    BY <1>1, <2>1 DEF SelType
  <2> HIDE DEF w1
  <2>3. w1 \in SelType
    BY <1>1, <2>2 DEF SelType
  <2> QED BY <2>2, <2>3
<1>3. CASE w1.send[CLIP] = "gone"
  BY <1>2, <1>3 DEF select_null, Gated, Wrapped
<1>4. CASE w1.send[CLIP] # "gone"
  <2>1. /\ w2 \in SelType /\ w2.selection = CLIP /\ w2.send = w.send /\ w2.wraps = w.wraps
        /\ w2.offer = [w.offer EXCEPT ![CLIP] = to] \/ w2.offer = w.offer
    <3> HIDE DEF w1
    <3> QED BY <1>1, <1>2, AnnounceIs
  <2>2. /\ w3 \in SelType /\ w3.selection = CLIP /\ w3.send = [w.send EXCEPT ![CLIP] = "shim"]
        /\ w.wraps \subseteq w3.wraps /\ w3.wraps \subseteq w.wraps \cup {CLIP}
        /\ w3.offer = w2.offer
    <3> HIDE DEF w2
    <3> QED BY <1>1, <2>1, InstallIs
  <2>3. select_null(w, to, ok) = w3
    BY <1>4 DEF select_null
  <2>4. w.send \in [AllSources -> {"gone", "orig", "shim"}]
        /\ w.offer \in [AllSources -> Clients \cup {NONE}]
    BY <1>1 DEF SelType
  <2> HIDE DEF w3, w2
  <2>5. Gated(w3, A)
    <3>1. ASSUME NEW s \in AllSources, s \in w3.wraps \/ w3.offer[s] # NONE
          PROVE  w3.send[s] = "shim"
      BY <1>1, <2>1, <2>2, <2>4, <3>1 DEF Wrapped
    <3>2. ASSUME NEW s \in Sources, w3.send[s] # "gone"
          PROVE  SourceOwner[s] \in A
      BY <1>1, <2>2, <2>4, <3>2 DEF Wrapped, AllSources
    <3>3. w3.send[w3.selection] = "shim"
      BY <1>1, <2>2, <2>4
    <3> QED BY <2>2, <3>1, <3>2, <3>3 DEF Gated, Wrapped
  <2> QED BY <2>2, <2>3, <2>5
<1> QED BY <1>3, <1>4
\* A source is destroyed; if it was selected the selection is set to NULL.
LEMMA DestroyGated ==
  ASSUME NEW A, NEW w, Gated(w, A), NEW s \in Sources, NEW to \in Clients \cup {NONE},
         NEW ok \in BOOLEAN
  PROVE  /\ Gated(DestroySource(w, s, to, ok), A)
         /\ w.wraps \ {s} \subseteq DestroySource(w, s, to, ok).wraps
<1> DEFINE w1 == ForgetSource(w, s)
<1>1. w \in SelType /\ s \in AllSources
  BY DEF Gated, Wrapped, AllSources
<1>2. /\ w1 \in SelType
      /\ w1.selection = IF w.selection = s THEN NONE ELSE w.selection
      /\ w1.send = [w.send EXCEPT ![s] = "gone"]
      /\ w1.wraps = w.wraps \ {s}
      /\ w1.offer = [w.offer EXCEPT ![s] = NONE]
  BY <1>1, ForgetIs
<1>3. /\ w.send \in [AllSources -> {"gone", "orig", "shim"}]
      /\ w.offer \in [AllSources -> Clients \cup {NONE}]
      /\ w.selection \in AllSources \cup {NONE}
  BY <1>1 DEF SelType
<1>4. DestroySource(w, s, to, ok) = IF w.selection = s THEN select_null(w1, to, ok) ELSE w1
  BY DEF DestroySource
<1> HIDE DEF w1
<1>5. Wrapped(w1, A)
  BY <1>2, <1>3 DEF Gated, Wrapped, AllSources
<1>6. CASE w.selection = s
  BY <1>2, <1>4, <1>5, <1>6, SelectNull
<1>7. CASE w.selection # s
  BY <1>2, <1>3, <1>4, <1>5, <1>7 DEF Gated
<1> QED BY <1>6, <1>7

\* A client selects a source: the cache is replaced and the source gets the shim.
LEMMA SelectGated ==
  ASSUME NEW A, NEW w, Gated(w, A), NEW s \in Sources, w.send[s] # "gone",
         NEW to \in Clients \cup {NONE}, NEW cache \in BOOLEAN, NEW ok \in BOOLEAN
  PROVE  /\ Gated(select_source(w, s, to, cache, ok), A)
         /\ w.wraps \ {CLIP} \subseteq select_source(w, s, to, cache, ok).wraps
<1> DEFINE w0 == Announce(w, s, to)
           w1 == ForgetSource(w0, CLIP)
           w2 == IF cache THEN [w1 EXCEPT !.send[CLIP] = "orig"] ELSE w1
           w3 == qdwin_install_data_source_wrap(w2, s, ok)
<1>1. /\ w \in SelType /\ s \in AllSources /\ CLIP \in AllSources /\ s # CLIP /\ s # NONE
      /\ CLIP \notin Sources
  BY ClipboardConstants DEF Gated, Wrapped, AllSources
<1>2. /\ w.send \in [AllSources -> {"gone", "orig", "shim"}]
      /\ w.offer \in [AllSources -> Clients \cup {NONE}]
  BY <1>1 DEF SelType
<1>3. /\ w0 \in SelType /\ w0.selection = s /\ w0.send = w.send /\ w0.wraps = w.wraps
      /\ w0.offer = [w.offer EXCEPT ![s] = to] \/ w0.offer = w.offer
  BY <1>1, AnnounceIs
<1>4. /\ w1 \in SelType /\ w1.selection = s /\ w1.send = [w.send EXCEPT ![CLIP] = "gone"]
      /\ w1.wraps = w.wraps \ {CLIP}
      /\ w1.offer = [w0.offer EXCEPT ![CLIP] = NONE]
  <2> HIDE DEF w0
  <2>1. /\ w1 \in SelType /\ w1.selection = IF w0.selection = CLIP THEN NONE ELSE w0.selection
        /\ w1.send = [w0.send EXCEPT ![CLIP] = "gone"] /\ w1.wraps = w0.wraps \ {CLIP}
        /\ w1.offer = [w0.offer EXCEPT ![CLIP] = NONE]
    BY <1>1, <1>3, ForgetIs, Zenon
  <2> HIDE DEF w1
  <2> QED BY <1>1, <1>3, <2>1
<1>5. PICK x \in {"gone", "orig"} :
        /\ w2 \in SelType /\ w2.selection = s /\ w2.send = [w.send EXCEPT ![CLIP] = x]
        /\ w2.wraps = w1.wraps /\ w2.offer = w1.offer
  <2> HIDE DEF w1
  <2>1. CASE cache
    <3>1. w2 = [selection |-> w1.selection, send |-> [w1.send EXCEPT ![CLIP] = "orig"],
                wraps |-> w1.wraps, offer |-> w1.offer]
      BY <1>4, <2>1 DEF SelType
    <3>2. [w1.send EXCEPT ![CLIP] = "orig"] = [w.send EXCEPT ![CLIP] = "orig"]
      BY <1>2, <1>4
    <3>3. [w.send EXCEPT ![CLIP] = "orig"] \in [AllSources -> {"gone", "orig", "shim"}]
      BY <1>2
    <3> HIDE DEF w2
    <3>4. w2 \in SelType
      BY <1>4, <3>1, <3>2, <3>3 DEF SelType
    <3> QED BY <1>4, <3>1, <3>2, <3>4
  <2>2. CASE ~ cache
    BY <1>4, <2>2
  <2> QED BY <2>1, <2>2
<1> HIDE DEF w0, w1, w2
<1>6. /\ w3 \in SelType /\ w3.selection = s /\ w3.send = [w2.send EXCEPT ![s] = "shim"]
      /\ w2.wraps \subseteq w3.wraps /\ w3.wraps \subseteq w2.wraps \cup {s}
      /\ w3.offer = w2.offer
  <2>1. w2 \in SelType /\ s \in AllSources
    BY <1>1, <1>5
  <2>2. /\ w3 \in SelType /\ w3.selection = w2.selection
        /\ w3.send = [w2.send EXCEPT ![s] = "shim"]
        /\ w2.wraps \subseteq w3.wraps /\ w3.wraps \subseteq w2.wraps \cup {s}
        /\ w3.offer = w2.offer
    BY <2>1, InstallIs
  <2> QED BY <1>5, <2>2
<1>7. w3.send = [a \in AllSources |-> IF a = s THEN "shim" ELSE IF a = CLIP THEN x ELSE w.send[a]]
  BY <1>1, <1>2, <1>5, <1>6
<1>8. ASSUME NEW a \in AllSources, a # s, a # CLIP
      PROVE  w3.offer[a] = w.offer[a]
  BY <1>1, <1>2, <1>3, <1>4, <1>5, <1>6, <1>8
<1>9. w3.offer[CLIP] = NONE
  <2>1. w0.offer \in [AllSources -> Clients \cup {NONE}]
    BY <1>3 DEF SelType
  <2> QED BY <1>1, <1>4, <1>5, <1>6, <2>1
<1>10. select_source(w, s, to, cache, ok) = w3
  BY DEF select_source, w0, w1, w2
<1> HIDE DEF w3
<1>11. ASSUME NEW a \in AllSources, a \in w3.wraps \/ w3.offer[a] # NONE
       PROVE  w3.send[a] = "shim"
  <2>1. CASE a = s
    BY <1>7, <2>1
  <2>2. CASE a = CLIP
    BY <1>1, <1>4, <1>5, <1>6, <1>9, <1>11, <2>2
  <2>3. CASE a # s /\ a # CLIP
    BY <1>4, <1>5, <1>6, <1>7, <1>8, <1>11, <2>3 DEF Gated, Wrapped
  <2> QED BY <2>1, <2>2, <2>3
<1>12. ASSUME NEW a \in Sources, w3.send[a] # "gone"
       PROVE  SourceOwner[a] \in A
  <2>1. a \in AllSources /\ a # CLIP
    BY <1>1 DEF AllSources
  <2> QED BY <1>7, <1>12, <2>1 DEF Gated, Wrapped
<1> QED BY <1>1, <1>4, <1>5, <1>6, <1>7, <1>10, <1>11, <1>12 DEF Gated, Wrapped

-----------------------------------------------------------------------------
(* The requests                                                             *)

\* Once its entry is freed a request is settled for good.
LEMMA FreeFine ==
  ASSUME NEW q, NEW W, NEW A, NEW h, Fine(q, W, A, h), q.st = "pending", NEW V, NEW B, NEW g
  PROVE  Fine(qdwin_data_offer_pending_free(q), V, B, g)
<1>1. q \in Request /\ q.fd /\ q.sends = 0 /\ q.closes = 0
  BY DEF Fine
<1>2. qdwin_data_offer_pending_free(q)
        = [q EXCEPT !.st = "settled", !.timer = FALSE, !.fd = FALSE, !.source = NONE,
                    !.target = NONE, !.shell = NONE, !.closes = 1]
  BY <1>1 DEF qdwin_data_offer_pending_free, Request
<1> DEFINE f == [q EXCEPT !.st = "settled", !.timer = FALSE, !.fd = FALSE, !.source = NONE,
                          !.target = NONE, !.shell = NONE, !.closes = 1]
<1>3. f \in Request
  BY <1>1 DEF Request, Statuses
<1>4. f.st = "settled" /\ f.fd = FALSE /\ f.closes = 1 /\ f.sends = 0
  BY <1>1 DEF Request
<1> HIDE DEF f
<1>5. Fine(f, V, B, g)
  BY <1>3, <1>4 DEF Fine
<1> QED BY <1>2, <1>5 DEF f

\* The timer and the decision: the descriptor is sent or closed, and the entry freed.
LEMMA CloseFine ==
  ASSUME NEW q, NEW W, NEW A, NEW h, Fine(q, W, A, h), q.st = "pending", NEW allow \in BOOLEAN,
         allow => q.verdict = "allow", NEW V, NEW B, NEW g
  PROVE  Fine(qdwin_data_offer_pending_free(qdwin_data_offer_pending_close(q, allow)), V, B, g)
<1> DEFINE c == qdwin_data_offer_pending_close(q, allow)
           f == [c EXCEPT !.st = "settled", !.timer = FALSE, !.fd = FALSE, !.source = NONE,
                          !.target = NONE, !.shell = NONE, !.closes = c.closes]
<1>1. q \in Request /\ q.fd /\ q.sends = 0 /\ q.closes = 0
  BY DEF Fine
<1>2. CASE allow
  <2>1. c = [q EXCEPT !.sends = 1, !.fd = FALSE]
    BY <1>1, <1>2 DEF qdwin_data_offer_pending_close, Request
  <2> HIDE DEF c
  <2>2. c \in Request /\ c.fd = FALSE /\ c.sends = 1 /\ c.closes = 0 /\ c.verdict = "allow"
    <3>1. c \in Request
      BY <1>1, <2>1 DEF Request
    <3> QED BY <1>1, <1>2, <2>1, <3>1 DEF Request
  <2>3. qdwin_data_offer_pending_free(c) = f
    BY <2>2 DEF qdwin_data_offer_pending_free, Request
  <2>4. f \in Request
    BY <2>2 DEF Request, Statuses
  <2>5. f.st = "settled" /\ f.fd = FALSE /\ f.closes = 0 /\ f.sends = 1 /\ f.verdict = "allow"
    BY <2>2 DEF Request
  <2> HIDE DEF f
  <2> QED BY <2>3, <2>4, <2>5 DEF Fine, c
<1>3. CASE ~ allow
  <2>1. c = [q EXCEPT !.closes = 1, !.fd = FALSE]
    BY <1>1, <1>3 DEF qdwin_data_offer_pending_close, Request
  <2> HIDE DEF c
  <2>2. c \in Request /\ c.fd = FALSE /\ c.sends = 0 /\ c.closes = 1
    <3>1. c \in Request
      BY <1>1, <2>1 DEF Request
    <3> QED BY <1>1, <2>1, <3>1 DEF Request
  <2>3. qdwin_data_offer_pending_free(c) = f
    BY <2>2 DEF qdwin_data_offer_pending_free, Request
  <2>4. f \in Request
    BY <2>2 DEF Request, Statuses
  <2>5. f.st = "settled" /\ f.fd = FALSE /\ f.closes = 1 /\ f.sends = 0
    BY <2>2 DEF Request
  <2> HIDE DEF f
  <2> QED BY <2>3, <2>4, <2>5 DEF Fine, c
<1> QED BY <1>2, <1>3

\* A request that stays pending needs its wrap, its parties and its shell.
LEMMA Kept ==
  ASSUME NEW q, NEW W, NEW A, NEW h, Fine(q, W, A, h), NEW V, NEW B, NEW g,
         q.st = "pending" => /\ q.source \in V /\ OwnerOf(q.source) \in B /\ q.target \in B
                             /\ g = h
  PROVE  Fine(q, V, B, g)
  BY DEF Fine

\* The clipboard manager's cache has no owner, so nothing is ever pending on it.
LEMMA NotCache ==
  ASSUME NEW q, NEW W, NEW A, NEW h, Fine(q, W, A, h), A \subseteq Clients, q.st = "pending"
  PROVE  q.source # CLIP
  BY ClipboardConstants DEF Fine, OwnerOf
\* A denied request, in whatever state.
LEMMA DeniedFine ==
  ASSUME NEW W, NEW A, NEW h
  PROVE  Fine(Denied, W, A, h)
<1>1. NoRequest \in Request
  BY DEF NoRequest, Request, Statuses
<1>2. Denied \in Request
  BY <1>1 DEF Denied, Request, Statuses
<1>3. Denied.st = "settled" /\ Denied.fd = FALSE /\ Denied.sends = 0 /\ Denied.closes = 1
  BY DEF Denied, NoRequest
<1> QED BY <1>2, <1>3 DEF Fine

\* A request that reaches the shim is denied, or waits for the bound shell's decision
\* with live parties.
LEMMA SendFine ==
  ASSUME Sound, NEW s \in AllSources, NEW c \in Clients \cup {NONE}, send[s] = "shim",
         NEW m \in BOOLEAN, NEW ok \in BOOLEAN, NEW ok2 \in BOOLEAN
  PROVE  Fine(SourceSend(s, c, m, ok, ok2), wraps, alive, shell)
<1> DEFINE q == Pending(s, c)
           e == [q EXCEPT !.timer = FALSE]
<1>1. SourceSend(s, c, m, ok, ok2) = qdwin_data_source_send_shim(s, c, wraps, m, ok, ok2)
  BY DEF SourceSend
<1>2. CASE /\ s \in wraps /\ qdwin_shell_can_receive_v15 /\ m
           /\ OwnerOf(s) \in windows /\ c \in windows /\ ok
  <2>1. SourceSend(s, c, m, ok, ok2) = ArmTimer(q, ok2)
    BY <1>1, <1>2 DEF qdwin_data_source_send_shim
  <2>2. c \in Clients /\ shell \in Shells /\ shell # NONE /\ OwnerOf(s) \in alive /\ c \in alive
    BY <1>2 DEF Sound, Rest, qdwin_shell_can_receive_v15
  <2>3. q \in Request
    BY <2>2 DEF Pending, NoRequest, Request, Statuses
  <2>4. /\ q.st = "pending" /\ q.fd = TRUE /\ q.sends = 0 /\ q.closes = 0
        /\ q.source = s /\ q.target = c /\ q.shell = shell
    BY DEF Pending, NoRequest
  <2> HIDE DEF q
  <2>5. Fine(q, wraps, alive, shell)
    BY <1>2, <2>2, <2>3, <2>4 DEF Fine
  <2>6. /\ e \in Request /\ e.st = "pending" /\ e.fd = TRUE /\ e.sends = 0 /\ e.closes = 0
        /\ e.source = s /\ e.target = c /\ e.shell = shell
    BY <2>3, <2>4 DEF Request
  <2>7. Fine(qdwin_data_offer_pending_free(e), wraps, alive, shell)
    <3> HIDE DEF e
    <3>1. Fine(e, wraps, alive, shell)
      BY <1>2, <2>2, <2>6 DEF Fine
    <3> QED BY <2>6, <3>1, FreeFine
  <2> QED BY <2>1, <2>5, <2>7 DEF ArmTimer
<1>3. CASE ~ (/\ s \in wraps /\ qdwin_shell_can_receive_v15 /\ m
              /\ OwnerOf(s) \in windows /\ c \in windows /\ ok)
  BY <1>1, <1>3, DeniedFine DEF qdwin_data_source_send_shim
<1> QED BY <1>2, <1>3

\* The entries of hit are freed; the others keep what they need.
LEMMA FreeEntriesFine ==
  ASSUME Sound, NEW hit, NEW W, NEW A, NEW h,
         \A r \in Requests \ hit :
           req[r].st = "pending" => /\ req[r].source \in W /\ OwnerOf(req[r].source) \in A
                                    /\ req[r].target \in A /\ h = shell
  PROVE  /\ FreeEntries(req, hit) \in [Requests -> Request]
         /\ \A r \in Requests : Fine(FreeEntries(req, hit)[r], W, A, h)
<1>1. ASSUME NEW r \in Requests
      PROVE  Fine(FreeEntries(req, hit)[r], W, A, h)
  <2>1. Fine(req[r], wraps, alive, shell)
    BY DEF Sound
  <2>2. CASE r \in hit /\ req[r].st = "pending"
    BY <2>1, <2>2, FreeFine DEF FreeEntries
  <2>3. CASE r \notin hit /\ req[r].st = "pending"
    <3>1. FreeEntries(req, hit)[r] = req[r]
      BY <2>3 DEF FreeEntries
    <3> QED BY <2>1, <2>3, <3>1, Kept
  <2>4. CASE req[r].st # "pending"
    <3>1. FreeEntries(req, hit)[r] = req[r]
      BY <2>4 DEF FreeEntries
    <3> QED BY <2>1, <2>4, <3>1, Kept
  <2> QED BY <2>2, <2>3, <2>4
<1>2. ASSUME NEW r \in Requests
      PROVE  FreeEntries(req, hit)[r] \in Request
  BY <1>1 DEF Fine
<1>3. FreeEntries(req, hit) = [r \in Requests |-> FreeEntries(req, hit)[r]]
  BY DEF FreeEntries
<1> QED BY <1>1, <1>2, <1>3

\* One request changes.
LEMMA OneRequest ==
  ASSUME Sound, NEW r \in Requests, NEW q, Fine(q, wraps, alive, shell),
         req' = [req EXCEPT ![r] = q], UNCHANGED <<selVars, clientVars, shell, locked>>
  PROVE  Sound'
<1>1. Rest' /\ Gated(Selection, alive)' /\ wraps' = wraps /\ alive' = alive /\ shell' = shell
  BY DEF Sound, Rest, Selection, selVars, clientVars
<1>2. q \in Request
  BY DEF Fine
<1>3. req' \in [Requests -> Request]
  BY <1>2 DEF Sound
<1>4. ASSUME NEW j \in Requests
      PROVE  Fine(req'[j], wraps', alive', shell')
  BY <1>1, <1>4 DEF Sound
<1> QED BY <1>1, <1>3, <1>4 DEF Sound

\* The requests stay as they are; the shell too, and no wrap or client goes.
LEMMA RequestsStay ==
  ASSUME Sound, UNCHANGED <<req, shell>>, wraps \ {CLIP} \subseteq wraps', alive \subseteq alive'
  PROVE  req' \in [Requests -> Request] /\ \A r \in Requests : Fine(req'[r], wraps', alive', shell')
<1>1. req' \in [Requests -> Request]
  BY DEF Sound
<1>2. ASSUME NEW r \in Requests
      PROVE  Fine(req'[r], wraps', alive', shell')
  <2>1. Fine(req[r], wraps, alive, shell) /\ alive \subseteq Clients /\ req'[r] = req[r]
    BY DEF Sound, Rest
  <2>2. req[r].st = "pending" => /\ req[r].source \in wraps' /\ OwnerOf(req[r].source) \in alive'
                                 /\ req[r].target \in alive' /\ shell' = shell
    BY <2>1, NotCache DEF Fine
  <2> QED BY <2>1, <2>2, Kept
<1> QED BY <1>1, <1>2

\* The new selection state is w.
LEMMA SetIs ==
  ASSUME NEW w, w \in SelType, SetSelectionState(w)
  PROVE  Selection' = w /\ wraps' = w.wraps
  BY Same DEF SetSelectionState, Selection

\* The selection's variables stay.
LEMMA SelStays ==
  ASSUME UNCHANGED selVars
  PROVE  Selection' = Selection /\ wraps' = wraps
  BY DEF selVars, Selection
-----------------------------------------------------------------------------
(* The steps                                                                *)

\* A connection ends: its requests, its sources and what waits on them go.
LEMMA ClientDiesOK ==
  ASSUME Sound, NEW c \in Clients, ClientDies(c)
  PROVE  Sound'
<1> DEFINE mine == {s \in Sources : SourceOwner[s] = c /\ send[s] # "gone"}
           to   == IF focus = c THEN NONE ELSE focus
           S1   == [s \in AllSources |-> IF s \in mine THEN "gone" ELSE send[s]]
           O1   == [s \in AllSources |-> IF s \in mine \/ offer[s] = c THEN NONE ELSE offer[s]]
           w1   == [selection |-> selection, send |-> S1, wraps |-> wraps \ mine, offer |-> O1]
           hit  == {r \in Requests : req[r].target = c \/ req[r].source \in mine}
<1>1. /\ selection \in AllSources \cup {NONE} /\ send \in [AllSources -> {"gone", "orig", "shim"}]
      /\ wraps \subseteq AllSources /\ offer \in [AllSources -> Clients \cup {NONE}]
      /\ \A s \in AllSources : s \in wraps \/ offer[s] # NONE => send[s] = "shim"
      /\ \A s \in Sources : send[s] # "gone" => SourceOwner[s] \in alive
      /\ selection # NONE => send[selection] = "shim"
  BY Fields DEF Sound, Gated, Wrapped, SelType
<1>2. Rest' /\ to \in Clients \cup {NONE} /\ alive' = alive \ {c} /\ shell' = shell
  BY DEF Sound, Rest, ClientDies, WithoutToplevels
<1>3. PICK ok \in BOOLEAN :
        SetSelectionState(IF selection \in mine THEN select_null(w1, to, ok) ELSE w1)
  BY ClipboardConstants DEF ClientDies, AllocOutcomes
<1>4. Wrapped(w1, alive') /\ w1.wraps = wraps \ mine /\ w1.selection = selection
  <2>1. /\ w1.selection = selection /\ w1.send = S1 /\ w1.wraps = wraps \ mine /\ w1.offer = O1
    OBVIOUS
  <2>2. S1 \in [AllSources -> {"gone", "orig", "shim"}] /\ O1 \in [AllSources -> Clients \cup {NONE}]
    BY <1>1
  <2>3. w1 \in SelType
    <3> HIDE DEF S1, O1
    <3> QED BY <1>1, <2>2 DEF SelType
  <2>4. ASSUME NEW s \in AllSources, s \in wraps \ mine \/ O1[s] # NONE
        PROVE  S1[s] = "shim"
    BY <1>1, <2>4
  <2>5. ASSUME NEW s \in Sources, S1[s] # "gone"
        PROVE  SourceOwner[s] \in alive'
    BY <1>1, <1>2, <2>5 DEF AllSources
  <2> HIDE DEF w1, S1, O1
  <2> QED BY <2>1, <2>3, <2>4, <2>5 DEF Wrapped
<1>5. Gated(Selection', alive') /\ wraps \ mine \subseteq wraps'
  <2> HIDE DEF w1, to
  <2>1. CASE selection \in mine
    <3> DEFINE v == select_null(w1, to, ok)
    <3>1. Gated(v, alive') /\ w1.wraps \subseteq v.wraps
      BY <1>2, <1>4, SelectNull
    <3>2. SetSelectionState(v)
      BY <1>3, <2>1
    <3> HIDE DEF v
    <3> QED BY <1>4, <3>1, <3>2, SetIs DEF Gated, Wrapped
  <2>2. CASE selection \notin mine
    <3>1. SetSelectionState(w1)
      BY <1>3, <2>2
    <3>2. Selection' = w1 /\ wraps' = w1.wraps
      BY <1>4, <3>1, SetIs DEF Wrapped
    <3>3. selection # NONE => w1.send[selection] = "shim"
      <4>1. selection # NONE => S1[selection] = "shim"
        BY <1>1, <2>2
      <4> QED BY <4>1 DEF w1
    <3> QED BY <1>4, <3>2, <3>3 DEF Gated
  <2> QED BY <2>1, <2>2
<1>6. req' = FreeEntries(req, hit)
  <2> DEFINE h1 == {r \in Requests : req[r].target = c}
             f1 == FreeEntries(req, h1)
  <2>1. req' = FreeEntries(f1, {r \in Requests : f1[r].source \in mine})
    BY DEF ClientDies, FreeOfSource
  <2>2. ASSUME NEW r \in Requests
        PROVE  FreeEntries(f1, {x \in Requests : f1[x].source \in mine})[r] = FreeEntries(req, hit)[r]
    <3>1. f1[r] = IF r \in h1 /\ req[r].st = "pending"
                  THEN qdwin_data_offer_pending_free(req[r]) ELSE req[r]
      BY DEF FreeEntries
    <3>2. req[r] \in Request
      BY DEF Sound
    <3>3. qdwin_data_offer_pending_free(req[r]).st = "settled"
      BY <3>2 DEF qdwin_data_offer_pending_free, Request
    <3>4. FreeEntries(f1, {x \in Requests : f1[x].source \in mine})[r]
            = IF f1[r].source \in mine /\ f1[r].st = "pending"
              THEN qdwin_data_offer_pending_free(f1[r]) ELSE f1[r]
      BY DEF FreeEntries
    <3>5. FreeEntries(req, hit)[r] = IF r \in hit /\ req[r].st = "pending"
                                     THEN qdwin_data_offer_pending_free(req[r]) ELSE req[r]
      BY DEF FreeEntries
    <3> HIDE DEF f1, mine
    <3> QED BY <3>1, <3>3, <3>4, <3>5
  <2> QED BY <2>1, <2>2 DEF FreeEntries
<1>7. ASSUME NEW r \in Requests \ hit, req[r].st = "pending"
      PROVE  /\ req[r].source \in wraps' /\ OwnerOf(req[r].source) \in alive'
             /\ req[r].target \in alive' /\ shell' = shell
  <2>1. Fine(req[r], wraps, alive, shell) /\ alive \subseteq Clients
    BY DEF Sound, Rest
  <2>2. req[r].source # CLIP
    BY <1>7, <2>1, NotCache
  <2>3. /\ req[r].source \in wraps /\ OwnerOf(req[r].source) \in alive /\ req[r].target \in alive
        /\ req[r].target # c /\ req[r].source \notin mine
    BY <1>7, <2>1 DEF Fine
  <2>4. req[r].source \in Sources /\ send[req[r].source] = "shim"
    BY <1>1, <2>2, <2>3 DEF AllSources
  <2>5. SourceOwner[req[r].source] # c
    BY <2>3, <2>4
  <2> QED BY <1>2, <1>5, <2>2, <2>3, <2>5 DEF OwnerOf
<1> HIDE DEF hit
<1>8. req' \in [Requests -> Request] /\ \A r \in Requests : Fine(req'[r], wraps', alive', shell')
  BY <1>6, <1>7, FreeEntriesFine
<1> QED BY <1>2, <1>5, <1>8 DEF Sound

\* A source is destroyed, with the entries that wait on it.
LEMMA DestroyOK ==
  ASSUME Sound, NEW s \in Sources, destroy_data_source(s)
  PROVE  Sound'
<1> DEFINE hit == {r \in Requests : req[r].source \in {s}}
<1>1. Rest' /\ alive' = alive /\ shell' = shell /\ focus \in Clients \cup {NONE}
  BY DEF Sound, Rest, destroy_data_source, clientVars
<1>2. PICK ok \in BOOLEAN : SetSelectionState(DestroySource(Selection, s, focus, ok))
  BY ClipboardConstants DEF destroy_data_source, AllocOutcomes
<1> DEFINE v == DestroySource(Selection, s, focus, ok)
<1>3. Gated(v, alive) /\ wraps \ {s} \subseteq v.wraps
  BY <1>1, DestroyGated, Fields DEF Sound
<1> HIDE DEF v
<1>4. Gated(Selection', alive') /\ wraps \ {s} \subseteq wraps'
  BY <1>1, <1>2, <1>3, SetIs DEF Gated, Wrapped, v
<1>5. req' = FreeEntries(req, hit)
  BY DEF destroy_data_source, FreeOfSource
<1>6. ASSUME NEW r \in Requests \ hit, req[r].st = "pending"
      PROVE  /\ req[r].source \in wraps' /\ OwnerOf(req[r].source) \in alive'
             /\ req[r].target \in alive' /\ shell' = shell
  BY <1>1, <1>4, <1>6 DEF Sound, Fine
<1> HIDE DEF hit
<1>7. req' \in [Requests -> Request] /\ \A r \in Requests : Fine(req'[r], wraps', alive', shell')
  BY <1>5, <1>6, FreeEntriesFine
<1> QED BY <1>1, <1>4, <1>7 DEF Sound
\* A client selects one of its sources; the clipboard manager may read it.
LEMMA SetSelectionOK ==
  ASSUME Sound, NEW s \in Sources, data_device_set_selection(s)
  PROVE  Sound'
<1>1. /\ Rest' /\ UNCHANGED <<alive, shell, windows>>
      /\ focus \in Clients \cup {NONE} /\ alive \subseteq Clients
  BY DEF Sound, Rest, data_device_set_selection, clientVars
<1>2. PICK cache \in BOOLEAN, ok \in BOOLEAN :
        /\ SetSelectionState(select_source(Selection, s, focus, cache, ok))
        /\ \/ UNCHANGED req
           \/ /\ send[s] = "shim"
              /\ \E r \in Requests, ok2, ok3 \in BOOLEAN :
                   req' = [req EXCEPT ![r] = SourceSend(s, IF focus # NONE THEN focus ELSE offer[s],
                                                        TRUE, ok2, ok3)]
  BY ClipboardConstants DEF data_device_set_selection, AllocOutcomes
<1> DEFINE v == select_source(Selection, s, focus, cache, ok)
<1>3. Gated(v, alive) /\ wraps \ {CLIP} \subseteq v.wraps
  BY <1>1, SelectGated, Fields DEF Sound, data_device_set_selection
<1> HIDE DEF v
<1>4. Gated(Selection', alive') /\ wraps \ {CLIP} \subseteq wraps'
  BY <1>1, <1>2, <1>3, SetIs DEF Gated, Wrapped, v
<1>5. CASE UNCHANGED req
  BY <1>1, <1>4, <1>5, RequestsStay DEF Sound
<1>6. ASSUME NEW r \in Requests, NEW q, Fine(q, wraps, alive, shell), req' = [req EXCEPT ![r] = q]
      PROVE  Sound'
  <2>1. q \in Request
    BY <1>6 DEF Fine
  <2>2. req' \in [Requests -> Request]
    BY <1>6, <2>1 DEF Sound
  <2>3. ASSUME NEW j \in Requests
        PROVE  Fine(req'[j], wraps', alive', shell')
    <3>1. Fine(req'[j], wraps, alive, shell)
      BY <1>6, <2>3 DEF Sound
    <3>2. req'[j].st = "pending" => req'[j].source # CLIP
      BY <1>1, <3>1, NotCache
    <3> QED BY <1>1, <1>4, <3>1, <3>2 DEF Fine
  <2> QED BY <1>1, <1>4, <2>2, <2>3 DEF Sound
<1>7. ASSUME send[s] = "shim", NEW r \in Requests, NEW ok2 \in BOOLEAN, NEW ok3 \in BOOLEAN,
             req' = [req EXCEPT ![r] = SourceSend(s, IF focus # NONE THEN focus ELSE offer[s],
                                                  TRUE, ok2, ok3)]
      PROVE  Sound'
  <2> DEFINE c == IF focus # NONE THEN focus ELSE offer[s]
  <2>1. s \in AllSources /\ offer[s] \in Clients \cup {NONE}
    BY Fields DEF Sound, Gated, Wrapped, SelType, AllSources
  <2>2. c \in Clients \cup {NONE}
    BY <1>1, <2>1
  <2> HIDE DEF c
  <2>3. Fine(SourceSend(s, c, TRUE, ok2, ok3), wraps, alive, shell)
    BY <1>7, <2>1, <2>2, SendFine
  <2> QED BY <1>6, <1>7, <2>3 DEF c
<1> QED BY <1>2, <1>5, <1>7

\* A client reads an offer, through the gate.
LEMMA ReceiveOK ==
  ASSUME Sound, NEW c \in Clients, NEW s \in AllSources, NEW r \in Requests,
         data_offer_receive(c, s, r)
  PROVE  Sound'
<1>1. PICK cur \in BOOLEAN, m \in BOOLEAN, ok \in BOOLEAN, ok2 \in BOOLEAN :
        /\ cur => offer[s] = c
        /\ req' = [req EXCEPT ![r] = IF cur THEN SourceSend(s, c, m, ok, ok2) ELSE Denied]
  BY ClipboardConstants DEF data_offer_receive, AllocOutcomes
<1>2. CASE cur
  <2>1. send[s] = "shim"
    BY <1>1, <1>2, Fields, ClipboardConstants DEF Sound, Gated, Wrapped
  <2>2. Fine(SourceSend(s, c, m, ok, ok2), wraps, alive, shell)
    BY <2>1, SendFine
  <2>3. req' = [req EXCEPT ![r] = SourceSend(s, c, m, ok, ok2)]
    BY <1>1, <1>2
  <2> QED BY <2>2, <2>3, OneRequest DEF data_offer_receive
<1>3. CASE ~ cur
  <2>1. req' = [req EXCEPT ![r] = Denied]
    BY <1>1, <1>3
  <2> QED BY <2>1, DeniedFine, OneRequest DEF data_offer_receive
<1> QED BY <1>2, <1>3

\* The remaining requests of clients.
LEMMA ClientStep ==
  ASSUME Sound, ClientNext
  PROVE  Sound'
<1> USE Fields
<1>a. /\ selection \in AllSources \cup {NONE} /\ send \in [AllSources -> {"gone", "orig", "shim"}]
      /\ wraps \subseteq AllSources /\ offer \in [AllSources -> Clients \cup {NONE}]
      /\ \A s \in AllSources : s \in wraps \/ offer[s] # NONE => send[s] = "shim"
      /\ \A s \in Sources : send[s] # "gone" => SourceOwner[s] \in alive
      /\ selection # NONE => send[selection] = "shim"
  BY DEF Sound, Gated, Wrapped, SelType
<1>b. ASSUME Rest', UNCHANGED <<req, shell>>, wraps \ {CLIP} \subseteq wraps', alive \subseteq alive',
             /\ selection' \in AllSources \cup {NONE}
             /\ send' \in [AllSources -> {"gone", "orig", "shim"}]
             /\ wraps' \subseteq AllSources /\ offer' \in [AllSources -> Clients \cup {NONE}]
             /\ \A s \in AllSources : s \in wraps' \/ offer'[s] # NONE => send'[s] = "shim"
             /\ \A s \in Sources : send'[s] # "gone" => SourceOwner[s] \in alive'
             /\ selection' # NONE => send'[selection'] = "shim"
      PROVE  Sound'
  <2>1. Selection' = [selection |-> selection', send |-> send', wraps |-> wraps', offer |-> offer']
    BY DEF Selection
  <2>2. Selection' \in SelType
    BY <1>b, <2>1 DEF SelType
  <2>3. Gated(Selection', alive')
    BY <1>b, <2>1, <2>2 DEF Gated, Wrapped
  <2> QED BY <1>b, <2>3, RequestsStay DEF Sound
<1>1. ASSUME NEW c \in Clients, ClientConnects(c)
      PROVE  Sound'
  <2>1. Rest'
    BY <1>1 DEF Sound, Rest, ClientConnects
  <2> QED BY <1>1, <1>a, <1>b, <2>1 DEF ClientConnects, selVars
<1>2. ASSUME NEW c \in Clients, qdwin_surface_added(c) \/ qdwin_surface_removed(c)
      PROVE  Sound'
  <2>1. Rest'
    BY <1>2 DEF Sound, Rest, qdwin_surface_added, qdwin_surface_removed, WithoutToplevels
  <2> QED BY <1>2, <1>a, <1>b, <2>1 DEF qdwin_surface_added, qdwin_surface_removed, selVars
<1>3. ASSUME NEW c \in Clients, weston_seat_set_keyboard_focus(c)
      PROVE  Sound'
  <2>1. Rest'
    BY <1>3 DEF Sound, Rest, weston_seat_set_keyboard_focus
  <2>2. /\ offer' \in [AllSources -> Clients \cup {NONE}]
        /\ \A s \in AllSources : offer'[s] # NONE => send[s] = "shim"
    <3>1. CASE selection = NONE
      BY <1>a, <1>3, <3>1 DEF weston_seat_set_keyboard_focus
    <3>2. CASE selection # NONE
      <4>1. offer' = [offer EXCEPT ![selection] = c]
        BY <1>3, <3>2 DEF weston_seat_set_keyboard_focus
      <4> QED BY <1>a, <3>2, <4>1
    <3> QED BY <3>1, <3>2
  <2> QED BY <1>3, <1>a, <1>b, <2>1, <2>2 DEF weston_seat_set_keyboard_focus
<1>4. ASSUME NEW s \in Sources, create_data_source(s)
      PROVE  Sound'
  <2>1. Rest'
    BY <1>4 DEF Sound, Rest, create_data_source, clientVars
  <2>2. s \in AllSources /\ selection # s /\ offer[s] = NONE /\ s \notin wraps
        /\ \A a \in Sources : a \in AllSources
    BY <1>a, <1>4, ClipboardConstants DEF create_data_source, AllSources
  <2>3. send' = [send EXCEPT ![s] = "orig"] /\ SourceOwner[s] \in alive
    BY <1>4 DEF create_data_source
  <2> QED BY <1>4, <1>a, <1>b, <2>1, <2>2, <2>3 DEF create_data_source, clientVars
<1>5. ASSUME NEW s \in AllSources, destroy_data_offer(s)
      PROVE  Sound'
  <2>1. Rest'
    BY <1>5 DEF Sound, Rest, destroy_data_offer, clientVars
  <2>2. offer' = [offer EXCEPT ![s] = NONE]
    BY <1>5 DEF destroy_data_offer
  <2> QED BY <1>5, <1>a, <1>b, <2>1, <2>2 DEF destroy_data_offer, clientVars
<1> QED BY <1>1, <1>2, <1>3, <1>4, <1>5, ClientDiesOK, DestroyOK, SetSelectionOK, ReceiveOK
        DEF ClientNext
\* The shell is gone: nothing stays pending for its successor.
LEMMA ShellGoneOK ==
  ASSUME Sound, ShellGone
  PROVE  Sound'
<1>1. Rest' /\ UNCHANGED <<selVars, alive>> /\ shell' = NONE
  BY DEF Sound, Rest, ShellGone, clientVars
<1>2. Gated(Selection', alive')
  BY <1>1, SelStays DEF Sound
<1>3. req' = FreeEntries(req, Requests)
  BY DEF ShellGone, qdwin_data_offer_pending_free_all
<1>4. req' \in [Requests -> Request] /\ \A r \in Requests : Fine(req'[r], wraps', alive', shell')
  BY <1>3, FreeEntriesFine
<1> QED BY <1>1, <1>2, <1>4 DEF Sound

\* The shell moves the focus, and may clear the selection first.
LEMMA FocusOK ==
  ASSUME Sound, NEW c \in Clients \cup {NONE}, NEW clear \in BOOLEAN, FocusRequest(c, clear),
         UNCHANGED <<req, alive, shell>>, Rest'
  PROVE  Sound'
<1>1. PICK ok \in BOOLEAN :
        LET w1 == IF clear THEN select_null(Selection, focus, ok) ELSE Selection
            w2 == IF c # NONE /\ c # focus /\ w1.selection # NONE
                  THEN [w1 EXCEPT !.offer[w1.selection] = c] ELSE w1
        IN  SetSelectionState(w2)
  BY ClipboardConstants DEF FocusRequest, AllocOutcomes
<1> DEFINE w1 == IF clear THEN select_null(Selection, focus, ok) ELSE Selection
<1>2. Gated(w1, alive) /\ wraps \subseteq w1.wraps
  <2>1. focus \in Clients \cup {NONE} /\ Gated(Selection, alive) /\ Wrapped(Selection, alive)
    BY DEF Sound, Rest, Gated
  <2>2. CASE clear
    BY <2>1, <2>2, SelectNull, Fields
  <2>3. CASE ~ clear
    BY <2>1, <2>3, Fields
  <2> QED BY <2>2, <2>3
<1> DEFINE w2 == IF c # NONE /\ c # focus /\ w1.selection # NONE
                 THEN [w1 EXCEPT !.offer[w1.selection] = c] ELSE w1
<1>3. SetSelectionState(w2)
  BY <1>1
<1> HIDE DEF w1
<1>4. Gated(w2, alive) /\ wraps \subseteq w2.wraps
  <2>1. CASE c # NONE /\ c # focus /\ w1.selection # NONE
    <3>1. w1 \in SelType
      BY <1>2 DEF Gated, Wrapped
    <3>2. /\ w1.offer \in [AllSources -> Clients \cup {NONE}] /\ w1.selection \in AllSources
      BY <2>1, <3>1 DEF SelType
    <3>3. w2 = [selection |-> w1.selection, send |-> w1.send, wraps |-> w1.wraps,
                offer |-> [w1.offer EXCEPT ![w1.selection] = c]]
      BY <2>1, <3>1 DEF SelType
    <3>4. [w1.offer EXCEPT ![w1.selection] = c] \in [AllSources -> Clients \cup {NONE}]
      BY <3>2
    <3> HIDE DEF w2
    <3>5. w2 \in SelType
      BY <3>1, <3>3, <3>4 DEF SelType
    <3>6. ASSUME NEW s \in AllSources, s \in w2.wraps \/ w2.offer[s] # NONE
          PROVE  w2.send[s] = "shim"
      BY <1>2, <2>1, <3>2, <3>3, <3>6 DEF Gated, Wrapped
    <3> QED BY <1>2, <3>3, <3>5, <3>6 DEF Gated, Wrapped
  <2>2. CASE ~ (c # NONE /\ c # focus /\ w1.selection # NONE)
    BY <1>2, <2>2
  <2> QED BY <2>1, <2>2
<1> HIDE DEF w2
<1>5. Selection' = w2 /\ wraps' = w2.wraps
  BY <1>3, <1>4, SetIs DEF Gated, Wrapped
<1>6. Gated(Selection', alive') /\ wraps \ {CLIP} \subseteq wraps' /\ alive \subseteq alive'
  BY <1>4, <1>5
<1> QED BY <1>6, RequestsStay DEF Sound

\* The shell comes, goes, decides and moves the focus; the lock changes.
LEMMA ShellStep ==
  ASSUME Sound, ShellNext \/ LockChanges
  PROVE  Sound'
<1>1. ASSUME NEW q \in Shells, qdwin_handle_bind_as_shell(q)
      PROVE  Sound'
  <2>1. Rest' /\ UNCHANGED <<selVars, alive, req>> /\ shell = NONE
    BY <1>1 DEF Sound, Rest, qdwin_handle_bind_as_shell, clientVars
  <2>2. Gated(Selection', alive') /\ wraps' = wraps
    BY <2>1, SelStays DEF Sound
  <2>3. ASSUME NEW r \in Requests
        PROVE  Fine(req'[r], wraps', alive', shell')
    BY <2>1, <2>2 DEF Sound, Fine
  <2> QED BY <2>1, <2>2, <2>3 DEF Sound
<1>2. CASE qdwin_shell_resource_destroy
  BY <1>2, ShellGoneOK DEF qdwin_shell_resource_destroy
<1>3. ASSUME NEW r \in Requests, NEW allow \in BOOLEAN,
             qdwin_handle_data_offer_receive_decision(r, allow)
      PROVE  Sound'
  <2> DEFINE v == IF allow THEN "allow" ELSE "deny"
             q == [req[r] EXCEPT !.verdict = v]
             d == qdwin_data_offer_pending_free(qdwin_data_offer_pending_close(q, allow))
  <2>1. Fine(req[r], wraps, alive, shell) /\ req[r] \in Request /\ req[r].st = "pending"
    BY <1>3 DEF Sound, Fine, qdwin_handle_data_offer_receive_decision, pending
  <2>2. v \in {"none", "allow", "deny"} /\ (allow => v = "allow")
    OBVIOUS
  <2>3. req' = [req EXCEPT ![r] = d]
    BY <1>3 DEF qdwin_handle_data_offer_receive_decision
  <2> HIDE DEF v
  <2>4. q \in Request
    BY <2>1, <2>2 DEF Request
  <2>5. /\ q.st = req[r].st /\ q.fd = req[r].fd /\ q.sends = req[r].sends
        /\ q.closes = req[r].closes /\ q.source = req[r].source /\ q.target = req[r].target
        /\ q.shell = req[r].shell /\ q.verdict = v
    BY <2>1 DEF Request
  <2> HIDE DEF q
  <2>6. Fine(q, wraps, alive, shell)
    BY <2>1, <2>4, <2>5 DEF Fine
  <2>7. Fine(d, wraps, alive, shell)
    BY <2>1, <2>2, <2>5, <2>6, CloseFine
  <2> HIDE DEF d
  <2> QED BY <1>3, <2>3, <2>7, OneRequest DEF qdwin_handle_data_offer_receive_decision
<1>4. CASE qdwin_handle_clear_selection
  <2>1. CASE locked /\ ShellGone
    BY <2>1, ShellGoneOK
  <2>2. CASE /\ \E ok \in AllocOutcomes : SetSelectionState(select_null(Selection, focus, ok))
             /\ UNCHANGED <<req, clientVars, shell, locked>>
    <3>1. PICK ok \in BOOLEAN : SetSelectionState(select_null(Selection, focus, ok))
      BY <2>2, ClipboardConstants DEF AllocOutcomes
    <3> DEFINE v == select_null(Selection, focus, ok)
    <3>2. Gated(v, alive) /\ wraps \subseteq v.wraps
      BY SelectNull, Fields DEF Sound, Gated, Rest
    <3> HIDE DEF v
    <3>3. Selection' = v /\ wraps' = v.wraps
      BY <3>1, <3>2, SetIs DEF Gated, Wrapped, v
    <3>4. Rest' /\ alive' = alive
      BY <2>2 DEF Sound, Rest, clientVars
    <3> QED BY <2>2, <3>2, <3>3, <3>4, RequestsStay DEF Sound
  <2> QED BY <1>4, <2>1, <2>2 DEF qdwin_handle_clear_selection
<1>5. ASSUME NEW c \in Clients \cup {NONE}, qdwin_handle_set_keyboard_focus(c)
      PROVE  Sound'
  <2>1. CASE locked /\ ShellGone
    BY <2>1, ShellGoneOK
  <2>2. CASE FocusRequest(c, TRUE) /\ UNCHANGED <<req, silo, alive, windows, shell, locked>>
    <3>1. Rest'
      BY <2>2 DEF Sound, Rest, FocusRequest
    <3> QED BY <2>2, <3>1, FocusOK
  <2> QED BY <1>5, <2>1, <2>2 DEF qdwin_handle_set_keyboard_focus
<1>6. ASSUME NEW c \in Clients \cup {NONE}, NEW i \in Silos \cup {NONE},
             qdwin_handle_set_keyboard_focus_v2(c, i)
      PROVE  Sound'
  <2> DEFINE cross == c = NONE \/ i = NONE \/ i # silo
  <2>1. CASE locked /\ ShellGone
    BY <2>1, ShellGoneOK
  <2>2. CASE /\ FocusRequest(c, cross) /\ silo' = IF c = NONE THEN NONE ELSE i
             /\ UNCHANGED <<req, alive, windows, shell, locked>>
    <3>1. Rest'
      BY <2>2 DEF Sound, Rest, FocusRequest
    <3>2. cross \in BOOLEAN
      OBVIOUS
    <3> HIDE DEF cross
    <3> QED BY <2>2, <3>1, <3>2, FocusOK
  <2> QED BY <1>6, <2>1, <2>2 DEF qdwin_handle_set_keyboard_focus_v2
<1>7. CASE LockChanges
  <2>1. Rest' /\ UNCHANGED <<selVars, alive, req, shell>>
    BY <1>7 DEF Sound, Rest, LockChanges, clientVars
  <2> QED BY <2>1, SelStays DEF Sound
<1> QED BY <1>1, <1>2, <1>3, <1>4, <1>5, <1>6, <1>7 DEF ShellNext

\* No request is held and nothing is selected at first.
LEMMA InitSound == Init => GateHolds
<1> SUFFICES ASSUME Init PROVE Sound
  BY Pointwise
<1>1. NoRequest \in Request /\ NoRequest.st = "none" /\ NoRequest.fd = FALSE
      /\ NoRequest.sends = 0 /\ NoRequest.closes = 0
  BY DEF NoRequest, Request, Statuses
<1>2. Fine(NoRequest, {}, {}, NONE)
  BY <1>1 DEF Fine
<1>3. Selection \in SelType
  BY DEF Init, Selection, SelType
<1>4. Gated(Selection, alive)
  BY <1>3, Fields DEF Init, Gated, Wrapped, AllSources
<1> QED BY <1>1, <1>2, <1>4 DEF Init, Sound, Rest

\* The gate's properties, taken together, are inductive.
LEMMA NextSound == GateHolds /\ [Next]_vars => GateHolds'
<1> SUFFICES ASSUME Sound, [Next]_vars PROVE Sound'
  BY Pointwise, PTL
<1>1. ASSUME NEW r \in Requests, qdwin_data_offer_pending_timeout_cb(r)
      PROVE  Sound'
  <2>1. Fine(req[r], wraps, alive, shell) /\ req[r].st = "pending"
    BY <1>1 DEF Sound, qdwin_data_offer_pending_timeout_cb, pending
  <2>2. Fine(qdwin_data_offer_pending_free(qdwin_data_offer_pending_close(req[r], FALSE)),
             wraps, alive, shell)
    BY <2>1, CloseFine
  <2> QED BY <1>1, <2>2, OneRequest DEF qdwin_data_offer_pending_timeout_cb
<1>2. CASE UNCHANGED vars
  <2>1. Rest' /\ UNCHANGED <<selVars, alive, req, shell>>
    BY <1>2 DEF Sound, Rest, vars, selVars
  <2> QED BY <2>1, SelStays DEF Sound
<1> QED BY <1>1, <1>2, ClientStep, ShellStep DEF Next

-----------------------------------------------------------------------------

\* For any clients, sources, requests and shells, all four at once.
THEOREM SpecGateHolds == Spec => []GateHolds
<1> QED BY InitSound, NextSound, PTL DEF Spec

\* Every pointer in a pending entry, and behind every wrap, is good
\* (qdwin_data_source_wrap_on_source_destroy, qdwin_data_offer_target_destroyed).
THEOREM SpecPendingSound == Spec => []PendingSound
<1>1. GateHolds => PendingSound
  BY DEF GateHolds
<1> QED BY <1>1, SpecGateHolds, PTL

\* A descriptor is sent or closed once, whoever comes first
\* (qdwin_data_offer_pending_close and _free).
THEOREM SpecDescriptorSettledOnce == Spec => []DescriptorSettledOnce
<1>1. GateHolds => DescriptorSettledOnce
  BY DEF GateHolds
<1> QED BY <1>1, SpecGateHolds, PTL

\* A replacement shell never inherits an outstanding approval
\* (qdwin_shell_resource_destroy).
THEOREM SpecAskedShellDecides == Spec => []AskedShellDecides
<1>1. GateHolds => AskedShellDecides
  BY DEF GateHolds
<1> QED BY <1>1, SpecGateHolds, PTL

\* Whatever is selected or offered carries the shim, and a descriptor reaches its source
\* only with the shell's permission (qdwin_install_data_source_wrap,
\* qdwin_handle_data_offer_receive_decision).
THEOREM SpecNothingPastTheGate == Spec => []NothingPastTheGate
<1>1. GateHolds => NothingPastTheGate
  BY DEF GateHolds
<1> QED BY <1>1, SpecGateHolds, PTL
=============================================================================
