------------------------ MODULE ActivationGateProofs ------------------------
(***************************************************************************)
(* The activation gate for any tokens, toplevels, surfaces and shells.     *)
(* TokensSound is inductive; the action properties follow from it.         *)
(***************************************************************************)
EXTENDS ActivationGate, TLAPS

\* What TokensSound says of one token t with its pending entry p, a activations and the
\* live surfaces S.
Fine(t, p, a, S) ==
    /\ t \in Token /\ p \in Pending /\ a \in Nat
    /\ t.udata \/ p.owns <=> t.st # "none" /\ t.frees = 0
    /\ t.requester # NONE => t.requester \in S
    /\ p.st = "pending" \/ a > 0 => t.st = "used"
    /\ a > 0 => p.st # "pending"

\* What it says of the rest.
Rest ==
    /\ surfaces \subseteq Surfaces
    /\ removed \subseteq Toplevels
    /\ toplevels \subseteq {tl \in Toplevels \ removed : SurfaceOf[tl] \in surfaces}
    /\ shell \in Shells \cup {NONE}
    /\ locked \in BOOLEAN

\* The types of the tables that are indexed by tokens.
Tables ==
    /\ tok \in [Tokens -> Token]
    /\ pend \in [Tokens -> Pending]
    /\ acts \in [Tokens -> Nat]

\* The two together.
Sound ==
    Tables /\ Rest /\ \A k \in Tokens : Fine(tok[k], pend[k], acts[k], surfaces)

\* TokensSound, token by token.
LEMMA Pointwise == TokensSound <=> Sound
<1>1. ASSUME Tables, NEW k \in Tokens
      PROVE  Fine(tok[k], pend[k], acts[k], surfaces)
               <=> /\ tok[k].frees <= 1
                   /\ tok[k].udata \/ pend[k].owns => created(k) /\ ~ freed(k)
                   /\ created(k) /\ ~ freed(k) => tok[k].udata \/ pend[k].owns
                   /\ tok[k].requester # NONE => tok[k].requester \in surfaces
                   /\ pending(k) \/ acts[k] > 0 => tok[k].st = "used"
                   /\ acts[k] > 0 => ~ pending(k)
  <2>1. tok[k] \in Token /\ pend[k] \in Pending /\ acts[k] \in Nat
    BY <1>1 DEF Tables
  <2>2. tok[k].frees \in {0, 1}
    BY <2>1 DEF Token
  <2> QED BY <2>1, <2>2 DEF Fine, created, freed, pending
<1> QED BY <1>1 DEF TokensSound, TypeOK, TokenFreedOnce, RequesterLive, UsedBeforePerformed,
           Tables, Rest, Sound

\* No token exists at first (qdwin_activation_init).
LEMMA InitSound == Init => TokensSound
<1> SUFFICES ASSUME Init PROVE Sound
  BY Pointwise
<1>1. NoToken \in Token /\ NoPending \in Pending
  BY DEF NoToken, NoPending, Token, Pending
<1>2. Fine(NoToken, NoPending, 0, {})
  BY <1>1 DEF Fine, NoToken, NoPending
<1> QED BY <1>1, <1>2 DEF Init, Sound, Tables, Rest

\* A function updated by what it already has.
LEMMA Same ==
  ASSUME NEW S, NEW T, NEW f \in [S -> T], NEW x \in S
  PROVE  f = [f EXCEPT ![x] = f[x]]
  OBVIOUS

\* One token changes, with its entry.
LEMMA Update ==
  ASSUME Sound, NEW k \in Tokens, NEW t, NEW p, NEW a, Fine(t, p, a, surfaces),
         tok' = [tok EXCEPT ![k] = t],
         pend' = [pend EXCEPT ![k] = p],
         acts' = [acts EXCEPT ![k] = a],
         UNCHANGED <<surfaces, toplevels, removed, shell, locked>>
  PROVE  Sound'
<1>1. t \in Token /\ p \in Pending /\ a \in Nat
  BY DEF Fine
<1>2. Tables' /\ Rest'
  BY <1>1 DEF Sound, Tables, Rest
<1>3. ASSUME NEW j \in Tokens
      PROVE  Fine(tok'[j], pend'[j], acts'[j], surfaces')
  BY <1>3 DEF Sound, Tables
<1> QED BY <1>2, <1>3 DEF Sound

\* Freeing the token of a pending entry or of an object keeps Fine.
LEMMA FreeFine ==
  ASSUME NEW t, NEW p, NEW a, NEW S, Fine(t, p, a, S), t.udata \/ p.owns,
         NEW q \in Pending, ~ q.owns, q.st = "pending" => p.st = "pending",
         NEW b \in Nat, b = a \/ (t.st = "used" /\ q.st # "pending")
  PROVE  Fine(qdwin_activation_token_free(t), q, b, S)
<1>1. t \in Token /\ t.st # "none" /\ t.frees = 0
  BY DEF Fine
<1>2. qdwin_activation_token_free(t) = [t EXCEPT !.requester = NONE, !.udata = FALSE, !.frees = 1]
  BY <1>1 DEF qdwin_activation_token_free
<1>3. qdwin_activation_token_free(t) \in Token
  BY <1>1, <1>2 DEF Token
<1>4. /\ qdwin_activation_token_free(t).st = t.st
      /\ qdwin_activation_token_free(t).requester = NONE
      /\ qdwin_activation_token_free(t).udata = FALSE
      /\ qdwin_activation_token_free(t).frees = 1
  BY <1>1, <1>2 DEF Token
<1> QED BY <1>1, <1>3, <1>4 DEF Fine

\* An entry leaves the list: its timer expires, or it is decided.
LEMMA EntryEnds ==
  ASSUME Sound, NEW k \in Tokens, pending(k), qdwin_activation_pending_free({k}),
         NEW b \in Nat, acts' = [acts EXCEPT ![k] = b],
         UNCHANGED <<surfaces, toplevels, removed, shell, locked>>
  PROVE  Sound'
<1> USE DEF Sound
<1> DEFINE t == tok[k]
           p == pend[k]
           u == IF p.owns THEN qdwin_activation_token_free(t) ELSE t
<1>1. Fine(t, p, acts[k], surfaces)
  OBVIOUS
<1>2. NoPending \in Pending /\ NoPending.owns = FALSE /\ NoPending.st = "none"
  BY DEF NoPending, Pending
<1>3. t \in Token /\ t.st = "used"
  BY <1>1 DEF Fine, pending
<1>4. Fine(u, NoPending, b, surfaces)
  <2>1. CASE p.owns
    BY <1>1, <1>2, <1>3, <2>1, FreeFine
  <2>2. CASE ~ p.owns
    BY <1>1, <1>2, <1>3, <2>2 DEF Fine
  <2> QED BY <2>1, <2>2
<1>5. tok' = [tok EXCEPT ![k] = u]
  BY DEF qdwin_activation_pending_free, Tables
<1>6. pend' = [pend EXCEPT ![k] = NoPending]
  BY DEF qdwin_activation_pending_free, Tables
<1> HIDE DEF u
<1> QED BY <1>4, <1>5, <1>6, Update

\* The requests on a token, its activation and the timer.
LEMMA TokenStep ==
  ASSUME Sound, TokenNext
  PROVE  Sound'
<1> USE DEF Sound
<1> PICK k \in Tokens :
      \/ qdwin_activation_get_activation_token(k)
      \/ \E s \in Surfaces \cup {NONE} : qdwin_activation_token_set_surface(k, s)
      \/ qdwin_activation_token_commit(k)
      \/ qdwin_activation_token_resource_destroy(k)
      \/ \E s \in Surfaces : qdwin_activation_activate(k, s)
      \/ qdwin_activation_pending_timeout_cb(k)
  BY DEF TokenNext
<1> DEFINE t == tok[k]
           p == pend[k]
           a == acts[k]
<1>a. Fine(t, p, a, surfaces)
  OBVIOUS
<1>b. t \in Token /\ p \in Pending /\ a \in Nat
  BY <1>a DEF Fine
<1>c. tok = [tok EXCEPT ![k] = t] /\ pend = [pend EXCEPT ![k] = p] /\ acts = [acts EXCEPT ![k] = a]
  BY Same DEF Tables
<1>1. CASE qdwin_activation_get_activation_token(k)
  <2> DEFINE u == [NoToken EXCEPT !.st = "open", !.object = TRUE, !.udata = TRUE]
  <2>a. /\ u \in Token
        /\ u.st = "open" /\ u.udata = TRUE /\ u.frees = 0 /\ u.requester = NONE
    BY DEF NoToken, Token
  <2> HIDE DEF u
  <2>1. Fine(u, p, a, surfaces)
    BY <2>a, <1>a, <1>1 DEF Fine, qdwin_activation_get_activation_token, created
  <2>2. tok' = [tok EXCEPT ![k] = u]
    BY <1>1 DEF qdwin_activation_get_activation_token, u
  <2> QED BY <2>1, <2>2, <1>c, <1>1, Update DEF qdwin_activation_get_activation_token
<1>2. ASSUME NEW s \in Surfaces \cup {NONE}, qdwin_activation_token_set_surface(k, s)
      PROVE  Sound'
  <2> DEFINE u == [t EXCEPT !.requester = s]
  <2>1. Fine(u, p, a, surfaces)
    BY <1>a, <1>b, <1>2 DEF Fine, Token, qdwin_activation_token_set_surface
  <2> HIDE DEF u
  <2>2. tok' = [tok EXCEPT ![k] = u]
    BY <1>2 DEF qdwin_activation_token_set_surface, u
  <2> QED BY <2>1, <2>2, <1>c, <1>2, Update DEF qdwin_activation_token_set_surface
<1>3. CASE qdwin_activation_token_commit(k)
  <2>1. PICK ok \in BOOLEAN : tok' = [tok EXCEPT ![k].st = IF ok THEN "issued" ELSE "mute"]
    BY <1>3, ActivationConstants DEF qdwin_activation_token_commit, AllocOutcomes
  <2> DEFINE u == [t EXCEPT !.st = IF ok THEN "issued" ELSE "mute"]
  <2>2. /\ u \in Token /\ u.udata = t.udata /\ u.frees = t.frees /\ u.requester = t.requester
        /\ u.st \in {"issued", "mute"}
    BY <1>b DEF Token
  <2>3. tok' = [tok EXCEPT ![k] = u]
    BY <2>1
  <2> HIDE DEF u
  <2>4. t.st = "open"
    BY <1>3 DEF qdwin_activation_token_commit
  <2>5. Fine(u, p, a, surfaces)
    BY <1>a, <2>2, <2>4 DEF Fine
  <2> QED BY <2>3, <2>5, <1>c, <1>3, Update DEF qdwin_activation_token_commit
<1>4. CASE qdwin_activation_token_resource_destroy(k)
  <2> DEFINE u == [t EXCEPT !.object = FALSE]
             q == qdwin_activation_pending_drop_token_refs(p)
  <2>1. /\ u \in Token /\ u.udata = t.udata /\ u.frees = t.frees /\ u.requester = t.requester
        /\ u.st = t.st
    BY <1>b DEF Token
  <2>2. q \in Pending /\ q.st = p.st /\ q.owns = FALSE
    BY <1>b DEF Pending, qdwin_activation_pending_drop_token_refs
  <2>3. CASE t.udata
    <3>1. /\ tok' = [tok EXCEPT ![k] = qdwin_activation_token_free(u)]
          /\ pend' = [pend EXCEPT ![k] = q]
      BY <1>4, <2>3 DEF qdwin_activation_token_resource_destroy
    <3> HIDE DEF u, q
    <3>2. Fine(u, p, a, surfaces)
      BY <1>a, <2>1 DEF Fine
    <3>3. Fine(qdwin_activation_token_free(u), q, a, surfaces)
      BY <1>b, <3>2, <2>1, <2>2, <2>3, FreeFine
    <3> QED BY <3>1, <3>3, <1>c, <1>4, Update DEF qdwin_activation_token_resource_destroy
  <2>4. CASE ~ t.udata
    <3>1. tok' = [tok EXCEPT ![k] = u] /\ pend' = pend
      BY <1>4, <2>4 DEF qdwin_activation_token_resource_destroy
    <3> HIDE DEF u
    <3>2. Fine(u, p, a, surfaces)
      BY <1>a, <2>1 DEF Fine
    <3> QED BY <3>1, <3>2, <1>c, <1>4, Update DEF qdwin_activation_token_resource_destroy
  <2> QED BY <2>3, <2>4
<1>5. ASSUME NEW s \in Surfaces, qdwin_activation_activate(k, s)
      PROVE  Sound'
  <2> DEFINE u == UsedToken(k)
             q == qdwin_activation_pending_drop_token_refs(p)
             tls == ToplevelsOn(s)
             b == IF performed_at_once(tls) THEN a + 1 ELSE a
  <2>1. t.st = "issued" /\ t.frees = 0 /\ p.st = "none" /\ a = 0 /\ (t.udata \/ p.owns)
    BY <1>a, <1>b, <1>5 DEF Fine, Token, Pending, qdwin_activation_activate,
       qdwin_activation_token_find, freed
  <2>2. /\ u \in Token /\ u.udata = t.udata /\ u.frees = t.frees /\ u.requester = t.requester
        /\ u.st = "used"
    BY <1>b DEF Token, UsedToken
  <2>3. q \in Pending /\ q.st = p.st /\ q.owns = FALSE
    BY <1>b DEF Pending, qdwin_activation_pending_drop_token_refs
  <2>4. Fine(u, p, a, surfaces)
    <3> HIDE DEF u
    <3> QED BY <1>a, <2>1, <2>2 DEF Fine
  <2>5. CASE /\ tok' = [tok EXCEPT ![k] = qdwin_activation_token_free(u)]
             /\ pend' = [pend EXCEPT ![k] = q]
             /\ acts' = IF performed_at_once(tls) THEN [acts EXCEPT ![k] = @ + 1] ELSE acts
    <3>1. acts' = [acts EXCEPT ![k] = b] /\ b \in Nat
      <4>1. CASE performed_at_once(tls)
        <5>1. b = a + 1 /\ b \in Nat
          BY <1>b, <4>1
        <5> QED BY <5>1, <4>1, <2>5
      <4>2. CASE ~ performed_at_once(tls)
        <5>1. b = a /\ b \in Nat
          BY <1>b, <4>2
        <5> QED BY <5>1, <4>2, <2>5, <1>c
      <4> QED BY <4>1, <4>2
    <3> HIDE DEF u, q, b
    <3>2. u.udata \/ p.owns
      BY <2>1, <2>2
    <3>3. ~ q.owns /\ q.st # "pending"
      BY <2>1, <2>3
    <3>4. Fine(qdwin_activation_token_free(u), q, b, surfaces)
      BY <2>2, <2>3, <2>4, <3>1, <3>2, <3>3, FreeFine
    <3> QED BY <2>5, <3>1, <3>4, <1>5, Update DEF qdwin_activation_activate
  <2>6. ASSUME NEW tl \in tls, NEW timer_ok \in AllocOutcomes,
               tok' = [tok EXCEPT ![k] = u],
               pend' = [pend EXCEPT ![k] = [st |-> "pending", target |-> tl,
                                            owns |-> TRUE, timer |-> timer_armed(timer_ok)]],
               acts' = acts
        PROVE  Sound'
    <3> DEFINE r == [st |-> "pending", target |-> tl,
                     owns |-> TRUE, timer |-> timer_armed(timer_ok)]
    <3>1. tl \in Toplevels
      BY DEF ToplevelsOn, Rest
    <3>2. r \in Pending /\ r.st = "pending" /\ r.owns = TRUE
      BY <3>1 DEF Pending, timer_armed
    <3>3. pend' = [pend EXCEPT ![k] = r]
      BY <2>6
    <3> HIDE DEF u, r
    <3>4. Fine(u, r, a, surfaces)
      BY <2>1, <2>2, <2>4, <3>2 DEF Fine
    <3> QED BY <2>6, <3>3, <3>4, <1>c, <1>5, Update DEF qdwin_activation_activate
  <2> QED BY <1>5, <2>5, <2>6 DEF qdwin_activation_activate
<1>6. CASE qdwin_activation_pending_timeout_cb(k)
  BY <1>6, <1>b, <1>c, EntryEnds DEF qdwin_activation_pending_timeout_cb
<1> QED BY <1>1, <1>2, <1>3, <1>4, <1>5, <1>6

\* The shell comes, goes and decides; the lock changes.
LEMMA ShellStep ==
  ASSUME Sound, ShellNext \/ LockChanges
  PROVE  Sound'
<1>1. CASE \E q \in Shells : qdwin_handle_bind_as_shell(q)
  BY <1>1 DEF Sound, Tables, Rest, qdwin_handle_bind_as_shell
<1>2. CASE qdwin_shell_resource_destroy
  BY <1>2 DEF Sound, Tables, Rest, qdwin_shell_resource_destroy
<1>3. CASE LockChanges
  BY <1>3 DEF Sound, Tables, Rest, LockChanges
<1>4. ASSUME NEW k \in Tokens, NEW allow \in BOOLEAN, qdwin_handle_activation_decision(k, allow)
      PROVE  Sound'
  <2>1. acts \in [Tokens -> Nat]
    BY DEF Sound, Tables
  <2>2. PICK b \in Nat : acts' = [acts EXCEPT ![k] = b]
    <3>1. CASE acts' = [acts EXCEPT ![k] = @ + 1]
      <4>1. acts' = [acts EXCEPT ![k] = acts[k] + 1] /\ acts[k] + 1 \in Nat
        BY <2>1, <3>1
      <4> QED BY <4>1
    <3>2. CASE acts' = acts
      BY <2>1, <3>2, Same
    <3> QED BY <1>4, <3>1, <3>2 DEF qdwin_handle_activation_decision
  <2> QED BY <1>4, <2>2, EntryEnds DEF qdwin_handle_activation_decision
<1> QED BY <1>1, <1>2, <1>3, <1>4 DEF ShellNext

\* Surfaces and toplevels come and go, with their listeners.
LEMMA SurfaceStep ==
  ASSUME Sound, SurfaceNext
  PROVE  Sound'
<1>1. ASSUME NEW s \in Surfaces, SurfaceCreated(s)
      PROVE  Sound'
  <2>1. Tables' /\ Rest'
    BY <1>1 DEF Sound, Tables, Rest, SurfaceCreated
  <2>2. ASSUME NEW k \in Tokens
        PROVE  Fine(tok'[k], pend'[k], acts'[k], surfaces')
    BY <1>1, <2>2 DEF Sound, Fine, SurfaceCreated
  <2> QED BY <2>1, <2>2 DEF Sound
<1>2. ASSUME NEW s \in Surfaces, SurfaceDestroyed(s)
      PROVE  Sound'
  <2> DEFINE hit == {k \in Tokens : pending(k) /\ SurfaceOf[pend[k].target] = s}
             r(k) == qdwin_activation_requesting_surface_destroyed(tok[k], s)
  <2>1. Rest'
    BY <1>2 DEF Sound, Rest, SurfaceDestroyed, without_toplevel, ToplevelsOn
  <2>2. NoPending \in Pending /\ NoPending.owns = FALSE /\ NoPending.st = "none"
    BY DEF NoPending, Pending
  <2>3. ASSUME NEW k \in Tokens
        PROVE  Fine(r(k), pend[k], acts[k], surfaces')
    <3>1. Fine(tok[k], pend[k], acts[k], surfaces) /\ tok[k] \in Token
      BY DEF Sound, Fine
    <3>2. /\ r(k) \in Token /\ r(k).st = tok[k].st /\ r(k).udata = tok[k].udata
          /\ r(k).frees = tok[k].frees
          /\ r(k).requester = IF tok[k].requester = s THEN NONE ELSE tok[k].requester
      BY <3>1 DEF Token, qdwin_activation_requesting_surface_destroyed
    <3> HIDE DEF r
    <3> QED BY <3>1, <3>2, <1>2 DEF Fine, SurfaceDestroyed
  <2>4. ASSUME NEW k \in Tokens
        PROVE  Fine(tok'[k], pend'[k], acts'[k], surfaces')
    <3>1. /\ tok'[k] = IF k \in hit /\ pend[k].owns THEN qdwin_activation_token_free(r(k)) ELSE r(k)
          /\ pend'[k] = IF k \in hit THEN NoPending ELSE pend[k]
          /\ acts'[k] = acts[k]
      BY <1>2, <2>4 DEF SurfaceDestroyed
    <3>2. Fine(r(k), pend[k], acts[k], surfaces') /\ acts[k] \in Nat
      BY <2>3 DEF Fine
    <3> HIDE DEF r
    <3>3. CASE k \notin hit
      BY <3>1, <3>2, <3>3
    <3>4. CASE k \in hit /\ pend[k].owns
      BY <3>1, <3>2, <3>4, <2>2, FreeFine
    <3>5. CASE k \in hit /\ ~ pend[k].owns
      BY <3>1, <3>2, <3>5, <2>2 DEF Fine
    <3> QED BY <3>3, <3>4, <3>5
  <2>5. /\ tok' = [k \in Tokens |-> tok'[k]]
        /\ pend' = [k \in Tokens |-> pend'[k]]
        /\ acts' = acts
    BY <1>2 DEF SurfaceDestroyed
  <2>6. Tables'
    BY <2>4, <2>5 DEF Sound, Tables, Fine
  <2> QED BY <2>1, <2>4, <2>6 DEF Sound
<1>3. ASSUME NEW tl \in Toplevels, qdwin_surface_added(tl) \/ qdwin_surface_removed(tl)
      PROVE  Sound'
  <2>1. Rest'
    BY <1>3 DEF Sound, Rest, qdwin_surface_added, qdwin_surface_removed, without_toplevel
  <2> QED BY <1>3, <2>1 DEF Sound, Tables, qdwin_surface_added, qdwin_surface_removed
<1> QED BY <1>1, <1>2, <1>3 DEF SurfaceNext

\* TokensSound is inductive.
LEMMA NextSound == TokensSound /\ [Next]_vars => TokensSound'
<1> SUFFICES ASSUME Sound, [Next]_vars PROVE Sound'
  BY Pointwise, PTL
<1>1. CASE Next
  BY <1>1, TokenStep, ShellStep, SurfaceStep DEF Next
<1>2. CASE UNCHANGED vars
  BY <1>2 DEF vars, Sound, Tables, Rest
<1> QED BY <1>1, <1>2

\* For any tokens, toplevels, surfaces and shells: every token is freed once, by
\* whichever of its owners is last, nothing refers to it afterwards, and its requesting
\* surface is alive (qdwin_activation_token_free and its callers).
THEOREM SpecTokensSound == Spec => []TokensSound
<1> QED BY InitSound, NextSound, PTL DEF Spec

\* What a step does to the use of one token.
LEMMA UsesStep ==
  ASSUME Sound, [Next]_vars, NEW j \in Tokens
  PROVE  /\ tok[j].st = "used" => tok'[j].st = "used"
         /\ acts'[j] # acts[j] => /\ ~ locked /\ acts[j] = 0
                                  /\ qdwin_shell_can_receive_v12 => pending(j)
<1> DEFINE Goal == /\ tok[j].st = "used" => tok'[j].st = "used"
                   /\ acts'[j] # acts[j] => /\ ~ locked /\ acts[j] = 0
                                            /\ qdwin_shell_can_receive_v12 => pending(j)
<1>a. /\ tok \in [Tokens -> Token] /\ acts \in [Tokens -> Nat]
      /\ \A k \in Tokens : Fine(tok[k], pend[k], acts[k], surfaces)
  BY DEF Sound, Tables
<1>b. \A k \in Tokens : tok[k] \in Token
  BY <1>a
<1>c. \A t \in Token : qdwin_activation_token_free(t).st = t.st
  BY DEF qdwin_activation_token_free, Token
<1>1. CASE TokenNext
  <2> PICK k \in Tokens :
        \/ qdwin_activation_get_activation_token(k)
        \/ \E s \in Surfaces \cup {NONE} : qdwin_activation_token_set_surface(k, s)
        \/ qdwin_activation_token_commit(k)
        \/ qdwin_activation_token_resource_destroy(k)
        \/ \E s \in Surfaces : qdwin_activation_activate(k, s)
        \/ qdwin_activation_pending_timeout_cb(k)
    BY <1>1 DEF TokenNext
  <2>1. CASE qdwin_activation_get_activation_token(k)
    BY <2>1, <1>a DEF qdwin_activation_get_activation_token, created
  <2>2. ASSUME NEW s, qdwin_activation_token_set_surface(k, s) PROVE Goal
    BY <2>2, <1>a, <1>b DEF qdwin_activation_token_set_surface, Token
  <2>3. CASE qdwin_activation_token_commit(k)
    BY <2>3, <1>a, <1>b DEF qdwin_activation_token_commit
  <2>4. CASE qdwin_activation_token_resource_destroy(k)
    <3> DEFINE u == [tok[k] EXCEPT !.object = FALSE]
    <3>1. u \in Token /\ u.st = tok[k].st
      BY <1>b DEF Token
    <3>2. tok' = [tok EXCEPT ![k] = qdwin_activation_token_free(u)] \/ tok' = [tok EXCEPT ![k] = u]
      BY <2>4 DEF qdwin_activation_token_resource_destroy
    <3>3. acts' = acts
      BY <2>4 DEF qdwin_activation_token_resource_destroy
    <3> HIDE DEF u
    <3> QED BY <3>1, <3>2, <3>3, <1>a, <1>c
  <2>5. ASSUME NEW s \in Surfaces, qdwin_activation_activate(k, s) PROVE Goal
    <3>1. tok[k].st = "issued" /\ acts[k] = 0
      BY <2>5, <1>a DEF qdwin_activation_activate, qdwin_activation_token_find, Fine
    <3>2. UsedToken(k) \in Token /\ UsedToken(k).st = "used"
      BY <1>b DEF UsedToken, Token
    <3>3. \/ tok' = [tok EXCEPT ![k] = qdwin_activation_token_free(UsedToken(k))]
          \/ tok' = [tok EXCEPT ![k] = UsedToken(k)]
      BY <2>5 DEF qdwin_activation_activate
    <3>4. tok[j].st = "used" => tok'[j].st = "used"
      BY <3>2, <3>3, <1>a, <1>c
    <3>5. acts' = acts \/ (performed_at_once(ToplevelsOn(s)) /\ acts' = [acts EXCEPT ![k] = @ + 1])
      BY <2>5 DEF qdwin_activation_activate
    <3> QED BY <3>1, <3>4, <3>5, <1>a DEF performed_at_once
  <2>6. CASE qdwin_activation_pending_timeout_cb(k)
    BY <2>6, <1>b, <1>c DEF qdwin_activation_pending_timeout_cb, qdwin_activation_pending_free
  <2> QED BY <2>1, <2>2, <2>3, <2>4, <2>5, <2>6
<1>2. CASE ShellNext
  <2>1. CASE (\E q \in Shells : qdwin_handle_bind_as_shell(q)) \/ qdwin_shell_resource_destroy
    BY <2>1 DEF qdwin_handle_bind_as_shell, qdwin_shell_resource_destroy
  <2>2. ASSUME NEW k \in Tokens, NEW allow \in BOOLEAN, qdwin_handle_activation_decision(k, allow)
        PROVE  Goal
    <3>1. tok[j].st = "used" => tok'[j].st = "used"
      BY <2>2, <1>b, <1>c DEF qdwin_handle_activation_decision, qdwin_activation_pending_free
    <3>2. acts[k] = 0 /\ pending(k)
      BY <2>2, <1>a DEF qdwin_handle_activation_decision, Fine, pending
    <3>3. acts' = acts \/ (~ locked /\ acts' = [acts EXCEPT ![k] = @ + 1])
      BY <2>2 DEF qdwin_handle_activation_decision, perform_allowed
    <3> QED BY <3>1, <3>2, <3>3, <1>a
  <2> QED BY <1>2, <2>1, <2>2 DEF ShellNext
<1>3. CASE SurfaceNext
  <2>1. ASSUME NEW s \in Surfaces, SurfaceDestroyed(s) PROVE Goal
    <3> DEFINE r == qdwin_activation_requesting_surface_destroyed(tok[j], s)
    <3>1. r \in Token /\ r.st = tok[j].st
      BY <1>b DEF qdwin_activation_requesting_surface_destroyed, Token
    <3>2. tok'[j] \in {r, qdwin_activation_token_free(r)} /\ acts' = acts
      BY <2>1 DEF SurfaceDestroyed
    <3> HIDE DEF r
    <3> QED BY <3>1, <3>2, <1>c
  <2>2. ASSUME NEW s \in Surfaces, SurfaceCreated(s) PROVE Goal
    BY <2>2 DEF SurfaceCreated
  <2>3. ASSUME NEW tl \in Toplevels, qdwin_surface_added(tl) \/ qdwin_surface_removed(tl) PROVE Goal
    BY <2>3 DEF qdwin_surface_added, qdwin_surface_removed
  <2> QED BY <1>3, <2>1, <2>2, <2>3 DEF SurfaceNext
<1>4. CASE LockChanges \/ UNCHANGED vars
  BY <1>4 DEF LockChanges, vars
<1> QED BY <1>1, <1>2, <1>3, <1>4 DEF Next

\* No token activates twice, and a used one stays used (qdwin_activation_token_find).
THEOREM SpecSingleUse == Spec => SingleUse
<1>1. TokensSound /\ TokensSound' /\ [Next]_vars
        => [\A k \in Tokens :
             /\ acts'[k] > 0 => tok'[k].st = "used"
             /\ acts[k] > 0 => acts'[k] = acts[k]
             /\ tok[k].st = "used" => tok'[k].st = "used"]_vars
  <2> SUFFICES ASSUME TokensSound, TokensSound', [Next]_vars, NEW k \in Tokens
               PROVE  /\ acts'[k] > 0 => tok'[k].st = "used"
                      /\ acts[k] > 0 => acts'[k] = acts[k]
                      /\ tok[k].st = "used" => tok'[k].st = "used"
    OBVIOUS
  <2>1. Sound /\ Sound'
    BY Pointwise, PTL
  <2>2. Fine(tok'[k], pend'[k], acts'[k], surfaces') /\ Fine(tok[k], pend[k], acts[k], surfaces)
    BY <2>1 DEF Sound
  <2> QED BY <2>1, <2>2, UsesStep DEF Fine
<1> QED BY <1>1, SpecTokensSound, PTL DEF Spec, SingleUse

\* No activation is performed under the lock, a late approval included
\* (qdwin_activation_perform).
THEOREM SpecNoActivationWhileLocked == Spec => NoActivationWhileLocked
<1>1. TokensSound /\ TokensSound' /\ [Next]_vars => [acts' # acts => ~ locked]_vars
  <2> SUFFICES ASSUME TokensSound, TokensSound', [Next]_vars, acts' # acts
               PROVE  ~ locked
    OBVIOUS
  <2>1. Sound /\ Sound'
    BY Pointwise, PTL
  <2>2. acts \in [Tokens -> Nat] /\ acts' \in [Tokens -> Nat]
    BY <2>1 DEF Sound, Tables
  <2>3. PICK k \in Tokens : acts'[k] # acts[k]
    BY <2>2
  <2> QED BY <2>1, <2>3, UsesStep
<1> QED BY <1>1, SpecTokensSound, PTL DEF Spec, NoActivationWhileLocked

\* While a v12 shell is bound, only what waited for its decision is performed
\* (qdwin_activation_activate).
THEOREM SpecGatedByShell == Spec => GatedByShell
<1>1. TokensSound /\ TokensSound' /\ [Next]_vars
        => [\A k \in Tokens : acts'[k] > acts[k] /\ qdwin_shell_can_receive_v12 => pending(k)]_vars
  <2> SUFFICES ASSUME TokensSound, TokensSound', [Next]_vars, NEW k \in Tokens,
                      acts'[k] > acts[k], qdwin_shell_can_receive_v12
               PROVE  pending(k)
    OBVIOUS
  <2>1. Sound /\ Sound'
    BY Pointwise, PTL
  <2>2. acts[k] \in Nat /\ acts'[k] \in Nat
    BY <2>1 DEF Sound, Tables
  <2> QED BY <2>1, <2>2, UsesStep
<1> QED BY <1>1, SpecTokensSound, PTL DEF Spec, GatedByShell
=============================================================================
