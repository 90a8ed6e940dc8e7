--------------------------- MODULE ActivationGate ---------------------------
(***************************************************************************)
(* xdg-activation: tokens, and the activations qdwin holds until the shell *)
(* decides (qdwin.c, "xdg-activation-v1" and "spec/09").                   *)
(*                                                                         *)
(* A token object k has a protocol object of its client that may outlive   *)
(* it or die before it, and may be owned by the pending activation it      *)
(* started.  There is at most one such activation per token, so pend is    *)
(* indexed by the token; its handle is that index.  The model follows the  *)
(* three back-references: the object's user data (udata), the pending      *)
(* entry's token (owns) and the entry's target toplevel.                   *)
(*                                                                         *)
(* Toplevels and token objects are used once, so that a pointer to a freed *)
(* one can be told from a pointer to its successor.  A decision about a    *)
(* freed toplevel is undefined behaviour: it activates something or not.   *)
(* set_serial and set_app_id store values nothing here depends on.         *)
(***************************************************************************)
EXTENDS Naturals

CONSTANTS Tokens,        \* token objects (bound: each is created once)
          Toplevels,     \* qdwin_toplevel objects (bound: each is created once)
          Surfaces,      \* wl_surfaces
          SurfaceOf,     \* [Toplevels -> Surfaces]
          Shells, ShellVersion,
          AllocMayFail,
          NONE

ASSUME ActivationConstants ==
    /\ SurfaceOf \in [Toplevels -> Surfaces]
    /\ ShellVersion \in [Shells -> Nat]
    /\ AllocMayFail \in BOOLEAN
    /\ NONE \notin Toplevels \cup Surfaces \cup Shells

VARIABLES tok,        \* the token objects
          pend,       \* qdwin->activation_pending
          surfaces,   \* the live wl_surfaces
          toplevels,  \* qdwin->toplevels
          removed,    \* the toplevels that were freed
          shell,      \* qdwin->shell_resource
          locked,
          acts        \* history: activations performed with each token

vars == <<tok, pend, surfaces, toplevels, removed, shell, locked, acts>>

\* st: "none" not created, "open" before commit, "issued" findable by its string,
\* "mute" committed without one, "used".  frees counts qdwin_activation_token_free.
NoToken == [st |-> "none", object |-> FALSE, udata |-> FALSE, requester |-> NONE, frees |-> 0]
NoPending == [st |-> "none", target |-> NONE, owns |-> FALSE, timer |-> "none"]

Init ==
    /\ tok = [k \in Tokens |-> NoToken]
    /\ pend = [k \in Tokens |-> NoPending]
    /\ surfaces = {}
    /\ toplevels = {}
    /\ removed = {}
    /\ shell = NONE
    /\ locked = FALSE
    /\ acts = [k \in Tokens |-> 0]

timer_armed_bad(ok) ==
    IF ok THEN "idle" ELSE "none"

\* ap->timeout_source: "none" if wl_event_loop_add_timer failed, "armed" once it is
\* set to 10 s; an "idle" one never fires.
timer_armed(ok) ==
    IF ok THEN "armed" ELSE "none"

AllocOutcomes == IF AllocMayFail THEN BOOLEAN ELSE {TRUE}

created(k) == tok[k].st # "none"
freed(k) == tok[k].frees > 0
pending(k) == pend[k].st = "pending"

-----------------------------------------------------------------------------
(* Freeing.  A definition ending in _bad is a faulty variant of the one      *)
(* that follows it, kept to show that the properties notice the fault.       *)

qdwin_activation_token_free_bad(t) ==
    [t EXCEPT !.requester = NONE, !.frees = @ + 1]

qdwin_activation_token_free(t) ==
    [t EXCEPT !.requester = NONE, !.udata = FALSE, !.frees = @ + 1]

\* No entry of the list refers to a token that is freed.
qdwin_activation_pending_drop_token_refs(p) ==
    [p EXCEPT !.owns = FALSE]

\* The entry leaves the list, then frees the token it still owns.
qdwin_activation_pending_free(ks) ==
    /\ tok' = [k \in Tokens |-> IF k \in ks /\ pend[k].owns
                                THEN qdwin_activation_token_free(tok[k])
                                ELSE tok[k]]
    /\ pend' = [k \in Tokens |-> IF k \in ks THEN NoPending ELSE pend[k]]

-----------------------------------------------------------------------------
(* xdg_activation_token_v1                                                   *)

qdwin_activation_get_activation_token(k) ==
    /\ ~ created(k)
    /\ tok' = [tok EXCEPT ![k] = [NoToken EXCEPT !.st = "open", !.object = TRUE, !.udata = TRUE]]
    /\ UNCHANGED <<pend, surfaces, toplevels, removed, shell, locked, acts>>

qdwin_activation_token_set_surface(k, s) ==
    /\ tok[k].udata
    /\ tok[k].st = "open"
    /\ s \in surfaces \cup {NONE}
    /\ tok' = [tok EXCEPT ![k].requester = s]
    /\ UNCHANGED <<pend, surfaces, toplevels, removed, shell, locked, acts>>

\* ok: a random string could be made.
qdwin_activation_token_commit(k) ==
    /\ tok[k].udata
    /\ tok[k].st = "open"
    /\ \E ok \in AllocOutcomes :
         tok' = [tok EXCEPT ![k].st = IF ok THEN "issued" ELSE "mute"]
    /\ UNCHANGED <<pend, surfaces, toplevels, removed, shell, locked, acts>>

\* The client destroys the object, or disconnects.
qdwin_activation_token_resource_destroy(k) ==
    /\ tok[k].object
    /\ LET t == [tok[k] EXCEPT !.object = FALSE]
       IN  IF tok[k].udata
           THEN /\ tok' = [tok EXCEPT ![k] = qdwin_activation_token_free(t)]
                /\ pend' = [pend EXCEPT ![k] = qdwin_activation_pending_drop_token_refs(@)]
           ELSE tok' = [tok EXCEPT ![k] = t] /\ UNCHANGED pend
    /\ UNCHANGED <<surfaces, toplevels, removed, shell, locked, acts>>

-----------------------------------------------------------------------------
(* activate, and the decision                                                *)

qdwin_activation_token_find_bad(k) ==
    tok[k].st \in {"issued", "used"} /\ ~ freed(k)

\* Listed, with a string, and not used.
qdwin_activation_token_find(k) ==
    tok[k].st = "issued" /\ ~ freed(k)

UsedToken(k) == [tok[k] EXCEPT !.st = "used"]

qdwin_shell_can_receive_v12 ==
    shell # NONE /\ ShellVersion[shell] >= 12

perform_allowed_bad ==
    TRUE

\* The broker's answer can come after the session was locked.
perform_allowed ==
    ~ locked

\* qdwin_toplevel_from_wl_surface
ToplevelsOn(s) == {tl \in toplevels : SurfaceOf[tl] = s}

\* A calloc that fails denies: "gated activation must not auto-allow".
performed_at_once_bad(tls) ==
    tls # {} /\ ~ locked

\* Without a v12 shell to ask.
performed_at_once(tls) ==
    tls # {} /\ ~ locked /\ ~ qdwin_shell_can_receive_v12

\* A string that names no such token changes nothing.
qdwin_activation_activate(k, s) ==
    /\ qdwin_activation_token_find(k)
    /\ s \in surfaces
    /\ LET tls == ToplevelsOn(s)
           gated == tls # {} /\ ~ locked /\ qdwin_shell_can_receive_v12
       IN  \/ /\ gated => FALSE \in AllocOutcomes
              /\ tok' = [tok EXCEPT ![k] = qdwin_activation_token_free(UsedToken(k))]
              /\ pend' = [pend EXCEPT ![k] = qdwin_activation_pending_drop_token_refs(@)]
              /\ acts' = IF performed_at_once(tls) THEN [acts EXCEPT ![k] = @ + 1] ELSE acts
           \/ /\ gated
              /\ tok' = [tok EXCEPT ![k] = UsedToken(k)]
              /\ \E tl \in tls, timer_ok \in AllocOutcomes :
                   pend' = [pend EXCEPT ![k] = [st |-> "pending", target |-> tl,
                                                owns |-> TRUE, timer |-> timer_armed(timer_ok)]]
              /\ UNCHANGED acts
    /\ UNCHANGED <<surfaces, toplevels, removed, shell, locked>>

qdwin_activation_pending_timeout_cb(k) ==
    /\ pending(k)
    /\ pend[k].timer = "armed"
    /\ qdwin_activation_pending_free({k})
    /\ UNCHANGED <<surfaces, toplevels, removed, shell, locked, acts>>

\* allow: decision 0; deny and defer are alike.  perform consumes the token.
qdwin_handle_activation_decision(k, allow) ==
    /\ shell # NONE
    /\ ShellVersion[shell] >= 12
    /\ pending(k)
    /\ qdwin_activation_pending_free({k})
    /\ \/ /\ allow /\ perform_allowed
          /\ acts' = [acts EXCEPT ![k] = @ + 1]
       \/ /\ allow => ~ perform_allowed \/ pend[k].target \in removed
          /\ UNCHANGED acts
    /\ UNCHANGED <<surfaces, toplevels, removed, shell, locked>>

-----------------------------------------------------------------------------
(* Surfaces and toplevels, the shell, and the lock                           *)

without_toplevel(tls) ==
    toplevels \ tls

SurfaceCreated(s) ==
    /\ s \notin surfaces
    /\ surfaces' = surfaces \cup {s}
    /\ UNCHANGED <<tok, pend, toplevels, removed, shell, locked, acts>>

qdwin_surface_added(tl) ==
    /\ SurfaceOf[tl] \in surfaces
    /\ tl \notin toplevels \cup removed
    /\ ToplevelsOn(SurfaceOf[tl]) = {}
    /\ toplevels' = toplevels \cup {tl}
    /\ UNCHANGED <<tok, pend, surfaces, removed, shell, locked, acts>>

\* xdg_toplevel.destroy: the wl_surface stays.
qdwin_surface_removed(tl) ==
    /\ tl \in toplevels
    /\ toplevels' = without_toplevel({tl})
    /\ removed' = removed \cup {tl}
    /\ UNCHANGED <<tok, pend, surfaces, shell, locked, acts>>

qdwin_activation_requesting_surface_destroyed(t, s) ==
    IF t.requester = s THEN [t EXCEPT !.requester = NONE] ELSE t

\* The wl_surface is destroyed, and a toplevel on it with it.  The listeners are
\* qdwin_activation_requesting_surface_destroyed of the tokens and
\* qdwin_activation_pending_target_destroyed of the entries that target it.
SurfaceDestroyed(s) ==
    LET hit == {k \in Tokens : pending(k) /\ SurfaceOf[pend[k].target] = s}
    IN  /\ s \in surfaces
        /\ surfaces' = surfaces \ {s}
        /\ tok' = [k \in Tokens |->
                     LET t == qdwin_activation_requesting_surface_destroyed(tok[k], s)
                     IN  IF k \in hit /\ pend[k].owns THEN qdwin_activation_token_free(t) ELSE t]
        /\ pend' = [k \in Tokens |-> IF k \in hit THEN NoPending ELSE pend[k]]
        /\ toplevels' = without_toplevel(ToplevelsOn(s))
        /\ removed' = removed \cup ToplevelsOn(s)
        /\ UNCHANGED <<shell, locked, acts>>

qdwin_handle_bind_as_shell(q) ==
    /\ shell = NONE
    /\ shell' = q
    /\ UNCHANGED <<tok, pend, surfaces, toplevels, removed, locked, acts>>

\* The pending activations stay until their timer.
qdwin_shell_resource_destroy ==
    /\ shell # NONE
    /\ shell' = NONE
    /\ UNCHANGED <<tok, pend, surfaces, toplevels, removed, locked, acts>>

\* The session lock, modelled in QdwinLock.
LockChanges ==
    /\ locked' = ~ locked
    /\ UNCHANGED <<tok, pend, surfaces, toplevels, removed, shell, acts>>

TokenNext ==
    \E k \in Tokens :
      \/ qdwin_activation_get_activation_token(k)
      \/ \E s \in Surfaces \cup {NONE} : qdwin_activation_token_set_surface(k, s)
      \/ qdwin_activation_token_commit(k)
      \/ qdwin_activation_token_resource_destroy(k)
      \/ \E s \in Surfaces : qdwin_activation_activate(k, s)
      \/ qdwin_activation_pending_timeout_cb(k)

ShellNext ==
    \/ \E q \in Shells : qdwin_handle_bind_as_shell(q)
    \/ qdwin_shell_resource_destroy
    \/ \E k \in Tokens, allow \in BOOLEAN : qdwin_handle_activation_decision(k, allow)

SurfaceNext ==
    \/ \E s \in Surfaces : SurfaceCreated(s) \/ SurfaceDestroyed(s)
    \/ \E tl \in Toplevels : qdwin_surface_added(tl) \/ qdwin_surface_removed(tl)

Next == TokenNext \/ ShellNext \/ SurfaceNext \/ LockChanges

Spec == Init /\ [][Next]_vars

\* The event loop runs a timer that has expired.
TimerFairness ==
    \A k \in Tokens : WF_vars(qdwin_activation_pending_timeout_cb(k))

-----------------------------------------------------------------------------
(* Properties                                                                *)

Token == [st : {"none", "open", "issued", "mute", "used"}, object : BOOLEAN,
          udata : BOOLEAN, requester : Surfaces \cup {NONE}, frees : {0, 1}]

Pending == [st : {"none", "pending"}, target : Toplevels \cup {NONE},
            owns : BOOLEAN, timer : {"none", "idle", "armed"}]

TypeOK ==
    /\ tok \in [Tokens -> Token]
    /\ pend \in [Tokens -> Pending]
    /\ surfaces \subseteq Surfaces
    /\ removed \subseteq Toplevels
    /\ toplevels \subseteq {tl \in Toplevels \ removed : SurfaceOf[tl] \in surfaces}
    /\ shell \in Shells \cup {NONE}
    /\ locked \in BOOLEAN
    /\ acts \in [Tokens -> Nat]

\* A token is freed at most once and nothing refers to it afterwards, in whatever
\* order the client destroys its object and the decision, the timeout or the loss of
\* the target ends the activation: the object's user data and the pending entry's
\* token are severed by whoever frees it (qdwin_activation_token_free,
\* qdwin_activation_pending_drop_token_refs), and a token with neither owner is gone.
TokenFreedOnce ==
    \A k \in Tokens :
      /\ tok[k].frees <= 1
      /\ tok[k].udata \/ pend[k].owns => created(k) /\ ~ freed(k)
      /\ created(k) /\ ~ freed(k) => tok[k].udata \/ pend[k].owns

\* A live token's requesting surface is alive: src_handle is looked up through it
\* when the activation is announced (qdwin_activation_requesting_surface_destroyed).
RequesterLive ==
    \A k \in Tokens : tok[k].requester # NONE => tok[k].requester \in surfaces

\* "Tokens are single-use": a token activates at most once, and one that was used is
\* never found again, even while its activation is pending or after it was denied
\* (qdwin_activation_token_find, qdwin_activation_activate).
SingleUse ==
    [][\A k \in Tokens :
         /\ acts'[k] > 0 => tok'[k].st = "used"
         /\ acts[k] > 0 => acts'[k] = acts[k]
         /\ tok[k].st = "used" => tok'[k].st = "used"]_vars

\* "Never restack or focus a normal toplevel after lock entry": no activation is
\* performed while the session is locked, the ones the shell approves late included
\* (qdwin_activation_activate, qdwin_activation_perform).
NoActivationWhileLocked ==
    [][acts' # acts => ~ locked]_vars

\* While a shell that speaks v12 is bound, a token activates only through an
\* activation that was pending, which is its decision: a calloc that fails, or a shell
\* that binds between two requests, never lets one through (qdwin_activation_activate).
GatedByShell ==
    [][\A k \in Tokens : acts'[k] > acts[k] /\ qdwin_shell_can_receive_v12 => pending(k)]_vars

\* A pending activation whose timer could be created ends, by that 10 s timer if by
\* nothing else, also when the shell is gone or never answers
\* (qdwin_activation_pending_timeout_cb).
EveryActivationEnds ==
    \A k \in Tokens : pending(k) /\ pend[k].timer # "none" ~> ~ pending(k)

\* A token that waits for a decision is used and has activated nothing, and one that
\* has activated waits for nothing more (qdwin_activation_activate sets token->used
\* before it queues, qdwin_handle_activation_decision removes the entry as it performs).
UsedBeforePerformed ==
    \A k \in Tokens :
      /\ pending(k) \/ acts[k] > 0 => tok[k].st = "used"
      /\ acts[k] > 0 => ~ pending(k)

\* The objects of the gate are sound: of their type, every token freed once and unreferenced
\* afterwards, every requesting surface alive, none waiting that has activated
\* (qdwin_activation_token_free, qdwin_activation_requesting_surface_destroyed).
TokensSound ==
    TypeOK /\ TokenFreedOnce /\ RequesterLive /\ UsedBeforePerformed
=============================================================================
