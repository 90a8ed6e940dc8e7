----------------------------- MODULE TextInput -----------------------------
(***************************************************************************)
(* zwp_text_input_v3, zwp_input_method_v2 and zwp_virtual_keyboard_v1 on    *)
(* one seat: which text inputs have entered the focused surface, which of   *)
(* them the input method serves, whose keys go where.                       *)
(*                                                                         *)
(* An input method answers asynchronously.  The serials it echoes are       *)
(* abstracted to whether it has read every `done` (fresh) and whether one   *)
(* was sent since it began the requests of its next commit (batch):         *)
(* serial = done_count exactly when batch is "current".  What it composes   *)
(* is told apart by the text input whose latest content it had read.        *)
(***************************************************************************)
EXTENDS Integers, Sequences

CONSTANTS Surfaces, TextInputs, IMEs, VKs,
          OwnerOf,      \* the client of each surface and text input
          NONE,
          SUPERSEDED    \* text composed from a state that is no longer any input's latest

ASSUME TextConstants ==
    /\ NONE \notin Surfaces \cup TextInputs \cup IMEs
    /\ SUPERSEDED \notin TextInputs \cup {NONE}

VARIABLES seat,     \* the weston_seat exists
          plugged,  \* weston_seat_get_keyboard() returns it
          surf,     \* the wl_surfaces that exist
          focus,    \* keyboard->focus
          tis,      \* qdwin->text_inputs, newest first
          ti,       \* struct qdwin_text_input of each
          im,       \* struct qdwin_input_method of each
          kgrab,    \* keyboard->grab: NONE (default) or the grab of an IME
          kg,       \* the struct keyboard->grab points to
          vk,       \* struct qdwin_virtual_keyboard of each
          wrong     \* history: text reached an input, or a content, it was not composed for

vars == <<seat, plugged, surf, focus, tis, ti, im, kgrab, kg, vk, wrong>>

\* entered: ti->entered.  believes: the surfaces its client heard enter for and
\* no leave.  p_en, c_en: pending and current enable.  The double-buffered content is
\* left out: every commit changes it.
NoTextInput == [live |-> FALSE, entered |-> NONE, believes |-> {}, p_en |-> FALSE,
                c_en |-> FALSE]

\* ti: im->active_ti, with im->active.  shown: the last state sent had the input's latest
\* content.  knows: the text input whose latest content its client last read.  text:
\* im->pending_*, by the input it was composed for.  grab: im->grab is "none", "idle"
\* (g->keyboard = NULL) or "held".
NoIME == [live |-> FALSE, inert |-> FALSE, ti |-> NONE, knows |-> NONE, text |-> NONE,
          fresh |-> TRUE, batch |-> "none", shown |-> TRUE, grab |-> "none"]

NoVK == [live |-> FALSE, seat |-> FALSE, keymap |-> FALSE]

\* cancelled: weston_keyboard_cancel_grab was called on it.  freed: its memory is free.
\* used: libweston called through it after that, and the program is undefined.
Started == [cancelled |-> FALSE, freed |-> FALSE, used |-> FALSE]

Init ==
    /\ seat = TRUE /\ plugged = TRUE
    /\ surf = {} /\ focus = NONE
    /\ tis = <<>>
    /\ ti = [i \in TextInputs |-> NoTextInput]
    /\ im = [x \in IMEs |-> NoIME]
    /\ kgrab = NONE /\ kg = Started
    /\ vk = [v \in VKs |-> NoVK]
    /\ wrong = FALSE

keyboard == seat /\ plugged

-----------------------------------------------------------------------------
(* The input method of the seat, as functions of the records.  A definition  *)
(* ending in _bad is a faulty variant of the one that follows it, kept to    *)
(* show that the properties notice the fault.                                *)

\* zwp_input_method_v2_send_done and done_count++
Done(x) == [x EXCEPT !.fresh = FALSE,
                     !.batch = IF @ = "none" THEN "none" ELSE "stale"]

qdwin_im_send_state(x) == Done([x EXCEPT !.shown = TRUE])

qdwin_im_deactivate(x) ==
    IF x.ti = NONE THEN x ELSE Done([x EXCEPT !.ti = NONE, !.text = NONE])

qdwin_im_activate(x, t) ==
    qdwin_im_send_state([x EXCEPT !.ti = t, !.text = NONE])

\* qdwin_im_active_candidate: the first of the list that is entered and enabled.
qdwin_im_active_candidate(list, T) ==
    LET fit == {n \in DOMAIN list : T[list[n]].entered # NONE /\ T[list[n]].c_en}
    IN  IF fit = {} THEN NONE ELSE list[CHOOSE n \in fit : \A m \in fit : n <= m]

\* qdwin_im_for_seat
Serving(X) == {x \in IMEs : X[x].live /\ ~ X[x].inert}

sync_one(x, t) ==
    IF t # x.ti
    THEN IF t = NONE THEN qdwin_im_deactivate(x)
         ELSE qdwin_im_activate(qdwin_im_deactivate(x), t)
    ELSE IF t # NONE THEN qdwin_im_send_state(x) ELSE x

\* T: the text inputs as just changed, X: the input methods.
qdwin_im_sync_seat(list, T, X) ==
    [x \in IMEs |-> IF x \in Serving(X)
                    THEN sync_one(X[x], qdwin_im_active_candidate(list, T)) ELSE X[x]]

\* The content of t that x has read and composed for is no longer the latest.
superseded(x, t) ==
    [x EXCEPT !.knows = IF @ = t THEN NONE ELSE @,
              !.text = IF @ = t THEN SUPERSEDED ELSE @]

qdwin_im_text_input_gone(t) ==
    [x \in IMEs |-> LET y == superseded(im[x], t)
                   IN  IF y.ti = t THEN qdwin_im_deactivate(y) ELSE y]

-----------------------------------------------------------------------------
(* The keyboard focus                                                        *)

enter_leave(i, f) ==
    LET t == ti[i]
        want == IF f # NONE /\ OwnerOf[f] = OwnerOf[i] THEN f ELSE NONE
    IN  IF ~ t.live \/ want = t.entered THEN t
        ELSE [t EXCEPT !.entered = want,
                       !.believes = (@ \ {t.entered}) \cup ({want} \ {NONE})]

\* weston_keyboard_set_focus: the signal is sent whether or not the focus changed.
SetFocus(f) ==
    /\ focus' = f
    /\ ti' = [i \in TextInputs |-> enter_leave(i, f)]
    /\ im' = qdwin_im_sync_seat(tis, ti', im)

qdwin_on_keyboard_focus_changed(f) ==
    /\ keyboard
    /\ SetFocus(f)
    /\ UNCHANGED <<seat, plugged, surf, tis, kgrab, kg, vk, wrong>>

SurfaceCreated(s) ==
    /\ s \notin surf
    /\ surf' = surf \cup {s}
    /\ UNCHANGED <<seat, plugged, focus, tis, ti, im, kgrab, kg, vk, wrong>>

\* The resource's destroy listeners move the focus first; what is then still
\* entered (its seat has gone) is dropped without a leave.
qdwin_text_input_entered_destroyed(s) ==
    /\ s \in surf
    /\ surf' = surf \ {s}
    /\ IF seat /\ focus = s
       THEN SetFocus(NONE)
       ELSE /\ UNCHANGED <<focus, im>>
            /\ ti' = [i \in TextInputs |->
                        IF ti[i].entered = s
                        THEN [ti[i] EXCEPT !.entered = NONE, !.believes = @ \ {s}]
                        ELSE ti[i]]
    /\ UNCHANGED <<seat, plugged, tis, kgrab, kg, vk, wrong>>

\* libweston calls the grab of the keyboard, whatever is left of it.
called_through ==
    IF kgrab # NONE /\ kg.freed THEN [kg EXCEPT !.used = TRUE] ELSE kg

\* weston_seat_release_keyboard: the focus is dropped and the grab cancelled;
\* qdwin_im_grab_cancel forgets the keyboard, which keeps pointing to the grab.
weston_seat_release_keyboard ==
    /\ keyboard
    /\ plugged' = FALSE
    /\ focus' = NONE
    /\ ti' = [i \in TextInputs |-> enter_leave(i, NONE)]
    /\ LET X == qdwin_im_sync_seat(tis, ti', im)
       IN  im' = IF kgrab = NONE \/ kg.freed THEN X ELSE [X EXCEPT ![kgrab].grab = "idle"]
    /\ kg' = [called_through EXCEPT !.cancelled = (kgrab # NONE)]
    /\ UNCHANGED <<seat, surf, tis, kgrab, vk, wrong>>

weston_seat_init_keyboard ==
    /\ seat /\ ~ plugged
    /\ plugged' = TRUE
    /\ UNCHANGED <<seat, surf, focus, tis, ti, im, kgrab, kg, vk, wrong>>

detached(x) ==
    [im[x] EXCEPT !.ti = NONE, !.knows = NONE, !.text = NONE, !.batch = "none", !.fresh = TRUE,
                  !.shown = TRUE, !.grab = "none"]

\* weston_seat_release: the keyboard is freed without a focus change or a cancel,
\* then qdwin_im_seat_destroyed and qdwin_vk_seat_destroyed hear of it.
qdwin_im_seat_destroyed ==
    /\ seat
    /\ seat' = FALSE /\ focus' = NONE /\ kgrab' = NONE /\ kg' = Started
    /\ im' = [x \in IMEs |-> IF im[x].live
                             THEN [detached(x) EXCEPT !.inert = TRUE,
                                   !.grab = IF im[x].grab = "none" THEN @ ELSE "idle"]
                             ELSE im[x]]
    /\ vk' = [v \in VKs |-> [vk[v] EXCEPT !.seat = FALSE]]
    /\ UNCHANGED <<plugged, surf, tis, ti, wrong>>

-----------------------------------------------------------------------------
(* zwp_text_input_v3                                                         *)

\* On a seat that has gone the object is inert: nothing compares equal to its seat.
qdwin_text_input_manager_get_text_input(i) ==
    /\ seat
    /\ ~ ti[i].live
    /\ tis' = <<i>> \o tis
    /\ ti' = [j \in TextInputs |->
                IF j = i
                THEN LET f == IF keyboard THEN focus ELSE NONE
                         on == f # NONE /\ OwnerOf[f] = OwnerOf[i]
                     IN  [NoTextInput EXCEPT !.live = TRUE, !.entered = IF on THEN f ELSE NONE,
                                             !.believes = IF on THEN {f} ELSE {}]
                ELSE ti[j]]
    /\ im' = qdwin_im_sync_seat(tis', ti', im)
    /\ UNCHANGED <<seat, plugged, surf, focus, kgrab, kg, vk, wrong>>

qdwin_text_input_enable(i, on) ==
    /\ ti[i].live /\ ti[i].p_en # on
    /\ ti' = [ti EXCEPT ![i].p_en = on]
    /\ UNCHANGED <<seat, plugged, surf, focus, tis, im, kgrab, kg, vk, wrong>>

\* The content that set_surrounding_text, set_text_change_cause and set_content_type
\* buffered is applied with the enable state.
Outdated(i) ==
    [x \in IMEs |-> [superseded(im[x], i) EXCEPT !.shown = IF im[x].ti = i THEN FALSE ELSE @]]

qdwin_text_input_commit(i) ==
    /\ ti[i].live
    /\ ti' = [ti EXCEPT ![i].c_en = ti[i].p_en]
    /\ im' = IF seat THEN qdwin_im_sync_seat(tis, ti', Outdated(i)) ELSE Outdated(i)
    /\ UNCHANGED <<seat, plugged, surf, focus, tis, kgrab, kg, vk, wrong>>

\* wl_list_remove of the n-th link.
Without(list, n) == SubSeq(list, 1, n - 1) \o SubSeq(list, n + 1, Len(list))

\* The IME's target goes, and nobody else is served until the next focus or commit.
qdwin_text_input_resource_destroy(i) ==
    /\ ti[i].live
    /\ tis' = Without(tis, CHOOSE n \in DOMAIN tis : tis[n] = i)
    /\ ti' = [ti EXCEPT ![i] = NoTextInput]
    /\ im' = qdwin_im_text_input_gone(i)
    /\ UNCHANGED <<seat, plugged, surf, focus, kgrab, kg, vk, wrong>>

-----------------------------------------------------------------------------
(* zwp_input_method_v2                                                       *)

\* A second one on a seat, or one on a seat that has gone, is inert.
get_input_method(x) ==
    [NoIME EXCEPT !.live = TRUE, !.inert = (~ seat \/ Serving(im) # {})]

qdwin_im_manager_get_input_method(x) ==
    /\ ~ im[x].live
    /\ LET X == [im EXCEPT ![x] = get_input_method(x)]
       IN  im' = IF X[x].inert THEN X ELSE qdwin_im_sync_seat(tis, ti, X)
    /\ UNCHANGED <<seat, plugged, surf, focus, tis, ti, kgrab, kg, vk, wrong>>

\* The input method reads what it was sent, between two batches of requests.
ImeReads(x) ==
    /\ im[x].live /\ ~ im[x].fresh /\ im[x].batch = "none"
    /\ im' = [im EXCEPT ![x].fresh = TRUE, ![x].knows = IF im[x].shown THEN im[x].ti ELSE NONE]
    /\ UNCHANGED <<seat, plugged, surf, focus, tis, ti, kgrab, kg, vk, wrong>>

\* The batch that a request of the input method belongs to.
Batch(x) == IF x.batch # "none" THEN x.batch ELSE IF x.fresh THEN "current" ELSE "stale"

\* commit_string, set_preedit_string and delete_surrounding_text
qdwin_im_req_commit_string(x) ==
    /\ im[x].live /\ ~ im[x].inert
    /\ im' = [im EXCEPT ![x].text = IF im[x].knows # NONE THEN im[x].knows ELSE SUPERSEDED,
                        ![x].batch = Batch(im[x])]
    /\ UNCHANGED <<seat, plugged, surf, focus, tis, ti, kgrab, kg, vk, wrong>>

Applies_bad(x) ==
    /\ im[x].ti # NONE
    /\ ti[im[x].ti].c_en

\* Whether a commit with this batch's serial is applied.
Applies(x) ==
    /\ im[x].ti # NONE
    /\ ti[im[x].ti].c_en
    /\ Batch(im[x]) = "current"

\* Applied or not, nothing stays pending.
qdwin_im_req_commit(x) ==
    /\ im[x].live /\ ~ im[x].inert
    /\ im' = [im EXCEPT ![x].text = NONE, ![x].batch = "none"]
    /\ wrong' = (wrong \/ (Applies(x) /\ im[x].text \notin {NONE, im[x].ti}))
    /\ UNCHANGED <<seat, plugged, surf, focus, tis, ti, kgrab, kg, vk>>

\* qdwin_im_grab_resource_destroy: the keyboard is let go if it points here and
\* the grab was not cancelled.
ended(x) == IF im[x].grab = "held" /\ kgrab = x THEN NONE ELSE kgrab

\* The grab struct of x is freed, with k left in keyboard->grab.
freed(x, k) == IF k = x THEN [kg EXCEPT !.freed = TRUE] ELSE kg

qdwin_im_grab_resource_destroy(x) ==
    /\ im[x].live /\ im[x].grab # "none"
    /\ im' = [im EXCEPT ![x].grab = "none"]
    /\ kgrab' = ended(x)
    /\ kg' = freed(x, ended(x))
    /\ UNCHANGED <<seat, plugged, surf, focus, tis, ti, vk, wrong>>

\* A grab that the input method already has is destroyed first.
qdwin_im_req_grab_keyboard(x) ==
    /\ im[x].live /\ ~ im[x].inert
    /\ im' = [im EXCEPT ![x].grab = IF plugged THEN "held" ELSE "idle"]
    /\ kgrab' = IF plugged THEN x ELSE ended(x)
    /\ kg' = IF plugged THEN Started ELSE freed(x, ended(x))
    /\ UNCHANGED <<seat, plugged, surf, focus, tis, ti, vk, wrong>>

\* The grab resource is destroyed first, then qdwin_im_detach.
input_method_destroyed_bad(x) ==
    kgrab

input_method_destroyed(x) ==
    ended(x)

qdwin_input_method_resource_destroy(x) ==
    /\ im[x].live
    /\ im' = [im EXCEPT ![x] = NoIME]
    /\ kgrab' = input_method_destroyed(x)
    /\ kg' = freed(x, input_method_destroyed(x))
    /\ UNCHANGED <<seat, plugged, surf, focus, tis, ti, vk, wrong>>

-----------------------------------------------------------------------------
(* zwp_virtual_keyboard_v1, and where keys go                                *)

qdwin_vk_manager_create_virtual_keyboard(v) ==
    /\ ~ vk[v].live
    /\ vk' = [vk EXCEPT ![v] = [live |-> TRUE, seat |-> seat, keymap |-> FALSE]]
    /\ UNCHANGED <<seat, plugged, surf, focus, tis, ti, im, kgrab, kg, wrong>>

qdwin_vk_req_keymap(v) ==
    /\ vk[v].live /\ ~ vk[v].keymap
    /\ vk' = [vk EXCEPT ![v].keymap = TRUE]
    /\ UNCHANGED <<seat, plugged, surf, focus, tis, ti, im, kgrab, kg, wrong>>

\* A key before the keymap is a protocol error, which ends the client's object.
qdwin_vk_req_key(v) ==
    /\ vk[v].live
    /\ IF ~ vk[v].keymap THEN vk' = [vk EXCEPT ![v] = NoVK] ELSE UNCHANGED vk
    /\ kg' = IF vk[v].keymap /\ vk[v].seat /\ keyboard THEN called_through ELSE kg
    /\ UNCHANGED <<seat, plugged, surf, focus, tis, ti, im, kgrab, wrong>>

HardwareKey ==
    /\ keyboard
    /\ kg' = called_through
    /\ UNCHANGED <<seat, plugged, surf, focus, tis, ti, im, kgrab, vk, wrong>>

qdwin_virtual_keyboard_resource_destroy(v) ==
    /\ vk[v].live
    /\ vk' = [vk EXCEPT ![v] = NoVK]
    /\ UNCHANGED <<seat, plugged, surf, focus, tis, ti, im, kgrab, kg, wrong>>

-----------------------------------------------------------------------------
\* Nothing is known of the program once it called through a freed grab.
Undefined ==
    kg.used /\ UNCHANGED vars

Step ==
    \/ \E f \in surf \cup {NONE} : qdwin_on_keyboard_focus_changed(f)
    \/ \E s \in Surfaces : SurfaceCreated(s) \/ qdwin_text_input_entered_destroyed(s)
    \/ weston_seat_release_keyboard \/ weston_seat_init_keyboard
    \/ qdwin_im_seat_destroyed
    \/ \E i \in TextInputs :
        \/ qdwin_text_input_manager_get_text_input(i)
        \/ \E on \in BOOLEAN : qdwin_text_input_enable(i, on)
        \/ qdwin_text_input_commit(i)
        \/ qdwin_text_input_resource_destroy(i)
    \/ \E x \in IMEs :
        \/ qdwin_im_manager_get_input_method(x)
        \/ ImeReads(x)
        \/ qdwin_im_req_commit_string(x)
        \/ qdwin_im_req_commit(x)
        \/ qdwin_im_req_grab_keyboard(x)
        \/ qdwin_im_grab_resource_destroy(x)
        \/ qdwin_input_method_resource_destroy(x)
    \/ \E v \in VKs :
        \/ qdwin_vk_manager_create_virtual_keyboard(v)
        \/ qdwin_vk_req_keymap(v)
        \/ qdwin_vk_req_key(v)
        \/ qdwin_virtual_keyboard_resource_destroy(v)
    \/ HardwareKey

Next ==
    \/ ~ kg.used /\ Step
    \/ Undefined

Spec == Init /\ [][Next]_vars

-----------------------------------------------------------------------------
(* What the input method and the applications rely on                        *)

Entries(S) == [live : BOOLEAN, entered : S \cup {NONE}, believes : SUBSET S,
               p_en : BOOLEAN, c_en : BOOLEAN]
Methods == [live : BOOLEAN, inert : BOOLEAN, ti : TextInputs \cup {NONE},
            knows : TextInputs \cup {NONE}, text : TextInputs \cup {NONE, SUPERSEDED},
            fresh : BOOLEAN, batch : {"none", "current", "stale"}, shown : BOOLEAN,
            grab : {"none", "idle", "held"}]
Boards == [live : BOOLEAN, seat : BOOLEAN, keymap : BOOLEAN]
Slots == [cancelled : BOOLEAN, freed : BOOLEAN, used : BOOLEAN]

\* Every variable has its type; surfaces that have gone are in none.
TypeOK ==
    /\ seat \in BOOLEAN /\ plugged \in BOOLEAN /\ wrong \in BOOLEAN
    /\ surf \subseteq Surfaces /\ focus \in surf \cup {NONE}
    /\ tis \in Seq(TextInputs)
    /\ ti \in [TextInputs -> Entries(surf)]
    /\ im \in [IMEs -> Methods]
    /\ kgrab \in IMEs \cup {NONE} /\ kg \in Slots
    /\ vk \in [VKs -> Boards]

\* The list holds exactly the live text inputs, each once, and what has gone is forgotten: no
\* list, input method, virtual keyboard or focus still works with it
\* (qdwin_text_input_resource_destroy, qdwin_input_method_resource_destroy,
\* qdwin_im_seat_destroyed, qdwin_vk_seat_destroyed).  The keyboard's own pointer is
\* GrabIsHeld's.
GoneIsForgotten ==
    /\ \A i \in TextInputs : ti[i].live <=> \E n \in DOMAIN tis : tis[n] = i
    /\ \A m, n \in DOMAIN tis : tis[m] = tis[n] => m = n
    /\ \A i \in TextInputs : ~ ti[i].live => ti[i] = NoTextInput
    /\ \A x \in IMEs : im[x].ti # NONE => im[x].live
    /\ \A v \in VKs : vk[v].seat => vk[v].live /\ seat
    /\ ~ seat => Serving(im) = {} /\ kgrab = NONE
    /\ ~ keyboard => focus = NONE

\* The keyboard points to the grab of an input method exactly while that one lives, works and
\* holds it, and libweston never calls a grab that was freed.  The exception is the code's: an
\* unplug cancels the grab, qdwin_im_grab_cancel (qdwin.c:17686) forgets the keyboard and
\* leaves it pointing to the grab, and qdwin_im_grab_resource_destroy (17602) then frees it
\* there; the next key or unplug calls freed memory.  So after a cancel, and only then.
GrabIsHeld ==
    /\ \A x \in IMEs : im[x].grab = "held" <=> kgrab = x /\ ~ kg.cancelled
    /\ \A x \in IMEs : im[x].grab = "held" => im[x].live /\ ~ im[x].inert
    /\ kg.freed \/ kg.used => kg.cancelled
    /\ kg.cancelled => kgrab # NONE

\* qdwin_text_input_update_focus: while the seat lives, a text input has entered the
\* focused surface exactly when its client owns it, and what its client heard agrees:
\* one leave for every enter.
EnteredFollowsFocus ==
    \A i \in TextInputs :
        /\ seat /\ ti[i].live => ti[i].entered = IF focus # NONE /\ OwnerOf[focus] = OwnerOf[i]
                                                THEN focus ELSE NONE
        /\ ti[i].believes = {ti[i].entered} \ {NONE}

\* qdwin_im_sync_seat: the input method is only ever active for a text input that is
\* in the focused surface and enabled, and knows that input's latest content.
ServesTheFocused ==
    \A x \in IMEs : im[x].ti # NONE =>
        /\ seat /\ ~ im[x].inert
        /\ ti[im[x].ti].entered = focus /\ focus # NONE
        /\ ti[im[x].ti].c_en
        /\ im[x].shown

\* The seat has at most one working input method (a second one is inert).
OneInputMethod ==
    \A x, y \in Serving(im) : x = y

\* qdwin_im_req_commit: text reaches an app only if it was composed for the text input that
\* is served and from its latest content, although the input method composes and commits
\* without knowing what was sent to it meanwhile.  One whose serial is current has read the
\* content of the input it serves, and what it has pending is for that one.
NothingLateDelivered ==
    /\ ~ wrong
    /\ \A x \in IMEs :
        /\ im[x].batch = "none" => im[x].text = NONE
        /\ im[x].batch = "current" => im[x].fresh
        /\ im[x].ti # NONE /\ im[x].fresh => im[x].knows = im[x].ti
        /\ im[x].ti # NONE /\ im[x].batch = "current" => im[x].text \in {NONE, im[x].ti}

\* An input method that lets go of its grab, or goes, leaves the keyboard to the
\* apps, unless an unplug had cancelled the grab before (then see weston_seat_release_keyboard).
GrabEndsWithHolder ==
    [][\A x \in IMEs : im[x].grab = "held" /\ im'[x].grab = "none" => kgrab' # x]_vars

\* The text input of the focused client is served by the one input method of the seat, with
\* text composed for it and no other, and the keyboard points to no grab that has gone, but
\* for the one an unplug cancelled (qdwin_text_input_update_focus, qdwin_im_sync_seat,
\* qdwin_im_req_commit, qdwin_im_grab_resource_destroy).
TextInputServed ==
    /\ TypeOK
    /\ GoneIsForgotten
    /\ EnteredFollowsFocus
    /\ ServesTheFocused
    /\ OneInputMethod
    /\ NothingLateDelivered
    /\ GrabIsHeld
=============================================================================
