--------------------------- MODULE TextInputProofs ---------------------------
(***************************************************************************)
(* Text input for any surfaces, text inputs, input methods and virtual      *)
(* keyboards.  TextInputServed is inductive.  It is taken apart into what   *)
(* it says of one text input and of one input method, since an action       *)
(* changes all of them by the same function of the record.                  *)
(***************************************************************************)
EXTENDS TextInput, WellFoundedInduction, TLAPS

\* The surface a text input is to be in.
Want(f, i) == IF f # NONE /\ OwnerOf[f] = OwnerOf[i] THEN f ELSE NONE

\* One text input, with the surfaces, the seat and the focus.
EntryOK(t, i, S, s, f) ==
    /\ t \in Entries(S)
    /\ ~ t.live => t = NoTextInput
    /\ s /\ t.live => t.entered = Want(f, i)
    /\ t.believes = {t.entered} \ {NONE}

EntriesOK(T, S, s, f) ==
    /\ T \in [TextInputs -> Entries(S)]
    /\ \A i \in TextInputs : EntryOK(T[i], i, S, s, f)

Working(x) == x.live /\ ~ x.inert

\* One input method: on its own, and with the text inputs it may serve.
SoundMethod(x, s) ==
    /\ x \in Methods
    /\ x.batch = "none" => x.text = NONE
    /\ x.batch = "current" => x.fresh
    /\ x.grab = "held" => Working(x)
    /\ x.ti # NONE => Working(x)
    /\ Working(x) => s

MethodOK(x, s, f, T) ==
    /\ SoundMethod(x, s)
    /\ x.ti # NONE => /\ s /\ T[x.ti].entered = f /\ f # NONE
                      /\ T[x.ti].c_en /\ x.shown
                      /\ x.fresh => x.knows = x.ti
                      /\ x.batch = "current" => x.text \in {NONE, x.ti}

OnlyOne(X) == \A x, y \in IMEs : Working(X[x]) /\ Working(X[y]) => x = y

MethodsOK(X, s, f, T) ==
    /\ X \in [IMEs -> Methods]
    /\ \A x \in IMEs : MethodOK(X[x], s, f, T)
    /\ OnlyOne(X)

ListOK(l, T) ==
    /\ l \in Seq(TextInputs)
    /\ \A i \in TextInputs : T[i].live <=> \E n \in DOMAIN l : l[n] = i
    /\ \A m, n \in DOMAIN l : l[m] = l[n] => m = n

WorldOK ==
    /\ seat \in BOOLEAN /\ plugged \in BOOLEAN /\ wrong = FALSE
    /\ surf \subseteq Surfaces /\ focus \in surf \cup {NONE}
    /\ kgrab \in IMEs \cup {NONE}
    /\ vk \in [VKs -> Boards]
    /\ \A v \in VKs : vk[v].seat => vk[v].live /\ seat
    /\ ~ seat => kgrab = NONE
    /\ ~ (seat /\ plugged) => focus = NONE

\* The keyboard, by who holds it: h is the set of the input methods that do.
GrabOK(k, g, h) ==
    /\ g \in Slots
    /\ \A x \in IMEs : x \in h <=> k = x /\ ~ g.cancelled
    /\ g.freed \/ g.used => g.cancelled
    /\ g.cancelled => k # NONE

Held(X) == {x \in IMEs : X[x].grab = "held"}

Parts ==
    /\ WorldOK
    /\ GrabOK(kgrab, kg, Held(im))
    /\ ListOK(tis, ti)
    /\ EntriesOK(ti, surf, seat, focus)
    /\ MethodsOK(im, seat, focus, ti)

\* The invariant is these parts together.
LEMMA InParts == TextInputServed <=> Parts
<1>1. TextInputServed => Parts
  <2> SUFFICES ASSUME TextInputServed PROVE Parts
    OBVIOUS
  <2>1. WorldOK
    BY DEF TextInputServed, TypeOK, GoneIsForgotten, NothingLateDelivered, WorldOK, keyboard
  <2>2. ListOK(tis, ti)
    BY DEF TextInputServed, TypeOK, GoneIsForgotten, ListOK
  <2>3. EntriesOK(ti, surf, seat, focus)
    BY DEF TextInputServed, TypeOK, GoneIsForgotten, EnteredFollowsFocus, EntriesOK, EntryOK, Want
  <2>4. ASSUME NEW x \in IMEs PROVE MethodOK(im[x], seat, focus, ti)
    BY DEF TextInputServed, TypeOK, GoneIsForgotten, ServesTheFocused, NothingLateDelivered,
           GrabIsHeld, Serving, MethodOK, SoundMethod, Working
  <2>5. OnlyOne(im)
    BY DEF TextInputServed, OneInputMethod, Serving, OnlyOne, Working
  <2>6. GrabOK(kgrab, kg, Held(im))
    BY DEF TextInputServed, TypeOK, GrabIsHeld, GrabOK, Held
  <2> QED BY <2>1, <2>2, <2>3, <2>4, <2>5, <2>6 DEF Parts, MethodsOK, TextInputServed, TypeOK
<1>2. Parts => TextInputServed
  <2> SUFFICES ASSUME Parts PROVE TextInputServed
    OBVIOUS
  <2>1. TypeOK
    BY ZenonT(60) DEF Parts, WorldOK, GrabOK, ListOK, EntriesOK, MethodsOK, TypeOK
  <2>2. EnteredFollowsFocus /\ \A i \in TextInputs : ~ ti[i].live => ti[i] = NoTextInput
    BY DEF Parts, EntriesOK, EntryOK, Want, EnteredFollowsFocus
  <2>3. ASSUME NEW x \in IMEs
        PROVE  /\ im[x].ti # NONE => im[x].live
               /\ im[x].grab = "held" => im[x].live /\ ~ im[x].inert
               /\ im[x].batch = "none" => im[x].text = NONE
               /\ im[x].batch = "current" => im[x].fresh
               /\ x \in Serving(im) => seat
               /\ im[x].ti # NONE => /\ seat /\ ~ im[x].inert
                                     /\ ti[im[x].ti].entered = focus /\ focus # NONE
                                     /\ ti[im[x].ti].c_en
                                     /\ im[x].shown
                                     /\ im[x].fresh => im[x].knows = im[x].ti
                                     /\ im[x].batch = "current" => im[x].text \in {NONE, im[x].ti}
    BY DEF Parts, MethodsOK, MethodOK, SoundMethod, Working, Serving
  <2>4. ~ seat => Serving(im) = {}
    BY <2>3 DEF Serving
  <2>5. GoneIsForgotten
    BY <2>2, <2>3, <2>4 DEF Parts, WorldOK, ListOK, GoneIsForgotten, keyboard
  <2>6. ServesTheFocused
    BY <2>3 DEF ServesTheFocused
  <2>7. OneInputMethod
    BY DEF Parts, MethodsOK, OnlyOne, Working, OneInputMethod, Serving
  <2>8. NothingLateDelivered
    BY <2>3 DEF Parts, WorldOK, NothingLateDelivered
  <2>9. GrabIsHeld
    BY <2>3 DEF Parts, GrabOK, Held, GrabIsHeld
  <2> QED BY <2>1, <2>2, <2>5, <2>6, <2>7, <2>8, <2>9 DEF TextInputServed
<1> QED BY <1>1, <1>2

-----------------------------------------------------------------------------
(* The list of text inputs                                                  *)


\* A set of numbers that is not empty has a least one.
LEMMA Least ==
  ASSUME NEW S \in SUBSET Nat, S # {}
  PROVE  \E i \in S : \A j \in S : i <= j
<1> DEFINE R == {ss \in Nat \X Nat : ss[1] < ss[2]}
<1>1. IsWellFoundedOn(R, Nat)
  BY NatLessThanWellFounded DEF OpToRel
<1>2. \E x \in S : \A y \in S : ~ (<<y, x>> \in R)
  <2> HIDE DEF R
  <2> QED BY <1>1, WFMin, Zenon
<1>3. PICK i \in S : \A y \in S : ~ (<<y, i>> \in R)
  BY <1>2
<1>4. \A y \in S : ~(y < i)
  BY <1>3, ZenonT(60)
<1> QED BY <1>4

\* What the walk of the list finds is in a surface and enabled (qdwin_im_active_candidate).
LEMMA CandidateIs ==
  ASSUME NEW l \in Seq(TextInputs), NEW T, NEW c, c = qdwin_im_active_candidate(l, T)
  PROVE  /\ c \in TextInputs \cup {NONE}
         /\ c # NONE => c \in TextInputs /\ T[c].entered # NONE /\ T[c].c_en
<1> DEFINE fit == {n \in DOMAIN l : T[l[n]].entered # NONE /\ T[l[n]].c_en}
<1>1. DOMAIN l = 1 .. Len(l) /\ Len(l) \in Nat /\ \A n \in DOMAIN l : l[n] \in TextInputs
  OBVIOUS
<1>2. fit \in SUBSET Nat
  BY <1>1
<1>3. c = IF fit = {} THEN NONE ELSE l[CHOOSE n \in fit : \A m \in fit : n <= m]
  BY DEF qdwin_im_active_candidate
<1>4. CASE fit = {}
  BY <1>3, <1>4
<1>5. CASE fit # {}
  <2> DEFINE k == CHOOSE n \in fit : \A m \in fit : n <= m
  <2>1. k \in fit
    <3> HIDE DEF fit
    <3>1. \E n \in fit : \A m \in fit : n <= m
      BY <1>2, <1>5, Least
    <3> QED BY <3>1
  <2>2. c = l[k]
    BY <1>3, <1>5
  <2> QED
    <3> HIDE DEF k
    <3> QED BY <1>1, <2>1, <2>2
<1> QED BY <1>4, <1>5

\* r is list l with i put in front, and with i taken out.
Linked(r, l, i) == r = <<i>> \o l
Unlinked(r, l, i) == r = Without(l, CHOOSE n \in DOMAIN l : l[n] = i)

\* A text input that comes is put in front of the list (qdwin_text_input_manager_get_text_input).
LEMMA LinkOK ==
  ASSUME NEW l, NEW T, ListOK(l, T), NEW i \in TextInputs, ~ T[i].live,
         NEW r, Linked(r, l, i),
         NEW U, \A j \in TextInputs : U[j].live <=> (T[j].live \/ j = i)
  PROVE  ListOK(r, U)
<1>1. l \in Seq(TextInputs) /\ Len(l) \in Nat /\ DOMAIN l = 1 .. Len(l)
  BY DEF ListOK
<1>2. r \in Seq(TextInputs)
  BY <1>1 DEF Linked
<1>3. Len(r) = Len(l) + 1 /\ DOMAIN r = 1 .. Len(l) + 1
  BY <1>1 DEF Linked
<1>4. r[1] = i /\ \A n \in 2 .. Len(l) + 1 : r[n] = l[n - 1]
  BY <1>1 DEF Linked
<1>5. \A n \in DOMAIN l : l[n] # i
  BY DEF ListOK
<1>6. ASSUME NEW j \in TextInputs PROVE U[j].live <=> \E n \in DOMAIN r : r[n] = j
  <2>1. T[j].live <=> \E n \in DOMAIN l : l[n] = j
    BY DEF ListOK
  <2>2. ASSUME NEW n \in DOMAIN l, l[n] = j PROVE \E m \in DOMAIN r : r[m] = j
    <3>1. n + 1 \in DOMAIN r /\ r[n + 1] = j
      BY <1>1, <1>3, <1>4, <2>2
    <3> QED BY <3>1
  <2>3. ASSUME NEW m \in DOMAIN r, r[m] = j, j # i PROVE \E n \in DOMAIN l : l[n] = j
    <3>1. m - 1 \in DOMAIN l /\ l[m - 1] = j
      BY <1>1, <1>3, <1>4, <2>3
    <3> QED BY <3>1
  <2>4. 1 \in DOMAIN r /\ r[1] = i
    BY <1>1, <1>3, <1>4
  <2> QED BY <2>1, <2>2, <2>3, <2>4
<1>7. ASSUME NEW m \in DOMAIN r, NEW n \in DOMAIN r, r[m] = r[n], m # n PROVE FALSE
  <2>1. \A p, q \in DOMAIN l : l[p] = l[q] => p = q
    BY DEF ListOK
  <2>2. m \in 1 .. Len(l) + 1 /\ n \in 1 .. Len(l) + 1
    BY <1>3
  <2>3. m # 1 => m - 1 \in DOMAIN l /\ r[m] = l[m - 1]
    BY <1>1, <1>4, <2>2
  <2>4. n # 1 => n - 1 \in DOMAIN l /\ r[n] = l[n - 1]
    BY <1>1, <1>4, <2>2
  <2>5. CASE m = 1 \/ n = 1
    BY <1>4, <1>5, <1>7, <2>3, <2>4, <2>5
  <2>6. CASE m # 1 /\ n # 1
    <3>1. m - 1 = n - 1
      BY <1>7, <2>1, <2>3, <2>4, <2>6
    <3> QED BY <1>7, <2>2, <3>1
  <2> QED BY <2>5, <2>6
<1> QED BY <1>2, <1>6, <1>7 DEF ListOK

\* A part of a list, from its m-th element to its n-th.
LEMMA SubSeqIs ==
  ASSUME NEW S, NEW s \in Seq(S), NEW m \in 1 .. Len(s) + 1, NEW n \in m - 1 .. Len(s)
  PROVE  /\ SubSeq(s, m, n) \in Seq(S)
         /\ Len(SubSeq(s, m, n)) = n + 1 - m
         /\ \A i \in 1 .. n + 1 - m : SubSeq(s, m, n)[i] = s[m + i - 1]
<1>1. Len(s) \in Nat /\ m \in Nat /\ n \in Nat /\ m <= n + 1
  OBVIOUS
<1>2. Len(SubSeq(s, m, n)) = n + 1 - m
  BY <1>1
<1>3. \A i \in 1 .. n + 1 - m : SubSeq(s, m, n)[i] = s[m + i - 1]
  BY <1>1
<1>4. SubSeq(s, m, n) \in Seq(S)
  BY <1>1
<1> QED BY <1>2, <1>3, <1>4

\* Two lists one after the other.
LEMMA ConcatIs ==
  ASSUME NEW S, NEW p \in Seq(S), NEW q \in Seq(S), NEW r, r = p \o q
  PROVE  /\ r \in Seq(S) /\ Len(r) = Len(p) + Len(q)
         /\ \A i \in 1 .. Len(p) : r[i] = p[i]
         /\ \A i \in Len(p) + 1 .. Len(p) + Len(q) : r[i] = q[i - Len(p)]
  OBVIOUS

\* r is list s without its k-th element.
Shorter(r, s, k, S) ==
    /\ r \in Seq(S) /\ Len(r) = Len(s) - 1 /\ DOMAIN r = 1 .. Len(s) - 1
    /\ \A i \in 1 .. Len(s) - 1 : r[i] = IF i < k THEN s[i] ELSE s[i + 1]

\* What is left of a list when its k-th link is removed (wl_list_remove).
LEMMA WithoutIs ==
  ASSUME NEW S, NEW s \in Seq(S), NEW k \in 1 .. Len(s), NEW r, r = Without(s, k)
  PROVE  Shorter(r, s, k, S)
<1>1. Len(s) \in Nat /\ k \in Nat /\ 1 <= k /\ k <= Len(s)
  OBVIOUS
<1>2. PICK p : p = SubSeq(s, 1, k - 1)
  OBVIOUS
<1>3. PICK q : q = SubSeq(s, k + 1, Len(s))
  OBVIOUS
<1>4. p \in Seq(S) /\ Len(p) = k - 1 /\ \A i \in 1 .. k - 1 : p[i] = s[i]
  BY <1>1, <1>2, SubSeqIs
<1>5. q \in Seq(S) /\ Len(q) = Len(s) - k /\ \A i \in 1 .. Len(s) - k : q[i] = s[k + i]
  <2>1. k + 1 \in 1 .. Len(s) + 1 /\ Len(s) \in (k + 1) - 1 .. Len(s)
    BY <1>1
  <2>2. /\ q \in Seq(S) /\ Len(q) = Len(s) + 1 - (k + 1)
        /\ \A i \in 1 .. Len(s) + 1 - (k + 1) : q[i] = s[(k + 1) + i - 1]
    BY <1>3, <2>1, SubSeqIs
  <2>3. Len(s) + 1 - (k + 1) = Len(s) - k
    BY <1>1
  <2>4. \A i \in 1 .. Len(s) - k : (k + 1) + i - 1 = k + i
    BY <1>1
  <2> QED BY <2>2, <2>3, <2>4
<1>6. /\ r \in Seq(S) /\ Len(r) = Len(p) + Len(q)
      /\ \A i \in 1 .. Len(p) : r[i] = p[i]
      /\ \A i \in Len(p) + 1 .. Len(p) + Len(q) : r[i] = q[i - Len(p)]
  <2>1. r = p \o q
    BY <1>2, <1>3, Zenon DEF Without
  <2>2. p \in Seq(S) /\ q \in Seq(S)
    BY <1>4, <1>5
  <2> QED BY <2>1, <2>2, ConcatIs, SMTT(30)
<1>7. r \in Seq(S) /\ Len(r) = Len(s) - 1
  BY <1>1, <1>4, <1>5, <1>6
<1>8. DOMAIN r = 1 .. Len(s) - 1
  BY <1>7
<1>9. ASSUME NEW i \in 1 .. Len(s) - 1
      PROVE  r[i] = IF i < k THEN s[i] ELSE s[i + 1]
  <2>1. CASE i < k
    <3>1. i \in 1 .. Len(p) /\ i \in 1 .. k - 1
      BY <1>1, <1>4, <2>1
    <3> QED BY <1>4, <1>6, <2>1, <3>1
  <2>2. CASE ~(i < k)
    <3>1. i \in Len(p) + 1 .. Len(p) + Len(q) /\ i - Len(p) \in 1 .. Len(s) - k
          /\ k + (i - Len(p)) = i + 1
      BY <1>1, <1>4, <1>5, <2>2
    <3>2. r[i] = q[i - Len(p)]
      BY <1>6, <3>1
    <3>3. q[i - Len(p)] = s[k + (i - Len(p))]
      BY <1>5, <3>1
    <3> QED BY <2>2, <3>1, <3>2, <3>3
  <2> QED BY <2>1, <2>2
<1> QED BY <1>7, <1>8, <1>9 DEF Shorter

\* A text input that goes is taken out of it (qdwin_text_input_resource_destroy).
LEMMA UnlinkOK ==
  ASSUME NEW l, NEW T, ListOK(l, T), NEW i \in TextInputs, T[i].live,
         NEW r, Unlinked(r, l, i),
         NEW U, \A j \in TextInputs : U[j].live <=> (T[j].live /\ j # i)
  PROVE  ListOK(r, U)
<1>1. l \in Seq(TextInputs) /\ Len(l) \in Nat /\ DOMAIN l = 1 .. Len(l)
  BY DEF ListOK
<1>2. PICK k \in DOMAIN l : k = (CHOOSE n \in DOMAIN l : l[n] = i) /\ l[k] = i
  BY DEF ListOK
<1>3. k \in 1 .. Len(l)
  BY <1>1, <1>2
<1>4. Shorter(r, l, k, TextInputs)
  <2>1. l \in Seq(TextInputs) /\ r = Without(l, k)
    BY <1>1, <1>2 DEF Unlinked
  <2> QED BY <1>3, <2>1, WithoutIs, Zenon
<1>5. r \in Seq(TextInputs) /\ DOMAIN r = 1 .. Len(l) - 1
  BY <1>4 DEF Shorter
<1>6. \A n \in 1 .. Len(l) - 1 : r[n] = IF n < k THEN l[n] ELSE l[n + 1]
  BY <1>4 DEF Shorter
<1>7. \A m, n \in DOMAIN l : l[m] = l[n] => m = n
  BY DEF ListOK
<1>8. ASSUME NEW j \in TextInputs PROVE U[j].live <=> \E n \in DOMAIN r : r[n] = j
  <2>1. T[j].live <=> \E n \in DOMAIN l : l[n] = j
    BY DEF ListOK
  <2>2. ASSUME NEW n \in DOMAIN l, l[n] = j, j # i PROVE \E m \in DOMAIN r : r[m] = j
    <3>1. n # k /\ n \in 1 .. Len(l)
      BY <1>1, <1>2, <2>2
    <3>2. CASE n < k
      <4>1. n \in 1 .. Len(l) - 1
        BY <1>1, <1>3, <3>1, <3>2
      <4>2. r[n] = j /\ n \in DOMAIN r
        BY <1>5, <1>6, <2>2, <3>2, <4>1
      <4> QED BY <4>2, Zenon
    <3>3. CASE n > k
      <4>1. n - 1 \in 1 .. Len(l) - 1 /\ ~ (n - 1 < k) /\ (n - 1) + 1 = n
        BY <1>1, <1>3, <3>1, <3>3
      <4>2. r[n - 1] = j /\ n - 1 \in DOMAIN r
        BY <1>5, <1>6, <2>2, <4>1
      <4> QED BY <4>2, Zenon
    <3>4. n < k \/ n > k
      BY <1>3, <3>1
    <3> QED BY <3>2, <3>3, <3>4, Zenon
  <2>3. ASSUME NEW m \in DOMAIN r, r[m] = j PROVE j # i /\ \E n \in DOMAIN l : l[n] = j
    <3>1. m \in 1 .. Len(l) - 1 /\ m \in DOMAIN l /\ m + 1 \in DOMAIN l
      BY <1>1, <1>5
    <3>2. CASE m < k
      <4>1. l[m] = j /\ m # k
        BY <1>3, <1>6, <2>3, <3>1, <3>2
      <4> QED BY <1>2, <1>7, <3>1, <4>1
    <3>3. CASE ~(m < k)
      <4>1. l[m + 1] = j /\ m + 1 # k
        BY <1>3, <1>6, <2>3, <3>1, <3>3
      <4> QED BY <1>2, <1>7, <3>1, <4>1
    <3> QED BY <3>2, <3>3
  <2> QED BY <2>1, <2>2, <2>3
<1>9. ASSUME NEW m \in DOMAIN r, NEW n \in DOMAIN r, r[m] = r[n] PROVE m = n
  <2>1. m \in 1 .. Len(l) - 1 /\ n \in 1 .. Len(l) - 1
    BY <1>5
  <2>2. PICK p \in DOMAIN l : p = (IF m < k THEN m ELSE m + 1) /\ r[m] = l[p]
    <3>1. PICK p : p = (IF m < k THEN m ELSE m + 1)
      OBVIOUS
    <3>2. p \in DOMAIN l /\ r[m] = l[p]
      BY <1>1, <1>3, <1>6, <2>1, <3>1
    <3> QED BY <3>1, <3>2, Zenon
  <2>3. PICK q \in DOMAIN l : q = (IF n < k THEN n ELSE n + 1) /\ r[n] = l[q]
    <3>1. PICK q : q = (IF n < k THEN n ELSE n + 1)
      OBVIOUS
    <3>2. q \in DOMAIN l /\ r[n] = l[q]
      BY <1>1, <1>3, <1>6, <2>1, <3>1
    <3> QED BY <3>1, <3>2, Zenon
  <2>4. p = q
    BY <1>7, <1>9, <2>2, <2>3
  <2> QED BY <1>3, <2>1, <2>2, <2>3, <2>4
<1> QED BY <1>5, <1>8, <1>9 DEF ListOK

\* A step that neither creates nor destroys a text input leaves the list right.
LEMMA ListSame ==
  ASSUME NEW l, NEW T, ListOK(l, T), NEW U, \A i \in TextInputs : U[i].live = T[i].live
  PROVE  ListOK(l, U)
  BY DEF ListOK

-----------------------------------------------------------------------------
(* One input method                                                         *)

\* What a call leaves alone in an input method: whether it works, and its grab.
SameRole(r, x) == r.live = x.live /\ r.inert = x.inert /\ r.grab = x.grab

\* The two halves of the serial of an input method agree.
Serial(x) == (x.batch = "none" => x.text = NONE) /\ (x.batch = "current" => x.fresh)

\* A `done` changes the serial only, which no batch has any more (qdwin_im_send_state,
\* qdwin_im_deactivate).
LEMMA DoneIs ==
  ASSUME NEW x \in Methods, NEW r, r = Done(x)
  PROVE  /\ r \in Methods /\ SameRole(r, x)
         /\ r.ti = x.ti /\ r.text = x.text /\ r.shown = x.shown
         /\ r.fresh = FALSE /\ r.batch # "current"
         /\ r.batch = "none" => x.batch = "none"
  BY ZenonT(60) DEF Done, Methods, SameRole

\* r is x, serving c and told its content, with no serial if it serves anybody.
Synced(r, x, c) ==
    /\ r \in Methods /\ SameRole(r, x) /\ Serial(r)
    /\ r.ti = c
    /\ c # NONE => r.shown /\ ~ r.fresh

\* An input method that stops serving (qdwin_im_deactivate).
LEMMA DeactivateIs ==
  ASSUME NEW x \in Methods, Serial(x), NEW r, r = qdwin_im_deactivate(x)
  PROVE  Synced(r, x, NONE) /\ r.shown = x.shown
<1>1. CASE x.ti = NONE
  BY <1>1 DEF qdwin_im_deactivate, Synced, SameRole
<1>2. CASE x.ti # NONE
  <2>1. PICK y : y = [x EXCEPT !.ti = NONE, !.text = NONE]
    OBVIOUS
  <2>2. y \in Methods /\ SameRole(y, x) /\ y.ti = NONE /\ y.text = NONE /\ y.shown = x.shown
    BY <2>1 DEF Methods, SameRole
  <2>3. r = Done(y)
    BY <1>2, <2>1 DEF qdwin_im_deactivate
  <2> QED BY <2>2, <2>3, DoneIs, ZenonT(60) DEF Synced, SameRole, Serial
<1> QED BY <1>1, <1>2

\* An input method that is told the state of what it serves (qdwin_im_send_state).
LEMMA SendStateIs ==
  ASSUME NEW x \in Methods, Serial(x) \/ x.text = NONE, NEW r, r = qdwin_im_send_state(x)
  PROVE  Synced(r, x, x.ti)
<1>1. PICK y : y = [x EXCEPT !.shown = TRUE]
  OBVIOUS
<1>2. /\ y \in Methods /\ SameRole(y, x) /\ y.ti = x.ti /\ y.text = x.text /\ y.shown = TRUE
      /\ y.batch = x.batch
  BY <1>1 DEF Methods, SameRole
<1>3. r = Done(y)
  BY <1>1 DEF qdwin_im_send_state
<1> QED BY <1>2, <1>3, DoneIs, ZenonT(60) DEF Synced, SameRole, Serial

\* r is x, for which the content of i is no longer the latest.
Superseded(r, x, i) ==
    /\ r \in Methods /\ SameRole(r, x) /\ Serial(r)
    /\ r.ti = x.ti /\ r.shown = x.shown /\ r.fresh = x.fresh /\ r.batch = x.batch
    /\ x.knows # i => r.knows = x.knows
    /\ x.text # i => r.text = x.text

\* What was composed for a content that changed is marked as such, in no other way.
LEMMA SupersededIs ==
  ASSUME NEW x \in Methods, Serial(x), NEW i \in TextInputs, NEW r, r = superseded(x, i)
  PROVE  Superseded(r, x, i)
<1>1. PICK k \in TextInputs \cup {NONE} : k = IF x.knows = i THEN NONE ELSE x.knows
  BY DEF Methods
<1>2. PICK w \in TextInputs \cup {NONE, SUPERSEDED} : w = IF x.text = i THEN SUPERSEDED ELSE x.text
  BY DEF Methods
<1>3. r = [x EXCEPT !.knows = k, !.text = w]
  BY <1>1, <1>2 DEF superseded, Methods
<1>4. /\ r \in Methods /\ SameRole(r, x) /\ r.knows = k /\ r.text = w
      /\ r.ti = x.ti /\ r.shown = x.shown /\ r.fresh = x.fresh /\ r.batch = x.batch
  BY <1>3, ZenonT(60) DEF Methods, SameRole
<1>5. Serial(r)
  BY <1>2, <1>4, TextConstants DEF Serial
<1> QED BY <1>1, <1>2, <1>4, <1>5 DEF Superseded

\* The input method serves the candidate after a sync, and only that (qdwin_im_sync_seat).
LEMMA SyncOneIs ==
  ASSUME NEW x \in Methods, Serial(x), NEW c \in TextInputs \cup {NONE},
         NEW r, r = sync_one(x, c)
  PROVE  Synced(r, x, c)
<1>1. CASE c # x.ti /\ c = NONE
  BY <1>1, DeactivateIs DEF sync_one
<1>2. CASE c # x.ti /\ c # NONE
  <2>1. PICK d : d = qdwin_im_deactivate(x)
    OBVIOUS
  <2>2. d \in Methods /\ SameRole(d, x)
    BY <2>1, DeactivateIs DEF Synced
  <2>3. PICK y : y = [d EXCEPT !.ti = c, !.text = NONE]
    OBVIOUS
  <2>4. y \in Methods /\ SameRole(y, d) /\ y.ti = c /\ y.text = NONE
    BY <2>2, <2>3 DEF Methods, SameRole
  <2>5. r = qdwin_im_send_state(y)
    BY <1>2, <2>1, <2>3 DEF sync_one, qdwin_im_activate
  <2>6. Synced(r, y, c)
    BY <2>4, <2>5, SendStateIs
  <2> QED BY <2>2, <2>4, <2>6 DEF Synced, SameRole
<1>3. CASE c = x.ti /\ c # NONE
  BY <1>3, SendStateIs DEF sync_one
<1>4. CASE c = x.ti /\ c = NONE
  BY <1>4 DEF sync_one, Synced, SameRole
<1> QED BY <1>1, <1>2, <1>3, <1>4

\* What a sync makes of the input methods: what serves, serves somebody entered and enabled,
\* in the surface that all the entered ones are in.
LEMMA SyncIs ==
  ASSUME NEW l \in Seq(TextInputs), NEW f, NEW T,
         \A i \in TextInputs : T[i].entered # NONE => T[i].entered = f,
         NEW X \in [IMEs -> Methods], NEW s, s = TRUE,
         \A x \in IMEs : SoundMethod(X[x], s), OnlyOne(X),
         NEW R, R = qdwin_im_sync_seat(l, T, X)
  PROVE  MethodsOK(R, s, f, T) /\ \A x \in IMEs : SameRole(R[x], X[x])
<1>1. PICK c : c = qdwin_im_active_candidate(l, T)
  OBVIOUS
<1>2. /\ c \in TextInputs \cup {NONE}
      /\ c # NONE => c \in TextInputs /\ T[c].entered # NONE /\ T[c].c_en
  BY <1>1, CandidateIs
<1>3. R = [x \in IMEs |-> IF Working(X[x]) THEN sync_one(X[x], c) ELSE X[x]]
  BY <1>1 DEF qdwin_im_sync_seat, Serving, Working
<1>4. ASSUME NEW x \in IMEs
      PROVE  R[x] \in Methods /\ MethodOK(R[x], s, f, T) /\ SameRole(R[x], X[x])
  <2>1. CASE Working(X[x])
    <3>1. R[x] = sync_one(X[x], c) /\ X[x] \in Methods
      BY <1>3, <2>1
    <3>2. Synced(R[x], X[x], c)
      BY <1>2, <3>1, SyncOneIs DEF SoundMethod, Serial
    <3>3. SoundMethod(R[x], s)
      BY <2>1, <3>2 DEF Synced, Serial, SoundMethod, SameRole, Working
    <3>4. R[x].ti # NONE => s /\ T[R[x].ti].entered = f /\ f # NONE
                            /\ T[R[x].ti].c_en /\ R[x].shown
                            /\ ~ R[x].fresh /\ R[x].batch # "current"
      BY <1>2, <3>2 DEF Synced, Serial
    <3> QED BY <3>2, <3>3, <3>4 DEF MethodOK, Synced
  <2>2. CASE ~ Working(X[x])
    <3>1. R[x] = X[x] /\ X[x] \in Methods
      BY <1>3, <2>2
    <3>2. SoundMethod(X[x], s) /\ X[x].ti = NONE
      BY <2>2 DEF SoundMethod
    <3> QED BY <3>1, <3>2 DEF MethodOK, SameRole
  <2> QED BY <2>1, <2>2, ZenonT(60)
<1>5. OnlyOne(R)
  BY <1>4 DEF OnlyOne, SameRole, Working
<1>6. R \in [IMEs -> Methods]
  <2>1. \A x \in IMEs : (IF Working(X[x]) THEN sync_one(X[x], c) ELSE X[x]) \in Methods
    BY <1>3, <1>4, ZenonT(60)
  <2> QED BY <1>3, <2>1
<1> QED BY <1>4, <1>5, <1>6 DEF MethodsOK

\* A change to one input method that keeps it sound, and whether it works.
LEMMA OneMethod ==
  ASSUME NEW X, NEW s, NEW f, NEW T, MethodsOK(X, s, f, T), NEW x \in IMEs,
         NEW r, MethodOK(r, s, f, T), Working(r) => Working(X[x]) \/ ~ \E y \in IMEs : Working(X[y]),
         NEW R, R = [X EXCEPT ![x] = r]
  PROVE  MethodsOK(R, s, f, T)
<1>1. X \in [IMEs -> Methods] /\ r \in Methods
  BY DEF MethodsOK, MethodOK, SoundMethod
<1>2. R \in [IMEs -> Methods] /\ R[x] = r /\ \A y \in IMEs \ {x} : R[y] = X[y]
  BY <1>1
<1>3. \A y \in IMEs : MethodOK(R[y], s, f, T)
  BY <1>2 DEF MethodsOK
<1>4. OnlyOne(R)
  BY <1>2 DEF MethodsOK, OnlyOne
<1> QED BY <1>2, <1>3, <1>4 DEF MethodsOK

\* The input methods only look at where the text inputs are and whether they are enabled.
LEMMA MethodsSame ==
  ASSUME NEW X, NEW s, NEW f, NEW T, NEW U, MethodsOK(X, s, f, T),
         \A i \in TextInputs : U[i].entered = T[i].entered /\ U[i].c_en = T[i].c_en
  PROVE  MethodsOK(X, s, f, U)
<1>1. ASSUME NEW x \in IMEs PROVE MethodOK(X[x], s, f, U)
  <2>1. X[x].ti \in TextInputs \cup {NONE} /\ MethodOK(X[x], s, f, T)
    BY DEF MethodsOK, Methods
  <2> QED BY <2>1 DEF MethodOK
<1> QED BY <1>1 DEF MethodsOK

-----------------------------------------------------------------------------
(* The steps                                                                *)

\* What a step does to the grabs (GrabEndsWithHolder).
Ends == \A x \in IMEs : im[x].grab = "held" /\ im'[x].grab = "none" => kgrab' # x

\* What changes no grab leaves the keyboard with who holds it.
LEMMA GrabsSame ==
  ASSUME Parts, UNCHANGED <<kgrab, kg>>, NEW X, \A x \in IMEs : SameRole(X[x], im[x])
  PROVE  GrabOK(kgrab', kg', Held(X))
  BY DEF Parts, GrabOK, Held, SameRole

\* While the seat lives, all that is entered is the focused surface.
LEMMA EnteredIsFocus ==
  ASSUME NEW T, NEW S, NEW f, EntriesOK(T, S, TRUE, f)
  PROVE  \A i \in TextInputs : T[i].entered # NONE => T[i].entered = f
  BY DEF EntriesOK, EntryOK, NoTextInput, Want

\* A change of the keyboard focus: every text input leaves and enters, then the input method
\* follows (qdwin_text_input_update_focus, qdwin_im_sync_seat).
LEMMA FocusOK ==
  ASSUME Parts, seat, NEW S, NEW f \in S \cup {NONE},
         NEW T, T = [i \in TextInputs |-> enter_leave(i, f)],
         NEW X, X = qdwin_im_sync_seat(tis, T, im)
  PROVE  /\ EntriesOK(T, S, seat, f)
         /\ ListOK(tis, T)
         /\ MethodsOK(X, seat, f, T)
         /\ \A x \in IMEs : SameRole(X[x], im[x])
<1>1. seat = TRUE
  BY DEF Parts, WorldOK
<1>2. ASSUME NEW i \in TextInputs
      PROVE  EntryOK(T[i], i, S, seat, f) /\ T[i].live = ti[i].live
  <2>1. EntryOK(ti[i], i, surf, seat, focus) /\ T[i] = enter_leave(i, f)
    BY DEF Parts, EntriesOK
  <2>2. Want(f, i) \in S \cup {NONE}
    BY DEF Want
  <2>3. CASE ~ ti[i].live
    <3>1. T[i] = NoTextInput /\ ti[i] = NoTextInput
      BY <2>1, <2>3 DEF enter_leave, EntryOK
    <3>2. NoTextInput \in Entries(S) /\ NoTextInput.live = FALSE
          /\ NoTextInput.believes = {NoTextInput.entered} \ {NONE}
      BY DEF NoTextInput, Entries
    <3>3. EntryOK(NoTextInput, i, S, seat, f)
      BY <3>2 DEF EntryOK
    <3> QED BY <2>3, <3>1, <3>2, <3>3, ZenonT(60)
  <2>4. CASE ti[i].live /\ Want(f, i) = ti[i].entered
    <3>1. T[i] = ti[i]
      BY <2>1, <2>4 DEF enter_leave, Want
    <3>2. ti[i] \in Entries(surf) /\ ti[i].believes = {ti[i].entered} \ {NONE}
      BY <2>1 DEF EntryOK
    <3>3. ti[i].believes \in SUBSET S /\ ti[i].entered \in S \cup {NONE}
      BY <2>2, <2>4, <3>2
    <3>4. ti[i] \in Entries(S)
      BY <3>2, <3>3 DEF Entries
    <3> QED BY <2>4, <3>1, <3>2, <3>4 DEF EntryOK
  <2>5. CASE ti[i].live /\ Want(f, i) # ti[i].entered
    <3>1. T[i] = [ti[i] EXCEPT !.entered = Want(f, i),
                    !.believes = (ti[i].believes \ {ti[i].entered}) \cup ({Want(f, i)} \ {NONE})]
      BY <2>1, <2>5 DEF enter_leave, Want
    <3>2. ti[i] \in Entries(surf) /\ ti[i].believes = {ti[i].entered} \ {NONE}
      BY <2>1 DEF EntryOK
    <3>3. PICK w : w = Want(f, i)
      OBVIOUS
    <3>4. (ti[i].believes \ {ti[i].entered}) \cup ({w} \ {NONE}) = {w} \ {NONE}
      BY <3>2
    <3>5. T[i] = [ti[i] EXCEPT !.entered = w, !.believes = {w} \ {NONE}]
      BY <3>1, <3>3, <3>4
    <3>6. {w} \ {NONE} \in SUBSET S /\ w \in S \cup {NONE}
      BY <2>2, <3>3
    <3>7. T[i] \in Entries(S) /\ T[i].live = ti[i].live /\ T[i].entered = w
          /\ T[i].believes = {w} \ {NONE}
      BY <3>2, <3>5, <3>6, ZenonT(60) DEF Entries
    <3> QED BY <2>5, <3>3, <3>7 DEF EntryOK
  <2> QED BY <2>3, <2>4, <2>5
<1>3. EntriesOK(T, S, seat, f)
  BY <1>2 DEF EntriesOK, EntryOK
<1>4. ListOK(tis, T)
  BY <1>2, ListSame DEF Parts
<1>5. \A i \in TextInputs : T[i].entered # NONE => T[i].entered = f
  BY <1>1, <1>3, EnteredIsFocus, ZenonT(60)
<1>6. tis \in Seq(TextInputs) /\ im \in [IMEs -> Methods] /\ OnlyOne(im)
      /\ \A x \in IMEs : SoundMethod(im[x], seat)
  BY DEF Parts, ListOK, MethodsOK, MethodOK
<1>7. MethodsOK(X, seat, f, T) /\ \A x \in IMEs : SameRole(X[x], im[x])
  BY <1>1, <1>5, <1>6, SyncIs
<1> QED BY <1>3, <1>4, <1>7

\* A focus change (qdwin_on_keyboard_focus_changed).
LEMMA FocusStep ==
  ASSUME Parts, NEW f \in surf \cup {NONE}, qdwin_on_keyboard_focus_changed(f)
  PROVE  Parts' /\ Ends
<1>1. /\ seat /\ plugged /\ focus' = f
      /\ ti' = [i \in TextInputs |-> enter_leave(i, f)]
      /\ im' = qdwin_im_sync_seat(tis, ti', im)
      /\ UNCHANGED <<seat, plugged, surf, tis, kgrab, kg, vk, wrong>>
  BY DEF qdwin_on_keyboard_focus_changed, SetFocus, keyboard
<1>2. /\ EntriesOK(ti', surf, seat, f) /\ ListOK(tis, ti') /\ MethodsOK(im', seat, f, ti')
      /\ \A x \in IMEs : SameRole(im'[x], im[x])
  BY <1>1, FocusOK, ZenonT(60)
<1>3. WorldOK'
  BY <1>1 DEF Parts, WorldOK
<1>4. Ends
  BY <1>2 DEF Ends, SameRole
<1>5. GrabOK(kgrab', kg', Held(im'))
  BY <1>1, <1>2, GrabsSame
<1> QED BY <1>1, <1>2, <1>3, <1>4, <1>5 DEF Parts

\* A surface comes.
LEMMA SurfaceStep ==
  ASSUME Parts, NEW s \in Surfaces, SurfaceCreated(s)
  PROVE  Parts' /\ Ends
<1>1. /\ surf' = surf \cup {s}
      /\ UNCHANGED <<seat, plugged, focus, tis, ti, im, kgrab, kg, vk, wrong>>
  BY DEF SurfaceCreated
<1>2. Entries(surf) \subseteq Entries(surf')
  BY <1>1 DEF Entries
<1>3. EntriesOK(ti, surf', seat, focus)
  BY <1>2 DEF Parts, EntriesOK, EntryOK
<1>4. WorldOK'
  BY <1>1 DEF Parts, WorldOK
<1>5. Ends
  BY <1>1 DEF Ends
<1>6. GrabOK(kgrab', kg', Held(im'))
  BY <1>1 DEF Parts
<1> QED BY <1>1, <1>3, <1>4, <1>5, <1>6 DEF Parts

\* A surface goes: the focus moves away first, and a text input whose seat has gone forgets
\* it (qdwin_text_input_entered_destroyed).
LEMMA SurfaceGoneStep ==
  ASSUME Parts, NEW s \in Surfaces, qdwin_text_input_entered_destroyed(s)
  PROVE  Parts' /\ Ends
<1>1. surf' = surf \ {s} /\ s # NONE /\ UNCHANGED <<seat, plugged, tis, kgrab, kg, vk, wrong>>
  BY TextConstants DEF qdwin_text_input_entered_destroyed
<1>2. CASE seat /\ focus = s
  <2>1. /\ focus' = NONE
        /\ ti' = [i \in TextInputs |-> enter_leave(i, NONE)]
        /\ im' = qdwin_im_sync_seat(tis, ti', im)
    BY <1>2 DEF qdwin_text_input_entered_destroyed, SetFocus
  <2>2. /\ EntriesOK(ti', surf', seat, NONE) /\ ListOK(tis, ti') /\ MethodsOK(im', seat, NONE, ti')
        /\ \A x \in IMEs : SameRole(im'[x], im[x])
    BY <1>2, <2>1, FocusOK, ZenonT(60)
  <2>3. WorldOK'
    BY <1>1, <2>1 DEF Parts, WorldOK
  <2>4. Ends
    BY <2>2 DEF Ends, SameRole
  <2>5. GrabOK(kgrab', kg', Held(im'))
    BY <1>1, <2>2, GrabsSame
  <2> QED BY <1>1, <2>1, <2>2, <2>3, <2>4, <2>5 DEF Parts
<1>3. CASE ~ (seat /\ focus = s)
  <2>1. /\ UNCHANGED <<focus, im>>
        /\ ti' = [i \in TextInputs |->
                    IF ti[i].entered = s
                    THEN [ti[i] EXCEPT !.entered = NONE, !.believes = ti[i].believes \ {s}]
                    ELSE ti[i]]
    BY <1>3 DEF qdwin_text_input_entered_destroyed
  <2>2. focus # s
    BY <1>1, <1>3 DEF Parts, WorldOK
  <2>3. ASSUME NEW i \in TextInputs
        PROVE  /\ EntryOK(ti'[i], i, surf', seat, focus) /\ ti'[i].live = ti[i].live
               /\ seat => ti'[i] = ti[i]
    <3>1. EntryOK(ti[i], i, surf, seat, focus)
      BY DEF Parts, EntriesOK
    <3>2. ti[i] \in Entries(surf) /\ ti[i].believes = {ti[i].entered} \ {NONE}
      BY <3>1 DEF EntryOK
    <3>3. CASE ti[i].entered = s
      <4>1. ti'[i] = [ti[i] EXCEPT !.entered = NONE, !.believes = {}]
        BY <2>1, <3>2, <3>3
      <4>2. ti[i].live /\ ~ seat
        BY <1>1, <2>2, <3>1, <3>3 DEF EntryOK, NoTextInput, Want, Parts, WorldOK
      <4>3. ti'[i] \in Entries(surf') /\ ti'[i].live /\ ti'[i].entered = NONE /\ ti'[i].believes = {}
        BY <3>2, <4>1, <4>2 DEF Entries
      <4> QED BY <4>2, <4>3 DEF EntryOK
    <3>4. CASE ti[i].entered # s
      <4>1. ti'[i] = ti[i]
        BY <2>1, <3>4
      <4>2. ti[i].entered \in surf' \cup {NONE} /\ ti[i].believes \in SUBSET surf'
        BY <1>1, <3>2, <3>4 DEF Entries
      <4>3. ti[i] \in Entries(surf')
        BY <3>2, <4>2 DEF Entries
      <4> QED BY <3>1, <4>1, <4>3 DEF EntryOK
    <3> QED BY <3>3, <3>4
  <2>4. EntriesOK(ti', surf', seat, focus)
    <3>1. \A i \in TextInputs : ti'[i] \in Entries(surf')
      BY <2>3 DEF EntryOK
    <3>2. ti' = [i \in TextInputs |-> ti'[i]]
      BY <2>1
    <3>3. ti' \in [TextInputs -> Entries(surf')]
      BY <3>1, <3>2
    <3> QED BY <2>3, <3>3 DEF EntriesOK
  <2>5. ListOK(tis, ti')
    BY <2>3, ListSame DEF Parts
  <2>6. ASSUME NEW x \in IMEs PROVE MethodOK(im[x], seat, focus, ti')
    <3>1. MethodOK(im[x], seat, focus, ti) /\ im[x].ti \in TextInputs \cup {NONE}
      BY DEF Parts, MethodsOK, Methods
    <3> QED BY <2>3, <3>1 DEF MethodOK
  <2>7. MethodsOK(im, seat, focus, ti')
    BY <2>6 DEF Parts, MethodsOK
  <2>8. WorldOK'
    BY <1>1, <2>1, <2>2 DEF Parts, WorldOK
  <2>9. Ends
    BY <2>1 DEF Ends
  <2>10. GrabOK(kgrab', kg', Held(im'))
    BY <1>1, <2>1 DEF Parts
  <2> QED BY <1>1, <2>1, <2>4, <2>5, <2>7, <2>8, <2>9, <2>10 DEF Parts
<1> QED BY <1>2, <1>3

\* The keyboard is unplugged: the focus is dropped and the grab cancelled
\* (weston_seat_release_keyboard, qdwin_im_grab_cancel).
LEMMA UnplugStep ==
  ASSUME Parts, weston_seat_release_keyboard
  PROVE  Parts' /\ Ends
<1>1. PICK X : X = qdwin_im_sync_seat(tis, ti', im)
  OBVIOUS
<1>2. /\ seat /\ plugged' = FALSE /\ focus' = NONE
      /\ ti' = [i \in TextInputs |-> enter_leave(i, NONE)]
      /\ im' = IF kgrab = NONE \/ kg.freed THEN X ELSE [X EXCEPT ![kgrab].grab = "idle"]
      /\ kg' = [called_through EXCEPT !.cancelled = (kgrab # NONE)]
      /\ UNCHANGED <<seat, surf, tis, kgrab, vk, wrong>>
  BY <1>1 DEF weston_seat_release_keyboard, keyboard
<1>3. /\ EntriesOK(ti', surf, seat, NONE) /\ ListOK(tis, ti') /\ MethodsOK(X, seat, NONE, ti')
      /\ \A x \in IMEs : SameRole(X[x], im[x])
  BY <1>1, <1>2, FocusOK
<1>4. WorldOK'
  BY <1>2 DEF Parts, WorldOK
<1>5. /\ kg' \in Slots /\ kg'.cancelled = (kgrab # NONE) /\ kg'.freed = kg.freed
      /\ kg'.used => kg.used \/ kg.freed
  <2>1. PICK c : c = called_through
    OBVIOUS
  <2>2. kg \in Slots
    BY DEF Parts, GrabOK
  <2>3. c \in Slots /\ c.freed = kg.freed /\ (c.used => kg.used \/ kg.freed)
    BY <2>1, <2>2 DEF called_through, Slots
  <2>4. kg' = [c EXCEPT !.cancelled = (kgrab # NONE)]
    BY <1>2, <2>1
  <2> QED BY <2>3, <2>4 DEF Slots
<1>6. /\ \A x \in IMEs : X[x].grab = "held" <=> kgrab = x /\ ~ kg.cancelled
      /\ kg.freed \/ kg.used => kg.cancelled
  BY <1>3 DEF Parts, GrabOK, Held, SameRole
<1>7. /\ MethodsOK(im', seat, NONE, ti') /\ Ends
      /\ \A x \in IMEs : im'[x].grab # "held"
  <2>1. CASE kgrab = NONE \/ kg.freed
    <3>1. im' = X
      BY <1>2, <2>1
    <3>2. \A x \in IMEs : X[x].grab # "held"
      BY <1>6, <2>1, TextConstants
    <3> QED BY <1>3, <3>1, <3>2 DEF Ends, SameRole
  <2>2. CASE kgrab # NONE /\ ~ kg.freed
    <3>1. kgrab \in IMEs /\ X \in [IMEs -> Methods]
      BY <1>3, <2>2 DEF Parts, WorldOK, MethodsOK
    <3>2. PICK r : r = [X[kgrab] EXCEPT !.grab = "idle"]
      BY ZenonT(60)
    <3>3. im' = [X EXCEPT ![kgrab] = r]
      BY <1>2, <2>2, <3>2
    <3>4. MethodOK(X[kgrab], seat, NONE, ti') /\ X[kgrab] \in Methods
      BY <1>3, <3>1 DEF MethodsOK
    <3>5. /\ r \in Methods /\ r.live = X[kgrab].live /\ r.inert = X[kgrab].inert
          /\ r.ti = X[kgrab].ti /\ r.text = X[kgrab].text /\ r.shown = X[kgrab].shown
          /\ r.knows = X[kgrab].knows /\ r.fresh = X[kgrab].fresh /\ r.batch = X[kgrab].batch
          /\ r.grab = "idle"
      BY <3>2, <3>4 DEF Methods
    <3>6. MethodOK(r, seat, NONE, ti') /\ (Working(r) => Working(X[kgrab]))
      BY <3>4, <3>5 DEF MethodOK, SoundMethod, Working
    <3>7. MethodsOK(im', seat, NONE, ti')
      BY <1>3, <3>1, <3>3, <3>6, OneMethod, ZenonT(60)
    <3>8. Ends /\ \A x \in IMEs : im'[x].grab # "held"
      BY <1>3, <1>6, <3>1, <3>3, <3>5 DEF Ends, SameRole
    <3> QED BY <3>7, <3>8
  <2> QED BY <2>1, <2>2
<1>8. GrabOK(kgrab', kg', Held(im'))
  <2>1. \A x \in IMEs : x \notin Held(im')
    BY <1>7 DEF Held
  <2>2. \A x \in IMEs : ~ (kgrab' = x /\ ~ kg'.cancelled)
    BY <1>2, <1>5, TextConstants, ZenonT(60)
  <2>3. kg'.freed \/ kg'.used => kgrab # NONE
    BY <1>5, <1>6 DEF Parts, GrabOK
  <2> QED BY <1>2, <1>5, <2>1, <2>2, <2>3 DEF GrabOK
<1> QED BY <1>2, <1>3, <1>4, <1>7, <1>8 DEF Parts

\* The seat goes: every input method lets go and is inert from then on
\* (qdwin_im_seat_destroyed, qdwin_vk_seat_destroyed).
LEMMA SeatGoneStep ==
  ASSUME Parts, qdwin_im_seat_destroyed
  PROVE  Parts' /\ Ends
<1>1. /\ seat' = FALSE /\ focus' = NONE /\ kgrab' = NONE /\ kg' = Started
      /\ im' = [x \in IMEs |-> IF im[x].live
                               THEN [detached(x) EXCEPT !.inert = TRUE,
                                     !.grab = IF im[x].grab = "none" THEN @ ELSE "idle"]
                               ELSE im[x]]
      /\ vk' = [v \in VKs |-> [vk[v] EXCEPT !.seat = FALSE]]
      /\ UNCHANGED <<plugged, surf, tis, ti, wrong>>
  BY DEF qdwin_im_seat_destroyed
<1>2. ASSUME NEW x \in IMEs
      PROVE  /\ MethodOK(im'[x], FALSE, NONE, ti)
             /\ im[x].grab = "held" => im'[x].grab # "none"
             /\ im'[x].grab # "held"
             /\ ~ Working(im'[x])
  <2>1. im[x] \in Methods /\ MethodOK(im[x], seat, focus, ti)
    BY DEF Parts, MethodsOK
  <2>2. CASE im[x].live
    <3>1. PICK d : d = detached(x)
      OBVIOUS
    <3>2. /\ d \in Methods /\ d.live = TRUE /\ d.ti = NONE /\ d.text = NONE
          /\ d.batch = "none" /\ d.grab = "none"
      BY <2>1, <2>2, <3>1, ZenonT(60) DEF detached, Methods
    <3>3. im'[x] = [d EXCEPT !.inert = TRUE, !.grab = IF im[x].grab = "none" THEN "none" ELSE "idle"]
      BY <1>1, <2>2, <3>1, <3>2
    <3>4. /\ im'[x] \in Methods /\ im'[x].live = TRUE /\ im'[x].inert = TRUE /\ im'[x].ti = NONE
          /\ im'[x].text = NONE /\ im'[x].batch = "none" /\ im'[x].grab = (IF im[x].grab = "none" THEN "none" ELSE "idle")
      BY <3>2, <3>3 DEF Methods
    <3> QED BY <3>4 DEF MethodOK, SoundMethod, Working
  <2>3. CASE ~ im[x].live
    <3>1. im'[x] = im[x]
      BY <1>1, <2>3
    <3> QED BY <2>1, <2>3, <3>1 DEF MethodOK, SoundMethod, Working
  <2> QED BY <2>2, <2>3
<1>3. MethodsOK(im', FALSE, NONE, ti)
  <2>1. \A x \in IMEs : im'[x] \in Methods
    BY <1>2 DEF MethodOK, SoundMethod
  <2>2. im' = [x \in IMEs |-> im'[x]]
    BY <1>1
  <2>3. im' \in [IMEs -> Methods]
    BY <2>1, <2>2
  <2> QED BY <1>2, <2>3 DEF MethodsOK, OnlyOne
<1>4. EntriesOK(ti, surf, FALSE, NONE)
  BY DEF Parts, EntriesOK, EntryOK
<1>5. vk' \in [VKs -> Boards] /\ \A v \in VKs : ~ vk'[v].seat
  <2>1. ASSUME NEW v \in VKs
        PROVE  /\ [vk[v] EXCEPT !.seat = FALSE] \in Boards
               /\ [vk[v] EXCEPT !.seat = FALSE].seat = FALSE
    <3>1. vk[v] \in Boards
      BY DEF Parts, WorldOK
    <3> QED BY <3>1 DEF Boards
  <2> QED BY <1>1, <2>1
<1>6. WorldOK'
  BY <1>1, <1>5 DEF Parts, WorldOK
<1>7. Ends
  BY <1>2 DEF Ends
<1>8. GrabOK(kgrab', kg', Held(im'))
  <2>1. Started \in Slots /\ ~ Started.cancelled /\ ~ Started.freed /\ ~ Started.used
    BY DEF Started, Slots
  <2>2. \A x \in IMEs : x \notin Held(im') /\ x # NONE
    BY <1>2, TextConstants DEF Held
  <2> QED BY <1>1, <2>1, <2>2 DEF GrabOK
<1> QED BY <1>1, <1>3, <1>4, <1>6, <1>7, <1>8 DEF Parts

\* A client asks for a text input (qdwin_text_input_manager_get_text_input).
LEMMA GetTextInputStep ==
  ASSUME Parts, NEW i \in TextInputs, qdwin_text_input_manager_get_text_input(i)
  PROVE  Parts' /\ Ends
<1>1. /\ seat /\ ~ ti[i].live
      /\ tis' = <<i>> \o tis
      /\ im' = qdwin_im_sync_seat(tis', ti', im)
      /\ UNCHANGED <<seat, plugged, surf, focus, kgrab, kg, vk, wrong>>
  BY DEF qdwin_text_input_manager_get_text_input
<1>2. focus \in surf \cup {NONE} /\ seat = TRUE /\ (~ keyboard => focus = NONE)
  BY <1>1 DEF Parts, WorldOK, keyboard
<1>3. PICK w : w = Want(focus, i)
  OBVIOUS
<1>4. ti' = [j \in TextInputs |->
               IF j = i
               THEN [NoTextInput EXCEPT !.live = TRUE, !.entered = w, !.believes = {w} \ {NONE}]
               ELSE ti[j]]
  <2>1. PICK on : on = (focus # NONE /\ OwnerOf[focus] = OwnerOf[i])
    OBVIOUS
  <2>2. ti' = [j \in TextInputs |->
                 IF j = i
                 THEN [NoTextInput EXCEPT !.live = TRUE, !.entered = IF on THEN focus ELSE NONE,
                                          !.believes = IF on THEN {focus} ELSE {}]
                 ELSE ti[j]]
    <3>1. (IF keyboard THEN focus ELSE NONE) = focus
      BY <1>2
    <3> QED BY <2>1, <3>1 DEF qdwin_text_input_manager_get_text_input
  <2>3. w = (IF on THEN focus ELSE NONE) /\ {w} \ {NONE} = (IF on THEN {focus} ELSE {})
    BY <1>3, <2>1 DEF Want
  <2> QED BY <2>2, <2>3
<1>5. PICK new : new = [NoTextInput EXCEPT !.live = TRUE, !.entered = w, !.believes = {w} \ {NONE}]
  OBVIOUS
<1>6. new.live = TRUE /\ new.entered = w /\ new.believes = {w} \ {NONE} /\ new \in Entries(surf)
  <2>1. w \in surf \cup {NONE} /\ {w} \ {NONE} \in SUBSET surf
    BY <1>2, <1>3 DEF Want
  <2> QED BY <1>5, <2>1, ZenonT(60) DEF NoTextInput, Entries
<1>7. EntryOK(new, i, surf, seat, focus)
  BY <1>3, <1>6 DEF EntryOK
<1>8. ti' = [j \in TextInputs |-> IF j = i THEN new ELSE ti[j]]
  BY <1>4, <1>5
<1>9. EntriesOK(ti', surf, seat, focus)
  BY <1>6, <1>7, <1>8 DEF Parts, EntriesOK
<1>10. ListOK(tis', ti')
  <2>1. \A j \in TextInputs : ti'[j].live <=> (ti[j].live \/ j = i)
    BY <1>6, <1>8
  <2>2. ListOK(tis, ti)
    BY DEF Parts
  <2>3. Linked(tis', tis, i) /\ ~ ti[i].live
    BY <1>1, Zenon DEF Linked
  <2> QED BY <2>1, <2>2, <2>3, LinkOK
<1>11. \A j \in TextInputs : ti'[j].entered # NONE => ti'[j].entered = focus
  BY <1>2, <1>9, EnteredIsFocus
<1>12. MethodsOK(im', seat, focus, ti') /\ \A x \in IMEs : SameRole(im'[x], im[x])
  <2>1. tis' \in Seq(TextInputs)
    BY <1>10 DEF ListOK
  <2>2. im \in [IMEs -> Methods] /\ OnlyOne(im) /\ \A x \in IMEs : SoundMethod(im[x], seat)
    BY DEF Parts, MethodsOK, MethodOK
  <2> QED BY <1>1, <1>2, <1>11, <2>1, <2>2, SyncIs, ZenonT(60)
<1>13. WorldOK'
  BY <1>1 DEF Parts, WorldOK
<1>14. Ends
  BY <1>12 DEF Ends, SameRole
<1>15. GrabOK(kgrab', kg', Held(im'))
  BY <1>1, <1>12, GrabsSame
<1> QED BY <1>1, <1>9, <1>10, <1>12, <1>13, <1>14, <1>15, ZenonT(60) DEF Parts

\* A client enables or disables its text input, which is pending until the commit
\* (qdwin_text_input_enable, qdwin_text_input_disable).
LEMMA EnableStep ==
  ASSUME Parts, NEW i \in TextInputs, NEW on \in BOOLEAN, qdwin_text_input_enable(i, on)
  PROVE  Parts' /\ Ends
<1>1. /\ ti[i].live /\ ti' = [ti EXCEPT ![i].p_en = on]
      /\ UNCHANGED <<seat, plugged, surf, focus, tis, im, kgrab, kg, vk, wrong>>
  BY DEF qdwin_text_input_enable
<1>2. ti \in [TextInputs -> Entries(surf)] /\ EntryOK(ti[i], i, surf, seat, focus)
  BY DEF Parts, EntriesOK
<1>3. PICK t : t = [ti[i] EXCEPT !.p_en = on]
  OBVIOUS
<1>4. /\ t \in Entries(surf) /\ t.live = ti[i].live /\ t.entered = ti[i].entered
      /\ t.believes = ti[i].believes /\ t.c_en = ti[i].c_en
  BY <1>2, <1>3 DEF Entries
<1>5. ti' = [ti EXCEPT ![i] = t]
  BY <1>1, <1>3
<1>6. EntriesOK(ti', surf, seat, focus)
  BY <1>1, <1>2, <1>4, <1>5 DEF Parts, EntriesOK, EntryOK
<1>7. ListOK(tis, ti')
  <2>1. \A j \in TextInputs : ti'[j].live = ti[j].live
    BY <1>2, <1>4, <1>5
  <2> QED BY <2>1, ListSame DEF Parts
<1>8. MethodsOK(im, seat, focus, ti')
  BY <1>2, <1>4, <1>5, MethodsSame DEF Parts
<1>9. WorldOK'
  BY <1>1 DEF Parts, WorldOK
<1>10. Ends
  BY <1>1 DEF Ends
<1>11. GrabOK(kgrab', kg', Held(im'))
  BY <1>1 DEF Parts
<1> QED BY <1>1, <1>6, <1>7, <1>8, <1>9, <1>10, <1>11 DEF Parts

\* A client commits: the enable and the content are applied, and the input method hears of
\* them (qdwin_text_input_commit).
LEMMA CommitStep ==
  ASSUME Parts, NEW i \in TextInputs, qdwin_text_input_commit(i)
  PROVE  Parts' /\ Ends
<1>1. /\ ti[i].live /\ ti' = [ti EXCEPT ![i].c_en = ti[i].p_en]
      /\ im' = IF seat THEN qdwin_im_sync_seat(tis, ti', Outdated(i)) ELSE Outdated(i)
      /\ UNCHANGED <<seat, plugged, surf, focus, tis, kgrab, kg, vk, wrong>>
  BY DEF qdwin_text_input_commit
<1>2. ti \in [TextInputs -> Entries(surf)] /\ EntryOK(ti[i], i, surf, seat, focus)
  BY DEF Parts, EntriesOK
<1>3. PICK t : t = [ti[i] EXCEPT !.c_en = ti[i].p_en]
  BY ZenonT(60)
<1>4. /\ t \in Entries(surf) /\ t.live = ti[i].live /\ t.entered = ti[i].entered
      /\ t.believes = ti[i].believes
  BY <1>2, <1>3 DEF Entries
<1>5. ti' = [ti EXCEPT ![i] = t]
  BY <1>1, <1>3
<1>6. EntriesOK(ti', surf, seat, focus)
  BY <1>1, <1>2, <1>4, <1>5 DEF Parts, EntriesOK, EntryOK
<1>7. ListOK(tis, ti')
  <2>1. \A j \in TextInputs : ti'[j].live = ti[j].live
    BY <1>2, <1>4, <1>5
  <2> QED BY <2>1, ListSame DEF Parts
<1>8. PICK X : X = Outdated(i)
  OBVIOUS
<1>9. ASSUME NEW x \in IMEs
      PROVE  /\ X[x] \in Methods /\ SoundMethod(X[x], seat) /\ SameRole(X[x], im[x])
             /\ X[x].ti = im[x].ti
  <2>1. im[x] \in Methods /\ SoundMethod(im[x], seat)
    BY DEF Parts, MethodsOK, MethodOK
  <2>2. PICK y : y = superseded(im[x], i)
    OBVIOUS
  <2>3. Superseded(y, im[x], i)
    BY <2>1, <2>2, SupersededIs DEF SoundMethod, Serial
  <2>4. X[x] = [y EXCEPT !.shown = IF im[x].ti = i THEN FALSE ELSE y.shown]
    BY <1>8, <2>2, <2>3 DEF Outdated, Superseded, Methods
  <2>5. /\ X[x] \in Methods /\ SameRole(X[x], im[x]) /\ X[x].ti = im[x].ti
        /\ X[x].text = y.text /\ X[x].batch = y.batch /\ X[x].fresh = y.fresh
    BY <2>3, <2>4, ZenonT(60) DEF Superseded, Methods, SameRole
  <2> QED BY <2>1, <2>3, <2>5 DEF Superseded, Serial, SoundMethod, SameRole, Working
<1>10. X \in [IMEs -> Methods] /\ OnlyOne(X)
  <2>1. X = [x \in IMEs |-> X[x]]
    BY <1>8 DEF Outdated
  <2>2. X \in [IMEs -> Methods]
    BY <1>9, <2>1
  <2> QED BY <1>9, <2>2 DEF Parts, MethodsOK, OnlyOne, SameRole, Working
<1>11. MethodsOK(im', seat, focus, ti') /\ \A x \in IMEs : SameRole(im'[x], im[x])
  <2>1. CASE seat
    <3>1. seat = TRUE /\ im' = qdwin_im_sync_seat(tis, ti', X) /\ tis \in Seq(TextInputs)
      BY <1>1, <1>8, <2>1 DEF Parts, WorldOK, ListOK
    <3>2. \A j \in TextInputs : ti'[j].entered # NONE => ti'[j].entered = focus
      BY <1>6, <3>1, EnteredIsFocus
    <3>3. MethodsOK(im', seat, focus, ti') /\ \A x \in IMEs : SameRole(im'[x], X[x])
      BY <1>9, <1>10, <3>1, <3>2, SyncIs, ZenonT(60)
    <3> QED BY <1>9, <3>3 DEF SameRole
  <2>2. CASE ~ seat
    <3>1. im' = X
      BY <1>1, <1>8, <2>2
    <3>2. \A x \in IMEs : X[x].ti = NONE
      BY <1>9, <2>2 DEF SoundMethod
    <3> QED BY <1>9, <1>10, <3>1, <3>2 DEF MethodsOK, MethodOK
  <2> QED BY <2>1, <2>2
<1>12. WorldOK'
  BY <1>1 DEF Parts, WorldOK
<1>13. Ends
  BY <1>11 DEF Ends, SameRole
<1>14. GrabOK(kgrab', kg', Held(im'))
  BY <1>1, <1>11, GrabsSame, ZenonT(60)
<1> QED BY <1>1, <1>6, <1>7, <1>11, <1>12, <1>13, <1>14 DEF Parts

\* A text input goes, and the input method that served it serves nobody
\* (qdwin_text_input_resource_destroy, qdwin_im_text_input_gone).
LEMMA TextInputGoneStep ==
  ASSUME Parts, NEW i \in TextInputs, qdwin_text_input_resource_destroy(i)
  PROVE  Parts' /\ Ends
<1>1. /\ ti[i].live /\ ti' = [ti EXCEPT ![i] = NoTextInput]
      /\ tis' = Without(tis, CHOOSE n \in DOMAIN tis : tis[n] = i)
      /\ im' = qdwin_im_text_input_gone(i)
      /\ UNCHANGED <<seat, plugged, surf, focus, kgrab, kg, vk, wrong>>
  BY DEF qdwin_text_input_resource_destroy
<1>2. ti \in [TextInputs -> Entries(surf)] /\ \A j \in TextInputs : EntryOK(ti[j], j, surf, seat, focus)
  BY DEF Parts, EntriesOK
<1>3. NoTextInput \in Entries(surf) /\ ~ NoTextInput.live /\ NoTextInput.believes = {}
      /\ NoTextInput.entered = NONE
  BY DEF NoTextInput, Entries
<1>4. EntryOK(NoTextInput, i, surf, seat, focus)
  BY <1>3 DEF EntryOK
<1>5. EntriesOK(ti', surf, seat, focus)
  BY <1>1, <1>2, <1>3, <1>4 DEF EntriesOK
<1>6. ListOK(tis', ti')
  <2>1. \A j \in TextInputs : ti'[j].live <=> (ti[j].live /\ j # i)
    BY <1>1, <1>2, <1>3
  <2>2. ListOK(tis, ti)
    BY DEF Parts
  <2>3. Unlinked(tis', tis, i) /\ ti[i].live
    BY <1>1, Zenon DEF Unlinked
  <2> QED BY <2>1, <2>2, <2>3, UnlinkOK
<1>7. ASSUME NEW x \in IMEs
      PROVE  im'[x] \in Methods /\ MethodOK(im'[x], seat, focus, ti') /\ SameRole(im'[x], im[x])
  <2>1. im[x] \in Methods /\ MethodOK(im[x], seat, focus, ti) /\ im[x].ti \in TextInputs \cup {NONE}
    BY DEF Parts, MethodsOK, Methods
  <2>2. PICK y : y = superseded(im[x], i)
    OBVIOUS
  <2>3. Superseded(y, im[x], i)
    BY <2>1, <2>2, SupersededIs DEF MethodOK, SoundMethod, Serial
  <2>4. im'[x] = IF y.ti = i THEN qdwin_im_deactivate(y) ELSE y
    BY <1>1, <2>2 DEF qdwin_im_text_input_gone
  <2>5. CASE im[x].ti = i
    <3>1. im'[x] = qdwin_im_deactivate(y) /\ y \in Methods /\ Serial(y)
      BY <2>3, <2>4, <2>5 DEF Superseded
    <3>2. Synced(im'[x], y, NONE)
      BY <3>1, DeactivateIs
    <3> QED BY <2>1, <2>3, <3>2
            DEF Superseded, Synced, Serial, MethodOK, SoundMethod, SameRole, Working
  <2>6. CASE im[x].ti # i
    <3>1. im'[x] = y
      BY <2>3, <2>4, <2>6 DEF Superseded
    <3>2. im[x].ti # NONE => ti'[im[x].ti] = ti[im[x].ti]
      BY <1>1, <1>2, <2>1, <2>6
    <3>3. i # NONE
      BY TextConstants
    <3>4. SoundMethod(y, seat)
      BY <2>1, <2>3 DEF Superseded, Serial, MethodOK, SoundMethod, SameRole, Working
    <3>5. y.ti # NONE => /\ y.fresh => y.knows = y.ti
                         /\ y.batch = "current" => y.text \in {NONE, y.ti}
      BY <2>1, <2>3, <2>6, <3>3 DEF Superseded, MethodOK
    <3> QED BY <2>1, <2>3, <3>1, <3>2, <3>4, <3>5 DEF Superseded, MethodOK, SameRole
  <2> QED BY <2>5, <2>6
<1>8. MethodsOK(im', seat, focus, ti')
  <2>1. im' = [x \in IMEs |-> im'[x]]
    BY <1>1 DEF qdwin_im_text_input_gone
  <2>2. im' \in [IMEs -> Methods]
    BY <1>7, <2>1
  <2> QED BY <1>7, <2>2 DEF Parts, MethodsOK, OnlyOne, SameRole, Working
<1>9. WorldOK'
  BY <1>1 DEF Parts, WorldOK
<1>10. Ends
  BY <1>7 DEF Ends, SameRole
<1>11. GrabOK(kgrab', kg', Held(im'))
  BY <1>1, <1>7, GrabsSame
<1> QED BY <1>1, <1>5, <1>6, <1>8, <1>9, <1>10, <1>11 DEF Parts

\* A client asks for the seat's input method: the second one is inert
\* (qdwin_im_manager_get_input_method).
LEMMA GetInputMethodStep ==
  ASSUME Parts, NEW x \in IMEs, qdwin_im_manager_get_input_method(x)
  PROVE  Parts' /\ Ends
<1>1. PICK r : r = get_input_method(x)
  OBVIOUS
<1>2. PICK X : X = [im EXCEPT ![x] = r]
  OBVIOUS
<1>3. /\ ~ im[x].live
      /\ im' = IF X[x].inert THEN X ELSE qdwin_im_sync_seat(tis, ti, X)
      /\ UNCHANGED <<seat, plugged, surf, focus, tis, ti, kgrab, kg, vk, wrong>>
  BY <1>1, <1>2 DEF qdwin_im_manager_get_input_method
<1>4. /\ r \in Methods /\ r.live = TRUE /\ r.inert = (~ seat \/ Serving(im) # {}) /\ r.ti = NONE
      /\ r.text = NONE /\ r.batch = "none" /\ r.grab = "none"
  BY <1>1 DEF get_input_method, NoIME, Methods
<1>5. MethodsOK(im, seat, focus, ti)
  BY DEF Parts
<1>6. MethodOK(r, seat, focus, ti)
  BY <1>4 DEF MethodOK, SoundMethod, Working
<1>7. Working(r) => Working(im[x]) \/ ~ \E y \in IMEs : Working(im[y])
  BY <1>4, ZenonT(60) DEF Working, Serving
<1>8. MethodsOK(X, seat, focus, ti)
  BY <1>2, <1>5, <1>6, <1>7, OneMethod, ZenonT(60)
<1>9. im \in [IMEs -> Methods] /\ X \in [IMEs -> Methods] /\ X[x] = r
      /\ \A y \in IMEs \ {x} : X[y] = im[y]
  BY <1>2, <1>4, <1>5 DEF MethodsOK
<1>10. MethodsOK(im', seat, focus, ti) /\ \A y \in IMEs : SameRole(im'[y], X[y])
  <2>1. CASE X[x].inert
    BY <1>3, <1>8, <2>1 DEF SameRole
  <2>2. CASE ~ X[x].inert
    <3>1. seat = TRUE
      BY <1>4, <1>9, <2>2, ZenonT(60) DEF Parts, WorldOK
    <3>2. im' = qdwin_im_sync_seat(tis, ti, X) /\ tis \in Seq(TextInputs)
      BY <1>3, <2>2 DEF Parts, ListOK
    <3>3. \A j \in TextInputs : ti[j].entered # NONE => ti[j].entered = focus
      BY <3>1, EnteredIsFocus, ZenonT(60) DEF Parts
    <3>4. OnlyOne(X) /\ \A y \in IMEs : SoundMethod(X[y], seat)
      BY <1>8 DEF MethodsOK, MethodOK
    <3> QED BY <1>9, <3>1, <3>2, <3>3, <3>4, SyncIs
  <2> QED BY <2>1, <2>2
<1>11. WorldOK'
  BY <1>3 DEF Parts, WorldOK
<1>12. Ends
  <2>1. im[x].grab # "held"
    BY <1>3, <1>5 DEF MethodsOK, MethodOK, SoundMethod, Working
  <2> QED BY <1>9, <1>10, <2>1 DEF Ends, SameRole
<1>13. GrabOK(kgrab', kg', Held(im'))
  <2>1. im[x].grab # "held"
    BY <1>3, <1>5 DEF MethodsOK, MethodOK, SoundMethod, Working
  <2>2. \A y \in IMEs : im'[y].grab = "held" <=> im[y].grab = "held"
    BY <1>4, <1>9, <1>10, <2>1 DEF SameRole
  <2> QED BY <1>3, <2>2 DEF Parts, GrabOK, Held
<1> QED BY <1>3, <1>10, <1>11, <1>12, <1>13 DEF Parts

\* A step of one input method, which changes its own record and who holds the keyboard.
LEMMA OwnStep ==
  ASSUME Parts, NEW x \in IMEs, NEW r, im' = [im EXCEPT ![x] = r], im[x].live,
         MethodOK(r, seat, focus, ti), Working(r) => Working(im[x]),
         kgrab' \in IMEs \cup {NONE}, ~ seat => kgrab' = NONE, wrong' = FALSE,
         im[x].grab = "held" /\ r.grab = "none" => kgrab' # x,
         kg' \in Slots, kg'.freed \/ kg'.used => kg'.cancelled, kg'.cancelled => kgrab' # NONE,
         r.grab = "held" <=> kgrab' = x /\ ~ kg'.cancelled,
         \A y \in IMEs \ {x} : im[y].grab = "held" <=> kgrab' = y /\ ~ kg'.cancelled,
         UNCHANGED <<seat, plugged, surf, focus, tis, ti, vk>>
  PROVE  Parts' /\ Ends
<1>1. MethodsOK(im', seat, focus, ti)
  BY OneMethod, ZenonT(60) DEF Parts
<1>2. WorldOK'
  BY DEF Parts, WorldOK
<1>3. im \in [IMEs -> Methods]
  BY DEF Parts, MethodsOK
<1>4. Ends
  BY <1>3 DEF Ends
<1>5. GrabOK(kgrab', kg', Held(im'))
  <2>1. im'[x] = r /\ \A y \in IMEs \ {x} : im'[y] = im[y]
    BY <1>3
  <2> QED BY <2>1 DEF GrabOK, Held
<1> QED BY <1>1, <1>2, <1>4, <1>5 DEF Parts

\* A step of one input method that leaves its grab alone.
LEMMA QuietStep ==
  ASSUME Parts, NEW x \in IMEs, NEW r, im' = [im EXCEPT ![x] = r], im[x].live,
         MethodOK(r, seat, focus, ti), SameRole(r, im[x]), wrong' = FALSE,
         UNCHANGED <<seat, plugged, surf, focus, tis, ti, kgrab, kg, vk>>
  PROVE  Parts' /\ Ends
<1>1. kgrab' \in IMEs \cup {NONE} /\ (~ seat => kgrab' = NONE)
  BY DEF Parts, WorldOK
<1>2. /\ kg' \in Slots /\ (kg'.freed \/ kg'.used => kg'.cancelled)
      /\ (kg'.cancelled => kgrab' # NONE)
      /\ \A y \in IMEs : im[y].grab = "held" <=> kgrab' = y /\ ~ kg'.cancelled
  BY DEF Parts, GrabOK, Held
<1>3. (Working(r) => Working(im[x])) /\ r.grab = im[x].grab
  BY DEF SameRole, Working
<1>4. r.grab = "held" <=> kgrab' = x /\ ~ kg'.cancelled
  BY <1>2, <1>3
<1>5. ~ (im[x].grab = "held" /\ r.grab = "none")
  BY <1>3
<1> QED BY <1>1, <1>2, <1>3, <1>4, <1>5, OwnStep, ZenonT(60)

\* The keyboard after x's grab was freed with k left in it: k is x only if the grab had been
\* cancelled (qdwin_im_grab_resource_destroy).
LEMMA FreedIs ==
  ASSUME Parts, NEW x \in IMEs, NEW k, k = ended(x), NEW g, g = freed(x, k)
  PROVE  /\ k \in IMEs \cup {NONE} /\ (~ seat => k = NONE) /\ (im[x].grab = "held" => k # x)
         /\ g \in Slots /\ (g.freed \/ g.used => g.cancelled) /\ (g.cancelled => k # NONE)
         /\ k = x => g.cancelled
         /\ \A y \in IMEs \ {x} : im[y].grab = "held" <=> k = y /\ ~ g.cancelled
<1>1. /\ kgrab \in IMEs \cup {NONE} /\ (~ seat => kgrab = NONE) /\ x # NONE
      /\ kg \in Slots /\ (kg.freed \/ kg.used => kg.cancelled) /\ (kg.cancelled => kgrab # NONE)
      /\ \A y \in IMEs : im[y].grab = "held" <=> kgrab = y /\ ~ kg.cancelled
  BY TextConstants DEF Parts, WorldOK, GrabOK, Held
<1>2. /\ im[x].grab = "held" => kgrab = x /\ ~ kg.cancelled /\ k = NONE
      /\ im[x].grab # "held" => k = kgrab
  BY <1>1 DEF ended
<1>3. /\ g \in Slots /\ g.cancelled = kg.cancelled /\ g.used = kg.used
      /\ k # x => g.freed = kg.freed
  BY <1>1 DEF freed, Slots
<1>4. k = x => kg.cancelled
  BY <1>1, <1>2
<1>5. g.freed \/ g.used => g.cancelled
  BY <1>1, <1>3, <1>4
<1>6. ASSUME NEW y \in IMEs \ {x}
      PROVE  im[y].grab = "held" <=> k = y /\ ~ g.cancelled
  <2>1. y # NONE
    BY TextConstants
  <2> QED BY <1>1, <1>2, <1>3, <2>1
<1> QED BY <1>1, <1>2, <1>3, <1>4, <1>5, <1>6

\* What an input method does to itself: it reads, composes, commits, takes and releases the
\* keyboard, and goes (ImeReads, qdwin_im_req_commit_string, qdwin_im_req_commit,
\* qdwin_im_req_grab_keyboard, qdwin_im_grab_resource_destroy,
\* qdwin_input_method_resource_destroy).
LEMMA MethodStep ==
  ASSUME Parts, NEW x \in IMEs,
         \/ ImeReads(x) \/ qdwin_im_req_commit_string(x) \/ qdwin_im_req_commit(x)
         \/ qdwin_im_req_grab_keyboard(x) \/ qdwin_im_grab_resource_destroy(x)
         \/ qdwin_input_method_resource_destroy(x)
  PROVE  Parts' /\ Ends
<1>1. im \in [IMEs -> Methods] /\ im[x] \in Methods /\ MethodOK(im[x], seat, focus, ti)
  BY DEF Parts, MethodsOK
<1>2. wrong = FALSE /\ x # NONE
  BY TextConstants DEF Parts, WorldOK
<1>3. PICK k : k = ended(x)
  OBVIOUS
<1>4. PICK g : g = freed(x, k)
  OBVIOUS
<1>5. /\ k \in IMEs \cup {NONE} /\ (~ seat => k = NONE) /\ (im[x].grab = "held" => k # x)
      /\ g \in Slots /\ (g.freed \/ g.used => g.cancelled) /\ (g.cancelled => k # NONE)
      /\ k = x => g.cancelled
      /\ \A y \in IMEs \ {x} : im[y].grab = "held" <=> k = y /\ ~ g.cancelled
  BY <1>3, <1>4, FreedIs
<1>6. CASE ImeReads(x)
  <2>1. PICK k2 : k2 = IF im[x].shown THEN im[x].ti ELSE NONE
    OBVIOUS
  <2>2. PICK r : r = [im[x] EXCEPT !.fresh = TRUE, !.knows = k2]
    OBVIOUS
  <2>3. im' = [im EXCEPT ![x] = r] /\ im[x].live /\ im[x].batch = "none"
        /\ UNCHANGED <<seat, plugged, surf, focus, tis, ti, kgrab, kg, vk, wrong>>
    BY <1>6, <2>1, <2>2 DEF ImeReads
  <2>4. k2 \in TextInputs \cup {NONE}
    BY <1>1, <2>1 DEF Methods
  <2>5. /\ r \in Methods /\ SameRole(r, im[x]) /\ r.ti = im[x].ti /\ r.text = im[x].text
        /\ r.shown = im[x].shown /\ r.batch = im[x].batch /\ r.knows = k2
    BY <1>1, <2>2, <2>4, ZenonT(60) DEF Methods, SameRole
  <2>6. MethodOK(r, seat, focus, ti)
    BY <1>1, <2>1, <2>3, <2>5 DEF MethodOK, SoundMethod, Working, SameRole
  <2> QED BY <1>2, <2>3, <2>5, <2>6, QuietStep
<1>7. CASE qdwin_im_req_commit_string(x)
  <2>1. PICK b : b = Batch(im[x])
    OBVIOUS
  <2>2. /\ b \in {"current", "stale"}
        /\ b = "current" => im[x].fresh
    BY <1>1, <2>1 DEF Batch, Methods, MethodOK, SoundMethod
  <2>3. PICK w : w = IF im[x].knows # NONE THEN im[x].knows ELSE SUPERSEDED
    OBVIOUS
  <2>4. PICK r : r = [im[x] EXCEPT !.text = w, !.batch = b]
    OBVIOUS
  <2>5. im' = [im EXCEPT ![x] = r] /\ im[x].live
        /\ UNCHANGED <<seat, plugged, surf, focus, tis, ti, kgrab, kg, vk, wrong>>
    BY <1>1, <1>7, <2>1, <2>3, <2>4, ZenonT(60) DEF qdwin_im_req_commit_string
  <2>6. w \in TextInputs \cup {NONE, SUPERSEDED}
    BY <1>1, <2>3 DEF Methods
  <2>7. /\ r \in Methods /\ SameRole(r, im[x]) /\ r.ti = im[x].ti /\ r.text = w
        /\ r.shown = im[x].shown /\ r.batch = b /\ r.fresh = im[x].fresh
        /\ r.knows = im[x].knows
    BY <1>1, <2>2, <2>4, <2>6, ZenonT(60) DEF Methods, SameRole
  <2>8. im[x].ti # NONE /\ b = "current" => w = im[x].ti
    BY <1>1, <2>2, <2>3 DEF MethodOK
  <2>9. SoundMethod(r, seat)
    BY <1>1, <2>2, <2>7 DEF MethodOK, SoundMethod, Working, SameRole
  <2>10. MethodOK(r, seat, focus, ti)
    BY <1>1, <2>7, <2>8, <2>9 DEF MethodOK
  <2> QED BY <1>2, <2>5, <2>7, <2>10, QuietStep
<1>8. CASE qdwin_im_req_commit(x)
  <2>1. PICK r : r = [im[x] EXCEPT !.text = NONE, !.batch = "none"]
    OBVIOUS
  <2>2. im' = [im EXCEPT ![x] = r] /\ im[x].live
        /\ UNCHANGED <<seat, plugged, surf, focus, tis, ti, kgrab, kg, vk>>
    BY <1>1, <1>8, <2>1, ZenonT(60) DEF qdwin_im_req_commit
  <2>3. Applies(x) => im[x].text \in {NONE, im[x].ti}
    BY <1>1 DEF Applies, Batch, MethodOK, SoundMethod
  <2>4. wrong' = FALSE
    BY <1>2, <1>8, <2>3 DEF qdwin_im_req_commit
  <2>5. /\ r \in Methods /\ SameRole(r, im[x]) /\ r.ti = im[x].ti /\ r.text = NONE
        /\ r.shown = im[x].shown /\ r.batch = "none" /\ r.fresh = im[x].fresh
        /\ r.knows = im[x].knows
    BY <1>1, <2>1, ZenonT(60) DEF Methods, SameRole
  <2>6. MethodOK(r, seat, focus, ti)
    BY <1>1, <2>5 DEF MethodOK, SoundMethod, Working, SameRole
  <2> QED BY <2>2, <2>4, <2>5, <2>6, QuietStep
<1>9. CASE qdwin_im_req_grab_keyboard(x)
  <2>1. PICK h : h = IF plugged THEN "held" ELSE "idle"
    OBVIOUS
  <2>2. PICK r : r = [im[x] EXCEPT !.grab = h]
    BY Zenon
  <2>3. im' = [im EXCEPT ![x] = r] /\ im[x].live /\ ~ im[x].inert
        /\ kgrab' = (IF plugged THEN x ELSE k)
        /\ kg' = (IF plugged THEN Started ELSE g)
        /\ UNCHANGED <<seat, plugged, surf, focus, tis, ti, vk, wrong>>
    BY <1>3, <1>4, <1>9, <2>1, <2>2 DEF qdwin_im_req_grab_keyboard
  <2>4. seat /\ Working(im[x])
    BY <1>1, <2>3 DEF MethodOK, SoundMethod, Working
  <2>5. /\ r \in Methods /\ r.live = im[x].live /\ r.inert = im[x].inert /\ r.ti = im[x].ti
        /\ r.text = im[x].text /\ r.shown = im[x].shown /\ r.grab = h
        /\ r.batch = im[x].batch /\ r.fresh = im[x].fresh /\ r.knows = im[x].knows
    BY <1>1, <2>1, <2>2 DEF Methods
  <2>6. MethodOK(r, seat, focus, ti) /\ (Working(r) => Working(im[x])) /\ r.grab # "none"
    BY <1>1, <2>1, <2>4, <2>5 DEF MethodOK, SoundMethod, Working
  <2>7. CASE plugged
    <3>1. /\ Started \in Slots /\ ~ Started.cancelled /\ ~ Started.freed /\ ~ Started.used
      BY DEF Started, Slots
    <3>2. \A y \in IMEs \ {x} : im[y].grab # "held"
      BY <2>4 DEF Parts, MethodsOK, MethodOK, SoundMethod, OnlyOne
    <3> QED BY <1>2, <2>1, <2>3, <2>4, <2>5, <2>6, <2>7, <3>1, <3>2, OwnStep
  <2>8. CASE ~ plugged
    <3>1. kgrab' = k /\ kg' = g /\ r.grab = "idle"
      BY <2>1, <2>3, <2>5, <2>8
    <3> QED BY <1>2, <1>5, <2>3, <2>4, <2>6, <3>1, OwnStep
  <2> QED BY <2>7, <2>8
<1>10. CASE qdwin_im_grab_resource_destroy(x)
  <2>1. PICK r : r = [im[x] EXCEPT !.grab = "none"]
    BY Zenon
  <2>2. im' = [im EXCEPT ![x] = r] /\ im[x].live /\ kgrab' = k /\ kg' = g
        /\ UNCHANGED <<seat, plugged, surf, focus, tis, ti, vk, wrong>>
    BY <1>3, <1>4, <1>10, <2>1 DEF qdwin_im_grab_resource_destroy
  <2>3. /\ r \in Methods /\ r.live = im[x].live /\ r.inert = im[x].inert /\ r.ti = im[x].ti
        /\ r.text = im[x].text /\ r.shown = im[x].shown /\ r.grab = "none"
        /\ r.batch = im[x].batch /\ r.fresh = im[x].fresh /\ r.knows = im[x].knows
    BY <1>1, <2>1 DEF Methods
  <2>4. MethodOK(r, seat, focus, ti) /\ (Working(r) => Working(im[x]))
    BY <1>1, <2>3 DEF MethodOK, SoundMethod, Working
  <2> QED BY <1>2, <1>5, <2>2, <2>3, <2>4, OwnStep, ZenonT(60)
<1>11. CASE qdwin_input_method_resource_destroy(x)
  <2>1. im' = [im EXCEPT ![x] = NoIME] /\ im[x].live /\ kgrab' = k /\ kg' = g
        /\ UNCHANGED <<seat, plugged, surf, focus, tis, ti, vk, wrong>>
    BY <1>3, <1>4, <1>11 DEF qdwin_input_method_resource_destroy, input_method_destroyed
  <2>2. MethodOK(NoIME, seat, focus, ti) /\ ~ Working(NoIME) /\ NoIME.grab = "none"
    BY DEF NoIME, MethodOK, SoundMethod, Working, Methods
  <2> QED BY <1>2, <1>5, <2>1, <2>2, OwnStep
<1> QED BY <1>6, <1>7, <1>8, <1>9, <1>10, <1>11

\* The virtual keyboards, the hardware keys and a keyboard that is plugged in change nothing
\* of the text inputs, and call the grab of the keyboard (qdwin_im_grab_key).
LEMMA KeyStep ==
  ASSUME Parts,
         \/ weston_seat_init_keyboard \/ HardwareKey
         \/ \E v \in VKs :
              \/ qdwin_vk_manager_create_virtual_keyboard(v)
              \/ qdwin_vk_req_keymap(v) \/ qdwin_vk_req_key(v)
              \/ qdwin_virtual_keyboard_resource_destroy(v)
  PROVE  Parts' /\ Ends
<1>1. UNCHANGED <<seat, surf, focus, tis, ti, im, kgrab, wrong>>
  BY DEF weston_seat_init_keyboard, HardwareKey, qdwin_vk_manager_create_virtual_keyboard,
         qdwin_vk_req_keymap, qdwin_vk_req_key, qdwin_virtual_keyboard_resource_destroy
<1>2. plugged' \in BOOLEAN /\ (~ (seat' /\ plugged') => focus' = NONE)
  BY DEF Parts, WorldOK, weston_seat_init_keyboard, HardwareKey,
         qdwin_vk_manager_create_virtual_keyboard,
         qdwin_vk_req_keymap, qdwin_vk_req_key, qdwin_virtual_keyboard_resource_destroy
<1>3. vk' \in [VKs -> Boards] /\ \A v \in VKs : vk'[v].seat => vk'[v].live /\ seat
  <2>1. vk \in [VKs -> Boards] /\ seat \in BOOLEAN /\ NoVK \in Boards /\ ~ NoVK.seat
        /\ \A v \in VKs : vk[v].seat => vk[v].live /\ seat
    BY DEF Parts, WorldOK, NoVK, Boards
  <2>2. ASSUME NEW v \in VKs, NEW r \in Boards, vk' = [vk EXCEPT ![v] = r],
               r.seat => r.live /\ seat
        PROVE  vk' \in [VKs -> Boards] /\ \A u \in VKs : vk'[u].seat => vk'[u].live /\ seat
    BY <2>1, <2>2
  <2>3. ASSUME NEW v \in VKs, qdwin_vk_req_keymap(v)
        PROVE  \E r \in Boards : vk' = [vk EXCEPT ![v] = r] /\ (r.seat => r.live /\ seat)
    <3>1. PICK r : r = [vk[v] EXCEPT !.keymap = TRUE]
      OBVIOUS
    <3>2. r \in Boards /\ r.seat = vk[v].seat /\ r.live = vk[v].live
      BY <2>1, <3>1 DEF Boards
    <3>3. vk' = [vk EXCEPT ![v] = r]
      BY <2>3, <3>1 DEF qdwin_vk_req_keymap
    <3> QED BY <2>1, <3>2, <3>3
  <2>4. ASSUME NEW v \in VKs, qdwin_vk_manager_create_virtual_keyboard(v)
        PROVE  \E r \in Boards : vk' = [vk EXCEPT ![v] = r] /\ (r.seat => r.live /\ seat)
    <3>1. PICK r : r = [live |-> TRUE, seat |-> seat, keymap |-> FALSE]
      BY ZenonT(60)
    <3>2. r \in Boards /\ r.seat = seat /\ r.live
      BY <2>1, <3>1 DEF Boards
    <3>3. vk' = [vk EXCEPT ![v] = r]
      BY <2>4, <3>1 DEF qdwin_vk_manager_create_virtual_keyboard
    <3> QED BY <2>1, <3>2, <3>3
  <2>5. ASSUME NEW v \in VKs, qdwin_vk_req_key(v) \/ qdwin_virtual_keyboard_resource_destroy(v)
        PROVE  vk' = vk \/ vk' = [vk EXCEPT ![v] = NoVK]
    BY <2>5 DEF qdwin_vk_req_key, qdwin_virtual_keyboard_resource_destroy
  <2>6. CASE weston_seat_init_keyboard \/ HardwareKey
    BY <2>1, <2>6 DEF weston_seat_init_keyboard, HardwareKey
  <2> QED BY <2>1, <2>2, <2>3, <2>4, <2>5, <2>6
<1>4. kg' = kg \/ kg' = called_through
  BY DEF weston_seat_init_keyboard, HardwareKey, qdwin_vk_manager_create_virtual_keyboard,
         qdwin_vk_req_keymap, qdwin_vk_req_key, qdwin_virtual_keyboard_resource_destroy
<1>5. /\ kg' \in Slots /\ kg'.cancelled = kg.cancelled /\ kg'.freed = kg.freed
      /\ kg'.used => kg.used \/ kg.freed
  <2>1. kg \in Slots
    BY DEF Parts, GrabOK
  <2> QED BY <1>4, <2>1, ZenonT(60) DEF called_through, Slots
<1>6. GrabOK(kgrab', kg', Held(im'))
  BY <1>1, <1>5 DEF Parts, GrabOK
<1>7. WorldOK'
  BY <1>1, <1>2, <1>3 DEF Parts, WorldOK
<1>8. Ends
  BY <1>1 DEF Ends
<1> QED BY <1>1, <1>6, <1>7, <1>8 DEF Parts

\* Every step keeps the parts of the invariant, and ends a grab with its holder.
LEMMA StepOK ==
  ASSUME Parts, [Next]_vars
  PROVE  Parts' /\ Ends
<1>1. CASE UNCHANGED vars
  BY <1>1 DEF vars, Parts, WorldOK, Ends
<1>2. ASSUME NEW f \in surf \cup {NONE}, qdwin_on_keyboard_focus_changed(f) PROVE Parts' /\ Ends
  BY <1>2, FocusStep
<1>3. ASSUME NEW s \in Surfaces, SurfaceCreated(s) \/ qdwin_text_input_entered_destroyed(s)
      PROVE  Parts' /\ Ends
  BY <1>3, SurfaceStep, SurfaceGoneStep
<1>4. CASE weston_seat_release_keyboard
  BY <1>4, UnplugStep
<1>5. CASE qdwin_im_seat_destroyed
  BY <1>5, SeatGoneStep
<1>6. ASSUME NEW i \in TextInputs,
             \/ qdwin_text_input_manager_get_text_input(i)
             \/ \E on \in BOOLEAN : qdwin_text_input_enable(i, on)
             \/ qdwin_text_input_commit(i)
             \/ qdwin_text_input_resource_destroy(i)
      PROVE  Parts' /\ Ends
  BY <1>6, GetTextInputStep, EnableStep, CommitStep, TextInputGoneStep
<1>7. ASSUME NEW x \in IMEs,
             \/ qdwin_im_manager_get_input_method(x)
             \/ ImeReads(x) \/ qdwin_im_req_commit_string(x) \/ qdwin_im_req_commit(x)
             \/ qdwin_im_req_grab_keyboard(x) \/ qdwin_im_grab_resource_destroy(x)
             \/ qdwin_input_method_resource_destroy(x)
      PROVE  Parts' /\ Ends
  BY <1>7, GetInputMethodStep, MethodStep
<1>8. CASE \/ weston_seat_init_keyboard \/ HardwareKey
           \/ \E v \in VKs :
                \/ qdwin_vk_manager_create_virtual_keyboard(v)
                \/ qdwin_vk_req_keymap(v) \/ qdwin_vk_req_key(v)
                \/ qdwin_virtual_keyboard_resource_destroy(v)
  BY <1>8, KeyStep
<1>9. CASE Undefined
  BY <1>1, <1>9 DEF Undefined
<1> QED BY <1>1, <1>2, <1>3, <1>4, <1>5, <1>6, <1>7, <1>8, <1>9 DEF Next, Step

-----------------------------------------------------------------------------
\* The text input of the focused client is served by the one input method of the seat, with
\* text composed for it and from its latest content, and the keyboard points to a grab only
\* while its method holds it or after an unplug cancelled it, for any number of surfaces, text
\* inputs, input methods and virtual keyboards (qdwin_text_input_update_focus,
\* qdwin_im_sync_seat, qdwin_im_req_commit, qdwin_im_grab_resource_destroy).
THEOREM SpecTextInputServed == Spec => []TextInputServed
<1>1. Init => Parts
  <2> SUFFICES ASSUME Init PROVE Parts
    OBVIOUS
  <2>1. WorldOK
    BY DEF Init, WorldOK, NoVK, Boards
  <2>2. ListOK(tis, ti)
    BY DEF Init, ListOK, NoTextInput
  <2>3. EntriesOK(ti, surf, seat, focus)
    BY DEF Init, EntriesOK, EntryOK, NoTextInput, Entries
  <2>4. MethodsOK(im, seat, focus, ti)
    BY DEF Init, MethodsOK, MethodOK, SoundMethod, OnlyOne, Working, NoIME, Methods
  <2>5. GrabOK(kgrab, kg, Held(im))
    BY TextConstants DEF Init, GrabOK, Held, NoIME, Started, Slots
  <2> QED BY <2>1, <2>2, <2>3, <2>4, <2>5 DEF Parts
<1>2. Parts /\ [Next]_vars => Parts'
  BY StepOK
<1> QED BY <1>1, <1>2, InParts, PTL DEF Spec

\* An input method that lets go of its grab, or goes, leaves the keyboard to the apps, for any
\* number of input methods (qdwin_im_grab_resource_destroy).
THEOREM SpecGrabEnds == Spec => GrabEndsWithHolder
<1>1. TextInputServed /\ [Next]_vars => [Ends]_vars
  BY InParts, StepOK
<1>2. GrabEndsWithHolder <=> [][Ends]_vars
  BY PTL DEF GrabEndsWithHolder, Ends
<1> QED BY <1>1, <1>2, SpecTextInputServed, PTL DEF Spec
=============================================================================
