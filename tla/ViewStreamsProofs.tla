------------------------- MODULE ViewStreamsProofs -------------------------
(***************************************************************************)
(* Window streams for any streams, windows, outputs and processes.  The    *)
(* properties of the runs, taken together, are inductive: Good is what one *)
(* stream may be, SoundS relates the streams to each other and to their    *)
(* children, SoundW the windows to the streams that show them.             *)
(***************************************************************************)
EXTENDS ViewStreams, FiniteSetTheorems, TLAPS

\* What a stream holds that is not live.
Nothing(q) ==
    /\ q.tl = NONE /\ q.pw = NONE /\ ~q.pinned /\ q.prev = NONE
    /\ ~q.seat /\ q.grab = "default" /\ ~q.confine /\ ~q.handle /\ ~q.token /\ ~q.allow
    /\ q.pid = NONE /\ ~q.watch

\* What a live one does.
Holds(q) ==
    q.tl # NONE /\ q.pw # NONE /\ q.pinned /\ q.seat /\ q.pid # NONE /\ q.watch

\* What the properties say of one stream.
Good(q) ==
    /\ q \in StreamType
    /\ q.listed <=> q.obj = "struct" /\ ~q.released
    /\ q.listed => Holds(q)
    /\ ~q.listed => Nothing(q)
    /\ q.obj = "struct" /\ q.released => q.torn
    /\ q.claims = 0 \/ (q.claims = 1 /\ (q.token => q.handle))
    /\ q.grab = "confine" => q.confine /\ q.focus # "other"
    /\ ~q.allow => q.focus = "none" /\ q.grab # "other"

Children == {"none", "running", "signalled", "zombie", "reaped"}

SoundS ==
    /\ str \in [Streams -> StreamType]
    /\ child \in [Streams -> Children]
    /\ proc \in [Pids -> Streams \cup {FOREIGN, NONE}]
    /\ conn \subseteq Streams
    /\ outputs \subseteq Desktop
    /\ shell \in BOOLEAN /\ locked \in BOOLEAN /\ stray = FALSE
    /\ \A s \in Streams : Good(str[s])
    /\ \A s \in Streams : str[s].prev \in outputs \cup Pipewire \cup {NONE}
    /\ \A s \in Streams : child[s] = "running" => str[s].listed /\ proc[str[s].pid] = s
    /\ \A s, r \in Streams : s # r /\ str[s].listed /\ str[r].listed => str[s].pw # str[r].pw

SoundW ==
    /\ where \in [Toplevels -> outputs \cup Pipewire \cup {NONE}]
    /\ astray \subseteq Toplevels
    /\ WindowComesBack

\* The properties the runs check, as one.
StreamsSound ==
    StreamsEndClean /\ WindowComesBack /\ InputConfined

\* They are SoundS and SoundW.
LEMMA AsOne == StreamsSound <=> SoundS /\ SoundW
<1>1. ASSUME NEW s \in Streams, str \in [Streams -> StreamType]
      PROVE  Good(str[s]) <=>
               /\ Live(s) <=> str[s].obj = "struct" /\ ~str[s].released
               /\ Live(s) => /\ str[s].tl # NONE /\ str[s].pw # NONE /\ str[s].pinned
                             /\ str[s].seat /\ str[s].pid # NONE /\ str[s].watch
               /\ ~Live(s) => /\ str[s].tl = NONE /\ str[s].pw = NONE /\ ~str[s].pinned
                              /\ str[s].prev = NONE /\ ~str[s].seat /\ str[s].grab = "default"
                              /\ ~str[s].confine /\ ~str[s].handle /\ ~str[s].token /\ ~str[s].allow
                              /\ str[s].pid = NONE /\ ~str[s].watch
               /\ str[s].obj = "struct" /\ str[s].released => str[s].torn
               /\ str[s].claims <= 1 /\ (str[s].claims = 1 /\ str[s].token => str[s].handle)
               /\ str[s].grab = "confine" => str[s].confine /\ str[s].focus # "other"
               /\ ~str[s].allow => str[s].focus = "none" /\ str[s].grab # "other"
  <2>1. str[s] \in StreamType
    BY <1>1
  <2>2. str[s].claims \in Nat
    BY <2>1 DEF StreamType
  <2>3. str[s].claims <= 1 <=> str[s].claims = 0 \/ str[s].claims = 1
    BY <2>2
  <2> QED BY <2>1, <2>3 DEF Good, Holds, Nothing, Live
<1>2. StreamsSound => SoundS /\ SoundW
  <2> SUFFICES ASSUME StreamsSound PROVE SoundS /\ SoundW
    OBVIOUS
  <2>1. TypeOK /\ stray = FALSE
    BY DEF StreamsSound, StreamsEndClean, SignalsOwnChild, TypeOK
  <2>2. \A s \in Streams : Good(str[s])
    BY <1>1, <2>1 DEF TypeOK, StreamsSound, StreamsEndClean, HoldsAllOrNothing, TombstoneTold,
       InputConfined, TokenOneShot, ConfinedToSource
  <2> QED BY <2>1, <2>2 DEF TypeOK, SoundS, SoundW, Children, StreamsSound, StreamsEndClean,
             NoOrphanForward, OutputCarriesOneStream, Live
<1>3. SoundS /\ SoundW => StreamsSound
  <2> SUFFICES ASSUME SoundS, SoundW PROVE StreamsSound
    OBVIOUS
  <2>1. TypeOK /\ SignalsOwnChild
    BY DEF SoundS, SoundW, TypeOK, Children, SignalsOwnChild
  <2>a. \A s \in Streams : Good(str[s]) /\ str \in [Streams -> StreamType]
    BY DEF SoundS
  <2>2. HoldsAllOrNothing /\ TombstoneTold /\ InputConfined
    BY <1>1, <2>a DEF HoldsAllOrNothing, TombstoneTold, InputConfined, TokenOneShot,
       ConfinedToSource
  <2>3. NoOrphanForward /\ OutputCarriesOneStream
    BY DEF SoundS, Good, Holds, NoOrphanForward, OutputCarriesOneStream, Live
  <2> QED BY <2>1, <2>2, <2>3 DEF StreamsSound, StreamsEndClean, SoundW
<1> QED BY <1>2, <1>3

-----------------------------------------------------------------------------
(* What the operations do to one stream                                     *)

\* qdwin_stream_confine_grab_end changes the grab only.
LEMMA GrabEnd ==
  ASSUME NEW q \in StreamType
  PROVE  \E g \in {"default", "confine", "other"} :
            /\ qdwin_stream_confine_grab_end(q) = [q EXCEPT !.confine = FALSE, !.grab = g]
            /\ q.confine => g # "confine"
            /\ g = q.grab \/ g = "default"
<1> DEFINE g == IF q.confine /\ q.grab = "confine" THEN "default" ELSE q.grab
<1>1. qdwin_stream_confine_grab_end(q) = [q EXCEPT !.confine = FALSE, !.grab = g]
  BY DEF qdwin_stream_confine_grab_end, StreamType
<1>2. /\ g \in {"default", "confine", "other"} /\ (q.confine => g # "confine")
      /\ g = q.grab \/ g = "default"
  BY DEF StreamType
<1> HIDE DEF g
<1> QED BY <1>1, <1>2

\* What a release relies on; a subscription that fails half-way has only this.
Releasable(q) ==
    /\ q \in StreamType
    /\ q.released => ~q.listed /\ Nothing(q) /\ q.focus = "none"
    /\ ~q.seat => q.grab = "default" /\ ~q.confine /\ q.focus = "none"
    /\ q.grab = "confine" => q.confine

\* Every good stream has it.
LEMMA GoodReleasable ==
  ASSUME NEW q, Good(q)
  PROVE  Releasable(q)
  BY DEF Good, Releasable, Holds, Nothing

\* A stream whose seat is taken away is still a stream.
LEMMA NoSeatTyped ==
  ASSUME NEW q \in StreamType
  PROVE  [q EXCEPT !.seat = FALSE, !.focus = "none", !.grab = "default"] \in StreamType
  BY ZenonT(60) DEF StreamType

\* A stream is released: it holds nothing, and only that changes.
LEMMA ReleasedIs ==
  ASSUME NEW q, Releasable(q)
  PROVE  LET r == released(q)
         IN  /\ r \in StreamType /\ r.released = TRUE /\ r.listed = FALSE /\ Nothing(r)
             /\ r.focus = "none" /\ r.obj = q.obj /\ r.torn = q.torn /\ r.claims = q.claims
             /\ r.port = q.port
<1>1. q \in StreamType
  BY DEF Releasable
<1>2. CASE q.released
  BY <1>1, <1>2 DEF released, Releasable, Nothing, StreamType
<1>3. CASE ~q.released
  <2> DEFINE a == qdwin_stream_seat_release(q)
             b == qdwin_view_stream_disarm_pidfd(a)
             r == [b EXCEPT !.released = TRUE, !.handle = FALSE, !.pid = NONE, !.pinned = FALSE,
                            !.listed = FALSE, !.token = FALSE, !.allow = FALSE, !.tl = NONE,
                            !.pw = NONE, !.prev = NONE]
  <2>1. released(q) = r
    BY <1>3 DEF released
  <2>2. /\ a \in StreamType /\ a.seat = FALSE /\ a.focus = "none" /\ a.grab = "default"
        /\ a.confine = FALSE /\ a.obj = q.obj /\ a.torn = q.torn /\ a.claims = q.claims
        /\ a.port = q.port
    <3>1. CASE q.seat
      <4>1. PICK g \in {"default", "confine", "other"} :
              /\ qdwin_stream_confine_grab_end(q) = [q EXCEPT !.confine = FALSE, !.grab = g]
              /\ q.confine => g # "confine"
              /\ g = q.grab \/ g = "default"
        BY <1>1, GrabEnd
      <4>2. g # "confine"
        BY <4>1 DEF Releasable
      <4> DEFINE e == [q EXCEPT !.confine = FALSE, !.grab = g]
                 h == IF g = "other" THEN "default" ELSE g
      <4>3. e \in StreamType /\ e.grab = g
        <5>1. e \in StreamType
          BY <1>1, ZenonT(60) DEF StreamType
        <5> QED BY <1>1, <5>1 DEF StreamType
      <4>4. a = [e EXCEPT !.seat = FALSE, !.focus = "none", !.grab = h]
        <5> HIDE DEF h
        <5> QED BY <3>1, <4>1, <4>3 DEF qdwin_stream_seat_release, StreamType, h
      <4>5. h = "default"
        BY <4>2
      <4> HIDE DEF a, h
      <4>6. a = [[q EXCEPT !.confine = FALSE, !.grab = g] EXCEPT !.seat = FALSE, !.focus = "none",
                                                                  !.grab = "default"]
        BY <4>4, <4>5
      <4>7. a \in StreamType
        <5> HIDE DEF e
        <5>1. a = [e EXCEPT !.seat = FALSE, !.focus = "none", !.grab = "default"]
          BY <4>4, <4>5
        <5> QED BY <4>3, <5>1, NoSeatTyped
      <4> QED BY <1>1, <4>6, <4>7 DEF StreamType
    <3>2. CASE ~q.seat
      BY <1>1, <3>2 DEF qdwin_stream_seat_release, Releasable, StreamType
    <3> QED BY <3>1, <3>2
  <2> HIDE DEF a
  <2>3. /\ b \in StreamType /\ b.seat = FALSE /\ b.focus = "none" /\ b.grab = "default"
        /\ b.confine = FALSE /\ b.obj = q.obj /\ b.torn = q.torn /\ b.claims = q.claims
        /\ b.port = q.port /\ b.watch = FALSE
    BY <2>2 DEF qdwin_view_stream_disarm_pidfd, StreamType
  <2> HIDE DEF b
  <2>4. r \in StreamType
    BY <2>3, ZenonT(60) DEF StreamType
  <2>5. /\ r.seat = FALSE /\ r.focus = "none" /\ r.grab = "default" /\ r.confine = FALSE
        /\ r.obj = q.obj /\ r.torn = q.torn /\ r.claims = q.claims /\ r.port = q.port
        /\ r.watch = FALSE /\ r.released = TRUE /\ r.handle = FALSE /\ r.pid = NONE
        /\ r.pinned = FALSE /\ r.listed = FALSE /\ r.token = FALSE /\ r.allow = FALSE
        /\ r.tl = NONE /\ r.pw = NONE /\ r.prev = NONE
    BY <2>3 DEF StreamType
  <2> HIDE DEF r
  <2> QED BY <2>1, <2>4, <2>5 DEF Nothing
<1> QED BY <1>2, <1>3

\* A stream that is terminated is a good tombstone.
LEMMA TerminateGood ==
  ASSUME NEW q, Releasable(q), q.claims \in {0, 1}
  PROVE  Good(terminate(q)) /\ ~terminate(q).listed
<1> DEFINE r == released(q)
<1>1. /\ r \in StreamType /\ r.released = TRUE /\ r.listed = FALSE /\ Nothing(r)
      /\ r.focus = "none" /\ r.obj = q.obj /\ r.claims = q.claims
  BY ReleasedIs
<1>2. terminate(q) = [r EXCEPT !.torn = TRUE]
  BY DEF terminate
<1> HIDE DEF r
<1> DEFINE d == [r EXCEPT !.torn = TRUE]
<1>3. d \in StreamType
  BY <1>1 DEF StreamType
<1>4. /\ d.torn = TRUE /\ d.released = TRUE /\ d.listed = FALSE /\ d.focus = "none"
      /\ d.claims = r.claims
      /\ d.tl = r.tl /\ d.pw = r.pw /\ d.pinned = r.pinned /\ d.prev = r.prev
      /\ d.seat = r.seat /\ d.grab = r.grab /\ d.confine = r.confine /\ d.handle = r.handle
      /\ d.token = r.token /\ d.allow = r.allow /\ d.pid = r.pid /\ d.watch = r.watch
  BY <1>1 DEF StreamType
<1> HIDE DEF d
<1>5. Good(d) /\ ~d.listed
  BY <1>1, <1>3, <1>4 DEF Good, Nothing
<1> QED BY <1>2, <1>5 DEF d

\* So is one whose object is destroyed.
LEMMA DestroyGood ==
  ASSUME NEW q, Releasable(q)
  PROVE  Good(destroyed(q)) /\ ~destroyed(q).listed /\ destroyed(q).released = TRUE
<1> DEFINE r == released(q)
<1>1. /\ r \in StreamType /\ r.released = TRUE /\ r.listed = FALSE /\ Nothing(r)
      /\ r.focus = "none"
  BY ReleasedIs
<1>2. destroyed(q) = [r EXCEPT !.obj = "freed", !.torn = FALSE, !.claims = 0, !.port = 0]
  BY DEF destroyed
<1> HIDE DEF r
<1> DEFINE d == [r EXCEPT !.obj = "freed", !.torn = FALSE, !.claims = 0, !.port = 0]
<1>3. d \in StreamType
  BY <1>1, ZenonT(60) DEF StreamType
<1>4. /\ d.obj = "freed" /\ d.released = TRUE /\ d.listed = FALSE /\ d.focus = "none"
      /\ d.claims = 0
      /\ d.tl = r.tl /\ d.pw = r.pw /\ d.pinned = r.pinned /\ d.prev = r.prev
      /\ d.seat = r.seat /\ d.grab = r.grab /\ d.confine = r.confine /\ d.handle = r.handle
      /\ d.token = r.token /\ d.allow = r.allow /\ d.pid = r.pid /\ d.watch = r.watch
  BY <1>1 DEF StreamType
<1> HIDE DEF d
<1>5. Good(d) /\ ~d.listed /\ d.released = TRUE
  BY <1>1, <1>3, <1>4 DEF Good, Nothing
<1> QED BY <1>2, <1>5 DEF d

\* An object that is given another kind once it is destroyed, or before it is anything.
LEMMA KindGood ==
  ASSUME NEW q, Good(q), ~q.listed, NEW k \in {"inert", "late", "freed"}
  PROVE  Good([q EXCEPT !.obj = k]) /\ ~[q EXCEPT !.obj = k].listed
<1> DEFINE d == [q EXCEPT !.obj = k]
<1>1. q \in StreamType
  BY DEF Good
<1>2. d \in StreamType
  BY <1>1 DEF StreamType
<1>3. /\ d.obj = k /\ d.released = q.released /\ d.listed = q.listed /\ d.focus = q.focus
      /\ d.claims = q.claims
      /\ d.tl = q.tl /\ d.pw = q.pw /\ d.pinned = q.pinned /\ d.prev = q.prev
      /\ d.seat = q.seat /\ d.grab = q.grab /\ d.confine = q.confine /\ d.handle = q.handle
      /\ d.token = q.token /\ d.allow = q.allow /\ d.pid = q.pid /\ d.watch = q.watch
  BY <1>1 DEF StreamType
<1> HIDE DEF d
<1>4. Good(d) /\ ~d.listed
  BY <1>2, <1>3 DEF Good, Nothing
<1> QED BY <1>4 DEF d

\* What a stream keeps through everything its input channel does.
Alike(q, r) ==
    /\ r.obj = q.obj /\ r.released = q.released /\ r.torn = q.torn /\ r.listed = q.listed
    /\ r.tl = q.tl /\ r.pw = q.pw /\ r.prev = q.prev /\ r.pinned = q.pinned /\ r.pid = q.pid
    /\ r.watch = q.watch /\ r.seat = q.seat /\ r.allow = q.allow

\* A live stream stays good when only its input changes.
LEMMA InputGood ==
  ASSUME NEW q, Good(q), q.listed, NEW r \in StreamType, Alike(q, r),
         r.claims = 0 \/ (r.claims = 1 /\ (r.token => r.handle)),
         r.grab = "confine" => r.confine /\ r.focus # "other",
         ~q.allow => r.focus = "none" /\ r.grab # "other"
  PROVE  Good(r)
  BY DEF Good, Alike, Holds

\* The handle goes: the grab ends and the token is void.
LEMMA HandleGone ==
  ASSUME NEW q, Good(q)
  PROVE  LET r == qdwin_stream_input_handle_resource_destroyed(q)
         IN  Good(r) /\ Alike(q, r)
<1>1. q \in StreamType
  BY DEF Good
<1>2. CASE q.handle
  <2>1. PICK g \in {"default", "confine", "other"} :
          /\ qdwin_stream_confine_grab_end(q) = [q EXCEPT !.confine = FALSE, !.grab = g]
          /\ q.confine => g # "confine"
          /\ g = q.grab \/ g = "default"
    BY <1>1, GrabEnd
  <2> DEFINE e == [q EXCEPT !.confine = FALSE, !.grab = g]
             r == [e EXCEPT !.handle = FALSE, !.token = FALSE]
  <2>2. qdwin_stream_input_handle_resource_destroyed(q) = r
    BY <1>2, <2>1 DEF qdwin_stream_input_handle_resource_destroyed
  <2>3. e \in StreamType
    BY <1>1, ZenonT(60) DEF StreamType
  <2>4. r \in StreamType
    <3> HIDE DEF e
    <3> QED BY <2>3 DEF StreamType
  <2>5. Alike(q, r) /\ r.claims = q.claims /\ r.token = FALSE /\ r.focus = q.focus /\ r.grab = g
    BY <1>1 DEF StreamType, Alike
  <2>6. q.listed /\ g # "confine" /\ (q.claims = 0 \/ q.claims = 1)
    BY <1>2, <2>1 DEF Good, Nothing
  <2> HIDE DEF r
  <2>7. ~q.allow => r.focus = "none" /\ r.grab # "other"
    BY <2>1, <2>5 DEF Good
  <2>8. Good(r)
    BY <2>4, <2>5, <2>6, <2>7, InputGood
  <2> QED BY <2>2, <2>5, <2>8
<1>3. CASE ~q.handle
  BY <1>3 DEF qdwin_stream_input_handle_resource_destroyed, Alike
<1> QED BY <1>2, <1>3

\* A claim is taken: once per token.
LEMMA ClaimGood ==
  ASSUME NEW q, Good(q), q.listed, q.token, ~q.handle
  PROVE  LET r == qdwin_stream_confine_grab_start([q EXCEPT !.handle = TRUE, !.claims = q.claims + 1])
         IN  Good(r) /\ Alike(q, r)
<1> DEFINE c == [q EXCEPT !.handle = TRUE, !.claims = 1]
           f == IF q.allow THEN "source" ELSE q.focus
           r == qdwin_stream_confine_grab_start(c)
           d == [c EXCEPT !.confine = TRUE, !.grab = "confine", !.focus = f]
<1>1. q \in StreamType /\ q.claims = 0
  BY DEF Good
<1>2. [q EXCEPT !.handle = TRUE, !.claims = q.claims + 1] = c
  BY <1>1
<1>3. c \in StreamType
  BY <1>1, ZenonT(60) DEF StreamType
<1>4. /\ Alike(q, c) /\ c.handle = TRUE /\ c.claims = 1 /\ c.focus = q.focus /\ c.grab = q.grab
      /\ c.confine = q.confine
  BY <1>1 DEF StreamType, Alike
<1>5. f \in {"none", "source", "other"} /\ (q.allow => f = "source") /\ (~q.allow => f = "none")
  BY <1>1 DEF StreamType, Good
<1> HIDE DEF c, f
<1>6. d \in StreamType
  BY <1>3, <1>5, ZenonT(60) DEF StreamType
<1>7. /\ Alike(q, d) /\ d.handle = TRUE /\ d.claims = 1 /\ d.focus = f /\ d.grab = "confine"
      /\ d.confine = TRUE
  BY <1>3, <1>4 DEF StreamType, Alike
<1>8. r = c \/ r = d
  BY <1>4 DEF qdwin_stream_confine_grab_start, f, Alike
<1> HIDE DEF d, r
<1>9. Good(c)
  BY <1>3, <1>4, InputGood DEF Good
<1>10. Good(d)
  BY <1>5, <1>6, <1>7, InputGood
<1> QED BY <1>2, <1>4, <1>7, <1>8, <1>9, <1>10 DEF r
\* The seat's pointer gets another grab or focus.
LEMMA PointerGood ==
  ASSUME NEW q, Good(q), q.listed, NEW g \in {"default", "confine", "other"},
         NEW f \in {"none", "source", "other"},
         g = "confine" => q.grab = "confine" /\ f # "other",
         ~q.allow => f = "none" /\ g # "other"
  PROVE  LET r == [q EXCEPT !.grab = g, !.focus = f]
         IN  Good(r) /\ Alike(q, r)
<1> DEFINE r == [q EXCEPT !.grab = g, !.focus = f]
<1>1. q \in StreamType
  BY DEF Good
<1>2. r \in StreamType
  BY <1>1, ZenonT(60) DEF StreamType
<1>3. /\ Alike(q, r) /\ r.claims = q.claims /\ r.token = q.token /\ r.handle = q.handle
      /\ r.confine = q.confine /\ r.focus = f /\ r.grab = g
  BY <1>1 DEF StreamType, Alike
<1> HIDE DEF r
<1>4. Good(r)
  BY <1>2, <1>3, InputGood DEF Good
<1> QED BY <1>3, <1>4 DEF r

\* qdwin_output_boundary_cancel_state resets the pointer of every seat.
LEMMA CancelGood ==
  ASSUME NEW q, Good(q)
  PROVE  LET r == qdwin_output_boundary_cancel_state(q)
         IN  Good(r) /\ Alike(q, r)
<1>1. q \in StreamType
  BY DEF Good
<1>2. CASE q.seat
  <2>1. PICK g \in {"default", "confine", "other"} :
          qdwin_stream_confine_grab_end(q) = [q EXCEPT !.confine = FALSE, !.grab = g]
    BY <1>1, GrabEnd
  <2> DEFINE e == [q EXCEPT !.confine = FALSE, !.grab = g]
             r == [e EXCEPT !.grab = "default", !.focus = "none"]
  <2>2. qdwin_output_boundary_cancel_state(q) = r
    BY <1>2, <2>1 DEF qdwin_output_boundary_cancel_state
  <2>3. e \in StreamType
    BY <1>1, ZenonT(60) DEF StreamType
  <2>4. r \in StreamType
    <3> HIDE DEF e
    <3> QED BY <2>3, ZenonT(60) DEF StreamType
  <2>5. /\ Alike(q, r) /\ r.claims = q.claims /\ r.token = q.token /\ r.handle = q.handle
        /\ r.focus = "none" /\ r.grab = "default"
    BY <1>1 DEF StreamType, Alike
  <2>6. q.listed
    BY <1>2 DEF Good, Nothing
  <2> HIDE DEF r
  <2>7. Good(r)
    BY <2>4, <2>5, <2>6, InputGood DEF Good
  <2> QED BY <2>2, <2>5, <2>7
<1>3. CASE ~q.seat
  BY <1>3 DEF qdwin_output_boundary_cancel_state, Alike
<1> QED BY <1>2, <1>3

\* The stream of an output that goes gets another restore target.
LEMMA PrevGood ==
  ASSUME NEW q, Good(q), q.listed, NEW o \in Desktop \cup Pipewire
  PROVE  LET r == [q EXCEPT !.prev = o]
         IN  /\ Good(r) /\ r.prev = o /\ r.listed = q.listed /\ r.pw = q.pw /\ r.pinned = q.pinned
             /\ r.tl = q.tl /\ r.pid = q.pid
<1> DEFINE r == [q EXCEPT !.prev = o]
<1>1. q \in StreamType
  BY DEF Good
<1>2. r \in StreamType
  BY <1>1 DEF StreamType
<1>3. /\ r.prev = o /\ r.obj = q.obj /\ r.released = q.released /\ r.torn = q.torn
      /\ r.listed = q.listed /\ r.tl = q.tl /\ r.pw = q.pw /\ r.pinned = q.pinned /\ r.pid = q.pid
      /\ r.watch = q.watch /\ r.seat = q.seat /\ r.allow = q.allow
      /\ r.claims = q.claims /\ r.token = q.token /\ r.handle = q.handle
      /\ r.confine = q.confine /\ r.focus = q.focus /\ r.grab = q.grab
  BY <1>1 DEF StreamType
<1> HIDE DEF r
<1>4. Good(r)
  BY <1>2, <1>3 DEF Good, Holds
<1> QED BY <1>3, <1>4 DEF r

\* The record of an approved subscription.
Approved(t, o, p, allow) ==
    [Subscribed(t, o, allow, TRUE) EXCEPT !.pid = p, !.watch = TRUE]

\* The port of a new stream is a number.
LEMMA PortIs ==
  NextPort \in Nat
<1>1. IsFiniteSet({s \in Streams : str[s].obj # "none"})
  BY StreamConstants, FS_Subset
<1> QED BY <1>1, FS_CardinalityType DEF NextPort

\* A record that is not in use has the type.
LEMMA NoStreamIs ==
  NoStream \in StreamType
BY DEF NoStream, StreamType

\* A subscription that was set up can be released, so that a late denial leaves a good
\* record.
LEMMA DeniedGood ==
  ASSUME NEW t \in Toplevels, NEW o \in Pipewire, NEW allow \in BOOLEAN, NEW seat \in BOOLEAN,
         where[t] \in Desktop \cup Pipewire
  PROVE  /\ Good(destroyed(Subscribed(t, o, allow, seat)))
         /\ ~destroyed(Subscribed(t, o, allow, seat)).listed
<1> DEFINE q == Subscribed(t, o, allow, seat)
<1>1. q \in StreamType
  BY PortIs, NoStreamIs, ZenonT(60) DEF Subscribed, StreamType
<1>2. q.released = FALSE /\ q.grab = "default" /\ q.focus = "none" /\ q.confine = FALSE
  BY <1>1 DEF Subscribed, NoStream
<1> HIDE DEF q
<1>3. Releasable(q)
  BY <1>1, <1>2 DEF Releasable
<1>4. Good(destroyed(q)) /\ ~destroyed(q).listed
  BY <1>3, DestroyGood
<1> QED BY <1>4 DEF q

\* With its child it is good.
LEMMA ApprovedGood ==
  ASSUME NEW t \in Toplevels, NEW o \in Pipewire, NEW allow \in BOOLEAN, NEW p \in Pids,
         where[t] \in Desktop \cup Pipewire, NEW r, r = Approved(t, o, p, allow)
  PROVE  /\ Good(r) /\ r.listed = TRUE /\ r.tl = t /\ r.pw = o /\ r.pid = p
         /\ r.prev = where[t] /\ r.pinned = TRUE
<1> DEFINE q == Subscribed(t, o, allow, TRUE)
<1>0. q \in StreamType
  BY PortIs, NoStreamIs, ZenonT(60) DEF Subscribed, StreamType
<1>1. /\ q.obj = "struct" /\ q.released = FALSE /\ q.listed = TRUE
      /\ q.tl = t /\ q.pw = o /\ q.prev = where[t] /\ q.pinned = TRUE /\ q.claims = 0
      /\ q.seat = TRUE /\ q.grab = "default" /\ q.focus = "none" /\ q.confine = FALSE
  BY <1>0 DEF Subscribed, NoStream
<1>2. r = [q EXCEPT !.pid = p, !.watch = TRUE]
  BY DEF Approved
<1> HIDE DEF q
<1>3. r \in StreamType
  BY <1>0, <1>2, ZenonT(60) DEF StreamType
<1>4. /\ r.obj = "struct" /\ r.released = FALSE /\ r.listed = TRUE
      /\ r.tl = t /\ r.pw = o /\ r.prev = where[t] /\ r.pinned = TRUE /\ r.claims = 0
      /\ r.seat = TRUE /\ r.grab = "default" /\ r.focus = "none" /\ r.confine = FALSE
      /\ r.pid = p /\ r.watch = TRUE
  BY <1>0, <1>1, <1>2 DEF StreamType
<1>5. Good(r)
  BY <1>3, <1>4, StreamConstants DEF Good, Holds
<1> QED BY <1>4, <1>5

-----------------------------------------------------------------------------
(* The steps                                                                *)

\* One stream changes in its input, and nothing else.
LEMMA OneStream ==
  ASSUME SoundS, SoundW, NEW s \in Streams, NEW q, Good(q), Alike(str[s], q),
         str' = [str EXCEPT ![s] = q], conn' \subseteq Streams,
         UNCHANGED <<child, proc, where, outputs, shell, locked, astray, stray>>
  PROVE  SoundS' /\ SoundW'
<1>1. q \in StreamType
  BY DEF Good
<1>2. str' \in [Streams -> StreamType]
  BY <1>1 DEF SoundS
<1>3. ASSUME NEW r \in Streams
      PROVE  Good(str'[r]) /\ Alike(str[r], str'[r])
  BY DEF SoundS, Alike
<1>4. SoundS'
  <2>1. ASSUME NEW r \in Streams
        PROVE  str'[r].prev = str[r].prev /\ str'[r].listed = str[r].listed
               /\ str'[r].pid = str[r].pid /\ str'[r].pw = str[r].pw
    BY <1>3 DEF Alike
  <2>2. \A r \in Streams : str'[r].prev \in outputs' \cup Pipewire \cup {NONE}
    BY <2>1 DEF SoundS
  <2>3. \A r \in Streams : child'[r] = "running" => str'[r].listed /\ proc'[str'[r].pid] = r
    BY <2>1 DEF SoundS
  <2>4. \A a, r \in Streams : a # r /\ str'[a].listed /\ str'[r].listed => str'[a].pw # str'[r].pw
    BY <2>1 DEF SoundS
  <2>5. /\ child' \in [Streams -> Children] /\ proc' \in [Pids -> Streams \cup {FOREIGN, NONE}]
        /\ outputs' \subseteq Desktop
        /\ shell' \in BOOLEAN /\ locked' \in BOOLEAN /\ stray' = FALSE
    BY DEF SoundS
  <2> QED BY <1>2, <1>3, <2>2, <2>3, <2>4, <2>5 DEF SoundS
<1>5. SoundW'
  <2>1. ASSUME NEW r \in Streams
        PROVE  str'[r].pinned = str[r].pinned /\ str'[r].tl = str[r].tl /\ str'[r].prev = str[r].prev
    BY <1>3 DEF Alike
  <2> QED BY <2>1 DEF SoundW, WindowComesBack
<1> QED BY <1>4, <1>5

\* Streams end, and none of the others changes.
LEMMA Ended ==
  ASSUME SoundS, str' \in [Streams -> StreamType],
         \A s \in Streams : str'[s] = str[s] \/ (Good(str'[s]) /\ ~str'[s].listed),
         child' \in [Streams -> Children],
         \A s \in Streams : child'[s] = "running" => child[s] = "running" /\ str'[s] = str[s],
         conn' \subseteq Streams, shell' \in BOOLEAN, locked' \in BOOLEAN,
         UNCHANGED <<proc, outputs, stray>>
  PROVE  SoundS'
<1>1. \A s \in Streams : Good(str'[s]) /\ (str'[s].listed => str'[s] = str[s])
  BY DEF SoundS
<1>2. \A s \in Streams : str'[s].prev \in outputs \cup Pipewire \cup {NONE}
  BY DEF SoundS, Good, Nothing
<1>3. \A s \in Streams : child'[s] = "running" => str'[s].listed /\ proc[str'[s].pid] = s
  BY DEF SoundS
<1>4. \A s, r \in Streams : s # r /\ str'[s].listed /\ str'[r].listed => str'[s].pw # str'[r].pw
  BY <1>1 DEF SoundS
<1> QED BY <1>1, <1>2, <1>3, <1>4 DEF SoundS

\* The windows of the streams that end go back to where the streams found them.
LEMMA UnpinnedBack ==
  ASSUME SoundS, SoundW, NEW ss \in SUBSET Streams, NEW b \in BOOLEAN, where' \in Unpinned(ss, b),
         \A s \in Streams : str'[s].pinned => str'[s] = str[s],
         \A s \in Streams \ ss : str[s].pinned => str'[s] = str[s],
         UNCHANGED <<outputs, astray>>
  PROVE  SoundW'
<1>1. ASSUME NEW t \in Toplevels
      PROVE  /\ where'[t] \in outputs \cup Pipewire \cup {NONE}
             /\ where'[t] \in Pipewire /\ t \notin astray
                  => \E s \in Streams : str'[s].pinned /\ str'[s].tl = t
  <2> DEFINE pinned == {s \in ss : str[s].pinned /\ ~str[s].released /\ str[s].tl = t}
             lasts == {s \in pinned : b => \A r \in pinned : str[s].port <= str[r].port}
  <2>1. where'[t] \in IF pinned = {} \/ where[t] = NONE THEN {where[t]} ELSE {str[s].prev : s \in lasts}
    BY DEF Unpinned, qdwin_view_stream_unpin
  <2>2. where[t] \in outputs \cup Pipewire \cup {NONE}
    BY DEF SoundW
  <2>3. CASE pinned = {} \/ where[t] = NONE
    <3>1. where'[t] = where[t]
      BY <2>1, <2>3
    <3>2. ASSUME where[t] \in Pipewire, t \notin astray
          PROVE  \E s \in Streams : str'[s].pinned /\ str'[s].tl = t
      <4>1. PICK s \in Streams : str[s].pinned /\ str[s].tl = t
        BY <3>2 DEF SoundW, WindowComesBack
      <4>2. ~str[s].released
        BY <4>1 DEF SoundS, Good, Nothing
      <4>3. where[t] # NONE
        BY <3>2, StreamConstants
      <4>4. s \notin ss
        BY <2>3, <4>1, <4>2, <4>3
      <4> QED BY <4>1, <4>4
    <3> QED BY <2>2, <3>1, <3>2
  <2>4. CASE ~(pinned = {} \/ where[t] = NONE)
    <3>1. PICK s \in lasts : where'[t] = str[s].prev
      BY <2>1, <2>4
    <3>2. str[s].pinned /\ str[s].tl = t
      OBVIOUS
    <3>3. str[s].prev \in outputs \cup Pipewire \cup {NONE}
      BY DEF SoundS
    <3>4. t \notin astray => where'[t] \notin Pipewire
      BY <3>1, <3>2, StreamConstants DEF SoundW, WindowComesBack
    <3> QED BY <3>1, <3>3, <3>4
  <2> QED BY <2>3, <2>4
<1>2. where' \in [Toplevels -> outputs \cup Pipewire \cup {NONE}]
  <2>1. where' = [t \in Toplevels |-> where'[t]]
    BY DEF Unpinned
  <2> QED BY <1>1, <2>1
<1>3. ASSUME NEW s \in Streams, str'[s].pinned, str'[s].tl \notin astray
      PROVE  str'[s].prev \in Desktop
  BY <1>3 DEF SoundW, WindowComesBack
<1> QED BY <1>1, <1>2, <1>3 DEF SoundW, WindowComesBack

\* A subscription: denied late, or approved with a child that carries its number.
LEMMA SubscribeOK ==
  ASSUME SoundS, SoundW, NEW s \in Streams, NEW t \in Toplevels, NEW o \in Pipewire,
         NEW p \in Pids, NEW allow \in BOOLEAN,
         qdwin_handle_subscribe_view_stream(s, t, o, p, allow)
  PROVE  SoundS' /\ SoundW'
<1>1. /\ str[s].obj = "none" /\ where[t] # NONE /\ o \in qdwin_find_free_pipewire_output
      /\ UNCHANGED <<conn, outputs, shell, locked, stray>>
  BY DEF qdwin_handle_subscribe_view_stream
<1>2. where[t] \in Desktop \cup Pipewire /\ where[t] \in outputs \cup Pipewire
  BY <1>1 DEF SoundS, SoundW
<1>3. ~str[s].listed /\ ~str[s].pinned /\ child[s] # "running"
  BY <1>1 DEF SoundS, Good, Nothing
<1>4. ASSUME proc[p] = NONE, NEW r \in Streams, child[r] = "running"
      PROVE  str[r].pid # p /\ str[r].pid \in Pids
  <2>1. proc[str[r].pid] = r /\ r # NONE
    BY <1>4, StreamConstants DEF SoundS
  <2>2. str[r] \in StreamType /\ str[r].pid # NONE
    BY <1>4 DEF SoundS, Good, Holds
  <2>3. str[r].pid \in Pids
    BY <2>2 DEF StreamType
  <2> QED BY <1>4, <2>1, <2>3
<1>5. ASSUME NEW seat \in BOOLEAN, DeniedLate(s, t, o, allow, seat), SpawnFails(s, p),
             UNCHANGED <<where, astray>>
      PROVE  SoundS' /\ SoundW'
  <2> DEFINE d == [destroyed(Subscribed(t, o, allow, seat)) EXCEPT !.obj = "late"]
  <2>1. Good(d) /\ ~d.listed
    <3> DEFINE e == destroyed(Subscribed(t, o, allow, seat))
    <3>1. Good(e) /\ ~e.listed
      BY <1>2, DeniedGood
    <3> HIDE DEF e
    <3> QED BY <3>1, KindGood DEF e
  <2>2. str' = [str EXCEPT ![s] = d]
    BY <1>5 DEF DeniedLate
  <2> HIDE DEF d
  <2>3. d \in StreamType /\ ~d.pinned /\ d.prev = NONE
    BY <2>1 DEF Good, Nothing
  <2>4. str' \in [Streams -> StreamType] /\ \A r \in Streams : r # s => str'[r] = str[r]
    BY <2>2, <2>3 DEF SoundS
  <2>5. str'[s] = d
    BY <2>2 DEF SoundS
  <2>6. /\ child' \in [Streams -> Children] /\ proc' \in [Pids -> Streams \cup {FOREIGN, NONE}]
        /\ \A r \in Streams : child'[r] = "running" => child[r] = "running" /\ proc'[str[r].pid] = r
    <3>1. CASE UNCHANGED <<child, proc>>
      BY <3>1 DEF SoundS
    <3>2. CASE /\ proc[p] = NONE
               /\ proc' = [proc EXCEPT ![p] = s]
               /\ child' = [child EXCEPT ![s] = "signalled"]
      <4>1. child' \in [Streams -> Children] /\ proc' \in [Pids -> Streams \cup {FOREIGN, NONE}]
        BY <3>2 DEF SoundS, Children
      <4>2. ASSUME NEW r \in Streams, child'[r] = "running"
            PROVE  child[r] = "running" /\ proc'[str[r].pid] = r
        <5>1. child[r] = "running"
          BY <3>2, <4>2 DEF SoundS
        <5>2. str[r].pid # p /\ str[r].pid \in Pids
          BY <1>4, <3>2, <5>1
        <5> QED BY <3>2, <5>1, <5>2 DEF SoundS
      <4> QED BY <4>1, <4>2
    <3> QED BY <1>5, <3>1, <3>2 DEF SpawnFails
  <2>7. SoundS'
    <3>1. \A r \in Streams : Good(str'[r])
      BY <2>1, <2>4, <2>5 DEF SoundS
    <3>2. \A r \in Streams : str'[r].prev \in outputs \cup Pipewire \cup {NONE}
      BY <2>3, <2>4, <2>5 DEF SoundS
    <3>3. \A r \in Streams : child'[r] = "running" => str'[r].listed /\ proc'[str'[r].pid] = r
      BY <1>3, <2>4, <2>6 DEF SoundS
    <3>4. \A a, r \in Streams : a # r /\ str'[a].listed /\ str'[r].listed => str'[a].pw # str'[r].pw
      BY <2>1, <2>4, <2>5 DEF SoundS
    <3> QED BY <1>1, <2>4, <2>6, <3>1, <3>2, <3>3, <3>4 DEF SoundS
  <2>8. SoundW'
    <3>1. \A r \in Streams : str'[r].pinned => str'[r] = str[r]
      BY <2>3, <2>4, <2>5
    <3>2. \A r \in Streams : str[r].pinned => str'[r] = str[r]
      BY <1>3, <2>4
    <3> QED BY <1>1, <1>5, <3>1, <3>2, ZenonT(60) DEF SoundW, WindowComesBack
  <2> QED BY <2>7, <2>8
<1>6. ASSUME proc[p] = NONE,
             str' = [str EXCEPT ![s] = [Subscribed(t, o, allow, TRUE) EXCEPT !.pid = p,
                                                                             !.watch = TRUE]],
             proc' = [proc EXCEPT ![p] = s],
             child' = [child EXCEPT ![s] = "running"],
             where' = [where EXCEPT ![t] = o],
             astray' = IF where[t] \in Pipewire THEN astray \cup {t} ELSE astray
      PROVE  SoundS' /\ SoundW'
  <2> DEFINE d == Approved(t, o, p, allow)
  <2>1. /\ Good(d) /\ d.listed = TRUE /\ d.tl = t /\ d.pw = o /\ d.pid = p
        /\ d.prev = where[t] /\ d.pinned = TRUE
    BY <1>2, ApprovedGood, ZenonT(60)
  <2>2. str' = [str EXCEPT ![s] = d]
    BY <1>6 DEF Approved
  <2> HIDE DEF d
  <2>3. d \in StreamType
    BY <2>1 DEF Good
  <2>4. str' \in [Streams -> StreamType] /\ \A r \in Streams : r # s => str'[r] = str[r]
    BY <2>2, <2>3 DEF SoundS
  <2>5. str'[s] = d
    BY <2>2 DEF SoundS
  <2>6. child' \in [Streams -> Children] /\ proc' \in [Pids -> Streams \cup {FOREIGN, NONE}]
    BY <1>6 DEF SoundS, Children
  <2>7. ASSUME NEW r \in Streams, child'[r] = "running"
        PROVE  str'[r].listed /\ proc'[str'[r].pid] = r
    <3>1. CASE r = s
      BY <1>6, <2>1, <2>5, <3>1 DEF SoundS
    <3>2. CASE r # s
      <4>1. child[r] = "running"
        BY <1>6, <2>7, <3>2 DEF SoundS
      <4>2. str[r].pid # p /\ str[r].pid \in Pids
        BY <1>4, <1>6, <4>1
      <4> QED BY <1>6, <2>4, <3>2, <4>1, <4>2 DEF SoundS
    <3> QED BY <3>1, <3>2
  <2>8. SoundS'
    <3>1. \A r \in Streams : Good(str'[r])
      BY <2>1, <2>4, <2>5 DEF SoundS
    <3>2. \A r \in Streams : str'[r].prev \in outputs \cup Pipewire \cup {NONE}
      BY <1>2, <2>1, <2>4, <2>5 DEF SoundS
    <3>3. \A r \in Streams : str[r].listed => str[r].pw # o
      BY <1>1 DEF qdwin_find_free_pipewire_output, Live
    <3>4. \A a, r \in Streams : a # r /\ str'[a].listed /\ str'[r].listed => str'[a].pw # str'[r].pw
      BY <2>1, <2>4, <2>5, <3>3 DEF SoundS
    <3> QED BY <1>1, <2>4, <2>6, <2>7, <3>1, <3>2, <3>4 DEF SoundS
  <2>9. SoundW'
    <3>1. where' \in [Toplevels -> outputs \cup Pipewire \cup {NONE}] /\ astray' \subseteq Toplevels
      BY <1>6 DEF SoundW
    <3>2. ASSUME NEW u \in Toplevels, where'[u] \in Pipewire, u \notin astray'
          PROVE  \E r \in Streams : str'[r].pinned /\ str'[r].tl = u
      <4>1. CASE u = t
        BY <2>1, <2>5, <4>1
      <4>2. CASE u # t
        <5>1. where[u] \in Pipewire /\ u \notin astray
          BY <1>6, <3>2, <4>2 DEF SoundW
        <5>2. PICK r \in Streams : str[r].pinned /\ str[r].tl = u
          BY <5>1 DEF SoundW, WindowComesBack
        <5>3. r # s
          BY <1>3, <5>2
        <5> QED BY <2>4, <5>2, <5>3
      <4> QED BY <4>1, <4>2
    <3>3. ASSUME NEW r \in Streams, str'[r].pinned, str'[r].tl \notin astray'
          PROVE  str'[r].prev \in Desktop
      <4>1. CASE r = s
        <5>1. t \notin astray'
          BY <2>1, <2>5, <3>3, <4>1
        <5>2. where[t] \notin Pipewire
          BY <1>6, <5>1
        <5> QED BY <1>2, <2>1, <2>5, <4>1, <5>2
      <4>2. CASE r # s
        BY <1>6, <2>4, <3>3, <4>2 DEF SoundW, WindowComesBack
      <4> QED BY <4>1, <4>2
    <3> QED BY <1>1, <3>1, <3>2, <3>3 DEF SoundW, WindowComesBack
  <2> QED BY <2>8, <2>9
<1> QED BY <1>5, <1>6 DEF qdwin_handle_subscribe_view_stream

\* What SIGTERM does: it reaches the children of the streams of ss that watch one and no
\* other process, and nothing runs any more that those streams watched.
LEMMA Reaped ==
  ASSUME SoundS, NEW ss \in SUBSET Streams, qdwin_view_stream_reap_forward(ss)
  PROVE  /\ child' \in [Streams -> Children] /\ stray' = stray
         /\ \A s \in Streams : child'[s] = "running" => child[s] = "running" /\ s \notin ss
<1>1. ASSUME NEW s \in Streams
      PROVE  terminated(child[s]) \in Children /\ terminated(child[s]) # "running"
  BY DEF SoundS, Children, terminated
<1> DEFINE hit == {signal_target(s) : s \in ss}
<1>2. /\ child' = [s \in Streams |-> IF s \in hit THEN terminated(child[s]) ELSE child[s]]
      /\ stray' = (stray \/ \E s \in ss : signal_target(s) \notin {s, NONE})
  BY DEF qdwin_view_stream_reap_forward
<1>3. ASSUME NEW s \in ss
      PROVE  signal_target(s) \in {s, NONE}
  BY DEF signal_target
<1>4. ASSUME NEW s \in Streams, child'[s] = "running"
      PROVE  child[s] = "running" /\ s \notin ss
  <2>1. child'[s] = IF s \in hit THEN terminated(child[s]) ELSE child[s]
    BY <1>2
  <2>2. child[s] = "running" /\ s \notin hit
    BY <1>1, <1>4, <2>1
  <2>3. str[s].pid # NONE /\ str[s].watch
    BY <2>2 DEF SoundS, Good, Holds
  <2>4. signal_target(s) = s
    BY <2>3 DEF signal_target
  <2> QED BY <2>2, <2>4
<1>5. child' \in [Streams -> Children]
  BY <1>1, <1>2 DEF SoundS
<1>6. stray' = stray
  BY <1>2, <1>3 DEF SoundS
<1> QED BY <1>4, <1>5, <1>6

\* The streams of ss are terminated.
LEMMA TerminatedAll ==
  ASSUME SoundS, NEW ss \in SUBSET Streams, TerminateAll(ss)
  PROVE  /\ str' \in [Streams -> StreamType]
         /\ \A s \in Streams : \/ s \notin ss /\ str'[s] = str[s]
                               \/ s \in ss /\ Good(str'[s]) /\ ~str'[s].listed
<1>1. ASSUME NEW s \in Streams
      PROVE  /\ str'[s] \in StreamType
             /\ \/ s \notin ss /\ str'[s] = str[s]
                \/ s \in ss /\ Good(str'[s]) /\ ~str'[s].listed
  <2>1. Good(str[s]) /\ str[s] \in StreamType
    BY DEF SoundS
  <2>2. CASE s \in ss
    <3>1. str'[s] = terminate(str[s])
      BY <2>2 DEF TerminateAll
    <3>2. Releasable(str[s]) /\ str[s].claims \in {0, 1}
      BY <2>1, GoodReleasable DEF Good
    <3>3. Good(terminate(str[s])) /\ ~terminate(str[s]).listed
      BY <3>2, TerminateGood
    <3> QED BY <2>2, <3>1, <3>3 DEF Good
  <2>3. CASE s \notin ss
    BY <2>1, <2>3 DEF TerminateAll
  <2> QED BY <2>2, <2>3
<1>2. str' = [s \in Streams |-> str'[s]]
  BY DEF TerminateAll
<1> QED BY <1>1, <1>2
\* Denied at once: the object is inert.
LEMMA DeniedOK ==
  ASSUME SoundS, SoundW, NEW s \in Streams, SubscribeDenied(s)
  PROVE  SoundS' /\ SoundW'
<1> DEFINE d == [str[s] EXCEPT !.obj = "inert"]
<1>1. Good(str[s]) /\ ~str[s].listed /\ ~str[s].pinned /\ child[s] # "running"
  BY DEF SubscribeDenied, SoundS, Good, Nothing
<1>2. Good(d) /\ ~d.listed
  BY <1>1, KindGood
<1>3. str' = [str EXCEPT ![s] = d]
  BY DEF SubscribeDenied
<1> HIDE DEF d
<1>4. d \in StreamType /\ ~d.pinned
  BY <1>2 DEF Good, Nothing
<1>5. str' \in [Streams -> StreamType] /\ str'[s] = d /\ \A r \in Streams : r # s => str'[r] = str[r]
  BY <1>3, <1>4 DEF SoundS
<1>6. SoundS'
  <2>1. child' \in [Streams -> Children] /\ conn' \subseteq Streams
        /\ shell' \in BOOLEAN /\ locked' \in BOOLEAN
    BY DEF SoundS, SubscribeDenied
  <2>2. \A r \in Streams : child'[r] = "running" => child[r] = "running" /\ str'[r] = str[r]
    BY <1>1, <1>5 DEF SubscribeDenied
  <2>3. \A r \in Streams : str'[r] = str[r] \/ (Good(str'[r]) /\ ~str'[r].listed)
    BY <1>2, <1>5
  <2> QED BY <1>5, <2>1, <2>2, <2>3, Ended DEF SubscribeDenied
<1>7. SoundW'
  BY <1>1, <1>4, <1>5 DEF SoundW, WindowComesBack, SubscribeDenied
<1> QED BY <1>6, <1>7

\* The watch fires: the child is dead, so that no running one loses its stream.
LEMMA ReadyOK ==
  ASSUME SoundS, SoundW, NEW s \in Streams, qdwin_forward_pidfd_ready(s)
  PROVE  SoundS' /\ SoundW'
<1> DEFINE c == [str[s] EXCEPT !.pid = NONE]
           q == qdwin_view_stream_disarm_pidfd(c)
           d == terminate(q)
<1>1. Good(str[s]) /\ str[s] \in StreamType /\ str[s].watch /\ child[s] # "running"
  BY DEF qdwin_forward_pidfd_ready, SoundS, dead
<1>2. str[s].listed
  BY <1>1 DEF Good, Nothing
<1>3. Releasable(q) /\ q.claims \in {0, 1}
  <2>1. c \in StreamType
    BY <1>1 DEF StreamType
  <2>2. /\ c.released = str[s].released /\ c.seat = str[s].seat /\ c.grab = str[s].grab
        /\ c.confine = str[s].confine /\ c.claims = str[s].claims
    BY <1>1 DEF StreamType
  <2> HIDE DEF c
  <2>3. q \in StreamType
    BY <2>1 DEF StreamType, qdwin_view_stream_disarm_pidfd
  <2>4. /\ q.released = c.released /\ q.seat = c.seat /\ q.grab = c.grab
        /\ q.confine = c.confine /\ q.claims = c.claims
    BY <2>1 DEF StreamType, qdwin_view_stream_disarm_pidfd
  <2>5. ~str[s].released /\ str[s].seat /\ str[s].claims \in {0, 1}
        /\ (str[s].grab = "confine" => str[s].confine)
    BY <1>1, <1>2 DEF Good, Holds
  <2> HIDE DEF q
  <2> QED BY <2>2, <2>3, <2>4, <2>5 DEF Releasable
<1>4. str' = [str EXCEPT ![s] = d]
  BY DEF qdwin_forward_pidfd_ready
<1> HIDE DEF q
<1>5. Good(d) /\ ~d.listed
  BY <1>3, TerminateGood
<1> HIDE DEF d
<1>6. d \in StreamType /\ ~d.pinned
  BY <1>5 DEF Good, Nothing
<1>7. str' \in [Streams -> StreamType] /\ str'[s] = d /\ \A r \in Streams : r # s => str'[r] = str[r]
  BY <1>4, <1>6 DEF SoundS
<1>8. SoundS'
  <2>1. child' \in [Streams -> Children] /\ conn' \subseteq Streams
        /\ shell' \in BOOLEAN /\ locked' \in BOOLEAN
    BY DEF SoundS, qdwin_forward_pidfd_ready
  <2>2. \A r \in Streams : child'[r] = "running" => child[r] = "running" /\ str'[r] = str[r]
    BY <1>1, <1>7 DEF qdwin_forward_pidfd_ready
  <2>3. \A r \in Streams : str'[r] = str[r] \/ (Good(str'[r]) /\ ~str'[r].listed)
    BY <1>5, <1>7
  <2> QED BY <1>7, <2>1, <2>2, <2>3, Ended DEF qdwin_forward_pidfd_ready
<1>9. SoundW'
  <2>1. where' \in Unpinned({s}, TRUE) /\ {s} \in SUBSET Streams
    BY DEF qdwin_forward_pidfd_ready
  <2>2. \A r \in Streams : str'[r].pinned => str'[r] = str[r]
    BY <1>6, <1>7
  <2>3. \A r \in Streams \ {s} : str[r].pinned => str'[r] = str[r]
    BY <1>7
  <2> QED BY <2>1, <2>2, <2>3, UnpinnedBack DEF qdwin_forward_pidfd_ready
<1> QED BY <1>8, <1>9

\* A window goes: its streams end, and no other stream shows it.
LEMMA WindowGoneOK ==
  ASSUME SoundS, SoundW, NEW t \in Toplevels, qdwin_toplevel_release_dependents(t)
  PROVE  SoundS' /\ SoundW'
<1> DEFINE ss == {s \in Streams : Live(s) /\ str[s].tl = t}
<1>1. TerminateAll(ss) /\ ss \in SUBSET Streams /\ qdwin_view_stream_reap_forward(ss)
  BY DEF qdwin_toplevel_release_dependents, TerminateAll
<1>2. \A s \in Streams : s \notin ss => ~str[s].pinned \/ str[s].tl # t
  BY DEF SoundS, Good, Nothing, Live
<1> HIDE DEF ss
<1>3. /\ str' \in [Streams -> StreamType]
      /\ \A s \in Streams : \/ s \notin ss /\ str'[s] = str[s]
                            \/ s \in ss /\ Good(str'[s]) /\ ~str'[s].listed
  BY <1>1, TerminatedAll
<1>4. /\ child' \in [Streams -> Children] /\ stray' = stray
      /\ \A s \in Streams : child'[s] = "running" => child[s] = "running" /\ s \notin ss
  BY <1>1, Reaped
<1>5. SoundS'
  <2>1. conn' \subseteq Streams /\ shell' \in BOOLEAN /\ locked' \in BOOLEAN
        /\ UNCHANGED <<proc, outputs, stray>>
    BY <1>4 DEF SoundS, qdwin_toplevel_release_dependents
  <2> QED BY <1>3, <1>4, <2>1, Ended
<1>6. SoundW'
  <2>1. /\ where' = [where EXCEPT ![t] = NONE] /\ astray' = astray \ {t} /\ outputs' = outputs
    BY DEF qdwin_toplevel_release_dependents
  <2>2. where' \in [Toplevels -> outputs' \cup Pipewire \cup {NONE}] /\ astray' \subseteq Toplevels
    BY <2>1 DEF SoundW
  <2>3. ASSUME NEW u \in Toplevels, where'[u] \in Pipewire, u \notin astray'
        PROVE  \E s \in Streams : str'[s].pinned /\ str'[s].tl = u
    <3>1. u # t
      BY <2>1, <2>3, StreamConstants DEF SoundW
    <3>2. where[u] \in Pipewire /\ u \notin astray
      BY <2>1, <2>3, <3>1 DEF SoundW
    <3>3. PICK s \in Streams : str[s].pinned /\ str[s].tl = u
      BY <3>2 DEF SoundW, WindowComesBack
    <3>4. s \notin ss
      BY <3>1, <3>3 DEF ss
    <3> QED BY <1>3, <3>3, <3>4
  <2>4. ASSUME NEW s \in Streams, str'[s].pinned, str'[s].tl \notin astray'
        PROVE  str'[s].prev \in Desktop
    <3>1. str'[s] = str[s] /\ s \notin ss
      BY <1>3, <2>4 DEF Good, Nothing
    <3>2. str[s].tl # t
      BY <1>2, <2>4, <3>1
    <3> QED BY <2>1, <2>4, <3>1, <3>2 DEF SoundW, WindowComesBack
  <2> QED BY <2>2, <2>3, <2>4 DEF SoundW, WindowComesBack
<1> QED BY <1>5, <1>6
\* The lock ends every live stream.
LEMMA LockOK ==
  ASSUME SoundS, SoundW, qdwin_handle_set_locked
  PROVE  SoundS' /\ SoundW'
<1>1. CASE locked
  <2>1. UNCHANGED <<str, child, stray, where, proc, conn, outputs, shell, astray>>
        /\ locked' \in BOOLEAN
    BY <1>1 DEF qdwin_handle_set_locked, SoundS
  <2>2. SoundS'
    BY <2>1 DEF SoundS
  <2>3. SoundW'
    BY <2>1 DEF SoundW, WindowComesBack
  <2> QED BY <2>2, <2>3
<1>2. CASE ~locked
  <2> DEFINE ss == {s \in Streams : Live(s)}
  <2>1. TerminateAll(ss) /\ ss \in SUBSET Streams /\ where' \in Unpinned(ss, TRUE)
        /\ UNCHANGED <<proc, conn, outputs, shell, astray>> /\ locked' \in BOOLEAN
    BY <1>2 DEF qdwin_handle_set_locked
  <2>2. qdwin_view_stream_reap_forward(ss)
    BY <2>1 DEF TerminateAll
  <2> HIDE DEF ss
  <2>3. /\ str' \in [Streams -> StreamType]
        /\ \A s \in Streams : \/ s \notin ss /\ str'[s] = str[s]
                              \/ s \in ss /\ Good(str'[s]) /\ ~str'[s].listed
    BY <2>1, TerminatedAll
  <2>4. /\ child' \in [Streams -> Children] /\ stray' = stray
        /\ \A s \in Streams : child'[s] = "running" => child[s] = "running" /\ s \notin ss
    BY <2>1, <2>2, Reaped
  <2>5. SoundS'
    <3>1. conn' \subseteq Streams /\ shell' \in BOOLEAN /\ UNCHANGED <<proc, outputs, stray>>
      BY <2>1, <2>4 DEF SoundS
    <3> QED BY <2>1, <2>3, <2>4, <3>1, Ended
  <2>6. SoundW'
    <3>1. \A s \in Streams : str'[s].pinned => str'[s] = str[s]
      BY <2>3 DEF Good, Nothing
    <3>2. \A s \in Streams \ ss : str[s].pinned => str'[s] = str[s]
      BY <2>3
    <3> QED BY <2>1, <3>1, <3>2, UnpinnedBack
  <2> QED BY <2>5, <2>6
<1> QED BY <1>1, <1>2

\* Objects of the shell are destroyed: those of ss, and the ones denied late with them.
LEMMA DestroyedAll ==
  ASSUME SoundS, SoundW, NEW ss \in SUBSET Streams, NEW b \in BOOLEAN,
         \A s \in ss : str[s].obj \in {"inert", "struct"},
         str' \in [Streams -> StreamType],
         \A s \in Streams : \/ s \in ss /\ str'[s] = destroyed(str[s])
                            \/ s \notin ss /\ str'[s] = str[s]
                            \/ s \notin ss /\ str[s].obj = "late"
                               /\ str'[s] = [str[s] EXCEPT !.obj = "freed"],
         qdwin_view_stream_reap_forward(ss), where' \in Unpinned(ss, b),
         shell' \in BOOLEAN, UNCHANGED <<proc, conn, outputs, locked, astray>>
  PROVE  SoundS' /\ SoundW'
<1>1. \A s \in Streams : Good(str[s])
  BY DEF SoundS
<1>2. ASSUME NEW s \in Streams
      PROVE  \/ s \in ss /\ Good(str'[s]) /\ ~str'[s].listed
             \/ s \notin ss /\ str'[s] = str[s]
             \/ s \notin ss /\ ~str[s].listed /\ Good(str'[s]) /\ ~str'[s].listed
  <2>1. CASE s \in ss /\ str'[s] = destroyed(str[s])
    <3>1. Good(destroyed(str[s])) /\ ~destroyed(str[s]).listed
      BY <1>1, GoodReleasable, DestroyGood
    <3> QED BY <2>1, <3>1
  <2>2. CASE s \notin ss /\ str[s].obj = "late" /\ str'[s] = [str[s] EXCEPT !.obj = "freed"]
    <3>1. Good(str[s]) /\ ~str[s].listed
      BY <1>1, <2>2 DEF Good
    <3>2. Good([str[s] EXCEPT !.obj = "freed"]) /\ ~[str[s] EXCEPT !.obj = "freed"].listed
      BY <3>1, KindGood
    <3> QED BY <2>2, <3>1, <3>2
  <2> QED BY <2>1, <2>2
<1>3. /\ child' \in [Streams -> Children] /\ stray' = stray
      /\ \A s \in Streams : child'[s] = "running" => child[s] = "running" /\ s \notin ss
  BY Reaped
<1>4. \A s \in Streams : child[s] = "running" => str[s].listed
  BY DEF SoundS
<1>5. SoundS'
  <2>1. conn' \subseteq Streams /\ locked' \in BOOLEAN /\ UNCHANGED <<proc, outputs, stray>>
    BY <1>3 DEF SoundS
  <2>2. \A s \in Streams : child'[s] = "running" => child[s] = "running" /\ str'[s] = str[s]
    BY <1>2, <1>3, <1>4
  <2>3. \A s \in Streams : str'[s] = str[s] \/ (Good(str'[s]) /\ ~str'[s].listed)
    BY <1>2
  <2> QED BY <1>3, <2>1, <2>2, <2>3, Ended
<1>6. SoundW'
  <2>1. \A s \in Streams : str'[s].pinned => str'[s] = str[s]
    BY <1>2 DEF Good, Nothing
  <2>2. \A s \in Streams \ ss : str[s].pinned => str'[s] = str[s]
    BY <1>1, <1>2 DEF Good, Nothing
  <2> QED BY <2>1, <2>2, UnpinnedBack
<1> QED BY <1>5, <1>6

\* The shell's connection ends with every object on it.
LEMMA LoseShellOK ==
  ASSUME SoundS, SoundW, LoseShell
  PROVE  SoundS' /\ SoundW'
<1> DEFINE ss == {s \in Streams : str[s].obj \in {"inert", "struct"}}
<1>1. /\ ss \in SUBSET Streams /\ \A s \in ss : str[s].obj \in {"inert", "struct"}
      /\ shell' \in BOOLEAN /\ where' \in Unpinned(ss, FALSE)
      /\ qdwin_view_stream_reap_forward(ss) /\ UNCHANGED <<proc, conn, outputs, locked, astray>>
      /\ str' = [s \in Streams |-> IF s \in ss THEN destroyed(str[s])
                                   ELSE IF str[s].obj = "late" THEN [str[s] EXCEPT !.obj = "freed"]
                                   ELSE str[s]]
  BY DEF LoseShell
<1> HIDE DEF ss
<1>2. \A s \in Streams : \/ s \in ss /\ str'[s] = destroyed(str[s])
                         \/ s \notin ss /\ str'[s] = str[s]
                         \/ s \notin ss /\ str[s].obj = "late"
                            /\ str'[s] = [str[s] EXCEPT !.obj = "freed"]
  BY <1>1
<1>3. ASSUME NEW s \in Streams
      PROVE  str'[s] \in StreamType
  <2>1. Good(str[s]) /\ str[s] \in StreamType
    BY DEF SoundS
  <2>2. destroyed(str[s]) \in StreamType
    BY <2>1, GoodReleasable, DestroyGood DEF Good
  <2>3. [str[s] EXCEPT !.obj = "freed"] \in StreamType
    BY <2>1 DEF StreamType
  <2> QED BY <1>2, <2>1, <2>2, <2>3
<1>4. str' \in [Streams -> StreamType]
  <2>1. str' = [s \in Streams |-> str'[s]]
    BY <1>1
  <2> QED BY <1>3, <2>1
<1> QED BY <1>1, <1>2, <1>4, DestroyedAll

\* One object is destroyed, or the client was not allowed to.
LEMMA DestroyOK ==
  ASSUME SoundS, SoundW, NEW s \in Streams, qdwin_stream_handle_destroy(s)
  PROVE  SoundS' /\ SoundW'
<1>1. CASE str[s].obj = "late" /\ LoseShell
  BY <1>1, LoseShellOK
<1>2. CASE /\ str[s].obj \in {"inert", "struct"}
           /\ where' \in Unpinned({s}, TRUE)
           /\ str' = [str EXCEPT ![s] = destroyed(@)]
           /\ qdwin_view_stream_reap_forward({s})
           /\ UNCHANGED <<proc, conn, outputs, shell, locked, astray>>
  <2>1. Good(str[s]) /\ str \in [Streams -> StreamType] /\ shell' \in BOOLEAN
    BY <1>2 DEF SoundS
  <2>2. destroyed(str[s]) \in StreamType
    BY <2>1, GoodReleasable, DestroyGood DEF Good
  <2>3. str' = [str EXCEPT ![s] = destroyed(str[s])]
    BY <1>2
  <2>4. str' \in [Streams -> StreamType]
    BY <2>1, <2>2, <2>3
  <2>5. \A r \in Streams : \/ r \in {s} /\ str'[r] = destroyed(str[r])
                           \/ r \notin {s} /\ str'[r] = str[r]
    BY <2>1, <2>3
  <2>6. {s} \in SUBSET Streams /\ \A r \in {s} : str[r].obj \in {"inert", "struct"}
    BY <1>2
  <2> QED BY <1>2, <2>1, <2>4, <2>5, <2>6, DestroyedAll
<1> QED BY <1>1, <1>2 DEF qdwin_stream_handle_destroy
\* The requests of the input channel and its end change the input of one stream.
LEMMA InputOK ==
  ASSUME SoundS, SoundW, NEW s \in Streams,
         \/ ForwardDisconnects(s) \/ qdwin_stream_input_handle_claim(s)
         \/ qdwin_stream_input_handle_destroy(s) \/ qdwin_stream_input_inject_pointer(s)
         \/ weston_pointer_start_grab(s) \/ weston_pointer_end_grab(s)
  PROVE  SoundS' /\ SoundW'
<1>1. Good(str[s]) /\ str \in [Streams -> StreamType] /\ str[s] \in StreamType
      /\ conn \subseteq Streams
  BY DEF SoundS
<1> DEFINE gone == qdwin_stream_input_handle_resource_destroyed(str[s])
<1>2. Good(gone) /\ Alike(str[s], gone)
  BY <1>1, HandleGone
<1>3. ASSUME str' = [str EXCEPT ![s] = qdwin_stream_input_handle_resource_destroyed(@)],
             conn' \subseteq Streams,
             UNCHANGED <<child, proc, where, outputs, shell, locked, astray, stray>>
      PROVE  SoundS' /\ SoundW'
  <2>1. str' = [str EXCEPT ![s] = gone]
    BY <1>3
  <2> HIDE DEF gone
  <2> QED BY <1>2, <1>3, <2>1, OneStream
<1>4. CASE ForwardDisconnects(s) \/ qdwin_stream_input_handle_destroy(s)
  BY <1>1, <1>3, <1>4 DEF ForwardDisconnects, qdwin_stream_input_handle_destroy
<1>5. CASE qdwin_stream_input_handle_claim(s)
  <2>1. CASE Live(s) /\ str[s].token /\ ~str[s].handle /\ str[s].pid # NONE
    <3> DEFINE r == qdwin_stream_confine_grab_start([str[s] EXCEPT !.handle = TRUE,
                                                            !.claims = str[s].claims + 1])
    <3>1. Good(r) /\ Alike(str[s], r)
      BY <1>1, <2>1, ClaimGood DEF Live
    <3>2. str' = [str EXCEPT ![s] = r] /\ conn' \subseteq Streams
          /\ UNCHANGED <<child, proc, where, outputs, shell, locked, astray, stray>>
      BY <1>1, <1>5, <2>1 DEF qdwin_stream_input_handle_claim
    <3> HIDE DEF r
    <3> QED BY <3>1, <3>2, OneStream
  <2>2. CASE ~(Live(s) /\ str[s].token /\ ~str[s].handle /\ str[s].pid # NONE)
    BY <1>1, <1>3, <1>5, <2>2 DEF qdwin_stream_input_handle_claim
  <2> QED BY <2>1, <2>2
<1>6. ASSUME str[s].listed, NEW g \in {"default", "confine", "other"},
             NEW f \in {"none", "source", "other"},
             g = "confine" => str[s].grab = "confine" /\ f # "other",
             ~str[s].allow => f = "none" /\ g # "other",
             str' = [str EXCEPT ![s] = [str[s] EXCEPT !.grab = g, !.focus = f]],
             UNCHANGED <<child, proc, conn, where, outputs, shell, locked, astray, stray>>
      PROVE  SoundS' /\ SoundW'
  <2> DEFINE r == [str[s] EXCEPT !.grab = g, !.focus = f]
  <2>1. Good(r) /\ Alike(str[s], r)
    BY <1>1, <1>6, PointerGood
  <2>2. str' = [str EXCEPT ![s] = r] /\ conn' \subseteq Streams
    BY <1>1, <1>6
  <2> HIDE DEF r
  <2> QED BY <1>6, <2>1, <2>2, OneStream
<1>7. CASE qdwin_stream_input_inject_pointer(s)
  <2>1. str[s].allow /\ str[s].seat /\ str[s].tl # NONE
        /\ UNCHANGED <<child, proc, conn, where, outputs, shell, locked, astray, stray>>
    BY <1>7 DEF qdwin_stream_input_inject_pointer
  <2>2. PICK f \in InjectedFocus(str[s]) : str' = [str EXCEPT ![s].focus = f]
    BY <1>7 DEF qdwin_stream_input_inject_pointer
  <2>3. str[s].listed /\ str[s].grab \in {"default", "confine", "other"}
        /\ str[s].focus \in {"none", "source", "other"}
        /\ (str[s].grab = "confine" => str[s].focus # "other")
    BY <1>1, <2>1 DEF Good, Nothing, StreamType
  <2>4. f \in {"none", "source", "other"} /\ (str[s].grab = "confine" => f # "other")
    BY <2>2, <2>3 DEF InjectedFocus
  <2>5. [str[s] EXCEPT !.focus = f] = [str[s] EXCEPT !.grab = str[s].grab, !.focus = f]
    BY <1>1 DEF StreamType
  <2>6. str' = [str EXCEPT ![s] = [str[s] EXCEPT !.grab = str[s].grab, !.focus = f]]
    BY <2>2, <2>5
  <2> QED BY <1>6, <2>1, <2>3, <2>4, <2>6
<1>8. CASE weston_pointer_start_grab(s)
  <2>1. str[s].seat /\ str[s].focus # "none" /\ str' = [str EXCEPT ![s].grab = "other"]
        /\ UNCHANGED <<child, proc, conn, where, outputs, shell, locked, astray, stray>>
    BY <1>8 DEF weston_pointer_start_grab
  <2>2. str[s].listed /\ str[s].allow /\ str[s].focus \in {"none", "source", "other"}
    BY <1>1, <2>1 DEF Good, Nothing, StreamType
  <2>3. [str[s] EXCEPT !.grab = "other"] = [str[s] EXCEPT !.grab = "other", !.focus = str[s].focus]
    BY <1>1 DEF StreamType
  <2>4. str' = [str EXCEPT ![s] = [str[s] EXCEPT !.grab = "other", !.focus = str[s].focus]]
    BY <2>1, <2>3
  <2> QED BY <1>6, <2>1, <2>2, <2>4
<1>9. CASE weston_pointer_end_grab(s)
  <2>1. PICK f \in {"none", "source", "other"} :
           str' = [str EXCEPT ![s].grab = "default", ![s].focus = f]
    BY <1>9 DEF weston_pointer_end_grab
  <2>2. str[s].listed /\ str[s].allow
        /\ UNCHANGED <<child, proc, conn, where, outputs, shell, locked, astray, stray>>
    BY <1>1, <1>9 DEF weston_pointer_end_grab, Good, Nothing
  <2>3. str' = [str EXCEPT ![s] = [str[s] EXCEPT !.grab = "default", !.focus = f]]
    BY <1>1, <2>1
  <2> QED BY <1>6, <2>2, <2>3
<1> QED BY <1>4, <1>5, <1>7, <1>8, <1>9
\* An output goes.  A survivor of the desktop is as good a place to go back to as the one
\* that went; a pipewire one makes the windows concerned astray.
LEMMA BoundaryOK ==
  ASSUME SoundS, SoundW, NEW o \in Desktop, NEW survivor \in Desktop \cup Pipewire,
         qdwin_output_boundary_transition(o, survivor)
  PROVE  SoundS' /\ SoundW'
<1>1. /\ o \in outputs /\ survivor \in (outputs \ {o}) \cup Pipewire /\ outputs' = outputs \ {o}
      /\ str' = [s \in Streams |-> qdwin_output_boundary_cancel_state(Repaired(s, o, survivor))]
      /\ where' = [t \in Toplevels |-> IF where[t] = o THEN survivor ELSE where[t]]
      /\ UNCHANGED <<child, proc, conn, shell, locked, stray>>
  BY DEF qdwin_output_boundary_transition
<1>2. o \notin Pipewire /\ o # NONE /\ survivor # o
  BY <1>1, StreamConstants
<1>3. ASSUME NEW s \in Streams
      PROVE  /\ Good(str'[s]) /\ str'[s].listed = str[s].listed /\ str'[s].pw = str[s].pw
             /\ str'[s].pinned = str[s].pinned /\ str'[s].tl = str[s].tl
             /\ str'[s].pid = str[s].pid
             /\ str'[s].prev = IF str[s].listed /\ str[s].prev = o THEN survivor ELSE str[s].prev
  <2> DEFINE q == Repaired(s, o, survivor)
  <2>1. Good(str[s])
    BY DEF SoundS
  <2>2. /\ Good(q) /\ q.listed = str[s].listed /\ q.pw = str[s].pw /\ q.pinned = str[s].pinned
        /\ q.tl = str[s].tl /\ q.pid = str[s].pid
        /\ q.prev = IF str[s].listed /\ str[s].prev = o THEN survivor ELSE str[s].prev
    <3>1. CASE str[s].listed /\ str[s].prev = o
      <4> DEFINE r == [str[s] EXCEPT !.prev = survivor]
      <4>1. q = r
        BY <3>1 DEF Repaired, Live
      <4>2. /\ Good(r) /\ r.prev = survivor /\ r.listed = str[s].listed /\ r.pw = str[s].pw
            /\ r.pinned = str[s].pinned /\ r.tl = str[s].tl /\ r.pid = str[s].pid
        BY <2>1, <3>1, PrevGood
      <4> HIDE DEF r, q
      <4> QED BY <3>1, <4>1, <4>2
    <3>2. CASE ~(str[s].listed /\ str[s].prev = o)
      <4>1. q = str[s]
        BY <3>2 DEF Repaired, Live
      <4> HIDE DEF q
      <4> QED BY <2>1, <3>2, <4>1
    <3> QED BY <3>1, <3>2
  <2>3. str'[s] = qdwin_output_boundary_cancel_state(q)
    BY <1>1
  <2> HIDE DEF q
  <2>4. Good(str'[s]) /\ Alike(q, str'[s])
    BY <2>2, <2>3, CancelGood
  <2> QED BY <2>2, <2>4 DEF Alike
<1>4. SoundS'
  <2>1. str' \in [Streams -> StreamType]
    <3>1. str' = [s \in Streams |-> str'[s]]
      BY <1>1
    <3>2. \A s \in Streams : str'[s] \in StreamType
      BY <1>3 DEF Good
    <3> QED BY <3>1, <3>2
  <2>2. ASSUME NEW s \in Streams
        PROVE  str'[s].prev \in outputs' \cup Pipewire \cup {NONE}
    <3>1. str[s].prev \in outputs \cup Pipewire \cup {NONE}
      BY DEF SoundS
    <3>2. ~str[s].listed => str[s].prev = NONE
      BY DEF SoundS, Good, Nothing
    <3> QED BY <1>1, <1>2, <1>3, <3>1, <3>2
  <2>3. ASSUME NEW s \in Streams, child'[s] = "running"
        PROVE  str'[s].listed /\ proc'[str'[s].pid] = s
    <3>1. child[s] = "running" /\ proc' = proc
      BY <1>1, <2>3
    <3>2. str[s].listed /\ proc[str[s].pid] = s
      BY <3>1 DEF SoundS
    <3>3. str'[s].listed = str[s].listed /\ str'[s].pid = str[s].pid
      BY <1>3
    <3> QED BY <3>1, <3>2, <3>3
  <2>4. ASSUME NEW s \in Streams, NEW r \in Streams, s # r, str'[s].listed, str'[r].listed
        PROVE  str'[s].pw # str'[r].pw
    <3>1. str[s].listed /\ str[r].listed
      BY <1>3, <2>4, Zenon
    <3>2. str[s].pw # str[r].pw
      BY <2>4, <3>1, Zenon DEF SoundS
    <3>3. str'[s].pw = str[s].pw /\ str'[r].pw = str[r].pw
      BY <1>3, Zenon
    <3> QED BY <3>2, <3>3, Zenon
  <2>5. /\ child' \in [Streams -> Children] /\ proc' \in [Pids -> Streams \cup {FOREIGN, NONE}]
        /\ conn' \subseteq Streams /\ outputs' \subseteq Desktop
        /\ shell' \in BOOLEAN /\ locked' \in BOOLEAN /\ stray' = FALSE
    BY <1>1 DEF SoundS
  <2> QED BY <1>3, <2>1, <2>2, <2>3, <2>4, <2>5 DEF SoundS
<1>5. SoundW'
  <2>1. where' \in [Toplevels -> outputs' \cup Pipewire \cup {NONE}]
    BY <1>1 DEF SoundW
  <2>2. astray' \subseteq Toplevels /\ astray \subseteq astray'
    BY DEF SoundW, qdwin_output_boundary_transition
  <2>3. ASSUME NEW t \in Toplevels, where'[t] \in Pipewire, t \notin astray'
        PROVE  \E s \in Streams : str'[s].pinned /\ str'[s].tl = t
    <3>1. where[t] # o
      BY <1>1, <2>3 DEF qdwin_output_boundary_transition
    <3>2. where[t] \in Pipewire /\ t \notin astray
      BY <1>1, <2>2, <2>3, <3>1
    <3>3. PICK s \in Streams : str[s].pinned /\ str[s].tl = t
      BY <3>2 DEF SoundW, WindowComesBack
    <3> QED BY <1>3, <3>3
  <2>4. ASSUME NEW s \in Streams, str'[s].pinned, str'[s].tl \notin astray'
        PROVE  str'[s].prev \in Desktop
    <3>1. str[s].pinned /\ str[s].tl \notin astray' /\ str[s].tl \notin astray
      BY <1>3, <2>2, <2>4
    <3>2. str[s].listed /\ str[s].tl \in Toplevels
      <4>1. str[s] \in StreamType /\ str[s].listed /\ str[s].tl # NONE
        BY <3>1 DEF SoundS, Good, Nothing, Holds
      <4> QED BY <4>1 DEF StreamType
    <3>3. str[s].prev \in Desktop
      BY <3>1 DEF SoundW, WindowComesBack
    <3>4. CASE str[s].prev = o
      <4>1. survivor \notin Pipewire
        BY <3>1, <3>2, <3>4 DEF qdwin_output_boundary_transition, Live
      <4> QED BY <1>3, <3>2, <3>4, <4>1
    <3>5. CASE str[s].prev # o
      BY <1>3, <3>3, <3>5
    <3> QED BY <3>4, <3>5
  <2> QED BY <2>1, <2>2, <2>3, <2>4 DEF SoundW, WindowComesBack
<1> QED BY <1>4, <1>5

\* What the kernel does to children and numbers, the connections of the forwards, the
\* shell's bind, new outputs and moves of windows touch no stream.
LEMMA AroundOK ==
  ASSUME SoundS, SoundW,
         \/ \E s \in Streams : ForwardConnects(s) \/ ForwardExits(s) \/ WestonReaps(s)
         \/ \E p \in Pids : PidReused(p) \/ OtherExits(p)
         \/ \E t \in Toplevels, o \in Desktop : WindowMoves(t, o)
         \/ \E o \in Desktop : OutputAdded(o)
         \/ qdwin_handle_bind_as_shell
  PROVE  SoundS' /\ SoundW'
<1>1. ASSUME NEW r \in Streams, child[r] = "running"
      PROVE  str[r].pid \in Pids /\ proc[str[r].pid] = r /\ r # NONE /\ r # FOREIGN
  <2>1. str[r] \in StreamType /\ str[r].pid # NONE /\ proc[str[r].pid] = r
    BY <1>1 DEF SoundS, Good, Holds
  <2>2. str[r].pid \in Pids
    BY <2>1 DEF StreamType
  <2> QED BY <2>1, <2>2, StreamConstants
<1>2. ASSUME UNCHANGED <<str, outputs, where, astray>>
      PROVE  SoundW'
  BY <1>2 DEF SoundW, WindowComesBack
<1>3. ASSUME NEW s \in Streams, ForwardConnects(s)
      PROVE  SoundS' /\ SoundW'
  BY <1>2, <1>3 DEF ForwardConnects, SoundS
<1>4. ASSUME NEW s \in Streams, ForwardExits(s)
      PROVE  SoundS' /\ SoundW'
  <2>1. child' = [child EXCEPT ![s] = "zombie"]
        /\ UNCHANGED <<str, proc, conn, where, outputs, shell, locked, astray, stray>>
    BY <1>4 DEF ForwardExits
  <2>2. child' \in [Streams -> Children]
        /\ \A r \in Streams : child'[r] = "running" => child[r] = "running"
    BY <2>1 DEF SoundS, Children
  <2> QED BY <1>2, <2>1, <2>2 DEF SoundS
<1>5. ASSUME NEW s \in Streams, WestonReaps(s)
      PROVE  SoundS' /\ SoundW'
  <2>1. child[s] = "zombie" /\ child' = [child EXCEPT ![s] = "reaped"]
        /\ proc' = [p \in Pids |-> IF proc[p] = s THEN NONE ELSE proc[p]]
        /\ UNCHANGED <<str, conn, where, outputs, shell, locked, astray, stray>>
    BY <1>5 DEF WestonReaps
  <2>2. child' \in [Streams -> Children] /\ proc' \in [Pids -> Streams \cup {FOREIGN, NONE}]
    BY <2>1 DEF SoundS, Children
  <2>3. ASSUME NEW r \in Streams, child'[r] = "running"
        PROVE  str'[r].listed /\ proc'[str'[r].pid] = r
    <3>1. r # s /\ child[r] = "running"
      BY <2>1, <2>3 DEF SoundS
    <3> QED BY <1>1, <2>1, <3>1 DEF SoundS
  <2> QED BY <1>2, <2>1, <2>2, <2>3 DEF SoundS
<1>6. ASSUME NEW p \in Pids, PidReused(p) \/ OtherExits(p)
      PROVE  SoundS' /\ SoundW'
  <2>1. proc[p] \in {NONE, FOREIGN}
        /\ UNCHANGED <<str, child, conn, where, outputs, shell, locked, astray, stray>>
    BY <1>6 DEF PidReused, OtherExits
  <2>2. PICK v \in {NONE, FOREIGN} : proc' = [proc EXCEPT ![p] = v]
    BY <1>6 DEF PidReused, OtherExits
  <2>3. proc' \in [Pids -> Streams \cup {FOREIGN, NONE}]
    BY <2>2 DEF SoundS
  <2>4. \A r \in Streams : child'[r] = "running" => str'[r].listed /\ proc'[str'[r].pid] = r
    BY <1>1, <2>1, <2>2 DEF SoundS
  <2> QED BY <1>2, <2>1, <2>3, <2>4 DEF SoundS
<1>7. ASSUME NEW t \in Toplevels, NEW o \in Desktop, WindowMoves(t, o)
      PROVE  SoundS' /\ SoundW'
  <2>1. o \in outputs /\ where' = [where EXCEPT ![t] = o]
        /\ UNCHANGED <<str, child, proc, conn, outputs, shell, locked, astray, stray>>
    BY <1>7 DEF WindowMoves
  <2>2. SoundS'
    BY <2>1 DEF SoundS
  <2>3. \A u \in Toplevels : where'[u] \in Pipewire => where[u] \in Pipewire
    BY <2>1, StreamConstants DEF SoundW
  <2>4. where' \in [Toplevels -> outputs \cup Pipewire \cup {NONE}]
    BY <2>1 DEF SoundW
  <2> QED BY <2>1, <2>2, <2>3, <2>4 DEF SoundW, WindowComesBack
<1>8. ASSUME NEW o \in Desktop, OutputAdded(o)
      PROVE  SoundS' /\ SoundW'
  <2>1. outputs' = outputs \cup {o}
        /\ UNCHANGED <<str, child, proc, conn, where, shell, locked, astray, stray>>
    BY <1>8 DEF OutputAdded
  <2>2. SoundS'
    BY <2>1 DEF SoundS
  <2> QED BY <2>1, <2>2 DEF SoundW, WindowComesBack
<1>9. CASE qdwin_handle_bind_as_shell
  BY <1>2, <1>9 DEF qdwin_handle_bind_as_shell, SoundS
<1> QED BY <1>3, <1>4, <1>5, <1>6, <1>7, <1>8, <1>9
-----------------------------------------------------------------------------
(* The theorems                                                             *)

\* It holds when the compositor starts.
LEMMA InitSound == Init => SoundS /\ SoundW
<1> SUFFICES ASSUME Init PROVE SoundS /\ SoundW
  OBVIOUS
<1> DEFINE n == NoStream
<1>1. n \in StreamType
  BY NoStreamIs
<1>2. /\ n.obj = "none" /\ n.listed = FALSE /\ n.tl = NONE /\ n.pw = NONE /\ n.pinned = FALSE
      /\ n.prev = NONE /\ n.seat = FALSE /\ n.grab = "default" /\ n.confine = FALSE
      /\ n.handle = FALSE /\ n.token = FALSE /\ n.allow = FALSE /\ n.pid = NONE
      /\ n.watch = FALSE /\ n.claims = 0 /\ n.focus = "none"
  BY DEF NoStream
<1> HIDE DEF n
<1>3. Good(n)
  BY <1>1, <1>2 DEF Good, Nothing
<1>4. \A s \in Streams : str[s] = n /\ child[s] = "none"
  BY DEF Init, n
<1>5. SoundS
  <2>1. str \in [Streams -> StreamType] /\ child \in [Streams -> Children]
        /\ proc \in [Pids -> Streams \cup {FOREIGN, NONE}]
    BY NoStreamIs DEF Init, Children
  <2>2. conn \subseteq Streams /\ outputs \subseteq Desktop
        /\ shell \in BOOLEAN /\ locked \in BOOLEAN /\ stray = FALSE
    BY DEF Init
  <2> QED BY <1>2, <1>3, <1>4, <2>1, <2>2 DEF SoundS
<1>6. SoundW
  <2>1. where \in [Toplevels -> outputs \cup Pipewire \cup {NONE}] /\ astray \subseteq Toplevels
    BY DEF Init
  <2>2. \A t \in Toplevels : where[t] \notin Pipewire
    BY StreamConstants DEF Init
  <2>3. \A s \in Streams : ~str[s].pinned
    BY <1>2, <1>4
  <2> QED BY <2>1, <2>2, <2>3 DEF SoundW, WindowComesBack
<1> QED BY <1>5, <1>6

\* Every step keeps it.
LEMMA NextSound == SoundS /\ SoundW /\ [Next]_vars => SoundS' /\ SoundW'
<1> SUFFICES ASSUME SoundS, SoundW, [Next]_vars PROVE SoundS' /\ SoundW'
  OBVIOUS
<1>1. CASE UNCHANGED vars
  <2>1. SoundS'
    BY <1>1 DEF vars, SoundS
  <2>2. SoundW'
    BY <1>1 DEF vars, SoundW, WindowComesBack
  <2> QED BY <2>1, <2>2
<1>2. ASSUME NEW s \in Streams, SubscribeDenied(s)
      PROVE  SoundS' /\ SoundW'
  BY <1>2, DeniedOK
<1>3. ASSUME NEW s \in Streams, NEW t \in Toplevels, NEW o \in Pipewire, NEW p \in Pids,
             NEW allow \in BOOLEAN, qdwin_handle_subscribe_view_stream(s, t, o, p, allow)
      PROVE  SoundS' /\ SoundW'
  BY <1>3, SubscribeOK
<1>4. ASSUME NEW s \in Streams, qdwin_forward_pidfd_ready(s)
      PROVE  SoundS' /\ SoundW'
  BY <1>4, ReadyOK
<1>5. ASSUME NEW s \in Streams, qdwin_stream_handle_destroy(s)
      PROVE  SoundS' /\ SoundW'
  BY <1>5, DestroyOK
<1>6. ASSUME NEW s \in Streams,
             \/ ForwardDisconnects(s) \/ qdwin_stream_input_handle_claim(s)
             \/ qdwin_stream_input_handle_destroy(s) \/ qdwin_stream_input_inject_pointer(s)
             \/ weston_pointer_start_grab(s) \/ weston_pointer_end_grab(s)
      PROVE  SoundS' /\ SoundW'
  BY <1>6, InputOK
<1>7. ASSUME NEW t \in Toplevels, qdwin_toplevel_release_dependents(t)
      PROVE  SoundS' /\ SoundW'
  BY <1>7, WindowGoneOK
<1>8. ASSUME NEW o \in Desktop, NEW survivor \in Desktop \cup Pipewire,
             qdwin_output_boundary_transition(o, survivor)
      PROVE  SoundS' /\ SoundW'
  BY <1>8, BoundaryOK
<1>9. CASE qdwin_handle_set_locked
  BY <1>9, LockOK
<1>10. CASE ShellDisconnects
  BY <1>10, LoseShellOK DEF ShellDisconnects
<1>11. CASE \/ \E s \in Streams : ForwardConnects(s) \/ ForwardExits(s) \/ WestonReaps(s)
            \/ \E p \in Pids : PidReused(p) \/ OtherExits(p)
            \/ \E t \in Toplevels, o \in Desktop : WindowMoves(t, o)
            \/ \E o \in Desktop : OutputAdded(o)
            \/ qdwin_handle_bind_as_shell
  BY <1>11, AroundOK
<1> QED BY <1>1, <1>2, <1>3, <1>4, <1>5, <1>6, <1>7, <1>8, <1>9, <1>10, <1>11 DEF Next

\* The properties of the streams hold together in every reachable state, for any streams,
\* windows, outputs and process numbers.
THEOREM SpecStreamsSound == Spec => []StreamsSound
<1>1. Init => StreamsSound
  BY InitSound, AsOne
<1>2. StreamsSound /\ [Next]_vars => StreamsSound'
  <2> SUFFICES ASSUME StreamsSound, [Next]_vars PROVE StreamsSound'
    OBVIOUS
  <2>1. SoundS /\ SoundW
    BY AsOne
  <2>2. SoundS' /\ SoundW'
    BY <2>1, NextSound
  <2> QED BY <2>2, AsOne, PTL
<1> QED BY <1>1, <1>2, PTL DEF Spec

\* However a stream ends, it leaves nothing behind: the five paths that end one release all
\* it held, stop its child and tell its client (qdwin_view_stream_release_server_state).
THEOREM SpecStreamsEndClean == Spec => []StreamsEndClean
<1>1. StreamsSound => StreamsEndClean
  BY DEF StreamsSound
<1> QED BY <1>1, SpecStreamsSound, PTL

\* A window whose streams ended is back on the desktop (qdwin_view_stream_unpin).
THEOREM SpecWindowComesBack == Spec => []WindowComesBack
<1>1. StreamsSound => WindowComesBack
  BY DEF StreamsSound
<1> QED BY <1>1, SpecStreamsSound, PTL

\* A token is claimed once and what is injected under the confinement grab stays in the
\* window of the stream (qdwin_stream_input_handle_claim, qdwin_stream_confine_motion).
THEOREM SpecInputConfined == Spec => []InputConfined
<1>1. StreamsSound => InputConfined
  BY DEF StreamsSound
<1> QED BY <1>1, SpecStreamsSound, PTL
=============================================================================
