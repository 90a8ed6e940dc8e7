------------------------------- MODULE DebugLog -------------------------------
(* libweston's debug log: scopes with a stdio stream in front of their         *)
(* subscribers, subscriptions that wait for a scope to appear, the client      *)
(* streams of weston_debug_v1 (weston-log-wayland.c) and the ring buffer of    *)
(* the flight recorder (weston-log-flight-rec.c).                              *)
(*                                                                             *)
(* A byte is known by its age: how many bytes were printed, or in the recorder *)
(* were received, after it; ages above Oldest are not told apart, which is     *)
(* more than a buffer and the longest print hold together.                     *)
(* Allocation failures are left out; a client whose subscription is refused    *)
(* because the scope is not advertised is disconnected and is left out too.    *)
EXTENDS Integers, Sequences, FiniteSets, SequencesExt

CONSTANTS Scopes,     \* names of scopes
          OneShot,    \* those whose new_subscription callback dumps and completes
          Streams,    \* weston_debug_stream_v1 objects
          Rec,        \* the flight recorder
          Size,       \* rb->size
          Lengths,    \* lengths of a print
          Stdio,      \* size of a scope's stdio buffer
          Oldest      \* the greatest age told apart

NoByte == -1

VARIABLES scopes,     \* scope_list: the scopes that exist
          subs,       \* subscription_list of each scope, newest first
          buf,        \* the bytes that wait in the scope's input_stream
          pending,    \* scopes the recorder waits for (pending_subscription_list)
          stream,     \* the client streams
          ring,       \* the recorder's ring buffer
          fed         \* the last Size bytes the recorder was handed

vars == <<scopes, subs, buf, pending, stream, ring, fed>>

\* due: what the scope printed since the stream subscribed and it has not got
NoStream == [live |-> FALSE, fd |-> FALSE, told |-> <<>>, due |-> <<>>]
NewRing == [live |-> TRUE, pos |-> 0, overlap |-> FALSE, at |-> [i \in 0 .. Size - 1 |-> NoByte]]
NoRing == [NewRing EXCEPT !.live = FALSE]

L == [subs |-> subs, buf |-> buf, stream |-> stream, ring |-> ring, fed |-> fed]

Becomes(l) ==
  /\ subs' = l.subs
  /\ buf' = l.buf
  /\ stream' = l.stream
  /\ ring' = l.ring
  /\ fed' = l.fed

\* The bytes of a print of length n, and everything before it, n bytes older
Bytes(n) == [i \in 1 .. n |-> n - i]

Older(b, n) == CASE b = NoByte -> NoByte [] b + n > Oldest -> Oldest [] OTHER -> b + n
Aged(f, n) == [i \in DOMAIN f |-> Older(f[i], n)]
Age(l, n) ==
  [l EXCEPT !.buf = [c \in Scopes |-> Aged(@[c], n)],
            !.stream = [w \in Streams |-> [@[w] EXCEPT !.due = Aged(@, n)]]]
\* The last Size of the bytes q
Latest(q) == IF Len(q) <= Size THEN q ELSE SubSeq(q, Len(q) - Size + 1, Len(q))


-----------------------------------------------------------------------------
(* The flight recorder's ring buffer.                                        *)

Copied(r, at, data) ==
  [r EXCEPT !.at = [i \in 0 .. Size - 1 |-> IF i \in at .. at + Len(data) - 1 THEN data[i - at + 1] ELSE @[i]]]

AdjustEnd(r, n) == [r EXCEPT !.pos = IF @ = Size - n THEN 0 ELSE @ + n]

\* The whole chunks overwrite each other, so that only the last one is seen.
WriteChunks(r, data) ==
  LET left == Len(data) % Size
      whole == Len(data) - left
      chunked == IF whole = 0 THEN r ELSE Copied(r, r.pos, SubSeq(data, whole - Size + 1, whole))
  IN AdjustEnd(Copied(chunked, r.pos, SubSeq(data, whole + 1, Len(data))), left)

WriteChunksOverlap(r, data) ==
  LET fits == Size - r.pos
      filled == [Copied(r, r.pos, SubSeq(data, 1, fits)) EXCEPT !.pos = 0]
  IN [WriteChunks(filled, SubSeq(data, fits + 1, Len(data))) EXCEPT !.overlap = TRUE]

RecorderWrite(r, data) ==
  CASE Len(data) <= Size /\ r.pos <= Size - Len(data) -> AdjustEnd(Copied(r, r.pos, data), Len(data))
    [] r.pos = 0 -> WriteChunks(r, data)
    [] OTHER -> WriteChunksOverlap(r, data)

\* What the recorder prints when it is asked for its content.
Displayed(r) ==
  LET upTo == [i \in 1 .. r.pos |-> r.at[i - 1]]
      from == [i \in 1 .. Size - r.pos |-> r.at[r.pos + i - 1]]
  IN CASE r.overlap -> from \o upTo
       [] ~r.overlap /\ r.pos > 0 -> upTo
       [] OTHER -> from

-----------------------------------------------------------------------------
(* Client streams.                                                           *)

Failed(x) == [x EXCEPT !.fd = FALSE, !.due = <<>>, !.told = Append(@, "failure")]
Completed(x) == [x EXCEPT !.fd = FALSE, !.due = <<>>, !.told = Append(@, "complete")]

\* Bytes that are not the next ones due leave a mark that stays.
Got(x, data) ==
  [x EXCEPT !.due = IF IsPrefix(data, @) THEN SubSeq(@, Len(data) + 1, Len(@)) ELSE <<NoByte>>]

\* A subscriber's write; the descriptors of the streams in bad refuse.
SubscriberWrite(l, w, data, bad) ==
  CASE w = Rec /\ data # <<>> -> [l EXCEPT !.ring = RecorderWrite([@ EXCEPT !.at = Aged(@, Len(data))], Bytes(Len(data))),
                   !.fed = Latest(Aged(@, Len(data)) \o Bytes(Len(data)))]
    [] w # Rec /\ l.stream[w].fd /\ data # <<>> ->
         [l EXCEPT !.stream[w] = IF w \in bad THEN Failed(@) ELSE Got(@, data)]
    [] OTHER -> l

-----------------------------------------------------------------------------
(* Scopes.                                                                   *)

DoWrite(l, c, data, bad) ==
  FoldLeft(LAMBDA m, w : SubscriberWrite(m, w, data, bad), l, l.subs[c])

\* fflush of the scope's stream, as far as its first n bytes
FlushSome(l, c, n, bad) ==
  DoWrite([l EXCEPT !.buf[c] = SubSeq(@, n + 1, Len(@))], c, SubSeq(l.buf[c], 1, n), bad)
Flush(l, c, bad) == FlushSome(l, c, Len(l.buf[c]), bad)

\* What the subscribers of c are owed when data is printed.
Owe(l, c, data) ==
  [l EXCEPT !.stream = [w \in Streams |->
     IF w \in ToSet(l.subs[c]) THEN [@[w] EXCEPT !.due = IF l.stream[w].fd THEN @ \o data ELSE <<>>] ELSE @[w]]]

SubscriptionAdd(l, c, w, bad) ==
  LET flushed == Flush(l, c, bad) IN [flushed EXCEPT !.subs[c] = <<w>> \o @]

NewSubscription(l, c, w, bad) ==
  IF c \notin OneShot THEN l
  ELSE LET data == Bytes(1)
           older == Age(l, 1)
           owed == IF w = Rec THEN older ELSE [older EXCEPT !.stream[w].due = @ \o data]
           dumped == SubscriberWrite(owed, w, data, bad)
       IN IF w = Rec THEN dumped ELSE [dumped EXCEPT !.stream[w] = Completed(@)]

SubscriptionCreate(l, c, w, bad) == NewSubscription(SubscriptionAdd(l, c, w, bad), c, w, bad)

\* The client of a stream that is still open is told that its scope went.
SubscriptionDestroy(l, c, w) ==
  LET told == IF w # Rec /\ l.stream[w].fd THEN [l EXCEPT !.stream[w] = Failed(@)] ELSE l
  IN [told EXCEPT !.subs[c] = SelectSeq(@, LAMBDA x : x # w)]

AddLogScope(c) ==
  /\ c \notin scopes
  /\ scopes' = scopes \cup {c}
  /\ Becomes(IF c \in pending THEN SubscriptionCreate(L, c, Rec, {}) ELSE L)
  /\ pending' = pending \ {c}

\* The subscriptions go first, then fclose flushes to nobody.
ScopeDestroy(c) ==
  /\ c \in scopes
  /\ LET alone == FoldLeft(LAMBDA m, w : SubscriptionDestroy(m, c, w), L, subs[c])
     IN Becomes([alone EXCEPT !.buf[c] = <<>>])
  /\ scopes' = scopes \ {c}
  /\ UNCHANGED pending

\* weston_log_scope_write and weston_log_scope_printf: nothing stays behind.
ScopeWrite(c, n, bad) ==
  /\ c \in scopes \ OneShot
  /\ LET data == Bytes(n) IN
       Becomes(IF subs[c] = <<>> THEN Flush(L, c, bad)
               ELSE DoWrite(Owe(Age(Flush(L, c, bad), n), c, data), c, data, bad))
  /\ UNCHANGED <<scopes, pending>>

\* weston_log_scope_puts and prints to weston_log_scope_stream: the stream
\* passes on as much of what it holds as it likes.
ScopePuts(c, n, pass, bad) ==
  /\ c \in scopes \ OneShot
  /\ subs[c] # <<>>
  /\ Len(buf[c]) + n - pass <= Stdio
  /\ LET data == Bytes(n)
         held == [Owe(Age(L, n), c, data) EXCEPT !.buf[c] = @ \o data]
     IN Becomes(FlushSome(held, c, pass, bad))
  /\ UNCHANGED <<scopes, pending>>

-----------------------------------------------------------------------------
(* Subscribers.                                                              *)

\* weston_debug_v1.subscribe: an unknown name closes the stream at once.
Subscribe(w, c, bad) ==
  /\ ~stream[w].live
  /\ LET l == [L EXCEPT !.stream[w] = [NoStream EXCEPT !.live = TRUE, !.fd = TRUE]] IN
       IF c \in scopes
         THEN Becomes(SubscriptionCreate(l, c, w, bad))
         ELSE Becomes([l EXCEPT !.stream[w] = Failed(@)])
  /\ UNCHANGED <<scopes, pending>>

StreamDestroy(w) ==
  /\ stream[w].live
  /\ LET closed == [L EXCEPT !.stream[w].fd = FALSE]
         released == FoldSet(LAMBDA c, m : IF w \in ToSet(m.subs[c]) THEN SubscriptionDestroy(m, c, w) ELSE m,
                             closed, Scopes)
     IN Becomes([released EXCEPT !.stream[w] = NoStream])
  /\ UNCHANGED <<scopes, pending>>

\* weston_log_subscribe for the recorder
RecorderSubscribe(c) ==
  /\ ring.live
  /\ Rec \notin ToSet(subs[c])
  /\ c \notin pending
  /\ IF c \in scopes
       THEN /\ Becomes(SubscriptionCreate(L, c, Rec, {}))
            /\ UNCHANGED pending
       ELSE /\ pending' = pending \cup {c}
            /\ Becomes(L)
  /\ UNCHANGED scopes

\* The pending subscriptions are left behind: the front end destroys its
\* recorder only when it wants no more of them.
RecorderDestroy ==
  /\ ring.live
  /\ pending = {}
  /\ Becomes([FoldSet(LAMBDA c, m : IF Rec \in ToSet(m.subs[c]) THEN SubscriptionDestroy(m, c, Rec) ELSE m, L, Scopes)
                EXCEPT !.ring = NoRing, !.fed = <<>>])
  /\ UNCHANGED <<scopes, pending>>

RecorderCreate ==
  /\ ~ring.live
  /\ Becomes([L EXCEPT !.ring = NewRing])
  /\ UNCHANGED <<scopes, pending>>

-----------------------------------------------------------------------------

Init ==
  /\ scopes = {}
  /\ subs = [c \in Scopes |-> <<>>]
  /\ buf = [c \in Scopes |-> <<>>]
  /\ pending = {}
  /\ stream = [w \in Streams |-> NoStream]
  /\ ring = NoRing
  /\ fed = <<>>

Next ==
  \/ \E c \in Scopes : AddLogScope(c) \/ ScopeDestroy(c) \/ RecorderSubscribe(c)
  \/ \E c \in Scopes, n \in Lengths, bad \in SUBSET Streams : ScopeWrite(c, n, bad)
  \/ \E c \in Scopes, n \in Lengths, bad \in SUBSET Streams :
       \E pass \in 0 .. Len(buf[c]) + n : ScopePuts(c, n, pass, bad)
  \/ \E w \in Streams, c \in Scopes, bad \in SUBSET Streams : Subscribe(w, c, bad)
  \/ \E w \in Streams : StreamDestroy(w)
  \/ RecorderDestroy
  \/ RecorderCreate

Spec == Init /\ [][Next]_vars

-----------------------------------------------------------------------------

TypeOK ==
  /\ scopes \subseteq Scopes
  /\ pending \subseteq Scopes
  /\ subs \in [Scopes -> Seq(Streams \cup {Rec})]
  /\ \A w \in Streams : stream[w].told \in Seq({"failure", "complete"})
  /\ ring.pos \in 0 .. Size - 1

\* What the log promises its readers.  A stream whose descriptor is open has
\* got exactly what its scope printed since it subscribed, in order, except for
\* the tail that still waits in the scope's stdio stream; nothing printed
\* before it subscribed reaches it.  A closed stream has told its client so.
\* The recorder, asked at any time, prints a piece of the log that ends with
\* the latest byte, never bytes of two ages next to each other.  A subscription
\* waits only for a scope that does not exist, and only existing scopes have
\* subscriptions (weston-log.c:328-342, weston-log-flight-rec.c:77-200).
LogWhole ==
  /\ \A c \in Scopes : \A w \in ToSet(subs[c]) :
       /\ c \in scopes
       /\ IF w = Rec THEN ring.live ELSE stream[w].live
       /\ (w # Rec /\ stream[w].fd) => stream[w].due = buf[c]
  /\ \A w \in Streams : stream[w].live => (stream[w].fd <=> stream[w].told = <<>>)
  /\ \A w \in Streams : stream[w].fd => \E c \in Scopes : w \in ToSet(subs[c])
  /\ pending \cap scopes = {}
  /\ fed # <<>> => IsSuffix(Displayed(ring), fed)

=============================================================================
