-------------------------- MODULE EventStreamProofs --------------------------
(***************************************************************************)
(* Theorems about one realtime stream, for any numbers of publishers,      *)
(* clients, connections, changes and faults, and any limits.               *)
(***************************************************************************)
EXTENDS EventStream, FiniteSetTheorems, SequenceTheorems, TLAPS

-----------------------------------------------------------------------------
(* The inductive invariant. *)

\* The replay buffer holds the newest events, numbered up to the last one published.
EndsWithNewest(h) ==
    /\ Len(h.buffer) < h.next
    /\ \A i \in 1 .. Len(h.buffer) : h.buffer[i].id = h.next - Len(h.buffer) + i - 1

\* The frames of a queue follow what was taken from it, up to the mark of its end.
Follows(queue, last) ==
    /\ \A i \in 1 .. Len(queue) :
          IF queue[i] = None THEN i = Len(queue)
          ELSE i > 1 => queue[i].id = queue[i - 1].id + 1
    /\ queue # <<>> /\ last # None => queue[1] = None \/ queue[1].id = last + 1

\* The queue of a listed subscriber reaches to the event that is published last.
Reaches(queue, last, h) ==
    /\ queue # <<>> => /\ h.buffer # <<>>
                       /\ queue[Len(queue)] = h.buffer[Len(h.buffer)]
    /\ queue = <<>> /\ last # None => last = h.next - 1

\* Only a subscriber that is open, and whose queue goes on, is listed.
Subscriber(c, h) ==
    /\ Follows(c.queue, c.last)
    /\ ~c.closed => \A i \in 1 .. Len(c.queue) : c.queue[i] # None
    /\ c.listed => h.known /\ ~c.closed /\ Reaches(c.queue, c.last, h)

\* What was read of the value is the present, or the present is yet to be published.
Fresh(snapshot) == snapshot = value \/ \E p \in Publishers : pending[p] = value

\* A client that has drained the queue of a listed subscriber shows the last event, or a
\* snapshot of the present; and so will one whose snapshot is about to be sent.
Shown(k) ==
    conn[k].listed /\ conn[k].queue = <<>> =>
        /\ conn[k].stage = "ready" => Fresh(conn[k].snapshot)
        /\ conn[k].stage = "streaming" => \A c \in Clients : client[c].on = k =>
              \/ hub.buffer # <<>> /\ client[c].view = hub.buffer[Len(hub.buffer)].val
              \/ client[c].view = conn[k].snapshot /\ Fresh(conn[k].snapshot)

Inv ==
    /\ TypeOK
    /\ EndsWithNewest(hub)
    /\ \A k \in Connections : Subscriber(conn[k], hub)
    /\ \A k \in Connections : Shown(k)

-----------------------------------------------------------------------------
(* Types. *)

Queues == Seq(Frames \cup {None})

ConnType == [stage : Stages, listed : BOOLEAN, closed : BOOLEAN, authorized : BOOLEAN,
             queue : Queues, snapshot : Nat, last : Nat \cup {None}]

HubType == [next : Nat \ {0}, buffer : Seq(Frames), known : BOOLEAN, closed : BOOLEAN]

ClientType == [mode : Modes, on : Connections \cup {None},
               lastId : Nat \cup {None}, view : Nat \cup {None}]

\* A connection with a queue that is not too long, and a hub with such a buffer.
GoodConn(c) == c \in ConnType /\ Len(c.queue) <= QueueLimit

GoodHub(h) == h \in HubType /\ Len(h.buffer) <= ReplayLimit

\* The type invariant, variable by variable.
LEMMA TypeParts ==
    TypeOK <=> /\ value \in Nat
               /\ pending \in [Publishers -> Nat \cup {None}]
               /\ running \in BOOLEAN
               /\ GoodHub(hub)
               /\ conn \in [Connections -> ConnType]
               /\ \A k \in Connections : GoodConn(conn[k])
               /\ client \in [Clients -> ClientType]
               /\ signedIn \subseteq Clients
               /\ faults \in Nat
BY DEF TypeOK, GoodHub, GoodConn, HubType, ConnType, ClientType, Queues

\* The mark of an end is no frame (StreamSubscriber.close puts None).
LEMMA FramesAreMarked ==
    /\ None \notin Nat /\ None \notin Connections
    /\ None \notin Frames
BY NoneAssumption DEF Frames

-----------------------------------------------------------------------------
(* Sequences of frames. *)

\* What Append does to a queue.
LEMMA Appended ==
    ASSUME NEW S, NEW q \in Seq(S), NEW x \in S
    PROVE  /\ Append(q, x) \in Seq(S)
           /\ Len(Append(q, x)) = Len(q) + 1
           /\ Append(q, x) # <<>>
           /\ \A i \in 1 .. Len(q) : Append(q, x)[i] = q[i]
           /\ Append(q, x)[Len(q) + 1] = x
BY AppendProperties

\* A frame with the next number, or the mark, continues a queue that has no mark yet
\* (StreamSubscriber.put).
LEMMA FollowsOn ==
    ASSUME NEW q \in Queues, NEW last, NEW x \in Frames \cup {None},
           Follows(q, last), \A i \in 1 .. Len(q) : q[i] # None,
           q # <<>> => x = None \/ x.id = q[Len(q)].id + 1,
           q = <<>> /\ last # None => x = None \/ x.id = last + 1
    PROVE  Follows(Append(q, x), last)
  <1> DEFINE new == Append(q, x)
  <1>1. /\ Len(new) = Len(q) + 1
        /\ \A i \in 1 .. Len(q) : new[i] = q[i]
        /\ new[Len(q) + 1] = x
        /\ Len(q) \in Nat
    BY Appended, LenProperties DEF Queues
  <1>2. q = <<>> <=> Len(q) = 0
    BY EmptySeq DEF Queues
  <1> HIDE DEF new
  <1>3. ASSUME NEW i \in 1 .. Len(new)
        PROVE  IF new[i] = None THEN i = Len(new) ELSE i > 1 => new[i].id = new[i - 1].id + 1
    <2>1. CASE i = Len(new)
      <3>1. i > 1 => new[i - 1] = q[Len(q)] /\ q # <<>>
        BY <1>1, <1>2, <2>1
      <3> QED
        BY <3>1, <2>1, <1>1
    <2>2. CASE i # Len(new)
      <3>1. i \in 1 .. Len(q) /\ new[i] = q[i] /\ (i > 1 => new[i - 1] = q[i - 1])
        BY <2>2, <1>1
      <3> QED
        BY <3>1 DEF Follows
    <2> QED
      BY <2>1, <2>2
  <1>4. last # None => new[1] = None \/ new[1].id = last + 1
    <2>1. CASE q = <<>>
      BY <2>1, <1>1, <1>2
    <2>2. CASE q # <<>>
      <3>1. new[1] = q[1]
        BY <2>2, <1>1, <1>2
      <3> QED
        BY <3>1, <2>2 DEF Follows
    <2> QED
      BY <2>1, <2>2
  <1> QED
    BY <1>3, <1>4 DEF Follows, new

\* What is left of a queue follows the frame taken from it (StreamSubscriber.frames).
LEMMA FollowsTaken ==
    ASSUME NEW q \in Queues, NEW last, Follows(q, last), q # <<>>, Head(q) # None
    PROVE  /\ Tail(q) \in Queues
           /\ Len(Tail(q)) = Len(q) - 1
           /\ Follows(Tail(q), Head(q).id)
           /\ \A i \in 1 .. Len(Tail(q)) : Tail(q)[i] = q[i + 1]
           /\ Head(q) \in Frames /\ Head(q) = q[1]
           /\ last # None => Head(q).id = last + 1
  <1> DEFINE new == Tail(q)
  <1>1. /\ new \in Queues
        /\ Len(new) = Len(q) - 1
        /\ \A i \in 1 .. Len(new) : new[i] = q[i + 1]
        /\ Head(q) \in Frames /\ Head(q) = q[1]
        /\ Len(q) \in Nat
    BY HeadTailProperties, LenProperties DEF Queues
  <1>2. new = <<>> <=> Len(new) = 0
    BY <1>1, EmptySeq DEF Queues
  <1> HIDE DEF new
  <1>3. ASSUME NEW i \in 1 .. Len(new)
        PROVE  IF new[i] = None THEN i = Len(new) ELSE i > 1 => new[i].id = new[i - 1].id + 1
    <2>1. i + 1 \in 1 .. Len(q) /\ new[i] = q[i + 1] /\ (i > 1 => new[i - 1] = q[i])
      BY <1>1
    <2>2. IF q[i + 1] = None THEN i + 1 = Len(q) ELSE q[i + 1].id = q[i + 1 - 1].id + 1
      BY <2>1 DEF Follows
    <2> QED
      BY <2>1, <2>2, <1>1
  <1>4. new # <<>> => new[1] = None \/ new[1].id = Head(q).id + 1
    <2> SUFFICES ASSUME new # <<>> PROVE new[1] = None \/ new[1].id = Head(q).id + 1
      OBVIOUS
    <2>1. 2 \in 1 .. Len(q) /\ new[1] = q[2] /\ q[1] = Head(q)
      BY <1>1, <1>2
    <2>2. 2 - 1 = 1
      OBVIOUS
    <2>3. q[2] = None \/ q[2].id = q[1].id + 1
      BY <2>1, <2>2 DEF Follows
    <2> QED
      BY <2>1, <2>3
  <1>5. last # None => Head(q).id = last + 1
    BY <1>1 DEF Follows
  <1> QED
    BY <1>1, <1>3, <1>4, <1>5 DEF Follows, new

-----------------------------------------------------------------------------
(* The hub and its subscribers. *)

\* A hub with another sequence and buffer, and a subscriber with another queue.
HubWith(h, n, b) == [h EXCEPT !.next = n, !.buffer = b, !.known = TRUE]

ConnWith(c, q) == [c EXCEPT !.queue = q]

ConnClosed(c, q) == [c EXCEPT !.closed = TRUE, !.queue = q]

\* What stays of the hub when an event is added.
LEMMA HubIsWith ==
    ASSUME NEW h \in HubType, NEW n \in Nat \ {0}, NEW b \in Seq(Frames)
    PROVE  LET new == HubWith(h, n, b)
           IN  /\ new \in HubType /\ new.next = n /\ new.buffer = b
               /\ new.known /\ new.closed = h.closed
BY DEF HubType, HubWith

\* What stays of a subscriber when its queue changes.
LEMMA ConnIsWith ==
    ASSUME NEW c \in ConnType, NEW q \in Queues
    PROVE  /\ ConnWith(c, q) \in ConnType
           /\ ConnWith(c, q).closed = c.closed /\ ConnWith(c, q).queue = q
           /\ ConnWith(c, q).stage = c.stage /\ ConnWith(c, q).listed = c.listed
           /\ ConnWith(c, q).snapshot = c.snapshot /\ ConnWith(c, q).last = c.last
BY DEF ConnType, ConnWith

\* What stays of a subscriber when it is closed.
LEMMA ConnIsClosed ==
    ASSUME NEW c \in ConnType, NEW q \in Queues
    PROVE  /\ ConnClosed(c, q) \in ConnType
           /\ ConnClosed(c, q).closed /\ ConnClosed(c, q).queue = q
           /\ ConnClosed(c, q).stage = c.stage /\ ConnClosed(c, q).listed = c.listed
           /\ ConnClosed(c, q).snapshot = c.snapshot /\ ConnClosed(c, q).last = c.last
BY DEF ConnType, ConnClosed

\* A frame that is numbered becomes the last of the buffer (RealtimeHub.publish).
LEMMA NumberedHub ==
    ASSUME NEW h, GoodHub(h), EndsWithNewest(h), NEW frame \in Frames, frame.id = h.next
    PROVE  LET new == Numbered(h, frame)
           IN  /\ GoodHub(new) /\ EndsWithNewest(new)
               /\ new.next = h.next + 1 /\ new.known /\ new.closed = h.closed
               /\ new.buffer # <<>> /\ new.buffer[Len(new.buffer)] = frame
  <1> DEFINE B == Len(h.buffer)
             all == Append(h.buffer, frame)
             b == Buffered(h.buffer, frame)
             new == Numbered(h, frame)
  <1>1. h \in HubType /\ B \in Nat /\ B <= ReplayLimit /\ h.buffer \in Seq(Frames)
    BY LenProperties DEF GoodHub, HubType
  <1>2. /\ all \in Seq(Frames) /\ Len(all) = B + 1 /\ all # <<>>
        /\ \A i \in 1 .. B : all[i] = h.buffer[i]
        /\ all[B + 1] = frame
    BY <1>1, Appended
  <1>3. \A i \in 1 .. B + 1 : all[i].id = h.next - B + i - 1
    <2> TAKE i \in 1 .. B + 1
    <2>1. CASE i = B + 1
      BY <2>1, <1>1, <1>2 DEF HubType
    <2>2. CASE i # B + 1
      BY <2>2, <1>1, <1>2 DEF EndsWithNewest
    <2> QED
      BY <2>1, <2>2
  <1>4. /\ b \in Seq(Frames) /\ b # <<>> /\ b[Len(b)] = frame
        /\ Len(b) \in Nat /\ Len(b) <= ReplayLimit /\ Len(b) <= B + 1
        /\ \A i \in 1 .. Len(b) : b[i].id = h.next + 1 - Len(b) + i - 1
    <2>1. CASE B + 1 > ReplayLimit
      <3>1. b = Tail(all)
        BY <2>1, <1>2 DEF Buffered
      <3>2. /\ Tail(all) \in Seq(Frames) /\ Len(Tail(all)) = B
            /\ \A i \in 1 .. B : Tail(all)[i] = all[i + 1]
        BY <1>1, <1>2, HeadTailProperties
      <3>3. B >= 1 /\ ReplayLimit \in Nat
        BY <2>1, <1>1, LimitsAssumption
      <3>4. \A i \in 1 .. B : Tail(all)[i].id = h.next + 1 - B + i - 1
        <4> TAKE i \in 1 .. B
        <4>1. i + 1 \in 1 .. B + 1
          BY <1>1
        <4>2. all[i + 1].id = h.next - B + (i + 1) - 1
          BY <4>1, <1>3
        <4> QED
          BY <4>2, <3>2, <1>1 DEF HubType
      <3> HIDE DEF all, b
      <3>5. /\ b \in Seq(Frames) /\ Len(b) = B
            /\ \A i \in 1 .. B : b[i].id = h.next + 1 - B + i - 1
        BY <3>1, <3>2, <3>4
      <3>6. b # <<>>
        BY <3>3, <3>5, EmptySeq
      <3>7. b[B] = frame
        BY <3>1, <3>2, <3>3, <1>1, <1>2
      <3> QED
        BY <3>3, <3>5, <3>6, <3>7, <1>1
    <2>2. CASE ~(B + 1 > ReplayLimit)
      <3>1. b = all
        BY <2>2, <1>2 DEF Buffered
      <3>2. ReplayLimit \in Nat
        BY LimitsAssumption
      <3> HIDE DEF all, b
      <3>3. \A i \in 1 .. B + 1 : all[i].id = h.next + 1 - (B + 1) + i - 1
        <4> TAKE i \in 1 .. B + 1
        <4>1. h.next - B + i - 1 = h.next + 1 - (B + 1) + i - 1
          BY <1>1 DEF HubType
        <4> QED
          BY <4>1, <1>3
      <3> QED
        BY <3>1, <3>2, <3>3, <2>2, <1>1, <1>2
    <2> QED
      BY <2>1, <2>2
  <1> HIDE DEF b
  <1>0. h.next + 1 \in Nat \ {0}
    BY <1>1 DEF HubType
  <1> DEFINE n == h.next + 1
  <1>5. new = HubWith(h, n, b)
    BY DEF Numbered, b, HubWith
  <1>6. /\ new \in HubType /\ new.next = h.next + 1 /\ new.buffer = b
        /\ new.known /\ new.closed = h.closed
    <2>1. b \in Seq(Frames) /\ h \in HubType
      BY <1>1, <1>4
    <2> HIDE DEF n, new
    <2>2. n \in Nat \ {0}
      BY <1>0 DEF n
    <2>3. /\ HubWith(h, n, b) \in HubType /\ HubWith(h, n, b).next = n
          /\ HubWith(h, n, b).buffer = b /\ HubWith(h, n, b).known
          /\ HubWith(h, n, b).closed = h.closed
      BY <2>1, <2>2, HubIsWith
    <2> QED
      BY <2>3, <1>5 DEF n
  <1>7. Len(b) < h.next + 1
    BY <1>1, <1>4 DEF EndsWithNewest, HubType
  <1> HIDE DEF new
  <1>8. GoodHub(new)
    BY <1>4, <1>6 DEF GoodHub
  <1>9. EndsWithNewest(new)
    BY <1>1, <1>4, <1>6, <1>7 DEF EndsWithNewest, HubType
  <1> QED
    BY <1>4, <1>6, <1>8, <1>9 DEF new

\* What close leaves of an open subscriber.
LEMMA CloseEffect ==
    ASSUME NEW c, GoodConn(c), ~c.closed
    PROVE  /\ GoodConn(Close(c)) /\ Close(c).closed
           /\ \E q \in {c.queue, Append(c.queue, None)} : Close(c) = ConnClosed(c, q)
  <1>1. c \in ConnType /\ c.queue \in Queues /\ Len(c.queue) \in Nat /\ QueueLimit \in Nat
    BY LenProperties, LimitsAssumption DEF GoodConn, ConnType, Queues
  <1>2. Append(c.queue, None) \in Queues /\ Len(Append(c.queue, None)) = Len(c.queue) + 1
    BY <1>1, Appended DEF Queues
  <1>3. CASE Room(c.queue)
    <2>1. Close(c) = ConnClosed(c, Append(c.queue, None))
      BY <1>3 DEF Close, ConnClosed
    <2>2. Len(Append(c.queue, None)) <= QueueLimit
      BY <1>1, <1>2, <1>3 DEF Room
    <2> DEFINE q == Append(c.queue, None)
    <2>3. q \in Queues /\ Len(q) <= QueueLimit
      BY <1>2, <2>2
    <2> HIDE DEF q
    <2>4. Close(c) = ConnClosed(c, q)
      BY <2>1 DEF q
    <2>5. GoodConn(Close(c)) /\ Close(c).closed
      BY <2>3, <2>4, <1>1, ConnIsClosed DEF GoodConn
    <2> QED
      BY <2>1, <2>5
  <1>4. CASE ~Room(c.queue)
    <2>1. Close(c) = ConnClosed(c, c.queue)
      BY <1>4 DEF Close, ConnClosed
    <2> QED
      BY <2>1, <1>1, ConnIsClosed DEF GoodConn
  <1> QED
    BY <1>3, <1>4

\* A subscriber takes a frame, or is closed without it (StreamSubscriber.put).
LEMMA PutEffect ==
    ASSUME NEW c, GoodConn(c), ~c.closed, NEW frame \in Frames
    PROVE  /\ GoodConn(Put(c, frame))
           /\ \/ Put(c, frame) = ConnWith(c, Append(c.queue, frame))
              \/ Put(c, frame) = ConnClosed(c, c.queue)
  <1>1. c \in ConnType /\ c.queue \in Queues /\ Len(c.queue) \in Nat /\ QueueLimit \in Nat
    BY LenProperties, LimitsAssumption DEF GoodConn, ConnType, Queues
  <1>2. Append(c.queue, frame) \in Queues /\ Len(Append(c.queue, frame)) = Len(c.queue) + 1
    BY <1>1, Appended DEF Queues
  <1>3. CASE Room(c.queue)
    <2>1. Put(c, frame) = ConnWith(c, Append(c.queue, frame))
      BY <1>1, <1>3 DEF Put, ConnType, ConnWith
    <2>2. Len(Append(c.queue, frame)) <= QueueLimit
      BY <1>1, <1>2, <1>3 DEF Room
    <2> DEFINE q == Append(c.queue, frame)
    <2>3. q \in Queues /\ Len(q) <= QueueLimit
      BY <1>2, <2>2
    <2> HIDE DEF q
    <2>4. Put(c, frame) = ConnWith(c, q)
      BY <2>1 DEF q
    <2>5. GoodConn(Put(c, frame))
      BY <2>3, <2>4, <1>1, ConnIsWith DEF GoodConn
    <2> QED
      BY <2>1, <2>5
  <1>4. CASE ~Room(c.queue)
    <2>1. Put(c, frame) = ConnClosed(c, c.queue)
      BY <1>4 DEF Put, Close, ConnClosed
    <2> QED
      BY <2>1, <1>1, ConnIsClosed DEF GoodConn
  <1> QED
    BY <1>3, <1>4

\* The numbers of the events after an id, in a buffer of B events that ends below next.
LEMMA EventsAfter ==
    ASSUME NEW B \in Nat, NEW next \in Nat, NEW id \in Nat, B < next
    PROVE  \E n \in 0 .. B :
              /\ Cardinality({i \in 1 .. B : next - B + i - 1 > id}) = n
              /\ id \in (next - B - 1) .. (next - 1) => id = next - n - 1
  <1> DEFINE m == id - next + B + 1
             P == {i \in 1 .. B : next - B + i - 1 > id}
  <1> DEFINE Goal == \E n \in 0 .. B :
                        /\ Cardinality(P) = n
                        /\ id \in (next - B - 1) .. (next - 1) => id = next - n - 1
  <1>1. ASSUME m < 0 PROVE Goal
    <2>1. P = 1 .. B
      BY <1>1
    <2>2. Cardinality(1 .. B) = B
      BY FS_Interval
    <2>3. id \notin (next - B - 1) .. (next - 1)
      BY <1>1
    <2> HIDE DEF P
    <2>4. Cardinality(P) = B /\ B \in 0 .. B
      BY <2>1, <2>2
    <2> QED
      BY <2>3, <2>4
  <1>2. ASSUME m >= 0, m <= B PROVE Goal
    <2>1. P = (m + 1) .. B
      BY <1>2
    <2>2. Cardinality((m + 1) .. B) = B - m
      <3>1. m + 1 \in Int /\ B \in Int
        OBVIOUS
      <3> HIDE DEF m
      <3>2. Cardinality((m + 1) .. B) = IF m + 1 > B THEN 0 ELSE B - (m + 1) + 1
        BY <3>1, FS_Interval
      <3>3. m \in Int
        BY DEF m
      <3> QED
        BY <3>2, <3>3, <1>2
    <2>3. B - m \in 0 .. B /\ id = next - (B - m) - 1
      BY <1>2
    <2> HIDE DEF P
    <2>4. Cardinality(P) = B - m
      BY <2>1, <2>2
    <2> QED
      BY <2>3, <2>4
  <1>3. ASSUME m > B PROVE Goal
    <2>1. P = {}
      BY <1>3
    <2>2. Cardinality({}) = 0
      BY FS_EmptySet
    <2>3. id \notin (next - B - 1) .. (next - 1)
      BY <1>3
    <2> HIDE DEF P
    <2>4. Cardinality(P) = 0 /\ 0 \in 0 .. B
      BY <2>1, <2>2
    <2> QED
      BY <2>3, <2>4
  <1> QED
    <2>1. Goal
      <3> HIDE DEF Goal
      <3>1. m \in Int
        OBVIOUS
      <3> HIDE DEF m
      <3> QED
        BY <3>1, <1>1, <1>2, <1>3
    <2> QED
      BY <2>1

\* What subscribe replays is the end of the buffer, and what it resumes from is the event
\* before (RealtimeHub.replay).
LEMMA ReplayEffect ==
    ASSUME GoodHub(hub), EndsWithNewest(hub), NEW lastId \in Nat \cup {None}
    PROVE  LET q == Replay(lastId)
               last == Resume(lastId)
           IN  /\ q \in Seq(Frames) /\ Len(q) <= QueueLimit
               /\ last \in Nat \cup {None}
               /\ Follows(q, last) /\ Reaches(q, last, hub)
  <1> DEFINE b == hub.buffer
             B == Len(hub.buffer)
             last == Resume(lastId)
  <1>1. /\ hub \in HubType /\ b \in Seq(Frames) /\ B \in Nat /\ B <= ReplayLimit
        /\ hub.next \in Nat /\ B < hub.next
        /\ \A i \in 1 .. B : b[i] \in Frames /\ b[i].id = hub.next - B + i - 1
    BY LenProperties, ElementOfSeq DEF GoodHub, HubType, EndsWithNewest
  <1>2. B <= QueueLimit
    BY <1>1, LimitsAssumption
  <1>3. \E n \in 0 .. B : /\ Replay(lastId) = SubSeq(b, B - n + 1, B)
                          /\ last # None => last = hub.next - n - 1 /\ last \in Nat
    <2>1. CASE lastId = None
      <3>1. Replay(lastId) = SubSeq(b, B - B + 1, B)
        <4>1. SubSeq(b, 1, B) = b /\ B - B + 1 = 1
          BY <1>1, SubSeqFull
        <4> QED
          BY <4>1, <2>1 DEF Replay
      <3>2. last = None
        BY <2>1 DEF Resume
      <3>3. B \in 0 .. B
        BY <1>1
      <3> HIDE DEF B, b, last
      <3> QED
        BY <3>1, <3>2, <3>3
    <2>2. CASE lastId # None
      <3> DEFINE P == {i \in 1 .. B : b[i].id > lastId}
                 Q == {i \in 1 .. B : hub.next - B + i - 1 > lastId}
      <3>1. P = Q
        BY <1>1
      <3>2. lastId \in Nat
        BY <2>2
      <3>3. PICK n \in 0 .. B :
               /\ Cardinality(Q) = n
               /\ lastId \in (hub.next - B - 1) .. (hub.next - 1) => lastId = hub.next - n - 1
        BY <3>2, <1>1, EventsAfter
      <3>4. Replay(lastId) = SubSeq(b, B - Cardinality(P) + 1, B)
        BY <2>2 DEF Replay, Ending
      <3>5. last # None => last = lastId /\ lastId \in (hub.next - B - 1) .. (hub.next - 1)
        BY DEF Resume
      <3> HIDE DEF P, Q, last
      <3>6. Replay(lastId) = SubSeq(b, B - n + 1, B)
        BY <3>1, <3>3, <3>4
      <3>7. last # None => last = hub.next - n - 1 /\ last \in Nat
        BY <3>2, <3>3, <3>5
      <3> QED
        BY <3>6, <3>7
    <2> QED
      BY <2>1, <2>2
  <1>4. PICK n \in 0 .. B : /\ Replay(lastId) = SubSeq(b, B - n + 1, B)
                            /\ last # None => last = hub.next - n - 1 /\ last \in Nat
    BY <1>3
  <1> DEFINE q == SubSeq(b, B - n + 1, B)
  <1>5. /\ q \in Seq(Frames) /\ Len(q) = n
        /\ \A i \in 1 .. n : q[i] = b[B - n + i]
    <2> DEFINE m == B - n + 1
    <2>1. m \in Int /\ B \in Int /\ \A i \in m .. B : b[i] \in Frames
      BY <1>1, <1>4
    <2> HIDE DEF m, b, B
    <2>2. /\ q \in Seq(Frames)
          /\ Len(q) = IF m <= B THEN B - m + 1 ELSE 0
          /\ \A i \in 1 .. B - m + 1 : q[i] = b[m + i - 1]
      <3>1. q = SubSeq(b, m, B)
        BY DEF m
      <3> HIDE DEF q
      <3> QED
        BY <3>1, <2>1, SubSeqProperties
    <2>3. B - m + 1 = n /\ \A i \in 1 .. n : m + i - 1 = B - n + i
      BY <1>1, <1>4 DEF m
    <2>4. Len(q) = n
      BY <2>2, <2>3, <1>1, <1>4 DEF m
    <2> QED
      BY <2>2, <2>3, <2>4
  <1> HIDE DEF q
  <1>6. \A i \in 1 .. n : q[i] \in Frames /\ q[i].id = hub.next - n + i - 1
    <2> TAKE i \in 1 .. n
    <2>1. B - n + i \in 1 .. B
      BY <1>1, <1>4
    <2>2. q[i] = b[B - n + i] /\ b[B - n + i] \in Frames
      BY <2>1, <1>1, <1>5
    <2>3. b[B - n + i].id = hub.next - B + (B - n + i) - 1
      BY <2>1, <1>1
    <2>4. hub.next - B + (B - n + i) - 1 = hub.next - n + i - 1
      BY <1>1, <1>4
    <2> QED
      BY <2>2, <2>3, <2>4
  <1>7. q = <<>> <=> n = 0
    BY <1>5, EmptySeq
  <1> HIDE DEF last
  <1>8. Follows(q, last)
    <2>1. ASSUME NEW i \in 1 .. n
          PROVE  q[i] # None /\ (i > 1 => q[i].id = q[i - 1].id + 1)
      <3>1. i > 1 => i - 1 \in 1 .. n
        BY <1>4
      <3> QED
        BY <3>1, <1>6, <1>1, <1>4, FramesAreMarked
    <2>2. q # <<>> /\ last # None => q[1].id = last + 1
      BY <1>4, <1>6, <1>7, <1>1
    <2> QED
      BY <2>1, <2>2, <1>5 DEF Follows
  <1>9. Reaches(q, last, hub)
    <2>1. q # <<>> => q[Len(q)] = b[B] /\ B >= 1
      BY <1>1, <1>4, <1>5, <1>7
    <2>2. B >= 1 => b # <<>>
      BY <1>1, EmptySeq
    <2>3. q = <<>> /\ last # None => last = hub.next - 1
      BY <1>1, <1>4, <1>7
    <2> QED
      BY <2>1, <2>2, <2>3 DEF Reaches
  <1> QED
    BY <1>2, <1>1, <1>4, <1>5, <1>8, <1>9, LimitsAssumption DEF q, last

\* The type invariant after a step, from its parts.
LEMMA TypesAgain ==
    ASSUME value' \in Nat, pending' \in [Publishers -> Nat \cup {None}], running' \in BOOLEAN,
           GoodHub(hub'), conn' = [k \in Connections |-> conn'[k]],
           \A k \in Connections : GoodConn(conn'[k]),
           client' \in [Clients -> ClientType], signedIn' \subseteq Clients, faults' \in Nat
    PROVE  TypeOK'
  <1>1. conn' \in [Connections -> ConnType]
    BY DEF GoodConn
  <1> QED
    BY <1>1 DEF TypeOK, GoodHub, GoodConn, HubType, ConnType, ClientType, Queues

\* A free connection is in order, whatever the hub is.
LEMMA FreeIsGood ==
    /\ GoodConn(Free) /\ \A h : Subscriber(Free, h)
    /\ Free.stage = "free" /\ ~Free.listed /\ Free.queue = <<>>
  <1>1. <<>> \in Queues /\ Len(<<>>) = 0
    BY EmptySeq DEF Queues
  <1>2. GoodConn(Free)
    BY <1>1, LimitsAssumption DEF Free, GoodConn, ConnType, Stages
  <1>3. /\ Free.queue = <<>> /\ ~Free.listed /\ Free.stage = "free" /\ Free.last = None
    BY DEF Free
  <1>4. ASSUME NEW h PROVE Subscriber(Free, h)
    BY <1>1, <1>3 DEF Subscriber, Follows
  <1> QED
    BY <1>2, <1>3, <1>4

\* So is a new hub.
LEMMA FreshIsGood ==
    GoodHub(FreshHub) /\ EndsWithNewest(FreshHub)
  <1>1. <<>> \in Seq(Frames) /\ Len(<<>>) = 0
    BY EmptySeq
  <1> QED
    BY <1>1, LimitsAssumption DEF FreshHub, GoodHub, HubType, EndsWithNewest

-----------------------------------------------------------------------------
(* Publications and the shutdown. *)

\* The numbered frame that comes after a queue that reaches the last event continues it.
LEMMA NextFrameFollows ==
    ASSUME NEW c, GoodConn(c), NEW h, GoodHub(h), EndsWithNewest(h), Subscriber(c, h), c.listed,
           NEW frame \in Frames, frame.id = h.next
    PROVE  /\ ~c.closed
           /\ Append(c.queue, frame) \in Queues
           /\ Follows(Append(c.queue, frame), c.last)
           /\ \A i \in 1 .. Len(Append(c.queue, frame)) : Append(c.queue, frame)[i] # None
           /\ Append(c.queue, frame) # <<>>
           /\ Append(c.queue, frame)[Len(Append(c.queue, frame))] = frame
  <1> DEFINE q == c.queue
             new == Append(q, frame)
  <1>1. q \in Queues /\ Len(q) \in Nat /\ h \in HubType /\ h.buffer \in Seq(Frames)
    BY LenProperties DEF GoodConn, ConnType, GoodHub, HubType, Queues
  <1>2. /\ ~c.closed /\ Follows(q, c.last) /\ Reaches(q, c.last, h)
        /\ \A i \in 1 .. Len(q) : q[i] # None
    BY DEF Subscriber
  <1>3. h.next \in Nat /\ Len(h.buffer) \in Nat
    BY <1>1, LenProperties DEF HubType
  <1>4. q # <<>> => q[Len(q)].id = h.next - 1
    <2> SUFFICES ASSUME q # <<>> PROVE q[Len(q)].id = h.next - 1
      OBVIOUS
    <2>1. q[Len(q)] = h.buffer[Len(h.buffer)] /\ h.buffer # <<>>
      BY <1>2 DEF Reaches
    <2>2. Len(h.buffer) \in 1 .. Len(h.buffer)
      BY <2>1, <1>1, EmptySeq
    <2>3. h.buffer[Len(h.buffer)].id = h.next - Len(h.buffer) + Len(h.buffer) - 1
      BY <2>2 DEF EndsWithNewest
    <2> QED
      BY <2>1, <2>3, <1>3
  <1>5. q # <<>> => frame.id = q[Len(q)].id + 1
    BY <1>4, <1>3
  <1>6. q = <<>> /\ c.last # None => frame.id = c.last + 1
    BY <1>2, <1>3 DEF Reaches
  <1>7. Follows(new, c.last)
    BY <1>1, <1>2, <1>5, <1>6, FollowsOn
  <1>8. /\ new \in Queues /\ Len(new) = Len(q) + 1 /\ new # <<>> /\ new[Len(q) + 1] = frame
        /\ \A i \in 1 .. Len(q) : new[i] = q[i]
    BY <1>1, Appended DEF Queues
  <1>9. \A i \in 1 .. Len(new) : new[i] # None
    <2> TAKE i \in 1 .. Len(new)
    <2>1. i \in 1 .. Len(q) \/ i = Len(q) + 1
      BY <1>1, <1>8
    <2> QED
      BY <2>1, <1>2, <1>8, FramesAreMarked
  <1> QED
    BY <1>2, <1>7, <1>8, <1>9

\* What publish does to a listed subscriber: it takes the frame and stays listed, or is
\* closed and dropped.
LEMMA PublishedTo ==
    ASSUME NEW c, GoodConn(c), NEW h, GoodHub(h), EndsWithNewest(h), Subscriber(c, h), c.listed,
           NEW frame \in Frames, frame.id = h.next,
           NEW d, d = LET e == Put(c, frame) IN [e EXCEPT !.listed = ~e.closed]
    PROVE  /\ GoodConn(d) /\ Subscriber(d, Numbered(h, frame))
           /\ d.listed => d.queue # <<>>
           /\ Len(c.queue) <= Len(d.queue)
  <1> DEFINE q == c.queue
             new == Append(q, frame)
             g == Numbered(h, frame)
             e == Put(c, frame)
  <1>1. /\ ~c.closed /\ new \in Queues /\ Follows(new, c.last)
        /\ \A i \in 1 .. Len(new) : new[i] # None
        /\ new # <<>> /\ new[Len(new)] = frame
    BY NextFrameFollows
  <1>2. c \in ConnType /\ q \in Queues /\ Len(q) \in Nat /\ Len(new) = Len(q) + 1
    BY LenProperties, Appended DEF GoodConn, ConnType, Queues
  <1>3. /\ g.known /\ g.buffer # <<>> /\ g.buffer[Len(g.buffer)] = frame
    BY NumberedHub
  <1>4. GoodConn(e) /\ (e = ConnWith(c, new) \/ e = ConnClosed(c, q))
    BY <1>1, PutEffect
  <1>5. Follows(q, c.last)
    BY DEF Subscriber
  <1>6. d = [e EXCEPT !.listed = ~e.closed]
    OBVIOUS
  <1> HIDE DEF new, q, g, e
  <1>7. e \in ConnType /\ e.closed \in BOOLEAN /\ Len(e.queue) <= QueueLimit
    BY <1>4 DEF GoodConn, ConnType
  <1>8. /\ d \in ConnType /\ d.queue = e.queue /\ d.last = e.last /\ d.closed = e.closed
        /\ d.listed = ~e.closed
    BY <1>6, <1>7 DEF ConnType
  <1>9. GoodConn(d)
    BY <1>7, <1>8 DEF GoodConn
  <1>10. CASE e = ConnWith(c, new)
    <2>1. e.queue = new /\ e.last = c.last /\ ~e.closed
      BY <1>10, <1>1, <1>2, ConnIsWith
    <2>2. d.queue = new /\ d.last = c.last /\ ~d.closed
      BY <2>1, <1>8
    <2>3. Reaches(new, c.last, g)
      BY <1>1, <1>3 DEF Reaches
    <2>4. Subscriber(d, g)
      BY <2>2, <2>3, <1>1, <1>3 DEF Subscriber
    <2> QED
      BY <2>2, <2>4, <1>1, <1>2, <1>9 DEF g, q
  <1>11. CASE e = ConnClosed(c, q)
    <2>1. e.queue = q /\ e.last = c.last /\ e.closed
      BY <1>11, <1>2, ConnIsClosed
    <2>2. d.queue = q /\ d.last = c.last /\ d.closed /\ ~d.listed
      BY <2>1, <1>8
    <2>3. Subscriber(d, g)
      BY <2>2, <1>5 DEF Subscriber
    <2> QED
      BY <2>2, <2>3, <1>2, <1>9 DEF g, q
  <1> QED
    BY <1>4, <1>10, <1>11

\* What shutdown does to a listed subscriber.
LEMMA ShutDownTo ==
    ASSUME NEW c, GoodConn(c), NEW h, GoodHub(h), EndsWithNewest(h), Subscriber(c, h), c.listed,
           NEW frame \in Frames, frame.id = h.next,
           NEW d, d = [Close(Put(c, frame)) EXCEPT !.listed = FALSE], NEW g
    PROVE  /\ GoodConn(d) /\ Subscriber(d, g) /\ ~d.listed
           /\ Len(c.queue) <= Len(d.queue)
  <1> DEFINE q == c.queue
             new == Append(q, frame)
             e == Put(c, frame)
             f == Close(e)
  <1>1. /\ ~c.closed /\ new \in Queues /\ Follows(new, c.last)
        /\ \A i \in 1 .. Len(new) : new[i] # None
    BY NextFrameFollows
  <1>2. c \in ConnType /\ q \in Queues /\ Len(q) \in Nat /\ Len(new) = Len(q) + 1
    BY LenProperties, Appended DEF GoodConn, ConnType, Queues
  <1>3. GoodConn(e) /\ (e = ConnWith(c, new) \/ e = ConnClosed(c, q))
    BY <1>1, PutEffect
  <1>4. Follows(q, c.last)
    BY DEF Subscriber
  <1>5. GoodConn(f) /\ f.closed /\ Follows(f.queue, f.last) /\ Len(q) <= Len(f.queue)
    <2> HIDE DEF e, f, new, q
    <2>1. CASE e = ConnWith(c, new)
      <3>1. e.queue = new /\ e.last = c.last /\ ~e.closed /\ e \in ConnType
        BY <2>1, <1>1, <1>2, ConnIsWith
      <3>2. /\ GoodConn(f) /\ f.closed
            /\ \E x \in {e.queue, Append(e.queue, None)} : f = ConnClosed(e, x)
        BY <3>1, <1>3, CloseEffect DEF f
      <3>3. Append(new, None) \in Queues /\ Len(Append(new, None)) = Len(new) + 1
        BY <1>1, Appended DEF Queues
      <3>4. Follows(Append(new, None), c.last)
        BY <1>1, FollowsOn
      <3> DEFINE more == Append(new, None)
      <3> HIDE DEF more
      <3>5. CASE f = ConnClosed(e, new)
        BY <3>1, <3>2, <3>5, <1>1, <1>2, ConnIsClosed
      <3>6. CASE f = ConnClosed(e, more)
        <4>1. f.queue = more /\ f.last = c.last
          BY <3>1, <3>3, <3>6, ConnIsClosed DEF more
        <4> QED
          BY <4>1, <3>2, <3>3, <3>4, <1>2 DEF more
      <3> QED
        BY <3>1, <3>2, <3>5, <3>6 DEF more
    <2>2. CASE e = ConnClosed(c, q)
      <3>1. e.queue = q /\ e.last = c.last /\ e.closed
        BY <2>2, <1>2, ConnIsClosed
      <3>2. f = e
        BY <3>1 DEF f, Close
      <3> QED
        BY <3>1, <3>2, <1>2, <1>3, <1>4
    <2> QED
      BY <2>1, <2>2, <1>3
  <1>6. d = [f EXCEPT !.listed = FALSE]
    OBVIOUS
  <1> HIDE DEF f, q, e, new
  <1>7. f \in ConnType /\ Len(f.queue) <= QueueLimit
    BY <1>5 DEF GoodConn
  <1>8. d \in ConnType /\ d.queue = f.queue /\ d.last = f.last /\ d.closed = f.closed /\ ~d.listed
    BY <1>6, <1>7 DEF ConnType
  <1> QED
    BY <1>5, <1>7, <1>8 DEF GoodConn, Subscriber, q

-----------------------------------------------------------------------------
(* Steps that publish nothing. *)

\* A connection is freed, or its subscriber, its stage and what its clients show stay.
Undisturbed(k) ==
    \/ conn'[k] = Free
    \/ /\ GoodConn(conn'[k])
       /\ conn'[k].queue = conn[k].queue /\ conn'[k].last = conn[k].last
       /\ conn'[k].closed = conn[k].closed /\ conn'[k].listed = conn[k].listed
       /\ \/ conn'[k].stage = "abandoned"
          \/ /\ conn'[k].stage = conn[k].stage /\ conn'[k].snapshot = conn[k].snapshot
             /\ \A c \in Clients : client'[c].on = k =>
                   client[c].on = k /\ client'[c].view = client[c].view

\* A connection that is left alone is undisturbed when its clients are.
LEMMA LeftAlone ==
    ASSUME TypeOK, NEW k \in Connections, conn'[k] = conn[k],
           \A c \in Clients : client'[c].on = k =>
               client[c].on = k /\ client'[c].view = client[c].view
    PROVE  Undisturbed(k)
BY TypeParts DEF Undisturbed

\* A subscriber stays in order when it is undisturbed.
LEMMA UndisturbedStays ==
    ASSUME Inv, NEW k \in Connections, Undisturbed(k),
           hub'.buffer = hub.buffer, hub'.next = hub.next, hub.known => hub'.known,
           value' = value, pending' = pending
    PROVE  GoodConn(conn'[k]) /\ Subscriber(conn'[k], hub') /\ Shown(k)'
  <1>1. Subscriber(conn[k], hub) /\ Shown(k)
    BY DEF Inv
  <1>2. CASE conn'[k] = Free
    <2>1. Shown(k)'
      BY <1>2, FreeIsGood DEF Shown
    <2> QED
      BY <2>1, <1>2, FreeIsGood
  <1>3. CASE conn'[k] # Free
    <2>1. Subscriber(conn'[k], hub')
      <3> DEFINE c == conn[k]
                 d == conn'[k]
      <3>1. /\ d.queue = c.queue /\ d.last = c.last /\ d.closed = c.closed
            /\ d.listed = c.listed
        BY <1>3 DEF Undisturbed
      <3> HIDE DEF c, d
      <3>2. Subscriber(c, hub)
        BY <1>1 DEF c
      <3>3. Subscriber(d, hub')
        BY <3>1, <3>2 DEF Subscriber, Reaches
      <3> QED
        BY <3>3 DEF d
    <2>2. Shown(k)'
      BY <1>1, <1>3 DEF Undisturbed, Shown, Fresh
    <2> QED
      BY <2>1, <2>2, <1>3 DEF Undisturbed
  <1> QED
    BY <1>2, <1>3

\* A step that disturbs no subscriber and tells the hub nothing keeps the invariant.
LEMMA QuietStep ==
    ASSUME Inv, UNCHANGED <<value, pending, hub>>, running' \in BOOLEAN,
           conn' = [k \in Connections |-> conn'[k]], \A k \in Connections : Undisturbed(k),
           client' \in [Clients -> ClientType], signedIn' \subseteq Clients, faults' \in Nat
    PROVE  Inv'
  <1>1. \A k \in Connections : GoodConn(conn'[k]) /\ Subscriber(conn'[k], hub') /\ Shown(k)'
    BY UndisturbedStays
  <1>2. value \in Nat /\ pending \in [Publishers -> Nat \cup {None}] /\ GoodHub(hub)
    BY TypeParts DEF Inv
  <1>3. TypeOK'
    BY <1>1, <1>2, TypesAgain
  <1>4. EndsWithNewest(hub')
    BY DEF Inv
  <1> QED
    BY <1>1, <1>3, <1>4 DEF Inv

\* A client that has lost its connection, in some mode.
Parted(c, mode) == [c EXCEPT !.mode = mode, !.on = None]

\* It is still a client.
LEMMA PartedIsClient ==
    ASSUME NEW c \in ClientType, NEW mode \in Modes
    PROVE  Parted(c, mode) \in ClientType /\ Parted(c, mode).on = None
BY DEF ClientType, Parted

\* What clients are when those of a connection have lost it.
LEMMA ClientsParted ==
    ASSUME client \in [Clients -> ClientType], NEW k, NEW mode \in Modes,
           client' = [c \in Clients |-> IF c \in Owners(k) THEN Parted(client[c], mode)
                                       ELSE client[c]]
    PROVE  /\ client' \in [Clients -> ClientType]
           /\ \A c \in Clients : client'[c].on = None \/ client'[c] = client[c]
  <1>2. ASSUME NEW c \in Clients
        PROVE  client'[c] \in ClientType /\ (client'[c].on = None \/ client'[c] = client[c])
    <2>1. client[c] \in ClientType
      OBVIOUS
    <2>2. client'[c] = Parted(client[c], mode) \/ client'[c] = client[c]
      OBVIOUS
    <2> QED
      BY <2>1, <2>2, PartedIsClient
  <1> QED
    BY <1>2

\* The end of a stream frees its connection and parts its clients from it (_subscribe).
LEMMA EndIsQuiet ==
    ASSUME Inv, NEW k \in Connections, NEW mode \in Modes, End(k, mode),
           UNCHANGED <<value, pending, running, hub, signedIn, faults>>
    PROVE  Inv'
  <1>1. TypeOK /\ None \notin Connections
    BY FramesAreMarked DEF Inv
  <1>2. /\ conn \in [Connections -> ConnType] /\ client \in [Clients -> ClientType]
        /\ running \in BOOLEAN /\ signedIn \subseteq Clients /\ faults \in Nat
    BY <1>1, TypeParts
  <1>3. conn' = [conn EXCEPT ![k] = Free]
    BY Zenon DEF End
  <1>4. client' = [c \in Clients |-> IF c \in Owners(k) THEN Parted(client[c], mode)
                                    ELSE client[c]]
    BY Zenon DEF End, Parted
  <1>5. /\ client' \in [Clients -> ClientType]
        /\ \A c \in Clients : client'[c].on = None \/ client'[c] = client[c]
    BY <1>2, <1>4, ClientsParted
  <1>6. \A j \in Connections : Undisturbed(j)
    <2> TAKE j \in Connections
    <2>1. CASE j = k
      BY <2>1, <1>2, <1>3 DEF Undisturbed
    <2>2. CASE j # k
      <3>1. conn'[j] = conn[j]
        BY <2>2, <1>2, <1>3
      <3>2. \A c \in Clients : client'[c].on = j =>
                client[c].on = j /\ client'[c].view = client[c].view
        BY <1>1, <1>5
      <3> QED
        BY <1>1, <3>1, <3>2, LeftAlone
    <2> QED
      BY <2>1, <2>2
  <1>7. conn' = [j \in Connections |-> conn'[j]]
    BY <1>2, <1>3
  <1> QED
    BY <1>2, <1>5, <1>6, <1>7, QuietStep

\* What a client, a session or the network does to itself disturbs no subscriber.
LEMMA ClientStep ==
    ASSUME Inv, NEW c \in Clients,
           Open(c) \/ Refuse(c) \/ LoseConnection(c) \/ Expire(c) \/ SignIn(c)
    PROVE  Inv'
  <1>1. TypeOK /\ None \notin Connections
    BY FramesAreMarked DEF Inv
  <1>2. /\ conn \in [Connections -> ConnType] /\ client \in [Clients -> ClientType]
        /\ running \in BOOLEAN /\ signedIn \subseteq Clients /\ faults \in Nat
        /\ \A k \in Connections : GoodConn(conn[k])
    BY <1>1, TypeParts
  <1>3. /\ UNCHANGED <<value, pending, hub, running>> /\ faults' \in Nat
        /\ signedIn' \subseteq Clients
    BY <1>2 DEF Open, Refuse, LoseConnection, Expire, SignIn, Fault
  <1>4. client' \in [Clients -> ClientType]
    BY <1>2 DEF Open, Refuse, LoseConnection, Expire, SignIn, ClientType, Modes
  <1>5. \A b \in Clients :
            \/ client'[b].on = None
            \/ client'[b].on = client[b].on /\ client'[b].view = client[b].view
    BY <1>2 DEF Open, Refuse, LoseConnection, Expire, SignIn, ClientType
  <1>6. CASE conn' = conn
    <2>1. \A k \in Connections : Undisturbed(k)
      BY <1>1, <1>5, <1>6, LeftAlone
    <2>2. conn' = [k \in Connections |-> conn'[k]]
      BY <1>2, <1>6
    <2> QED
      BY <1>2, <1>3, <1>4, <2>1, <2>2, QuietStep
  <1>7. CASE Expire(c)
    <2>1. conn' = [k \in Connections |->
                      IF client[c].on = k THEN [conn[k] EXCEPT !.authorized = FALSE] ELSE conn[k]]
      BY <1>7 DEF Expire
    <2>2. ASSUME NEW k \in Connections PROVE Undisturbed(k)
      <3> DEFINE d == [conn[k] EXCEPT !.authorized = FALSE]
      <3>1. /\ d \in ConnType /\ d.queue = conn[k].queue /\ d.last = conn[k].last
            /\ d.closed = conn[k].closed /\ d.listed = conn[k].listed
            /\ d.stage = conn[k].stage /\ d.snapshot = conn[k].snapshot
        BY <1>2 DEF ConnType
      <3> HIDE DEF d
      <3>2. GoodConn(d)
        BY <3>1, <1>2 DEF GoodConn
      <3>3. conn'[k] = d \/ conn'[k] = conn[k]
        BY <2>1 DEF d
      <3>4. \A b \in Clients : client'[b].on = k =>
                client[b].on = k /\ client'[b].view = client[b].view
        BY <1>1, <1>5
      <3> QED
        BY <3>1, <3>2, <3>3, <3>4, <1>2 DEF Undisturbed
    <2>3. conn' = [k \in Connections |-> conn'[k]]
      BY <2>1
    <2> QED
      BY <1>2, <1>3, <1>4, <2>2, <2>3, QuietStep
  <1> QED
    BY <1>6, <1>7 DEF Open, Refuse, LoseConnection, SignIn

\* A generator whose snapshot fails leaves its subscriber listed (_subscribe).
LEMMA FailSnapshotStep ==
    ASSUME Inv, NEW k \in Connections, FailSnapshot(k)
    PROVE  Inv'
  <1>1. TypeOK /\ None \notin Connections
    BY FramesAreMarked DEF Inv
  <1>2. /\ conn \in [Connections -> ConnType] /\ client \in [Clients -> ClientType]
        /\ running \in BOOLEAN /\ signedIn \subseteq Clients /\ faults \in Nat
        /\ \A j \in Connections : GoodConn(conn[j])
    BY <1>1, TypeParts
  <1>3. /\ value' = value /\ pending' = pending /\ hub' = hub /\ running' = running
        /\ signedIn' = signedIn /\ faults' = faults + 1
        /\ conn' = [conn EXCEPT ![k].stage = "abandoned"]
    BY Zenon DEF FailSnapshot, Fault
  <1>4. client' = [c \in Clients |-> IF c \in Owners(k) THEN Parted(client[c], "failed")
                                    ELSE client[c]]
    BY Zenon DEF FailSnapshot, Parted
  <1>5. /\ client' \in [Clients -> ClientType]
        /\ \A c \in Clients : client'[c].on = None \/ client'[c] = client[c]
    BY <1>2, <1>4, ClientsParted DEF Modes
  <1>6. ASSUME NEW j \in Connections PROVE Undisturbed(j)
    <2>1. CASE j # k
      <3>1. conn'[j] = conn[j]
        BY <2>1, <1>2, <1>3
      <3>2. \A c \in Clients : client'[c].on = j =>
                client[c].on = j /\ client'[c].view = client[c].view
        BY <1>1, <1>5
      <3> QED
        BY <1>1, <3>1, <3>2, LeftAlone
    <2>2. CASE j = k
      <3> DEFINE d == [conn[k] EXCEPT !.stage = "abandoned"]
      <3>1. /\ d \in ConnType /\ d.queue = conn[k].queue /\ d.last = conn[k].last
            /\ d.closed = conn[k].closed /\ d.listed = conn[k].listed
            /\ d.stage = "abandoned"
        BY <1>2 DEF ConnType, Stages
      <3>2. conn'[k] = d
        BY <1>2, <1>3
      <3> HIDE DEF d
      <3>3. GoodConn(d)
        BY <3>1, <1>2 DEF GoodConn
      <3> QED
        BY <3>1, <3>2, <3>3, <2>2 DEF Undisturbed
    <2> QED
      BY <2>1, <2>2
  <1>7. conn' = [j \in Connections |-> conn'[j]]
    BY <1>2, <1>3
  <1> QED
    BY <1>2, <1>3, <1>5, <1>6, <1>7, QuietStep

\* A restart tells nobody anything.
LEMMA RestartStep ==
    ASSUME Inv, Restart
    PROVE  Inv'
  <1>1. TypeOK
    BY DEF Inv
  <1>2. /\ conn \in [Connections -> ConnType] /\ client \in [Clients -> ClientType]
        /\ signedIn \subseteq Clients /\ faults \in Nat
    BY <1>1, TypeParts
  <1>3. /\ UNCHANGED <<value, pending, hub, conn, client, signedIn, faults>>
        /\ running' \in BOOLEAN
    BY DEF Restart
  <1>4. \A k \in Connections : Undisturbed(k)
    BY <1>1, <1>3, LeftAlone
  <1> QED
    BY <1>2, <1>3, <1>4, QuietStep

-----------------------------------------------------------------------------
(* Commits, publications and the ends of the hub. *)

\* A change that is committed is pending, so nothing read before is late unnoticed.
LEMMA CommitStep ==
    ASSUME Inv, NEW p \in Publishers, Commit(p)
    PROVE  Inv'
  <1>1. TypeOK /\ None \notin Connections
    BY FramesAreMarked DEF Inv
  <1>2. /\ value \in Nat /\ pending \in [Publishers -> Nat \cup {None}]
        /\ conn \in [Connections -> ConnType] /\ client \in [Clients -> ClientType]
        /\ running \in BOOLEAN /\ signedIn \subseteq Clients /\ faults \in Nat /\ GoodHub(hub)
        /\ \A j \in Connections : GoodConn(conn[j])
    BY <1>1, TypeParts
  <1>3. /\ UNCHANGED <<running, hub, conn, client, signedIn, faults>>
        /\ value' = value + 1 /\ pending' = [pending EXCEPT ![p] = value + 1]
    BY DEF Commit
  <1>4. TypeOK'
    BY <1>2, <1>3, TypesAgain
  <1>5. pending'[p] = value'
    BY <1>2, <1>3
  <1>6. \A snapshot : Fresh(snapshot)'
    BY <1>5 DEF Fresh
  <1>7. EndsWithNewest(hub') /\ \A k \in Connections : Subscriber(conn'[k], hub')
    BY <1>3 DEF Inv
  <1>8. ASSUME NEW k \in Connections PROVE Shown(k)'
    <2>1. Shown(k)
      BY DEF Inv
    <2> QED
      BY <2>1, <1>3, <1>6 DEF Shown
  <1> QED
    BY <1>4, <1>7, <1>8 DEF Inv

\* A published event reaches every listed subscriber, or unlists it.
LEMMA PublishStep ==
    ASSUME Inv, NEW p \in Publishers, Publish(p)
    PROVE  Inv'
  <1> DEFINE frame == [id |-> hub.next, val |-> pending[p], final |-> FALSE]
  <1>1. TypeOK
    BY DEF Inv
  <1>2. /\ value \in Nat /\ pending \in [Publishers -> Nat \cup {None}]
        /\ conn \in [Connections -> ConnType] /\ client \in [Clients -> ClientType]
        /\ running \in BOOLEAN /\ signedIn \subseteq Clients /\ faults \in Nat /\ GoodHub(hub)
        /\ \A j \in Connections : GoodConn(conn[j])
    BY <1>1, TypeParts
  <1>3. /\ value' = value /\ running' = running /\ client' = client /\ signedIn' = signedIn
        /\ faults' = faults /\ pending[p] # None
        /\ pending' = [pending EXCEPT ![p] = None]
        /\ hub' = Numbered(hub, frame)
    BY Zenon DEF Publish
  <1>4. conn' = [k \in Connections |->
                      IF conn[k].listed
                      THEN LET c == Put(conn[k], frame) IN [c EXCEPT !.listed = ~c.closed]
                      ELSE conn[k]]
    BY Zenon DEF Publish
  <1>5. frame \in Frames /\ frame.id = hub.next
    BY <1>2, <1>3 DEF Frames, GoodHub, HubType
  <1>6. EndsWithNewest(hub) /\ \A k \in Connections : Subscriber(conn[k], hub)
    BY DEF Inv
  <1> HIDE DEF frame
  <1>7. GoodHub(hub') /\ EndsWithNewest(hub')
    BY <1>2, <1>3, <1>5, <1>6, NumberedHub
  <1>8. ASSUME NEW k \in Connections
        PROVE  /\ GoodConn(conn'[k]) /\ Subscriber(conn'[k], hub')
               /\ conn'[k].listed => conn'[k].queue # <<>>
    <2>1. CASE conn[k].listed
      <3>1. conn'[k] = LET c == Put(conn[k], frame) IN [c EXCEPT !.listed = ~c.closed]
        BY <2>1, <1>4
      <3> QED
        BY <2>1, <3>1, <1>2, <1>3, <1>5, <1>6, PublishedTo
    <2>2. CASE ~conn[k].listed
      <3>1. conn'[k] = conn[k]
        BY <2>2, <1>4
      <3>2. Subscriber(conn'[k], hub')
        BY <2>2, <3>1, <1>6 DEF Subscriber
      <3> QED
        BY <2>2, <3>1, <3>2, <1>2
    <2> QED
      BY <2>1, <2>2
  <1>9. conn' = [k \in Connections |-> conn'[k]]
    BY <1>4
  <1>10. TypeOK'
    <2>1. pending' \in [Publishers -> Nat \cup {None}]
      BY <1>2, <1>3
    <2> QED
      BY <2>1, <1>2, <1>3, <1>7, <1>8, <1>9, TypesAgain
  <1>11. \A k \in Connections : Shown(k)'
    BY <1>8 DEF Shown
  <1> QED
    BY <1>7, <1>8, <1>10, <1>11 DEF Inv

\* After a shutdown nobody is listed.
LEMMA ShutDownStep ==
    ASSUME Inv, ShutDown
    PROVE  Inv'
  <1> DEFINE frame == [id |-> hub.next, val |-> value, final |-> TRUE]
             h == IF hub.known THEN Numbered(hub, frame) ELSE hub
  <1>1. TypeOK
    BY DEF Inv
  <1>2. /\ value \in Nat /\ pending \in [Publishers -> Nat \cup {None}]
        /\ conn \in [Connections -> ConnType] /\ client \in [Clients -> ClientType]
        /\ running \in BOOLEAN /\ signedIn \subseteq Clients /\ faults \in Nat /\ GoodHub(hub)
        /\ \A j \in Connections : GoodConn(conn[j])
    BY <1>1, TypeParts
  <1>3. /\ value' = value /\ pending' = pending /\ running' = running /\ client' = client
        /\ signedIn' = signedIn /\ faults' = faults + 1
        /\ hub' = [h EXCEPT !.closed = TRUE]
    BY Zenon DEF ShutDown, Fault
  <1>4. conn' = [k \in Connections |->
                      IF conn[k].listed
                      THEN [Close(Put(conn[k], frame)) EXCEPT !.listed = FALSE]
                      ELSE conn[k]]
    BY Zenon DEF ShutDown
  <1>5. frame \in Frames /\ frame.id = hub.next
    BY <1>2 DEF Frames, GoodHub, HubType
  <1>6. EndsWithNewest(hub) /\ \A k \in Connections : Subscriber(conn[k], hub)
    BY DEF Inv
  <1>7. GoodHub(h) /\ EndsWithNewest(h)
    <2> HIDE DEF frame
    <2>1. GoodHub(Numbered(hub, frame)) /\ EndsWithNewest(Numbered(hub, frame))
      BY <1>2, <1>5, <1>6, NumberedHub
    <2> QED
      BY <2>1, <1>2, <1>6
  <1> HIDE DEF frame, h
  <1>8. GoodHub(hub') /\ EndsWithNewest(hub')
    <2> DEFINE g == [h EXCEPT !.closed = TRUE]
    <2>1. g \in HubType /\ g.next = h.next /\ g.buffer = h.buffer
      BY <1>7 DEF GoodHub, HubType
    <2> HIDE DEF g
    <2>2. GoodHub(g) /\ EndsWithNewest(g)
      BY <2>1, <1>7 DEF GoodHub, EndsWithNewest
    <2> QED
      BY <2>2, <1>3 DEF g
  <1>9. ASSUME NEW k \in Connections
        PROVE  GoodConn(conn'[k]) /\ Subscriber(conn'[k], hub') /\ ~conn'[k].listed
    <2>1. CASE conn[k].listed
      <3>1. conn'[k] = [Close(Put(conn[k], frame)) EXCEPT !.listed = FALSE]
        BY <2>1, <1>4
      <3> QED
        BY <2>1, <3>1, <1>2, <1>5, <1>6, ShutDownTo
    <2>2. CASE ~conn[k].listed
      <3>1. conn'[k] = conn[k]
        BY <2>2, <1>4
      <3>2. Subscriber(conn'[k], hub')
        BY <2>2, <3>1, <1>6 DEF Subscriber
      <3> QED
        BY <2>2, <3>1, <3>2, <1>2
    <2> QED
      BY <2>1, <2>2
  <1>10. conn' = [k \in Connections |-> conn'[k]]
    BY <1>4
  <1>11. TypeOK'
    BY <1>2, <1>3, <1>8, <1>9, <1>10, TypesAgain
  <1>12. \A k \in Connections : Shown(k)'
    BY <1>9 DEF Shown
  <1> QED
    BY <1>8, <1>9, <1>11, <1>12 DEF Inv

\* The end of the process frees every connection and starts the hub anew.
LEMMA ExitStep ==
    ASSUME Inv, Exit
    PROVE  Inv'
  <1>1. TypeOK
    BY DEF Inv
  <1>2. /\ value \in Nat /\ client \in [Clients -> ClientType]
        /\ signedIn \subseteq Clients /\ faults \in Nat
    BY <1>1, TypeParts
  <1>3. /\ value' = value /\ running' = FALSE /\ signedIn' = signedIn /\ faults' = faults + 1
        /\ pending' = [q \in Publishers |-> None]
        /\ hub' = FreshHub /\ conn' = [k \in Connections |-> Free]
    BY Zenon DEF Exit, Fault
  <1>4. client' = [c \in Clients |-> IF client[c].on # None THEN Parted(client[c], "waiting")
                                    ELSE client[c]]
    BY Zenon DEF Exit, Parted
  <1>5. client' \in [Clients -> ClientType]
    <2>1. ASSUME NEW c \in Clients PROVE client'[c] \in ClientType
      <3>1. client[c] \in ClientType
        BY <1>2
      <3>2. Parted(client[c], "waiting") \in ClientType
        BY <3>1, PartedIsClient DEF Modes
      <3> QED
        BY <3>1, <3>2, <1>4
    <2> QED
      BY <2>1, <1>4
  <1>6. GoodHub(hub') /\ EndsWithNewest(hub')
    BY <1>3, FreshIsGood
  <1>7. \A k \in Connections :
            /\ GoodConn(conn'[k]) /\ Subscriber(conn'[k], hub') /\ ~conn'[k].listed
    BY <1>3, FreeIsGood
  <1>8. TypeOK'
    <2>1. conn' = [k \in Connections |-> conn'[k]]
      BY <1>3
    <2>2. pending' \in [Publishers -> Nat \cup {None}]
      BY <1>3, Zenon
    <2>3. running' \in BOOLEAN /\ value' \in Nat /\ signedIn' \subseteq Clients
      BY <1>2, <1>3, Zenon
    <2>4. faults' \in Nat
      <3>1. faults' = faults + 1
        BY <1>3
      <3> QED
        BY <3>1, <1>2
    <2> QED
      BY <2>1, <2>2, <2>3, <2>4, <1>5, <1>6, <1>7, TypesAgain
  <1>9. \A k \in Connections : Shown(k)'
    BY <1>7 DEF Shown
  <1> QED
    BY <1>6, <1>7, <1>8, <1>9 DEF Inv

-----------------------------------------------------------------------------
(* Subscriptions and generators. *)

\* A new subscriber with a queue of replayed events.
Subscribing(q, last) ==
    [Free EXCEPT !.stage = "subscribed", !.listed = TRUE, !.authorized = TRUE,
                 !.queue = q, !.last = last]

\* It is open and listed.
LEMMA SubscribingIsListed ==
    ASSUME NEW q \in Queues, NEW last \in Nat \cup {None}
    PROVE  /\ Subscribing(q, last) \in ConnType
           /\ Subscribing(q, last).queue = q /\ Subscribing(q, last).last = last
           /\ Subscribing(q, last).listed /\ ~Subscribing(q, last).closed
           /\ Subscribing(q, last).stage = "subscribed"
  <1>1. Free \in ConnType /\ ~Free.closed
    BY FreeIsGood DEF GoodConn, Free
  <1> QED
    BY <1>1 DEF ConnType, Subscribing, Stages

\* A subscription replays what its client has not had, up to the last event.
LEMMA ConnectStep ==
    ASSUME Inv, NEW c \in Clients, Connect(c)
    PROVE  Inv'
  <1> DEFINE k == FreeConnection
             lastId == client[c].lastId
             new == Subscribing(Replay(lastId), Resume(lastId))
  <1>1. TypeOK /\ None \notin Connections
    BY FramesAreMarked DEF Inv
  <1>2. /\ value \in Nat /\ pending \in [Publishers -> Nat \cup {None}]
        /\ conn \in [Connections -> ConnType] /\ client \in [Clients -> ClientType]
        /\ running \in BOOLEAN /\ signedIn \subseteq Clients /\ faults \in Nat /\ GoodHub(hub)
        /\ \A j \in Connections : GoodConn(conn[j])
    BY <1>1, TypeParts
  <1>3. /\ value' = value /\ pending' = pending /\ running' = running
        /\ signedIn' = signedIn /\ faults' = faults
        /\ conn' = [conn EXCEPT ![k] = new]
        /\ client' = [client EXCEPT ![c].mode = "open", ![c].on = k]
        /\ hub' = [hub EXCEPT !.known = TRUE]
        /\ \E j \in Connections : conn[j].stage = "free"
    BY Zenon DEF Connect, Subscribing
  <1>4. k \in Connections
    BY <1>3 DEF FreeConnection
  <1>5. lastId \in Nat \cup {None}
    BY <1>2 DEF ClientType
  <1>6. EndsWithNewest(hub)
    BY DEF Inv
  <1>7. /\ Replay(lastId) \in Seq(Frames) /\ Len(Replay(lastId)) <= QueueLimit
        /\ Resume(lastId) \in Nat \cup {None}
        /\ Follows(Replay(lastId), Resume(lastId))
        /\ Reaches(Replay(lastId), Resume(lastId), hub)
    BY <1>2, <1>5, <1>6, ReplayEffect
  <1>8. /\ hub' \in HubType /\ hub'.known /\ hub'.buffer = hub.buffer /\ hub'.next = hub.next
        /\ Len(hub.buffer) <= ReplayLimit
    BY <1>2, <1>3 DEF GoodHub, HubType
  <1>9. GoodHub(hub') /\ EndsWithNewest(hub')
    BY <1>6, <1>8 DEF GoodHub, EndsWithNewest
  <1> HIDE DEF k, lastId, new
  <1>10. Replay(lastId) \in Queues /\ \A i \in 1 .. Len(Replay(lastId)) : Replay(lastId)[i] # None
    <2>1. \A i \in 1 .. Len(Replay(lastId)) : Replay(lastId)[i] \in Frames
      BY <1>7, ElementOfSeq
    <2>2. Replay(lastId) \in Queues
      BY <1>7 DEF Queues
    <2> QED
      BY <2>1, <2>2, FramesAreMarked
  <1>11. /\ new \in ConnType /\ new.queue = Replay(lastId) /\ new.last = Resume(lastId)
         /\ new.listed /\ ~new.closed /\ new.stage = "subscribed"
    <2> DEFINE q == Replay(lastId)
               last == Resume(lastId)
    <2>1. q \in Queues /\ last \in Nat \cup {None} /\ new = Subscribing(q, last)
      BY <1>7, <1>10 DEF new
    <2> HIDE DEF q, last
    <2>2. /\ new \in ConnType /\ new.queue = q /\ new.last = last
          /\ new.listed /\ ~new.closed /\ new.stage = "subscribed"
      BY <2>1, SubscribingIsListed
    <2> QED
      BY <2>2 DEF q, last
  <1>12. GoodConn(new)
    BY <1>7, <1>11 DEF GoodConn
  <1>13. Subscriber(new, hub')
    <2>1. Reaches(Replay(lastId), Resume(lastId), hub')
      BY <1>7, <1>8 DEF Reaches
    <2> QED
      BY <2>1, <1>7, <1>8, <1>10, <1>11 DEF Subscriber
  <1>14. client' \in [Clients -> ClientType]
    <2> DEFINE d == [client[c] EXCEPT !.mode = "open", !.on = k]
    <2>1. client[c] \in ClientType
      BY <1>2
    <2>2. d \in ClientType
      BY <2>1, <1>4 DEF ClientType, Modes
    <2>3. client' = [client EXCEPT ![c] = d]
      BY <1>2, <1>3
    <2> HIDE DEF d
    <2> QED
      BY <2>2, <2>3, <1>2
  <1>15. \A b \in Clients : \/ client'[b].on = k
                            \/ client'[b] = client[b]
    BY <1>2, <1>3
  <1>16. ASSUME NEW j \in Connections
         PROVE  GoodConn(conn'[j]) /\ Subscriber(conn'[j], hub') /\ Shown(j)'
    <2>1. CASE j = k
      <3>1. conn'[j] = new
        BY <2>1, <1>2, <1>3
      <3>2. Shown(j)'
        BY <3>1, <1>11 DEF Shown
      <3> QED
        BY <3>1, <3>2, <1>12, <1>13
    <2>2. CASE j # k
      <3>1. conn'[j] = conn[j]
        BY <2>2, <1>2, <1>3
      <3>2. Undisturbed(j)
        BY <2>2, <3>1, <1>1, <1>15, LeftAlone
      <3> QED
        BY <3>2, <1>3, <1>8, UndisturbedStays
    <2> QED
      BY <2>1, <2>2
  <1>17. conn' = [j \in Connections |-> conn'[j]]
    BY <1>2, <1>3
  <1>18. TypeOK'
    BY <1>2, <1>3, <1>9, <1>14, <1>16, <1>17, TypesAgain
  <1> QED
    BY <1>9, <1>16, <1>18 DEF Inv

\* A snapshot that has just been read is of the present (_subscribe).
LEMMA ReadSnapshotStep ==
    ASSUME Inv, NEW k \in Connections, ReadSnapshot(k)
    PROVE  Inv'
  <1> DEFINE d == [conn[k] EXCEPT !.stage = "ready", !.snapshot = value]
  <1>1. TypeOK
    BY DEF Inv
  <1>2. /\ value \in Nat /\ pending \in [Publishers -> Nat \cup {None}]
        /\ conn \in [Connections -> ConnType] /\ client \in [Clients -> ClientType]
        /\ running \in BOOLEAN /\ signedIn \subseteq Clients /\ faults \in Nat /\ GoodHub(hub)
        /\ \A j \in Connections : GoodConn(conn[j])
    BY <1>1, TypeParts
  <1>3. /\ value' = value /\ pending' = pending /\ running' = running /\ hub' = hub
        /\ client' = client /\ signedIn' = signedIn /\ faults' = faults
        /\ conn' = [conn EXCEPT ![k].stage = "ready", ![k].snapshot = value]
    BY Zenon DEF ReadSnapshot
  <1>4. /\ d \in ConnType /\ d.queue = conn[k].queue /\ d.last = conn[k].last
        /\ d.closed = conn[k].closed /\ d.listed = conn[k].listed
        /\ d.stage = "ready" /\ d.snapshot = value
    BY <1>2 DEF ConnType, Stages
  <1>5. conn'[k] = d /\ \A j \in Connections \ {k} : conn'[j] = conn[j]
    BY <1>2, <1>3
  <1> HIDE DEF d
  <1>6. GoodConn(d)
    BY <1>2, <1>4 DEF GoodConn
  <1>7. \A j \in Connections : Subscriber(conn[j], hub)
    BY DEF Inv
  <1>8. Subscriber(d, hub)
    BY <1>4, <1>7 DEF Subscriber
  <1>9. ASSUME NEW j \in Connections
        PROVE  GoodConn(conn'[j]) /\ Subscriber(conn'[j], hub') /\ Shown(j)'
    <2>1. CASE j = k
      <3>1. Shown(j)'
        BY <2>1, <1>3, <1>4, <1>5 DEF Shown, Fresh
      <3> QED
        BY <2>1, <3>1, <1>3, <1>5, <1>6, <1>8
    <2>2. CASE j # k
      <3>1. Undisturbed(j)
        BY <2>2, <1>1, <1>3, <1>5, LeftAlone
      <3> QED
        BY <3>1, <1>3, UndisturbedStays
    <2> QED
      BY <2>1, <2>2
  <1>10. conn' = [j \in Connections |-> conn'[j]]
    BY <1>2, <1>3
  <1>11. TypeOK'
    BY <1>2, <1>3, <1>9, <1>10, TypesAgain
  <1>12. EndsWithNewest(hub')
    BY <1>3 DEF Inv
  <1> QED
    BY <1>9, <1>11, <1>12 DEF Inv

\* A client that shows something, and whose last event it is.
Showing(c, id, val) == [c EXCEPT !.lastId = id, !.view = val]

\* It is still a client of its connection.
LEMMA ShowingIsClient ==
    ASSUME NEW c \in ClientType, NEW id \in Nat, NEW val \in Nat
    PROVE  /\ Showing(c, id, val) \in ClientType
           /\ Showing(c, id, val).on = c.on /\ Showing(c, id, val).view = val
BY DEF ClientType, Showing

\* What a connection's clients are when they have been shown something.
LEMMA ClientsShow ==
    ASSUME client \in [Clients -> ClientType], NEW k, NEW id \in Nat, NEW val \in Nat,
           Show(k, id, val)
    PROVE  /\ client' \in [Clients -> ClientType]
           /\ \A c \in Clients : /\ client'[c].on = client[c].on
                                 /\ client[c].on = k => client'[c].view = val
                                 /\ client[c].on # k => client'[c] = client[c]
  <1>1. client' = [c \in Clients |-> IF c \in Owners(k) THEN Showing(client[c], id, val)
                                    ELSE client[c]]
    BY Zenon DEF Show, Showing
  <1>2. ASSUME NEW c \in Clients
        PROVE  /\ client'[c] \in ClientType /\ client'[c].on = client[c].on
               /\ client[c].on = k => client'[c].view = val
               /\ client[c].on # k => client'[c] = client[c]
    <2>1. client[c] \in ClientType
      OBVIOUS
    <2>2. c \in Owners(k) <=> client[c].on = k
      BY DEF Owners
    <2>3. client'[c] = IF client[c].on = k THEN Showing(client[c], id, val) ELSE client[c]
      BY <1>1, <2>2
    <2> QED
      BY <2>1, <2>3, ShowingIsClient
  <1> QED
    BY <1>1, <1>2

\* A step of a generator that sends: its subscriber stays in order, and what it is about to
\* show, if it has nothing more to send, is the last event or fresh.
LEMMA SendingStep ==
    ASSUME Inv, NEW k \in Connections, NEW id \in Nat, NEW val \in Nat, Show(k, id, val), NEW d,
           conn' = [conn EXCEPT ![k] = d], GoodConn(d), Subscriber(d, hub), d.stage = "streaming",
           d.listed /\ d.queue = <<>> =>
               \/ hub.buffer # <<>> /\ val = hub.buffer[Len(hub.buffer)].val
               \/ val = d.snapshot /\ Fresh(d.snapshot),
           UNCHANGED <<value, pending, running, hub, signedIn, faults>>
    PROVE  Inv'
  <1>1. TypeOK
    BY DEF Inv
  <1>2. /\ value \in Nat /\ pending \in [Publishers -> Nat \cup {None}]
        /\ conn \in [Connections -> ConnType] /\ client \in [Clients -> ClientType]
        /\ running \in BOOLEAN /\ signedIn \subseteq Clients /\ faults \in Nat /\ GoodHub(hub)
    BY <1>1, TypeParts
  <1>3. /\ client' \in [Clients -> ClientType]
        /\ \A c \in Clients : /\ client'[c].on = client[c].on
                              /\ client[c].on = k => client'[c].view = val
                              /\ client[c].on # k => client'[c] = client[c]
    BY <1>2, ClientsShow
  <1>4. conn'[k] = d /\ \A j \in Connections \ {k} : conn'[j] = conn[j]
    BY <1>2
  <1>5. ASSUME NEW j \in Connections
        PROVE  GoodConn(conn'[j]) /\ Subscriber(conn'[j], hub') /\ Shown(j)'
    <2>1. CASE j = k
      <3>1. Shown(j)'
        BY <2>1, <1>3, <1>4 DEF Shown, Fresh
      <3> QED
        BY <2>1, <3>1, <1>4
    <2>2. CASE j # k
      <3>1. Undisturbed(j)
        BY <2>2, <1>1, <1>3, <1>4, LeftAlone
      <3> QED
        BY <3>1, UndisturbedStays
    <2> QED
      BY <2>1, <2>2
  <1>6. conn' = [j \in Connections |-> conn'[j]]
    BY <1>2
  <1>7. TypeOK'
    BY <1>2, <1>3, <1>5, <1>6, TypesAgain
  <1>8. EndsWithNewest(hub')
    BY DEF Inv
  <1> QED
    BY <1>5, <1>7, <1>8 DEF Inv

\* The snapshot is shown while it is fresh, or followed by what has been published since.
LEMMA SendSnapshotStep ==
    ASSUME Inv, NEW k \in Connections, SendSnapshot(k)
    PROVE  Inv'
  <1> DEFINE d == [conn[k] EXCEPT !.stage = "streaming"]
  <1>1. TypeOK /\ Subscriber(conn[k], hub) /\ Shown(k)
    BY DEF Inv
  <1>2. conn \in [Connections -> ConnType] /\ GoodConn(conn[k])
    BY <1>1, TypeParts
  <1>3. /\ conn[k].stage = "ready" /\ conn' = [conn EXCEPT ![k] = d]
        /\ Show(k, 0, conn[k].snapshot)
        /\ UNCHANGED <<value, pending, running, hub, signedIn, faults>>
    BY Zenon DEF SendSnapshot
  <1>4. /\ d \in ConnType /\ d.queue = conn[k].queue /\ d.last = conn[k].last
        /\ d.closed = conn[k].closed /\ d.listed = conn[k].listed
        /\ d.stage = "streaming" /\ d.snapshot = conn[k].snapshot /\ conn[k].snapshot \in Nat
    BY <1>2 DEF ConnType, Stages
  <1> HIDE DEF d
  <1>5. GoodConn(d)
    BY <1>2, <1>4 DEF GoodConn
  <1>6. Subscriber(d, hub)
    BY <1>1, <1>4 DEF Subscriber
  <1>7. d.listed /\ d.queue = <<>> => Fresh(d.snapshot)
    BY <1>1, <1>3, <1>4 DEF Shown
  <1> QED
    BY <1>3, <1>4, <1>5, <1>6, <1>7, SendingStep

\* A frame taken from the queue of a streaming generator.
Taken(k) ==
    /\ conn[k].queue # <<>> /\ Head(conn[k].queue) # None
    /\ conn' = [conn EXCEPT ![k].queue = Tail(@), ![k].last = Head(conn[k].queue).id]
    /\ Show(k, Head(conn[k].queue).id, Head(conn[k].queue).val)

\* A generator that does not end sends the next frame of its queue.
LEMMA SendCases ==
    ASSUME NEW k \in Connections, Send(k)
    PROVE  \/ \E mode \in Modes : End(k, mode)
           \/ Taken(k)
BY DEF Send, Taken, Modes

\* What is taken is the next event, and the last one when it was all that was left.
LEMMA TakenStep ==
    ASSUME Inv, NEW k \in Connections, Taken(k), conn[k].stage = "streaming",
           UNCHANGED <<value, pending, running, hub, signedIn, faults>>
    PROVE  /\ Inv'
           /\ conn[k].last # None => conn'[k].last = conn[k].last + 1
           /\ \A j \in Connections \ {k} : conn'[j] = conn[j]
  <1> DEFINE q == conn[k].queue
             frame == Head(q)
             rest == Tail(q)
             d == [conn[k] EXCEPT !.queue = rest, !.last = frame.id]
  <1>1. TypeOK /\ Subscriber(conn[k], hub)
    BY DEF Inv
  <1>2. conn \in [Connections -> ConnType] /\ GoodConn(conn[k])
    BY <1>1, TypeParts
  <1>3. /\ q # <<>> /\ frame # None /\ Show(k, frame.id, frame.val)
        /\ conn' = [conn EXCEPT ![k].queue = Tail(@), ![k].last = frame.id]
    BY Zenon DEF Taken
  <1>4. /\ q \in Queues /\ Len(q) \in Nat /\ Len(q) <= QueueLimit /\ conn[k] \in ConnType
        /\ Follows(q, conn[k].last)
    BY <1>1, <1>2, LenProperties DEF GoodConn, ConnType, Queues, Subscriber
  <1>5. /\ rest \in Queues /\ Len(rest) = Len(q) - 1 /\ Follows(rest, frame.id)
        /\ \A i \in 1 .. Len(rest) : rest[i] = q[i + 1]
        /\ frame \in Frames /\ frame = q[1]
        /\ conn[k].last # None => frame.id = conn[k].last + 1
    BY <1>3, <1>4, FollowsTaken
  <1>6. frame.id \in Nat /\ frame.val \in Nat
    BY <1>5 DEF Frames
  <1>7. conn'[k] = d /\ \A j \in Connections \ {k} : conn'[j] = conn[j]
    BY <1>2, <1>3
  <1>8. conn' = [conn EXCEPT ![k] = d]
    BY <1>2, <1>3
  <1> HIDE DEF q, rest, frame
  <1>9. /\ d \in ConnType /\ d.queue = rest /\ d.last = frame.id
        /\ d.closed = conn[k].closed /\ d.listed = conn[k].listed
        /\ d.stage = conn[k].stage /\ d.snapshot = conn[k].snapshot
    BY <1>4, <1>5, <1>6 DEF ConnType
  <1> HIDE DEF d
  <1>10. GoodConn(d)
    BY <1>4, <1>5, <1>9, LimitsAssumption DEF GoodConn
  <1>11. rest = <<>> <=> Len(q) = 1
    BY <1>4, <1>5, EmptySeq DEF Queues
  <1>12. conn[k].listed => q[Len(q)] = hub.buffer[Len(hub.buffer)] /\ hub.buffer # <<>>
    BY <1>1, <1>3 DEF Subscriber, Reaches, q
  <1>13. Subscriber(d, hub)
    <2>1. ~d.closed => \A i \in 1 .. Len(rest) : rest[i] # None
      <3> SUFFICES ASSUME ~d.closed, NEW i \in 1 .. Len(rest) PROVE rest[i] # None
        OBVIOUS
      <3>1. i + 1 \in 1 .. Len(q)
        BY <1>4, <1>5
      <3>2. q[i + 1] # None
        BY <3>1, <1>1, <1>9 DEF Subscriber, q
      <3> QED
        BY <3>2, <1>5
    <2>2. ASSUME d.listed PROVE Reaches(rest, frame.id, hub)
      <3>1. rest # <<>> => rest[Len(rest)] = q[Len(q)]
        <4> SUFFICES ASSUME rest # <<>> PROVE rest[Len(rest)] = q[Len(q)]
          OBVIOUS
        <4>1. Len(rest) \in 1 .. Len(rest) /\ Len(rest) + 1 = Len(q)
          BY <1>4, <1>5, <1>11
        <4> QED
          BY <4>1, <1>5
      <3>2. rest = <<>> => frame.id = hub.next - 1
        <4> SUFFICES ASSUME rest = <<>> PROVE frame.id = hub.next - 1
          OBVIOUS
        <4>1. frame = hub.buffer[Len(hub.buffer)] /\ hub.buffer # <<>>
          BY <2>2, <1>5, <1>9, <1>11, <1>12
        <4>2. /\ hub \in HubType /\ hub.buffer \in Seq(Frames) /\ Len(hub.buffer) \in Nat
              /\ hub.next \in Nat
          BY <1>1, TypeParts, LenProperties DEF GoodHub, HubType
        <4>3. Len(hub.buffer) \in 1 .. Len(hub.buffer)
          BY <4>1, <4>2, EmptySeq
        <4>4. hub.buffer[Len(hub.buffer)].id = hub.next - Len(hub.buffer) + Len(hub.buffer) - 1
          BY <4>3 DEF Inv, EndsWithNewest
        <4> QED
          BY <4>1, <4>2, <4>4
      <3> QED
        BY <3>1, <3>2, <2>2, <1>9, <1>12 DEF Reaches
    <2> QED
      BY <2>1, <2>2, <1>1, <1>5, <1>9 DEF Subscriber
  <1>14. d.listed /\ d.queue = <<>> =>
             hub.buffer # <<>> /\ frame.val = hub.buffer[Len(hub.buffer)].val
    BY <1>5, <1>9, <1>11, <1>12
  <1>15. Inv'
    BY <1>3, <1>6, <1>8, <1>9, <1>10, <1>13, <1>14, SendingStep
  <1> QED
    BY <1>5, <1>7, <1>9, <1>15

\* The steps of a generator.
LEMMA GeneratorStep ==
    ASSUME Inv, NEW k \in Connections, Generate(k) \/ FailSnapshot(k)
    PROVE  Inv'
  <1>1. CASE ReadSnapshot(k)
    BY <1>1, ReadSnapshotStep
  <1>2. CASE SendSnapshot(k)
    BY <1>2, SendSnapshotStep
  <1>3. CASE Send(k)
    <2>1. /\ UNCHANGED <<value, pending, running, hub, signedIn, faults>>
          /\ conn[k].stage = "streaming"
      BY <1>3, Zenon DEF Send
    <2>2. CASE \E mode \in Modes : End(k, mode)
      BY <2>1, <2>2, EndIsQuiet
    <2>3. CASE Taken(k)
      BY <2>1, <2>3, TakenStep
    <2> QED
      BY <1>3, <2>2, <2>3, SendCases
  <1>4. CASE Idle(k)
    <2>1. UNCHANGED <<value, pending, running, hub, signedIn, faults>>
      BY <1>4, Zenon DEF Idle
    <2>2. End(k, "waiting") \/ End(k, "expired")
      BY <1>4, Zenon DEF Idle
    <2>3. "waiting" \in Modes /\ "expired" \in Modes
      BY DEF Modes
    <2> QED
      BY <2>1, <2>2, <2>3, EndIsQuiet
  <1>5. CASE Unsubscribe(k)
    <2>1. UNCHANGED <<value, pending, running, hub, signedIn, faults>> /\ End(k, "waiting")
      BY <1>5, Zenon DEF Unsubscribe
    <2>2. "waiting" \in Modes
      BY DEF Modes
    <2> QED
      BY <2>1, <2>2, EndIsQuiet
  <1>6. CASE FailSnapshot(k)
    BY <1>6, FailSnapshotStep
  <1> QED
    BY <1>1, <1>2, <1>3, <1>4, <1>5, <1>6 DEF Generate

-----------------------------------------------------------------------------
(* The invariant. *)

\* Initially nobody is connected and nothing is published.
LEMMA InitInv ==
    Init => Inv
  <1> SUFFICES ASSUME Init PROVE Inv
    OBVIOUS
  <1>1. /\ value = 0 /\ running = TRUE /\ hub = FreshHub /\ signedIn = Clients /\ faults = 0
        /\ pending = [p \in Publishers |-> None]
        /\ conn = [k \in Connections |-> Free]
        /\ client = [c \in Clients |->
                        [mode |-> "off", on |-> None, lastId |-> None, view |-> None]]
    BY Zenon DEF Init
  <1>2. GoodHub(hub) /\ EndsWithNewest(hub)
    BY <1>1, FreshIsGood
  <1>3. \A k \in Connections : conn[k] = Free
    BY <1>1
  <1>4. \A k \in Connections : GoodConn(conn[k]) /\ Subscriber(conn[k], hub) /\ ~conn[k].listed
    BY <1>3, FreeIsGood
  <1>5. conn \in [Connections -> ConnType]
    BY <1>1, FreeIsGood DEF GoodConn
  <1>6. client \in [Clients -> ClientType]
    BY <1>1 DEF ClientType, Modes
  <1>7. TypeOK
    <2>1. pending \in [Publishers -> Nat \cup {None}]
      BY <1>1, Zenon
    <2>2. value \in Nat /\ running \in BOOLEAN /\ signedIn \subseteq Clients /\ faults \in Nat
      BY <1>1
    <2> QED
      BY <2>1, <2>2, <1>2, <1>4, <1>5, <1>6, TypeParts
  <1>8. \A k \in Connections : Shown(k)
    BY <1>4 DEF Shown
  <1> QED
    BY <1>2, <1>4, <1>7, <1>8 DEF Inv

\* A step that changes nothing keeps the invariant.
LEMMA StutterStep ==
    ASSUME Inv, UNCHANGED vars
    PROVE  Inv'
  <1>1. TypeOK
    BY DEF Inv
  <1>2. UNCHANGED <<value, pending, running, hub, conn, client, signedIn, faults>>
    BY DEF vars
  <1>3. /\ conn \in [Connections -> ConnType] /\ client \in [Clients -> ClientType]
        /\ running \in BOOLEAN /\ signedIn \subseteq Clients /\ faults \in Nat
    BY <1>1, TypeParts
  <1>4. \A k \in Connections : Undisturbed(k)
    BY <1>1, <1>2, LeftAlone
  <1> QED
    BY <1>2, <1>3, <1>4, QuietStep

\* What is true of a stream whatever its publishers, clients and connections do.
THEOREM InvAlways ==
    Spec => []Inv
  <1>1. Inv /\ [Next]_vars => Inv'
    <2> SUFFICES ASSUME Inv, [Next]_vars PROVE Inv'
      OBVIOUS
    <2>1. CASE \E p \in Publishers : Commit(p) \/ Publish(p)
      BY <2>1, CommitStep, PublishStep
    <2>2. CASE \E c \in Clients :
                  Open(c) \/ Connect(c) \/ Refuse(c) \/ LoseConnection(c) \/ Expire(c) \/ SignIn(c)
      BY <2>2, ClientStep, ConnectStep
    <2>3. CASE \E k \in Connections : Generate(k) \/ FailSnapshot(k)
      BY <2>3, GeneratorStep
    <2>4. CASE ShutDown \/ Exit \/ Restart
      BY <2>4, ShutDownStep, ExitStep, RestartStep
    <2>5. CASE UNCHANGED vars
      BY <2>5, StutterStep
    <2> QED
      BY <2>1, <2>2, <2>3, <2>4, <2>5 DEF Next
  <1> QED
    BY <1>1, InitInv, PTL DEF Spec

\* The replay buffer and every subscriber's queue keep to their limits (_replay_buffer,
\* StreamSubscriber), and every variable to its type.
THEOREM TypeCorrect ==
    Spec => []TypeOK
  <1>1. Inv => TypeOK
    BY DEF Inv
  <1> QED
    BY <1>1, InvAlways, PTL

-----------------------------------------------------------------------------
(* What a client is shown. *)

\* The last event of the buffer is the one before the next.
LEMMA LastBuffered ==
    ASSUME GoodHub(hub), EndsWithNewest(hub), hub.buffer # <<>>
    PROVE  hub.buffer[Len(hub.buffer)] = Last(hub.buffer) /\ Last(hub.buffer).id = hub.next - 1
  <1>1. hub.buffer \in Seq(Frames) /\ Len(hub.buffer) \in Nat /\ hub.next \in Nat
    BY LenProperties DEF GoodHub, HubType
  <1>2. Len(hub.buffer) \in 1 .. Len(hub.buffer)
    BY <1>1, EmptySeq
  <1>3. hub.buffer[Len(hub.buffer)].id = hub.next - Len(hub.buffer) + Len(hub.buffer) - 1
    BY <1>2 DEF EndsWithNewest
  <1> QED
    BY <1>1, <1>3 DEF Last

\* A queue of the invariant continues what was taken from it, to the newest event.
LEMMA QueuesContinue ==
    Inv => FramesContinue
  <1> SUFFICES ASSUME Inv, NEW k \in Connections
               PROVE  LET queue == conn[k].queue
                          last == conn[k].last
                      IN  /\ \A i \in 1 .. Len(queue) :
                               IF queue[i] = None THEN i = Len(queue)
                               ELSE i > 1 => queue[i].id = queue[i - 1].id + 1
                          /\ queue # <<>> /\ last # None =>
                               queue[1] = None \/ queue[1].id = last + 1
                          /\ conn[k].listed =>
                               /\ queue # <<>> => /\ Last(queue) # None
                                                  /\ Last(queue).id = hub.next - 1
                               /\ queue = <<>> /\ last # None => last = hub.next - 1
    BY DEF FramesContinue
  <1> DEFINE queue == conn[k].queue
             last == conn[k].last
  <1>1. GoodHub(hub) /\ EndsWithNewest(hub) /\ Subscriber(conn[k], hub) /\ GoodConn(conn[k])
    BY TypeParts DEF Inv
  <1>2. Follows(queue, last)
    BY <1>1 DEF Subscriber
  <1>3. queue \in Queues /\ Len(queue) \in Nat
    BY <1>1, LenProperties DEF GoodConn, ConnType, Queues
  <1>4. ASSUME conn[k].listed
        PROVE  /\ queue # <<>> => Last(queue) # None /\ Last(queue).id = hub.next - 1
               /\ queue = <<>> /\ last # None => last = hub.next - 1
    <2>1. Reaches(queue, last, hub) /\ \A i \in 1 .. Len(queue) : queue[i] # None
      BY <1>1, <1>4 DEF Subscriber
    <2>2. ASSUME queue # <<>> PROVE Last(queue) # None /\ Last(queue).id = hub.next - 1
      <3>1. hub.buffer # <<>> /\ queue[Len(queue)] = hub.buffer[Len(hub.buffer)]
        BY <2>1, <2>2 DEF Reaches
      <3>2. Len(queue) \in 1 .. Len(queue)
        BY <2>2, <1>3, EmptySeq DEF Queues
      <3>3. Last(queue) = queue[Len(queue)]
        BY DEF Last
      <3> QED
        BY <3>1, <3>2, <3>3, <2>1, <1>1, LastBuffered
    <2>3. queue = <<>> /\ last # None => last = hub.next - 1
      BY <2>1 DEF Reaches
    <2> QED
      BY <2>2, <2>3
  <1> QED
    BY <1>2, <1>4 DEF Follows

\* A value read and not yet published is pending, so once all is quiet it is the present,
\* or a later event has been published than the present.
LEMMA DrainedShowsPresent ==
    Inv => DrainedIsCurrent
  <1> SUFFICES ASSUME Inv, NEW c \in Clients, Drained(c), Quiet
               PROVE  \/ client[c].view = value
                      \/ Overtaken /\ client[c].view = Last(hub.buffer).val
    BY DEF DrainedIsCurrent
  <1> DEFINE k == client[c].on
  <1>1. /\ k # None /\ conn[k].stage = "streaming" /\ conn[k].listed /\ conn[k].queue = <<>>
    BY DEF Drained
  <1>2. TypeOK
    BY DEF Inv
  <1>3. value \in Nat /\ client \in [Clients -> ClientType] /\ GoodHub(hub)
    BY <1>2, TypeParts
  <1>4. k \in Connections
    BY <1>1, <1>3 DEF ClientType
  <1>5. \/ hub.buffer # <<>> /\ client[c].view = hub.buffer[Len(hub.buffer)].val
        \/ client[c].view = conn[k].snapshot /\ Fresh(conn[k].snapshot)
    BY <1>1, <1>4 DEF Inv, Shown
  <1>6. Fresh(conn[k].snapshot) => conn[k].snapshot = value
    <2>1. \A p \in Publishers : pending[p] # value
      BY <1>3, FramesAreMarked DEF Quiet
    <2> QED
      BY <2>1 DEF Fresh
  <1>7. hub.buffer # <<>> => hub.buffer[Len(hub.buffer)] = Last(hub.buffer)
    BY <1>3, LastBuffered DEF Inv
  <1> QED
    BY <1>5, <1>6, <1>7 DEF Overtaken

\* No subscriber has a hole in its queue, and a client that has drained it shows the
\* present (StreamSubscriber.put, RealtimeHub.publish, _subscribe, _stream_response).
THEOREM StreamsStayWhole ==
    Spec => []StreamsAreWhole
  <1>1. Inv => StreamsAreWhole
    BY QueuesContinue, DrainedShowsPresent DEF StreamsAreWhole
  <1> QED
    BY <1>1, InvAlways, PTL

-----------------------------------------------------------------------------
(* The order of events. *)

\* When a streaming generator's queue has become shorter, the next event was taken.
Advances(k) ==
    /\ conn'[k].stage = "streaming"
    /\ Len(conn'[k].queue) < Len(conn[k].queue)
    /\ conn[k].last # None
    => conn'[k].last = conn[k].last + 1

\* A queue that has not become shorter has advanced nobody.
LEMMA NothingTaken ==
    ASSUME TypeOK, NEW k \in Connections,
           \/ conn'[k] = conn[k]
           \/ conn'[k].queue = conn[k].queue
           \/ conn'[k].stage # "streaming"
    PROVE  Advances(k)
  <1>1. Len(conn[k].queue) \in Nat
    BY TypeParts, LenProperties DEF GoodConn, ConnType, Queues
  <1> QED
    BY <1>1 DEF Advances

\* The end of a stream frees its connection.
LEMMA NothingTakenAtEnd ==
    ASSUME TypeOK, NEW k \in Connections, NEW mode, End(k, mode), NEW j \in Connections
    PROVE  Advances(j)
  <1>1. conn' = [conn EXCEPT ![k] = Free]
    BY Zenon DEF End
  <1>2. conn \in [Connections -> ConnType]
    BY TypeParts
  <1>3. conn'[j] = Free \/ conn'[j] = conn[j]
    BY <1>1, <1>2
  <1> QED
    BY <1>3, FreeIsGood, NothingTaken

\* Publications and shutdowns only add to queues.
LEMMA NothingTakenByHub ==
    ASSUME Inv, (\E p \in Publishers : Publish(p)) \/ ShutDown, NEW j \in Connections
    PROVE  Advances(j)
  <1>1. TypeOK /\ EndsWithNewest(hub) /\ Subscriber(conn[j], hub)
    BY DEF Inv
  <1>2. /\ value \in Nat /\ pending \in [Publishers -> Nat \cup {None}] /\ GoodHub(hub)
        /\ GoodConn(conn[j])
    BY <1>1, TypeParts
  <1>3. Len(conn[j].queue) \in Nat
    BY <1>2, LenProperties DEF GoodConn, ConnType, Queues
  <1>4. CASE ~conn[j].listed
    <2>1. conn'[j] = conn[j]
      BY <1>4, Zenon DEF Publish, ShutDown
    <2> QED
      BY <2>1, <1>1, NothingTaken
  <1>5. ASSUME conn[j].listed, NEW p \in Publishers, Publish(p)
        PROVE  Len(conn[j].queue) <= Len(conn'[j].queue) /\ GoodConn(conn'[j])
    <2> DEFINE frame == [id |-> hub.next, val |-> pending[p], final |-> FALSE]
    <2>1. pending[p] # None
      BY <1>5, Zenon DEF Publish
    <2>2. conn' = [k \in Connections |->
                      IF conn[k].listed
                      THEN LET c == Put(conn[k], frame) IN [c EXCEPT !.listed = ~c.closed]
                      ELSE conn[k]]
      BY <1>5, Zenon DEF Publish
    <2>3. frame \in Frames /\ frame.id = hub.next
      BY <1>2, <2>1 DEF Frames, GoodHub, HubType
    <2> HIDE DEF frame
    <2>4. conn'[j] = LET c == Put(conn[j], frame) IN [c EXCEPT !.listed = ~c.closed]
      BY <1>5, <2>2
    <2> QED
      BY <1>1, <1>2, <1>5, <2>3, <2>4, PublishedTo
  <1>6. ASSUME conn[j].listed, ShutDown
        PROVE  Len(conn[j].queue) <= Len(conn'[j].queue) /\ GoodConn(conn'[j])
    <2> DEFINE frame == [id |-> hub.next, val |-> value, final |-> TRUE]
    <2>1. conn' = [k \in Connections |->
                      IF conn[k].listed
                      THEN [Close(Put(conn[k], frame)) EXCEPT !.listed = FALSE]
                      ELSE conn[k]]
      BY <1>6, Zenon DEF ShutDown
    <2>2. frame \in Frames /\ frame.id = hub.next
      BY <1>2 DEF Frames, GoodHub, HubType
    <2> HIDE DEF frame
    <2>3. conn'[j] = [Close(Put(conn[j], frame)) EXCEPT !.listed = FALSE]
      BY <1>6, <2>1
    <2> QED
      BY <1>1, <1>2, <1>6, <2>2, <2>3, ShutDownTo
  <1>7. CASE Len(conn[j].queue) <= Len(conn'[j].queue) /\ GoodConn(conn'[j])
    <2>1. Len(conn'[j].queue) \in Nat
      BY <1>7, LenProperties DEF GoodConn, ConnType, Queues
    <2> QED
      BY <2>1, <1>3, <1>7 DEF Advances
  <1> QED
    BY <1>4, <1>5, <1>6, <1>7

\* The steps of clients, and of the generator of another connection or before it streams.
LEMMA NothingTakenByClient ==
    ASSUME TypeOK, NEW c \in Clients, NEW j \in Connections,
           Open(c) \/ Connect(c) \/ Refuse(c) \/ LoseConnection(c) \/ Expire(c) \/ SignIn(c)
    PROVE  Advances(j)
  <1>1. conn \in [Connections -> ConnType]
    BY TypeParts
  <1>2. CASE Connect(c)
    <2>1. conn' = [conn EXCEPT ![FreeConnection] =
                      Subscribing(Replay(client[c].lastId), Resume(client[c].lastId))]
      BY <1>2, Zenon DEF Connect, Subscribing
    <2>2. conn'[j] = conn[j]
          \/ conn'[j] = Subscribing(Replay(client[c].lastId), Resume(client[c].lastId))
      BY <1>1, <2>1
    <2>3. Subscribing(Replay(client[c].lastId), Resume(client[c].lastId)).stage = "subscribed"
      BY DEF Subscribing, Free
    <2> QED
      BY <2>2, <2>3, NothingTaken
  <1>3. CASE Expire(c)
    <2>1. conn'[j] = conn[j] \/ conn'[j] = [conn[j] EXCEPT !.authorized = FALSE]
      BY <1>3, Zenon DEF Expire
    <2>2. [conn[j] EXCEPT !.authorized = FALSE].queue = conn[j].queue
      BY <1>1 DEF ConnType
    <2> QED
      BY <2>1, <2>2, NothingTaken
  <1>4. CASE Open(c) \/ Refuse(c) \/ LoseConnection(c) \/ SignIn(c)
    BY <1>4, NothingTaken DEF Open, Refuse, LoseConnection, SignIn
  <1> QED
    BY <1>2, <1>3, <1>4

\* A generator takes one event at a time, the next (frames).
LEMMA GeneratorAdvances ==
    ASSUME Inv, NEW k \in Connections, Generate(k) \/ FailSnapshot(k), NEW j \in Connections
    PROVE  Advances(j)
  <1>1. TypeOK
    BY DEF Inv
  <1>2. conn \in [Connections -> ConnType]
    BY <1>1, TypeParts
  <1>3. CASE ReadSnapshot(k) \/ FailSnapshot(k)
    <2>1. \/ conn' = [conn EXCEPT ![k].stage = "ready", ![k].snapshot = value]
          \/ conn' = [conn EXCEPT ![k].stage = "abandoned"]
      BY <1>3, Zenon DEF ReadSnapshot, FailSnapshot
    <2>2. conn'[j] = conn[j] \/ conn'[j].stage # "streaming"
      BY <2>1, <1>2 DEF ConnType
    <2> QED
      BY <2>2, <1>1, NothingTaken
  <1>4. CASE SendSnapshot(k)
    <2>1. conn' = [conn EXCEPT ![k].stage = "streaming"]
      BY <1>4, Zenon DEF SendSnapshot
    <2>2. conn'[j].queue = conn[j].queue
      BY <2>1, <1>2 DEF ConnType
    <2> QED
      BY <2>2, <1>1, NothingTaken
  <1>5. CASE Send(k)
    <2>1. /\ UNCHANGED <<value, pending, running, hub, signedIn, faults>>
          /\ conn[k].stage = "streaming"
      BY <1>5, Zenon DEF Send
    <2>2. CASE \E mode \in Modes : End(k, mode)
      BY <2>2, <1>1, NothingTakenAtEnd
    <2>3. CASE Taken(k)
      <3>1. /\ conn[k].last # None => conn'[k].last = conn[k].last + 1
            /\ \A i \in Connections \ {k} : conn'[i] = conn[i]
        BY <2>1, <2>3, TakenStep
      <3>2. CASE j = k
        BY <3>1, <3>2 DEF Advances
      <3>3. CASE j # k
        BY <3>1, <3>3, <1>1, NothingTaken
      <3> QED
        BY <3>2, <3>3
    <2> QED
      BY <1>5, <2>2, <2>3, SendCases
  <1>6. CASE Idle(k) \/ Unsubscribe(k)
    <2>1. \E mode : End(k, mode)
      BY <1>6, Zenon DEF Idle, Unsubscribe
    <2> QED
      BY <2>1, <1>1, NothingTakenAtEnd
  <1> QED
    BY <1>3, <1>4, <1>5, <1>6 DEF Generate

\* A client is sent every event once and in order, within a connection and after one that
\* the replay buffer still reaches back to (RealtimeHub.subscribe, _stream_response).
THEOREM FramesInOrder ==
    Spec => InOrder
  <1>1. Inv /\ [Next]_vars => \A k \in Connections : Advances(k)
    <2> SUFFICES ASSUME Inv, [Next]_vars, NEW k \in Connections PROVE Advances(k)
      OBVIOUS
    <2>1. TypeOK
      BY DEF Inv
    <2>2. CASE \E p \in Publishers : Commit(p)
      BY <2>1, <2>2, NothingTaken DEF Commit
    <2>3. CASE (\E p \in Publishers : Publish(p)) \/ ShutDown
      BY <2>3, NothingTakenByHub
    <2>4. CASE \E c \in Clients :
                  Open(c) \/ Connect(c) \/ Refuse(c) \/ LoseConnection(c) \/ Expire(c) \/ SignIn(c)
      BY <2>1, <2>4, NothingTakenByClient
    <2>5. CASE \E j \in Connections : Generate(j) \/ FailSnapshot(j)
      BY <2>5, GeneratorAdvances
    <2>6. CASE Exit
      <3>1. conn'[k] = Free
        BY <2>6, Zenon DEF Exit
      <3> QED
        BY <3>1, <2>1, FreeIsGood, NothingTaken
    <2>7. CASE Restart \/ UNCHANGED vars
      BY <2>1, <2>7, NothingTaken DEF Restart, vars
    <2> QED
      BY <2>2, <2>3, <2>4, <2>5, <2>6, <2>7 DEF Next
  <1>2. Inv /\ [Next]_vars =>
          [\A k \in Connections :
             /\ conn'[k].stage = "streaming"
             /\ Len(conn'[k].queue) < Len(conn[k].queue)
             /\ conn[k].last # None
             => conn'[k].last = conn[k].last + 1]_vars
    BY <1>1 DEF Advances
  <1> QED
    BY <1>2, InvAlways, PTL DEF Spec, InOrder
=============================================================================
