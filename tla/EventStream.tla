----------------------------- MODULE EventStream -----------------------------
(***************************************************************************)
(* One realtime stream: RealtimeHub and StreamSubscriber of                *)
(* services/realtime.py, the SSE generator of web/streams/routes.py, and   *)
(* the EventSource of a browser at the other end.                          *)
(*                                                                         *)
(* What the stream reports on is one value of the database; changes of it  *)
(* are numbered, and an event carries the number of its change.  A thread  *)
(* commits a change and publishes it afterwards, under no common lock.  A  *)
(* session that expires is not valid again: who signs in gets another.     *)
(***************************************************************************)
EXTENDS Integers, Sequences, SequencesExt, FiniteSets

CONSTANTS
    Publishers,     \* threads that change the value and publish the change
    Clients,        \* EventSources
    Connections,    \* requests the server can have open at a time
    ReplayLimit,    \* SSE_REPLAY_BUFFER_EVENTS
    QueueLimit,     \* maxsize of a subscriber's queue
    MaxChanges,     \* bound on the changes committed
    MaxFaults,      \* bound on faults: lost connections, crashes and the like
    None

\* None is no number, connection or frame.
ASSUME NoneAssumption ==
    None \notin Nat \cup Connections \cup [id : Nat \ {0}, val : Nat, final : BOOLEAN]

ASSUME LimitsAssumption ==
    /\ QueueLimit \in Nat \ {0}
    /\ ReplayLimit \in 1 .. QueueLimit      \* both are 200
    /\ MaxChanges \in Nat
    /\ MaxFaults \in Nat

VARIABLES
    value,          \* number of the last change committed
    pending,        \* per publisher, the change it has yet to publish, or None
    running,        \* whether the manager's process is there
    hub,            \* next: sequence; buffer: replay buffer; known: the stream has an
                    \* entry in _subscribers; closed: shut down
    conn,           \* per connection: its generator and its subscriber
    client,         \* per client: its EventSource and what it shows
    signedIn,       \* clients whose session is valid
    faults

vars == <<value, pending, running, hub, conn, client, signedIn, faults>>

\* An event of the stream, or manager.shutdown.
Frames == [id : Nat \ {0}, val : Nat, final : BOOLEAN]
Stages == {"free", "subscribed", "ready", "streaming", "abandoned"}
Modes == {"off", "waiting", "open", "failed", "expired", "ended"}

TypeOK ==
    /\ value \in Nat
    /\ pending \in [Publishers -> Nat \cup {None}]
    /\ running \in BOOLEAN
    /\ hub \in [next : Nat \ {0}, buffer : Seq(Frames),
               known : BOOLEAN, closed : BOOLEAN]
    /\ conn \in [Connections ->
                   [stage : Stages, listed : BOOLEAN, closed : BOOLEAN,
                    authorized : BOOLEAN,
                    queue : Seq(Frames \cup {None}),
                    snapshot : Nat, last : Nat \cup {None}]]
    /\ client \in [Clients ->
                     [mode : Modes, on : Connections \cup {None},
                      lastId : Nat \cup {None}, view : Nat \cup {None}]]
    /\ signedIn \subseteq Clients
    /\ faults \in Nat
    /\ Len(hub.buffer) <= ReplayLimit
    /\ \A k \in Connections : Len(conn[k].queue) <= QueueLimit

-----------------------------------------------------------------------------
(* The hub and its subscribers. *)

FreshHub == [next |-> 1, buffer |-> <<>>, known |-> FALSE, closed |-> FALSE]

Free == [stage |-> "free", listed |-> FALSE, closed |-> FALSE, authorized |-> FALSE,
         queue |-> <<>>, snapshot |-> 0, last |-> None]

\* Mutant: a queue one longer than its bound.
RoomForOneMore(queue) == Len(queue) <= QueueLimit

\* A queue takes a frame, or None for the end, only while it has room.
Room(queue) == Len(queue) < QueueLimit

Close(c) ==
    IF c.closed THEN c
    ELSE [c EXCEPT !.closed = TRUE, !.queue = IF Room(@) THEN Append(@, None) ELSE @]

\* A subscriber that cannot take a frame is dropped, never skipped.
Put(c, frame) ==
    IF c.closed THEN c
    ELSE IF Room(c.queue) THEN [c EXCEPT !.queue = Append(@, frame)]
    ELSE Close(c)

Buffered(buffer, frame) ==
    LET all == Append(buffer, frame)
    IN  IF Len(all) > ReplayLimit THEN Tail(all) ELSE all

Numbered(h, frame) == [h EXCEPT !.next = @ + 1, !.buffer = Buffered(@, frame), !.known = TRUE]

\* The last events of the buffer, one for each of the given positions.
Ending(positions) ==
    SubSeq(hub.buffer, Len(hub.buffer) - Cardinality(positions) + 1, Len(hub.buffer))

\* Mutant: the last event the client has is sent again.
ReplayInclusive(lastId) ==
    IF lastId = None THEN hub.buffer
    ELSE Ending({i \in 1 .. Len(hub.buffer) : hub.buffer[i].id >= lastId})

\* The buffered events with a greater id.  Sequences rise, so they are its end.
Replay(lastId) ==
    IF lastId = None THEN hub.buffer
    ELSE Ending({i \in 1 .. Len(hub.buffer) : hub.buffer[i].id > lastId})

\* The id from which a new subscriber's frames continue: the client's, when the
\* buffer still reaches back to it.
Resume(lastId) ==
    IF lastId # None /\ lastId \in (hub.next - Len(hub.buffer) - 1) .. (hub.next - 1)
    THEN lastId ELSE None

-----------------------------------------------------------------------------
Init ==
    /\ value = 0
    /\ pending = [p \in Publishers |-> None]
    /\ running = TRUE
    /\ hub = FreshHub
    /\ conn = [k \in Connections |-> Free]
    /\ client = [c \in Clients |-> [mode |-> "off", on |-> None, lastId |-> None, view |-> None]]
    /\ signedIn = Clients
    /\ faults = 0

(* Publishers. *)

Commit(p) ==
    /\ running
    /\ pending[p] = None
    /\ value < MaxChanges
    /\ value' = value + 1
    /\ pending' = [pending EXCEPT ![p] = value + 1]
    /\ UNCHANGED <<running, hub, conn, client, signedIn, faults>>

\* publish: the frame is numbered, buffered and put into every queue under the lock.
Publish(p) ==
    LET frame == [id |-> hub.next, val |-> pending[p], final |-> FALSE]
    IN  /\ pending[p] # None
        /\ pending' = [pending EXCEPT ![p] = None]
        /\ hub' = Numbered(hub, frame)
        /\ conn' = [k \in Connections |->
                      IF conn[k].listed
                      THEN LET c == Put(conn[k], frame) IN [c EXCEPT !.listed = ~c.closed]
                      ELSE conn[k]]
        /\ UNCHANGED <<value, running, client, signedIn, faults>>

-----------------------------------------------------------------------------
(* A client and its requests. *)

\* A page is loaded, or authentication resumed: a new EventSource.
Open(c) ==
    /\ client[c].mode \in {"off", "failed", "expired", "ended"}
    /\ c \in signedIn
    /\ client' = [client EXCEPT ![c].mode = "waiting", ![c].lastId = None]
    /\ UNCHANGED <<value, pending, running, hub, conn, signedIn, faults>>

\* Connections are interchangeable.
FreeConnection == CHOOSE k \in Connections : conn[k].stage = "free"

\* The request passes the middleware, and subscribes and replays under the lock.
Connect(c) ==
    LET k == FreeConnection IN
    /\ running
    /\ client[c].mode = "waiting"
    /\ c \in signedIn
    /\ \E j \in Connections : conn[j].stage = "free"
    /\ conn' = [conn EXCEPT ![k] =
                  [Free EXCEPT !.stage = "subscribed", !.listed = TRUE, !.authorized = TRUE,
                               !.queue = Replay(client[c].lastId),
                               !.last = Resume(client[c].lastId)]]
    /\ client' = [client EXCEPT ![c].mode = "open", ![c].on = k]
    /\ hub' = [hub EXCEPT !.known = TRUE]
    /\ UNCHANGED <<value, pending, running, signedIn, faults>>

\* An answer other than 200 ends an EventSource: it does not try again.
Refuse(c) ==
    /\ running
    /\ client[c].mode = "waiting"
    /\ c \notin signedIn
    /\ client' = [client EXCEPT ![c].mode = "failed"]
    /\ UNCHANGED <<value, pending, running, hub, conn, signedIn, faults>>

Fault == faults < MaxFaults /\ faults' = faults + 1

LoseConnection(c) ==
    /\ Fault
    /\ client[c].on # None
    /\ client' = [client EXCEPT ![c].mode = "waiting", ![c].on = None]
    /\ UNCHANGED <<value, pending, running, hub, conn, signedIn>>

Expire(c) ==
    /\ Fault
    /\ c \in signedIn
    /\ signedIn' = signedIn \ {c}
    /\ conn' = [k \in Connections |->
                  IF client[c].on = k THEN [conn[k] EXCEPT !.authorized = FALSE] ELSE conn[k]]
    /\ UNCHANGED <<value, pending, running, hub, client>>

SignIn(c) ==
    /\ c \notin signedIn
    /\ signedIn' = signedIn \cup {c}
    /\ UNCHANGED <<value, pending, running, hub, conn, client, faults>>

-----------------------------------------------------------------------------
(* The generator of a connection.  Its client may have gone: then what it   *)
(* yields fails, and it unsubscribes.                                       *)

Owners(k) == {c \in Clients : client[c].on = k}

\* The subscriber leaves the hub; its client, if still there, finds the end of the stream.
End(k, mode) ==
    /\ conn' = [conn EXCEPT ![k] = Free]
    /\ client' = [c \in Clients |->
                    IF c \in Owners(k) THEN [client[c] EXCEPT !.mode = mode, !.on = None]
                    ELSE client[c]]

\* What a client does with a frame: show it and remember its id.
Show(k, id, val) ==
    client' = [c \in Clients |->
                 IF c \in Owners(k) THEN [client[c] EXCEPT !.lastId = id, !.view = val]
                 ELSE client[c]]

\* Mutant: the snapshot is what the hub has published last.
ReadPublished(k) ==
    /\ conn[k].stage = "subscribed"
    /\ conn' = [conn EXCEPT ![k].stage = "ready",
                            ![k].snapshot = IF hub.buffer = <<>> THEN 0 ELSE Last(hub.buffer).val]
    /\ UNCHANGED <<value, pending, running, hub, client, signedIn, faults>>

ReadSnapshot(k) ==
    /\ conn[k].stage = "subscribed"
    /\ conn' = [conn EXCEPT ![k].stage = "ready", ![k].snapshot = value]
    /\ UNCHANGED <<value, pending, running, hub, client, signedIn, faults>>

\* An exception of the snapshot's queries: the response is an error, and nobody
\* unsubscribes.
FailSnapshot(k) ==
    /\ Fault
    /\ conn[k].stage = "subscribed"
    /\ conn' = [conn EXCEPT ![k].stage = "abandoned"]
    /\ client' = [c \in Clients |->
                    IF c \in Owners(k) THEN [client[c] EXCEPT !.mode = "failed", !.on = None]
                    ELSE client[c]]
    /\ UNCHANGED <<value, pending, running, hub, signedIn>>

\* The first frame, with id 0.
SendSnapshot(k) ==
    /\ conn[k].stage = "ready"
    /\ Owners(k) # {}
    /\ conn' = [conn EXCEPT ![k].stage = "streaming"]
    /\ Show(k, 0, conn[k].snapshot)
    /\ UNCHANGED <<value, pending, running, hub, signedIn, faults>>

\* _session_check: always true once the hub is shut down.
SessionHolds(k) == hub.closed \/ conn[k].authorized

\* frames: the next item of the queue.
Send(k) ==
    /\ conn[k].stage = "streaming"
    /\ conn[k].queue # <<>>
    /\ Owners(k) # {}
    /\ LET frame == Head(conn[k].queue)
       IN  \/ /\ frame = None
              /\ End(k, "waiting")
           \/ /\ frame # None
              /\ frame.final
              /\ End(k, "ended")           \* the page closes its EventSource
           \/ /\ frame # None
              /\ ~frame.final
              /\ ~SessionHolds(k)
              /\ End(k, "expired")         \* stream.error
           \/ /\ frame # None
              /\ ~frame.final
              /\ SessionHolds(k)
              /\ conn' = [conn EXCEPT ![k].queue = Tail(@), ![k].last = frame.id]
              /\ Show(k, frame.id, frame.val)
    /\ UNCHANGED <<value, pending, running, hub, signedIn, faults>>

\* Mutant: a drained subscriber that was dropped waits on.
IdleForever(k) ==
    /\ conn[k].stage = "streaming"
    /\ conn[k].queue = <<>>
    /\ Owners(k) # {}
    /\ ~SessionHolds(k)
    /\ End(k, "expired")
    /\ UNCHANGED <<value, pending, running, hub, signedIn, faults>>

\* frames: the queue stays empty.
Idle(k) ==
    /\ conn[k].stage = "streaming"
    /\ conn[k].queue = <<>>
    /\ Owners(k) # {}
    /\ \/ conn[k].closed /\ End(k, "waiting")
       \/ ~conn[k].closed /\ ~SessionHolds(k) /\ End(k, "expired")
    /\ UNCHANGED <<value, pending, running, hub, signedIn, faults>>

Unsubscribe(k) ==
    /\ conn[k].stage \in {"ready", "streaming"}
    /\ Owners(k) = {}
    /\ End(k, "waiting")
    /\ UNCHANGED <<value, pending, running, hub, signedIn, faults>>

-----------------------------------------------------------------------------
(* The manager. *)

ShutDown ==
    LET frame == [id |-> hub.next, val |-> value, final |-> TRUE]
    IN  /\ Fault
        /\ running
        /\ ~hub.closed
        /\ hub' = [(IF hub.known THEN Numbered(hub, frame) ELSE hub) EXCEPT !.closed = TRUE]
        /\ conn' = [k \in Connections |->
                      IF conn[k].listed
                      THEN [Close(Put(conn[k], frame)) EXCEPT !.listed = FALSE]
                      ELSE conn[k]]
        /\ UNCHANGED <<value, pending, running, client, signedIn>>

\* The process ends, by itself after a shutdown or by a crash.
Exit ==
    /\ Fault
    /\ running
    /\ running' = FALSE
    /\ pending' = [p \in Publishers |-> None]
    /\ hub' = FreshHub
    /\ conn' = [k \in Connections |-> Free]
    /\ client' = [c \in Clients |->
                    IF client[c].on # None THEN [client[c] EXCEPT !.mode = "waiting", !.on = None]
                    ELSE client[c]]
    /\ UNCHANGED <<value, signedIn>>

Restart ==
    /\ ~running
    /\ running' = TRUE
    /\ UNCHANGED <<value, pending, hub, conn, client, signedIn, faults>>

-----------------------------------------------------------------------------
Generate(k) ==
    \/ ReadSnapshot(k)
    \/ SendSnapshot(k)
    \/ Send(k)
    \/ Idle(k)
    \/ Unsubscribe(k)

Next ==
    \/ \E p \in Publishers : Commit(p) \/ Publish(p)
    \/ \E c \in Clients :
          Open(c) \/ Connect(c) \/ Refuse(c) \/ LoseConnection(c) \/ Expire(c) \/ SignIn(c)
    \/ \E k \in Connections : Generate(k) \/ FailSnapshot(k)
    \/ ShutDown
    \/ Exit
    \/ Restart

Spec == Init /\ [][Next]_vars

\* The manager's threads keep running, and an EventSource keeps trying.
FairSpec ==
    /\ Spec
    /\ \A p \in Publishers : WF_vars(Publish(p))
    /\ \A k \in Connections : WF_vars(Generate(k))
    /\ \A c \in Clients : WF_vars(Connect(c) \/ Refuse(c))

-----------------------------------------------------------------------------
\* What is in a subscriber's queue continues what was taken from it, without a hole, up
\* to the mark of its end, and reaches to the newest event as long as the hub lists it
\* (put drops a subscriber, never a frame; subscribe replays and lists it under one lock).
FramesContinue ==
    \A k \in Connections :
        LET queue == conn[k].queue
            last == conn[k].last
        IN  /\ \A i \in 1 .. Len(queue) :
                 IF queue[i] = None THEN i = Len(queue)
                 ELSE i > 1 => queue[i].id = queue[i - 1].id + 1
            /\ queue # <<>> /\ last # None => queue[1] = None \/ queue[1].id = last + 1
            /\ conn[k].listed =>
                 /\ queue # <<>> => Last(queue) # None /\ Last(queue).id = hub.next - 1
                 /\ queue = <<>> /\ last # None => last = hub.next - 1

\* Within one connection, and from the connection before when the replay buffer reaches
\* back to it, a client is sent every event, once and in order.
InOrder ==
    [][\A k \in Connections :
         /\ conn'[k].stage = "streaming"
         /\ Len(conn'[k].queue) < Len(conn[k].queue)
         /\ conn[k].last # None
         => conn'[k].last = conn[k].last + 1]_vars

Drained(c) ==
    LET k == client[c].on
    IN  /\ k # None
        /\ conn[k].stage = "streaming"
        /\ conn[k].listed
        /\ conn[k].queue = <<>>

Quiet == \A p \in Publishers : pending[p] = None

\* Two threads have published in another order than they committed, and nothing since.
Overtaken == hub.buffer # <<>> /\ Last(hub.buffer).val # value

\* A client with nothing left to receive shows the value of the database, whatever was
\* lost before by drops, disconnections and restarts of the manager, or else the last
\* event, when threads overtook each other.
DrainedIsCurrent ==
    \A c \in Clients :
        Drained(c) /\ Quiet =>
            \/ client[c].view = value
            \/ Overtaken /\ client[c].view = Last(hub.buffer).val

\* A client is shown the present, and the queue it drains is how it got there.
StreamsAreWhole == FramesContinue /\ DrainedIsCurrent

\* A client that keeps its EventSource shows the value of the database again and again,
\* so for good once the changes cease: also after being dropped with a full queue, or
\* having shown old events that were replayed after a newer snapshot.
ClientsCatchUp ==
    \A c \in Clients :
        []<>(\/ client[c].view = value
             \/ client[c].mode \notin {"waiting", "open"}
             \/ ~running
             \/ Overtaken)
=============================================================================
