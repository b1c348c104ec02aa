----------------------------- MODULE LogTailing -----------------------------
(***************************************************************************)
(* The output of one game server on its way to the browsers: a reader      *)
(* thread per channel (ProcessLineReader), its ring buffer with one        *)
(* subscription and that one's worker (RingBuffer, Subscription), the      *)
(* session's log files (DurableSessionLog), the tail that the start of a   *)
(* world attaches (PosixProcessAdapter.tail, WorldsService), and           *)
(* LogFanout, which numbers the lines and publishes them.                  *)
(*                                                                         *)
(* A line is its number in its channel.  Lines that the filter suppresses  *)
(* are read and have no number.                                            *)
(***************************************************************************)
EXTENDS Naturals, Sequences, FiniteSets, SequencesExt

CONSTANTS Channels,     \* stdout and stderr
          Starter,      \* the thread that starts the world
          PipeLimit,    \* lines the pipe of a channel holds
          BufferLimit,  \* maxlen of a ring buffer
          QueueLimit,   \* _SUBSCRIBER_QUEUE_CAPACITY
          FanoutLimit,  \* maxlen of the lines LogFanout keeps
          MaxLines,     \* bound on the lines the server writes
          MaxFaults     \* bound on reads and writes that fail

ASSUME LimitsAssumption ==
    /\ {PipeLimit, BufferLimit, QueueLimit, FanoutLimit} \subseteq Nat \ {0}
    /\ MaxLines \in Nat /\ MaxFaults \in Nat

ASSUME StarterAssumption == Starter \notin Channels

\* The threads that call LogFanout.append: the workers and the tail's own.
Callers == Channels \cup {Starter}

VARIABLES
    alive,      \* whether the server runs
    emitted,    \* lines the server has written
    pipe,       \* per channel: lines written and not read
    reader,     \* per channel: what its reader does next, and for whom
    next,       \* per channel: _next_line_no of the ring buffer
    buffer,     \* per channel: the lines the ring buffer holds
    disk,       \* per channel: lines in the session's file and in the channel's own
    sub,        \* per channel: its subscription
    tail,       \* where the tail's thread is
    call,       \* per caller: where it is in LogFanout.append
    fan,        \* LogFanout: the last number, and the lines kept
    published,  \* the events of the world's log stream, by channel
    faults

server == <<alive, emitted>>
vars == <<server, pipe, reader, next, buffer, disk, sub, tail, call, fan, published, faults>>

\* replayed is where the lines the tail replayed end, first is the first line that the
\* subscription is given; both are history.
NoSubscription == [on |-> FALSE, queue |-> <<>>, dropped |-> 0, replayed |-> 0, first |-> 0]

NoCall == [pc |-> "idle", channel |-> Starter, line |-> 0, number |-> 0]

Init ==
    /\ alive = TRUE
    /\ emitted = 0
    /\ pipe = [c \in Channels |-> 0]
    /\ reader = [c \in Channels |-> [pc |-> "read", submits |-> FALSE]]
    /\ next = [c \in Channels |-> 0]
    /\ buffer = [c \in Channels |-> <<>>]
    /\ disk = [c \in Channels |-> [session |-> 0, own |-> 0]]
    /\ sub = [c \in Channels |-> NoSubscription]
    /\ tail = [pc |-> "replay", todo |-> Channels, channel |-> Starter, lines |-> <<>>]
    /\ call = [t \in Callers |-> NoCall]
    /\ fan = [number |-> 0, lines |-> <<>>]
    /\ published = [c \in Channels |-> <<>>]
    /\ faults = 0

\* Mutated form: a deque without a maxlen.
KeepAll(limit, seq, item) == Append(seq, item)

\* A deque with a maxlen.
Keep(limit, seq, item) ==
    LET all == Append(seq, item) IN IF Len(all) > limit THEN Tail(all) ELSE all

-----------------------------------------------------------------------------
(* The server.                                                             *)

\* Writing to a full pipe blocks the server.
Emit(c) ==
    /\ alive /\ emitted < MaxLines /\ pipe[c] < PipeLimit
    /\ emitted' = emitted + 1
    /\ pipe' = [pipe EXCEPT ![c] = @ + 1]
    /\ UNCHANGED <<alive, reader, next, buffer, disk, sub, tail, call, fan, published, faults>>

Exit ==
    /\ alive
    /\ alive' = FALSE
    /\ UNCHANGED <<emitted, pipe, reader, next, buffer, disk, sub, tail, call, fan,
                   published, faults>>

-----------------------------------------------------------------------------
(* The reader of a channel.                                                *)

Proceed(c, step) == reader' = [reader EXCEPT ![c].pc = step]

\* A line is numbered and kept, and the subscribers to be given it are listed.
BufferLine(c) ==
    /\ next' = [next EXCEPT ![c] = @ + 1]
    /\ buffer' = [buffer EXCEPT ![c] = Keep(BufferLimit, @, next[c])]
    /\ reader' = [reader EXCEPT ![c] = [pc |-> "submit", submits |-> sub[c].on]]

Read(c) ==
    /\ reader[c].pc = "read"
    /\ \/ /\ pipe[c] > 0
          /\ pipe' = [pipe EXCEPT ![c] = @ - 1]
          /\ \/ BufferLine(c)
             \/ UNCHANGED <<next, buffer, reader>>      \* suppressed
          /\ UNCHANGED faults
       \/ /\ pipe[c] = 0 /\ ~alive
          /\ Proceed(c, "ended")
          /\ UNCHANGED <<pipe, next, buffer, faults>>
       \/ /\ faults < MaxFaults
          /\ faults' = faults + 1
          /\ Proceed(c, "ended")
          /\ UNCHANGED <<pipe, next, buffer>>
    /\ UNCHANGED <<server, disk, sub, tail, call, fan, published>>

\* Mutated form: the subscribers are listed when the line is submitted.
ListedNow(c) == sub[c].on

\* The subscribers are those there were when the line was buffered.
Listed(c) == reader[c].submits

\* Mutated form: what is dropped is not counted.
OfferedUncounted(s, line) ==
    IF Len(s.queue) < QueueLimit THEN [s EXCEPT !.queue = Append(@, line)] ELSE s

\* A full queue drops the line and counts it.
Offered(s, line) ==
    IF Len(s.queue) < QueueLimit THEN [s EXCEPT !.queue = Append(@, line)]
                                 ELSE [s EXCEPT !.dropped = @ + 1]

Submit(c) ==
    /\ reader[c].pc = "submit"
    /\ Proceed(c, "persist")
    /\ sub' = [sub EXCEPT ![c] = IF Listed(c) THEN Offered(@, next[c] - 1) ELSE @]
    /\ UNCHANGED <<server, pipe, next, buffer, disk, tail, call, fan, published, faults>>

\* The session's file comes before the channel's.
Written(d) == [session |-> d.session + 1, own |-> d.own + 1]

\* A write that fails ends the thread.
Persist(c) ==
    /\ reader[c].pc = "persist"
    /\ \/ /\ disk' = [disk EXCEPT ![c] = Written(@)]
          /\ Proceed(c, "read")
          /\ UNCHANGED faults
       \/ /\ faults < MaxFaults
          /\ faults' = faults + 1
          /\ \E written \in {0, 1} : disk' = [disk EXCEPT ![c].session = @ + written]
          /\ Proceed(c, "dead")
    /\ UNCHANGED <<server, pipe, next, buffer, sub, tail, call, fan, published>>

-----------------------------------------------------------------------------
(* The workers, and the tail that the start of the world attaches.         *)

Deliver(t, c, line) ==
    call' = [call EXCEPT ![t] = [pc |-> "number", channel |-> c, line |-> line, number |-> 0]]

Take(c) ==
    /\ call[c].pc = "idle" /\ sub[c].queue # <<>>
    /\ Deliver(c, c, Head(sub[c].queue))
    /\ sub' = [sub EXCEPT ![c].queue = Tail(@)]
    /\ UNCHANGED <<server, pipe, reader, next, buffer, disk, tail, fan, published, faults>>

\* The lines a channel holds, for since_offset 0.
Replay(c) ==
    /\ tail.pc = "replay" /\ c \in tail.todo /\ call[Starter].pc = "idle"
    /\ tail' = [pc |-> "deliver", todo |-> tail.todo \ {c}, channel |-> c, lines |-> buffer[c]]
    /\ sub' = [sub EXCEPT ![c].replayed = next[c]]
    /\ UNCHANGED <<server, pipe, reader, next, buffer, disk, call, fan, published, faults>>

ReplayLine ==
    /\ tail.pc = "deliver" /\ call[Starter].pc = "idle"
    /\ IF tail.lines # <<>>
       THEN /\ Deliver(Starter, tail.channel, Head(tail.lines))
            /\ tail' = [tail EXCEPT !.lines = Tail(@)]
       ELSE /\ tail' = IF tail.todo # {} THEN [tail EXCEPT !.pc = "replay"]
                       ELSE [tail EXCEPT !.pc = "subscribe", !.todo = Channels]
            /\ UNCHANGED call
    /\ UNCHANGED <<server, pipe, reader, next, buffer, disk, sub, fan, published, faults>>

Subscribe(c) ==
    /\ tail.pc = "subscribe" /\ c \in tail.todo
    /\ tail' = [tail EXCEPT !.todo = @ \ {c}]
    /\ sub' = [sub EXCEPT ![c].on = TRUE, ![c].first = next[c]]
    /\ UNCHANGED <<server, pipe, reader, next, buffer, disk, call, fan, published, faults>>

-----------------------------------------------------------------------------
(* LogFanout.append, which takes no lock.                                  *)

Entry(t) == [channel |-> call[t].channel, line |-> call[t].line, number |-> call[t].number]

ReadNumber(t) ==
    /\ call[t].pc = "number"
    /\ call' = [call EXCEPT ![t].pc = "set", ![t].number = fan.number + 1]
    /\ UNCHANGED <<server, pipe, reader, next, buffer, disk, sub, tail, fan, published, faults>>

SetNumber(t) ==
    /\ call[t].pc = "set"
    /\ call' = [call EXCEPT ![t].pc = "store"]
    /\ fan' = [fan EXCEPT !.number = call[t].number]
    /\ UNCHANGED <<server, pipe, reader, next, buffer, disk, sub, tail, published, faults>>

Store(t) ==
    /\ call[t].pc = "store"
    /\ call' = [call EXCEPT ![t].pc = "publish"]
    /\ fan' = [fan EXCEPT !.lines = Keep(FanoutLimit, @, Entry(t))]
    /\ UNCHANGED <<server, pipe, reader, next, buffer, disk, sub, tail, published, faults>>

Publish(t) ==
    /\ call[t].pc = "publish"
    /\ call' = [call EXCEPT ![t] = NoCall]
    /\ published' = [published EXCEPT ![call[t].channel] = Append(@, Entry(t))]
    /\ UNCHANGED <<server, pipe, reader, next, buffer, disk, sub, tail, fan, faults>>

-----------------------------------------------------------------------------
\* Mutated form: a full queue is waited for.
ReaderWaiting(c) ==
    \/ Read(c) \/ Persist(c)
    \/ (Listed(c) => Len(sub[c].queue) < QueueLimit) /\ Submit(c)

Reader(c) == Read(c) \/ Submit(c) \/ Persist(c)

Fanout(t) == ReadNumber(t) \/ SetNumber(t) \/ Store(t) \/ Publish(t)

Worker(c) == Take(c) \/ Fanout(c)

Tailer == (\E c \in Channels : Replay(c) \/ Subscribe(c)) \/ ReplayLine \/ Fanout(Starter)

Next ==
    \/ Exit \/ Tailer
    \/ \E c \in Channels : Emit(c) \/ Reader(c) \/ Worker(c)

Spec == Init /\ [][Next]_vars

\* The readers only: subscribers may be as slow as they like.
FairSpec == Spec /\ \A c \in Channels : WF_vars(Reader(c))

-----------------------------------------------------------------------------
(* Properties.                                                             *)

Line == [channel : Channels, line : Nat, number : Nat]

\* Type invariant: a ring buffer holds the newest lines, a queue is bounded.
TypeOK ==
    /\ alive \in BOOLEAN /\ emitted \in 0 .. MaxLines
    /\ pipe \in [Channels -> 0 .. PipeLimit]
    /\ reader \in [Channels -> [pc : {"read", "submit", "persist", "ended", "dead"},
                                submits : BOOLEAN]]
    /\ next \in [Channels -> 0 .. emitted]
    /\ \A c \in Channels :
          /\ Len(buffer[c]) = IF next[c] < BufferLimit THEN next[c] ELSE BufferLimit
          /\ \A i \in DOMAIN buffer[c] : buffer[c][i] = next[c] - Len(buffer[c]) + i - 1
          /\ sub[c].queue \in Seq(Nat) /\ Len(sub[c].queue) <= QueueLimit
    /\ disk \in [Channels -> [session : Nat, own : Nat]]
    /\ tail.pc \in {"replay", "deliver", "subscribe"} /\ tail.todo \subseteq Channels
    /\ \A t \in Callers :
          call[t].pc \in {"idle", "number", "set", "store", "publish"}
    /\ fan.number \in Nat /\ fan.lines \in Seq(Line) /\ Len(fan.lines) <= FanoutLimit
    /\ published \in [Channels -> Seq(Line)]
    /\ faults \in 0 .. MaxFaults

\* The browsers get the lines of a channel in order and each once, although the tail's
\* thread replays what the channel holds and a worker delivers what comes later.
LinesKeepTheirOrder ==
    \A c \in Channels : \A i, j \in DOMAIN published[c] :
        i < j => published[c][i].line < published[c][j].line

Arrived(c) == {e.line : e \in ToSet(published[c])}

Underway(c) ==
    ToSet(sub[c].queue)
    \cup {call[t].line : t \in {u \in Callers : call[u].pc # "idle" /\ call[u].channel = c}}
    \cup (IF tail.channel = c THEN ToSet(tail.lines) ELSE {})
    \cup (IF reader[c].pc = "submit" /\ reader[c].submits THEN {next[c] - 1} ELSE {})

\* A line that does not reach the browsers had left the ring buffer before the replay,
\* came between the replay and the subscription (tail does both in two steps), or was
\* dropped by a full queue, and these are counted one by one.
LossesAreExplained ==
    \A c \in Channels :
        LET lost(lines) == lines \ (Arrived(c) \cup Underway(c)) IN
        /\ \A n \in lost(0 .. sub[c].replayed - 1) : n < sub[c].replayed - BufferLimit
        /\ sub[c].on =>
              Cardinality(lost(sub[c].first .. next[c] - 1)) = sub[c].dropped

\* A line the browsers may have seen is in both files of the session, but for the newest
\* of its channel, which its reader has yet to write or died writing.
OnlyTheNewestIsUnwritten ==
    \A c \in Channels :
        /\ disk[c].own <= disk[c].session
        /\ disk[c].own < next[c] =>
              /\ disk[c].own = next[c] - 1
              /\ reader[c].pc \in {"submit", "persist", "dead"}

\* LogFanout numbers without a lock, which is right while the server writes to one
\* channel: the tail's thread and the worker never deliver at the same time.
OneChannelIsNumbered ==
    \A c \in Channels : (\A d \in Channels \ {c} : next[d] = 0) =>
        \A i \in DOMAIN published[c] : published[c][i].number = i

\* The stream is in order; with one channel, in that of its numbers.
StreamIsInOrder == LinesKeepTheirOrder /\ OneChannelIsNumbered

\* A line is shown, or its loss is explained; either way it is on disk.
LinesAreAccounted == LossesAreExplained /\ OnlyTheNewestIsUnwritten

\* However slow a subscriber is, what the server writes is read, unless the reader has
\* ended: the server is never kept waiting by a browser.
PipesAreDrained ==
    \A c \in Channels : pipe[c] > 0 ~> pipe[c] = 0 \/ reader[c].pc \in {"ended", "dead"}
=============================================================================
