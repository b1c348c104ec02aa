--------------------------- MODULE LogTailingProofs ---------------------------
(***************************************************************************)
(* That the lines of a server reach the browsers in order, and that every  *)
(* one that does not is accounted for: for any channels, any sizes of the  *)
(* buffers and queues and any number of lines and faults.                  *)
(***************************************************************************)
EXTENDS LogTailing, Integers, FiniteSetTheorems, TLAPS

ReaderState == [pc : {"read", "submit", "persist", "ended", "dead"}, submits : BOOLEAN]
File == [session : Nat, own : Nat]
Sub == [on : BOOLEAN, queue : Seq(Nat), dropped : Nat, replayed : Nat, first : Nat]
Tailing == [pc : {"replay", "deliver", "subscribe"}, todo : SUBSET Channels,
            channel : Callers, lines : Seq(Nat)]
Call == [pc : {"idle", "number", "set", "store", "publish"}, channel : Callers,
         line : Nat, number : Nat]

\* The newest lines of the n a channel has had.
Window(s, n) ==
    /\ s \in Seq(Nat)
    /\ Len(s) = IF n < BufferLimit THEN n ELSE BufferLimit
    /\ \A i \in DOMAIN s : s[i] = n - Len(s) + i - 1

Busy(t) == call[t].pc # "idle"

Typed ==
    /\ alive \in BOOLEAN /\ emitted \in 0 .. MaxLines
    /\ pipe \in [Channels -> 0 .. PipeLimit]
    /\ reader \in [Channels -> ReaderState]
    /\ next \in [Channels -> Nat]
    /\ \A c \in Channels : reader[c].pc \in {"submit", "persist"} => next[c] > 0
    /\ \A c \in Channels : pipe[c] + next[c] <= emitted
    /\ buffer \in [Channels -> Seq(Nat)]
    /\ \A c \in Channels : Window(buffer[c], next[c])
    /\ disk \in [Channels -> File]
    /\ sub \in [Channels -> Sub]
    /\ \A c \in Channels : Len(sub[c].queue) <= QueueLimit
    /\ tail \in Tailing
    /\ tail.pc = "deliver" => tail.channel \in Channels
    /\ call \in [Callers -> Call]
    /\ \A t \in Callers : Busy(t) => call[t].channel \in Channels
    /\ fan \in [number : Nat, lines : Seq(Line)] /\ Len(fan.lines) <= FanoutLimit
    /\ published \in [Channels -> Seq(Line)]
    /\ faults \in 0 .. MaxFaults

\* Who has a channel's lines in hand: its worker once the channel is subscribed to, and
\* before that the tail's thread, one channel at a time.
Turns ==
    /\ \A c \in Channels : Busy(c) => call[c].channel = c
    /\ Busy(Starter) => tail.pc = "deliver" /\ call[Starter].channel = tail.channel
    /\ tail.pc # "deliver" => tail.lines = <<>>
    /\ tail.pc = "deliver" => tail.channel \notin tail.todo
    /\ \A c \in Channels :
          /\ sub[c].on => tail.pc = "subscribe" /\ c \notin tail.todo
          /\ ~sub[c].on => /\ ~Busy(c) /\ sub[c].queue = <<>>
                           /\ ~(reader[c].pc = "submit" /\ reader[c].submits)
          /\ tail.pc # "subscribe" /\ c \in tail.todo => published[c] = <<>>

\* The lines of s rise, from above low to below high.
Rises(s, low, high) ==
    /\ \A i \in DOMAIN s : low < s[i] /\ s[i] < high
    /\ \A i, j \in DOMAIN s : i < j => s[i] < s[j]

Shown(c) == \A i, j \in DOMAIN published[c] :
               i < j => published[c][i].line < published[c][j].line

\* Every line shown is below n.
Above(c, n) == \A i \in DOMAIN published[c] : published[c][i].line < n

\* The newest line a queue may hold is the one its reader has not submitted.
Ceiling(c) ==
    IF reader[c].pc = "submit" /\ reader[c].submits THEN next[c] - 1 ELSE next[c]

\* The line before the first of a queue or of the tail's.
Floor(t) == IF Busy(t) THEN call[t].line ELSE 0 - 1

OrderedAt(c) ==
    /\ Shown(c) /\ Above(c, Ceiling(c))
    /\ \A t \in Callers : Busy(t) /\ call[t].channel = c =>
          call[t].line < Ceiling(c) /\ Above(c, call[t].line)
    /\ Rises(sub[c].queue, Floor(c), Ceiling(c))
    /\ \A i \in DOMAIN sub[c].queue : Above(c, sub[c].queue[i])
    /\ tail.channel = c =>
          /\ Rises(tail.lines, Floor(Starter), next[c])
          /\ \A i \in DOMAIN tail.lines : Above(c, tail.lines[i])

\* On the way from the ring buffer to the browsers no line overtakes another.
Ordered == \A c \in Channels : OrderedAt(c)

Alone(c) == \A d \in Channels \ {c} : next[d] = 0

\* With one channel, the last number is that of the last line shown, or of the one line
\* that is between its number and its event.
NumberedAt(c) ==
    /\ \A i \in DOMAIN published[c] : published[c][i].number = i
    /\ (\A t \in Callers : ~Busy(t)) => fan.number = Len(published[c])
    /\ \A t \in Callers : Busy(t) =>
          /\ call[t].pc # "number" => call[t].number = Len(published[c]) + 1
          /\ fan.number = IF call[t].pc \in {"number", "set"} THEN Len(published[c])
                                                              ELSE Len(published[c]) + 1

Numbered == \A c \in Channels : Alone(c) => NumberedAt(c)

-----------------------------------------------------------------------------
(* Sequences.                                                              *)

\* A deque with a maxlen keeps to it.
LEMMA KeepBounded ==
    ASSUME NEW S, NEW s \in Seq(S), NEW x \in S, NEW n \in Nat \ {0}, Len(s) <= n
    PROVE  Keep(n, s, x) \in Seq(S) /\ Len(Keep(n, s, x)) <= n
BY DEF Keep

\* The places of the lines, in a buffer that moves on by one line or grows by one.
LEMMA Places ==
    ASSUME NEW n \in Nat, NEW l \in Nat, NEW i \in Nat
    PROVE  /\ n - l + i = (n + 1) - l + i - 1
           /\ n - l + i - 1 = (n + 1) - (l + 1) + i - 1
OBVIOUS

\* A ring buffer holds the newest lines.
LEMMA KeepWindow ==
    ASSUME NEW n \in Nat, NEW s, Window(s, n)
    PROVE  Window(Keep(BufferLimit, s, n), n + 1)
<1> DEFINE all == Append(s, n)
           last == Tail(all)
<1>1. /\ BufferLimit \in Nat \ {0} /\ s \in Seq(Nat) /\ Len(s) \in Nat
      /\ Len(s) = IF n < BufferLimit THEN n ELSE BufferLimit
      /\ \A i \in 1 .. Len(s) : s[i] = n - Len(s) + i - 1
  BY LimitsAssumption DEF Window
<1>2. /\ all \in Seq(Nat) /\ Len(all) = Len(s) + 1 /\ all[Len(s) + 1] = n
      /\ \A i \in 1 .. Len(s) : all[i] = s[i]
  BY <1>1
<1>3. /\ last \in Seq(Nat) /\ Len(last) = Len(s)
      /\ \A i \in 1 .. Len(s) : last[i] = all[i + 1]
  BY <1>2
<1>4. Keep(BufferLimit, s, n) = IF Len(all) > BufferLimit THEN last ELSE all
  BY DEF Keep
<1> HIDE DEF all, last
<1>5. ASSUME NEW i \in 1 .. Len(s) + 1
      PROVE  all[i] = n - Len(s) + i - 1
  <2>1. CASE i \in 1 .. Len(s)
    BY <1>1, <1>2, <2>1
  <2>2. CASE i = Len(s) + 1
    BY <1>1, <1>2, <2>2
  <2>3. QED
    BY <1>1, <2>1, <2>2
<1>6. ASSUME NEW i \in 1 .. Len(s)
      PROVE  last[i] = n - Len(s) + i
  <2>1. i + 1 \in 1 .. Len(s) + 1
    BY <1>1
  <2>2. all[i + 1] = n - Len(s) + (i + 1) - 1
    BY <1>5, <2>1
  <2>3. QED
    BY <1>1, <1>3, <2>2
<1>7. CASE Len(all) > BufferLimit
  <2>1. Keep(BufferLimit, s, n) = last /\ Len(last) = BufferLimit /\ n + 1 >= BufferLimit
    BY <1>1, <1>2, <1>3, <1>4, <1>7
  <2>2. DOMAIN last = 1 .. Len(s) /\ Len(s) = BufferLimit
    BY <1>1, <1>2, <1>3, <1>7
  <2>3. ASSUME NEW i \in DOMAIN last
        PROVE  last[i] = (n + 1) - Len(last) + i - 1
    <3>1. i \in 1 .. Len(s) /\ i \in Nat /\ Len(last) = Len(s)
      BY <1>1, <1>3, <2>2
    <3>2. last[i] = n - Len(s) + i
      BY <1>6, <3>1
    <3>3. n - Len(s) + i = (n + 1) - Len(s) + i - 1
      BY <1>1, <3>1, Places
    <3>4. QED
      BY <3>1, <3>2, <3>3
  <2>4. Len(last) = IF n + 1 < BufferLimit THEN n + 1 ELSE BufferLimit
    BY <1>1, <2>1
  <2>5. Window(last, n + 1)
    BY <1>3, <2>3, <2>4 DEF Window
  <2>6. QED
    BY <2>1, <2>5
<1>8. CASE ~(Len(all) > BufferLimit)
  <2>1. Keep(BufferLimit, s, n) = all /\ Len(all) = n + 1 /\ n + 1 <= BufferLimit
    BY <1>1, <1>2, <1>4, <1>8
  <2>2. DOMAIN all = 1 .. Len(s) + 1 /\ Len(s) = n
    BY <1>1, <1>2, <1>8
  <2>3. ASSUME NEW i \in DOMAIN all
        PROVE  all[i] = (n + 1) - Len(all) + i - 1
    <3>1. i \in 1 .. Len(s) + 1 /\ i \in Nat /\ Len(all) = Len(s) + 1
      BY <1>1, <1>2, <2>2
    <3>2. all[i] = n - Len(s) + i - 1
      BY <1>5, <3>1
    <3>3. n - Len(s) + i - 1 = (n + 1) - (Len(s) + 1) + i - 1
      BY <1>1, <3>1, Places
    <3>4. QED
      BY <3>1, <3>2, <3>3
  <2>4. Len(all) = IF n + 1 < BufferLimit THEN n + 1 ELSE BufferLimit
    BY <1>1, <2>1
  <2>5. Window(all, n + 1)
    BY <1>2, <2>3, <2>4 DEF Window
  <2>6. QED
    BY <2>1, <2>5
<1>9. QED
  BY <1>7, <1>8

LEMMA ToSetAppend ==
    ASSUME NEW S, NEW s \in Seq(S), NEW x \in S
    PROVE  ToSet(Append(s, x)) = ToSet(s) \cup {x}
<1>1. /\ Append(s, x) \in Seq(S) /\ DOMAIN Append(s, x) = 1 .. Len(s) + 1 /\ DOMAIN s = 1 .. Len(s)
      /\ \A i \in 1 .. Len(s) : Append(s, x)[i] = s[i]
      /\ Append(s, x)[Len(s) + 1] = x
  OBVIOUS
<1>2. QED
  BY <1>1 DEF ToSet

LEMMA ToSetTail ==
    ASSUME NEW S, NEW s \in Seq(S), s # <<>>
    PROVE  ToSet(s) = {Head(s)} \cup ToSet(Tail(s)) /\ Head(s) \in S /\ Tail(s) \in Seq(S)
<1>1. /\ Head(s) = s[1] /\ DOMAIN s = 1 .. Len(s) /\ 1 \in DOMAIN s
      /\ DOMAIN Tail(s) = 1 .. Len(s) - 1
      /\ \A i \in 1 .. Len(s) - 1 : Tail(s)[i] = s[i + 1]
      /\ \A i \in 2 .. Len(s) : s[i] = Tail(s)[i - 1]
      /\ Len(s) \in Nat
  OBVIOUS
<1>2. \A i \in DOMAIN s : i = 1 \/ i - 1 \in DOMAIN Tail(s)
  BY <1>1
<1>3. ToSet(s) \subseteq {Head(s)} \cup ToSet(Tail(s))
  BY <1>1, <1>2 DEF ToSet
<1>4. ToSet(Tail(s)) \subseteq ToSet(s)
  BY <1>1 DEF ToSet
<1>5. QED
  BY <1>1, <1>3, <1>4 DEF ToSet

-----------------------------------------------------------------------------
(* Types.                                                                  *)

\* A queue without its head.
LEMMA Rest ==
    ASSUME NEW S, NEW s \in Seq(S), s # <<>>
    PROVE  /\ Head(s) \in S /\ Tail(s) \in Seq(S)
           /\ Len(s) \in Nat /\ Len(Tail(s)) \in Nat /\ Len(Tail(s)) = Len(s) - 1
OBVIOUS

LEMMA Limits ==
    /\ PipeLimit \in Nat \ {0} /\ BufferLimit \in Nat \ {0}
    /\ QueueLimit \in Nat \ {0} /\ FanoutLimit \in Nat \ {0}
    /\ MaxLines \in Nat /\ MaxFaults \in Nat
BY LimitsAssumption

LEMMA InitTyped == Init => Typed
<1> SUFFICES ASSUME Init PROVE Typed
  OBVIOUS
<1>1. /\ <<>> \in Seq(Nat) /\ <<>> \in Seq(Line) /\ Len(<<>>) = 0 /\ DOMAIN <<>> = 1 .. 0
  OBVIOUS
<1>2. Window(<<>>, 0)
  BY <1>1, Limits DEF Window
<1>3. NoSubscription \in Sub /\ NoCall \in Call /\ NoCall.pc = "idle"
  BY <1>1 DEF NoSubscription, NoCall, Sub, Call, Callers
<1>4. /\ [pc |-> "read", submits |-> FALSE] \in ReaderState
      /\ [session |-> 0, own |-> 0] \in File
      /\ [pc |-> "replay", todo |-> Channels, channel |-> Starter, lines |-> <<>>] \in Tailing
      /\ [number |-> 0, lines |-> <<>>] \in [number : Nat, lines : Seq(Line)]
  BY <1>1 DEF ReaderState, File, Tailing, Callers
<1>5. /\ NoSubscription.queue = <<>> /\ tail.pc = "replay" /\ fan.lines = <<>>
  BY DEF Init, NoSubscription
<1>6. \A t \in Callers : ~Busy(t)
  BY <1>3 DEF Init, Busy
<1> HIDE DEF NoSubscription, NoCall
<1>7. QED
  BY <1>1, <1>2, <1>3, <1>4, <1>5, <1>6, Limits DEF Init, Typed

\* A line offered leaves a queue within its bound.
LEMMA OfferedTyped ==
    ASSUME NEW s \in Sub, NEW n \in Nat, Len(s.queue) <= QueueLimit
    PROVE  /\ Offered(s, n) \in Sub /\ Len(Offered(s, n).queue) <= QueueLimit
           /\ Offered(s, n).on = s.on /\ Offered(s, n).replayed = s.replayed
           /\ Offered(s, n).first = s.first
           /\ \/ /\ Offered(s, n).queue = Append(s.queue, n)
                 /\ Offered(s, n).dropped = s.dropped
              \/ /\ Offered(s, n).queue = s.queue
                 /\ Offered(s, n).dropped = s.dropped + 1
<1> DEFINE longer == Append(s.queue, n)
<1>1. longer \in Seq(Nat) /\ Len(longer) = Len(s.queue) + 1 /\ Len(s.queue) \in Nat
  BY DEF Sub
<1>2. CASE Len(s.queue) < QueueLimit
  <2>1. Offered(s, n) = [s EXCEPT !.queue = longer]
    BY <1>2 DEF Offered
  <2> HIDE DEF longer
  <2>2. [s EXCEPT !.queue = longer] \in Sub
    BY <1>1 DEF Sub
  <2>3. /\ [s EXCEPT !.queue = longer].queue = longer
        /\ [s EXCEPT !.queue = longer].on = s.on
        /\ [s EXCEPT !.queue = longer].dropped = s.dropped
        /\ [s EXCEPT !.queue = longer].replayed = s.replayed
        /\ [s EXCEPT !.queue = longer].first = s.first
    BY DEF Sub
  <2>4. Len(longer) <= QueueLimit
    BY <1>1, <1>2, Limits
  <2>5. QED
    BY <2>1, <2>2, <2>3, <2>4 DEF longer
<1>3. CASE ~(Len(s.queue) < QueueLimit)
  BY <1>3 DEF Offered, Sub
<1>4. QED
  BY <1>2, <1>3

\* A reader goes to its next step, for the same subscriber.
LEMMA ProceedTyped ==
    ASSUME Typed, NEW c \in Channels, NEW step \in {"read", "submit", "persist", "ended", "dead"},
           Proceed(c, step)
    PROVE  /\ reader' \in [Channels -> ReaderState]
           /\ reader'[c].pc = step /\ reader'[c].submits = reader[c].submits
           /\ \A d \in Channels \ {c} : reader'[d] = reader[d]
<1>1. reader \in [Channels -> ReaderState] /\ reader[c] \in ReaderState
  BY DEF Typed
<1>2. [reader[c] EXCEPT !.pc = step] \in ReaderState
  BY <1>1 DEF ReaderState
<1>3. [reader[c] EXCEPT !.pc = step].pc = step
      /\ [reader[c] EXCEPT !.pc = step].submits = reader[c].submits
  BY <1>1 DEF ReaderState
<1>4. reader' = [reader EXCEPT ![c] = [reader[c] EXCEPT !.pc = step]]
  BY DEF Proceed
<1>5. QED
  BY <1>1, <1>2, <1>3, <1>4

LEMMA ReaderTyped ==
    ASSUME Typed, NEW c \in Channels, Reader(c)
    PROVE  Typed'
<1>1. /\ pipe[c] \in 0 .. PipeLimit /\ next[c] \in Nat /\ buffer[c] \in Seq(Nat)
      /\ pipe[c] + next[c] <= emitted /\ Window(buffer[c], next[c]) /\ emitted \in Nat
      /\ reader[c] \in ReaderState /\ disk[c] \in File /\ sub[c] \in Sub
      /\ Len(sub[c].queue) <= QueueLimit /\ faults \in 0 .. MaxFaults
  BY Limits DEF Typed
<1>2. CASE Read(c)
  <2>1. /\ UNCHANGED <<alive, emitted, disk, sub, tail, call, fan, published>>
        /\ faults' \in 0 .. MaxFaults
    BY <1>1, <1>2, Limits DEF Read, server
  <2>3. ASSUME BufferLine(c), pipe[c] > 0, pipe' = [pipe EXCEPT ![c] = @ - 1]
        PROVE  Typed'
    <3>1. /\ Window(Keep(BufferLimit, buffer[c], next[c]), next[c] + 1)
          /\ Keep(BufferLimit, buffer[c], next[c]) \in Seq(Nat)
      BY <1>1, KeepWindow DEF Window
    <3>2. /\ buffer' = [buffer EXCEPT ![c] = Keep(BufferLimit, buffer[c], next[c])]
          /\ next' = [next EXCEPT ![c] = @ + 1]
      BY <2>3 DEF BufferLine
    <3>3. [pc |-> "submit", submits |-> sub[c].on] \in ReaderState
      BY <1>1 DEF ReaderState, Sub
    <3>4. reader' \in [Channels -> ReaderState]
      BY <2>3, <3>3 DEF BufferLine, Typed
    <3> HIDE DEF Keep
    <3>5. buffer' \in [Channels -> Seq(Nat)] /\ next' \in [Channels -> Nat]
      BY <1>1, <3>1, <3>2 DEF Typed
    <3>6. \A d \in Channels : Window(buffer'[d], next'[d])
      <4>1. TAKE d \in Channels
      <4>2. CASE d = c
        BY <3>1, <3>2, <4>2 DEF Typed
      <4>3. CASE d # c
        BY <3>2, <4>3 DEF Typed
      <4>4. QED
        BY <4>2, <4>3
    <3>7. /\ \A d \in Channels : pipe'[d] + next'[d] <= emitted
          /\ pipe' \in [Channels -> 0 .. PipeLimit]
      <4>1. pipe[c] - 1 \in 0 .. PipeLimit /\ pipe[c] - 1 + (next[c] + 1) <= emitted
        BY <1>1, <2>3, Limits
      <4>2. /\ pipe \in [Channels -> 0 .. PipeLimit] /\ next \in [Channels -> Nat]
            /\ \A d \in Channels : pipe[d] + next[d] <= emitted
        BY DEF Typed
      <4>3. QED
        BY <2>3, <3>2, <4>1, <4>2
    <3>8. \A d \in Channels : reader'[d].pc \in {"submit", "persist"} => next'[d] > 0
      BY <1>1, <2>3, <3>2 DEF BufferLine, Typed
    <3>9. QED
      BY <2>1, <3>4, <3>5, <3>6, <3>7, <3>8 DEF Typed, Busy, Window
  <2>4. ASSUME UNCHANGED <<next, buffer>>, reader' \in [Channels -> ReaderState],
               \A d \in Channels : reader'[d].pc \in {"submit", "persist"} => reader'[d] = reader[d],
               pipe' = pipe \/ (pipe[c] > 0 /\ pipe' = [pipe EXCEPT ![c] = @ - 1])
        PROVE  Typed'
    <3>1. ASSUME pipe[c] > 0, pipe' = [pipe EXCEPT ![c] = @ - 1]
          PROVE  /\ \A d \in Channels : pipe'[d] + next[d] <= emitted
                 /\ pipe' \in [Channels -> 0 .. PipeLimit]
      <4>1. pipe[c] - 1 \in 0 .. PipeLimit /\ pipe[c] - 1 + next[c] <= emitted
        BY <1>1, <3>1, Limits
      <4>2. QED
        BY <3>1, <4>1 DEF Typed
    <3>2. /\ \A d \in Channels : pipe'[d] + next[d] <= emitted
          /\ pipe' \in [Channels -> 0 .. PipeLimit]
      BY <2>4, <3>1 DEF Typed
    <3>3. QED
      BY <2>1, <2>4, <3>2 DEF Typed, Busy, Window
  <2>5. ASSUME Proceed(c, "ended"), UNCHANGED <<pipe, next, buffer>>
        PROVE  Typed'
    <3>1. /\ reader' \in [Channels -> ReaderState]
          /\ \A d \in Channels : reader'[d].pc \in {"submit", "persist"} => reader'[d] = reader[d]
      BY <2>5, ProceedTyped
    <3>2. UNCHANGED <<next, buffer>> /\ pipe' = pipe
      BY <2>5
    <3>3. QED
      BY <2>4, <3>1, <3>2
  <2>6. ASSUME UNCHANGED <<next, buffer, reader>>, pipe[c] > 0, pipe' = [pipe EXCEPT ![c] = @ - 1]
        PROVE  Typed'
    BY <2>4, <2>6 DEF Typed
  <2>7. QED
    BY <1>2, <2>3, <2>5, <2>6 DEF Read
<1>3. CASE Submit(c)
  <2>1. next[c] - 1 \in Nat /\ reader[c].pc = "submit"
    BY <1>1, <1>3 DEF Submit, Typed
  <2>2. /\ reader' = [reader EXCEPT ![c].pc = "persist"]
        /\ UNCHANGED <<alive, emitted, pipe, next, buffer, disk, tail, call, fan, published, faults>>
    BY <1>3 DEF Submit, Proceed, server
  <2>3. Proceed(c, "persist") /\ reader' \in [Channels -> ReaderState]
    BY <1>3, ProceedTyped DEF Submit
  <2>4. Offered(sub[c], next[c] - 1) \in Sub /\ Len(Offered(sub[c], next[c] - 1).queue) <= QueueLimit
    BY <1>1, <2>1, OfferedTyped
  <2>5. \A d \in Channels : sub'[d] \in Sub /\ Len(sub'[d].queue) <= QueueLimit
    BY <1>1, <1>3, <2>4 DEF Submit, Typed
  <2>6. sub' \in [Channels -> Sub]
    BY <1>3, <2>5 DEF Submit, Typed
  <2>7. \A d \in Channels : reader'[d].pc \in {"submit", "persist"} => next'[d] > 0
    BY <1>1, <2>1, <2>2, <2>3, ProceedTyped DEF Typed
  <2>8. QED
    BY <2>2, <2>3, <2>5, <2>6, <2>7 DEF Typed, Busy, Window
<1>4. CASE Persist(c)
  <2>1. /\ Written(disk[c]) \in File
        /\ \A n \in {0, 1} : [disk[c] EXCEPT !.session = @ + n] \in File
    BY <1>1 DEF Written, File
  <2>2. \/ disk' = [disk EXCEPT ![c] = Written(disk[c])]
        \/ \E n \in {0, 1} : disk' = [disk EXCEPT ![c] = [disk[c] EXCEPT !.session = @ + n]]
    BY <1>4 DEF Persist, Typed
  <2>3. disk' \in [Channels -> File]
    <3>1. PICK file \in File : disk' = [disk EXCEPT ![c] = file]
      BY <2>1, <2>2
    <3>2. QED
      BY <3>1 DEF Typed
  <2>4. PICK step \in {"read", "dead"} : Proceed(c, step)
    BY <1>4 DEF Persist
  <2>5. reader' \in [Channels -> ReaderState]
    BY <2>4, ProceedTyped
  <2>6. \A d \in Channels : reader'[d].pc \in {"submit", "persist"} => reader'[d] = reader[d]
    BY <2>4, ProceedTyped
  <2>7. /\ UNCHANGED <<alive, emitted, pipe, next, buffer, sub, tail, call, fan, published>>
        /\ faults' \in 0 .. MaxFaults
    BY <1>1, <1>4, Limits DEF Persist, server
  <2>8. QED
    BY <2>3, <2>5, <2>6, <2>7 DEF Typed, Busy, Window
<1>5. QED
  BY <1>2, <1>3, <1>4 DEF Reader

\* The calls of LogFanout.append keep to its channel and its line.
LEMMA FanoutTyped ==
    ASSUME Typed, NEW t \in Callers, Fanout(t)
    PROVE  Typed'
<1>1. /\ call[t] \in Call /\ Busy(t) /\ call[t].channel \in Channels
      /\ fan \in [number : Nat, lines : Seq(Line)] /\ Len(fan.lines) <= FanoutLimit
      /\ call \in [Callers -> Call] /\ published \in [Channels -> Seq(Line)]
  BY DEF Typed, Busy, Fanout, ReadNumber, SetNumber, Store, Publish
<1>2. Entry(t) \in Line
  BY <1>1 DEF Entry, Line, Call
<1>3. UNCHANGED <<alive, emitted, pipe, reader, next, buffer, disk, sub, tail, faults>>
  BY DEF Fanout, ReadNumber, SetNumber, Store, Publish, server
<1>4. ASSUME call' \in [Callers -> Call],
             \A u \in Callers : Busy(u)' => call'[u].channel \in Channels,
             fan' \in [number : Nat, lines : Seq(Line)], Len(fan'.lines) <= FanoutLimit,
             published' \in [Channels -> Seq(Line)]
      PROVE  Typed'
  BY <1>3, <1>4 DEF Typed, Busy, Window
<1>5. CASE ReadNumber(t)
  <2>1. [call[t] EXCEPT !.pc = "set", !.number = fan.number + 1] \in Call
    <3>1. fan.number + 1 \in Nat
      BY <1>1
    <3>2. \A n \in Nat : [call[t] EXCEPT !.pc = "set", !.number = n] \in Call
      BY <1>1 DEF Call
    <3>3. QED
      BY <3>1, <3>2
  <2>2. /\ call' = [call EXCEPT ![t] = [call[t] EXCEPT !.pc = "set", !.number = fan.number + 1]]
        /\ fan' = fan /\ published' = published
    BY <1>5 DEF ReadNumber
  <2>3. [call[t] EXCEPT !.pc = "set", !.number = fan.number + 1].channel = call[t].channel
    BY <1>1 DEF Call
  <2>4. call' \in [Callers -> Call]
    BY <1>1, <2>1, <2>2
  <2>5. \A u \in Callers : Busy(u)' => call'[u].channel \in Channels
    BY <1>1, <2>2, <2>3 DEF Typed, Busy
  <2>6. QED
    BY <1>1, <1>4, <2>2, <2>4, <2>5
<1>6. CASE SetNumber(t) \/ Store(t)
  <2>1. PICK step \in {"store", "publish"} : call' = [call EXCEPT ![t] = [call[t] EXCEPT !.pc = step]]
    BY <1>6 DEF SetNumber, Store
  <2>2. /\ [call[t] EXCEPT !.pc = step] \in Call
        /\ [call[t] EXCEPT !.pc = step].channel = call[t].channel
    BY <1>1 DEF Call
  <2>3. call' \in [Callers -> Call]
    BY <1>1, <2>1, <2>2
  <2>4. \A u \in Callers : Busy(u)' => call'[u].channel \in Channels
    BY <1>1, <2>1, <2>2 DEF Typed, Busy
  <2>5. fan' \in [number : Nat, lines : Seq(Line)] /\ Len(fan'.lines) <= FanoutLimit
    <3>1. CASE SetNumber(t)
      BY <1>1, <3>1 DEF SetNumber, Call
    <3>2. CASE Store(t)
      <4>1. /\ Keep(FanoutLimit, fan.lines, Entry(t)) \in Seq(Line)
            /\ Len(Keep(FanoutLimit, fan.lines, Entry(t))) <= FanoutLimit
        BY <1>1, <1>2, Limits, KeepBounded
      <4>2. fan' = [fan EXCEPT !.lines = Keep(FanoutLimit, fan.lines, Entry(t))]
        BY <3>2 DEF Store
      <4> HIDE DEF Keep, Entry
      <4>3. QED
        BY <1>1, <4>1, <4>2
    <3>3. QED
      BY <1>6, <3>1, <3>2
  <2>6. published' = published
    BY <1>6 DEF SetNumber, Store
  <2>7. QED
    BY <1>1, <1>4, <2>3, <2>4, <2>5, <2>6
<1>7. CASE Publish(t)
  <2>1. NoCall \in Call /\ NoCall.pc = "idle"
    BY DEF NoCall, Call, Callers
  <2>2. call' = [call EXCEPT ![t] = NoCall] /\ fan' = fan
    BY <1>7 DEF Publish
  <2>3. call' \in [Callers -> Call]
    BY <1>1, <2>1, <2>2
  <2>4. \A u \in Callers : Busy(u)' => call'[u].channel \in Channels
    BY <1>1, <2>1, <2>2 DEF Typed, Busy
  <2>5. published' \in [Channels -> Seq(Line)]
    BY <1>1, <1>2, <1>7 DEF Publish
  <2>6. QED
    BY <1>1, <1>4, <2>2, <2>3, <2>4, <2>5
<1>8. QED
  BY <1>5, <1>6, <1>7 DEF Fanout

\* The worker takes the head of its queue.
LEMMA TakeTyped ==
    ASSUME Typed, NEW c \in Channels, Take(c)
    PROVE  Typed'
<1> DEFINE first == Head(sub[c].queue)
           rest == Tail(sub[c].queue)
<1>1. /\ sub[c] \in Sub /\ sub[c].queue \in Seq(Nat) /\ sub[c].queue # <<>>
      /\ Len(sub[c].queue) <= QueueLimit /\ c \in Callers
  BY DEF Typed, Sub, Take, Callers
<1>2. first \in Nat /\ rest \in Seq(Nat) /\ Len(rest) <= Len(sub[c].queue)
      /\ Len(sub[c].queue) \in Nat /\ Len(rest) \in Nat
  BY <1>1, Rest
<1>3. /\ call' = [call EXCEPT ![c] =
                     [pc |-> "number", channel |-> c, line |-> first, number |-> 0]]
      /\ sub' = [sub EXCEPT ![c] = [sub[c] EXCEPT !.queue = rest]]
      /\ UNCHANGED <<alive, emitted, pipe, reader, next, buffer, disk, tail, fan, published, faults>>
  BY DEF Take, Deliver, server
<1> HIDE DEF first, rest
<1>4. /\ [pc |-> "number", channel |-> c, line |-> first, number |-> 0] \in Call
      /\ [sub[c] EXCEPT !.queue = rest] \in Sub
      /\ [sub[c] EXCEPT !.queue = rest].queue = rest
  BY <1>1, <1>2 DEF Call, Sub
<1>5. call' \in [Callers -> Call] /\ \A u \in Callers : Busy(u)' => call'[u].channel \in Channels
  BY <1>1, <1>3, <1>4 DEF Typed, Busy
<1>6. sub' \in [Channels -> Sub]
  BY <1>3, <1>4 DEF Typed
<1>7. Len(rest) <= QueueLimit
  BY <1>1, <1>2, Limits
<1>8. \A d \in Channels : Len(sub'[d].queue) <= QueueLimit
  BY <1>3, <1>4, <1>7 DEF Typed
<1>9. QED
  BY <1>3, <1>5, <1>6, <1>8 DEF Typed, Busy, Window

\* The tail replays a channel's lines and then subscribes.
LEMMA TailerTyped ==
    ASSUME Typed, Tailer
    PROVE  Typed'
<1>1. tail \in Tailing /\ Starter \in Callers
  BY DEF Typed, Callers
<1>2. ASSUME NEW c \in Channels, Replay(c)
      PROVE  Typed'
  <2>1. /\ buffer[c] \in Seq(Nat) /\ next[c] \in Nat /\ sub[c] \in Sub /\ c \in Callers
        /\ Len(sub[c].queue) <= QueueLimit
    BY DEF Typed, Callers
  <2>2. [sub[c] EXCEPT !.replayed = next[c]] \in Sub
        /\ [sub[c] EXCEPT !.replayed = next[c]].queue = sub[c].queue
    BY <2>1 DEF Sub
  <2>3. /\ tail' = [pc |-> "deliver", todo |-> tail.todo \ {c}, channel |-> c, lines |-> buffer[c]]
        /\ sub' = [sub EXCEPT ![c] = [sub[c] EXCEPT !.replayed = next[c]]]
        /\ UNCHANGED <<alive, emitted, pipe, reader, next, buffer, disk, call, fan, published, faults>>
    BY <1>2 DEF Replay, server
  <2>4. tail' \in Tailing /\ tail'.channel \in Channels
    BY <1>1, <2>1, <2>3 DEF Tailing
  <2>5. sub' \in [Channels -> Sub] /\ \A d \in Channels : Len(sub'[d].queue) <= QueueLimit
    BY <2>1, <2>2, <2>3 DEF Typed
  <2>6. QED
    BY <2>3, <2>4, <2>5 DEF Typed, Busy, Window
<1>3. ASSUME NEW c \in Channels, Subscribe(c)
      PROVE  Typed'
  <2>1. next[c] \in Nat /\ sub[c] \in Sub /\ Len(sub[c].queue) <= QueueLimit
    BY DEF Typed
  <2>2. [sub[c] EXCEPT !.on = TRUE, !.first = next[c]] \in Sub
        /\ [sub[c] EXCEPT !.on = TRUE, !.first = next[c]].queue = sub[c].queue
    BY <2>1 DEF Sub
  <2>3. /\ tail' = [tail EXCEPT !.todo = tail.todo \ {c}] /\ tail.pc = "subscribe"
        /\ sub' = [sub EXCEPT ![c] = [sub[c] EXCEPT !.on = TRUE, !.first = next[c]]]
        /\ UNCHANGED <<alive, emitted, pipe, reader, next, buffer, disk, call, fan, published, faults>>
    BY <1>3, <2>1 DEF Subscribe, server, Typed
  <2>4. tail' \in Tailing /\ tail'.pc = "subscribe"
    BY <1>1, <2>3 DEF Tailing
  <2>5. sub' \in [Channels -> Sub] /\ \A d \in Channels : Len(sub'[d].queue) <= QueueLimit
    BY <2>1, <2>2, <2>3 DEF Typed
  <2>6. QED
    BY <2>3, <2>4, <2>5 DEF Typed, Busy, Window
<1>4. ASSUME ReplayLine
      PROVE  Typed'
  <2>1. /\ tail.pc = "deliver" /\ tail.channel \in Channels /\ tail.lines \in Seq(Nat)
        /\ tail.todo \subseteq Channels
    BY <1>1, <1>4 DEF ReplayLine, Typed, Tailing
  <2>2. UNCHANGED <<alive, emitted, pipe, reader, next, buffer, disk, sub, fan, published, faults>>
    BY <1>4 DEF ReplayLine, server
  <2>3. ASSUME tail.lines # <<>>
        PROVE  Typed'
    <3> DEFINE first == Head(tail.lines)
               rest == Tail(tail.lines)
    <3>1. first \in Nat /\ rest \in Seq(Nat)
      BY <2>1, <2>3
    <3>2. /\ call' = [call EXCEPT ![Starter] = [pc |-> "number", channel |-> tail.channel,
                                                line |-> first, number |-> 0]]
          /\ tail' = [tail EXCEPT !.lines = rest]
      BY <1>4, <2>3 DEF ReplayLine, Deliver
    <3> HIDE DEF first, rest
    <3>3. [pc |-> "number", channel |-> tail.channel, line |-> first, number |-> 0] \in Call
      BY <1>1, <3>1 DEF Call, Tailing
    <3>4. call' \in [Callers -> Call]
          /\ \A u \in Callers : Busy(u)' => call'[u].channel \in Channels
      BY <1>1, <2>1, <3>2, <3>3 DEF Typed, Busy
    <3>5. tail' \in Tailing /\ tail'.channel \in Channels
      BY <1>1, <2>1, <3>1, <3>2 DEF Tailing
    <3>6. QED
      BY <2>2, <3>4, <3>5 DEF Typed, Busy, Window
  <2>4. ASSUME tail.lines = <<>>
        PROVE  Typed'
    <3>1. /\ call' = call
          /\ \/ tail' = [tail EXCEPT !.pc = "replay"]
             \/ tail' = [tail EXCEPT !.pc = "subscribe", !.todo = Channels]
      BY <1>4, <2>4 DEF ReplayLine
    <3>2. tail' \in Tailing /\ tail'.pc # "deliver"
      BY <1>1, <3>1 DEF Tailing
    <3>3. QED
      BY <2>2, <3>1, <3>2 DEF Typed, Busy, Window
  <2>5. QED
    BY <2>3, <2>4
<1>5. QED
  BY <1>1, <1>2, <1>3, <1>4, FanoutTyped DEF Tailer

LEMMA NextTyped == Typed /\ [Next]_vars => Typed'
<1> SUFFICES ASSUME Typed, [Next]_vars PROVE Typed'
  OBVIOUS
<1>1. CASE Exit
  BY <1>1 DEF Exit, Typed, Busy, Window
<1>2. ASSUME NEW c \in Channels, Emit(c)
      PROVE  Typed'
  <2>1. /\ emitted \in 0 .. MaxLines /\ emitted < MaxLines /\ emitted' = emitted + 1
        /\ pipe[c] \in 0 .. PipeLimit /\ pipe[c] < PipeLimit
        /\ pipe' = [pipe EXCEPT ![c] = @ + 1]
        /\ UNCHANGED <<alive, reader, next, buffer, disk, sub, tail, call, fan, published, faults>>
    BY <1>2 DEF Emit, Typed
  <2>2. /\ emitted + 1 \in 0 .. MaxLines /\ pipe[c] + 1 \in 0 .. PipeLimit
    BY <2>1, Limits
  <2>3. /\ pipe \in [Channels -> 0 .. PipeLimit] /\ next \in [Channels -> Nat]
        /\ \A d \in Channels : pipe[d] + next[d] <= emitted
    BY DEF Typed
  <2>4. emitted' \in 0 .. MaxLines /\ pipe' \in [Channels -> 0 .. PipeLimit]
    BY <2>1, <2>2, <2>3
  <2>5. \A d \in Channels : pipe'[d] + next'[d] <= emitted'
    <3>1. \A d \in Channels : /\ pipe'[d] = IF d = c THEN pipe[c] + 1 ELSE pipe[d]
                              /\ pipe[d] \in Nat /\ next[d] \in Nat
      BY <2>1, <2>3, Limits
    <3>2. QED
      BY <2>1, <2>3, <3>1
  <2>6. QED
    BY <2>1, <2>4, <2>5 DEF Typed, Busy, Window
<1>3. CASE UNCHANGED vars
  BY <1>3 DEF vars, server, Typed, Busy, Window
<1>4. ASSUME NEW c \in Channels, Worker(c)
      PROVE  Typed'
  BY <1>4, TakeTyped, FanoutTyped DEF Worker, Callers
<1>5. QED
  BY <1>1, <1>2, <1>3, <1>4, ReaderTyped, TailerTyped DEF Next

THEOREM AlwaysTyped == Spec => []Typed
BY InitTyped, NextTyped, PTL DEF Spec

\* Of LogTailing, its type invariant: a ring buffer holds the newest lines and a
\* subscription's queue keeps to its bound, whatever the readers and the tail do.
THEOREM TypeCorrect == Spec => []TypeOK
<1>1. Typed => TypeOK
  <2> SUFFICES ASSUME Typed PROVE TypeOK
    OBVIOUS
  <2>1. next \in [Channels -> 0 .. emitted]
    <3>1. \A c \in Channels : next[c] \in 0 .. emitted
      BY Limits DEF Typed
    <3>2. QED
      BY <3>1 DEF Typed
  <2>2. \A c \in Channels :
           /\ Len(buffer[c]) = IF next[c] < BufferLimit THEN next[c] ELSE BufferLimit
           /\ \A i \in DOMAIN buffer[c] : buffer[c][i] = next[c] - Len(buffer[c]) + i - 1
           /\ sub[c].queue \in Seq(Nat) /\ Len(sub[c].queue) <= QueueLimit
    BY DEF Typed, Window, Sub
  <2>3. /\ tail.pc \in {"replay", "deliver", "subscribe"} /\ tail.todo \subseteq Channels
        /\ \A t \in Callers : call[t].pc \in {"idle", "number", "set", "store", "publish"}
        /\ fan.number \in Nat /\ fan.lines \in Seq(Line)
    BY DEF Typed, Tailing, Call
  <2>4. QED
    BY <2>1, <2>2, <2>3 DEF Typed, TypeOK, ReaderState, File
<1>2. QED
  BY <1>1, AlwaysTyped, PTL

-----------------------------------------------------------------------------
(* What each step does to the lines.                                       *)

\* A reader buffers a line, or submits one to its subscriber, or does neither.
LEMMA ReaderDoes ==
    ASSUME Typed, NEW c \in Channels, Reader(c)
    PROVE  /\ UNCHANGED <<tail, call, fan, published>>
           /\ \A d \in Channels \ {c} :
                 reader'[d] = reader[d] /\ sub'[d] = sub[d] /\ next'[d] = next[d]
           /\ sub'[c].on = sub[c].on
           /\ sub'[c].first = sub[c].first /\ sub'[c].replayed = sub[c].replayed
           /\ \/ /\ reader[c].pc = "read" /\ reader'[c].pc = "submit"
                 /\ reader'[c].submits = sub[c].on
                 /\ next'[c] = next[c] + 1 /\ sub'[c] = sub[c]
              \/ /\ ~(reader[c].pc = "submit" /\ reader[c].submits) /\ reader'[c].pc # "submit"
                 /\ next'[c] = next[c] /\ sub'[c] = sub[c]
              \/ /\ reader[c].pc = "submit" /\ reader[c].submits /\ reader'[c].pc = "persist"
                 /\ next'[c] = next[c] /\ next[c] - 1 \in Nat
                 /\ \/ /\ sub'[c].queue = sub[c].queue
                       /\ sub'[c].dropped = sub[c].dropped + 1
                    \/ /\ sub'[c].queue = Append(sub[c].queue, next[c] - 1)
                       /\ sub'[c].dropped = sub[c].dropped
<1>1. /\ UNCHANGED <<tail, call, fan, published>>
      /\ reader \in [Channels -> ReaderState] /\ sub \in [Channels -> Sub]
      /\ sub[c] \in Sub /\ Len(sub[c].queue) <= QueueLimit
      /\ next \in [Channels -> Nat] /\ next[c] \in Nat
  BY DEF Typed, Reader, Read, Submit, Persist
<1>2. CASE Read(c)
  <2>1. reader[c].pc = "read" /\ sub' = sub
    BY <1>2 DEF Read
  <2>2. ASSUME BufferLine(c)
        PROVE  /\ \A d \in Channels \ {c} : reader'[d] = reader[d] /\ next'[d] = next[d]
               /\ reader'[c].pc = "submit" /\ reader'[c].submits = sub[c].on
               /\ next'[c] = next[c] + 1
    BY <1>1, <2>2 DEF BufferLine
  <2>3. ASSUME Proceed(c, "ended"), UNCHANGED next
        PROVE  /\ \A d \in Channels \ {c} : reader'[d] = reader[d] /\ next'[d] = next[d]
               /\ reader'[c].pc = "ended" /\ next'[c] = next[c]
    BY <2>3, ProceedTyped
  <2>4. CASE BufferLine(c)
    BY <1>1, <2>1, <2>2, <2>4
  <2>5. CASE UNCHANGED <<next, buffer, reader>>
    BY <1>1, <2>1, <2>5
  <2>6. CASE Proceed(c, "ended") /\ UNCHANGED next
    BY <1>1, <2>1, <2>3, <2>6
  <2>7. QED
    BY <1>2, <2>4, <2>5, <2>6 DEF Read
<1>3. CASE Submit(c)
  <2>1. /\ reader[c].pc = "submit" /\ next' = next /\ next[c] - 1 \in Nat
        /\ Proceed(c, "persist")
    BY <1>1, <1>3 DEF Submit, Typed
  <2>2. /\ \A d \in Channels \ {c} : reader'[d] = reader[d]
        /\ reader'[c].pc = "persist"
    BY <2>1, ProceedTyped
  <2>3. sub' = [sub EXCEPT ![c] = IF reader[c].submits THEN Offered(sub[c], next[c] - 1) ELSE sub[c]]
    BY <1>1, <1>3 DEF Submit, Listed
  <2>4. /\ Offered(sub[c], next[c] - 1).on = sub[c].on
        /\ Offered(sub[c], next[c] - 1).first = sub[c].first
        /\ Offered(sub[c], next[c] - 1).replayed = sub[c].replayed
        /\ \/ /\ Offered(sub[c], next[c] - 1).queue = sub[c].queue
              /\ Offered(sub[c], next[c] - 1).dropped = sub[c].dropped + 1
           \/ /\ Offered(sub[c], next[c] - 1).queue = Append(sub[c].queue, next[c] - 1)
              /\ Offered(sub[c], next[c] - 1).dropped = sub[c].dropped
    BY <1>1, <2>1, OfferedTyped
  <2> HIDE DEF Offered
  <2>5. /\ \A d \in Channels \ {c} : sub'[d] = sub[d]
        /\ sub'[c] = IF reader[c].submits THEN Offered(sub[c], next[c] - 1) ELSE sub[c]
    BY <1>1, <2>3
  <2>6. CASE reader[c].submits
    BY <1>1, <2>1, <2>2, <2>4, <2>5, <2>6
  <2>7. CASE ~reader[c].submits
    BY <1>1, <2>1, <2>2, <2>5, <2>7
  <2>8. QED
    BY <2>6, <2>7
<1>4. CASE Persist(c)
  <2>1. PICK step \in {"read", "dead"} : Proceed(c, step)
    BY <1>4 DEF Persist
  <2>2. /\ \A d \in Channels \ {c} : reader'[d] = reader[d]
        /\ reader'[c].pc = step
    BY <2>1, ProceedTyped
  <2>3. reader[c].pc = "persist" /\ sub' = sub /\ next' = next
    BY <1>4 DEF Persist
  <2>4. QED
    BY <1>1, <2>2, <2>3
<1>5. QED
  BY <1>2, <1>3, <1>4 DEF Reader

\* A worker holds the line that was the head of its queue.
LEMMA TakeDoes ==
    ASSUME Typed, NEW c \in Channels, Take(c)
    PROVE  /\ UNCHANGED <<reader, next, tail, fan, published>>
           /\ sub[c].queue \in Seq(Nat) /\ sub[c].queue # <<>> /\ ~Busy(c) /\ Busy(c)'
           /\ call'[c] = [pc |-> "number", channel |-> c, line |-> Head(sub[c].queue), number |-> 0]
           /\ \A u \in Callers \ {c} : call'[u] = call[u]
           /\ sub'[c].queue = Tail(sub[c].queue) /\ sub'[c].on = sub[c].on
           /\ sub'[c].first = sub[c].first /\ sub'[c].replayed = sub[c].replayed
           /\ sub'[c].dropped = sub[c].dropped
           /\ \A d \in Channels \ {c} : sub'[d] = sub[d]
<1> DEFINE first == Head(sub[c].queue)
           rest == Tail(sub[c].queue)
<1>1. /\ call \in [Callers -> Call] /\ sub \in [Channels -> Sub] /\ c \in Callers
      /\ sub[c] \in Sub /\ sub[c].queue \in Seq(Nat) /\ sub[c].queue # <<>> /\ ~Busy(c)
  BY DEF Typed, Sub, Take, Callers, Busy
<1>2. /\ call' = [call EXCEPT ![c] =
                     [pc |-> "number", channel |-> c, line |-> first, number |-> 0]]
      /\ sub' = [sub EXCEPT ![c] = [sub[c] EXCEPT !.queue = rest]]
      /\ UNCHANGED <<reader, next, tail, fan, published>>
  BY DEF Take, Deliver, server
<1> HIDE DEF first, rest
<1>3. LET s == [sub[c] EXCEPT !.queue = rest] IN
      /\ s.queue = rest /\ s.on = sub[c].on /\ s.first = sub[c].first
      /\ s.replayed = sub[c].replayed /\ s.dropped = sub[c].dropped
  BY <1>1 DEF Sub
<1>4. QED
  BY <1>1, <1>2, <1>3 DEF Busy, first, rest

\* A call goes on with its channel and its line, or publishes them and ends.
LEMMA FanoutDoes ==
    ASSUME Typed, NEW t \in Callers, Fanout(t)
    PROVE  /\ UNCHANGED <<reader, next, sub, tail>>
           /\ Busy(t) /\ call[t].channel \in Channels
           /\ \A u \in Callers \ {t} : call'[u] = call[u]
           /\ \/ /\ published' = published /\ Busy(t)'
                 /\ call'[t].channel = call[t].channel /\ call'[t].line = call[t].line
              \/ /\ ~Busy(t)' /\ Entry(t).line = call[t].line
                 /\ published'[call[t].channel] = Append(published[call[t].channel], Entry(t))
                 /\ \A d \in Channels \ {call[t].channel} : published'[d] = published[d]
<1>1. /\ UNCHANGED <<reader, next, sub, tail>>
      /\ Busy(t) /\ call[t].channel \in Channels /\ call[t] \in Call
      /\ call \in [Callers -> Call] /\ published \in [Channels -> Seq(Line)]
  BY DEF Typed, Busy, Fanout, ReadNumber, SetNumber, Store, Publish
<1>2. CASE ReadNumber(t)
  <2>1. /\ call' = [call EXCEPT ![t] = [call[t] EXCEPT !.pc = "set", !.number = fan.number + 1]]
        /\ published' = published
    BY <1>2 DEF ReadNumber
  <2>2. \A n : LET r == [call[t] EXCEPT !.pc = "set", !.number = n] IN
               r.pc = "set" /\ r.channel = call[t].channel /\ r.line = call[t].line
    BY <1>1 DEF Call
  <2>3. QED
    BY <1>1, <2>1, <2>2 DEF Busy
<1>3. CASE SetNumber(t) \/ Store(t)
  <2>1. /\ \E step \in {"store", "publish"} : call' = [call EXCEPT ![t] = [call[t] EXCEPT !.pc = step]]
        /\ published' = published
    BY <1>3 DEF SetNumber, Store
  <2>2. \A step \in {"store", "publish"} : LET r == [call[t] EXCEPT !.pc = step] IN
               r.pc = step /\ r.channel = call[t].channel /\ r.line = call[t].line
    BY <1>1 DEF Call
  <2>3. QED
    BY <1>1, <2>1, <2>2 DEF Busy
<1>4. CASE Publish(t)
  <2>1. /\ call' = [call EXCEPT ![t] = NoCall] /\ NoCall.pc = "idle"
        /\ Entry(t).line = call[t].line
    BY <1>4 DEF Publish, NoCall, Entry
  <2>2. published' = [published EXCEPT ![call[t].channel] = Append(published[call[t].channel], Entry(t))]
    BY <1>1, <1>4 DEF Publish
  <2> HIDE DEF Entry, NoCall
  <2>3. QED
    BY <1>1, <2>1, <2>2 DEF Busy
<1>5. QED
  BY <1>2, <1>3, <1>4 DEF Fanout

Replays(c) ==
    /\ UNCHANGED <<reader, next, published, fan>>
    /\ tail.pc = "replay" /\ c \in tail.todo /\ ~Busy(Starter) /\ call' = call
    /\ tail'.pc = "deliver" /\ tail'.todo = tail.todo \ {c}
    /\ tail'.channel = c /\ tail'.lines = buffer[c]
    /\ \A d \in Channels : sub'[d].on = sub[d].on /\ sub'[d].queue = sub[d].queue
    /\ sub'[c].replayed = next[c] /\ sub'[c].dropped = sub[c].dropped
    /\ \A d \in Channels \ {c} : sub'[d] = sub[d]

Delivers ==
    /\ UNCHANGED <<reader, next, published, fan>>
    /\ tail.pc = "deliver" /\ tail.lines # <<>> /\ ~Busy(Starter)
    /\ tail'.pc = "deliver" /\ tail'.todo = tail.todo
    /\ tail'.channel = tail.channel /\ tail'.lines = Tail(tail.lines)
    /\ call'[Starter] = [pc |-> "number", channel |-> tail.channel,
                         line |-> Head(tail.lines), number |-> 0]
    /\ \A u \in Callers \ {Starter} : call'[u] = call[u]
    /\ sub' = sub

EndsChannel ==
    /\ UNCHANGED <<reader, next, published, fan>>
    /\ tail.pc = "deliver" /\ ~Busy(Starter) /\ call' = call /\ sub' = sub
    /\ tail'.channel = tail.channel /\ tail.lines = <<>> /\ tail'.lines = <<>>
    /\ \/ tail'.pc = "replay" /\ tail'.todo = tail.todo
       \/ tail'.pc = "subscribe"

Subscribes(c) ==
    /\ UNCHANGED <<reader, next, published, fan>>
    /\ tail.pc = "subscribe" /\ c \in tail.todo /\ call' = call
    /\ tail'.pc = "subscribe" /\ tail'.todo = tail.todo \ {c}
    /\ tail'.channel = tail.channel /\ tail'.lines = tail.lines
    /\ sub'[c].on = TRUE /\ sub'[c].first = next[c]
    /\ sub'[c].replayed = sub[c].replayed /\ sub'[c].dropped = sub[c].dropped
    /\ \A d \in Channels \ {c} : sub'[d] = sub[d]
    /\ \A d \in Channels : sub'[d].queue = sub[d].queue

\* The tail's thread replays a channel, delivers one of its lines, ends a channel, or
\* subscribes to one.
LEMMA TailDoes ==
    ASSUME Typed, Tailer
    PROVE  \/ Fanout(Starter) \/ Delivers \/ EndsChannel
           \/ \E c \in Channels : Replays(c) \/ Subscribes(c)
<1>1. /\ tail \in Tailing /\ sub \in [Channels -> Sub] /\ call \in [Callers -> Call]
      /\ Starter \in Callers
  BY DEF Typed, Callers
<1>2. ASSUME NEW c \in Channels, Replay(c)
      PROVE  Replays(c)
  <2>1. sub' = [sub EXCEPT ![c] = [sub[c] EXCEPT !.replayed = next[c]]]
    BY <1>2 DEF Replay
  <2>2. sub[c] \in Sub
    BY <1>1
  <2>3. /\ [sub[c] EXCEPT !.replayed = next[c]].on = sub[c].on
        /\ [sub[c] EXCEPT !.replayed = next[c]].queue = sub[c].queue
        /\ [sub[c] EXCEPT !.replayed = next[c]].replayed = next[c]
        /\ [sub[c] EXCEPT !.replayed = next[c]].dropped = sub[c].dropped
    BY <2>2 DEF Sub
  <2>4. QED
    BY <1>1, <1>2, <2>1, <2>3 DEF Replay, Busy, Replays
<1>3. ASSUME NEW c \in Channels, Subscribe(c)
      PROVE  Subscribes(c)
  <2>1. sub' = [sub EXCEPT ![c] = [sub[c] EXCEPT !.on = TRUE, !.first = next[c]]]
    BY <1>1, <1>3 DEF Subscribe
  <2>2. sub[c] \in Sub
    BY <1>1
  <2>3. LET s == [sub[c] EXCEPT !.on = TRUE, !.first = next[c]] IN
        /\ s.on = TRUE /\ s.queue = sub[c].queue /\ s.first = next[c]
        /\ s.replayed = sub[c].replayed /\ s.dropped = sub[c].dropped
    BY <2>2 DEF Sub
  <2>4. /\ tail' = [tail EXCEPT !.todo = tail.todo \ {c}]
        /\ UNCHANGED <<reader, next, published, fan>> /\ call' = call
        /\ tail.pc = "subscribe" /\ c \in tail.todo
    BY <1>3 DEF Subscribe
  <2>5. /\ tail'.pc = "subscribe" /\ tail'.todo = tail.todo \ {c}
        /\ tail'.channel = tail.channel /\ tail'.lines = tail.lines
    BY <1>1, <2>4 DEF Tailing
  <2>6. QED
    BY <1>1, <2>1, <2>3, <2>4, <2>5 DEF Subscribes
<1>4. ASSUME ReplayLine, tail.lines # <<>>
      PROVE  Delivers
  <2>1. tail' = [tail EXCEPT !.lines = Tail(tail.lines)] /\ tail.pc = "deliver"
    BY <1>4 DEF ReplayLine
  <2>2. /\ tail'.pc = "deliver" /\ tail'.todo = tail.todo
        /\ tail'.channel = tail.channel /\ tail'.lines = Tail(tail.lines)
    BY <1>1, <2>1 DEF Tailing
  <2>3. call' = [call EXCEPT ![Starter] = [pc |-> "number", channel |-> tail.channel,
                                           line |-> Head(tail.lines), number |-> 0]]
    BY <1>4 DEF ReplayLine, Deliver
  <2>4. QED
    BY <1>1, <1>4, <2>1, <2>2, <2>3 DEF ReplayLine, Busy, Delivers
<1>5. ASSUME ReplayLine, tail.lines = <<>>
      PROVE  EndsChannel
  <2>1. /\ \/ tail' = [tail EXCEPT !.pc = "replay"]
           \/ tail' = [tail EXCEPT !.pc = "subscribe", !.todo = Channels]
        /\ call' = call /\ sub' = sub /\ tail.pc = "deliver" /\ ~Busy(Starter)
        /\ UNCHANGED <<reader, next, published, fan>>
    BY <1>5 DEF ReplayLine, Busy
  <2>2. /\ tail'.channel = tail.channel /\ tail'.lines = <<>>
        /\ \/ tail'.pc = "replay" /\ tail'.todo = tail.todo
           \/ tail'.pc = "subscribe"
    BY <1>1, <1>5, <2>1 DEF Tailing
  <2>3. QED
    BY <1>5, <2>1, <2>2 DEF EndsChannel
<1>6. CASE \E c \in Channels : Replay(c)
  BY <1>2, <1>6
<1>7. CASE \E c \in Channels : Subscribe(c)
  BY <1>3, <1>7
<1>8. CASE ReplayLine
  BY <1>4, <1>5, <1>8
<1>9. QED
  BY <1>6, <1>7, <1>8 DEF Tailer

\* The server's steps leave the lines alone.
LEMMA ServerDoes ==
    ASSUME Exit \/ (\E c \in Channels : Emit(c)) \/ UNCHANGED vars
    PROVE  UNCHANGED <<reader, next, sub, tail, call, fan, published>>
BY DEF Exit, Emit, vars

\* What may happen in a step.
LEMMA StepsAre ==
    ASSUME [Next]_vars
    PROVE  \/ Exit \/ (\E c \in Channels : Emit(c)) \/ UNCHANGED vars
           \/ \E c \in Channels : Reader(c)
           \/ \E c \in Channels : Take(c)
           \/ \E t \in Callers : Fanout(t)
           \/ Tailer
BY DEF Next, Worker, Callers

-----------------------------------------------------------------------------
(* Whose turn it is.                                                       *)

LEMMA InitTurns == Init => Turns
<1> SUFFICES ASSUME Init PROVE Turns
  OBVIOUS
<1>1. \A t \in Callers : ~Busy(t)
  BY DEF Init, Busy, NoCall
<1>2. \A c \in Channels : /\ ~sub[c].on /\ sub[c].queue = <<>>
                          /\ reader[c].pc = "read" /\ published[c] = <<>>
  BY DEF Init, NoSubscription
<1>3. tail.pc = "replay" /\ tail.lines = <<>>
  BY DEF Init
<1>4. QED
  BY <1>1, <1>2, <1>3 DEF Turns, Callers

LEMMA NextTurns == Typed /\ Turns /\ [Next]_vars => Turns'
<1> SUFFICES ASSUME Typed, Turns, [Next]_vars PROVE Turns'
  OBVIOUS
<1>1. ASSUME NEW c \in Channels, Reader(c)
      PROVE  Turns'
  BY <1>1, ReaderDoes DEF Turns, Busy
<1>2. ASSUME NEW c \in Channels, Take(c)
      PROVE  Turns'
  <2>1. /\ UNCHANGED <<reader, tail, published>> /\ sub[c].queue # <<>>
        /\ call'[c] = [pc |-> "number", channel |-> c, line |-> Head(sub[c].queue), number |-> 0]
        /\ \A u \in Callers \ {c} : call'[u] = call[u]
        /\ sub'[c].on = sub[c].on
        /\ \A d \in Channels \ {c} : sub'[d] = sub[d]
    BY <1>2, TakeDoes
  <2>2. sub[c].on /\ c # Starter
    BY <2>1, StarterAssumption DEF Turns
  <2>3. call'[c].channel = c /\ call'[c].pc # "idle"
    BY <2>1
  <2>4. \A d \in Channels : /\ sub'[d].on = sub[d].on /\ (Busy(d)' => call'[d].channel = d)
                            /\ ~sub[d].on => sub'[d] = sub[d] /\ (Busy(d)' <=> Busy(d))
    <3>1. TAKE d \in Channels
    <3>2. CASE d = c
      BY <2>1, <2>2, <2>3, <3>2 DEF Busy
    <3>3. CASE d # c
      BY <2>1, <3>3 DEF Turns, Busy, Callers
    <3>4. QED
      BY <3>2, <3>3
  <2>5. (Busy(Starter)' <=> Busy(Starter)) /\ call'[Starter] = call[Starter]
    BY <2>1, <2>2 DEF Busy, Callers
  <2>6. QED
    BY <2>1, <2>4, <2>5 DEF Turns
<1>3. ASSUME NEW t \in Callers, Fanout(t)
      PROVE  Turns'
  <2>1. /\ UNCHANGED <<reader, sub, tail>> /\ Busy(t)
        /\ \A u \in Callers \ {t} : call'[u] = call[u]
        /\ Busy(t)' => call'[t].channel = call[t].channel
    BY <1>3, FanoutDoes
  <2>2. \A u \in Callers : Busy(u)' => Busy(u) /\ call'[u].channel = call[u].channel
    BY <2>1 DEF Busy
  <2>3. ASSUME NEW d \in Channels, tail.pc # "subscribe", d \in tail.todo
        PROVE  published'[d] = published[d]
    <3>1. t = Starter
      BY <2>1, <2>3 DEF Turns, Callers
    <3>2. call[t].channel # d
      BY <2>1, <2>3, <3>1 DEF Turns
    <3>3. QED
      BY <1>3, <2>3, <3>2, FanoutDoes
  <2>4. QED
    BY <2>1, <2>2, <2>3 DEF Turns, Callers
<1>4. ASSUME NEW c \in Channels, Replays(c)
      PROVE  Turns'
  BY <1>4 DEF Replays, Turns, Busy
<1>5. ASSUME Delivers
      PROVE  Turns'
  <2>1. call'[Starter].channel = tail.channel
    BY <1>5 DEF Delivers
  <2>2. \A c \in Channels : call'[c] = call[c]
    BY <1>5, StarterAssumption DEF Delivers, Callers
  <2>3. QED
    BY <1>5, <2>1, <2>2 DEF Delivers, Turns, Busy
<1>6. ASSUME EndsChannel
      PROVE  Turns'
  BY <1>6 DEF EndsChannel, Turns, Busy
<1>7. ASSUME NEW c \in Channels, Subscribes(c)
      PROVE  Turns'
  BY <1>7 DEF Subscribes, Turns, Busy
<1>8. ASSUME UNCHANGED <<reader, next, sub, tail, call, fan, published>>
      PROVE  Turns'
  BY <1>8 DEF Turns, Busy
<1>9. CASE Tailer
  BY <1>3, <1>4, <1>5, <1>6, <1>7, <1>9, TailDoes DEF Callers
<1>10. QED
  BY <1>1, <1>2, <1>3, <1>8, <1>9, ServerDoes, StepsAre

-----------------------------------------------------------------------------
(* The order of the lines.                                                 *)

LEMMA RisesTail ==
    ASSUME NEW s \in Seq(Nat), s # <<>>, NEW low \in Int, NEW high \in Nat, Rises(s, low, high)
    PROVE  /\ Rises(Tail(s), Head(s), high)
           /\ Head(s) \in Nat /\ low < Head(s) /\ Head(s) < high /\ Tail(s) \in Seq(Nat)
           /\ 1 \in DOMAIN s /\ Head(s) = s[1]
           /\ \A i \in DOMAIN Tail(s) : i + 1 \in DOMAIN s /\ Tail(s)[i] = s[i + 1]
<1>1. /\ Len(s) \in Nat /\ Len(s) > 0 /\ DOMAIN s = 1 .. Len(s) /\ Head(s) = s[1]
      /\ Tail(s) \in Seq(Nat) /\ DOMAIN Tail(s) = 1 .. Len(s) - 1
      /\ \A i \in 1 .. Len(s) - 1 : Tail(s)[i] = s[i + 1]
      /\ \A i \in 1 .. Len(s) : s[i] \in Nat
  OBVIOUS
<1>2. \A i \in DOMAIN Tail(s) : i \in Nat /\ i + 1 \in DOMAIN s /\ 1 < i + 1
  BY <1>1
<1>3. 1 \in DOMAIN s
  BY <1>1
<1>4. \A i \in DOMAIN Tail(s) : s[1] < Tail(s)[i] /\ Tail(s)[i] < high
  BY <1>1, <1>2, <1>3 DEF Rises
<1>5. ASSUME NEW i \in DOMAIN Tail(s), NEW j \in DOMAIN Tail(s), i < j
      PROVE  Tail(s)[i] < Tail(s)[j]
  <2>1. i + 1 < j + 1 /\ i + 1 \in DOMAIN s /\ j + 1 \in DOMAIN s
    BY <1>2, <1>5
  <2>2. s[i + 1] < s[j + 1]
    BY <2>1 DEF Rises
  <2>3. QED
    BY <1>1, <2>2
<1>6. QED
  BY <1>1, <1>2, <1>3, <1>4, <1>5 DEF Rises

LEMMA RisesAppend ==
    ASSUME NEW s \in Seq(Nat), NEW low \in Int, NEW n \in Nat, Rises(s, low, n), low < n
    PROVE  Rises(Append(s, n), low, n + 1)
<1> DEFINE all == Append(s, n)
<1>1. /\ Len(s) \in Nat /\ DOMAIN all = 1 .. Len(s) + 1 /\ DOMAIN s = 1 .. Len(s)
      /\ all[Len(s) + 1] = n /\ \A i \in 1 .. Len(s) : all[i] = s[i] /\ s[i] \in Nat
  OBVIOUS
<1> HIDE DEF all
<1>2. \A i \in DOMAIN s : low < s[i] /\ s[i] < n
  BY DEF Rises
<1>3. ASSUME NEW i \in DOMAIN all
      PROVE  low < all[i] /\ all[i] < n + 1
  <2>1. CASE i \in 1 .. Len(s)
    BY <1>1, <1>2, <2>1
  <2>2. CASE i = Len(s) + 1
    BY <1>1, <2>2
  <2>3. QED
    BY <1>1, <2>1, <2>2
<1>4. ASSUME NEW i \in DOMAIN all, NEW j \in DOMAIN all, i < j
      PROVE  all[i] < all[j]
  <2>1. i \in 1 .. Len(s)
    BY <1>1, <1>4
  <2>2. CASE j \in 1 .. Len(s)
    <3>1. s[i] < s[j]
      BY <1>1, <1>4, <2>1, <2>2 DEF Rises
    <3>2. QED
      BY <1>1, <2>1, <2>2, <3>1
  <2>3. CASE j = Len(s) + 1
    BY <1>1, <1>2, <2>1, <2>3
  <2>4. QED
    BY <1>1, <2>2, <2>3
<1>5. QED
  BY <1>3, <1>4 DEF Rises, all

LEMMA RisesWithin ==
    ASSUME NEW s \in Seq(Nat), NEW low \in Int, NEW high \in Int, Rises(s, low, high),
           NEW lower \in Int, NEW higher \in Int, lower <= low, high <= higher
    PROVE  Rises(s, lower, higher)
<1>1. \A i \in DOMAIN s : s[i] \in Nat
  OBVIOUS
<1>2. QED
  BY <1>1 DEF Rises

\* A ring buffer's lines rise.
LEMMA WindowRises ==
    ASSUME NEW n \in Nat, NEW s, Window(s, n)
    PROVE  Rises(s, 0 - 1, n)
<1>1. /\ s \in Seq(Nat) /\ Len(s) \in Nat /\ DOMAIN s = 1 .. Len(s) /\ Len(s) <= n
      /\ \A i \in DOMAIN s : s[i] = n - Len(s) + i - 1
  BY Limits DEF Window
<1>2. QED
  BY <1>1 DEF Rises

\* What a line of a call is.
LEMMA HeldTyped ==
    ASSUME Typed
    PROVE  /\ \A t \in Callers : call[t].line \in Nat /\ Floor(t) \in Int /\ Floor(t) >= 0 - 1
           /\ \A c \in Channels :
                 /\ next[c] \in Nat /\ Ceiling(c) \in Nat /\ Ceiling(c) <= next[c]
                 /\ sub[c].queue \in Seq(Nat) /\ tail.lines \in Seq(Nat)
                 /\ published[c] \in Seq(Line)
                 /\ \A i \in DOMAIN published[c] : published[c][i].line \in Nat
<1>1. /\ \A t \in Callers : call[t] \in Call
      /\ \A c \in Channels : /\ next[c] \in Nat /\ sub[c] \in Sub /\ reader[c] \in ReaderState
                             /\ reader[c].pc = "submit" => next[c] > 0
                             /\ published[c] \in Seq(Line)
      /\ tail \in Tailing
  BY DEF Typed
<1>2. \A t \in Callers : call[t].line \in Nat
  BY <1>1 DEF Call
<1>3. \A t \in Callers : Floor(t) \in Int /\ Floor(t) >= 0 - 1
  BY <1>2 DEF Floor
<1>4. \A c \in Channels : Ceiling(c) \in Nat /\ Ceiling(c) <= next[c]
  BY <1>1 DEF Ceiling
<1>5. ASSUME NEW c \in Channels, NEW i \in DOMAIN published[c]
      PROVE  published[c][i].line \in Nat
  <2>1. published[c][i] \in Line
    BY <1>1
  <2>2. QED
    BY <2>1 DEF Line
<1>6. QED
  BY <1>1, <1>2, <1>3, <1>4, <1>5 DEF Sub, Tailing

\* A channel that a step leaves alone stays in order.
LEMMA OthersOrdered ==
    ASSUME NEW d \in Channels, OrderedAt(d),
           reader'[d] = reader[d], next'[d] = next[d], sub'[d].queue = sub[d].queue,
           published'[d] = published[d], call'[d] = call[d],
           tail'.channel = d => tail'.lines = <<>> \/ (/\ tail' = tail
                                                       /\ call'[Starter] = call[Starter]),
           \A u \in Callers :
              call'[u] = call[u] \/ ~(call'[u].pc # "idle") \/ call'[u].channel # d
    PROVE  OrderedAt(d)'
<1>1. Shown(d)' /\ Above(d, Ceiling(d))' /\ Ceiling(d)' = Ceiling(d) /\ Floor(d)' = Floor(d)
  BY DEF OrderedAt, Shown, Above, Ceiling, Floor, Busy
<1>2. (\A t \in Callers : Busy(t) /\ call[t].channel = d =>
           call[t].line < Ceiling(d) /\ Above(d, call[t].line))'
  <2> SUFFICES ASSUME NEW t \in Callers, Busy(t)', call'[t].channel = d
               PROVE  (call[t].line < Ceiling(d) /\ Above(d, call[t].line))'
    OBVIOUS
  <2>1. call'[t] = call[t]
    BY DEF Busy
  <2>2. QED
    BY <1>1, <2>1 DEF OrderedAt, Busy, Above
<1>3. Rises(sub[d].queue, Floor(d), Ceiling(d))'
  BY <1>1 DEF OrderedAt, Rises
<1>4. (\A i \in DOMAIN sub[d].queue : Above(d, sub[d].queue[i]))'
  BY DEF OrderedAt, Above
<1>5. ASSUME tail'.channel = d
      PROVE  /\ Rises(tail.lines, Floor(Starter), next[d])'
             /\ (\A i \in DOMAIN tail.lines : Above(d, tail.lines[i]))'
  <2>1. CASE tail'.lines = <<>>
    BY <2>1 DEF Rises
  <2>2. CASE tail' = tail /\ call'[Starter] = call[Starter]
    BY <1>5, <2>2 DEF OrderedAt, Rises, Floor, Busy, Above
  <2>3. QED
    BY <1>5, <2>1, <2>2
<1>6. QED
  BY <1>1, <1>2, <1>3, <1>4, <1>5 DEF OrderedAt

LEMMA InitOrdered == Init => Ordered
<1> SUFFICES ASSUME Init, NEW c \in Channels PROVE OrderedAt(c)
  BY DEF Ordered
<1>1. /\ \A t \in Callers : ~Busy(t)
      /\ published[c] = <<>> /\ sub[c].queue = <<>> /\ tail.lines = <<>>
  BY DEF Init, Busy, NoCall, NoSubscription
<1>2. QED
  BY <1>1 DEF OrderedAt, Shown, Above, Rises

\* What a reader buffers and submits is newer than all there is of its channel.
LEMMA ReaderOrdered ==
    ASSUME Typed, Typed', Turns, Ordered, NEW c \in Channels, Reader(c)
    PROVE  Ordered'
<1>1. /\ UNCHANGED <<tail, call, fan, published>>
      /\ \A d \in Channels \ {c} :
            reader'[d] = reader[d] /\ sub'[d] = sub[d] /\ next'[d] = next[d]
  BY ReaderDoes
<1>2. ASSUME NEW d \in Channels \ {c}
      PROVE  OrderedAt(d)'
  <2>1. OrderedAt(d) /\ reader'[d] = reader[d] /\ sub'[d] = sub[d] /\ next'[d] = next[d]
    BY <1>1 DEF Ordered
  <2>2. QED
    BY <1>1, <2>1, OthersOrdered
<1>3. OrderedAt(c)'
  <2> DEFINE old == Ceiling(c)
             new == Ceiling(c)'
             queue == sub[c].queue
             queue2 == sub'[c].queue
  <2>1. /\ old \in Nat /\ new \in Nat /\ queue \in Seq(Nat) /\ queue2 \in Seq(Nat)
        /\ next[c] \in Nat /\ next'[c] \in Nat
        /\ Floor(c) \in Int /\ Floor(Starter) \in Int /\ tail.lines \in Seq(Nat)
        /\ \A t \in Callers : call[t].line \in Nat
        /\ \A i \in DOMAIN published[c] : published[c][i].line \in Nat
    <3>1. /\ old \in Nat /\ queue \in Seq(Nat) /\ next[c] \in Nat
          /\ Floor(c) \in Int /\ Floor(Starter) \in Int /\ tail.lines \in Seq(Nat)
          /\ \A t \in Callers : call[t].line \in Nat
          /\ \A i \in DOMAIN published[c] : published[c][i].line \in Nat
      BY HeldTyped DEF Callers
    <3>2. /\ next'[c] \in Nat /\ sub'[c] \in Sub
          /\ reader'[c].pc = "submit" => next'[c] > 0
      BY Typed' DEF Typed
    <3>3. new \in Nat
      BY <3>2 DEF Ceiling
    <3>4. QED
      BY <3>1, <3>2, <3>3 DEF Sub
  <2>2. /\ old <= new /\ next[c] <= next'[c]
        /\ \/ queue2 = queue
           \/ queue2 = Append(queue, old) /\ new = old + 1
    <3>1. CASE /\ reader[c].pc = "read" /\ reader'[c].pc = "submit"
               /\ next'[c] = next[c] + 1 /\ sub'[c] = sub[c]
      BY <2>1, <3>1 DEF Ceiling
    <3>2. CASE /\ ~(reader[c].pc = "submit" /\ reader[c].submits) /\ reader'[c].pc # "submit"
               /\ next'[c] = next[c] /\ sub'[c] = sub[c]
      BY <2>1, <3>2 DEF Ceiling
    <3>3. CASE /\ reader[c].pc = "submit" /\ reader[c].submits /\ reader'[c].pc = "persist"
               /\ next'[c] = next[c] /\ next[c] - 1 \in Nat
               /\ queue2 = queue \/ queue2 = Append(queue, next[c] - 1)
      BY <2>1, <3>3 DEF Ceiling
    <3>4. QED
      BY <3>1, <3>2, <3>3, ReaderDoes
  <2>3. Floor(c)' = Floor(c) /\ Floor(Starter)' = Floor(Starter)
    BY <1>1 DEF Floor, Busy
  <2>4. /\ Shown(c) /\ Above(c, old)
        /\ \A t \in Callers : Busy(t) /\ call[t].channel = c =>
              call[t].line < old /\ Above(c, call[t].line)
        /\ Rises(queue, Floor(c), old)
        /\ \A i \in DOMAIN queue : Above(c, queue[i])
        /\ tail.channel = c =>
              /\ Rises(tail.lines, Floor(Starter), next[c])
              /\ \A i \in DOMAIN tail.lines : Above(c, tail.lines[i])
    BY DEF Ordered, OrderedAt
  <2>5. Floor(c) < old
    BY <2>1, <2>4 DEF Floor, Turns, Callers
  <2> HIDE DEF old, new, queue, queue2
  <2>6. Shown(c)' /\ Above(c, new)
    BY <1>1, <2>1, <2>2, <2>4 DEF Shown, Above
  <2>7. \A t \in Callers : Busy(t) /\ call[t].channel = c =>
           call[t].line < new /\ Above(c, call[t].line)
    BY <2>1, <2>2, <2>4
  <2>8. Rises(queue2, Floor(c), new) /\ \A i \in DOMAIN queue2 : Above(c, queue2[i])
    <3>1. CASE queue2 = queue
      BY <2>1, <2>2, <2>4, <3>1, RisesWithin
    <3>2. CASE queue2 = Append(queue, old) /\ new = old + 1
      <4>1. Rises(queue2, Floor(c), new)
        BY <2>1, <2>4, <2>5, <3>2, RisesAppend
      <4>2. \A i \in DOMAIN queue2 : queue2[i] = old \/ (i \in DOMAIN queue /\ queue2[i] = queue[i])
        BY <2>1, <3>2
      <4>3. \A i \in DOMAIN queue2 : Above(c, queue2[i])
        BY <2>4, <4>2
      <4>4. QED
        BY <4>1, <4>3
    <3>3. QED
      BY <2>2, <3>1, <3>2
  <2>9. tail.channel = c => Rises(tail.lines, Floor(Starter), next'[c])
    BY <2>1, <2>2, <2>4, RisesWithin
  <2>10. Above(c, new) => Above(c, Ceiling(c))'
    BY <1>1 DEF Above, new
  <2>11. (\A t \in Callers : Busy(t) /\ call[t].channel = c =>
            call[t].line < Ceiling(c) /\ Above(c, call[t].line))'
    BY <1>1, <2>7 DEF Above, new, Busy
  <2>12. Rises(sub[c].queue, Floor(c), Ceiling(c))'
    BY <2>3, <2>8 DEF Rises, new, queue2
  <2>13. (\A i \in DOMAIN sub[c].queue : Above(c, sub[c].queue[i]))'
    BY <1>1, <2>8 DEF Above, queue2
  <2>14. (tail.channel = c =>
            /\ Rises(tail.lines, Floor(Starter), next[c])
            /\ \A i \in DOMAIN tail.lines : Above(c, tail.lines[i]))'
    BY <1>1, <2>3, <2>4, <2>9 DEF Rises, Above
  <2>15. QED
    BY <2>6, <2>10, <2>11, <2>12, <2>13, <2>14 DEF OrderedAt
<1>4. QED
  BY <1>2, <1>3 DEF Ordered

\* A worker takes the oldest line of its queue.
LEMMA TakeOrdered ==
    ASSUME Typed, Turns, Ordered, NEW c \in Channels, Take(c)
    PROVE  Ordered'
<1>1. /\ UNCHANGED <<reader, next, tail, fan, published>>
      /\ sub[c].queue \in Seq(Nat) /\ sub[c].queue # <<>> /\ ~Busy(c)
      /\ call'[c] = [pc |-> "number", channel |-> c, line |-> Head(sub[c].queue), number |-> 0]
      /\ \A u \in Callers \ {c} : call'[u] = call[u]
      /\ sub'[c].queue = Tail(sub[c].queue)
      /\ \A d \in Channels \ {c} : sub'[d] = sub[d]
      /\ c # Starter
  BY TakeDoes, StarterAssumption
<1>2. call'[c].channel = c /\ call'[c].pc = "number" /\ call'[c].line = Head(sub[c].queue)
  BY <1>1
<1>3. ASSUME NEW d \in Channels \ {c}
      PROVE  OrderedAt(d)'
  <2>1. OrderedAt(d) /\ call'[d] = call[d] /\ call'[Starter] = call[Starter]
    BY <1>1 DEF Ordered, Callers
  <2>2. \A u \in Callers : call'[u] = call[u] \/ ~(call'[u].pc # "idle") \/ call'[u].channel # d
    BY <1>1, <1>2
  <2>3. QED
    BY <1>1, <2>1, <2>2, OthersOrdered
<1>4. OrderedAt(c)'
  <2> DEFINE queue == sub[c].queue
  <2>1. /\ Ceiling(c) \in Nat /\ Floor(c) \in Int /\ queue \in Seq(Nat) /\ OrderedAt(c)
    BY HeldTyped DEF Callers, Ordered
  <2>2. /\ Rises(Tail(queue), Head(queue), Ceiling(c))
        /\ Head(queue) < Ceiling(c) /\ Above(c, Head(queue))
        /\ \A i \in DOMAIN Tail(queue) : Above(c, Tail(queue)[i])
    BY <1>1, <2>1, RisesTail DEF OrderedAt
  <2>3. Ceiling(c)' = Ceiling(c) /\ Floor(c)' = Head(queue) /\ Floor(Starter)' = Floor(Starter)
    BY <1>1, <1>2 DEF Ceiling, Floor, Busy, Callers
  <2>4. Shown(c)' /\ Above(c, Ceiling(c))'
    BY <1>1, <2>1, <2>3 DEF OrderedAt, Shown, Above
  <2>5. (\A t \in Callers : Busy(t) /\ call[t].channel = c =>
            call[t].line < Ceiling(c) /\ Above(c, call[t].line))'
    <3> SUFFICES ASSUME NEW t \in Callers, Busy(t)', call'[t].channel = c
                 PROVE  (call[t].line < Ceiling(c) /\ Above(c, call[t].line))'
      OBVIOUS
    <3>1. CASE t = c
      BY <1>1, <1>2, <2>2, <2>3, <3>1 DEF Above
    <3>2. CASE t # c
      BY <1>1, <2>1, <2>3, <3>2 DEF OrderedAt, Busy, Above
    <3>3. QED
      BY <3>1, <3>2
  <2>6. Rises(sub[c].queue, Floor(c), Ceiling(c))'
    BY <1>1, <2>2, <2>3 DEF Rises
  <2>7. (\A i \in DOMAIN sub[c].queue : Above(c, sub[c].queue[i]))'
    BY <1>1, <2>2 DEF Above
  <2>8. (tail.channel = c =>
            /\ Rises(tail.lines, Floor(Starter), next[c])
            /\ \A i \in DOMAIN tail.lines : Above(c, tail.lines[i]))'
    BY <1>1, <2>1, <2>3 DEF OrderedAt, Rises, Above
  <2>9. QED
    BY <2>4, <2>5, <2>6, <2>7, <2>8 DEF OrderedAt
<1>5. QED
  BY <1>3, <1>4 DEF Ordered

\* One caller at a time has a channel's line in hand.
LEMMA OneCaller ==
    ASSUME Typed, Turns, NEW t \in Callers, NEW u \in Callers, Busy(t), Busy(u),
           call[t].channel = call[u].channel
    PROVE  t = u
<1>1. call[t].channel \in Channels
  BY DEF Typed
<1>2. CASE t = Starter \/ u = Starter
  BY <1>1, <1>2, StarterAssumption DEF Turns, Callers
<1>3. CASE t # Starter /\ u # Starter
  BY <1>3 DEF Turns, Callers
<1>4. QED
  BY <1>2, <1>3

\* The line published is the oldest that is underway.
LEMMA FanoutOrdered ==
    ASSUME Typed, Turns, Ordered, NEW t \in Callers, Fanout(t),
           NEW c \in Channels, call[t].channel = c, NEW n \in Nat, call[t].line = n
    PROVE  Ordered'
<1>1. /\ UNCHANGED <<reader, next, sub, tail>> /\ Busy(t)
      /\ \A u \in Callers \ {t} : call'[u] = call[u]
      /\ \/ /\ published' = published /\ Busy(t)' /\ call'[t].channel = c /\ call'[t].line = n
         \/ /\ ~Busy(t)' /\ Entry(t).line = n
            /\ published'[c] = Append(published[c], Entry(t))
      /\ \A d \in Channels \ {c} : published'[d] = published[d]
  BY FanoutDoes
<1>2. /\ t = Starter => c = tail.channel /\ tail.pc = "deliver" /\ sub[c].queue = <<>>
      /\ t # Starter => t = c /\ tail.lines = <<>>
  BY <1>1 DEF Turns, Callers
<1>3. ASSUME NEW d \in Channels \ {c}
      PROVE  OrderedAt(d)'
  <2>1. OrderedAt(d) /\ published'[d] = published[d] /\ d \in Callers /\ d # t
    BY <1>1, <1>2, StarterAssumption DEF Ordered, Callers
  <2>2. tail'.channel = d => tail'.lines = <<>> \/ (tail' = tail /\ call'[Starter] = call[Starter])
    BY <1>1, <1>2 DEF Callers
  <2>3. \A u \in Callers : call'[u] = call[u] \/ ~(call'[u].pc # "idle") \/ call'[u].channel # d
    BY <1>1 DEF Busy
  <2>4. QED
    BY <1>1, <2>1, <2>2, <2>3, OthersOrdered
<1>4. OrderedAt(c) /\ Ceiling(c)' = Ceiling(c)
  BY <1>1 DEF Ordered, Ceiling
<1>5. ASSUME published' = published, Busy(t)', call'[t].channel = c, call'[t].line = n
      PROVE  OrderedAt(c)'
  <2>1. \A u \in Callers : /\ Floor(u)' = Floor(u)
                           /\ Busy(u)' <=> Busy(u)
                           /\ call'[u].channel = call[u].channel /\ call'[u].line = call[u].line
    BY <1>1, <1>5 DEF Floor, Busy
  <2>2. Shown(c)' /\ Above(c, Ceiling(c))'
    BY <1>4, <1>5 DEF OrderedAt, Shown, Above
  <2>3. (\A u \in Callers : Busy(u) /\ call[u].channel = c =>
            call[u].line < Ceiling(c) /\ Above(c, call[u].line))'
    <3> SUFFICES ASSUME NEW u \in Callers, Busy(u)', call'[u].channel = c
                 PROVE  (call[u].line < Ceiling(c) /\ Above(c, call[u].line))'
      OBVIOUS
    <3>1. call[u].line < Ceiling(c) /\ Above(c, call[u].line)
      BY <1>4, <2>1 DEF OrderedAt
    <3>2. QED
      BY <1>4, <1>5, <2>1, <3>1 DEF Above
  <2>4. Rises(sub[c].queue, Floor(c), Ceiling(c))'
    BY <1>1, <1>4, <2>1 DEF OrderedAt, Rises, Callers
  <2>5. (\A i \in DOMAIN sub[c].queue : Above(c, sub[c].queue[i]))'
    BY <1>1, <1>4, <1>5 DEF OrderedAt, Above
  <2>6. (tail.channel = c =>
            /\ Rises(tail.lines, Floor(Starter), next[c])
            /\ \A i \in DOMAIN tail.lines : Above(c, tail.lines[i]))'
    BY <1>1, <1>4, <1>5, <2>1 DEF OrderedAt, Rises, Above, Callers
  <2>7. QED
    BY <2>2, <2>3, <2>4, <2>5, <2>6 DEF OrderedAt
<1>6. ASSUME ~Busy(t)', Entry(t).line = n, published'[c] = Append(published[c], Entry(t))
      PROVE  OrderedAt(c)'
  <2> DEFINE e == Entry(t)
             queue == sub[c].queue
             lines == tail.lines
             high == Ceiling(c)
  <2>1. /\ high \in Nat /\ next[c] \in Nat /\ Floor(c) \in Int /\ Floor(Starter) \in Int
        /\ queue \in Seq(Nat) /\ lines \in Seq(Nat) /\ published[c] \in Seq(Line)
        /\ \A i \in DOMAIN published[c] : published[c][i].line \in Nat
    BY HeldTyped DEF Callers
  <2>2. /\ Shown(c) /\ Above(c, high) /\ n < high /\ Above(c, n)
        /\ Rises(queue, Floor(c), high)
        /\ \A i \in DOMAIN queue : Above(c, queue[i])
        /\ tail.channel = c => /\ Rises(lines, Floor(Starter), next[c])
                               /\ \A i \in DOMAIN lines : Above(c, lines[i])
    BY <1>1, <1>4 DEF OrderedAt
  <2>3. /\ \A i \in DOMAIN queue : n < queue[i]
        /\ tail.channel = c => \A i \in DOMAIN lines : n < lines[i]
    <3>1. CASE t = Starter
      BY <1>1, <1>2, <2>2, <3>1 DEF Floor, Rises
    <3>2. CASE t # Starter
      BY <1>1, <1>2, <2>2, <3>2 DEF Floor, Rises
    <3>3. QED
      BY <3>1, <3>2
  <2>4. \A u \in Callers : Busy(u)' => call'[u].channel # c
    BY <1>1, <1>6, OneCaller DEF Busy
  <2>5. c \in Callers /\ Starter \in Callers
    BY DEF Callers
  <2>6. /\ ~Busy(c)' /\ Floor(c)' = 0 - 1
        /\ tail.channel = c => Floor(Starter)' = 0 - 1
    <3>1. ~Busy(c)'
      BY <1>1, <1>2, <1>6, <2>4, <2>5 DEF Busy, Turns
    <3>2. tail.channel = c => ~Busy(Starter)'
      BY <1>1, <1>2, <1>6, <2>4, <2>5 DEF Busy, Turns
    <3>3. QED
      BY <3>1, <3>2 DEF Floor
  <2> HIDE DEF e, queue, lines, high
  <2>7. /\ DOMAIN published'[c] = 1 .. Len(published[c]) + 1
        /\ Len(published[c]) \in Nat /\ DOMAIN published[c] = 1 .. Len(published[c])
        /\ published'[c][Len(published[c]) + 1] = e
        /\ \A i \in DOMAIN published[c] : published'[c][i] = published[c][i]
    BY <1>6, <2>1 DEF e
  <2>8. e.line = n
    BY <1>6 DEF e
  <2>9. ASSUME NEW m \in Nat, n < m, Above(c, m)
        PROVE  \A i \in DOMAIN published'[c] : published'[c][i].line < m
    BY <2>7, <2>8, <2>9 DEF Above
  <2>10. \A i, j \in DOMAIN published'[c] : i < j => published'[c][i].line < published'[c][j].line
    <3> SUFFICES ASSUME NEW i \in DOMAIN published'[c], NEW j \in DOMAIN published'[c], i < j
                 PROVE  published'[c][i].line < published'[c][j].line
      OBVIOUS
    <3>1. i \in DOMAIN published[c]
      BY <2>7
    <3>2. CASE j \in DOMAIN published[c]
      BY <2>2, <2>7, <3>1, <3>2 DEF Shown
    <3>3. CASE j = Len(published[c]) + 1
      BY <2>2, <2>7, <2>8, <3>1, <3>3 DEF Above
    <3>4. QED
      BY <2>7, <3>2, <3>3
  <2>11. Shown(c)' /\ Above(c, Ceiling(c))'
    BY <1>4, <2>1, <2>2, <2>9, <2>10 DEF Shown, Above, high
  <2>12. (\A u \in Callers : Busy(u) /\ call[u].channel = c =>
            call[u].line < Ceiling(c) /\ Above(c, call[u].line))'
    BY <2>4
  <2>13. Rises(sub[c].queue, Floor(c), Ceiling(c))'
    <3>1. Rises(queue, 0 - 1, high)
      BY <2>1, <2>2 DEF Rises
    <3>2. QED
      BY <1>1, <1>4, <2>6, <3>1 DEF Rises, queue, high
  <2>14. (\A i \in DOMAIN sub[c].queue : Above(c, sub[c].queue[i]))'
    <3>1. \A i \in DOMAIN queue : queue[i] \in Nat /\ n < queue[i] /\ Above(c, queue[i])
      BY <2>1, <2>2, <2>3
    <3>2. \A i \in DOMAIN queue : \A k \in DOMAIN published'[c] : published'[c][k].line < queue[i]
      BY <2>9, <3>1
    <3>3. QED
      BY <1>1, <3>2 DEF Above, queue
  <2>15. (tail.channel = c =>
            /\ Rises(tail.lines, Floor(Starter), next[c])
            /\ \A i \in DOMAIN tail.lines : Above(c, tail.lines[i]))'
    <3>1. ASSUME tail.channel = c
          PROVE  \A i \in DOMAIN lines : lines[i] \in Nat /\ n < lines[i] /\ Above(c, lines[i])
      BY <2>1, <2>2, <2>3, <3>1
    <3>2. ASSUME tail.channel = c
          PROVE  \A i \in DOMAIN lines : \A k \in DOMAIN published'[c] :
                    published'[c][k].line < lines[i]
      BY <2>9, <3>1, <3>2
    <3>3. ASSUME tail.channel = c
          PROVE  Rises(lines, 0 - 1, next[c])
      BY <2>1, <2>2, <3>3 DEF Rises
    <3>4. QED
      BY <1>1, <2>6, <3>2, <3>3 DEF Above, Rises, lines
  <2>16. QED
    BY <2>11, <2>12, <2>13, <2>14, <2>15 DEF OrderedAt
<1>7. QED
  BY <1>1, <1>3, <1>5, <1>6 DEF Ordered

\* A replay comes before all else of its channel, and what it leaves is delivered first.
LEMMA ReplayOrdered ==
    ASSUME Typed, Turns, Ordered, NEW c \in Channels, Replays(c)
    PROVE  Ordered'
<1>1. /\ UNCHANGED <<reader, next, published>> /\ call' = call
      /\ tail.pc = "replay" /\ c \in tail.todo /\ ~Busy(Starter)
      /\ tail'.channel = c /\ tail'.lines = buffer[c]
      /\ \A d \in Channels : sub'[d].queue = sub[d].queue
  BY DEF Replays
<1>2. ASSUME NEW d \in Channels \ {c}
      PROVE  OrderedAt(d)'
  <2>1. OrderedAt(d)
    BY DEF Ordered
  <2>2. QED
    BY <1>1, <2>1, OthersOrdered
<1>3. OrderedAt(c)'
  <2>1. OrderedAt(c) /\ published[c] = <<>>
    BY <1>1 DEF Ordered, Turns
  <2>2. Rises(buffer[c], 0 - 1, next[c])
    BY WindowRises DEF Typed
  <2>3. /\ Ceiling(c)' = Ceiling(c) /\ Floor(c)' = Floor(c) /\ Floor(Starter)' = 0 - 1
        /\ \A u \in Callers : Busy(u)' <=> Busy(u)
    BY <1>1 DEF Ceiling, Floor, Busy
  <2>4. Shown(c)' /\ Above(c, Ceiling(c))'
    BY <1>1, <2>1, <2>3 DEF OrderedAt, Shown, Above
  <2>5. (\A u \in Callers : Busy(u) /\ call[u].channel = c =>
            call[u].line < Ceiling(c) /\ Above(c, call[u].line))'
    BY <1>1, <2>1, <2>3 DEF OrderedAt, Above
  <2>6. Rises(sub[c].queue, Floor(c), Ceiling(c))'
    BY <1>1, <2>1, <2>3 DEF OrderedAt, Rises
  <2>7. (\A i \in DOMAIN sub[c].queue : Above(c, sub[c].queue[i]))'
    BY <1>1, <2>1 DEF Above
  <2>8. (/\ Rises(tail.lines, Floor(Starter), next[c])
         /\ \A i \in DOMAIN tail.lines : Above(c, tail.lines[i]))'
    BY <1>1, <2>1, <2>2, <2>3 DEF Rises, Above
  <2>9. QED
    BY <2>4, <2>5, <2>6, <2>7, <2>8 DEF OrderedAt
<1>4. QED
  BY <1>2, <1>3 DEF Ordered

LEMMA DeliverOrdered ==
    ASSUME Typed, Turns, Ordered, Delivers, NEW c \in Channels, tail.channel = c
    PROVE  Ordered'
<1>1. /\ UNCHANGED <<reader, next, published>> /\ sub' = sub
      /\ tail.pc = "deliver" /\ tail.lines # <<>> /\ ~Busy(Starter)
      /\ tail'.channel = c /\ tail'.lines = Tail(tail.lines)
      /\ \A u \in Callers \ {Starter} : call'[u] = call[u]
      /\ c \in Callers /\ c # Starter /\ Starter \in Callers
  BY StarterAssumption DEF Delivers, Callers
<1>2. /\ call'[Starter].channel = c /\ call'[Starter].pc = "number"
      /\ call'[Starter].line = Head(tail.lines)
  BY DEF Delivers
<1>3. ASSUME NEW d \in Channels \ {c}
      PROVE  OrderedAt(d)'
  <2>1. OrderedAt(d) /\ call'[d] = call[d]
    BY <1>1, StarterAssumption DEF Ordered, Callers
  <2>2. \A u \in Callers : call'[u] = call[u] \/ ~(call'[u].pc # "idle") \/ call'[u].channel # d
    BY <1>1, <1>2
  <2>3. QED
    BY <1>1, <2>1, <2>2, OthersOrdered
<1>4. OrderedAt(c)'
  <2> DEFINE lines == tail.lines
  <2>1. /\ next[c] \in Nat /\ Floor(Starter) \in Int /\ lines \in Seq(Nat) /\ OrderedAt(c)
        /\ Ceiling(c) = next[c]
    BY <1>1, HeldTyped DEF Ordered, Ceiling, Turns
  <2>2. /\ Rises(Tail(lines), Head(lines), next[c])
        /\ Head(lines) < next[c] /\ Above(c, Head(lines))
        /\ \A i \in DOMAIN Tail(lines) : Above(c, Tail(lines)[i])
    BY <1>1, <2>1, RisesTail DEF OrderedAt
  <2>3. Ceiling(c)' = next[c] /\ Floor(c)' = Floor(c) /\ Floor(Starter)' = Head(lines)
    BY <1>1, <1>2, <2>1 DEF Ceiling, Floor, Busy
  <2>4. Shown(c)' /\ Above(c, Ceiling(c))'
    BY <1>1, <2>1, <2>3 DEF OrderedAt, Shown, Above
  <2>5. (\A u \in Callers : Busy(u) /\ call[u].channel = c =>
            call[u].line < Ceiling(c) /\ Above(c, call[u].line))'
    <3> SUFFICES ASSUME NEW u \in Callers, Busy(u)', call'[u].channel = c
                 PROVE  (call[u].line < Ceiling(c) /\ Above(c, call[u].line))'
      OBVIOUS
    <3>1. CASE u = Starter
      BY <1>1, <1>2, <2>2, <2>3, <3>1 DEF Above
    <3>2. CASE u # Starter
      BY <1>1, <2>1, <2>3, <3>2 DEF OrderedAt, Busy, Above
    <3>3. QED
      BY <3>1, <3>2
  <2>6. Rises(sub[c].queue, Floor(c), Ceiling(c))'
    BY <1>1, <2>1, <2>3 DEF OrderedAt, Rises
  <2>7. (\A i \in DOMAIN sub[c].queue : Above(c, sub[c].queue[i]))'
    BY <1>1, <2>1 DEF OrderedAt, Above
  <2>8. (/\ Rises(tail.lines, Floor(Starter), next[c])
         /\ \A i \in DOMAIN tail.lines : Above(c, tail.lines[i]))'
    BY <1>1, <2>2, <2>3 DEF Rises, Above
  <2>9. QED
    BY <2>4, <2>5, <2>6, <2>7, <2>8 DEF OrderedAt
<1>5. QED
  BY <1>3, <1>4 DEF Ordered

LEMMA NextOrdered == Typed /\ Typed' /\ Turns /\ Ordered /\ [Next]_vars => Ordered'
<1> SUFFICES ASSUME Typed, Typed', Turns, Ordered, [Next]_vars PROVE Ordered'
  OBVIOUS
<1>1. ASSUME UNCHANGED <<reader, next, published, call>>, tail'.lines = <<>> \/ tail' = tail,
             \A d \in Channels : sub'[d].queue = sub[d].queue
      PROVE  Ordered'
  <2> SUFFICES ASSUME NEW d \in Channels PROVE OrderedAt(d)'
    BY DEF Ordered
  <2>1. OrderedAt(d)
    BY DEF Ordered
  <2>2. QED
    BY <1>1, <2>1, OthersOrdered
<1>2. ASSUME NEW t \in Callers, Fanout(t)
      PROVE  Ordered'
  <2>1. call[t].channel \in Channels /\ call[t].line \in Nat
    BY <1>2, FanoutDoes, HeldTyped
  <2>2. QED
    BY <1>2, <2>1, FanoutOrdered
<1>3. ASSUME EndsChannel \/ \E c \in Channels : Subscribes(c)
      PROVE  Ordered'
  <2>1. tail'.lines = <<>> /\ \A d \in Channels : sub'[d].queue = sub[d].queue
    BY <1>3 DEF EndsChannel, Subscribes, Turns
  <2>2. UNCHANGED <<reader, next, published, call>>
    BY <1>3 DEF EndsChannel, Subscribes
  <2>3. QED
    BY <1>1, <2>1, <2>2
<1>4. ASSUME Delivers
      PROVE  Ordered'
  BY <1>4, DeliverOrdered DEF Delivers, Typed
<1>5. CASE Tailer
  BY <1>2, <1>3, <1>4, <1>5, ReplayOrdered, TailDoes DEF Callers
<1>6. CASE UNCHANGED <<reader, next, sub, tail, call, fan, published>>
  BY <1>1, <1>6
<1>7. QED
  BY <1>2, <1>5, <1>6, ReaderOrdered, TakeOrdered, ServerDoes, StepsAre

-----------------------------------------------------------------------------
(* The numbers.                                                            *)

\* With one channel there is one caller at a time.
LEMMA AloneOne ==
    ASSUME Typed, Turns, Ordered, NEW c \in Channels, Alone(c),
           NEW t \in Callers, NEW u \in Callers, Busy(t), Busy(u)
    PROVE  t = u /\ call[t].channel = c
<1>1. ASSUME NEW v \in Callers, Busy(v)
      PROVE  call[v].channel = c
  <2>1. call[v].channel \in Channels /\ call[v].line \in Nat
    BY <1>1, HeldTyped DEF Typed
  <2>2. call[v].line < next[call[v].channel] /\ next[call[v].channel] \in Nat
    BY <1>1, <2>1, HeldTyped DEF Ordered, OrderedAt
  <2>3. QED
    BY <2>1, <2>2 DEF Alone
<1>2. QED
  BY <1>1, OneCaller

\* The one caller goes from one step of its call to the next.
LEMMA FanoutNumbers ==
    ASSUME Typed, NEW t \in Callers, Fanout(t), NEW c \in Channels, call[t].channel = c,
           \A u \in Callers : Busy(u) => u = t, NumberedAt(c)
    PROVE  NumberedAt(c)'
<1> DEFINE shown == Len(published[c])
<1>1. /\ call[t] \in Call /\ fan \in [number : Nat, lines : Seq(Line)] /\ shown \in Nat
      /\ call \in [Callers -> Call] /\ published \in [Channels -> Seq(Line)]
      /\ published[c] \in Seq(Line) /\ Busy(t) /\ DOMAIN published[c] = 1 .. shown
      /\ \A u \in Callers \ {t} : call'[u] = call[u] /\ ~Busy(u) /\ ~Busy(u)'
  BY FanoutDoes DEF Typed, Busy
<1>2. /\ \A i \in DOMAIN published[c] : published[c][i].number = i
      /\ call[t].pc # "number" => call[t].number = shown + 1
      /\ fan.number = IF call[t].pc \in {"number", "set"} THEN shown ELSE shown + 1
  BY <1>1 DEF NumberedAt
<1>3. CASE ReadNumber(t)
  <2>1. /\ call' = [call EXCEPT ![t] = [call[t] EXCEPT !.pc = "set", !.number = fan.number + 1]]
        /\ published' = published /\ fan' = fan /\ call[t].pc = "number"
    BY <1>3 DEF ReadNumber
  <2>2. \A n : LET r == [call[t] EXCEPT !.pc = "set", !.number = n] IN
               r.pc = "set" /\ r.number = n
    BY <1>1 DEF Call
  <2>3. call'[t].pc = "set" /\ call'[t].number = fan.number + 1
    BY <1>1, <2>1, <2>2
  <2>4. QED
    BY <1>1, <1>2, <2>1, <2>3 DEF NumberedAt, Busy
<1>4. CASE SetNumber(t)
  <2>1. /\ call' = [call EXCEPT ![t] = [call[t] EXCEPT !.pc = "store"]]
        /\ published' = published /\ fan' = [fan EXCEPT !.number = call[t].number]
        /\ call[t].pc = "set"
    BY <1>4 DEF SetNumber
  <2>2. [call[t] EXCEPT !.pc = "store"].pc = "store"
        /\ [call[t] EXCEPT !.pc = "store"].number = call[t].number
    BY <1>1 DEF Call
  <2>3. call'[t].pc = "store" /\ call'[t].number = shown + 1 /\ fan'.number = shown + 1
    BY <1>1, <1>2, <2>1, <2>2
  <2>4. QED
    BY <1>1, <1>2, <2>1, <2>3 DEF NumberedAt, Busy
<1>5. CASE Store(t)
  <2>1. /\ call' = [call EXCEPT ![t] = [call[t] EXCEPT !.pc = "publish"]]
        /\ published' = published /\ call[t].pc = "store" /\ fan'.number = fan.number
    BY <1>1, <1>5 DEF Store
  <2>2. [call[t] EXCEPT !.pc = "publish"].pc = "publish"
        /\ [call[t] EXCEPT !.pc = "publish"].number = call[t].number
    BY <1>1 DEF Call
  <2>3. call'[t].pc = "publish" /\ call'[t].number = shown + 1 /\ fan'.number = shown + 1
    BY <1>1, <1>2, <2>1, <2>2
  <2>4. QED
    BY <1>1, <1>2, <2>1, <2>3 DEF NumberedAt, Busy
<1>6. CASE Publish(t)
  <2>1. /\ call' = [call EXCEPT ![t] = NoCall] /\ NoCall.pc = "idle" /\ fan' = fan
        /\ call[t].pc = "publish" /\ Entry(t).number = call[t].number
        /\ published' = [published EXCEPT ![c] = Append(published[c], Entry(t))]
    BY <1>1, <1>6 DEF Publish, NoCall, Entry
  <2>2. Entry(t) \in Line
    BY <1>1 DEF Entry, Line, Call
  <2> HIDE DEF Entry, NoCall
  <2>3. /\ published'[c] = Append(published[c], Entry(t))
        /\ Len(Append(published[c], Entry(t))) = shown + 1
        /\ \A i \in 1 .. shown : Append(published[c], Entry(t))[i] = published[c][i]
        /\ Append(published[c], Entry(t))[shown + 1] = Entry(t)
        /\ DOMAIN Append(published[c], Entry(t)) = 1 .. shown + 1
    BY <1>1, <2>1, <2>2
  <2>4. Len(published'[c]) = shown + 1 /\ fan'.number = shown + 1
    BY <1>2, <2>1, <2>3
  <2>5. \A i \in DOMAIN published'[c] : published'[c][i].number = i
    BY <1>1, <1>2, <2>1, <2>3
  <2>6. \A u \in Callers : ~Busy(u)'
    BY <1>1, <2>1 DEF Busy
  <2>7. QED
    BY <2>4, <2>5, <2>6 DEF NumberedAt
<1>7. QED
  BY <1>3, <1>4, <1>5, <1>6 DEF Fanout

LEMMA InitNumbered == Init => Numbered
<1> SUFFICES ASSUME Init, NEW c \in Channels PROVE NumberedAt(c)
  BY DEF Numbered
<1>1. /\ \A t \in Callers : ~Busy(t)
      /\ published[c] = <<>> /\ fan.number = 0
  BY DEF Init, Busy, NoCall
<1>2. QED
  BY <1>1 DEF NumberedAt

LEMMA NextNumbered ==
    ASSUME Typed, Turns, Ordered, Typed', Turns', Ordered', Numbered, [Next]_vars
    PROVE  Numbered'
<1>1. \A d \in Channels : next[d] \in Nat /\ (next'[d] = next[d] \/ next'[d] = next[d] + 1)
  <2>1. \A d \in Channels : next[d] \in Nat
    BY DEF Typed
  <2>2. ASSUME NEW c \in Channels, Reader(c)
        PROVE  \A d \in Channels : next'[d] = next[d] \/ next'[d] = next[d] + 1
    BY <2>2, ReaderDoes
  <2>3. ASSUME ~(\E c \in Channels : Reader(c))
        PROVE  next' = next
    BY <2>3, StepsAre, ServerDoes, TakeDoes, FanoutDoes, TailDoes
       DEF Delivers, EndsChannel, Replays, Subscribes, Callers
  <2>4. QED
    BY <2>1, <2>2, <2>3
<1> SUFFICES ASSUME NEW c \in Channels, Alone(c)' PROVE NumberedAt(c)'
  BY DEF Numbered
<1>2. Alone(c)
  BY <1>1 DEF Alone
<1>3. NumberedAt(c) /\ \A t, u \in Callers : Busy(t) /\ Busy(u) => t = u /\ call[t].channel = c
  BY <1>2, AloneOne DEF Numbered
<1>4. (\A t, u \in Callers : Busy(t) /\ Busy(u) => t = u)'
  <2>1. ASSUME NEW t \in Callers, NEW u \in Callers, Busy(t)', Busy(u)',
               call'[t].channel # c
        PROVE  FALSE
    <3>1. call'[t].channel \in Channels /\ call'[t].line \in Nat
      BY <2>1 DEF Typed, Call
    <3>2. (call[t].line < next[call[t].channel])'
      <4>1. (\A d \in Channels : Ceiling(d) <= next[d] /\ next[d] \in Nat /\ Ceiling(d) \in Nat)'
        <5>1. \A d \in Channels : next'[d] \in Nat
                                  /\ (reader'[d].pc = "submit" => next'[d] > 0)
          BY DEF Typed
        <5>2. QED
          BY <5>1 DEF Ceiling
      <4>2. (call[t].line < Ceiling(call[t].channel))'
        BY <2>1, <3>1 DEF Ordered, OrderedAt
      <4>3. QED
        BY <3>1, <4>1, <4>2
    <3>3. QED
      BY <2>1, <3>1, <3>2 DEF Alone
  <2>2. ASSUME NEW t \in Callers, NEW u \in Callers, Busy(t)', Busy(u)'
        PROVE  t = u
    <3>1. call'[t].channel = c /\ call'[u].channel = c
      BY <2>1, <2>2
    <3>2. CASE t = Starter \/ u = Starter
      BY <2>2, <3>1, <3>2, StarterAssumption DEF Turns, Callers
    <3>3. CASE t # Starter /\ u # Starter
      BY <2>2, <3>1, <3>3 DEF Turns, Callers
    <3>4. QED
      BY <3>2, <3>3
  <2>3. QED
    BY <2>2
<1>5. ASSUME NEW t \in Callers, Fanout(t)
      PROVE  NumberedAt(c)'
  <2>1. Busy(t)
    BY <1>5, FanoutDoes
  <2>2. call[t].channel = c /\ \A u \in Callers : Busy(u) => u = t
    BY <1>3, <2>1
  <2>3. QED
    BY <1>3, <1>5, <2>2, FanoutNumbers
<1>6. ASSUME NEW t \in Callers, ~Busy(t), call'[t].pc = "number", UNCHANGED <<published, fan>>,
             \A u \in Callers \ {t} : call'[u] = call[u]
      PROVE  NumberedAt(c)'
  <2>1. \A u \in Callers : u # t => ~Busy(u)' /\ ~Busy(u)
    BY <1>4, <1>6 DEF Busy
  <2>2. fan.number = Len(published[c])
    BY <1>3, <1>6, <2>1 DEF NumberedAt
  <2>3. QED
    BY <1>3, <1>6, <2>1, <2>2 DEF NumberedAt, Busy
<1>7. ASSUME UNCHANGED <<call, fan, published>>
      PROVE  NumberedAt(c)'
  BY <1>3, <1>7 DEF NumberedAt, Busy
<1>8. CASE \E d \in Channels : Take(d)
  <2>1. PICK d \in Channels : Take(d)
    BY <1>8
  <2>2. /\ ~Busy(d) /\ UNCHANGED <<published, fan>> /\ d \in Callers
        /\ call'[d] = [pc |-> "number", channel |-> d, line |-> Head(sub[d].queue), number |-> 0]
        /\ \A u \in Callers \ {d} : call'[u] = call[u]
    BY <2>1, TakeDoes DEF Callers
  <2>3. call'[d].pc = "number"
    BY <2>2
  <2>4. QED
    BY <1>6, <2>2, <2>3
<1>9. CASE Tailer
  <2>1. Starter \in Callers
    BY DEF Callers
  <2>2. ASSUME Delivers
        PROVE  NumberedAt(c)'
    <3>1. call'[Starter].pc = "number"
      BY <2>2 DEF Delivers
    <3>2. QED
      BY <1>6, <2>1, <2>2, <3>1 DEF Delivers
  <2>3. ASSUME EndsChannel \/ \E d \in Channels : Replays(d) \/ Subscribes(d)
        PROVE  NumberedAt(c)'
    BY <1>7, <2>3 DEF EndsChannel, Replays, Subscribes
  <2>4. QED
    BY <1>5, <1>9, <2>1, <2>2, <2>3, TailDoes
<1>10. QED
  BY <1>5, <1>7, <1>8, <1>9, ReaderDoes, ServerDoes, StepsAre

-----------------------------------------------------------------------------
(* The stream.                                                             *)

IInv == Typed /\ Turns /\ Ordered /\ Numbered

LEMMA AlwaysOrdered == Spec => []IInv
<1>1. Init => IInv
  BY InitTyped, InitTurns, InitOrdered, InitNumbered DEF IInv
<1>2. IInv /\ [Next]_vars => IInv'
  <2> SUFFICES ASSUME IInv, [Next]_vars PROVE IInv'
    OBVIOUS
  <2>1. Typed' /\ Turns'
    BY NextTyped, NextTurns DEF IInv
  <2>2. Ordered'
    BY <2>1, NextOrdered DEF IInv
  <2>3. Numbered'
    BY <2>1, <2>2, NextNumbered DEF IInv
  <2>4. QED
    BY <2>1, <2>2, <2>3 DEF IInv
<1>3. QED
  BY <1>1, <1>2, PTL DEF Spec

\* Of LogTailing, the order of the stream: the browsers get the lines of a channel in order
\* and each once, though the tail's thread replays what the ring buffer holds and a worker
\* delivers what comes later; with one channel LogFanout's numbers follow, without a lock.
THEOREM StreamInOrder == Spec => []StreamIsInOrder
<1>1. ASSUME IInv
      PROVE  StreamIsInOrder
  <2>1. LinesKeepTheirOrder
    BY <1>1 DEF IInv, Ordered, OrderedAt, Shown, LinesKeepTheirOrder
  <2>2. OneChannelIsNumbered
    BY <1>1 DEF IInv, Numbered, NumberedAt, Alone, OneChannelIsNumbered
  <2>3. QED
    BY <2>1, <2>2 DEF StreamIsInOrder
<1>2. QED
  BY <1>1, AlwaysOrdered, PTL

-----------------------------------------------------------------------------
(* What is shown or on its way.                                            *)

Known(c) == Arrived(c) \cup Underway(c)

InHand(c) == {call[t].line : t \in {u \in Callers : call[u].pc # "idle" /\ call[u].channel = c}}

Tailed(c) == IF tail.channel = c THEN ToSet(tail.lines) ELSE {}

Pending(c) == IF reader[c].pc = "submit" /\ reader[c].submits THEN {next[c] - 1} ELSE {}

LEMMA KnownIs ==
    ASSUME NEW c \in Channels
    PROVE  /\ Known(c) = Arrived(c) \cup ToSet(sub[c].queue) \cup InHand(c) \cup Tailed(c) \cup Pending(c)
           /\ Known(c)' = (Arrived(c) \cup ToSet(sub[c].queue) \cup InHand(c) \cup Tailed(c)
                           \cup Pending(c))'
BY DEF Known, Underway, InHand, Tailed, Pending

\* A reader's new line is known if it is for a subscriber; all that may be lost is the
\* line that a full queue drops.
LEMMA ReaderKnown ==
    ASSUME Typed, NEW c \in Channels, Reader(c)
    PROVE  /\ \A d \in Channels \ {c} : Known(d)' = Known(d)
           /\ \/ /\ next'[c] = next[c] + 1 /\ sub'[c] = sub[c]
                 /\ Known(c)' = Known(c) \cup (IF sub[c].on THEN {next[c]} ELSE {})
              \/ /\ next'[c] = next[c] /\ sub'[c].dropped = sub[c].dropped
                 /\ Known(c)' = Known(c)
              \/ /\ next'[c] = next[c] /\ sub'[c].dropped = sub[c].dropped + 1
                 /\ reader[c].pc = "submit" /\ reader[c].submits
                 /\ Known(c)' \cup {next[c] - 1} = Known(c)
                 /\ Known(c)' = Arrived(c) \cup ToSet(sub[c].queue) \cup InHand(c) \cup Tailed(c)
<1>1. /\ UNCHANGED <<tail, call, fan, published>>
      /\ \A d \in Channels \ {c} :
            reader'[d] = reader[d] /\ sub'[d] = sub[d] /\ next'[d] = next[d]
  BY ReaderDoes
<1>2. \A d \in Channels : /\ Arrived(d)' = Arrived(d) /\ InHand(d)' = InHand(d)
                          /\ Tailed(d)' = Tailed(d)
  BY <1>1 DEF Arrived, InHand, Tailed
<1>3. ASSUME NEW d \in Channels \ {c}
      PROVE  Known(d)' = Known(d)
  <2>1. Pending(d)' = Pending(d) /\ ToSet(sub[d].queue)' = ToSet(sub[d].queue)
    BY <1>1 DEF Pending
  <2>2. QED
    BY <1>2, <2>1, KnownIs
<1>4. sub[c].queue \in Seq(Nat) /\ next[c] \in Nat
  BY DEF Typed, Sub
<1>5. CASE /\ reader[c].pc = "read" /\ reader'[c].pc = "submit"
           /\ reader'[c].submits = sub[c].on
           /\ next'[c] = next[c] + 1 /\ sub'[c] = sub[c]
  <2>1. Pending(c) = {} /\ Pending(c)' = IF sub[c].on THEN {next[c]} ELSE {}
    <3>1. next'[c] - 1 = next[c]
      BY <1>4, <1>5
    <3>2. Pending(c)' = IF sub[c].on THEN {next[c]} ELSE {}
      BY <1>5, <3>1 DEF Pending
    <3>3. QED
      BY <1>5, <3>2 DEF Pending
  <2>2. ToSet(sub[c].queue)' = ToSet(sub[c].queue)
    BY <1>5
  <2>3. Known(c)' = Known(c) \cup (IF sub[c].on THEN {next[c]} ELSE {})
    BY <1>2, <2>1, <2>2, KnownIs
  <2>4. QED
    BY <1>3, <1>5, <2>3
<1>6. CASE /\ ~(reader[c].pc = "submit" /\ reader[c].submits) /\ reader'[c].pc # "submit"
           /\ next'[c] = next[c] /\ sub'[c] = sub[c]
  <2>1. Pending(c) = {} /\ Pending(c)' = {} /\ ToSet(sub[c].queue)' = ToSet(sub[c].queue)
    BY <1>6 DEF Pending
  <2>2. Known(c)' = Known(c)
    BY <1>2, <2>1, KnownIs
  <2>3. QED
    BY <1>3, <1>6, <2>2
<1>7. CASE /\ reader[c].pc = "submit" /\ reader[c].submits /\ reader'[c].pc = "persist"
           /\ next'[c] = next[c] /\ next[c] - 1 \in Nat
           /\ \/ /\ sub'[c].queue = sub[c].queue
                 /\ sub'[c].dropped = sub[c].dropped + 1
              \/ /\ sub'[c].queue = Append(sub[c].queue, next[c] - 1)
                 /\ sub'[c].dropped = sub[c].dropped
  <2>1. Pending(c) = {next[c] - 1} /\ Pending(c)' = {}
    BY <1>7 DEF Pending
  <2>2. CASE sub'[c].queue = sub[c].queue /\ sub'[c].dropped = sub[c].dropped + 1
    <3>1. ToSet(sub[c].queue)' = ToSet(sub[c].queue)
      BY <2>2
    <3>2. /\ Known(c)' \cup {next[c] - 1} = Known(c)
          /\ Known(c)' = Arrived(c) \cup ToSet(sub[c].queue) \cup InHand(c) \cup Tailed(c)
      BY <1>2, <2>1, <3>1, KnownIs
    <3>3. QED
      BY <1>3, <1>7, <2>2, <3>2
  <2>3. CASE sub'[c].queue = Append(sub[c].queue, next[c] - 1) /\ sub'[c].dropped = sub[c].dropped
    <3>1. ToSet(sub[c].queue)' = ToSet(sub[c].queue) \cup {next[c] - 1}
      BY <1>4, <1>7, <2>3, ToSetAppend
    <3>2. Known(c) = Arrived(c) \cup ToSet(sub[c].queue) \cup InHand(c) \cup Tailed(c)
                     \cup {next[c] - 1}
      BY <2>1, KnownIs
    <3>3. Known(c)' = Arrived(c) \cup (ToSet(sub[c].queue) \cup {next[c] - 1}) \cup InHand(c)
                      \cup Tailed(c) \cup {}
      BY <1>2, <2>1, <3>1, KnownIs
    <3>4. Known(c)' = Known(c)
      BY <3>2, <3>3
    <3>5. QED
      BY <1>3, <1>7, <2>3, <3>4
  <2>4. QED
    BY <1>7, <2>2, <2>3
<1>8. QED
  BY <1>5, <1>6, <1>7, ReaderDoes

\* A line that a worker takes stays known.
LEMMA TakeKnown ==
    ASSUME Typed, NEW c \in Channels, Take(c), NEW d \in Channels
    PROVE  Known(d)' = Known(d)
<1>1. /\ UNCHANGED <<reader, next, tail, fan, published>>
      /\ sub[c].queue \in Seq(Nat) /\ sub[c].queue # <<>> /\ ~Busy(c)
      /\ call'[c] = [pc |-> "number", channel |-> c, line |-> Head(sub[c].queue), number |-> 0]
      /\ \A u \in Callers \ {c} : call'[u] = call[u]
      /\ sub'[c].queue = Tail(sub[c].queue)
      /\ \A e \in Channels \ {c} : sub'[e] = sub[e]
      /\ c \in Callers
  BY TakeDoes DEF Callers
<1>2. call'[c].channel = c /\ call'[c].pc = "number" /\ call'[c].line = Head(sub[c].queue)
  BY <1>1
<1>3. Arrived(d)' = Arrived(d) /\ Tailed(d)' = Tailed(d) /\ Pending(d)' = Pending(d)
  BY <1>1 DEF Arrived, Tailed, Pending
<1>4. CASE d = c
  <2>1. ToSet(sub[c].queue) = {Head(sub[c].queue)} \cup ToSet(sub[c].queue)'
    BY <1>1, ToSetTail
  <2>2. InHand(c)' = InHand(c) \cup {Head(sub[c].queue)}
    BY <1>1, <1>2 DEF InHand, Busy
  <2>3. QED
    BY <1>3, <1>4, <2>1, <2>2, KnownIs
<1>5. CASE d # c
  <2>1. ToSet(sub[d].queue)' = ToSet(sub[d].queue)
    BY <1>1, <1>5
  <2>2. InHand(d)' = InHand(d)
    BY <1>1, <1>2, <1>5 DEF InHand, Busy
  <2>3. QED
    BY <1>3, <2>1, <2>2, KnownIs
<1>6. QED
  BY <1>4, <1>5

\* A line that LogFanout publishes stays known.
LEMMA FanoutKnown ==
    ASSUME Typed, NEW t \in Callers, Fanout(t), NEW d \in Channels
    PROVE  Known(d)' = Known(d)
<1>1. /\ UNCHANGED <<reader, next, sub, tail>>
      /\ Busy(t) /\ call[t].channel \in Channels
      /\ \A u \in Callers \ {t} : call'[u] = call[u]
  BY FanoutDoes
<1>2. /\ ToSet(sub[d].queue)' = ToSet(sub[d].queue)
      /\ Tailed(d)' = Tailed(d) /\ Pending(d)' = Pending(d)
  BY <1>1 DEF Tailed, Pending
<1>3. CASE /\ published' = published /\ Busy(t)'
           /\ call'[t].channel = call[t].channel /\ call'[t].line = call[t].line
  <2>1. Arrived(d)' = Arrived(d) /\ InHand(d)' = InHand(d)
    BY <1>1, <1>3 DEF Arrived, InHand, Busy
  <2>2. QED
    BY <1>2, <2>1, KnownIs
<1>4. CASE /\ ~Busy(t)' /\ Entry(t).line = call[t].line
           /\ published'[call[t].channel] = Append(published[call[t].channel], Entry(t))
           /\ \A e \in Channels \ {call[t].channel} : published'[e] = published[e]
  <2>1. CASE call[t].channel = d
    <3>1. published[d] \in Seq(Line) /\ Entry(t) \in Line
      <4>1. call[t] \in Call
        BY DEF Typed
      <4>2. QED
        BY <1>1, <4>1 DEF Typed, Entry, Line, Call
    <3>2. ToSet(published[d])' = ToSet(published[d]) \cup {Entry(t)}
      <4>1. published'[d] = Append(published[d], Entry(t))
        BY <1>4, <2>1
      <4> HIDE DEF Entry
      <4>2. ToSet(Append(published[d], Entry(t))) = ToSet(published[d]) \cup {Entry(t)}
        BY <3>1, ToSetAppend
      <4>3. QED
        BY <4>1, <4>2
    <3>3. Arrived(d)' = Arrived(d) \cup {call[t].line}
      BY <1>4, <3>2 DEF Arrived
    <3>4. InHand(d) = InHand(d)' \cup {call[t].line}
      BY <1>1, <1>4, <2>1 DEF InHand, Busy
    <3>5. Known(d) = Arrived(d) \cup ToSet(sub[d].queue) \cup (InHand(d)' \cup {call[t].line})
                     \cup Tailed(d) \cup Pending(d)
      BY <3>4, KnownIs
    <3>6. Known(d)' = (Arrived(d) \cup {call[t].line}) \cup ToSet(sub[d].queue) \cup InHand(d)'
                      \cup Tailed(d) \cup Pending(d)
      BY <1>2, <3>3, KnownIs
    <3>7. QED
      BY <3>5, <3>6
  <2>2. CASE call[t].channel # d
    <3>1. Arrived(d)' = Arrived(d) /\ InHand(d)' = InHand(d)
      BY <1>1, <1>4, <2>2 DEF Arrived, InHand, Busy
    <3>2. QED
      BY <1>2, <3>1, KnownIs
  <2>3. QED
    BY <2>1, <2>2
<1>5. QED
  BY <1>3, <1>4, FanoutDoes

\* A line that the tail's thread delivers stays known.
LEMMA DeliverKnown ==
    ASSUME Typed, Delivers, NEW d \in Channels
    PROVE  Known(d)' = Known(d)
<1>1. /\ UNCHANGED <<reader, next, published>> /\ sub' = sub
      /\ tail.lines # <<>> /\ tail.lines \in Seq(Nat) /\ ~Busy(Starter)
      /\ tail'.channel = tail.channel /\ tail'.lines = Tail(tail.lines)
      /\ \A u \in Callers \ {Starter} : call'[u] = call[u]
      /\ Starter \in Callers
  BY DEF Delivers, Callers, Typed, Tailing
<1>2. /\ call'[Starter].channel = tail.channel /\ call'[Starter].pc = "number"
      /\ call'[Starter].line = Head(tail.lines)
  BY DEF Delivers
<1>3. /\ ToSet(sub[d].queue)' = ToSet(sub[d].queue)
      /\ Arrived(d)' = Arrived(d) /\ Pending(d)' = Pending(d)
  BY <1>1 DEF Arrived, Pending
<1>4. ToSet(tail.lines) = {Head(tail.lines)} \cup ToSet(tail.lines)'
  BY <1>1, ToSetTail
<1>5. CASE tail.channel = d
  <2>1. Tailed(d) = {Head(tail.lines)} \cup Tailed(d)'
    BY <1>1, <1>4, <1>5 DEF Tailed
  <2>2. InHand(d)' = InHand(d) \cup {Head(tail.lines)}
    BY <1>1, <1>2, <1>5 DEF InHand, Busy
  <2>3. QED
    BY <1>3, <2>1, <2>2, KnownIs
<1>6. CASE tail.channel # d
  <2>1. Tailed(d) = {} /\ Tailed(d)' = {} /\ InHand(d)' = InHand(d)
    BY <1>1, <1>2, <1>6 DEF Tailed, InHand, Busy
  <2>2. QED
    BY <1>3, <2>1, KnownIs
<1>7. QED
  BY <1>5, <1>6

\* A replay makes the ring buffer's lines known.
LEMMA ReplayKnown ==
    ASSUME Typed, Turns, NEW c \in Channels, Replays(c), NEW d \in Channels
    PROVE  Known(d)' = Known(d) \cup (IF d = c THEN ToSet(buffer[c]) ELSE {})
<1>1. /\ UNCHANGED <<reader, next, published>> /\ call' = call
      /\ tail.lines = <<>> /\ tail'.channel = c /\ tail'.lines = buffer[c]
      /\ \A e \in Channels : sub'[e].queue = sub[e].queue
  BY DEF Replays, Turns
<1>2. ToSet(<<>>) = {}
  BY DEF ToSet
<1>3. /\ ToSet(sub[d].queue)' = ToSet(sub[d].queue) /\ InHand(d)' = InHand(d)
      /\ Arrived(d)' = Arrived(d) /\ Pending(d)' = Pending(d)
      /\ Tailed(d) = {} /\ Tailed(d)' = IF d = c THEN ToSet(buffer[c]) ELSE {}
  BY <1>1, <1>2 DEF Arrived, Pending, InHand, Tailed
<1>4. QED
  BY <1>3, KnownIs

\* What is neither delivered nor taken stays known.
LEMMA RestKnown ==
    ASSUME UNCHANGED <<reader, next, published, call>>, NEW d \in Channels,
           sub'[d].queue = sub[d].queue, tail.lines = tail'.lines, tail.channel = tail'.channel
    PROVE  Known(d)' = Known(d)
<1>1. /\ ToSet(sub[d].queue)' = ToSet(sub[d].queue) /\ InHand(d)' = InHand(d)
      /\ Arrived(d)' = Arrived(d) /\ Pending(d)' = Pending(d) /\ Tailed(d)' = Tailed(d)
  BY DEF Arrived, Pending, InHand, Tailed
<1>2. QED
  BY <1>1, KnownIs

-----------------------------------------------------------------------------
(* What is lost.                                                           *)

LostAfter(c) == (sub[c].first .. next[c] - 1) \ Known(c)

ExplainedAt(c) ==
    /\ sub[c].replayed <= next[c]
    /\ ~sub[c].on => sub[c].dropped = 0
    /\ sub[c].on => sub[c].replayed <= sub[c].first /\ sub[c].first <= Ceiling(c)
    /\ \A n \in 0 .. sub[c].replayed - 1 : n \in Known(c) \/ n < sub[c].replayed - BufferLimit
    /\ sub[c].on => Cardinality(LostAfter(c)) = sub[c].dropped

Explained == \A c \in Channels : ExplainedAt(c)

LEMMA IntervalFinite ==
    ASSUME NEW low \in Nat, NEW high \in Int, NEW S
    PROVE  IsFiniteSet((low .. high) \ S)
<1>1. IsFiniteSet(low .. high)
  BY FS_Interval
<1>2. QED
  BY <1>1, FS_Subset

\* Nothing known or counted changes.
LEMMA StaysExplained ==
    ASSUME NEW d \in Channels, ExplainedAt(d), Known(d)' = Known(d), Ceiling(d)' = Ceiling(d),
           next'[d] = next[d], sub'[d].on = sub[d].on, sub'[d].first = sub[d].first,
           sub'[d].replayed = sub[d].replayed, sub'[d].dropped = sub[d].dropped
    PROVE  ExplainedAt(d)'
<1>1. LostAfter(d)' = LostAfter(d)
  BY DEF LostAfter
<1>2. QED
  BY <1>1 DEF ExplainedAt

LEMMA InitExplained == Init => Explained
<1> SUFFICES ASSUME Init, NEW c \in Channels PROVE ExplainedAt(c)
  BY DEF Explained
<1>1. ~sub[c].on /\ sub[c].dropped = 0 /\ sub[c].replayed = 0 /\ next[c] = 0
  BY DEF Init, NoSubscription
<1>2. QED
  BY <1>1 DEF ExplainedAt

\* The line a full queue drops is one more that is lost.
LEMMA ReaderExplained ==
    ASSUME Typed, Turns, Ordered, Explained, NEW c \in Channels, Reader(c)
    PROVE  Explained'
<1>1. ASSUME NEW d \in Channels \ {c}
      PROVE  ExplainedAt(d)'
  <2>1. /\ reader'[d] = reader[d] /\ sub'[d] = sub[d] /\ next'[d] = next[d]
        /\ Known(d)' = Known(d) /\ ExplainedAt(d)
    BY ReaderDoes, ReaderKnown DEF Explained
  <2>2. Ceiling(d)' = Ceiling(d)
    BY <2>1 DEF Ceiling
  <2>3. QED
    BY <2>1, <2>2, StaysExplained
<1>2. /\ next[c] \in Nat /\ sub[c] \in Sub /\ Ceiling(c) \in Nat /\ Ceiling(c) <= next[c]
      /\ sub[c].first \in Nat /\ sub[c].replayed \in Nat /\ sub[c].dropped \in Nat
      /\ sub[c].on \in BOOLEAN /\ next[c] - 1 \in Int
  <2>1. sub[c] \in Sub
    BY DEF Typed
  <2>2. QED
    BY <2>1, HeldTyped DEF Sub
<1>3. /\ sub'[c].on = sub[c].on /\ sub'[c].first = sub[c].first
      /\ sub'[c].replayed = sub[c].replayed
      /\ ExplainedAt(c) /\ OrderedAt(c)
  BY ReaderDoes DEF Explained, Ordered
<1>4. sub[c].on => sub[c].first <= Ceiling(c)'
  <2> SUFFICES ASSUME sub[c].on PROVE sub[c].first <= Ceiling(c)'
    OBVIOUS
  <2>1. sub[c].first <= Ceiling(c)
    BY <1>3 DEF ExplainedAt
  <2>2. QED
    BY <1>2, <2>1, ReaderDoes DEF Ceiling
<1>5. ASSUME /\ next'[c] = next[c] + 1 /\ sub'[c] = sub[c]
             /\ Known(c)' = Known(c) \cup (IF sub[c].on THEN {next[c]} ELSE {})
      PROVE  ExplainedAt(c)'
  <2>1. sub[c].on => LostAfter(c)' = LostAfter(c)
    <3> SUFFICES ASSUME sub[c].on PROVE LostAfter(c)' = LostAfter(c)
      OBVIOUS
    <3>1. next'[c] - 1 = next[c] /\ Known(c)' = Known(c) \cup {next[c]}
      BY <1>2, <1>5
    <3>2. \A n : n \in sub[c].first .. next[c] <=>
                    n \in sub[c].first .. next[c] - 1 \/ (n = next[c] /\ sub[c].first <= next[c])
      BY <1>2
    <3>3. LostAfter(c)' = (sub[c].first .. next[c]) \ (Known(c) \cup {next[c]})
      BY <1>3, <3>1 DEF LostAfter
    <3>4. next[c] \notin sub[c].first .. next[c] - 1
      BY <1>2
    <3>5. QED
      BY <3>2, <3>3, <3>4 DEF LostAfter
  <2>2. \A n \in 0 .. sub[c].replayed - 1 :
           n \in Known(c)' \/ n < sub[c].replayed - BufferLimit
    BY <1>3, <1>5 DEF ExplainedAt
  <2>3. sub[c].replayed <= next'[c]
    BY <1>2, <1>3, <1>5 DEF ExplainedAt
  <2>4. QED
    BY <1>3, <1>4, <1>5, <2>1, <2>2, <2>3 DEF ExplainedAt
<1>6. ASSUME /\ next'[c] = next[c] /\ sub'[c].dropped = sub[c].dropped
             /\ Known(c)' = Known(c)
      PROVE  ExplainedAt(c)'
  <2>1. LostAfter(c)' = LostAfter(c)
    BY <1>3, <1>6 DEF LostAfter
  <2>2. QED
    BY <1>3, <1>4, <1>6, <2>1 DEF ExplainedAt
<1>7. ASSUME /\ next'[c] = next[c] /\ sub'[c].dropped = sub[c].dropped + 1
             /\ reader[c].pc = "submit" /\ reader[c].submits
             /\ Known(c)' \cup {next[c] - 1} = Known(c)
             /\ Known(c)' = Arrived(c) \cup ToSet(sub[c].queue) \cup InHand(c) \cup Tailed(c)
      PROVE  ExplainedAt(c)'
  <2> DEFINE top == next[c] - 1
  <2>1. sub[c].on /\ Ceiling(c) = top /\ tail.pc = "subscribe" /\ tail.lines = <<>>
    BY <1>7 DEF Turns, Ceiling
  <2>2. sub[c].replayed <= next[c] /\ sub[c].replayed <= sub[c].first /\ sub[c].first <= top
    BY <1>3, <2>1 DEF ExplainedAt
  <2>3. top \notin Known(c)'
    <3>1. top \notin Arrived(c)
      <4>1. \A i \in DOMAIN published[c] : published[c][i].line < top /\ published[c][i].line \in Nat
        BY <1>3, <2>1, HeldTyped DEF OrderedAt, Above
      <4>2. QED
        BY <1>2, <4>1 DEF Arrived, ToSet
    <3>2. top \notin ToSet(sub[c].queue)
      <4>1. sub[c].queue \in Seq(Nat) /\ \A i \in DOMAIN sub[c].queue : sub[c].queue[i] < top
        BY <1>3, <2>1, HeldTyped DEF OrderedAt, Rises
      <4>2. QED
        BY <1>2, <4>1 DEF ToSet
    <3>3. top \notin InHand(c)
      <4>1. \A t \in Callers : Busy(t) /\ call[t].channel = c => call[t].line < top
        BY <1>3, <2>1 DEF OrderedAt
      <4>2. QED
        BY <1>2, <4>1, HeldTyped DEF InHand, Busy
    <3>4. Tailed(c) = {}
      BY <2>1 DEF Tailed, ToSet
    <3>5. QED
      BY <1>7, <3>1, <3>2, <3>3, <3>4
  <2>4. LostAfter(c)' = LostAfter(c) \cup {top} /\ top \notin LostAfter(c)
    <3>1. top \in sub[c].first .. next[c] - 1
      BY <1>2, <2>2
    <3>2. LostAfter(c)' = (sub[c].first .. next[c] - 1) \ Known(c)'
      BY <1>3, <1>7 DEF LostAfter
    <3>3. QED
      BY <1>7, <2>3, <3>1, <3>2 DEF LostAfter
  <2>5. IsFiniteSet(LostAfter(c))
    BY <1>2, IntervalFinite DEF LostAfter
  <2>6. Cardinality(LostAfter(c)') = sub'[c].dropped
    <3>1. Cardinality(LostAfter(c) \cup {top}) = Cardinality(LostAfter(c)) + 1
      BY <2>4, <2>5, FS_AddElement
    <3>2. Cardinality(LostAfter(c)) = sub[c].dropped
      BY <1>3, <2>1 DEF ExplainedAt
    <3>3. QED
      BY <1>7, <2>4, <3>1, <3>2
  <2>7. \A n \in 0 .. sub[c].replayed - 1 :
           n \in Known(c)' \/ n < sub[c].replayed - BufferLimit
    <3>1. \A n \in 0 .. sub[c].replayed - 1 : n # top
      BY <1>2, <2>2
    <3>2. \A n \in 0 .. sub[c].replayed - 1 : n \in Known(c) => n \in Known(c)'
      BY <1>7, <3>1
    <3>3. QED
      BY <1>3, <3>2 DEF ExplainedAt
  <2>8. QED
    BY <1>3, <1>4, <1>7, <2>1, <2>2, <2>6, <2>7 DEF ExplainedAt
<1>8. ExplainedAt(c)'
  BY <1>5, <1>6, <1>7, ReaderKnown
<1>9. QED
  BY <1>1, <1>8 DEF Explained

\* The replay and the subscription set the marks that losses are reckoned from.
LEMMA TailExplained ==
    ASSUME Typed, Turns, Explained, NEW c \in Channels, Replays(c) \/ Subscribes(c)
    PROVE  Explained'
<1>1. /\ UNCHANGED <<reader, next, published>> /\ call' = call
      /\ \A d \in Channels \ {c} : sub'[d] = sub[d]
      /\ \A d \in Channels : Ceiling(d)' = Ceiling(d)
  BY DEF Replays, Subscribes, Ceiling
<1>2. /\ next[c] \in Nat /\ sub[c] \in Sub /\ sub[c].replayed \in Nat
      /\ Ceiling(c) = IF sub[c].on THEN Ceiling(c) ELSE next[c]
  BY DEF Typed, Sub, Turns, Ceiling
<1>3. ExplainedAt(c)
  BY DEF Explained
<1>4. CASE Replays(c)
  <2>1. ~sub[c].on /\ ~sub'[c].on /\ sub'[c].replayed = next[c] /\ sub'[c].dropped = sub[c].dropped
    BY <1>4 DEF Replays, Turns
  <2>2. \A n \in 0 .. next[c] - 1 : n \in ToSet(buffer[c]) \/ n < next[c] - BufferLimit
    <3>1. /\ Window(buffer[c], next[c]) /\ buffer[c] \in Seq(Nat) /\ Len(buffer[c]) \in Nat
          /\ DOMAIN buffer[c] = 1 .. Len(buffer[c])
      BY DEF Typed
    <3>2. ASSUME NEW n \in 0 .. next[c] - 1, ~(n < next[c] - BufferLimit)
          PROVE  n \in ToSet(buffer[c])
      <4> DEFINE i == n - next[c] + Len(buffer[c]) + 1
      <4>1. Len(buffer[c]) = IF next[c] < BufferLimit THEN next[c] ELSE BufferLimit
        BY <3>1 DEF Window
      <4>2. i \in 1 .. Len(buffer[c])
        BY <1>2, <3>2, <4>1, Limits
      <4>3. buffer[c][i] = next[c] - Len(buffer[c]) + i - 1
        BY <3>1, <4>2 DEF Window
      <4>4. buffer[c][i] = n
        BY <1>2, <3>1, <3>2, <4>3
      <4>5. QED
        BY <3>1, <4>2, <4>4 DEF ToSet
    <3>3. QED
      BY <3>2
  <2>3. Known(c)' = Known(c) \cup ToSet(buffer[c])
    BY <1>4, ReplayKnown
  <2>4. ExplainedAt(c)'
    <3>1. (sub[c].replayed <= next[c] /\ (~sub[c].on => sub[c].dropped = 0))'
      BY <1>1, <1>2, <1>3, <2>1 DEF ExplainedAt
    <3>2. (\A n \in 0 .. sub[c].replayed - 1 :
              n \in Known(c) \/ n < sub[c].replayed - BufferLimit)'
      BY <2>1, <2>2, <2>3
    <3>3. QED
      BY <2>1, <3>1, <3>2 DEF ExplainedAt
  <2>5. ASSUME NEW d \in Channels \ {c}
        PROVE  ExplainedAt(d)'
    <3>1. Known(d)' = Known(d) /\ ExplainedAt(d)
      BY <1>4, ReplayKnown DEF Explained
    <3>2. QED
      BY <1>1, <3>1, StaysExplained
  <2>6. QED
    BY <2>4, <2>5 DEF Explained
<1>5. CASE Subscribes(c)
  <2>1. /\ ~sub[c].on /\ sub'[c].on /\ sub'[c].first = next[c]
        /\ sub'[c].replayed = sub[c].replayed /\ sub'[c].dropped = sub[c].dropped
    BY <1>5 DEF Subscribes, Turns
  <2>2. \A d \in Channels : Known(d)' = Known(d)
    BY <1>1, <1>5, RestKnown DEF Subscribes
  <2>3. Ceiling(c)' = next[c] /\ sub[c].replayed <= next[c] /\ sub[c].dropped = 0
    BY <1>1, <1>2, <1>3, <2>1 DEF ExplainedAt
  <2>4. Cardinality(LostAfter(c)') = 0
    <3>1. next[c] .. next[c] - 1 = {}
      BY <1>2
    <3>2. LostAfter(c)' = {}
      BY <1>1, <2>1, <3>1 DEF LostAfter
    <3>3. QED
      BY <3>2, FS_EmptySet
  <2>5. ExplainedAt(c)'
    <3>1. (\A n \in 0 .. sub[c].replayed - 1 :
              n \in Known(c) \/ n < sub[c].replayed - BufferLimit)'
      BY <1>3, <2>1, <2>2 DEF ExplainedAt
    <3>2. (sub[c].replayed <= sub[c].first /\ sub[c].first <= Ceiling(c))'
      BY <1>2, <2>1, <2>3
    <3>3. (sub[c].replayed <= next[c])'
      BY <1>1, <2>1, <2>3
    <3>4. QED
      BY <2>1, <2>3, <2>4, <3>1, <3>2, <3>3 DEF ExplainedAt
  <2>6. ASSUME NEW d \in Channels \ {c}
        PROVE  ExplainedAt(d)'
    <3>1. Known(d)' = Known(d) /\ ExplainedAt(d)
      BY <2>2 DEF Explained
    <3>2. QED
      BY <1>1, <3>1, StaysExplained
  <2>7. QED
    BY <2>5, <2>6 DEF Explained
<1>6. QED
  BY <1>4, <1>5

LEMMA NextExplained ==
    ASSUME Typed, Turns, Ordered, Explained, [Next]_vars
    PROVE  Explained'
<1>1. ASSUME UNCHANGED <<reader, next>>, \A d \in Channels : Known(d)' = Known(d),
             \A d \in Channels : /\ sub'[d].on = sub[d].on /\ sub'[d].first = sub[d].first
                                 /\ sub'[d].replayed = sub[d].replayed
                                 /\ sub'[d].dropped = sub[d].dropped
      PROVE  Explained'
  <2> SUFFICES ASSUME NEW d \in Channels PROVE ExplainedAt(d)'
    BY DEF Explained
  <2>1. ExplainedAt(d) /\ Ceiling(d)' = Ceiling(d) /\ Known(d)' = Known(d)
    BY <1>1 DEF Explained, Ceiling
  <2>2. QED
    BY <1>1, <2>1, StaysExplained
<1>2. ASSUME NEW c \in Channels, Take(c)
      PROVE  Explained'
  <2>1. \A d \in Channels : /\ sub'[d].on = sub[d].on /\ sub'[d].first = sub[d].first
                            /\ sub'[d].replayed = sub[d].replayed
                            /\ sub'[d].dropped = sub[d].dropped
    BY <1>2, TakeDoes
  <2>2. UNCHANGED <<reader, next>>
    BY <1>2, TakeDoes
  <2>3. QED
    BY <1>1, <1>2, <2>1, <2>2, TakeKnown
<1>3. ASSUME NEW t \in Callers, Fanout(t)
      PROVE  Explained'
  BY <1>1, <1>3, FanoutDoes, FanoutKnown
<1>4. ASSUME Delivers
      PROVE  Explained'
  <2>1. UNCHANGED <<reader, next>> /\ sub' = sub
    BY <1>4 DEF Delivers
  <2>2. QED
    BY <1>1, <1>4, <2>1, DeliverKnown
<1>5. ASSUME UNCHANGED <<reader, next, published, call>>, sub' = sub,
             tail.lines = tail'.lines, tail.channel = tail'.channel
      PROVE  Explained'
  <2>1. \A d \in Channels : Known(d)' = Known(d)
    BY <1>5, RestKnown
  <2>2. QED
    BY <1>1, <1>5, <2>1
<1>6. ASSUME EndsChannel
      PROVE  Explained'
  <2>1. UNCHANGED <<reader, next, published, call>> /\ sub' = sub
        /\ tail'.channel = tail.channel /\ tail'.lines = <<>>
    BY <1>6 DEF EndsChannel
  <2>2. tail.lines = <<>>
    BY <1>6 DEF EndsChannel
  <2>3. QED
    BY <1>5, <2>1, <2>2
<1>7. CASE Tailer
  BY <1>3, <1>4, <1>6, <1>7, TailDoes, TailExplained DEF Callers
<1>8. CASE Exit \/ (\E c \in Channels : Emit(c)) \/ UNCHANGED vars
  <2>1. UNCHANGED <<reader, next, sub, tail, call, fan, published>>
    BY <1>8, ServerDoes
  <2>2. QED
    BY <1>5, <2>1
<1>9. QED
  BY <1>2, <1>3, <1>7, <1>8, ReaderExplained, StepsAre

-----------------------------------------------------------------------------
(* What is on disk.                                                        *)

WrittenAt(c) ==
    /\ disk[c].own <= disk[c].session
    /\ disk[c].own = IF reader[c].pc \in {"submit", "persist", "dead"} THEN next[c] - 1 ELSE next[c]

OnDisk == \A c \in Channels : WrittenAt(c)

LEMMA InitOnDisk == Init => OnDisk
BY DEF Init, OnDisk, WrittenAt

\* A line is written before the reader reads the next one.
LEMMA ReaderOnDisk ==
    ASSUME Typed, OnDisk, NEW c \in Channels, Reader(c)
    PROVE  OnDisk'
<1>1. /\ next[c] \in Nat /\ disk \in [Channels -> File] /\ disk[c] \in File
      /\ disk[c].own \in Nat /\ disk[c].session \in Nat /\ WrittenAt(c)
  <2>1. disk[c] \in File
    BY DEF Typed
  <2>2. QED
    BY <2>1 DEF Typed, File, OnDisk
<1>2. \A d \in Channels \ {c} : reader'[d] = reader[d] /\ next'[d] = next[d]
  BY ReaderDoes
<1>3. ASSUME disk' = disk, WrittenAt(c)'
      PROVE  OnDisk'
  BY <1>2, <1>3 DEF OnDisk, WrittenAt
<1>4. CASE Read(c)
  <2>1. disk' = disk /\ reader[c].pc = "read"
    BY <1>4 DEF Read
  <2>2. ASSUME BufferLine(c)
        PROVE  WrittenAt(c)'
    <3>1. reader'[c].pc = "submit" /\ next'[c] = next[c] + 1
      BY <2>2 DEF BufferLine, Typed
    <3>2. QED
      BY <1>1, <2>1, <3>1 DEF WrittenAt
  <2>3. ASSUME Proceed(c, "ended"), next' = next
        PROVE  WrittenAt(c)'
    <3>1. reader'[c].pc = "ended"
      BY <2>3, ProceedTyped
    <3>2. QED
      BY <1>1, <2>1, <2>3, <3>1 DEF WrittenAt
  <2>4. ASSUME reader' = reader, next' = next
        PROVE  WrittenAt(c)'
    BY <1>1, <2>1, <2>4 DEF WrittenAt
  <2>5. BufferLine(c) \/ (Proceed(c, "ended") /\ next' = next) \/ (reader' = reader /\ next' = next)
    BY <1>4 DEF Read
  <2>6. WrittenAt(c)'
    BY <2>2, <2>3, <2>4, <2>5
  <2>7. QED
    BY <1>3, <2>1, <2>6
<1>5. CASE Submit(c)
  <2>1. reader[c].pc = "submit" /\ Proceed(c, "persist") /\ next' = next /\ disk' = disk
    BY <1>5 DEF Submit
  <2>2. reader'[c].pc = "persist"
    BY <2>1, ProceedTyped
  <2>3. WrittenAt(c)'
    BY <1>1, <2>1, <2>2 DEF WrittenAt
  <2>4. QED
    BY <1>3, <2>1, <2>3
<1>6. CASE Persist(c)
  <2>1. reader[c].pc = "persist" /\ next' = next
    BY <1>6 DEF Persist
  <2>2. ASSUME disk' = [disk EXCEPT ![c] = Written(disk[c])], Proceed(c, "read")
        PROVE  OnDisk'
    <3>1. reader'[c].pc = "read"
      BY <2>2, ProceedTyped
    <3>2. disk'[c].own = disk[c].own + 1 /\ disk'[c].session = disk[c].session + 1
      BY <1>1, <2>2 DEF Written
    <3>3. \A d \in Channels \ {c} : disk'[d] = disk[d]
      BY <1>1, <2>2
    <3>4. WrittenAt(c)'
      BY <1>1, <2>1, <3>1, <3>2 DEF WrittenAt
    <3>5. QED
      BY <1>2, <3>3, <3>4 DEF OnDisk, WrittenAt
  <2>3. ASSUME NEW n \in {0, 1}, disk' = [disk EXCEPT ![c] = [disk[c] EXCEPT !.session = @ + n]],
               Proceed(c, "dead")
        PROVE  OnDisk'
    <3>1. reader'[c].pc = "dead"
      BY <2>3, ProceedTyped
    <3>2. disk'[c].own = disk[c].own /\ disk'[c].session = disk[c].session + n
      <4>1. disk'[c] = [disk[c] EXCEPT !.session = disk[c].session + n]
        BY <1>1, <2>3
      <4>2. QED
        BY <1>1, <4>1 DEF File
    <3>3. \A d \in Channels \ {c} : disk'[d] = disk[d]
      BY <1>1, <2>3
    <3>4. WrittenAt(c)'
      BY <1>1, <2>1, <3>1, <3>2 DEF WrittenAt
    <3>5. QED
      BY <1>2, <3>3, <3>4 DEF OnDisk, WrittenAt
  <2>4. \/ disk' = [disk EXCEPT ![c] = Written(disk[c])] /\ Proceed(c, "read")
        \/ \E n \in {0, 1} : /\ disk' = [disk EXCEPT ![c] = [disk[c] EXCEPT !.session = @ + n]]
                             /\ Proceed(c, "dead")
    BY <1>1, <1>6 DEF Persist
  <2>5. QED
    BY <2>2, <2>3, <2>4
<1>7. QED
  BY <1>4, <1>5, <1>6 DEF Reader

LEMMA NextOnDisk == Typed /\ OnDisk /\ [Next]_vars => OnDisk'
<1> SUFFICES ASSUME Typed, OnDisk, [Next]_vars PROVE OnDisk'
  OBVIOUS
<1>1. ASSUME UNCHANGED <<reader, next, disk>>
      PROVE  OnDisk'
  BY <1>1 DEF OnDisk, WrittenAt
<1>2. CASE Exit \/ UNCHANGED vars \/ \E c \in Channels : Emit(c)
  BY <1>1, <1>2 DEF Exit, Emit, vars
<1>3. ASSUME NEW t \in Callers, Fanout(t)
      PROVE  OnDisk'
  BY <1>1, <1>3 DEF Fanout, ReadNumber, SetNumber, Store, Publish
<1>4. ASSUME NEW c \in Channels, Take(c) \/ Replay(c) \/ Subscribe(c) \/ ReplayLine
      PROVE  OnDisk'
  BY <1>1, <1>4 DEF Take, Replay, Subscribe, ReplayLine
<1>5. CASE ReplayLine
  BY <1>1, <1>5 DEF ReplayLine
<1>6. QED
  BY <1>2, <1>3, <1>4, <1>5, ReaderOnDisk DEF Next, Tailer, Worker, Callers

\* Of LogTailing, that each line is accounted for: one that does not reach the browsers had
\* left the ring buffer before the tail's replay, came between the replay and the
\* subscription, or is counted as dropped by a full queue; and all but the newest of its
\* channel are in the files of the session.
THEOREM EveryLineAccounted == Spec => []LinesAreAccounted
<1> DEFINE Inv == IInv /\ Explained /\ OnDisk
<1>1. Init => Inv
  BY InitTyped, InitTurns, InitOrdered, InitNumbered, InitExplained, InitOnDisk DEF IInv
<1>2. ASSUME IInv, IInv', Explained, OnDisk, [Next]_vars
      PROVE  Explained' /\ OnDisk'
  BY <1>2, NextExplained, NextOnDisk DEF IInv
<1>3. ASSUME Typed, Explained, OnDisk
      PROVE  LinesAreAccounted
  <2>1. LossesAreExplained
    <3> SUFFICES ASSUME NEW c \in Channels
                 PROVE  /\ \A n \in (0 .. sub[c].replayed - 1) \ (Arrived(c) \cup Underway(c)) :
                              n < sub[c].replayed - BufferLimit
                        /\ sub[c].on =>
                              Cardinality((sub[c].first .. next[c] - 1)
                                          \ (Arrived(c) \cup Underway(c))) = sub[c].dropped
      BY DEF LossesAreExplained
    <3>1. QED
      BY <1>3 DEF Explained, ExplainedAt, LostAfter, Known
  <2>2. OnlyTheNewestIsUnwritten
    <3> SUFFICES ASSUME NEW c \in Channels
                 PROVE  /\ disk[c].own <= disk[c].session
                        /\ disk[c].own < next[c] =>
                              /\ disk[c].own = next[c] - 1
                              /\ reader[c].pc \in {"submit", "persist", "dead"}
      BY DEF OnlyTheNewestIsUnwritten
    <3>1. next[c] \in Nat /\ WrittenAt(c)
      BY <1>3 DEF Typed, OnDisk
    <3>2. QED
      BY <3>1 DEF WrittenAt
  <2>3. QED
    BY <2>1, <2>2 DEF LinesAreAccounted
<1>4. IInv => Typed
  BY DEF IInv
<1>5. QED
  BY <1>1, <1>2, <1>3, <1>4, AlwaysOrdered, PTL DEF Spec
=============================================================================
