--------------------------- MODULE SchedulesProofs ---------------------------
(* Proofs about the scheduler, for any days, schedules, clients and bounds.   *)
EXTENDS Schedules, FiniteSetTheorems, TLAPS

SchedRow == [exists : BOOLEAN, deleted : BOOLEAN, world : Worlds \cup {None},
             type : {"backup", "cleanup", "maintenance"}, plan : Plans,
             enabled : BOOLEAN, version : Nat, changed : Time]

-----------------------------------------------------------------------------
(* Arithmetic: what is due.                                                *)

\* What div and mod compute.
LEMMA Division ==
    ASSUME NEW a \in Int, NEW d \in Nat \ {0}
    PROVE  /\ a % d \in 0 .. d - 1 /\ a \div d \in Int
           /\ a = d * (a \div d) + (a % d)
OBVIOUS

\* A multiple is at least a whole d away from 0, or 0.
LEMMA Multiples ==
    ASSUME NEW d \in Nat \ {0}, NEW k \in Int
    PROVE  /\ d * k \in Int /\ k * d = d * k
           /\ k >= 1 => d * k >= d
           /\ k <= 0 - 1 => d * k <= 0 - d
           /\ k = 0 => d * k = 0
OBVIOUS

\* The step the solver does not make by itself.
LEMMA Distributes ==
    ASSUME NEW d \in Int, NEW j \in Int, NEW k \in Int
    PROVE  d * (j - k) = d * j - d * k
OBVIOUS

\* every_n_days has a period.
LEMMA PeriodPositive ==
    ASSUME NEW j \in Nat \ {0}, NEW k \in Nat \ {0}
    PROVE  j * k \in Nat \ {0}
OBVIOUS

\* The remainder of a multiple and a rest is the rest.
LEMMA Remainder ==
    ASSUME NEW a \in Int, NEW d \in Nat \ {0}, NEW q \in Int, NEW r \in 0 .. d - 1,
           a = d * q + r
    PROVE  a % d = r
<1> DEFINE k == (a \div d) - q
<1>1. /\ a % d \in 0 .. d - 1 /\ a \div d \in Int
      /\ a = d * (a \div d) + (a % d)
  BY Division
<1>2. k \in Int /\ d * k = d * (a \div d) - d * q /\ d * q \in Int /\ d * (a \div d) \in Int
  BY <1>1, Distributes, Multiples
<1>3. d * k = r - (a % d)
  BY <1>1, <1>2
<1> HIDE DEF k
<1>4. (k >= 1 => d * k >= d) /\ (k <= 0 - 1 => d * k <= 0 - d)
  BY <1>2, Multiples
<1>5. k = 0
  BY <1>1, <1>2, <1>3, <1>4
<1>6. d * k = 0
  BY <1>5, Multiples
<1>7. QED
  BY <1>1, <1>3, <1>6

\* The newest instant up to t that is whole periods d after a base.
Latest(base, d, t) == base + d * ((t - base) \div d)

\* It is the newest: the next is more than t.
LEMMA LatestIs ==
    ASSUME NEW d \in Nat \ {0}, NEW base \in Int, NEW t \in Int
    PROVE  /\ Latest(base, d, t) \in Int
           /\ Latest(base, d, t) <= t /\ t < Latest(base, d, t) + d
           /\ (Latest(base, d, t) - base) % d = 0
           /\ Latest(base, d, t) = t - ((t - base) % d)
           /\ \A o \in Int : (o - base) % d = 0 =>
                 o <= Latest(base, d, t) \/ o >= Latest(base, d, t) + d
<1> DEFINE q == (t - base) \div d
           c == base + d * q
<1>1. /\ (t - base) % d \in 0 .. d - 1 /\ q \in Int
      /\ t - base = d * q + ((t - base) % d)
  BY Division
<1>2. d * q \in Int
  BY <1>1, Multiples
<1>3. c \in Int /\ c <= t /\ t < c + d /\ c = t - ((t - base) % d)
  BY <1>1, <1>2
<1>4. (c - base) % d = 0
  <2>1. c - base \in Int /\ c - base = d * q + 0 /\ 0 \in 0 .. d - 1
    BY <1>2
  <2>2. QED
    BY <2>1, <1>1, Remainder
<1>5. ASSUME NEW o \in Int, (o - base) % d = 0
      PROVE  o <= c \/ o >= c + d
  <2> DEFINE k == (o - base) \div d
             n == k - q
  <2>1. k \in Int /\ o - base = d * k + 0
    <3>1. k \in Int /\ o - base = d * k + ((o - base) % d)
      BY Division
    <3>2. QED
      BY <1>5, <3>1
  <2>2. n \in Int /\ d * n = d * k - d * q /\ d * k \in Int
    BY <1>1, <2>1, Distributes, Multiples
  <2>3. o = c + d * n /\ d * n \in Int
    <3>1. d * n \in Int
      BY <2>2, Multiples
    <3> HIDE DEF n, k, q
    <3>2. QED
      BY <1>2, <2>1, <2>2, <3>1
  <2>4. (n >= 1 => d * n >= d) /\ (n <= 0 - 1 => d * n <= 0 - d) /\ (n = 0 => d * n = 0)
    BY <2>2, Multiples
  <2> HIDE DEF n, c
  <2>5. QED
    BY <1>3, <2>2, <2>3, <2>4
<1> HIDE DEF c
<1>6. QED
  BY <1>3, <1>4, <1>5 DEF Latest, c

\* What _expected_run_at returns is the newest occurrence up to t, or 0 if there is none.
LEMMA ExpectedIsNewest ==
    ASSUME NEW row \in SchedRow, NEW t \in Time
    PROVE  LET e == Expected(row, t) IN
           \/ e = 0 /\ \A o \in Occurrences(row) : o > t
           \/ /\ e \in Occurrences(row) /\ e \in 1 .. t
              /\ \A o \in Occurrences(row) : o <= e \/ o > t
<1>1. /\ Day \in Nat \ {0} /\ MaxTime \in Nat /\ t \in Nat /\ t <= MaxTime
      /\ row.plan.days \in Nat \ {0} /\ row.plan.at \in 0 .. Day - 1
      /\ row.changed \in Nat
  BY ScheduleAssumption DEF SchedRow, Plans, Time
<1> DEFINE period == row.plan.days * Day
           changed == row.changed
<1>2. CASE row.plan.kind = "every_n_days"
  <2> DEFINE c == Latest(changed, period, t)
             q == (t - changed) \div period
  <2>1. period \in Nat \ {0}
    BY <1>1, PeriodPositive
  <2> HIDE DEF period
  <2>2. /\ c \in Int /\ c <= t /\ t < c + period /\ (c - changed) % period = 0
        /\ \A o \in Int : (o - changed) % period = 0 => o <= c \/ o >= c + period
    <3>1. changed \in Int /\ t \in Int
      BY <1>1
    <3> HIDE DEF changed
    <3>2. QED
      BY <2>1, <3>1, LatestIs
  <2>3. Expected(row, t) = IF t - changed < period THEN 0 ELSE c
    <3>1. q \in Int /\ q * period = period * q
      BY <1>1, <2>1, Division, Multiples
    <3>2. Expected(row, t) = IF t - changed < period THEN 0 ELSE changed + q * period
      BY <1>2 DEF Expected, period
    <3>3. QED
      BY <3>1, <3>2 DEF Latest
  <2>4. Occurrences(row) = {o \in Time : o > changed /\ (o - changed) % period = 0}
    BY <1>2 DEF Occurrences, period
  <2>5. (changed - changed) % period = 0
    <3>1. changed - changed = 0 /\ 0 = period * 0 + 0 /\ 0 \in 0 .. period - 1
      BY <1>1, <2>1
    <3>2. QED
      BY <2>1, <3>1, Remainder
  <2>6. \A o \in Int : (o - changed) % period = 0 => o <= changed \/ o >= changed + period
    <3> DEFINE l == Latest(changed, period, changed)
    <3>1. changed \in Int
      BY <1>1
    <3>2. /\ l \in Int /\ l <= changed /\ changed < l + period
          /\ \A o \in Int : (o - changed) % period = 0 => o <= l \/ o >= l + period
      <4> HIDE DEF changed
      <4>1. QED
        BY <2>1, <3>1, LatestIs
    <3> HIDE DEF l, changed
    <3>3. changed <= l \/ changed >= l + period
      BY <2>5, <3>1, <3>2
    <3>4. l = changed
      BY <2>1, <3>1, <3>2, <3>3
    <3>5. QED
      BY <3>2, <3>4
  <2> HIDE DEF c
  <2>7. \A o \in Occurrences(row) :
           o \in Int /\ (o <= c \/ o >= c + period) /\ o >= changed + period
    BY <1>1, <2>2, <2>4, <2>6 DEF Time
  <2>8. CASE t - changed < period
    BY <1>1, <2>1, <2>2, <2>3, <2>7, <2>8
  <2>9. CASE ~(t - changed < period)
    <3>1. Expected(row, t) = c /\ c > changed
      <4>1. changed <= c \/ changed >= c + period
        BY <1>1, <2>2, <2>5
      <4>2. c # changed
        BY <1>1, <2>1, <2>2, <2>9
      <4>3. QED
        BY <1>1, <2>1, <2>2, <2>3, <2>9, <4>1, <4>2
    <3>2. c \in Occurrences(row) /\ c \in 1 .. t
      BY <1>1, <2>2, <2>4, <3>1 DEF Time
    <3>3. QED
      BY <1>1, <2>1, <2>2, <2>7, <3>1, <3>2
  <2>10. QED
    BY <2>8, <2>9
<1>3. CASE row.plan.kind # "every_n_days"
  <2> DEFINE at == row.plan.at
             c == Latest(at, Day, t)
  <2>1. /\ c \in Int /\ c <= t /\ t < c + Day /\ (c - at) % Day = 0
        /\ c = t - ((t - at) % Day)
        /\ \A o \in Int : (o - at) % Day = 0 => o <= c \/ o >= c + Day
    <3>1. at \in Int /\ t \in Int
      BY <1>1
    <3>2. QED
      BY <1>1, <3>1, LatestIs
  <2>2. Expected(row, t) = IF c <= changed THEN 0 ELSE c
    BY <1>3, <2>1 DEF Expected
  <2>3. Occurrences(row) = {o \in Time : o > changed /\ o % Day = at}
    BY <1>3 DEF Occurrences
  <2> HIDE DEF c
  <2>4. ASSUME NEW o \in Int
        PROVE  o % Day = at <=> (o - at) % Day = 0
    <3>1. ASSUME o % Day = at
          PROVE  (o - at) % Day = 0
      <4>1. o \div Day \in Int /\ o = Day * (o \div Day) + at
        BY <1>1, <3>1, Division
      <4>2. o - at = Day * (o \div Day) + 0 /\ o - at \in Int /\ 0 \in 0 .. Day - 1
        BY <1>1, <4>1, Multiples
      <4>3. QED
        BY <1>1, <4>1, <4>2, Remainder
    <3>2. ASSUME (o - at) % Day = 0
          PROVE  o % Day = at
      <4>1. (o - at) \div Day \in Int /\ o - at = Day * ((o - at) \div Day) + 0
        <5>1. o - at \in Int
          BY <1>1
        <5>2. /\ (o - at) \div Day \in Int
              /\ o - at = Day * ((o - at) \div Day) + ((o - at) % Day)
          BY <1>1, <5>1, Division
        <5>3. QED
          BY <3>2, <5>2
      <4>2. o = Day * ((o - at) \div Day) + at
        BY <1>1, <4>1, Multiples
      <4>3. QED
        BY <1>1, <4>1, <4>2, Remainder
    <3>3. QED
      BY <3>1, <3>2
  <2>5. c % Day = at
    BY <2>1, <2>4
  <2>6. \A o \in Occurrences(row) : o \in Int /\ (o <= c \/ o >= c + Day) /\ o > changed
    BY <2>1, <2>3, <2>4 DEF Time
  <2>7. CASE c <= changed
    BY <1>1, <2>1, <2>2, <2>6, <2>7
  <2>8. CASE ~(c <= changed)
    BY <1>1, <2>1, <2>2, <2>3, <2>5, <2>6, <2>8 DEF Time
  <2>9. QED
    BY <2>7, <2>8
<1>4. QED
  BY <1>2, <1>3

-----------------------------------------------------------------------------
(* Types.                                                                  *)

Handling == pc \in {"reread", "conflict", "create", "record"}

Ticking == pc = "scan" \/ Handling

SchedPlaced ==
    /\ sched \in [Ids -> SchedRow]
    /\ \A s \in Ids : sched[s].deleted => sched[s].exists /\ ~sched[s].enabled

WorkPlaced ==
    /\ missed \subseteq [id : Ids, at : 1 .. now,
                         resolution : {"pending", "resolved", "ignored"}]
    /\ gone \subseteq Worlds /\ held \subseteq 1 .. issued
    /\ now \in Time /\ watched \subseteq 0 .. now

\* A tick is for the instant it began in.
ScanPlaced ==
    /\ pc \in {"idle", "scan", "reread", "conflict", "create", "record", "down"}
    /\ tick \in [now : Time, todo : SUBSET Run]
    /\ \A x \in tick.todo : x.id \in Ids
    /\ cur \in Run
    /\ Ticking => tick.now = now
    /\ Handling => cur.id \in Ids /\ cur.due \in 1 .. now

Placed == SchedPlaced /\ WorkPlaced /\ ScanPlaced

\* Only what is in a world is deleted.
Typed ==
    /\ Ops!TypeOK
    /\ \A i \in Ops!OpId : ops[i].type = "DeleteWorld" => ops[i].world \in Worlds
    /\ Placed

\* What the properties read of a row stays.
SameRow(i) ==
    /\ ops'[i].key = ops[i].key
    /\ ops'[i].type = ops[i].type
    /\ ops'[i].world = ops[i].world

RowsKept == issued' = issued /\ \A i \in 1 .. issued : SameRow(i)

RowAdded(k) ==
    /\ issued' = issued + 1 /\ issued' \in Ops!OpId /\ ops'[issued'].key = k
    /\ \A i \in 1 .. issued : SameRow(i)

\* A row with another status.
LEMMA StatusRow ==
    ASSUME NEW row \in Ops!Row, NEW st \in Ops!InFlight \cup Ops!Terminal
    PROVE  LET other == [row EXCEPT !.status = st] IN
           /\ other \in Ops!Row /\ other.status = st
           /\ other.key = row.key /\ other.type = row.type /\ other.world = row.world
BY DEF Ops!Row

\* The table, as the leaves below use it.
LEMMA TableTyped ==
    ASSUME Typed
    PROVE  /\ MaxOps \in Nat \ {0} /\ Ops!OpId = 1 .. MaxOps
           /\ ops \in [Ops!OpId -> Ops!Row] /\ issued \in 0 .. MaxOps
           /\ \A i \in Ops!OpId : /\ ops[i].status = "Absent" <=> i > issued
                                  /\ ops[i].status \notin {"Created", "Validating"}
           /\ audits \in [Ops!OpId -> Nat] /\ claims \in [Ops!OpId -> Nat]
           /\ \A i \in Ops!OpId : ops[i].type = "DeleteWorld" => ops[i].world \in Worlds
BY ScheduleAssumption DEF Typed, Ops!TypeOK, Ops!OpId

\* Only rows in flight make room.
LEMMA SupersededRows ==
    /\ Ops!InFlight \cap {"Absent"} = {}
    /\ \A r : \A j \in Ops!Superseded(r) : j \in Ops!OpId /\ ops[j].status \in Ops!InFlight
<1>1. Ops!InFlight \cap {"Absent"} = {}
  BY DEF Ops!InFlight
<1>2. ASSUME NEW r, NEW j \in Ops!Superseded(r)
      PROVE  j \in Ops!OpId /\ ops[j].status \in Ops!InFlight
  <2>1. Ops!Superseded(r) \subseteq Ops!Active(r.world)
    BY DEF Ops!Superseded
  <2>2. QED
    BY <1>2, <2>1 DEF Ops!Active, Ops!InFlightOps
<1>3. QED
  BY <1>1, <1>2

\* What create_with_replay does to the table.
LEMMA Creation ==
    ASSUME Typed, NEW r \in Ops!Request, Ops!Create(r),
           r.type = "DeleteWorld" => r.world \in Worlds
    PROVE  /\ Ops!TypeOK' /\ RowAdded(r.key)
           /\ \A i \in Ops!OpId : ops'[i].type = "DeleteWorld" => ops'[i].world \in Worlds
<1> DEFINE new == Ops!NewRow(r)
<1>1. /\ MaxOps \in Nat \ {0} /\ issued \in Nat /\ issued < MaxOps
      /\ issued + 1 \in Ops!OpId /\ Ops!OpId = 1 .. MaxOps
  BY TableTyped DEF Ops!Create
<1>2. /\ new \in Ops!Row /\ new.status \in {"Queued", "Running"}
      /\ new.key = r.key /\ new.type = r.type /\ new.world = r.world
  BY DEF Ops!NewRow, Ops!Request, Ops!Row, Ops!InFlight
<1> HIDE DEF new
<1>3. /\ issued' = issued + 1
      /\ ops' = [j \in Ops!OpId |->
                   IF j = issued + 1 THEN new
                   ELSE IF j \in Ops!Superseded(r) THEN [ops[j] EXCEPT !.status = "Cancelled"]
                   ELSE ops[j]]
      /\ audits' = [j \in Ops!OpId |-> IF j \in Ops!TerminalAudits(r) THEN audits[j] + 1
                                                                     ELSE audits[j]]
      /\ claims' = claims
  BY DEF Ops!Create, new
<1>4. ASSUME NEW j \in Ops!OpId, j # issued + 1
      PROVE  /\ ops'[j] \in Ops!Row /\ SameRow(j)
             /\ ops'[j].status = "Absent" <=> j > issued
             /\ ops'[j].status \notin {"Created", "Validating"}
  <2>1. CASE j \in Ops!Superseded(r)
    <3>1. ops'[j] = [ops[j] EXCEPT !.status = "Cancelled"] /\ ops[j] \in Ops!Row
      BY <1>3, <1>4, <2>1, TableTyped
    <3>2. "Cancelled" \in Ops!InFlight \cup Ops!Terminal
      BY DEF Ops!Terminal
    <3>3. ops[j].status # "Absent" /\ j <= issued
      BY <1>1, <1>4, <2>1, SupersededRows, TableTyped
    <3>4. /\ ops'[j] \in Ops!Row /\ ops'[j].status = "Cancelled"
          /\ ops'[j].key = ops[j].key /\ ops'[j].type = ops[j].type
          /\ ops'[j].world = ops[j].world
      BY <3>1, <3>2, StatusRow
    <3>5. QED
      BY <1>1, <3>3, <3>4 DEF SameRow
  <2>2. CASE j \notin Ops!Superseded(r)
    BY <1>3, <1>4, <2>2, TableTyped DEF SameRow
  <2>3. QED
    BY <2>1, <2>2
<1>5. ops' \in [Ops!OpId -> Ops!Row] /\ ops'[issued + 1] = new
  BY <1>1, <1>2, <1>3, <1>4
<1>6. audits' \in [Ops!OpId -> Nat] /\ claims' \in [Ops!OpId -> Nat]
  BY <1>3, TableTyped
<1>7. ASSUME NEW j \in Ops!OpId
      PROVE  /\ ops'[j].status = "Absent" <=> j > issued + 1
             /\ ops'[j].status \notin {"Created", "Validating"}
             /\ ops'[j].type = "DeleteWorld" => ops'[j].world \in Worlds
  <2>1. CASE j = issued + 1
    BY <1>1, <1>2, <1>5, <2>1
  <2>2. CASE j # issued + 1
    BY <1>1, <1>4, <2>2, TableTyped DEF SameRow
  <2>3. QED
    BY <2>1, <2>2
<1>8. Ops!TypeOK'
  <2>1. issued' \in 0 .. MaxOps
    BY <1>1, <1>3
  <2>2. QED
    BY <1>3, <1>5, <1>6, <1>7, <2>1 DEF Ops!TypeOK, Ops!OpId
<1>9. RowAdded(r.key)
  <2>1. \A i \in 1 .. issued : i \in Ops!OpId /\ i # issued + 1
    BY <1>1
  <2>2. QED
    BY <1>1, <1>2, <1>3, <1>4, <1>5, <2>1 DEF RowAdded
<1>10. QED
  BY <1>7, <1>8, <1>9

\* What transition does to it.
LEMMA Ending ==
    ASSUME Typed, NEW i \in Ops!OpId, NEW st \in Ops!Terminal, Ops!Transition(i, st)
    PROVE  /\ Ops!TypeOK' /\ RowsKept
           /\ \A j \in Ops!OpId : ops'[j].type = "DeleteWorld" => ops'[j].world \in Worlds
<1>1. /\ ops' = [ops EXCEPT ![i].status = st] /\ ops[i].status \in Ops!InFlight
      /\ audits' = IF st \in Ops!Terminal THEN [audits EXCEPT ![i] = @ + 1] ELSE audits
      /\ issued' = issued /\ claims' = claims
  BY DEF Ops!Transition, Ops!Transitionable
<1>2. /\ ops' \in [Ops!OpId -> Ops!Row] /\ ops'[i] = [ops[i] EXCEPT !.status = st]
      /\ \A j \in Ops!OpId : j # i => ops'[j] = ops[j]
  BY <1>1, StatusRow, TableTyped
<1>3. st \notin {"Absent", "Created", "Validating"}
  BY DEF Ops!Terminal
<1>4. /\ ops'[i].status = st /\ SameRow(i) /\ ops[i].status # "Absent"
  BY <1>1, <1>2, StatusRow, SupersededRows, TableTyped DEF SameRow
<1>5. \A j \in Ops!OpId : /\ SameRow(j)
                          /\ ops'[j].status = "Absent" <=> ops[j].status = "Absent"
                          /\ ops'[j].status \notin {"Created", "Validating"}
  BY <1>2, <1>3, <1>4, TableTyped DEF SameRow
<1>6. audits' \in [Ops!OpId -> Nat]
  BY <1>1, TableTyped
<1>7. Ops!TypeOK'
  BY <1>1, <1>2, <1>5, <1>6, TableTyped DEF Ops!TypeOK, Ops!OpId
<1>8. RowsKept
  <2>1. \A j \in 1 .. issued : j \in Ops!OpId
    BY TableTyped
  <2>2. QED
    BY <1>1, <1>5, <2>1 DEF RowsKept
<1>9. QED
  BY <1>5, <1>7, <1>8, TableTyped DEF SameRow

\* The request of _dispatch_due_run fits the engine.
LEMMA RunRequestIs ==
    ASSUME cur \in Run, cur.id \in Ids
    PROVE  /\ RunRequest(cur) \in Ops!Request /\ RunRequest(cur).key = <<cur.id, cur.due>>
           /\ RunRequest(cur).type # "DeleteWorld"
BY DEF RunRequest, TypeOf, Run, Ops!Request, Ops!Types

\* So do the requests of the others, which carry no key.
LEMMA DirectRequestIs ==
    ASSUME NEW type \in DirectTypes, NEW w \in Worlds
    PROVE  /\ DirectRequest(type, w) \in Ops!Request /\ DirectRequest(type, w).key = None
           /\ DirectRequest(type, w).world \in Worlds
BY ScheduleAssumption DEF DirectRequest, Ops!Request, Ops!Types

\* A step that leaves the table alone.
LEMMA UntouchedRows ==
    ASSUME Typed, UNCHANGED rows
    PROVE  /\ Ops!TypeOK' /\ RowsKept
           /\ \A i \in Ops!OpId : ops'[i].type = "DeleteWorld" => ops'[i].world \in Worlds
BY DEF Typed, rows, Ops!TypeOK, RowsKept, SameRow

\* A run in hand is inserted.
Queues == pc = "create" /\ pc' = "scan" /\ Dispatch

Notes == RecordMissed

\* What becomes of the operations table in a step.
LEMMA RowsStep ==
    ASSUME Typed, [Next]_vars
    PROVE  /\ Ops!TypeOK'
           /\ \A i \in Ops!OpId : ops'[i].type = "DeleteWorld" => ops'[i].world \in Worlds
           /\ \/ RowsKept
              \/ Queues /\ RowAdded(<<cur.id, cur.due>>)
              \/ UNCHANGED <<sched, missed, scan>> /\ RowAdded(None)
<1>1. CASE Dispatch
  <2>1. cur \in Run /\ cur.id \in Ids
    BY <1>1 DEF Typed, Placed, ScanPlaced, Handling, Dispatch
  <2>2. CASE Ops!Admissible(RunRequest(cur))
    <3>1. Ops!Create(RunRequest(cur)) /\ Queues
      BY <1>1, <2>2 DEF Dispatch, Queues, Step
    <3>2. QED
      BY <2>1, <3>1, RunRequestIs, Creation
  <2>3. CASE ~Ops!Admissible(RunRequest(cur))
    BY <1>1, <2>3, UntouchedRows DEF Dispatch
  <2>4. QED
    BY <2>2, <2>3
<1>2. ASSUME NEW type \in DirectTypes, NEW w \in Worlds, BeginDirect(type, w)
      PROVE  /\ Ops!TypeOK' /\ RowAdded(None) /\ UNCHANGED <<sched, missed, scan>>
             /\ \A i \in Ops!OpId : ops'[i].type = "DeleteWorld" => ops'[i].world \in Worlds
  BY <1>2, DirectRequestIs, Creation DEF BeginDirect
<1>3. ASSUME NEW i \in held, NEW st \in {"Completed", "Failed"}, EndDirect(i, st)
      PROVE  /\ Ops!TypeOK' /\ RowsKept
             /\ \A j \in Ops!OpId : ops'[j].type = "DeleteWorld" => ops'[j].world \in Worlds
  <2>1. i \in Ops!OpId /\ st \in Ops!Terminal
    BY TableTyped DEF Typed, Placed, WorkPlaced, Ops!Terminal
  <2>2. QED
    BY <1>3, <2>1, Ending, UntouchedRows DEF EndDirect
<1>4. ASSUME ~Dispatch,
             \A type \in DirectTypes, w \in Worlds : ~BeginDirect(type, w),
             \A i \in held, st \in {"Completed", "Failed"} : ~EndDirect(i, st)
      PROVE  UNCHANGED rows
  <2>1. CASE Scheduler
    BY <1>4, <2>1 DEF Scheduler, StartTick, Examine, Reread, CheckConflict, RecordMissed,
       AbortTick, EndTick
  <2>2. CASE Users
    <3>1. ASSUME NEW s \in Ids, NEW x \in Settings, CreateSchedule(s, x) \/ UpdateSchedule(s, x)
          PROVE  UNCHANGED rows
      BY <3>1 DEF CreateSchedule, UpdateSchedule, Edit
    <3>2. ASSUME NEW s \in Ids, DeleteSchedule(s)
          PROVE  UNCHANGED rows
      BY <3>2 DEF DeleteSchedule, Edit
    <3>3. ASSUME NEW m \in missed, NEW resolution \in {"resolved", "ignored"},
                 Resolve(m, resolution)
          PROVE  UNCHANGED rows
      BY <3>3 DEF Resolve
    <3>4. QED
      BY <1>4, <2>2, <3>1, <3>2, <3>3 DEF Users
  <2>3. CASE Crash \/ Boot \/ Advance \/ UNCHANGED vars
    BY <2>3 DEF Crash, Boot, Advance, vars
  <2>4. QED
    BY <2>1, <2>2, <2>3 DEF Next
<1>5. QED
  BY <1>1, <1>2, <1>3, <1>4, UntouchedRows

\* The row an edit writes.
LEMMA GivenRow ==
    ASSUME NEW row \in SchedRow, NEW x \in Settings, now \in Time
    PROVE  LET given == Given(row, x) IN
           /\ given \in SchedRow /\ given.changed = now /\ given.version = row.version + 1
           /\ given.exists = row.exists /\ given.deleted = row.deleted
<1>1. /\ x.world \in Worlds \cup {None} /\ x.type \in {"backup", "cleanup", "maintenance"}
      /\ x.plan \in Plans /\ x.enabled \in BOOLEAN
  BY ScheduleAssumption
<1> DEFINE r1 == [row EXCEPT !.world = x.world]
           r2 == [r1 EXCEPT !.type = x.type]
           r3 == [r2 EXCEPT !.plan = x.plan]
           r4 == [r3 EXCEPT !.enabled = x.enabled]
           r5 == [r4 EXCEPT !.version = row.version + 1]
           r6 == [r5 EXCEPT !.changed = now]
<1>2. /\ row.version \in Nat /\ r1 \in SchedRow
      /\ r1.exists = row.exists /\ r1.deleted = row.deleted
  BY <1>1 DEF SchedRow
<1>3. Given(row, x) = r6
  BY DEF Given
<1> HIDE DEF r1
<1>4. r2 \in SchedRow /\ r2.exists = row.exists /\ r2.deleted = row.deleted
  BY <1>1, <1>2 DEF SchedRow
<1> HIDE DEF r2
<1>5. r3 \in SchedRow /\ r3.exists = row.exists /\ r3.deleted = row.deleted
  BY <1>1, <1>4 DEF SchedRow
<1> HIDE DEF r3
<1>6. r4 \in SchedRow /\ r4.exists = row.exists /\ r4.deleted = row.deleted
  BY <1>1, <1>5 DEF SchedRow
<1> HIDE DEF r4
<1>7. /\ r5 \in SchedRow /\ r5.version = row.version + 1
      /\ r5.exists = row.exists /\ r5.deleted = row.deleted
  BY <1>2, <1>6 DEF SchedRow
<1> HIDE DEF r5
<1>8. QED
  BY <1>3, <1>7 DEF SchedRow

\* What an edit makes of a schedule.
Edited(s) ==
    /\ sched'[s].version > sched[s].version /\ sched'[s].exists
    /\ sched'[s].changed = now \/ ~Enabled(sched'[s])

\* The schedules table in a step; the clock stands still while it changes.
LEMMA SchedStep ==
    ASSUME Placed, [Next]_vars
    PROVE  /\ SchedPlaced'
           /\ \A s \in Ids : sched'[s] = sched[s] \/ Edited(s)
           /\ sched' = sched \/ UNCHANGED <<rows, missed, work, scan, clock>>
<1>1. /\ sched \in [Ids -> SchedRow] /\ now \in Time
      /\ \A s \in Ids : sched[s].deleted => sched[s].exists /\ ~sched[s].enabled
  BY DEF Placed, SchedPlaced, WorkPlaced
<1>2. ASSUME NEW s \in Ids, NEW x \in Settings, CreateSchedule(s, x)
      PROVE  /\ sched' \in [Ids -> SchedRow] /\ UNCHANGED <<rows, missed, work, scan, clock>>
             /\ \A q \in Ids : sched'[q].deleted => sched'[q].exists /\ ~sched'[q].enabled
             /\ \A q \in Ids : sched'[q] = sched[q] \/ Edited(q)
  <2> DEFINE born == [sched[s] EXCEPT !.exists = TRUE]
  <2>1. born \in SchedRow /\ born.exists /\ born.deleted = sched[s].deleted
        /\ born.version = sched[s].version /\ sched[s].version \in Nat
    BY <1>1 DEF SchedRow
  <2>2. /\ sched' = [sched EXCEPT ![s] = Given(born, x)] /\ ~sched[s].exists
        /\ UNCHANGED <<rows, missed, work, scan, clock>>
    BY <1>2 DEF CreateSchedule
  <2> HIDE DEF born
  <2>3. /\ Given(born, x) \in SchedRow /\ Given(born, x).changed = now
        /\ Given(born, x).version = sched[s].version + 1
        /\ Given(born, x).exists /\ ~Given(born, x).deleted
    BY <1>1, <2>1, <2>2, GivenRow
  <2>4. /\ sched' \in [Ids -> SchedRow] /\ sched'[s] = Given(born, x)
        /\ \A q \in Ids : q # s => sched'[q] = sched[q]
    BY <1>1, <2>2, <2>3
  <2>5. QED
    BY <1>1, <2>1, <2>2, <2>3, <2>4 DEF Edited
<1>3. ASSUME NEW s \in Ids, NEW x \in Settings, UpdateSchedule(s, x)
      PROVE  /\ sched' \in [Ids -> SchedRow] /\ UNCHANGED <<rows, missed, work, scan, clock>>
             /\ \A q \in Ids : sched'[q].deleted => sched'[q].exists /\ ~sched'[q].enabled
             /\ \A q \in Ids : sched'[q] = sched[q] \/ Edited(q)
  <2>1. /\ sched' = [sched EXCEPT ![s] = Given(sched[s], x)]
        /\ sched[s].exists /\ ~sched[s].deleted /\ UNCHANGED <<rows, missed, work, scan, clock>>
    BY <1>3 DEF UpdateSchedule, Edit
  <2>2. /\ Given(sched[s], x) \in SchedRow /\ Given(sched[s], x).changed = now
        /\ Given(sched[s], x).version = sched[s].version + 1 /\ sched[s].version \in Nat
        /\ Given(sched[s], x).exists /\ ~Given(sched[s], x).deleted
    <3>1. sched[s] \in SchedRow /\ sched[s].version \in Nat
      BY <1>1 DEF SchedRow
    <3>2. QED
      BY <1>1, <2>1, <3>1, GivenRow
  <2>3. /\ sched' \in [Ids -> SchedRow] /\ sched'[s] = Given(sched[s], x)
        /\ \A q \in Ids : q # s => sched'[q] = sched[q]
    BY <1>1, <2>1, <2>2
  <2>4. QED
    BY <1>1, <2>1, <2>2, <2>3 DEF Edited
<1>4. ASSUME NEW s \in Ids, DeleteSchedule(s)
      PROVE  /\ sched' \in [Ids -> SchedRow] /\ UNCHANGED <<rows, missed, work, scan, clock>>
             /\ \A q \in Ids : sched'[q].deleted => sched'[q].exists /\ ~sched'[q].enabled
             /\ \A q \in Ids : sched'[q] = sched[q] \/ Edited(q)
  <2>1. /\ sched' = [sched EXCEPT ![s].deleted = TRUE, ![s].enabled = FALSE,
                                  ![s].version = @ + 1]
        /\ sched[s].exists /\ UNCHANGED <<rows, missed, work, scan, clock>>
    BY <1>4 DEF DeleteSchedule, Edit
  <2>2. /\ sched' \in [Ids -> SchedRow] /\ sched[s].version \in Nat
        /\ sched'[s].version = sched[s].version + 1 /\ ~sched'[s].enabled
        /\ sched'[s].exists = sched[s].exists
        /\ \A q \in Ids : q # s => sched'[q] = sched[q]
    BY <1>1, <2>1 DEF SchedRow
  <2>3. QED
    BY <1>1, <2>1, <2>2 DEF Edited, Enabled
<1>5. CASE Users
  <2>1. \/ \E s \in Ids, x \in Settings : CreateSchedule(s, x) \/ UpdateSchedule(s, x)
        \/ \E s \in Ids : DeleteSchedule(s)
        \/ UNCHANGED sched
    BY <1>5 DEF Users, Resolve, BeginDirect, EndDirect
  <2>2. QED
    BY <1>1, <1>2, <1>3, <1>4, <2>1 DEF SchedPlaced
<1>6. CASE Scheduler \/ Crash \/ Boot \/ Advance \/ UNCHANGED vars
  <2>1. UNCHANGED sched
    BY <1>6 DEF Scheduler, StartTick, Examine, Reread, CheckConflict, Dispatch, RecordMissed,
       AbortTick, EndTick, Crash, Boot, Advance, vars
  <2>2. QED
    BY <1>1, <2>1 DEF SchedPlaced
<1>7. QED
  BY <1>5, <1>6 DEF Next

\* Types of what the steps assign.
LEMMA PlacedFacts ==
    ASSUME Typed
    PROVE  /\ Time \subseteq Nat /\ 0 \in Time /\ now \in Time /\ issued \in Nat
           /\ \A s \in Ids : [id |-> s, row |-> sched[s], due |-> 0] \in Run
           /\ NoTick \in [now : Time, todo : SUBSET Run] /\ NoTick.todo = {} /\ NoRun \in Run
<1>1. 0 \in Time /\ Day \in Nat \ {0} /\ Time \subseteq Nat
  BY ScheduleAssumption DEF Time
<1>2. Unborn \in SchedRow
  BY <1>1 DEF Unborn, SchedRow, Plans
<1>3. NoRun \in Run
  BY <1>1, <1>2 DEF NoRun, Run, SchedRow
<1>4. NoTick \in [now : Time, todo : SUBSET Run] /\ NoTick.todo = {}
  BY <1>1 DEF NoTick
<1>5. issued \in Nat /\ now \in Time
  BY TableTyped DEF Typed, Placed, WorkPlaced
<1>6. \A s \in Ids : [id |-> s, row |-> sched[s], due |-> 0] \in Run
  BY <1>1 DEF Run, SchedRow, Typed, Placed, SchedPlaced
<1>7. QED
  BY <1>1, <1>3, <1>4, <1>5, <1>6

\* Steps that leave a part of the state alone.
LEMMA Untouched ==
    ASSUME Typed
    PROVE  /\ UNCHANGED <<missed, work, clock>> /\ issued' \in Nat /\ issued' >= issued
                 => WorkPlaced'
           /\ UNCHANGED <<missed, work, clock, rows>> => WorkPlaced'
           /\ UNCHANGED <<scan, clock>> => ScanPlaced'
<1>1. ASSUME UNCHANGED <<missed, work, clock>>, issued' \in Nat, issued' >= issued
      PROVE  WorkPlaced'
  BY <1>1, PlacedFacts DEF Typed, Placed, WorkPlaced, work, clock
<1>2. ASSUME UNCHANGED <<scan, clock>>
      PROVE  ScanPlaced'
  BY <1>2 DEF Typed, Placed, ScanPlaced, scan, clock, Ticking, Handling
<1>3. ASSUME UNCHANGED <<missed, work, clock, rows>>
      PROVE  WorkPlaced'
  BY <1>1, <1>3, PlacedFacts DEF rows
<1>4. QED
  BY <1>1, <1>2, <1>3

\* A step of the scheduler.
LEMMA SchedulerPlaced ==
    ASSUME Typed, Scheduler
    PROVE  ScanPlaced' /\ WorkPlaced'
<1>0. /\ tick \in [now : Time, todo : SUBSET Run] /\ \A x \in tick.todo : x.id \in Ids
      /\ cur \in Run /\ now \in Time /\ pc # "down"
      /\ Ticking => tick.now = now
      /\ Handling => cur.id \in Ids /\ cur.due \in 1 .. now
  BY DEF Typed, Placed, WorkPlaced, ScanPlaced, Scheduler, StartTick, Examine, Reread,
     CheckConflict, Dispatch, RecordMissed, AbortTick, EndTick
<1>1. CASE StartTick
  BY <1>0, <1>1, PlacedFacts, Untouched DEF StartTick, Step, clock, rows, ScanPlaced, Ticking, Handling
<1>2. ASSUME NEW x \in tick.todo, Examine(x)
      PROVE  ScanPlaced' /\ WorkPlaced'
  <2> DEFINE e == Expected(x.row, tick.now)
             rest == [tick EXCEPT !.todo = @ \ {x}]
             run == [x EXCEPT !.due = e]
  <2>1. /\ pc = "scan" /\ UNCHANGED <<rows, missed, work, clock>>
        /\ \/ pc' = "scan" /\ tick' = rest /\ cur' = NoRun
           \/ e # 0 /\ pc' = "reread" /\ tick' = rest /\ cur' = run
    BY <1>2 DEF Examine, Step
  <2>2. /\ rest \in [now : Time, todo : SUBSET Run] /\ rest.now = tick.now
        /\ \A y \in rest.todo : y.id \in Ids
    BY <1>0
  <2>3. e = 0 \/ e \in 1 .. tick.now
    <3>1. x.row \in SchedRow /\ tick.now \in Time
      BY <1>0, <1>2 DEF Run, SchedRow
    <3>2. QED
      BY <3>1, ExpectedIsNewest
  <2>4. ASSUME e # 0
        PROVE  run \in Run /\ run.id \in Ids /\ run.due \in 1 .. tick.now
    <3>1. x \in Run /\ x.id \in Ids /\ e \in Time /\ e \in 1 .. tick.now
      BY <1>0, <1>2, <2>3, <2>4, ScheduleAssumption DEF Time
    <3> HIDE DEF e
    <3>2. QED
      BY <3>1 DEF Run
  <2> HIDE DEF e, rest, run
  <2>5. ScanPlaced'
    BY <1>0, <2>1, <2>2, <2>4, PlacedFacts DEF ScanPlaced, Ticking, Handling, clock
  <2>6. QED
    BY <2>1, <2>5, Untouched
<1>3. CASE Reread
  <2>1. CASE StillDue(cur)
    <3>1. /\ cur.id \in Ids /\ cur.due \in 1 .. now /\ sched[cur.id] \in SchedRow
      BY <1>0, <1>3 DEF Reread, Handling, Typed, Placed, SchedPlaced
    <3>2. LET run == [cur EXCEPT !.row = sched[cur.id]] IN
          run \in Run /\ run.id = cur.id /\ run.due = cur.due
      BY <1>0, <3>1 DEF Run, SchedRow
    <3>3. QED
      BY <1>0, <1>3, <2>1, <3>1, <3>2, Untouched
      DEF Reread, Step, clock, ScanPlaced, Ticking, Handling
  <2>2. CASE ~StillDue(cur)
    BY <1>0, <1>3, <2>2, PlacedFacts, Untouched
    DEF Reread, Step, clock, ScanPlaced, Ticking, Handling
  <2>3. QED
    BY <2>1, <2>2
<1>4. CASE CheckConflict
  BY <1>0, <1>4, PlacedFacts, Untouched
  DEF CheckConflict, Step, clock, ScanPlaced, Ticking, Handling
<1>5. CASE Dispatch
  <2>1. issued' \in Nat /\ issued' >= issued
    BY <1>5, PlacedFacts DEF Dispatch, Ops!Create, rows
  <2>2. ScanPlaced'
    BY <1>0, <1>5, PlacedFacts DEF Dispatch, Step, clock, ScanPlaced, Ticking, Handling
  <2>3. QED
    BY <1>5, <2>1, <2>2, Untouched DEF Dispatch
<1>6. CASE RecordMissed
  <2>1. ScanPlaced'
    BY <1>0, <1>6, PlacedFacts DEF RecordMissed, Step, clock, ScanPlaced, Ticking, Handling
  <2>2. cur.id \in Ids /\ cur.due \in 1 .. now
    BY <1>0, <1>6 DEF RecordMissed, Handling
  <2>3. missed' \subseteq missed \cup {[id |-> cur.id, at |-> cur.due, resolution |-> "pending"]}
    BY <1>6 DEF RecordMissed
  <2>4. WorkPlaced'
    BY <1>6, <2>2, <2>3 DEF RecordMissed, rows, work, clock, WorkPlaced, Typed, Placed
  <2>5. QED
    BY <2>1, <2>4
<1>7. CASE AbortTick
  BY <1>0, <1>7, PlacedFacts, Untouched DEF AbortTick, Step, clock, ScanPlaced, Ticking, Handling
<1>8. CASE EndTick
  <2>1. ScanPlaced'
    BY <1>0, <1>8, PlacedFacts DEF EndTick, Step, ScanPlaced, Ticking, Handling
  <2>2. tick.now = now /\ now \in 0 .. now
    BY <1>0, <1>8, PlacedFacts DEF EndTick, Ticking
  <2>3. WorkPlaced'
    BY <1>8, <2>2 DEF EndTick, rows, work, WorkPlaced, Typed, Placed
  <2>4. QED
    BY <2>1, <2>3
<1>9. QED
  BY <1>1, <1>2, <1>3, <1>4, <1>5, <1>6, <1>7, <1>8 DEF Scheduler

\* A step of anyone else.
LEMMA OthersPlaced ==
    ASSUME Typed, Users \/ Crash \/ Boot \/ Advance \/ UNCHANGED vars,
           issued' \in Nat, issued' >= issued
    PROVE  ScanPlaced' /\ WorkPlaced'
<1>0. /\ missed \subseteq [id : Ids, at : 1 .. now,
                           resolution : {"pending", "resolved", "ignored"}]
      /\ gone \subseteq Worlds /\ held \subseteq 1 .. issued /\ now \in Nat
      /\ now \in Time /\ watched \subseteq 0 .. now /\ issued \in Nat
  BY PlacedFacts DEF Typed, Placed, WorkPlaced
<1>1. ASSUME NEW s \in Ids, NEW x \in Settings, CreateSchedule(s, x) \/ UpdateSchedule(s, x)
      PROVE  ScanPlaced' /\ WorkPlaced'
  BY <1>1, Untouched DEF CreateSchedule, UpdateSchedule, Edit
<1>2. ASSUME NEW s \in Ids, DeleteSchedule(s)
      PROVE  ScanPlaced' /\ WorkPlaced'
  BY <1>2, Untouched DEF DeleteSchedule, Edit
<1>3. ASSUME NEW m \in missed, NEW resolution \in {"resolved", "ignored"},
             Resolve(m, resolution)
      PROVE  ScanPlaced' /\ WorkPlaced'
  <2>1. /\ missed' = (missed \ {m}) \cup {[m EXCEPT !.resolution = resolution]}
        /\ UNCHANGED <<rows, sched, work, scan, clock>>
    BY <1>3 DEF Resolve
  <2>2. [m EXCEPT !.resolution = resolution]
           \in [id : Ids, at : 1 .. now, resolution : {"pending", "resolved", "ignored"}]
    BY <1>0, <1>3
  <2>3. QED
    BY <1>0, <2>1, <2>2, Untouched DEF rows, work, clock, WorkPlaced
<1>4. ASSUME NEW type \in DirectTypes, NEW w \in Worlds, BeginDirect(type, w)
      PROVE  ScanPlaced' /\ WorkPlaced'
  <2>1. issued' = issued + 1 /\ held' = held \cup {issued + 1} /\ UNCHANGED <<missed, gone, scan, clock>>
    BY <1>4 DEF BeginDirect, Ops!Create
  <2>2. QED
    BY <1>0, <2>1, Untouched DEF clock, WorkPlaced
<1>5. ASSUME NEW i \in held, NEW st \in {"Completed", "Failed"}, EndDirect(i, st)
      PROVE  ScanPlaced' /\ WorkPlaced'
  <2>1. held' \subseteq held /\ UNCHANGED <<missed, scan, clock>>
    BY <1>5 DEF EndDirect
  <2>2. gone' \subseteq Worlds
    <3>1. i \in Ops!OpId
      BY <1>0, TableTyped
    <3>2. gone' = gone \/ (ops[i].type = "DeleteWorld" /\ gone' = gone \cup {ops[i].world})
      BY <1>5 DEF EndDirect
    <3>3. QED
      BY <1>0, <3>1, <3>2, TableTyped
  <2>3. QED
    BY <1>0, <2>1, <2>2, Untouched DEF clock, WorkPlaced
<1>6. CASE Crash \/ Boot
  <2>1. /\ held' \subseteq held /\ UNCHANGED <<missed, gone, clock>>
        /\ pc' \in {"down", "idle"} /\ tick' = NoTick /\ cur' = NoRun
    BY <1>6 DEF Crash, Boot, Step, work
  <2>2. WorkPlaced'
    BY <1>0, <2>1 DEF clock, WorkPlaced
  <2>3. ScanPlaced'
    BY <2>1, PlacedFacts DEF ScanPlaced, Ticking, Handling
  <2>4. QED
    BY <2>2, <2>3
<1>7. CASE Advance
  <2>1. now' = now + 1 /\ now < MaxTime /\ pc \in {"down", "idle"}
        /\ UNCHANGED <<rows, missed, work, scan, watched>>
    BY <1>7 DEF Advance
  <2>2. MaxTime \in Nat /\ now' \in Time /\ 1 .. now \subseteq 1 .. now' /\ 0 .. now \subseteq 0 .. now'
    BY <1>0, <2>1, ScheduleAssumption DEF Time
  <2>3. WorkPlaced'
    BY <1>0, <2>1, <2>2 DEF WorkPlaced, work, rows
  <2>4. ScanPlaced'
    BY <2>1, <2>2 DEF ScanPlaced, Ticking, Handling, scan, Typed, Placed
  <2>5. QED
    BY <2>3, <2>4
<1>8. CASE UNCHANGED vars
  BY <1>8, Untouched DEF vars
<1>9. QED
  BY <1>1, <1>2, <1>3, <1>4, <1>5, <1>6, <1>7, <1>8 DEF Users

\* The first of the three facts of the inductive invariant Typed.
LEMMA TypedAtInit == Init => Typed
<1> SUFFICES ASSUME Init PROVE Typed
  OBVIOUS
<1>1. 0 \in Time /\ Day \in Nat \ {0} /\ MaxOps \in Nat \ {0} /\ Time \subseteq Nat
  BY ScheduleAssumption DEF Time
<1>2. Ops!TypeOK /\ \A i \in Ops!OpId : ops[i].type # "DeleteWorld"
  BY <1>1 DEF Init, Ops!Init, Ops!TypeOK, Ops!NoRow, Ops!Row, Ops!Types, Ops!OpId
<1>3. Unborn \in SchedRow /\ ~Unborn.deleted
  BY <1>1 DEF Unborn, SchedRow, Plans
<1>4. NoRun \in Run
  BY <1>1, <1>3 DEF NoRun, Run, SchedRow
<1>5. SchedPlaced
  BY <1>3 DEF Init, SchedPlaced
<1>6. WorkPlaced
  BY <1>1 DEF Init, WorkPlaced
<1>7. ScanPlaced
  BY <1>1, <1>4 DEF Init, ScanPlaced, NoTick, Ticking, Handling
<1>8. QED
  BY <1>2, <1>5, <1>6, <1>7 DEF Typed, Placed

\* The second: every step keeps it.
LEMMA TypedStep ==
    ASSUME Typed, [Next]_vars
    PROVE  Typed'
<1>1. issued' \in Nat /\ issued' >= issued
  BY RowsStep, TableTyped, PlacedFacts DEF RowsKept, RowAdded
<1>2. ScanPlaced' /\ WorkPlaced'
  BY <1>1, SchedulerPlaced, OthersPlaced DEF Next
<1>3. SchedPlaced'
  BY SchedStep DEF Typed
<1>4. QED
  BY <1>2, <1>3, RowsStep DEF Typed, Placed

\* The third: it implies the type invariant.
LEMMA TypedIsTypeOK == Typed => TypeOK
<1> SUFFICES ASSUME Typed PROVE TypeOK
  OBVIOUS
<1>1. tick.now \in Time /\ tick.todo \subseteq Run
  BY DEF Typed, Placed, ScanPlaced
<1>2. QED
  BY <1>1, PlacedFacts DEF TypeOK, Typed, Placed, SchedPlaced, WorkPlaced, ScanPlaced

\* Typed holds throughout.
LEMMA AlwaysTyped == Spec => []Typed
BY TypedAtInit, TypedStep, PTL DEF Spec

\* Type correctness: whatever the clients, the clock and the failures do, a tick is
\* only ever about its own instant and nothing is recorded before it is due
\* (SchedulerService.tick and the edits of schedules).
THEOREM TypeCorrect == Spec => []TypeOK
BY AlwaysTyped, TypedIsTypeOK, PTL

-----------------------------------------------------------------------------
(* What is known of a run, from step to step.                              *)

\* Rows exist up to "issued".
LEMMA RowsHave ==
    ASSUME Typed
    PROVE  \A s, e : HasRow(s, e) <=> \E i \in 1 .. issued : ops[i].key = <<s, e>>
<1>1. \A i : i \in Ops!OpId /\ ops[i].status # "Absent" <=> i \in 1 .. issued
  BY TableTyped
<1>2. QED
  BY <1>1 DEF HasRow

\* The same after the step.
LEMMA RowsHaveNext ==
    ASSUME Typed'
    PROVE  \A s, e : HasRow(s, e)' <=> \E i \in 1 .. issued' : ops'[i].key = <<s, e>>
<1>1. /\ Ops!OpId = 1 .. MaxOps /\ issued' \in 0 .. MaxOps /\ MaxOps \in Nat
      /\ \A i \in Ops!OpId : ops'[i].status = "Absent" <=> i > issued'
  BY ScheduleAssumption DEF Typed, Ops!TypeOK, Ops!OpId
<1>2. \A i : i \in Ops!OpId /\ ops'[i].status # "Absent" <=> i \in 1 .. issued'
  BY <1>1
<1>3. QED
  BY <1>2 DEF HasRow

\* Only the scheduler makes rows and records of runs, and only the one in hand.
LEMMA RowsOfRuns ==
    ASSUME Typed, [Next]_vars, NEW s \in Ids, NEW e \in Time
    PROVE  HasRow(s, e)' <=> HasRow(s, e) \/ (Queues /\ s = cur.id /\ e = cur.due)
<1>1. Typed' /\ issued \in Nat
  BY TypedStep, PlacedFacts
<1>2. CASE Queues
  <2>1. Ops!Create(RunRequest(cur)) /\ issued' = issued + 1 /\ pc = "create" /\ pc' = "scan"
    BY <1>2 DEF Queues, Dispatch, Step, Ops!Create
  <2>2. RowAdded(<<cur.id, cur.due>>)
    BY <1>1, <2>1, RowsStep DEF RowsKept, scan
  <2>3. 1 .. issued' = (1 .. issued) \cup {issued'}
    BY <1>1, <2>1
  <2>4. (\E i \in 1 .. issued' : ops'[i].key = <<s, e>>)
        <=> (\E i \in 1 .. issued : ops[i].key = <<s, e>>) \/ <<cur.id, cur.due>> = <<s, e>>
    BY <2>2, <2>3 DEF RowAdded, SameRow
  <2>5. QED
    BY <1>1, <1>2, <2>4, RowsHave, RowsHaveNext
<1>3. CASE ~Queues
  <2>1. RowsKept \/ RowAdded(None)
    BY <1>3, RowsStep
  <2>2. None # <<s, e>>
    BY NoneAssumption
  <2>3. CASE RowsKept
    <3>1. (\E i \in 1 .. issued' : ops'[i].key = <<s, e>>)
          <=> (\E i \in 1 .. issued : ops[i].key = <<s, e>>)
      BY <2>3 DEF RowsKept, SameRow
    <3>2. QED
      BY <1>1, <1>3, <3>1, RowsHave, RowsHaveNext
  <2>4. CASE RowAdded(None)
    <3>1. 1 .. issued' = (1 .. issued) \cup {issued'}
      BY <1>1, <2>4 DEF RowAdded
    <3>2. (\E i \in 1 .. issued' : ops'[i].key = <<s, e>>)
          <=> (\E i \in 1 .. issued : ops[i].key = <<s, e>>)
      BY <2>2, <2>4, <3>1 DEF RowAdded, SameRow
    <3>3. QED
      BY <1>1, <1>3, <3>2, RowsHave, RowsHaveNext
  <2>5. QED
    BY <2>1, <2>3, <2>4
<1>4. QED
  BY <1>2, <1>3

\* A missed run is noted, or a client resolves one.
LEMMA MissedStep ==
    ASSUME Typed, [Next]_vars
    PROVE  \/ UNCHANGED missed
           \/ Notes /\ UNCHANGED rows /\ ~Recorded(cur.id, cur.due)
                    /\ missed' = missed \cup {[id |-> cur.id, at |-> cur.due,
                                               resolution |-> "pending"]}
           \/ ~Notes /\ UNCHANGED <<rows, scan>>
                     /\ \E m \in missed :
                           \E n : /\ missed' = (missed \ {m}) \cup {n}
                                  /\ n.id = m.id /\ n.at = m.at
<1>1. CASE Scheduler
  <2>1. CASE RecordMissed
    BY <2>1 DEF RecordMissed, Notes
  <2>2. CASE ~RecordMissed
    BY <1>1, <2>2 DEF Scheduler, StartTick, Examine, Reread, CheckConflict, Dispatch,
       AbortTick, EndTick
  <2>3. QED
    BY <2>1, <2>2
<1>2. ASSUME NEW m \in missed, NEW resolution \in {"resolved", "ignored"},
             Resolve(m, resolution), ~Notes
      PROVE  /\ UNCHANGED <<rows, scan>>
             /\ \E n : /\ missed' = (missed \ {m}) \cup {n}
                       /\ n.id = m.id /\ n.at = m.at
  <2> DEFINE n == [m EXCEPT !.resolution = resolution]
  <2>1. m \in [id : Ids, at : 1 .. now, resolution : {"pending", "resolved", "ignored"}]
    BY <1>2 DEF Typed, Placed, WorkPlaced
  <2>2. n.id = m.id /\ n.at = m.at
    BY <2>1
  <2>3. missed' = (missed \ {m}) \cup {n} /\ UNCHANGED <<rows, scan>>
    BY <1>2 DEF Resolve
  <2>4. QED
    BY <2>2, <2>3
<1>3. CASE Users /\ ~Notes
  <2>1. \/ UNCHANGED missed
        \/ \E m \in missed, resolution \in {"resolved", "ignored"} : Resolve(m, resolution)
    <3>1. ASSUME NEW s \in Ids, NEW x \in Settings, CreateSchedule(s, x) \/ UpdateSchedule(s, x)
          PROVE  UNCHANGED missed
      BY <3>1 DEF CreateSchedule, UpdateSchedule, Edit
    <3>2. ASSUME NEW s \in Ids, DeleteSchedule(s)
          PROVE  UNCHANGED missed
      BY <3>2 DEF DeleteSchedule, Edit
    <3>3. /\ \A type \in DirectTypes, w \in Worlds : BeginDirect(type, w) => UNCHANGED missed
          /\ \A i \in held, st \in {"Completed", "Failed"} : EndDirect(i, st) => UNCHANGED missed
      BY DEF BeginDirect, EndDirect
    <3>4. QED
      BY <1>3, <3>1, <3>2, <3>3 DEF Users
  <2>2. QED
    BY <1>2, <1>3, <2>1
<1>4. CASE Crash \/ Boot \/ Advance \/ UNCHANGED vars
  BY <1>4 DEF Crash, Boot, Advance, vars
<1>5. CASE Notes
  BY <1>1, <1>5 DEF Scheduler, Notes
<1>6. QED
  BY <1>1, <1>3, <1>4, <1>5 DEF Next

\* A run is recorded by the scheduler only, and stays recorded.
LEMMA MissedOfRuns ==
    ASSUME Typed, [Next]_vars, NEW s, NEW e
    PROVE  Recorded(s, e)' <=> Recorded(s, e) \/ (Notes /\ s = cur.id /\ e = cur.due)
<1>1. CASE Notes
  <2>1. \/ Recorded(cur.id, cur.due) /\ missed' = missed
        \/ missed' = missed \cup {[id |-> cur.id, at |-> cur.due, resolution |-> "pending"]}
    BY <1>1 DEF Notes, RecordMissed
  <2>2. ASSUME NEW m, m = [id |-> cur.id, at |-> cur.due, resolution |-> "pending"]
        PROVE  m.id = cur.id /\ m.at = cur.due
    BY <2>2
  <2>3. QED
    BY <1>1, <2>1, <2>2 DEF Recorded
<1>2. CASE ~Notes
  BY <1>2, MissedStep DEF Recorded
<1>3. QED
  BY <1>1, <1>2

\* Together: what _has_run_operation and _has_recorded find after a step.
LEMMA KnownStep ==
    ASSUME Typed, [Next]_vars, NEW s \in Ids, NEW e \in Time
    PROVE  Known(s, e)' <=> Known(s, e) \/ ((Queues \/ Notes) /\ s = cur.id /\ e = cur.due)
BY RowsOfRuns, MissedOfRuns DEF Known

-----------------------------------------------------------------------------
(* Decisions.                                                              *)

\* A schedule that has just changed expects nothing yet.
LEMMA ExpectedTyped ==
    ASSUME NEW row \in SchedRow, NEW t \in Time
    PROVE  /\ Expected(row, t) \in Time
           /\ t <= row.changed => Expected(row, t) = 0
<1> DEFINE e == Expected(row, t)
<1>1. /\ Time \subseteq Nat /\ 0 \in Time /\ 1 .. t \subseteq Time
      /\ \A o \in Occurrences(row) : o \in Time /\ o > row.changed
      /\ row.changed \in Nat
  BY ScheduleAssumption DEF Time, Occurrences, SchedRow
<1>2. e = 0 \/ (e \in Occurrences(row) /\ e \in 1 .. t)
  BY ExpectedIsNewest
<1> HIDE DEF e
<1>3. e \in Time /\ (t <= row.changed => e = 0)
  BY <1>1, <1>2
<1>4. QED
  BY <1>3 DEF e

\* The newest run due at t is none or known.
Settled(s, t) == \A e \in Time : e = Expected(sched[s], t) => e = 0 \/ Known(s, e)

\* No two outcomes for a run.
Single ==
    /\ \A i, j \in 1 .. issued : ops[i].key = ops[j].key /\ ops[i].key # None => i = j
    /\ \A m, n \in missed : m.id = n.id /\ m.at = n.at => m = n
    /\ \A m \in missed, i \in 1 .. issued : ops[i].key # <<m.id, m.at>>

\* The run in hand was due by the row in hand and is still undecided.
Due ==
    /\ Ticking => \A x \in tick.todo : Enabled(x.row)
    /\ Handling => /\ Enabled(cur.row) /\ cur.due = Expected(cur.row, tick.now)
                   /\ ~Known(cur.id, cur.due)

\* A row in memory is the schedule's or older.
Current(x) ==
    \/ sched[x.id] = x.row
    \/ /\ sched[x.id].version > x.row.version
       /\ sched[x.id].changed = now \/ ~Enabled(sched[x.id])

Fresh ==
    /\ Ticking => \A x \in tick.todo : Current(x)
    /\ Handling => Current(cur)

\* The tick has yet to come to the schedule.
Awaited(s) ==
    \/ \E x \in tick.todo : x.id = s /\ x.row = sched[s]
    \/ Handling /\ cur.id = s /\ cur.row = sched[s]

Scanned == Ticking => \A s \in Ids : Enabled(sched[s]) => Settled(s, now) \/ Awaited(s)

Watched == \A s \in Ids, t \in watched : Enabled(sched[s]) => Settled(s, t)

Orderly == Single /\ Due /\ Fresh /\ Scanned /\ Watched

\* What the steps below use of the types.
LEMMA Ranges ==
    ASSUME Typed
    PROVE  /\ Time \subseteq Nat /\ now \in Time /\ issued \in Nat
           /\ \A s \in Ids : sched[s] \in SchedRow /\ sched[s].version \in Nat
           /\ \A x \in tick.todo : /\ x \in Run /\ x.id \in Ids
                                   /\ x.row \in SchedRow /\ x.row.version \in Nat
           /\ cur \in Run /\ cur.row \in SchedRow /\ cur.row.version \in Nat
           /\ Ticking => tick.now = now
           /\ Handling => cur.id \in Ids /\ cur.due \in 1 .. now /\ cur.due \in Time
           /\ \A m \in missed : m.id \in Ids /\ m.at \in Time /\ <<m.id, m.at>> # None
           /\ watched \subseteq 0 .. now
<1>1. /\ \A s \in Ids : sched[s] \in SchedRow
      /\ tick.todo \subseteq Run /\ cur \in Run /\ now \in Time /\ watched \subseteq 0 .. now
      /\ \A x \in tick.todo : x.id \in Ids
      /\ Ticking => tick.now = now
      /\ Handling => cur.id \in Ids /\ cur.due \in 1 .. now
      /\ \A m \in missed : m.id \in Ids /\ m.at \in 1 .. now
  BY DEF Typed, Placed, SchedPlaced, WorkPlaced, ScanPlaced
<1>2. \A x \in Run : x.row \in SchedRow
  BY DEF Run, SchedRow
<1>3. \A row \in SchedRow : row.version \in Nat
  BY DEF SchedRow
<1>4. Time \subseteq Nat /\ 1 .. now \subseteq Time
  BY <1>1, ScheduleAssumption DEF Time
<1>5. \A m \in missed : m.id \in Ids /\ m.at \in Time /\ <<m.id, m.at>> # None
  BY <1>1, <1>4, NoneAssumption
<1>6. QED
  BY <1>1, <1>2, <1>3, <1>4, <1>5, PlacedFacts

\* A run that gets an outcome had none: the tick has looked it up, and nobody else
\* gives runs outcomes.
LEMMA SingleStep ==
    ASSUME Typed, Single, Due, [Next]_vars
    PROVE  Single'
<1>1. /\ issued \in Nat
      /\ \A m \in missed : m.id \in Ids /\ m.at \in Time /\ <<m.id, m.at>> # None
  BY Ranges
<1>2. ASSUME Queues
      PROVE  /\ RowAdded(<<cur.id, cur.due>>) /\ UNCHANGED missed
             /\ \A i \in 1 .. issued : ops[i].key # <<cur.id, cur.due>>
             /\ \A m \in missed : <<m.id, m.at>> # <<cur.id, cur.due>>
  <2>1. ~Known(cur.id, cur.due)
    BY <1>2 DEF Queues, Due, Handling
  <2>2. pc = "create" /\ pc' = "scan" /\ UNCHANGED missed
    BY <1>2 DEF Queues, Dispatch
  <2>3. issued' = issued + 1
    BY <1>2 DEF Queues, Dispatch, Step, Ops!Create
  <2>4. RowAdded(<<cur.id, cur.due>>)
    BY <1>1, <2>2, <2>3, RowsStep DEF RowsKept, scan
  <2>5. QED
    BY <2>1, <2>2, <2>4, RowsHave DEF Known, Recorded
<1>3. ASSUME ~Queues
      PROVE  RowsKept \/ RowAdded(None)
  BY <1>3, RowsStep
<1>4. CASE Queues
  <2>1. 1 .. issued' = (1 .. issued) \cup {issued'}
    BY <1>1, <1>2, <1>4 DEF RowAdded
  <2>2. QED
    BY <1>2, <1>4, <2>1 DEF Single, RowAdded, SameRow
<1>5. CASE Notes
  <2>1. UNCHANGED rows
    BY <1>5 DEF Notes, RecordMissed
  <2>2. CASE UNCHANGED missed
    BY <2>1, <2>2 DEF Single, rows
  <2>3. CASE ~UNCHANGED missed
    <3> DEFINE n == [id |-> cur.id, at |-> cur.due, resolution |-> "pending"]
    <3>1. missed' = missed \cup {n} /\ n.id = cur.id /\ n.at = cur.due
      BY <1>5, <2>3 DEF Notes, RecordMissed
    <3>2. /\ \A i \in 1 .. issued : ops[i].key # <<n.id, n.at>>
          /\ \A m \in missed : ~(m.id = n.id /\ m.at = n.at)
      <4>1. ~Known(cur.id, cur.due)
        BY <1>5 DEF Notes, RecordMissed, Due, Handling
      <4>2. QED
        BY <3>1, <4>1, RowsHave DEF Known, Recorded
    <3> HIDE DEF n
    <3>3. QED
      BY <2>1, <3>1, <3>2 DEF Single, rows
  <2>4. QED
    BY <2>2, <2>3
<1>6. CASE ~Queues /\ ~Notes
  <2>1. CASE UNCHANGED missed
    <3>1. CASE RowsKept
      BY <2>1, <3>1 DEF Single, RowsKept, SameRow
    <3>2. CASE RowAdded(None)
      <4>1. 1 .. issued' = (1 .. issued) \cup {issued'}
        BY <1>1, <3>2 DEF RowAdded
      <4>2. /\ ops'[issued'].key = None
            /\ \A i \in 1 .. issued : ops'[i].key = ops[i].key
        BY <3>2 DEF RowAdded, SameRow
      <4>3. \A i, j \in 1 .. issued' : ops'[i].key = ops'[j].key /\ ops'[i].key # None => i = j
        BY <4>1, <4>2 DEF Single
      <4>4. \A m \in missed', i \in 1 .. issued' : ops'[i].key # <<m.id, m.at>>
        BY <1>1, <2>1, <4>1, <4>2 DEF Single
      <4>5. QED
        BY <2>1, <4>3, <4>4 DEF Single
    <3>3. QED
      BY <1>3, <1>6, <3>1, <3>2
  <2>2. CASE ~UNCHANGED missed
    <3>1. PICK m \in missed :
                  \E n : /\ missed' = (missed \ {m}) \cup {n}
                         /\ n.id = m.id /\ n.at = m.at
      BY <1>6, <2>2, MissedStep
    <3>2. UNCHANGED rows
      BY <1>6, <2>2, MissedStep
    <3>3. QED
      BY <3>1, <3>2 DEF Single, rows
  <2>3. QED
    BY <2>1, <2>2
<1>7. QED
  BY <1>4, <1>5, <1>6

\* In numbers.
LEMMA SingleIsOneOutcome ==
    ASSUME Typed, Single
    PROVE  OneOutcome
<1> SUFFICES ASSUME NEW s \in Ids, NEW e \in Time
             PROVE  Cardinality({i \in Ops!OpId : ops[i].status # "Absent" /\ ops[i].key = <<s, e>>})
                    + Cardinality({m \in missed : m.id = s /\ m.at = e}) <= 1
  BY DEF OneOutcome
<1> DEFINE R == {i \in Ops!OpId : ops[i].status # "Absent" /\ ops[i].key = <<s, e>>}
           M == {m \in missed : m.id = s /\ m.at = e}
<1>1. None # <<s, e>>
  BY NoneAssumption
<1>2. \A i \in R : i \in 1 .. issued /\ ops[i].key = <<s, e>>
  BY TableTyped
<1>3. \A i, j \in R : i = j
  BY <1>1, <1>2 DEF Single
<1>4. \A m, n \in M : m = n
  BY DEF Single
<1>5. R = {} \/ M = {}
  <2>1. ASSUME NEW i \in R, NEW m \in M
        PROVE  FALSE
    BY <1>2, <2>1 DEF Single
  <2>2. QED
    BY <2>1
<1> HIDE DEF R, M
<1>6. ASSUME NEW S, \A x, y \in S : x = y
      PROVE  (S = {} => Cardinality(S) = 0) /\ (S # {} => Cardinality(S) = 1)
  <2>1. S = {} => Cardinality(S) = 0
    BY FS_EmptySet
  <2>2. ASSUME S # {} PROVE Cardinality(S) = 1
    <3>1. PICK x : S = {x}
      BY <1>6, <2>2
    <3>2. QED
      BY <3>1, FS_Singleton
  <2>3. QED
    BY <2>1, <2>2
<1>7. /\ Cardinality(R) \in {0, 1} /\ Cardinality(M) \in {0, 1}
      /\ Cardinality(R) = 0 \/ Cardinality(M) = 0
  BY <1>3, <1>4, <1>5, <1>6
<1>8. QED
  BY <1>7 DEF R, M

\* What becomes of the tick in a step.
LEMMA ScanStep ==
    ASSUME Typed, [Next]_vars
    PROVE  /\ \/ ~Ticking'
              \/ UNCHANGED <<tick, cur, now>> /\ (Ticking' => Ticking) /\ (Handling' <=> Handling)
              \/ StartTick \/ Reread \/ Queues \/ Notes
              \/ \E x \in tick.todo : Examine(x)
           /\ watched' = watched \/ EndTick
<1>1. CASE Scheduler
  <2>1. CASE CheckConflict
    BY <2>1 DEF CheckConflict, Step, Ticking, Handling, clock
  <2>2. CASE Dispatch
    BY <2>2 DEF Dispatch, Queues, Step, Ticking, Handling, clock
  <2>3. CASE AbortTick \/ EndTick
    BY <2>3 DEF AbortTick, EndTick, Step, Ticking, Handling, clock
  <2>4. watched' = watched \/ EndTick
    BY <1>1 DEF Scheduler, StartTick, Examine, Reread, CheckConflict, Dispatch, RecordMissed,
       AbortTick, clock
  <2>5. QED
    BY <1>1, <2>1, <2>2, <2>3, <2>4 DEF Scheduler, Notes
<1>2. CASE Users
  <2>1. ASSUME NEW s \in Ids, NEW x \in Settings, CreateSchedule(s, x) \/ UpdateSchedule(s, x)
        PROVE  UNCHANGED <<scan, clock>>
    BY <2>1 DEF CreateSchedule, UpdateSchedule, Edit
  <2>2. ASSUME NEW s \in Ids, DeleteSchedule(s)
        PROVE  UNCHANGED <<scan, clock>>
    BY <2>2 DEF DeleteSchedule, Edit
  <2>3. ASSUME NEW m \in missed, NEW resolution \in {"resolved", "ignored"},
               Resolve(m, resolution)
        PROVE  UNCHANGED <<scan, clock>>
    BY <2>3 DEF Resolve
  <2>4. /\ \A type \in DirectTypes, w \in Worlds : BeginDirect(type, w) => UNCHANGED <<scan, clock>>
        /\ \A i \in held, st \in {"Completed", "Failed"} :
              EndDirect(i, st) => UNCHANGED <<scan, clock>>
    BY DEF BeginDirect, EndDirect
  <2>5. QED
    BY <1>2, <2>1, <2>2, <2>3, <2>4 DEF Users, clock, scan, Ticking, Handling
<1>3. CASE Crash \/ Boot \/ Advance \/ UNCHANGED vars
  BY <1>3 DEF Crash, Boot, Advance, vars, scan, clock, Step, Ticking, Handling
<1>4. QED
  BY <1>1, <1>2, <1>3 DEF Next

\* What leaves the tables alone leaves what is known alone.
LEMMA KnownKept ==
    ASSUME Typed, [Next]_vars
    PROVE  /\ \A s \in Ids, e \in Time : Known(s, e) => Known(s, e)'
           /\ \A s \in Ids, e \in Time :
                 ~Known(s, e) /\ Known(s, e)' => /\ Queues \/ Notes
                                                 /\ s = cur.id /\ e = cur.due
           /\ Queues \/ Notes => /\ Handling /\ pc' = "scan" /\ UNCHANGED <<sched, now>>
                                 /\ tick' = tick
                                 /\ \A s \in Ids, e \in Time :
                                       s = cur.id /\ e = cur.due => Known(s, e)'
<1>1. ASSUME Queues \/ Notes
      PROVE  Handling /\ pc' = "scan" /\ UNCHANGED <<sched, now>> /\ tick' = tick
  <2>1. CASE Queues
    BY <2>1 DEF Queues, Dispatch, Step, Handling, clock, Ops!Create
  <2>2. CASE Notes
    BY <2>2 DEF Notes, RecordMissed, Step, Handling, clock
  <2>3. QED
    BY <1>1, <2>1, <2>2
<1>2. QED
  BY <1>1, KnownStep

\* From the lookup of a run to its outcome, only the scheduler could decide it.
LEMMA DueStep ==
    ASSUME Typed, Due, [Next]_vars
    PROVE  Due'
<1>1. /\ Ticking => /\ \A x \in tick.todo : Enabled(x.row)
                    /\ tick.now = now
      /\ \A x \in tick.todo : x \in Run /\ x.id \in Ids
      /\ Handling => cur.id \in Ids /\ cur.due \in Time
  BY Ranges DEF Due
<1>2. CASE ~Ticking'
  BY <1>2 DEF Due, Ticking
<1>3. CASE UNCHANGED <<tick, cur, now>> /\ (Ticking' => Ticking) /\ (Handling' <=> Handling)
  <2>1. Handling' => ~Known(cur.id, cur.due)'
    <3>1. Handling' => ~(pc' = "scan")
      BY DEF Handling
    <3>2. QED
      BY <1>1, <1>3, <3>1, KnownKept DEF Due
  <2>2. QED
    BY <1>1, <1>3, <2>1 DEF Due
<1>4. CASE StartTick
  BY <1>4 DEF StartTick, Step, Due, Handling
<1>5. CASE Reread
  <2>1. CASE StillDue(cur)
    <3>1. /\ Handling /\ tick' = tick /\ cur' = [cur EXCEPT !.row = sched[cur.id]]
          /\ Enabled(sched[cur.id]) /\ Expected(sched[cur.id], tick.now) = cur.due
          /\ UNCHANGED <<rows, missed>> /\ cur \in Run
      BY <1>5, <2>1, Ranges DEF Reread, Step, StillDue, Handling
    <3>2. cur'.row = sched[cur.id] /\ cur'.id = cur.id /\ cur'.due = cur.due
      BY <3>1 DEF Run
    <3>3. QED
      BY <1>1, <3>1, <3>2 DEF Due, Ticking, Handling, Known, Recorded, HasRow, rows
  <2>2. CASE ~StillDue(cur)
    BY <1>1, <1>5, <2>2 DEF Reread, Step, Due, Ticking, Handling
  <2>3. QED
    BY <2>1, <2>2
<1>6. CASE Queues \/ Notes
  BY <1>1, <1>6, KnownKept DEF Due, Ticking, Handling
<1>7. ASSUME NEW x \in tick.todo, Examine(x)
      PROVE  Due'
  <2> DEFINE e == Expected(x.row, tick.now)
             rest == [tick EXCEPT !.todo = @ \ {x}]
             run == [x EXCEPT !.due = e]
  <2>1. /\ pc = "scan" /\ UNCHANGED <<rows, missed>>
        /\ \/ pc' = "scan" /\ tick' = rest
           \/ ~Known(x.id, e) /\ pc' = "reread" /\ tick' = rest /\ cur' = run
    BY <1>7 DEF Examine, Step
  <2>2. tick \in [now : Time, todo : SUBSET Run] /\ x \in Run
    BY <1>1, <1>7 DEF Typed, Placed, ScanPlaced
  <2>3. rest.now = tick.now /\ rest.todo \subseteq tick.todo
    BY <2>2
  <2>4. run.id = x.id /\ run.row = x.row /\ run.due = e
    BY <2>2 DEF Run
  <2> HIDE DEF rest, run, e
  <2>5. \A y \in tick'.todo : Enabled(y.row)
    BY <1>1, <2>1, <2>3 DEF Ticking
  <2>6. ASSUME pc' # "scan"
        PROVE  /\ Enabled(cur'.row) /\ cur'.due = Expected(cur'.row, tick'.now)
               /\ ~Known(cur.id, cur.due)'
    <3>1. ~Known(x.id, e) /\ cur' = run /\ tick' = rest /\ Enabled(x.row)
      BY <1>1, <1>7, <2>1, <2>6 DEF Ticking
    <3>2. cur'.due = Expected(cur'.row, tick'.now)
      BY <2>3, <2>4, <3>1 DEF e
    <3>3. QED
      BY <2>1, <2>4, <3>1, <3>2 DEF Known, Recorded, HasRow, rows
  <2>7. QED
    BY <2>5, <2>6 DEF Due, Handling
<1>8. QED
  BY <1>2, <1>3, <1>4, <1>5, <1>6, <1>7, ScanStep

\* An edit makes the rows in memory older, not newer.
LEMMA CurrentKept ==
    ASSUME Typed, [Next]_vars, now' = now, NEW x \in Run, x.id \in Ids, Current(x)
    PROVE  Current(x)'
<1>1. /\ sched[x.id].version \in Nat /\ x.row.version \in Nat
      /\ sched'[x.id].version \in Nat
      /\ sched'[x.id] = sched[x.id] \/ Edited(x.id)
  <2>1. sched'[x.id] \in SchedRow /\ sched'[x.id].version \in Nat
    BY TypedStep DEF Typed, Placed, SchedPlaced, SchedRow
  <2>2. x.row.version \in Nat
    BY DEF Run
  <2>3. QED
    BY <2>1, <2>2, Ranges, SchedStep DEF Typed
<1>2. QED
  BY <1>1 DEF Current, Edited, Enabled

\* Rows in memory through every step.
LEMMA FreshStep ==
    ASSUME Typed, Fresh, [Next]_vars
    PROVE  Fresh'
<1>1. /\ \A x \in tick.todo : x \in Run /\ x.id \in Ids
      /\ cur \in Run /\ (Handling => cur.id \in Ids)
      /\ \A s \in Ids : sched[s] \in SchedRow
  BY Ranges
<1>2. ASSUME now' = now, Ticking
      PROVE  \A x \in tick.todo : Current(x)'
  BY <1>1, <1>2, CurrentKept DEF Fresh
<1>3. CASE ~Ticking'
  BY <1>3 DEF Fresh, Ticking
<1>4. CASE UNCHANGED <<tick, cur, now>> /\ (Ticking' => Ticking) /\ (Handling' <=> Handling)
  <2>1. ASSUME Handling
        PROVE  Current(cur)'
    <3>1. PICK y \in Run : y = cur /\ y.id \in Ids /\ Current(y)
      BY <1>1, <2>1 DEF Fresh
    <3>2. Current(y)' /\ y = cur'
      BY <1>4, <3>1, CurrentKept
    <3>3. QED
      BY <3>2 DEF Current
  <2>2. QED
    BY <1>2, <1>4, <2>1 DEF Fresh
<1>5. CASE StartTick
  <2>1. /\ pc' = "scan" /\ sched' = sched
        /\ tick' = [now |-> now, todo |-> {[id |-> s, row |-> sched[s], due |-> 0] :
                                             s \in {q \in Ids : Enabled(sched[q])}}]
    BY <1>5 DEF StartTick, Step
  <2>2. \A x \in tick'.todo : sched'[x.id] = x.row
    BY <2>1
  <2>3. QED
    BY <2>1, <2>2 DEF Fresh, Current, Handling
<1>6. CASE Queues \/ Notes
  <2>1. Handling /\ pc' = "scan" /\ now' = now /\ tick' = tick
    BY <1>6, KnownKept
  <2>2. QED
    BY <1>2, <2>1 DEF Fresh, Ticking, Handling
<1>7. CASE Reread
  <2>1. /\ Ticking /\ Handling /\ tick' = tick /\ now' = now /\ sched' = sched
        /\ \/ pc' = "scan"
           \/ cur' = [cur EXCEPT !.row = sched[cur.id]]
    BY <1>7 DEF Reread, Step, Ticking, Handling, clock
  <2>2. ASSUME pc' # "scan"
        PROVE  sched'[cur'.id] = cur'.row
    BY <1>1, <2>1, <2>2 DEF Run
  <2>3. QED
    BY <1>2, <2>1, <2>2 DEF Fresh, Current, Handling
<1>8. ASSUME NEW x \in tick.todo, Examine(x)
      PROVE  Fresh'
  <2> DEFINE e == Expected(x.row, tick.now)
             rest == [tick EXCEPT !.todo = @ \ {x}]
             run == [x EXCEPT !.due = e]
  <2>1. /\ Ticking /\ now' = now /\ tick' = rest
        /\ pc' = "scan" \/ cur' = run
    BY <1>8 DEF Examine, Step, Ticking, clock
  <2>2. tick \in [now : Time, todo : SUBSET Run] /\ x \in Run
    BY <1>1, <1>8 DEF Typed, Placed, ScanPlaced
  <2>3. rest.todo \subseteq tick.todo
    BY <2>2
  <2>4. run.id = x.id /\ run.row = x.row
    BY <2>2 DEF Run
  <2>5. Current(x)'
    BY <1>2, <2>1
  <2> HIDE DEF rest, run, e
  <2>6. pc' # "scan" => Current(cur)'
    BY <2>1, <2>4, <2>5 DEF Current
  <2>7. QED
    BY <1>2, <2>1, <2>3, <2>6 DEF Fresh, Handling
<1>9. QED
  BY <1>3, <1>4, <1>5, <1>6, <1>7, <1>8, ScanStep

\* What is settled stays so, an edited schedule expects nothing yet.
LEMMA SettledKept ==
    ASSUME Typed, [Next]_vars, NEW s \in Ids, NEW t \in Time, t <= now,
           Settled(s, t) \/ sched'[s] # sched[s], Enabled(sched'[s])
    PROVE  Settled(s, t)'
<1>1. CASE sched'[s] = sched[s]
  BY <1>1, KnownKept DEF Settled
<1>2. CASE sched'[s] # sched[s]
  <2>1. sched'[s] \in SchedRow /\ sched'[s].changed = now
    BY <1>2, SchedStep DEF Typed, SchedPlaced, Edited
  <2>2. Expected(sched'[s], t) = 0
    BY <2>1, ExpectedTyped
  <2>3. QED
    BY <2>2 DEF Settled
<1>3. QED
  BY <1>1, <1>2

\* A tick ends with an empty list: every schedule has been settled.
LEMMA WatchedStep ==
    ASSUME Typed, Scanned, Watched, [Next]_vars
    PROVE  Watched'
<1> SUFFICES ASSUME NEW s \in Ids, NEW t \in watched', Enabled(sched'[s])
             PROVE  Settled(s, t)'
  BY DEF Watched
<1>1. CASE t \in watched
  <2>1. t \in Time /\ t <= now
    BY <1>1, Ranges, ScheduleAssumption DEF Time
  <2>2. Settled(s, t) \/ sched'[s] # sched[s]
    BY <1>1 DEF Watched
  <2>3. QED
    BY <2>1, <2>2, SettledKept
<1>2. CASE t \notin watched
  <2>1. EndTick
    BY <1>2, ScanStep
  <2>2. /\ t = now /\ now \in Time /\ tick.todo = {} /\ Ticking /\ ~Handling /\ sched' = sched
    BY <1>2, <2>1, Ranges DEF EndTick, Ticking, Handling
  <2>3. Settled(s, t)
    BY <2>2 DEF Scanned, Awaited
  <2>4. QED
    BY <2>2, <2>3, SettledKept, Ranges
<1>3. QED
  BY <1>1, <1>2

\* A schedule leaves the list of a tick settled, or as the one in hand.
LEMMA ScannedStep ==
    ASSUME Typed, Due, Fresh, Scanned, [Next]_vars
    PROVE  Scanned'
<1> SUFFICES ASSUME Ticking', NEW s \in Ids, Enabled(sched'[s])
             PROVE  Settled(s, now)' \/ Awaited(s)'
  BY DEF Scanned
<1>0. /\ now \in Time /\ now \in Nat /\ sched[s] \in SchedRow
      /\ \A x \in tick.todo : x \in Run /\ x.row \in SchedRow
      /\ cur \in Run /\ (Ticking => tick.now = now)
      /\ tick \in [now : Time, todo : SUBSET Run]
      /\ Handling => cur.id \in Ids /\ cur.due \in Time
  BY Ranges DEF Typed, Placed, ScanPlaced
\* What was settled for this instant, or is edited in it, is settled.
<1>1. ASSUME now' = now, Settled(s, now) \/ sched'[s] # sched[s]
      PROVE  Settled(s, now)'
  <2>1. PICK t \in Time : t = now
    BY <1>0
  <2>2. Settled(s, t)'
    BY <1>0, <1>1, <2>1, SettledKept
  <2>3. QED
    BY <1>1, <2>1, <2>2 DEF Settled
<1>2. ASSUME Ticking, now' = now
      PROVE  Settled(s, now)' \/ (Awaited(s) /\ sched'[s] = sched[s])
  BY <1>1, <1>2 DEF Scanned
<1>3. CASE UNCHANGED <<tick, cur, now>> /\ (Ticking' => Ticking) /\ (Handling' <=> Handling)
  BY <1>2, <1>3 DEF Awaited
<1>4. CASE StartTick
  <2>1. /\ sched' = sched
        /\ tick' = [now |-> now, todo |-> {[id |-> q, row |-> sched[q], due |-> 0] :
                                             q \in {q \in Ids : Enabled(sched[q])}}]
    BY <1>4 DEF StartTick, Step
  <2>2. [id |-> s, row |-> sched[s], due |-> 0] \in tick'.todo
    BY <2>1
  <2>3. QED
    BY <2>1, <2>2 DEF Awaited
<1>5. CASE Queues \/ Notes
  <2>1. Handling /\ Ticking /\ UNCHANGED <<sched, now>> /\ tick' = tick
    BY <1>5, KnownKept DEF Ticking
  <2>2. CASE \E x \in tick.todo : x.id = s /\ x.row = sched[s]
    BY <2>1, <2>2 DEF Awaited
  <2>3. CASE cur.id = s /\ cur.row = sched[s]
    <3>1. \A e \in Time : e = Expected(sched[s], now) => Known(s, e)'
      BY <1>0, <1>5, <2>1, <2>3, KnownKept DEF Due
    <3>2. QED
      BY <2>1, <3>1 DEF Settled
  <2>4. QED
    BY <1>2, <2>1, <2>2, <2>3 DEF Awaited
<1>6. CASE Reread
  <2>1. Handling /\ Ticking /\ UNCHANGED <<sched, now>> /\ pc = "reread"
    BY <1>6 DEF Reread, Handling, Ticking, clock
  <2>2. CASE \E x \in tick.todo : x.id = s /\ x.row = sched[s]
    BY <1>6, <2>1, <2>2 DEF Reread, Step, Awaited
  <2>3. CASE cur.id = s /\ cur.row = sched[s]
    <3>1. StillDue(cur)
      BY <1>0, <2>1, <2>3 DEF StillDue, Due
    <3>2. pc' = "conflict" /\ cur' = [cur EXCEPT !.row = sched[cur.id]]
      BY <1>6, <3>1 DEF Reread, Step
    <3>3. cur'.id = s /\ cur'.row = sched[s]
      BY <1>0, <2>3, <3>2 DEF Run
    <3>4. QED
      BY <2>1, <3>2, <3>3 DEF Awaited, Handling
  <2>4. QED
    BY <1>2, <2>1, <2>2, <2>3 DEF Awaited
<1>7. ASSUME NEW x \in tick.todo, Examine(x)
      PROVE  Settled(s, now)' \/ Awaited(s)'
  <2> DEFINE e == Expected(x.row, tick.now)
             rest == [tick EXCEPT !.todo = @ \ {x}]
             run == [x EXCEPT !.due = e]
  <2>1. /\ Ticking /\ ~Handling /\ UNCHANGED <<rows, sched, missed, now>> /\ tick' = rest
        /\ \/ e = 0 \/ Known(x.id, e)
           \/ pc' = "reread" /\ cur' = run
    BY <1>7 DEF Examine, Step, Ticking, Handling, clock
  <2>2. rest.todo = tick.todo \ {x}
    BY <1>0
  <2>3. run.id = x.id /\ run.row = x.row
    BY <1>0, <1>7 DEF Run
  <2>4. e = Expected(x.row, now)
    BY <1>0, <2>1
  <2> HIDE DEF rest, run, e
  <2>5. CASE \E y \in tick.todo : y # x /\ y.id = s /\ y.row = sched[s]
    BY <2>1, <2>2, <2>5 DEF Awaited
  <2>6. CASE x.id = s /\ x.row = sched[s]
    <3>1. CASE e = 0 \/ Known(x.id, e)
      <4>1. Settled(s, now)
        BY <2>4, <2>6, <3>1 DEF Settled
      <4>2. QED
        BY <1>1, <2>1, <4>1
    <3>2. CASE pc' = "reread" /\ cur' = run
      BY <2>1, <2>3, <2>6, <3>2 DEF Awaited, Handling
    <3>3. QED
      BY <2>1, <3>1, <3>2
  <2>7. QED
    BY <1>2, <2>1, <2>5, <2>6 DEF Awaited
<1>8. QED
  BY <1>3, <1>4, <1>5, <1>6, <1>7, ScanStep

\* The first fact of the inductive invariant Orderly.
LEMMA OrderlyAtInit == Init => Orderly
BY DEF Init, Ops!Init, Orderly, Single, Due, Fresh, Scanned, Watched, Ticking, Handling

\* The second: every step keeps it.
LEMMA OrderlyStep ==
    ASSUME Typed, Orderly, [Next]_vars
    PROVE  Orderly'
BY SingleStep, DueStep, FreshStep, ScannedStep, WatchedStep DEF Orderly

\* It holds throughout.
LEMMA AlwaysOrderly == Spec => [](Typed /\ Orderly)
<1>1. Init => Typed /\ Orderly
  BY TypedAtInit, OrderlyAtInit
<1>2. Typed /\ Orderly /\ [Next]_vars => (Typed /\ Orderly)'
  BY TypedStep, OrderlyStep
<1>3. QED
  BY <1>1, <1>2, PTL DEF Spec

\* The newest occurrence is what _expected_run_at returns.
LEMMA WatchedIsHandled ==
    ASSUME Typed, Watched
    PROVE  RunsAreHandled
<1> SUFFICES ASSUME NEW s \in Ids, NEW t \in watched, Enabled(sched[s]),
                    {e \in Occurrences(sched[s]) : e <= t} # {}
             PROVE  Known(s, Max({e \in Occurrences(sched[s]) : e <= t}))
  BY DEF RunsAreHandled
<1> DEFINE due == {e \in Occurrences(sched[s]) : e <= t}
           newest == Expected(sched[s], t)
<1>1. t \in Time /\ sched[s] \in SchedRow /\ Time \subseteq Nat
  BY Ranges, ScheduleAssumption DEF Time
<1>2. /\ newest \in Time
      /\ \/ newest = 0 /\ \A o \in Occurrences(sched[s]) : o > t
         \/ /\ newest \in Occurrences(sched[s]) /\ newest \in 1 .. t
            /\ \A o \in Occurrences(sched[s]) : o <= newest \/ o > t
  BY <1>1, ExpectedIsNewest, ExpectedTyped
<1>3. \A o \in Occurrences(sched[s]) : o \in Nat
  BY <1>1 DEF Occurrences
<1>4. newest = 0 \/ Known(s, newest)
  BY <1>2 DEF Watched, Settled
<1> HIDE DEF newest
<1>5. newest # 0 /\ newest \in due /\ \A o \in due : o <= newest
  BY <1>1, <1>2, <1>3
<1>6. \A o \in due : o \in Nat
  BY <1>3
<1> HIDE DEF due
<1>7. Max(due) = newest
  <2>1. newest \in due /\ \A o \in due : newest >= o
    BY <1>5, <1>6
  <2>2. Max(due) \in due /\ \A o \in due : Max(due) >= o
    BY <2>1 DEF Max
  <2>3. QED
    BY <1>6, <2>1, <2>2
<1>8. QED
  BY <1>4, <1>5, <1>7 DEF due

\* A run is queued once or recorded once, and the newest that is due is never
\* forgotten: tick works on rows it has read before while clients edit them, gives
\* up at the first failing transaction and is cut off by restarts of the manager.
THEOREM DecidedOnce == Spec => []RunsAreDecidedOnce
<1>1. Typed /\ Orderly => RunsAreDecidedOnce
  BY SingleIsOneOutcome, WatchedIsHandled DEF Orderly, RunsAreDecidedOnce
<1>2. QED
  BY <1>1, AlwaysOrderly, PTL

\* What _dispatch_due_run queues or _record_missed notes was due by the settings the
\* schedule has, unless it was edited since _schedule_for_dispatch read it.
THEOREM OnlyDue == Spec => OnlyDueRuns
<1> DEFINE A == \A s \in Ids, e \in Time :
                  ~Known(s, e) /\ Known(s, e)' /\ cur.row.version = sched[s].version
                  => /\ Enabled(sched[s]) /\ e \in Occurrences(sched[s]) /\ e <= now
                     /\ \A later \in Occurrences(sched[s]) : later <= e \/ later > now
<1>1. ASSUME Typed, Orderly, [Next]_vars
      PROVE  A
  <2> SUFFICES ASSUME NEW s \in Ids, NEW e \in Time, ~Known(s, e), Known(s, e)',
                      cur.row.version = sched[s].version
               PROVE  /\ Enabled(sched[s]) /\ e \in Occurrences(sched[s]) /\ e <= now
                      /\ \A later \in Occurrences(sched[s]) : later <= e \/ later > now
    OBVIOUS
  <2>1. s = cur.id /\ e = cur.due /\ Handling
    BY <1>1, KnownKept
  <2>2. /\ now \in Time /\ tick.now = now /\ sched[s] \in SchedRow /\ cur.due \in 1 .. now
        /\ sched[s].version \in Nat /\ Time \subseteq Nat
    BY <1>1, <2>1, Ranges DEF Ticking
  <2>3. Enabled(cur.row) /\ e = Expected(cur.row, now)
    BY <1>1, <2>1, <2>2 DEF Orderly, Due
  <2>4. cur.row = sched[s]
    BY <1>1, <2>1, <2>2 DEF Orderly, Fresh, Current
  <2>5. e = Expected(sched[s], now) /\ e # 0
    BY <2>1, <2>2, <2>3, <2>4
  <2>6. e \in Occurrences(sched[s]) /\ e \in 1 .. now
        /\ \A later \in Occurrences(sched[s]) : later <= e \/ later > now
    BY <2>2, <2>5, ExpectedIsNewest
  <2>7. QED
    BY <2>2, <2>3, <2>4, <2>6
<1>2. Typed /\ Orderly /\ [Next]_vars => [A]_vars
  BY <1>1
<1>3. QED
  BY <1>2, AlwaysOrderly, PTL DEF Spec, OnlyDueRuns
=============================================================================
