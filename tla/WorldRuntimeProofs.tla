-------------------------- MODULE WorldRuntimeProofs --------------------------
(***************************************************************************)
(* Theorems about the threads that start, stop, kill and supervise game    *)
(* servers, for any worlds, clients, supervisor threads and bounds; and    *)
(* about the state machine of a world, for any set of worlds.              *)
(***************************************************************************)
EXTENDS WorldRuntime, FiniteSetTheorems, TLAPS

-----------------------------------------------------------------------------
(* The operation rows.                                                     *)

\* The kinds of rows the runtime writes.
RowKinds == {"Start", "Stop", "Kill", "ConfigEdit", "CrashDetected"}

\* The rows are typed, and those that exist are about a world.
RowsTyped ==
    /\ Ops!TypeOK
    /\ \A i \in 1 .. issued : ops[i].type \in RowKinds /\ ops[i].world \in Worlds

\* The derived lock of a world has at most one holder besides crash records.
OneHolder ==
    \A i, j \in 1 .. issued :
        /\ ops[i].world = ops[j].world
        /\ ops[i].status \in Ops!InFlight /\ ops[j].status \in Ops!InFlight
        /\ ops[i].type # "CrashDetected" /\ ops[j].type # "CrashDetected"
        => i = j

\* What is said of a row stays so, whatever becomes of its status.
RowsStay ==
    /\ issued' \in Nat /\ issued <= issued'
    /\ \A i \in 1 .. issued : ops'[i].type = ops[i].type /\ ops'[i].world = ops[i].world

\* What a step may do to the table.
Inserts(type, w) == Ops!Create(OpRequest(type, w))

RowsStep ==
    \/ UNCHANGED rows
    \/ \E type \in RowKinds, w \in Worlds : Inserts(type, w)
    \/ \E i \in 1 .. issued : Ops!Claim(i)
    \/ \E i \in 1 .. issued, st \in Ops!Persisted : Ops!Transition(i, st)

\* The numbers of rows.
LEMMA RowNumbers ==
    ASSUME RowsTyped
    PROVE  /\ MaxOps \in Nat \ {0} /\ issued \in 0 .. MaxOps
           /\ 1 .. issued \subseteq Ops!OpId /\ Ops!OpId = 1 .. MaxOps
           /\ \A i \in Ops!OpId : ops[i].status # "Absent" => i \in 1 .. issued
<1>1. MaxOps \in Nat \ {0} /\ issued \in 0 .. MaxOps
  BY RuntimeAssumption DEF RowsTyped, Ops!TypeOK
<1>2. 1 .. issued \subseteq Ops!OpId /\ Ops!OpId = 1 .. MaxOps
  BY <1>1 DEF Ops!OpId
<1>3. \A i \in Ops!OpId : ops[i].status = "Absent" <=> i > issued
  BY DEF RowsTyped, Ops!TypeOK
<1>4. QED
  BY <1>1, <1>2, <1>3

\* Two rows differ in their number or have the fields of one another.
LEMMA RowFields ==
    ASSUME RowsTyped, NEW i \in Ops!OpId
    PROVE  /\ ops[i] \in Ops!Row
           /\ ops[i].status \in Ops!InFlight \cup Ops!Terminal \cup {"Absent"}
<1>1. ops[i] \in Ops!Row
  BY DEF RowsTyped, Ops!TypeOK
<1>2. QED
  BY <1>1 DEF Ops!Row

\* A row that is given another status.
LEMMA Restatus ==
    ASSUME NEW x \in Ops!Row, NEW st \in Ops!InFlight \cup Ops!Terminal
    PROVE  /\ [x EXCEPT !.status = st] \in Ops!Row
           /\ [x EXCEPT !.status = st].status = st
           /\ [x EXCEPT !.status = st].type = x.type
           /\ [x EXCEPT !.status = st].world = x.world
BY DEF Ops!Row

\* What claiming or transitioning a row does to the table.
LEMMA RestatusStep ==
    ASSUME RowsTyped, NEW i \in 1 .. issued, NEW st \in Ops!Persisted,
           ops' = [ops EXCEPT ![i].status = st], issued' = issued
    PROVE  /\ ops' \in [Ops!OpId -> Ops!Row]
           /\ ops'[i].type = ops[i].type /\ ops'[i].world = ops[i].world
           /\ ops'[i].status = st
           /\ \A j \in Ops!OpId \ {i} : ops'[j] = ops[j]
           /\ RowsStay
<1>1. i \in Ops!OpId /\ ops \in [Ops!OpId -> Ops!Row] /\ issued \in Nat
  BY RowNumbers DEF RowsTyped, Ops!TypeOK
<1>2. st \in Ops!InFlight \cup Ops!Terminal
  BY DEF Ops!Persisted, Ops!InFlight, Ops!Terminal
<1> DEFINE row == [ops[i] EXCEPT !.status = st]
<1>3. ops' = [ops EXCEPT ![i] = row]
  BY <1>1
<1>4. /\ row \in Ops!Row /\ row.status = st /\ row.type = ops[i].type
      /\ row.world = ops[i].world
  BY <1>1, <1>2, Restatus, RowFields
<1> HIDE DEF row
<1>5. /\ ops' \in [Ops!OpId -> Ops!Row] /\ ops'[i] = row
      /\ \A j \in Ops!OpId \ {i} : ops'[j] = ops[j]
  BY <1>1, <1>3, <1>4
<1>6. \A j \in 1 .. issued : ops'[j].type = ops[j].type /\ ops'[j].world = ops[j].world
  BY <1>4, <1>5, RowNumbers
<1>7. QED
  BY <1>1, <1>4, <1>5, <1>6 DEF RowsStay

\* The rows a request supersedes are stops of its world that are in flight.
LEMMA SupersededStops ==
    ASSUME RowsTyped, NEW type \in RowKinds, NEW w \in Worlds,
           NEW j \in Ops!Superseded(OpRequest(type, w))
    PROVE  /\ type = "Kill" /\ j \in 1 .. issued /\ ops[j].type = "Stop"
           /\ ops[j].world = w /\ ops[j].status \in Ops!InFlight
<1> DEFINE r == OpRequest(type, w)
<1>1. r.type = type /\ r.world = w /\ type # "Restore"
  BY DEF OpRequest, RowKinds
<1>2. /\ type = "Kill" /\ Ops!TypesOf(Ops!Active(w)) = {"Stop"}
      /\ j \in Ops!Active(w)
  BY <1>1 DEF Ops!Superseded
<1>3. j \in Ops!OpId /\ ops[j].status \in Ops!InFlight /\ ops[j].world = w
  BY <1>2 DEF Ops!Active, Ops!InFlightOps
<1>4. ops[j].type = "Stop"
  BY <1>2 DEF Ops!TypesOf
<1>5. j \in 1 .. issued
  BY <1>3, RowNumbers DEF Ops!InFlight
<1>6. QED
  BY <1>2, <1>3, <1>4, <1>5

\* What create_with_replay does to the table.
LEMMA InsertStep ==
    ASSUME RowsTyped, NEW type \in RowKinds, NEW w \in Worlds, Inserts(type, w)
    PROVE  /\ issued + 1 \in Ops!OpId /\ issued' = issued + 1
           /\ ops'[issued + 1] \in Ops!Row
           /\ ops'[issued + 1].type = type /\ ops'[issued + 1].world = w
           /\ ops'[issued + 1].status = "Queued"
           /\ \A j \in Ops!OpId \ {issued + 1} :
                 \/ ops'[j] = ops[j]
                 \/ /\ j \in Ops!Superseded(OpRequest(type, w))
                    /\ ops'[j] = [ops[j] EXCEPT !.status = "Cancelled"]
           /\ \A j \in Ops!Superseded(OpRequest(type, w)) :
                 ops'[j] = [ops[j] EXCEPT !.status = "Cancelled"]
           /\ audits' \in [Ops!OpId -> Nat] /\ claims' = claims
           /\ ops' = [j \in Ops!OpId |-> ops'[j]]
<1> DEFINE r == OpRequest(type, w)
<1>1. issued < MaxOps /\ issued' = issued + 1 /\ claims' = claims
  BY DEF Inserts, Ops!Create
<1>2. issued + 1 \in Ops!OpId
  BY <1>1, RowNumbers
<1>3. ops' = [j \in Ops!OpId |->
                IF j = issued + 1 THEN Ops!NewRow(r)
                ELSE IF j \in Ops!Superseded(r) THEN [ops[j] EXCEPT !.status = "Cancelled"]
                ELSE ops[j]]
  BY DEF Inserts, Ops!Create
<1>4. Ops!NewRow(r) = [type |-> type, world |-> w, key |-> None, subject |-> None,
                       bypass |-> type = "CrashDetected", status |-> "Queued"]
  BY DEF Ops!NewRow, OpRequest
<1>5. Ops!NewRow(r) \in Ops!Row
  BY <1>4 DEF Ops!Row, Ops!Types, RowKinds, Ops!InFlight
<1>6. issued + 1 \notin Ops!Superseded(r)
  BY SupersededStops, RowNumbers
<1>7. audits' \in [Ops!OpId -> Nat]
  BY DEF Inserts, Ops!Create, RowsTyped, Ops!TypeOK
<1>8. \A j \in Ops!Superseded(r) : j \in Ops!OpId
  BY SupersededStops, RowNumbers
<1>9. ops'[issued + 1] = Ops!NewRow(r)
  BY <1>2, <1>3
<1>10. \A j \in Ops!OpId \ {issued + 1} :
         ops'[j] = IF j \in Ops!Superseded(r) THEN [ops[j] EXCEPT !.status = "Cancelled"]
                   ELSE ops[j]
  BY <1>3
<1>11. ops' = [j \in Ops!OpId |-> ops'[j]]
  BY <1>3
<1> HIDE DEF r
<1>12. /\ ops'[issued + 1].type = type /\ ops'[issued + 1].world = w
       /\ ops'[issued + 1].status = "Queued"
  BY <1>4, <1>9
<1>13. QED
  BY <1>1, <1>2, <1>5, <1>6, <1>7, <1>8, <1>9, <1>10, <1>11, <1>12 DEF r

\* The same, field by field.
LEMMA InsertFields ==
    ASSUME RowsTyped, NEW type \in RowKinds, NEW w \in Worlds, Inserts(type, w),
           NEW j \in Ops!OpId, j # issued + 1
    PROVE  /\ ops'[j] \in Ops!Row
           /\ ops'[j].type = ops[j].type /\ ops'[j].world = ops[j].world
           /\ \/ ops'[j].status = ops[j].status
              \/ /\ type = "Kill" /\ ops[j].type = "Stop" /\ ops[j].world = w
                 /\ ops[j].status \in Ops!InFlight /\ ops'[j].status = "Cancelled"
<1>1. CASE ops'[j] = ops[j]
  BY <1>1, RowFields
<1>2. CASE /\ j \in Ops!Superseded(OpRequest(type, w))
           /\ ops'[j] = [ops[j] EXCEPT !.status = "Cancelled"]
  <2>1. "Cancelled" \in Ops!InFlight \cup Ops!Terminal
    BY DEF Ops!Terminal
  <2>2. /\ ops'[j] \in Ops!Row /\ ops'[j].status = "Cancelled"
        /\ ops'[j].type = ops[j].type /\ ops'[j].world = ops[j].world
    BY <1>2, <2>1, Restatus, RowFields
  <2>3. /\ type = "Kill" /\ ops[j].type = "Stop" /\ ops[j].world = w
        /\ ops[j].status \in Ops!InFlight
    BY <1>2, SupersededStops
  <2>4. QED
    BY <2>2, <2>3
<1>3. QED
  BY <1>1, <1>2, InsertStep

\* A request that obeys the policy leaves no other row of its world in flight.
LEMMA InsertAlone ==
    ASSUME RowsTyped, NEW type \in RowKinds, NEW w \in Worlds, Inserts(type, w),
           type # "CrashDetected", NEW j \in 1 .. issued, ops[j].world = w
    PROVE  ops'[j].status \notin Ops!InFlight
<1> DEFINE r == OpRequest(type, w)
<1>1. /\ r.type = type /\ r.world = w /\ r.bypass = FALSE
      /\ w # None /\ j \in Ops!OpId
  BY RowNumbers, RuntimeAssumption DEF OpRequest
<1>2. ~Ops!Exempt(r)
  BY <1>1 DEF Ops!Exempt, RowKinds
<1>3. ~Ops!SameCleanup(r, Ops!Remaining(r))
  BY <1>1 DEF Ops!SameCleanup, RowKinds
<1>4. Ops!TypesOf(Ops!Remaining(r)) \subseteq Ops!Tolerates(type)
  BY <1>1, <1>2, <1>3 DEF Inserts, Ops!Create, Ops!Admissible
<1>5. Ops!Tolerates(type) \cap RowKinds = {}
  BY DEF Ops!Tolerates, RowKinds, Ops!RuntimeTypes
<1>6. CASE ops[j].status \in Ops!InFlight
  <2>1. j \in Ops!Active(w)
    BY <1>1, <1>6 DEF Ops!Active, Ops!InFlightOps
  <2>2. ops[j].type \in RowKinds
    BY DEF RowsTyped
  <2>3. j \notin Ops!Remaining(r)
    BY <1>4, <1>5, <2>2 DEF Ops!TypesOf
  <2>4. j \in Ops!Superseded(r)
    BY <1>1, <2>1, <2>3 DEF Ops!Remaining
  <2>5. ops'[j] = [ops[j] EXCEPT !.status = "Cancelled"]
    BY <2>4, InsertStep
  <2>6. "Cancelled" \in Ops!InFlight \cup Ops!Terminal /\ "Cancelled" \notin Ops!InFlight
    BY DEF Ops!Terminal, Ops!InFlight
  <2>7. QED
    BY <1>1, <2>5, <2>6, Restatus, RowFields
<1>7. CASE ops[j].status \notin Ops!InFlight
  <2>1. j # issued + 1
    BY RowNumbers
  <2>2. ops'[j].status = ops[j].status
    BY <1>1, <1>7, <2>1, InsertFields
  <2>3. QED
    BY <1>7, <2>2
<1>8. QED
  BY <1>6, <1>7

\* A counter that is counted up.
LEMMA CountedUp ==
    ASSUME NEW S, NEW f \in [S -> Nat], NEW i \in S
    PROVE  [f EXCEPT ![i] = f[i] + 1] \in [S -> Nat]
<1>1. f[i] + 1 \in Nat
  OBVIOUS
<1>2. QED
  BY <1>1

\* The rows stay typed.
LEMMA RowsTypedStep ==
    ASSUME RowsTyped, RowsStep
    PROVE  RowsTyped' /\ RowsStay
<1>1. CASE UNCHANGED rows
  <2>1. UNCHANGED <<ops, issued, audits, claims>>
    BY <1>1 DEF rows
  <2>2. RowsTyped'
    BY <2>1 DEF RowsTyped, Ops!TypeOK
  <2>3. QED
    BY <2>1, <2>2, RowNumbers DEF RowsStay
<1>2. ASSUME NEW type \in RowKinds, NEW w \in Worlds, Inserts(type, w)
      PROVE  RowsTyped' /\ RowsStay
  <2>1. \A j \in Ops!OpId : ops'[j] \in Ops!Row
    BY <1>2, InsertStep, InsertFields
  <2>2. ops' \in [Ops!OpId -> Ops!Row]
    <3>1. ops' = [j \in Ops!OpId |-> ops'[j]]
      BY <1>2, InsertStep
    <3>2. QED
      BY <2>1, <3>1
  <2>3. /\ issued \in Nat /\ issued + 1 \in 1 .. MaxOps /\ issued' = issued + 1
        /\ 1 .. issued' = 1 .. issued \cup {issued + 1}
    BY <1>2, InsertStep, RowNumbers
  <2>4. \A j \in Ops!OpId : /\ ops'[j].status = "Absent" <=> j > issued'
                            /\ ops'[j].status \notin {"Created", "Validating"}
    <3> SUFFICES ASSUME NEW j \in Ops!OpId
                 PROVE  /\ ops'[j].status = "Absent" <=> j > issued'
                        /\ ops'[j].status \notin {"Created", "Validating"}
      OBVIOUS
    <3>1. CASE j = issued + 1
      BY <1>2, <2>3, <3>1, InsertStep
    <3>2. CASE j # issued + 1
      <4>1. /\ ops[j].status = "Absent" <=> j > issued
            /\ ops[j].status \notin {"Created", "Validating"}
        BY DEF RowsTyped, Ops!TypeOK
      <4>2. \/ ops'[j].status = ops[j].status
            \/ ops[j].status # "Absent" /\ ops'[j].status = "Cancelled"
        BY <1>2, <3>2, InsertFields DEF Ops!InFlight
      <4>3. j > issued <=> j > issued'
        BY <2>3, <3>2, RowNumbers
      <4>4. QED
        BY <4>1, <4>2, <4>3
    <3>3. QED
      BY <3>1, <3>2
  <2>5. \A j \in 1 .. issued : ops'[j].type = ops[j].type /\ ops'[j].world = ops[j].world
    <3>1. \A j \in 1 .. issued : j \in Ops!OpId /\ j # issued + 1
      BY RowNumbers
    <3>2. QED
      BY <1>2, <3>1, InsertFields
  <2>6. \A j \in 1 .. issued' : ops'[j].type \in RowKinds /\ ops'[j].world \in Worlds
    <3>1. \A j \in 1 .. issued : ops[j].type \in RowKinds /\ ops[j].world \in Worlds
      BY DEF RowsTyped
    <3>2. ops'[issued + 1].type \in RowKinds /\ ops'[issued + 1].world \in Worlds
      BY <1>2, InsertStep
    <3>3. QED
      BY <2>3, <2>5, <3>1, <3>2
  <2>7. /\ audits' \in [Ops!OpId -> Nat] /\ claims' \in [Ops!OpId -> Nat]
        /\ issued' \in 0 .. MaxOps
    BY <1>2, <2>3, InsertStep, RowNumbers DEF RowsTyped, Ops!TypeOK
  <2>8. RowsTyped'
    BY <2>2, <2>4, <2>6, <2>7 DEF RowsTyped, Ops!TypeOK
  <2>9. RowsStay
    BY <2>3, <2>5 DEF RowsStay
  <2>10. QED
    BY <2>8, <2>9
<1>3. ASSUME NEW i \in 1 .. issued, NEW st \in Ops!Persisted,
             ops' = [ops EXCEPT ![i].status = st], issued' = issued,
             ops[i].status # "Absent",
             audits' \in [Ops!OpId -> Nat], claims' \in [Ops!OpId -> Nat]
      PROVE  RowsTyped' /\ RowsStay
  <2>1. /\ ops' \in [Ops!OpId -> Ops!Row] /\ ops'[i].status = st
        /\ \A j \in Ops!OpId \ {i} : ops'[j] = ops[j]
        /\ RowsStay
    BY <1>3, RestatusStep
  <2>2. st \notin {"Absent", "Created", "Validating"}
    BY DEF Ops!Persisted, Ops!InFlight, Ops!Terminal
  <2>3. /\ \A j \in Ops!OpId : ops[j].status = "Absent" <=> j > issued
        /\ \A j \in Ops!OpId : ops[j].status \notin {"Created", "Validating"}
        /\ issued \in 0 .. MaxOps
    BY DEF RowsTyped, Ops!TypeOK
  <2>4. /\ \A j \in Ops!OpId : ops'[j].status = "Absent" <=> j > issued'
        /\ \A j \in Ops!OpId : ops'[j].status \notin {"Created", "Validating"}
        /\ issued' \in 0 .. MaxOps
    BY <1>3, <2>1, <2>2, <2>3
  <2>5. \A j \in 1 .. issued' : ops'[j].type \in RowKinds /\ ops'[j].world \in Worlds
    BY <1>3, <2>1 DEF RowsStay, RowsTyped
  <2>6. QED
    BY <1>3, <2>1, <2>4, <2>5 DEF RowsTyped, Ops!TypeOK
<1>4. ASSUME NEW i \in 1 .. issued, Ops!Claim(i)
      PROVE  RowsTyped' /\ RowsStay
  <2>1. /\ ops' = [ops EXCEPT ![i].status = "Running"] /\ issued' = issued
        /\ claims' = [claims EXCEPT ![i] = @ + 1] /\ audits' = audits
        /\ ops[i].status = "Queued"
    BY <1>4 DEF Ops!Claim, Ops!Claimable
  <2>2. audits' \in [Ops!OpId -> Nat] /\ claims' \in [Ops!OpId -> Nat]
    <3>1. /\ audits \in [Ops!OpId -> Nat] /\ claims \in [Ops!OpId -> Nat]
          /\ i \in Ops!OpId
      BY RowNumbers DEF RowsTyped, Ops!TypeOK
    <3>2. QED
      BY <2>1, <3>1, CountedUp
  <2>3. "Running" \in Ops!Persisted
    BY DEF Ops!Persisted
  <2>4. QED
    BY <1>3, <2>1, <2>2, <2>3
<1>5. ASSUME NEW i \in 1 .. issued, NEW st \in Ops!Persisted, Ops!Transition(i, st)
      PROVE  RowsTyped' /\ RowsStay
  <2>1. /\ ops' = [ops EXCEPT ![i].status = st] /\ issued' = issued
        /\ audits' = IF st \in Ops!Terminal THEN [audits EXCEPT ![i] = @ + 1] ELSE audits
        /\ claims' = claims /\ ops[i].status # "Absent"
    BY <1>5 DEF Ops!Transition, Ops!Transitionable, Ops!InFlight
  <2>2. audits' \in [Ops!OpId -> Nat] /\ claims' \in [Ops!OpId -> Nat]
    <3>1. /\ audits \in [Ops!OpId -> Nat] /\ claims \in [Ops!OpId -> Nat]
          /\ i \in Ops!OpId
      BY RowNumbers DEF RowsTyped, Ops!TypeOK
    <3>2. QED
      BY <2>1, <3>1, CountedUp
  <2>3. QED
    BY <1>3, <2>1, <2>2
<1>6. QED
  BY <1>1, <1>2, <1>4, <1>5 DEF RowsStep

\* The lock of a world keeps having one holder.
LEMMA OneHolderStep ==
    ASSUME RowsTyped, OneHolder, RowsStep
    PROVE  OneHolder'
<1>1. CASE UNCHANGED rows
  BY <1>1 DEF rows, OneHolder, Ops!InFlight
<1> DEFINE Holds(i, w) == /\ ops[i].world = w /\ ops[i].status \in Ops!InFlight
                          /\ ops[i].type # "CrashDetected"
<1>2. \A i, j \in 1 .. issued : ops[i].world = ops[j].world /\ Holds(i, ops[i].world)
                                /\ Holds(j, ops[j].world) => i = j
  BY DEF OneHolder
<1>3. ASSUME NEW type \in RowKinds, NEW w \in Worlds, Inserts(type, w)
      PROVE  OneHolder'
  <2>1. /\ issued \in Nat /\ issued' = issued + 1 /\ 1 .. issued \subseteq Ops!OpId
        /\ 1 .. issued' = 1 .. issued \cup {issued + 1}
        /\ \A j \in 1 .. issued : j # issued + 1
    BY <1>3, InsertStep, RowNumbers
  <2>2. ASSUME NEW j \in 1 .. issued, ops'[j].status \in Ops!InFlight
        PROVE  /\ ops[j].status \in Ops!InFlight
               /\ ops'[j].type = ops[j].type /\ ops'[j].world = ops[j].world
    <3>1. "Cancelled" \notin Ops!InFlight
      BY DEF Ops!InFlight
    <3>2. QED
      BY <1>3, <2>1, <2>2, <3>1, InsertFields
  <2>3. ops'[issued + 1].type = type /\ ops'[issued + 1].world = w
    BY <1>3, InsertStep
  <2>4. ASSUME NEW j \in 1 .. issued, ops'[j].status \in Ops!InFlight, type # "CrashDetected"
        PROVE  ops'[j].world # w
    BY <1>3, <2>2, <2>4, InsertAlone
  <2>5. SUFFICES ASSUME NEW i \in 1 .. issued', NEW j \in 1 .. issued',
                        ops'[i].world = ops'[j].world,
                        ops'[i].status \in Ops!InFlight, ops'[j].status \in Ops!InFlight,
                        ops'[i].type # "CrashDetected", ops'[j].type # "CrashDetected"
                 PROVE  i = j
    BY DEF OneHolder, Ops!InFlight
  <2>6. CASE i \in 1 .. issued /\ j \in 1 .. issued
    BY <2>2, <2>5, <2>6 DEF OneHolder
  <2>7. CASE i = issued + 1 /\ j \in 1 .. issued
    BY <2>3, <2>4, <2>5, <2>7
  <2>8. CASE j = issued + 1 /\ i \in 1 .. issued
    BY <2>3, <2>4, <2>5, <2>8
  <2>9. QED
    BY <2>1, <2>6, <2>7, <2>8
<1>4. ASSUME NEW i \in 1 .. issued, NEW st \in Ops!Persisted, ops[i].status \in Ops!InFlight,
             ops' = [ops EXCEPT ![i].status = st], issued' = issued
      PROVE  OneHolder'
  <2>1. /\ ops'[i].type = ops[i].type /\ ops'[i].world = ops[i].world
        /\ \A j \in Ops!OpId \ {i} : ops'[j] = ops[j]
        /\ 1 .. issued \subseteq Ops!OpId
    BY <1>4, RestatusStep, RowNumbers
  <2>2. SUFFICES ASSUME NEW j \in 1 .. issued, NEW k \in 1 .. issued,
                        ops'[k].world = ops'[j].world,
                        ops'[k].status \in Ops!InFlight, ops'[j].status \in Ops!InFlight,
                        ops'[k].type # "CrashDetected", ops'[j].type # "CrashDetected"
                 PROVE  k = j
    BY <1>4 DEF OneHolder, Ops!InFlight
  <2>3. /\ ops[j].world = ops'[j].world /\ ops[k].world = ops'[k].world
        /\ ops[j].status \in Ops!InFlight /\ ops[k].status \in Ops!InFlight
        /\ ops[j].type # "CrashDetected" /\ ops[k].type # "CrashDetected"
    BY <1>4, <2>1, <2>2
  <2>4. QED
    BY <2>2, <2>3 DEF OneHolder
<1>5. ASSUME NEW i \in 1 .. issued, Ops!Claim(i) PROVE OneHolder'
  <2>1. /\ ops' = [ops EXCEPT ![i].status = "Running"] /\ issued' = issued
        /\ ops[i].status \in Ops!InFlight
    BY <1>5 DEF Ops!Claim, Ops!Claimable, Ops!InFlight
  <2>2. "Running" \in Ops!Persisted
    BY DEF Ops!Persisted
  <2>3. QED
    BY <1>4, <2>1, <2>2
<1>6. ASSUME NEW i \in 1 .. issued, NEW st \in Ops!Persisted, Ops!Transition(i, st)
      PROVE  OneHolder'
  BY <1>4, <1>6 DEF Ops!Transition, Ops!Transitionable
<1>7. QED
  BY <1>1, <1>3, <1>5, <1>6 DEF RowsStep

-----------------------------------------------------------------------------
(* The states of the worlds.                                               *)

\* No backup or restore is among the threads of this module.
RuntimeStates == Life!States \ {"backing_up", "restoring"}

StatesTyped == state \in [Worlds -> RuntimeStates]

\* The states each write is accepted in.
Sources == [answer_eula  |-> {"off", "eula_required"},
            require_eula |-> {"off", "eula_required"},
            error        |-> {"starting", "error"},
            queue        |-> {"off", "queued"},
            launch       |-> {"queued", "starting"},
            confirm      |-> {"starting", "running"},
            time_out     |-> {"starting", "error"},
            stopping     |-> {"running", "stopping"},
            off          |-> {"off", "queued", "stopping"},
            lift_eula    |-> {"eula_required"},
            crash        |-> {"running", "crashed"},
            reattach     |-> {"starting", "running"}]

\* What the table lets a world of the runtime become (transition_world).
LEMMA Permissions ==
    ASSUME NEW w \in Worlds, state[w] \in RuntimeStates, NEW to, NEW intent,
           Life!Permitted(w, to, intent)
    PROVE  /\ to = "eula_required" => state[w] \in {"off", "eula_required"}
           /\ to = "error" => state[w] \in {"starting", "error"}
           /\ to = "queued" => state[w] \in {"off", "queued"}
           /\ to = "starting" => state[w] \in {"queued", "starting"}
           /\ to = "running" => state[w] \in {"starting", "running"}
           /\ to = "stopping" => state[w] \in {"running", "stopping"}
           /\ to = "crashed" => state[w] \in {"running", "crashed"}
           /\ to = "off" /\ intent = "ordinary" => state[w] \in {"off", "queued", "stopping"}
           /\ to = "off" /\ intent = "eula_acceptance" => state[w] = "eula_required"
<1>1. to = state[w] \/ to \in Life!Successors[state[w]]
  BY DEF Life!Permitted
<1>2. to = "off" => intent = Life!ExitIntent[state[w]]
  BY DEF Life!Permitted
<1>3. /\ Life!Successors["off"] = {"queued", "backing_up", "restoring", "eula_required"}
      /\ Life!Successors["queued"] = {"off", "starting"}
      /\ Life!Successors["starting"] = {"running", "error"}
      /\ Life!Successors["running"] = {"stopping", "backing_up", "crashed"}
      /\ Life!Successors["stopping"] = {"off"}
      /\ Life!Successors["crashed"] = {"off"}
      /\ Life!Successors["error"] = {"off"}
      /\ Life!Successors["eula_required"] = {"off"}
  BY DEF Life!Successors
<1>4. state[w] \in {"off", "queued", "starting", "running", "stopping", "crashed", "error",
                    "eula_required"}
  BY DEF RuntimeStates, Life!States
<1>5. state[w] \in Life!States
  BY DEF RuntimeStates
<1>6. /\ state[w] = "crashed" => Life!ExitIntent[state[w]] = "crash_acknowledgement"
      /\ state[w] = "error" => Life!ExitIntent[state[w]] = "error_acknowledgement"
      /\ state[w] = "eula_required" => Life!ExitIntent[state[w]] = "eula_acceptance"
      /\ state[w] \notin {"crashed", "error", "eula_required"}
            => Life!ExitIntent[state[w]] = "ordinary"
  BY <1>5 DEF Life!ExitIntent
<1>7. to \notin {"off"} => /\ to = "eula_required" => state[w] \in {"off", "eula_required"}
                           /\ to = "error" => state[w] \in {"starting", "error"}
                           /\ to = "queued" => state[w] \in {"off", "queued"}
                           /\ to = "starting" => state[w] \in {"queued", "starting"}
  BY <1>1, <1>3, <1>4
<1>8. to \notin {"off"} => /\ to = "running" => state[w] \in {"starting", "running"}
                           /\ to = "stopping" => state[w] \in {"running", "stopping"}
                           /\ to = "crashed" => state[w] \in {"running", "crashed"}
  BY <1>1, <1>3, <1>4
<1>9. to = "off" => state[w] \notin {"starting", "running"}
  BY <1>1, <1>3
<1>10. to = "off" /\ intent = "ordinary" => state[w] \in {"off", "queued", "stopping"}
  BY <1>2, <1>4, <1>6, <1>9
<1>11. to = "off" /\ intent = "eula_acceptance" => state[w] = "eula_required"
  BY <1>2, <1>4, <1>6
<1>12. QED
  BY <1>7, <1>8, <1>10, <1>11

\* The calls of _set_world_state, one by one.
LEMMA WorldWriteTable ==
    /\ DOMAIN WorldWrites = {"answer_eula", "require_eula", "error", "queue", "launch",
                             "confirm", "time_out", "stopping", "off", "lift_eula", "crash",
                             "reattach"}
    /\ WorldWrites["answer_eula"] = [to |-> "eula_required", next |-> "idle", refused |-> "idle"]
    /\ WorldWrites["require_eula"] =
          [to |-> "eula_required", next |-> "raise", refused |-> "raise"]
    /\ WorldWrites["error"] = [to |-> "error", next |-> "raise", refused |-> "raise"]
    /\ WorldWrites["queue"] = [to |-> "queued", next |-> "launch", refused |-> "raise"]
    /\ WorldWrites["launch"] = [to |-> "starting", next |-> "spawn", refused |-> "raise"]
    /\ WorldWrites["confirm"] = [to |-> "running", next |-> "complete", refused |-> "raise"]
    /\ WorldWrites["time_out"] = [to |-> "error", next |-> "timed_out", refused |-> "raise"]
    /\ WorldWrites["stopping"] = [to |-> "stopping", next |-> "halt", refused |-> "raise"]
    /\ WorldWrites["off"] = [to |-> "off", next |-> "complete", refused |-> "raise"]
    /\ WorldWrites["lift_eula"] = [to |-> "off", next |-> "complete", refused |-> "raise"]
    /\ WorldWrites["crash"] = [to |-> "crashed", next |-> "record", refused |-> "abort"]
    /\ WorldWrites["reattach"] = [to |-> "running", next |-> "scan", refused |-> "abort"]
BY DEF WorldWrites, Write

\* The calls of OperationService.transition, one by one.
LEMMA StatusWriteTable ==
    /\ DOMAIN StatusWrites = {"validate", "cancel", "fail_eula", "fail_start", "timed_out",
                              "run", "complete", "raise", "edit_run", "observe", "observed",
                              "interrupted"}
    /\ StatusWrites["validate"] = [to |-> "Running", next |-> "recheck", refused |-> "idle"]
    /\ StatusWrites["cancel"] = [to |-> "Cancelled", next |-> "idle", refused |-> "idle"]
    /\ StatusWrites["fail_eula"] =
          [to |-> "Failed", next |-> "require_eula", refused |-> "idle"]
    /\ StatusWrites["fail_start"] = [to |-> "Failed", next |-> "error", refused |-> "idle"]
    /\ StatusWrites["timed_out"] = [to |-> "TimedOut", next |-> "idle", refused |-> "idle"]
    /\ StatusWrites["run"] = [to |-> "Running", next |-> "stopping", refused |-> "idle"]
    /\ StatusWrites["complete"] = [to |-> "Completed", next |-> "idle", refused |-> "raise"]
    /\ StatusWrites["raise"] = [to |-> "Failed", next |-> "idle", refused |-> "idle"]
    /\ StatusWrites["edit_run"] = [to |-> "Running", next |-> "accept", refused |-> "idle"]
    /\ StatusWrites["observe"] = [to |-> "Running", next |-> "observed", refused |-> "abort"]
    /\ StatusWrites["observed"] = [to |-> "Completed", next |-> "scan", refused |-> "abort"]
    /\ StatusWrites["interrupted"] = [to |-> "Failed", next |-> "scan", refused |-> "abort"]
BY DEF StatusWrites, Write, BeginStart

\* What a call of _set_world_state does.
LEMMA StateWrite ==
    ASSUME StatesTyped, NEW t, at[t].world \in Worlds, SetWorldState(t)
    PROVE  /\ pc[t] \in DOMAIN WorldWrites
           /\ \/ UNCHANGED state /\ Goto(t, WorldWrites[pc[t]].refused)
              \/ /\ state[at[t].world] \in Sources[pc[t]]
                 /\ state' = [state EXCEPT ![at[t].world] = WorldWrites[pc[t]].to]
                 /\ Goto(t, WorldWrites[pc[t]].next)
           /\ UNCHANGED <<rows, accepted, servers, crashes>>
<1> DEFINE w == at[t].world
           p == pc[t]
<1>1. /\ p \in DOMAIN WorldWrites
      /\ \/ UNCHANGED state /\ Goto(t, WorldWrites[p].refused)
         \/ /\ Life!Permitted(w, WorldWrites[p].to, Intent(p))
            /\ state' = [state EXCEPT ![w] = WorldWrites[p].to]
            /\ Goto(t, WorldWrites[p].next)
      /\ UNCHANGED <<rows, accepted, servers, crashes>>
  BY DEF SetWorldState
<1>2. ASSUME Life!Permitted(w, WorldWrites[p].to, Intent(p))
      PROVE  state[w] \in Sources[p]
  <2> DEFINE to == WorldWrites[p].to
             intent == Intent(p)
  <2>1. w \in Worlds /\ state[w] \in RuntimeStates
    BY DEF StatesTyped
  <2>2. /\ p = "lift_eula" => intent = "eula_acceptance"
        /\ p # "lift_eula" => intent = "ordinary"
    BY DEF Intent
  <2> HIDE DEF intent
  <2>3. /\ to = "eula_required" => state[w] \in {"off", "eula_required"}
        /\ to = "error" => state[w] \in {"starting", "error"}
        /\ to = "queued" => state[w] \in {"off", "queued"}
        /\ to = "starting" => state[w] \in {"queued", "starting"}
        /\ to = "running" => state[w] \in {"starting", "running"}
        /\ to = "stopping" => state[w] \in {"running", "stopping"}
        /\ to = "crashed" => state[w] \in {"running", "crashed"}
        /\ to = "off" /\ intent = "ordinary" => state[w] \in {"off", "queued", "stopping"}
        /\ to = "off" /\ intent = "eula_acceptance" => state[w] = "eula_required"
    BY <1>2, <2>1, Permissions DEF intent
  <2>4. /\ p \in {"answer_eula", "require_eula"} => to = "eula_required"
        /\ p \in {"error", "time_out"} => to = "error"
        /\ p = "queue" => to = "queued" 
        /\ p = "launch" => to = "starting"
        /\ p \in {"confirm", "reattach"} => to = "running"
        /\ p = "stopping" => to = "stopping"
        /\ p \in {"off", "lift_eula"} => to = "off"
        /\ p = "crash" => to = "crashed"
    BY WorldWriteTable
  <2> HIDE DEF to
  <2>5. p \in {"answer_eula", "require_eula", "error", "queue", "launch", "confirm", "time_out",
               "stopping", "off", "lift_eula", "crash", "reattach"}
    BY <1>1, WorldWriteTable
  <2> HIDE DEF p, w
  <2>6. CASE p \in {"answer_eula", "require_eula", "error", "time_out"}
    BY <2>3, <2>4, <2>6 DEF Sources
  <2>7. CASE p \in {"queue", "launch", "stopping", "crash"}
    BY <2>3, <2>4, <2>7 DEF Sources
  <2>8. CASE p \in {"confirm", "reattach"}
    BY <2>3, <2>4, <2>8 DEF Sources
  <2>9. CASE p \in {"off", "lift_eula"}
    BY <2>2, <2>3, <2>4, <2>9 DEF Sources
  <2>10. QED
    BY <2>5, <2>6, <2>7, <2>8, <2>9
<1>3. QED
  BY <1>1, <1>2

-----------------------------------------------------------------------------
(* The threads.                                                            *)

ClientPoints == {"idle", "answer_eula", "enqueue", "edit", "edit_run", "accept", "lift_eula",
                 "complete", "raise"}

\* The points of start, and those of stop and kill.
StartPoints == {"check", "recheck", "validate", "cancel", "require_eula", "fail_eula",
                "fail_start", "error", "queue", "launch", "spawn", "open_session", "await",
                "confirm", "time_out", "timed_out"}

EndPoints == {"run", "stopping", "halt", "off"}

WorkerPoints == StartPoints \cup EndPoints \cup {"idle", "close", "complete", "raise"}

PollerPoints == {"idle", "abort", "scan", "close", "crash", "record", "observe", "observed"}

\* "idle" is where boot would be if there were no room for the record of a crash.
BootPoints == {"up", "down", "abort", "idle", "scan", "reattach", "close", "resolve", "crash",
               "record", "observe", "observed", "interrupt", "interrupted"}

PointsOf(t) == IF t = "worker" THEN WorkerPoints
               ELSE IF t = "boot" THEN BootPoints
               ELSE IF t \in Clients THEN ClientPoints ELSE PollerPoints

Args == [world : Worlds \cup {None}, op : 0 .. MaxOps, reason : EndReasons \cup {None},
         todo : SUBSET Worlds]

\* The kinds of rows a thread works on.
KindsOf(t) == IF t = "worker" THEN Ops!RuntimeTypes
              ELSE IF t = "boot" THEN {"CrashDetected", "Start"}
              ELSE IF t \in Clients THEN {"ConfigEdit"} ELSE {"CrashDetected"}

\* The points whose thread is about a world, and those of clients, pollers and boot whose
\* thread is about a row.
WithWorld == {"answer_eula", "enqueue", "edit", "edit_run", "accept", "lift_eula",
              "close", "crash", "record", "reattach", "resolve", "interrupt"}

WithRow == {"edit_run", "accept", "lift_eula", "complete", "raise", "observe", "observed",
            "interrupt", "interrupted"}

\* The local variables a go with point p of thread t.
Fits(t, p, a) ==
    /\ p \in PointsOf(t) /\ a \in Args
    /\ p \in Resting => a = NoArgs
    /\ p \in WithWorld => a.world \in Worlds
    /\ p \in WithRow => a.op # 0
    /\ a.op # 0 => a.op \in 1 .. issued /\ ops[a.op].type \in KindsOf(t)
    /\ p = "close" => a.reason \in EndReasons
    /\ p = "close" /\ t \in Pollers => a.reason = "crashed"
    /\ t = "worker" /\ p # "idle" =>
          /\ a.world \in Worlds /\ a.op # 0 /\ ops[a.op].world = a.world
          /\ p \in StartPoints => ops[a.op].type = "Start"
          /\ p \in EndPoints => Halts(a.op)
          /\ p = "close" /\ ops[a.op].type = "Start" => a.reason = "crashed"

ThreadsOK ==
    /\ pc \in [Threads -> Points] /\ at \in [Threads -> Args]
    /\ \A t \in Threads : Fits(t, pc[t], at[t])

\* While the manager boots, nothing else of it runs.
BootsAlone == ~Up => \A t \in Threads \ {"boot"} : pc[t] = "idle"

\* The points belong to Points.
LEMMA AllPoints ==
    ASSUME NEW t PROVE PointsOf(t) \subseteq Points
<1>1. Points = {"answer_eula", "require_eula", "error", "queue", "launch",
                "confirm", "time_out", "stopping", "off", "lift_eula", "crash", "reattach",
                "validate", "cancel", "fail_eula", "fail_start", "timed_out",
                "run", "complete", "raise", "edit_run", "observe", "observed", "interrupted",
                "idle", "abort", "down", "up", "enqueue", "edit", "accept", "check", "recheck",
                "spawn", "open_session", "await", "halt", "close", "scan", "record", "resolve",
                "interrupt"}
  BY WorldWriteTable, StatusWriteTable DEF Points, Resting
<1>2. ClientPoints \subseteq Points
  BY <1>1 DEF ClientPoints
<1>3. WorkerPoints \subseteq Points
  BY <1>1 DEF WorkerPoints, StartPoints, EndPoints
<1>4. PollerPoints \subseteq Points
  BY <1>1 DEF PollerPoints
<1>5. BootPoints \subseteq Points
  BY <1>1 DEF BootPoints
<1>6. QED
  BY <1>2, <1>3, <1>4, <1>5 DEF PointsOf

\* A thread at rest.
LEMMA NoArgsFit ==
    ASSUME NEW t, NEW p \in PointsOf(t) \cap Resting, t = "worker" => p = "idle"
    PROVE  Fits(t, p, NoArgs) /\ Fits(t, p, NoArgs)'
<1>1. NoArgs \in Args /\ NoArgs.op = 0
  BY RuntimeAssumption DEF NoArgs, Args
<1>2. p \notin WithWorld /\ p \notin WithRow /\ p # "close"
  BY DEF Resting, WithWorld, WithRow
<1>3. QED
  BY <1>1, <1>2 DEF Fits

\* A thread that rests rests where it should.
LEMMA FitsRest ==
    ASSUME NEW t, NEW p, NEW a, Fits(t, p, a), p \in Resting
    PROVE  a = NoArgs /\ a.op = 0
BY DEF Fits, NoArgs

\* What a thread knows of its row stays true.
LEMMA FitsStays ==
    ASSUME RowsStay, RowsTyped, NEW t, NEW p, NEW a, Fits(t, p, a)
    PROVE  Fits(t, p, a)'
<1>1. a.op # 0 => a.op \in 1 .. issued
  BY DEF Fits
<1>2. a.op # 0 => /\ a.op \in 1 .. issued'
                  /\ ops'[a.op].type = ops[a.op].type /\ ops'[a.op].world = ops[a.op].world
  <2>1. 1 .. issued \subseteq 1 .. issued'
    BY RowNumbers DEF RowsStay
  <2>2. QED
    BY <1>1, <2>1 DEF RowsStay
<1>3. QED
  BY <1>2 DEF Fits, Halts

\* Where Resume takes a thread.
Kept(p, a) == IF p \in Resting THEN NoArgs ELSE a

LEMMA Resumed ==
    ASSUME ThreadsOK, NEW t \in Threads, NEW p, NEW a, Resume(t, p, a)
    PROVE  /\ pc'[t] = p /\ at'[t] = Kept(p, a)
           /\ \A s \in Threads \ {t} : pc'[s] = pc[s] /\ at'[s] = at[s]
BY DEF Resume, ThreadsOK, Kept

\* One thread has moved to where it fits.
LEMMA ThreadsMove ==
    ASSUME RowsTyped, RowsStay, ThreadsOK, NEW t \in Threads, NEW p, NEW a, Resume(t, p, a),
           Fits(t, p, Kept(p, a))'
    PROVE  ThreadsOK'
<1> DEFINE b == Kept(p, a)
<1>1. pc' = [pc EXCEPT ![t] = p] /\ at' = [at EXCEPT ![t] = b]
  BY DEF Resume, Kept
<1>2. p \in Points /\ b \in Args
  BY AllPoints DEF Fits
<1>3. pc' \in [Threads -> Points] /\ at' \in [Threads -> Args]
  BY <1>1, <1>2 DEF ThreadsOK
<1>4. ASSUME NEW s \in Threads, s # t PROVE Fits(s, pc[s], at[s])' 
  <2>1. pc'[s] = pc[s] /\ at'[s] = at[s]
    BY <1>1, <1>4 DEF ThreadsOK
  <2>2. Fits(s, pc[s], at[s])
    BY DEF ThreadsOK
  <2> DEFINE q == pc[s]
             x == at[s]
  <2>3. SUFFICES \A y, z : y = pc'[s] /\ z = at'[s] => Fits(s, y, z)'
    OBVIOUS
  <2>4. TAKE y, z
  <2>5. HAVE y = pc'[s] /\ z = at'[s]
  <2>6. Fits(s, y, z)
    BY <2>1, <2>2, <2>5
  <2>7. QED
    BY <2>6, FitsStays
<1>5. Fits(t, pc[t], at[t])'
  <2>1. pc'[t] = p /\ at'[t] = b
    BY <1>1 DEF ThreadsOK
  <2>2. QED
    BY <2>1
<1>6. QED
  BY <1>3, <1>4, <1>5 DEF ThreadsOK

-----------------------------------------------------------------------------
(* One step of one thread.                                                 *)

\* The threads are four kinds.
LEMMA ThreadKinds ==
    ASSUME NEW t \in Threads
    PROVE  /\ t = "worker" \/ t = "boot" \/ t \in Clients \/ t \in Pollers
           /\ PointsOf("worker") = WorkerPoints /\ PointsOf("boot") = BootPoints
           /\ t \in Clients => /\ t \notin {"worker", "boot"} /\ t \notin Pollers
                               /\ PointsOf(t) = ClientPoints /\ KindsOf(t) = {"ConfigEdit"}
           /\ t \in Pollers => /\ t \notin {"worker", "boot"} /\ t \notin Clients
                               /\ PointsOf(t) = PollerPoints /\ KindsOf(t) = {"CrashDetected"}
           /\ KindsOf("worker") = Ops!RuntimeTypes
           /\ KindsOf("boot") = {"CrashDetected", "Start"}
BY RuntimeAssumption DEF Threads, PointsOf, KindsOf

\* The dispatcher goes on with the row and the world it has.
LEMMA WorkerFits ==
    ASSUME NEW p, NEW a, Fits("worker", p, a), p # "idle",
           NEW q \in WorkerPoints \ {"idle", "close"},
           q \in StartPoints => ops[a.op].type = "Start", q \in EndPoints => Halts(a.op)
    PROVE  Fits("worker", q, Kept(q, a))
<1>1. /\ a \in Args /\ a.world \in Worlds /\ a.op # 0 /\ ops[a.op].world = a.world
      /\ a.op \in 1 .. issued /\ ops[a.op].type \in KindsOf("worker")
  BY DEF Fits
<1>2. q \notin Resting
  BY DEF Resting, WorkerPoints, StartPoints, EndPoints
<1>3. q \in PointsOf("worker")
  BY DEF PointsOf
<1>4. QED
  BY <1>1, <1>2, <1>3 DEF Fits, Kept

\* Another thread goes on with the row and the world it has.
LEMMA OtherFits ==
    ASSUME NEW t, t # "worker", NEW p, NEW a, Fits(t, p, a),
           NEW q \in PointsOf(t) \ {"close"},
           q \in WithWorld => a.world \in Worlds, q \in WithRow => a.op # 0
    PROVE  Fits(t, q, Kept(q, a))
<1>1. CASE q \in Resting
  BY <1>1, NoArgsFit DEF Kept
<1>2. CASE q \notin Resting
  <2>1. a \in Args /\ (a.op # 0 => a.op \in 1 .. issued /\ ops[a.op].type \in KindsOf(t))
    BY DEF Fits
  <2>2. QED
    BY <1>2, <2>1 DEF Fits, Kept
<1>3. QED
  BY <1>1, <1>2

\* Where _set_world_state is called, and where its threads go on.
LEMMA StateWriteFits ==
    ASSUME NEW t \in Threads, NEW p \in DOMAIN WorldWrites, NEW a, Fits(t, p, a),
           NEW q \in {WorldWrites[p].next, WorldWrites[p].refused}
    PROVE  Fits(t, q, Kept(q, a)) /\ a.world \in Worlds /\ p \notin Resting
<1>1. p \in {"answer_eula", "require_eula", "error", "queue", "launch", "confirm", "time_out",
             "stopping", "off", "lift_eula", "crash", "reattach"}
  BY WorldWriteTable
<1>2. p \notin Resting
  BY <1>1 DEF Resting
<1>3. p \in PointsOf(t)
  BY DEF Fits
<1>4. CASE t = "worker"
  <2>1. /\ p \in {"require_eula", "error", "queue", "launch", "confirm", "time_out",
                  "stopping", "off"}
    BY <1>1, <1>3, <1>4, ThreadKinds DEF WorkerPoints, StartPoints, EndPoints
  <2>2. /\ q \in {"raise", "launch", "spawn", "complete", "timed_out", "halt"}
        /\ q = "halt" => p = "stopping"
        /\ q \in {"launch", "spawn", "timed_out"} => p \in {"queue", "launch", "time_out"}
    <3>1. CASE p \in {"require_eula", "error", "queue", "launch"}
      BY <3>1, WorldWriteTable
    <3>2. CASE p \in {"confirm", "time_out", "stopping", "off"}
      BY <3>2, WorldWriteTable
    <3>3. QED
      BY <2>1, <3>1, <3>2
  <2>3. /\ p = "stopping" => Halts(a.op)
        /\ p \in {"queue", "launch", "time_out"} => ops[a.op].type = "Start"
        /\ p # "idle"
    BY <1>4, <2>1 DEF Fits, StartPoints, EndPoints
  <2>4. /\ q \in WorkerPoints \ {"idle", "close"}
        /\ q \in StartPoints => q \in {"launch", "spawn", "timed_out"}
        /\ q \in EndPoints => q = "halt"
    BY <2>2 DEF WorkerPoints, StartPoints, EndPoints
  <2>5. Fits("worker", p, a)
    BY <1>4
  <2>6. /\ q \in StartPoints => ops[a.op].type = "Start"
        /\ q \in EndPoints => Halts(a.op)
    BY <2>2, <2>3, <2>4
  <2>7. Fits("worker", q, Kept(q, a))
    BY <2>3, <2>4, <2>5, <2>6, WorkerFits
  <2>8. a.world \in Worlds
    BY <2>3, <2>5 DEF Fits
  <2>9. QED
    BY <1>2, <1>4, <2>7, <2>8
<1>5. CASE t = "boot"
  <2>1. p \in {"crash", "reattach"}
    BY <1>1, <1>3, <1>5, ThreadKinds DEF BootPoints
  <2>2. q \in {"record", "abort", "scan"}
    BY <2>1, WorldWriteTable
  <2>3. a.world \in Worlds
    BY <2>1 DEF Fits, WithWorld
  <2>4. q \in PointsOf(t) \ {"close"} /\ q \notin WithRow
    BY <1>5, <2>2, ThreadKinds DEF BootPoints, WithRow
  <2>5. QED
    BY <1>2, <1>5, <2>3, <2>4, OtherFits
<1>6. CASE t \in Pollers
  <2>1. p = "crash"
    BY <1>1, <1>3, <1>6, ThreadKinds DEF PollerPoints
  <2>2. q \in {"record", "abort"}
    BY <2>1, WorldWriteTable
  <2>3. a.world \in Worlds
    BY <2>1 DEF Fits, WithWorld
  <2>4. q \in PointsOf(t) \ {"close"} /\ q \notin WithRow /\ t # "worker"
    BY <1>6, <2>2, ThreadKinds DEF PollerPoints, WithRow
  <2>5. QED
    BY <1>2, <2>3, <2>4, OtherFits
<1>7. CASE t \in Clients
  <2>1. p \in {"answer_eula", "lift_eula"}
    BY <1>1, <1>3, <1>7, ThreadKinds DEF ClientPoints
  <2>2. q \in {"idle", "complete", "raise"} /\ (q # "idle" => p = "lift_eula")
    BY <2>1, WorldWriteTable
  <2>3. a.world \in Worlds /\ (p = "lift_eula" => a.op # 0)
    BY <2>1 DEF Fits, WithWorld, WithRow
  <2>4. q \in PointsOf(t) \ {"close"} /\ t # "worker" /\ (q \in WithRow => q # "idle")
    BY <1>7, <2>2, ThreadKinds DEF ClientPoints, WithRow
  <2>5. QED
    BY <1>2, <2>2, <2>3, <2>4, OtherFits
<1>8. QED
  BY <1>4, <1>5, <1>6, <1>7, ThreadKinds

\* Where transition is called, and where its threads go on.
LEMMA StatusWriteFits ==
    ASSUME NEW t \in Threads, NEW p \in DOMAIN StatusWrites, NEW a, Fits(t, p, a),
           NEW q \in {StatusWrites[p].next, StatusWrites[p].refused}
    PROVE  /\ Fits(t, q, Kept(q, a)) /\ a.op \in 1 .. issued /\ p \notin Resting
           /\ StatusWrites[p].to \in Ops!Persisted
<1>1. p \in {"validate", "cancel", "fail_eula", "fail_start", "timed_out", "run", "complete",
             "raise", "edit_run", "observe", "observed", "interrupted"}
  BY StatusWriteTable
<1>2. p \notin Resting
  BY <1>1 DEF Resting
<1>3. p \in PointsOf(t)
  BY DEF Fits
<1>0. StatusWrites[p].to \in Ops!Persisted
  <2>1. CASE p \in {"validate", "run", "edit_run", "observe"}
    BY <2>1, StatusWriteTable DEF Ops!Persisted
  <2>2. CASE p \in {"cancel", "complete", "observed", "timed_out"}
    BY <2>2, StatusWriteTable DEF Ops!Persisted, Ops!Terminal
  <2>3. CASE p \in {"fail_eula", "fail_start", "raise", "interrupted"}
    BY <2>3, StatusWriteTable DEF Ops!Persisted, Ops!Terminal
  <2>4. QED
    BY <1>1, <2>1, <2>2, <2>3
<1>4. CASE t = "worker"
  <2>1. /\ p \in {"validate", "cancel", "fail_eula", "fail_start", "timed_out", "run",
                  "complete", "raise"}
    BY <1>1, <1>3, <1>4, ThreadKinds DEF WorkerPoints, StartPoints, EndPoints
  <2>2. /\ q \in {"idle", "recheck", "require_eula", "error", "stopping", "raise"}
        /\ q = "stopping" => p = "run"
        /\ q \in {"recheck", "require_eula", "error"} =>
              p \in {"validate", "fail_eula", "fail_start"}
    <3>1. CASE p \in {"validate", "cancel", "fail_eula", "fail_start"}
      BY <3>1, StatusWriteTable
    <3>2. CASE p \in {"timed_out", "run", "complete", "raise"}
      BY <3>2, StatusWriteTable
    <3>3. QED
      BY <2>1, <3>1, <3>2
  <2>3. /\ p = "run" => Halts(a.op)
        /\ p \in {"validate", "fail_eula", "fail_start"} => ops[a.op].type = "Start"
        /\ p # "idle" /\ a.op \in 1 .. issued
    BY <1>4, <2>1 DEF Fits, StartPoints, EndPoints
  <2>4. /\ q # "idle" => q \in WorkerPoints \ {"idle", "close"}
        /\ q \in StartPoints => q \in {"recheck", "require_eula", "error"}
        /\ q \in EndPoints => q = "stopping"
    BY <2>2 DEF WorkerPoints, StartPoints, EndPoints
  <2>5. Fits("worker", p, a)
    BY <1>4
  <2>6. /\ q \in StartPoints => ops[a.op].type = "Start"
        /\ q \in EndPoints => Halts(a.op)
    BY <2>2, <2>3, <2>4
  <2>7. CASE q # "idle"
    <3>1. Fits("worker", q, Kept(q, a))
      BY <2>3, <2>4, <2>5, <2>6, <2>7, WorkerFits
    <3>2. QED
      BY <1>0, <1>2, <1>4, <2>3, <3>1
  <2>8. CASE q = "idle"
    <3>1. q \in PointsOf(t) \cap Resting
      BY <1>4, <2>8, ThreadKinds DEF WorkerPoints, Resting
    <3>2. Fits(t, q, NoArgs) /\ Kept(q, a) = NoArgs
      BY <2>8, <3>1, NoArgsFit DEF Kept
    <3>3. QED
      BY <1>0, <1>2, <2>3, <3>2
  <2>9. QED
    BY <2>7, <2>8
<1>5. CASE t = "boot"
  <2>1. p \in {"observe", "observed", "interrupted"}
    BY <1>1, <1>3, <1>5, ThreadKinds DEF BootPoints
  <2>2. q \in {"observed", "abort", "scan"}
    BY <2>1, StatusWriteTable
  <2>3. a.op # 0 /\ a.op \in 1 .. issued
    BY <2>1 DEF Fits, WithRow
  <2>4. q \in PointsOf(t) \ {"close"} /\ q \notin WithWorld
    BY <1>5, <2>2, ThreadKinds DEF BootPoints, WithWorld
  <2>5. QED
    BY <1>0, <1>2, <1>5, <2>3, <2>4, OtherFits
<1>6. CASE t \in Pollers
  <2>1. p \in {"observe", "observed"}
    BY <1>1, <1>3, <1>6, ThreadKinds DEF PollerPoints
  <2>2. q \in {"observed", "abort", "scan"}
    BY <2>1, StatusWriteTable
  <2>3. a.op # 0 /\ a.op \in 1 .. issued
    BY <2>1 DEF Fits, WithRow
  <2>4. q \in PointsOf(t) \ {"close"} /\ q \notin WithWorld /\ t # "worker"
    BY <1>6, <2>2, ThreadKinds DEF PollerPoints, WithWorld
  <2>5. QED
    BY <1>0, <1>2, <2>3, <2>4, OtherFits
<1>7. CASE t \in Clients
  <2>1. p \in {"complete", "raise", "edit_run"}
    BY <1>1, <1>3, <1>7, ThreadKinds DEF ClientPoints
  <2>2. q \in {"idle", "raise", "accept"} /\ (q = "accept" => p = "edit_run")
    BY <2>1, StatusWriteTable
  <2>3. a.op # 0 /\ a.op \in 1 .. issued /\ (p = "edit_run" => a.world \in Worlds)
    BY <2>1 DEF Fits, WithRow, WithWorld
  <2>4. /\ q \in PointsOf(t) \ {"close"} /\ t # "worker" /\ (q \in WithWorld => q = "accept")
    BY <1>7, <2>2, ThreadKinds DEF ClientPoints, WithWorld
  <2>5. QED
    BY <1>0, <1>2, <2>2, <2>3, <2>4, OtherFits
<1>8. QED
  BY <1>4, <1>5, <1>6, <1>7, ThreadKinds

-----------------------------------------------------------------------------
(* Every step keeps the types.                                             *)

RestTyped ==
    /\ accepted \subseteq Worlds /\ stray \subseteq Worlds /\ attached \subseteq Worlds
    /\ session \in [Worlds -> {"none", "open"} \cup EndReasons]
    /\ proc \in [Worlds -> Live \cup {"none", "dead"}]
    /\ crashes \in 0 .. MaxCrashes

Base == RowsTyped /\ StatesTyped /\ ThreadsOK /\ BootsAlone /\ RestTyped

\* The threads a step may be made by.
Runs(t) == (t = "boot" => ~Up) /\ (t # "boot" => Up)

LEMMA RunsIfBusy ==
    ASSUME BootsAlone, NEW t \in Threads, t # "boot", pc[t] # "idle"
    PROVE  Runs(t)
BY DEF BootsAlone, Runs

\* One thread moves, whatever it does to the tables.
LEMMA BaseMove ==
    ASSUME Base, NEW t \in Threads, NEW p, NEW a, Resume(t, p, a), Runs(t),
           RowsStep, Fits(t, p, Kept(p, a))', StatesTyped', RestTyped'
    PROVE  Base'
<1>1. RowsTyped' /\ RowsStay
  BY RowsTypedStep DEF Base
<1>2. ThreadsOK'
  BY <1>1, ThreadsMove DEF Base
<1>3. /\ "boot" \in Threads
      /\ \A s \in Threads \ {t} : pc'[s] = pc[s]
  BY Resumed DEF Base, Threads
<1>4. BootsAlone'
  BY <1>3 DEF Base, BootsAlone, Runs, Up
<1>5. QED
  BY <1>1, <1>2, <1>4 DEF Base

\* One thread moves and writes nothing.
LEMMA QuietMove ==
    ASSUME Base, NEW t \in Threads, NEW p, NEW a, Resume(t, p, a), Runs(t),
           UNCHANGED <<rows, state, accepted, servers, crashes>>, Fits(t, p, Kept(p, a))
    PROVE  Base' /\ RowsStep
<1>1. RowsStep
  BY DEF RowsStep
<1>2. RowsStay
  BY <1>1, RowsTypedStep DEF Base
<1>3. Fits(t, p, Kept(p, a))'
  BY <1>2, FitsStays DEF Base
<1>4. StatesTyped' /\ RestTyped'
  BY DEF Base, StatesTyped, RestTyped, servers
<1>5. QED
  BY <1>1, <1>3, <1>4, BaseMove

\* The types of the local variables.
LEMMA ArgsMade ==
    /\ NoArgs \in Args
    /\ \A a \in Args, w \in Worlds : [a EXCEPT !.world = w] \in Args
    /\ \A a \in Args, i \in 0 .. MaxOps : [a EXCEPT !.op = i] \in Args
    /\ \A a \in Args, r \in EndReasons : [a EXCEPT !.reason = r] \in Args
    /\ \A a \in Args, S \in SUBSET Worlds : [a EXCEPT !.todo = S] \in Args
<1>1. NoArgs \in Args
  BY RuntimeAssumption DEF NoArgs, Args
<1>2. QED
  BY <1>1 DEF Args

\* One of them is set, the others stay.
LEMMA ArgSet ==
    ASSUME NEW a \in Args
    PROVE  /\ \A w \in Worlds : /\ [a EXCEPT !.world = w].world = w
                              /\ [a EXCEPT !.world = w].op = a.op
                              /\ [a EXCEPT !.world = w].reason = a.reason
           /\ \A i \in 0 .. MaxOps : /\ [a EXCEPT !.op = i].op = i
                                   /\ [a EXCEPT !.op = i].world = a.world
                                   /\ [a EXCEPT !.op = i].todo = a.todo
           /\ \A r \in EndReasons : /\ [a EXCEPT !.reason = r].reason = r
                                  /\ [a EXCEPT !.reason = r].world = a.world
                                  /\ [a EXCEPT !.reason = r].op = a.op
                                  /\ [a EXCEPT !.reason = r].todo = a.todo
           /\ \A S \in SUBSET Worlds : /\ [a EXCEPT !.todo = S].todo = S
                                     /\ [a EXCEPT !.todo = S].world = a.world
                                     /\ [a EXCEPT !.todo = S].op = a.op
                                     /\ [a EXCEPT !.todo = S].reason = a.reason
BY DEF Args

\* The local variables that name a world and a row.
LEMMA ArgsOfRow ==
    ASSUME NEW w \in Worlds, NEW i \in 0 .. MaxOps
    PROVE  /\ [NoArgs EXCEPT !.world = w, !.op = i] \in Args
           /\ [NoArgs EXCEPT !.world = w, !.op = i].world = w
           /\ [NoArgs EXCEPT !.world = w, !.op = i].op = i
           /\ [NoArgs EXCEPT !.world = w, !.op = i].todo = {}
<1> DEFINE b == [NoArgs EXCEPT !.world = w]
<1>1. NoArgs \in Args
  BY ArgsMade
<1>2. b \in Args
  BY <1>1, ArgsMade
<1>3. b.world = w /\ b.todo = {}
  BY <1>1 DEF Args, NoArgs
<1> HIDE DEF b
<1>4. /\ [b EXCEPT !.op = i] \in Args /\ [b EXCEPT !.op = i].world = w
      /\ [b EXCEPT !.op = i].op = i /\ [b EXCEPT !.op = i].todo = {}
  BY <1>2, <1>3, ArgsMade, ArgSet
<1>5. QED
  BY <1>4 DEF b

\* The calls every thread makes.
LEMMA StoreStep ==
    ASSUME Base, NEW t \in Threads, Store(t)
    PROVE  Base' /\ RowsStep
<1>0. /\ pc \in [Threads -> Points] /\ at \in [Threads -> Args] /\ Fits(t, pc[t], at[t])
      /\ at[t] \in Args
  BY DEF Base, ThreadsOK
<1>1. ASSUME pc[t] \notin Resting PROVE Runs(t)
  BY <1>1, RunsIfBusy DEF Base, Runs, Up, Resting
<1>2. CASE SetWorldState(t)
  <2>1. pc[t] \in DOMAIN WorldWrites
    BY <1>2 DEF SetWorldState
  <2>2. /\ at[t].world \in Worlds /\ pc[t] \notin Resting
        /\ \A q \in {WorldWrites[pc[t]].next, WorldWrites[pc[t]].refused} :
              Fits(t, q, Kept(q, at[t]))
    BY <1>0, <2>1, StateWriteFits
  <2>3. /\ \/ UNCHANGED state /\ Goto(t, WorldWrites[pc[t]].refused)
           \/ /\ state' = [state EXCEPT ![at[t].world] = WorldWrites[pc[t]].to]
              /\ Goto(t, WorldWrites[pc[t]].next)
        /\ UNCHANGED <<rows, accepted, servers, crashes>>
    BY <1>2, <2>2, StateWrite DEF Base
  <2>4. WorldWrites[pc[t]].to \in RuntimeStates
    <3>1. pc[t] \in {"answer_eula", "require_eula", "error", "queue", "launch", "confirm",
                     "time_out", "stopping", "off", "lift_eula", "crash", "reattach"}
      BY <2>1, WorldWriteTable
    <3>2. WorldWrites[pc[t]].to \in {"off", "queued", "starting", "running", "stopping",
                                     "crashed", "error", "eula_required"}
      BY <3>1, WorldWriteTable
    <3>3. QED
      BY <3>2 DEF RuntimeStates, Life!States
  <2>5. RowsStep /\ RowsStay
    BY <2>3, RowsTypedStep DEF RowsStep, Base
  <2>6. StatesTyped'
    BY <2>3, <2>4 DEF Base, StatesTyped
  <2>7. RestTyped'
    BY <2>3 DEF Base, RestTyped, servers
  <2>8. PICK q \in {WorldWrites[pc[t]].next, WorldWrites[pc[t]].refused} : Resume(t, q, at[t])
    BY <2>3 DEF Goto
  <2> DEFINE a == at[t]
  <2>9. ASSUME NEW x, x = at[t] PROVE Fits(t, q, Kept(q, x))'
    BY <2>2, <2>5, <2>9, FitsStays DEF Base
  <2>10. ASSUME NEW x, x = at[t] PROVE Base'
    BY <1>1, <2>2, <2>5, <2>6, <2>7, <2>8, <2>9, <2>10, BaseMove
  <2>11. QED
    BY <2>5, <2>10
<1>3. CASE SetStatus(t)
  <2>1. pc[t] \in DOMAIN StatusWrites
    BY <1>3 DEF SetStatus
  <2>2. /\ at[t].op \in 1 .. issued /\ pc[t] \notin Resting
        /\ StatusWrites[pc[t]].to \in Ops!Persisted
        /\ \A q \in {StatusWrites[pc[t]].next, StatusWrites[pc[t]].refused} :
              Fits(t, q, Kept(q, at[t]))
    BY <1>0, <2>1, StatusWriteFits
  <2>3. /\ \/ UNCHANGED rows /\ Goto(t, StatusWrites[pc[t]].refused)
           \/ /\ Ops!Transition(at[t].op, StatusWrites[pc[t]].to)
              /\ Goto(t, StatusWrites[pc[t]].next)
        /\ UNCHANGED <<state, accepted, servers, crashes>>
    BY <1>3 DEF SetStatus
  <2>4. RowsStep
    BY <2>2, <2>3 DEF RowsStep
  <2>5. RowsStay
    BY <2>4, RowsTypedStep DEF Base
  <2>6. StatesTyped' /\ RestTyped'
    BY <2>3 DEF Base, StatesTyped, RestTyped, servers
  <2>7. PICK q \in {StatusWrites[pc[t]].next, StatusWrites[pc[t]].refused} :
           Resume(t, q, at[t])
    BY <2>3 DEF Goto
  <2>8. ASSUME NEW x, x = at[t] PROVE Fits(t, q, Kept(q, x))'
    BY <2>2, <2>5, <2>8, FitsStays DEF Base
  <2>9. ASSUME NEW x, x = at[t] PROVE Base'
    BY <1>1, <2>2, <2>4, <2>6, <2>7, <2>8, <2>9, BaseMove
  <2>10. QED
    BY <2>4, <2>9
<1>4. CASE CloseSession(t)
  <2> DEFINE q == CASE t = "boot"    -> "resolve"
                    [] t \in Pollers -> "crash"
                    [] t = "worker"  ->
                          IF ops[at[t].op].type = "Start" THEN "time_out" ELSE "off"
  <2>1. /\ pc[t] = "close" /\ Resume(t, q, at[t])
        /\ session' = [session EXCEPT ![at[t].world] =
                          IF session[at[t].world] = "open" THEN at[t].reason
                          ELSE session[at[t].world]]
        /\ UNCHANGED <<rows, state, accepted, proc, stray, attached, crashes>>
    BY <1>4 DEF CloseSession, Goto
  <2>2. /\ at[t].reason \in EndReasons /\ at[t].world \in Worlds
        /\ pc[t] \notin Resting /\ pc[t] # "idle" /\ pc[t] \in PointsOf(t)
    BY <1>0, <2>1 DEF Fits, WithWorld, Resting
  <2>0. /\ t = "boot" => q = "resolve"
        /\ t \in Pollers => q = "crash" /\ t # "worker"
        /\ t = "worker" => q = IF ops[at[t].op].type = "Start" THEN "time_out" ELSE "off"
    <3>1. t \in Pollers => t # "boot" /\ t # "worker"
      BY RuntimeAssumption
    <3>2. t = "worker" => t # "boot" /\ t \notin Pollers
      BY RuntimeAssumption
    <3>3. QED
      BY <3>1, <3>2
  <2>3. t \notin Clients
    <3>1. "close" \notin ClientPoints
      BY DEF ClientPoints
    <3>2. QED
      BY <2>1, <2>2, <3>1, ThreadKinds
  <2> HIDE DEF q
  <2>4. Fits(t, q, Kept(q, at[t]))
    <3>1. CASE t = "worker"
      <4>1. q = IF ops[at[t].op].type = "Start" THEN "time_out" ELSE "off"
        BY <2>0, <3>1
      <4>2. ops[at[t].op].type \in Ops!RuntimeTypes
        BY <1>0, <2>2, <3>1, ThreadKinds DEF Fits
      <4>3. /\ q \in WorkerPoints \ {"idle", "close"}
            /\ q \in StartPoints => ops[at[t].op].type = "Start"
            /\ q \in EndPoints => Halts(at[t].op)
        BY <4>1, <4>2 DEF WorkerPoints, StartPoints, EndPoints, Halts, Ops!RuntimeTypes
      <4>4. Fits("worker", pc[t], at[t])
        BY <1>0, <3>1
      <4>5. QED
        BY <2>2, <3>1, <4>3, <4>4, WorkerFits
    <3>2. CASE t = "boot"
      <4>1. q = "resolve"
        BY <2>0, <3>2
      <4>2. q \in PointsOf(t) \ {"close"} /\ q \notin WithRow
        BY <3>2, <4>1, ThreadKinds DEF BootPoints, WithRow
      <4>3. QED
        BY <1>0, <2>2, <3>2, <4>2, OtherFits
    <3>3. CASE t \in Pollers
      <4>1. q = "crash" /\ t # "worker"
        BY <2>0, <3>3
      <4>2. q \in PointsOf(t) \ {"close"} /\ q \notin WithRow
        BY <3>3, <4>1, ThreadKinds DEF PollerPoints, WithRow
      <4>3. QED
        BY <1>0, <2>2, <4>1, <4>2, OtherFits
    <3>4. QED
      BY <2>3, <3>1, <3>2, <3>3, ThreadKinds
  <2>5. RowsStep /\ RowsStay
    BY <2>1, RowsTypedStep DEF RowsStep, Base
  <2>6. StatesTyped'
    BY <2>1 DEF Base, StatesTyped
  <2>7. RestTyped'
    <3>1. session' \in [Worlds -> {"none", "open"} \cup EndReasons]
      BY <2>1, <2>2 DEF Base, RestTyped
    <3>2. QED
      BY <2>1, <3>1 DEF Base, RestTyped
  <2>8. ASSUME NEW x, x = at[t], NEW y, y = q PROVE Fits(t, y, Kept(y, x))'
    BY <2>4, <2>5, <2>8, FitsStays DEF Base
  <2>9. ASSUME NEW x, x = at[t], NEW y, y = q PROVE Base'
    BY <1>1, <2>1, <2>2, <2>5, <2>6, <2>7, <2>8, <2>9, BaseMove
  <2>10. QED
    BY <2>5, <2>9
<1>5. QED
  BY <1>2, <1>3, <1>4 DEF Store

\* What everything here rests on, unfolded once.
LEMMA BaseFacts ==
    ASSUME Base, NEW t \in Threads
    PROVE  /\ Fits(t, pc[t], at[t]) /\ at[t] \in Args /\ pc[t] \in PointsOf(t)
           /\ RowsTyped /\ StatesTyped /\ ThreadsOK /\ BootsAlone
           /\ t # "boot" /\ pc[t] # "idle" => Runs(t)
BY RunsIfBusy DEF Base, ThreadsOK, Fits

\* Only servers, files and the EULA change.
LEMMA OutsideStep ==
    ASSUME Base, UNCHANGED <<rows, state, pc, at, crashes>>, RestTyped'
    PROVE  Base' /\ RowsStep
<1>1. RowsStep
  BY DEF RowsStep
<1>2. StatesTyped' /\ BootsAlone'
  BY DEF Base, StatesTyped, BootsAlone, Up
<1>3. UNCHANGED <<ops, issued, audits, claims, pc, at>>
  BY DEF rows
<1>4. RowsTyped' /\ ThreadsOK'
  BY <1>3 DEF Base, RowsTyped, Ops!TypeOK, ThreadsOK, Fits, Halts
<1>5. QED
  BY <1>1, <1>2, <1>4 DEF Base

\* The requests of the clients.
LEMMA RequestStep ==
    ASSUME Base, Request
    PROVE  Base' /\ RowsStep
<1>1. ASSUME NEW c \in Clients, NEW w \in Worlds, NEW p \in {"answer_eula", "enqueue", "edit"},
             Up, Resume(c, p, [NoArgs EXCEPT !.world = w]),
             UNCHANGED <<rows, state, accepted, servers, crashes>>
      PROVE  Base' /\ RowsStep
  <2> DEFINE a == [NoArgs EXCEPT !.world = w]
  <2>1. a \in Args /\ a.world = w /\ a.op = 0
    BY ArgsMade DEF NoArgs
  <2>2. c \in Threads /\ c # "worker" /\ c # "boot" /\ PointsOf(c) = ClientPoints
    BY ThreadKinds DEF Threads
  <2>3. p \in ClientPoints /\ p \notin Resting /\ p \notin WithRow /\ p # "close"
    BY DEF ClientPoints, Resting, WithRow
  <2> HIDE DEF a
  <2>4. Fits(c, p, Kept(p, a))
    BY <2>1, <2>2, <2>3 DEF Fits, Kept
  <2>5. Runs(c)
    BY <1>1, <2>2 DEF Runs
  <2>6. QED
    BY <1>1, <2>2, <2>4, <2>5, QuietMove DEF a
<1>2. ASSUME NEW c \in Clients, NEW w \in Worlds, RequestStart(c, w)
      PROVE  Base' /\ RowsStep
  BY <1>1, <1>2 DEF RequestStart
<1>3. ASSUME NEW c \in Clients, NEW w \in Worlds, RequestAcceptance(c, w)
      PROVE  Base' /\ RowsStep
  BY <1>1, <1>3 DEF RequestAcceptance
<1>4. ASSUME NEW w \in Worlds, NEW type \in {"Stop", "Kill"}, RequestEnd(w, type)
      PROVE  Base' /\ RowsStep
  <2>1. type \in RowKinds /\ Inserts(type, w)
    BY <1>4 DEF RequestEnd, RowKinds, Inserts
  <2>2. RowsStep
    BY <2>1 DEF RowsStep
  <2>3. RowsTyped' /\ RowsStay
    BY <2>2, RowsTypedStep DEF Base
  <2>4. UNCHANGED <<state, accepted, servers, pc, at, crashes>>
    BY <1>4 DEF RequestEnd
  <2>5. StatesTyped' /\ BootsAlone' /\ RestTyped'
    BY <2>4 DEF Base, StatesTyped, BootsAlone, Up, RestTyped, servers
  <2>6. ASSUME NEW t \in Threads PROVE Fits(t, pc[t], at[t])'
    <3>1. SUFFICES \A p, a : p = pc'[t] /\ a = at'[t] => Fits(t, p, a)'
      OBVIOUS
    <3>2. TAKE p, a
    <3>3. HAVE p = pc'[t] /\ a = at'[t]
    <3>4. Fits(t, p, a)
      BY <2>4, <3>3, BaseFacts
    <3>5. QED
      BY <2>3, <3>4, FitsStays DEF Base
  <2>7. ThreadsOK'
    BY <2>4, <2>6 DEF Base, ThreadsOK
  <2>8. QED
    BY <2>2, <2>3, <2>5, <2>7 DEF Base
<1>5. QED
  BY <1>2, <1>3, <1>4 DEF Request

\* create_with_replay, by a thread that goes on with the new row or gives up.
LEMMA SubmitStep ==
    ASSUME Base, NEW t \in Threads, t # "worker", Runs(t), NEW type \in KindsOf(t) \cup {"Start"},
           type \in RowKinds,
           NEW bound, NEW next \in PointsOf(t) \ {"close"}, "idle" \in PointsOf(t),
           at[t].world \in Worlds, next \notin Resting => type \in KindsOf(t),
           Submit(t, type, bound, next), UNCHANGED <<state, accepted, servers, crashes>>
    PROVE  Base' /\ RowsStep
<1> DEFINE w == at[t].world
           a == [at[t] EXCEPT !.op = issued + 1]
<1>1. StatesTyped' /\ RestTyped'
  BY DEF Base, StatesTyped, RestTyped, servers
<1>2. CASE Inserts(type, w) /\ Resume(t, next, a)
  <2>1. RowsStep
    BY <1>2 DEF RowsStep
  <2>2. RowsTyped' /\ RowsStay
    BY <2>1, RowsTypedStep DEF Base
  <2>3. /\ issued' = issued + 1 /\ issued + 1 \in 1 .. MaxOps /\ issued + 1 \in 1 .. issued'
        /\ ops'[issued + 1].type = type
    BY <1>2, InsertStep, RowNumbers DEF Base
  <2>4. a \in Args /\ a.op = issued + 1 /\ a.world \in Worlds
    BY <2>3, BaseFacts, ArgsMade DEF Args
  <2>5. ASSUME NEW x, x = a PROVE Fits(t, next, Kept(next, x))'
    <3>1. CASE next \in Resting
      BY <3>1, NoArgsFit DEF Kept
    <3>2. CASE next \notin Resting
      <4>1. x \in Args /\ x.op # 0 /\ x.op \in 1 .. issued' /\ x.world \in Worlds
        BY <2>3, <2>4, <2>5
      <4>2. ops'[x.op].type \in KindsOf(t)
        BY <2>3, <2>4, <2>5, <3>2
      <4>3. QED
        BY <3>2, <4>1, <4>2 DEF Fits, Kept
    <3>3. QED
      BY <3>1, <3>2
  <2> HIDE DEF a
  <2>6. ASSUME NEW x, x = a PROVE Base'
    BY <1>1, <1>2, <2>1, <2>5, <2>6, BaseMove
  <2>7. QED
    BY <2>1, <2>6
<1>3. CASE UNCHANGED rows /\ Goto(t, "idle")
  <2>1. Resume(t, "idle", at[t]) /\ Kept("idle", at[t]) = NoArgs
    BY <1>3 DEF Goto, Kept, Resting
  <2>2. Fits(t, "idle", NoArgs)
    BY NoArgsFit DEF Resting
  <2>3. QED
    BY <1>3, <2>1, <2>2, QuietMove
<1>4. QED
  BY <1>2, <1>3 DEF Submit, Inserts

\* A request thread creates its row, or goes on with the acceptance of the EULA.
LEMMA ClientStep ==
    ASSUME Base, NEW c \in Clients, Client(c)
    PROVE  Base' /\ RowsStep
<1>1. /\ c \in Threads /\ c # "worker" /\ c # "boot"
      /\ PointsOf(c) = ClientPoints /\ KindsOf(c) = {"ConfigEdit"}
  BY ThreadKinds DEF Threads
<1>2. pc[c] # "idle" => Runs(c)
  BY <1>1, BaseFacts
<1>3. "idle" \in ClientPoints /\ "edit_run" \in ClientPoints /\ "lift_eula" \in ClientPoints
  BY DEF ClientPoints
<1>4. CASE EnqueueStart(c)
  <2>1. /\ pc[c] = "enqueue" /\ Submit(c, "Start", MaxRequests, "idle")
        /\ UNCHANGED <<state, accepted, servers, crashes>>
    BY <1>4 DEF EnqueueStart
  <2>2. at[c].world \in Worlds
    BY <1>1, <2>1, BaseFacts DEF Fits, WithWorld
  <2>3. "Start" \in RowKinds /\ "idle" \in Resting
    BY DEF RowKinds, Resting
  <2>4. QED
    BY <1>1, <1>2, <1>3, <2>1, <2>2, <2>3, SubmitStep
<1>5. CASE EnqueueAcceptance(c)
  <2>1. /\ pc[c] = "edit" /\ Submit(c, "ConfigEdit", MaxRequests, "edit_run")
        /\ UNCHANGED <<state, accepted, servers, crashes>>
    BY <1>5 DEF EnqueueAcceptance
  <2>2. at[c].world \in Worlds
    BY <1>1, <2>1, BaseFacts DEF Fits, WithWorld
  <2>3. "ConfigEdit" \in RowKinds
    BY DEF RowKinds
  <2>4. QED
    BY <1>1, <1>2, <1>3, <2>1, <2>2, <2>3, SubmitStep
<1>6. CASE AcceptEula(c)
  <2>1. /\ pc[c] = "accept" /\ Resume(c, "lift_eula", at[c])
        /\ accepted' = accepted \cup {at[c].world}
        /\ UNCHANGED <<rows, state, servers, crashes>>
    BY <1>6 DEF AcceptEula, Goto
  <2>2. at[c].world \in Worlds /\ at[c].op # 0
    BY <1>1, <2>1, BaseFacts DEF Fits, WithWorld, WithRow
  <2>3. "lift_eula" \in PointsOf(c) \ {"close"}
    BY <1>1, <1>3
  <2>4. Fits(c, "lift_eula", Kept("lift_eula", at[c]))
    BY <1>1, <2>2, <2>3, OtherFits, BaseFacts
  <2>5. RowsStep /\ RowsStay
    BY <2>1, RowsTypedStep DEF RowsStep, Base
  <2>6. StatesTyped' /\ RestTyped'
    BY <2>1, <2>2 DEF Base, StatesTyped, RestTyped, servers
  <2>7. ASSUME NEW x, x = at[c] PROVE Fits(c, "lift_eula", Kept("lift_eula", x))'
    BY <2>4, <2>5, <2>7, FitsStays DEF Base
  <2>8. ASSUME NEW x, x = at[c] PROVE Base'
    BY <1>1, <1>2, <2>1, <2>5, <2>6, <2>7, <2>8, BaseMove
  <2>9. QED
    BY <2>5, <2>8
<1>7. CASE Store(c)
  BY <1>1, <1>7, StoreStep
<1>8. QED
  BY <1>4, <1>5, <1>6, <1>7 DEF Client

\* The dispatcher moves and writes no row and no state.
LEMMA WorkerMove ==
    ASSUME Base, pc["worker"] # "idle", NEW p \in WorkerPoints \ {"idle", "close"},
           Resume("worker", p, at["worker"]),
           p \in StartPoints => ops[at["worker"].op].type = "Start",
           p \in EndPoints => Halts(at["worker"].op),
           UNCHANGED <<rows, state, accepted, crashes>>, RestTyped'
    PROVE  Base' /\ RowsStep
<1>1. "worker" \in Threads /\ Runs("worker") /\ Fits("worker", pc["worker"], at["worker"])
  BY BaseFacts DEF Threads
<1>2. Fits("worker", p, Kept(p, at["worker"]))
  BY <1>1, WorkerFits
<1>3. RowsStep /\ RowsStay
  BY RowsTypedStep DEF RowsStep, Base
<1>4. StatesTyped'
  BY DEF Base, StatesTyped
<1>5. ASSUME NEW x, x = at["worker"] PROVE Fits("worker", p, Kept(p, x))'
  BY <1>2, <1>3, <1>5, FitsStays DEF Base
<1>6. ASSUME NEW x, x = at["worker"] PROVE Base'
  BY <1>1, <1>3, <1>4, <1>5, <1>6, BaseMove
<1>7. QED
  BY <1>3, <1>6

\* It is to close a session for some reason.
LEMMA WorkerCloses ==
    ASSUME Base, pc["worker"] # "idle", NEW r \in EndReasons,
           Resume("worker", "close", [at["worker"] EXCEPT !.reason = r]),
           ops[at["worker"].op].type = "Start" => r = "crashed",
           UNCHANGED <<rows, state, accepted, crashes>>, RestTyped'
    PROVE  Base' /\ RowsStep
<1>1. "worker" \in Threads /\ Runs("worker") /\ Fits("worker", pc["worker"], at["worker"])
  BY BaseFacts DEF Threads
<1> DEFINE a == [at["worker"] EXCEPT !.reason = r]
<1>2. /\ at["worker"] \in Args /\ at["worker"].world \in Worlds /\ at["worker"].op # 0
      /\ ops[at["worker"].op].world = at["worker"].world
      /\ at["worker"].op \in 1 .. issued
      /\ ops[at["worker"].op].type \in KindsOf("worker")
  BY <1>1 DEF Fits
<1>3. /\ a \in Args /\ a.world = at["worker"].world /\ a.op = at["worker"].op /\ a.reason = r
  BY <1>2, ArgsMade DEF Args
<1> HIDE DEF a
<1>4. /\ "close" \in PointsOf("worker") /\ "close" \notin Resting /\ "close" \notin WithRow
      /\ "close" \notin StartPoints /\ "close" \notin EndPoints /\ "worker" \notin Pollers
  BY RuntimeAssumption DEF PointsOf, WorkerPoints, Resting, WithRow, StartPoints, EndPoints
<1>5. Fits("worker", "close", Kept("close", a))
  BY <1>2, <1>3, <1>4 DEF Fits, Kept
<1>6. RowsStep /\ RowsStay
  BY RowsTypedStep DEF RowsStep, Base
<1>7. StatesTyped'
  BY DEF Base, StatesTyped
<1>8. ASSUME NEW x, x = a PROVE Fits("worker", "close", Kept("close", x))'
  BY <1>5, <1>6, <1>8, FitsStays DEF Base
<1>9. ASSUME NEW x, x = a PROVE Base'
  BY <1>1, <1>6, <1>7, <1>8, <1>9, BaseMove DEF a
<1>10. QED
  BY <1>6, <1>9

\* The dispatcher claims a row, or goes on with the one it has.
LEMMA DispatcherStep ==
    ASSUME Base, Dispatcher
    PROVE  Base' /\ RowsStep
<1> DEFINE W == at["worker"].world
           p == pc["worker"]
<1>1. "worker" \in Threads /\ Fits("worker", p, at["worker"]) /\ at["worker"] \in Args
  BY BaseFacts DEF Threads
<1>2. /\ p \in StartPoints => /\ p # "idle" /\ ops[at["worker"].op].type = "Start" /\ W \in Worlds
      /\ p \in EndPoints => /\ p # "idle" /\ Halts(at["worker"].op) /\ W \in Worlds
                            /\ ops[at["worker"].op].type # "Start"
  BY <1>1 DEF Fits, StartPoints, EndPoints, Halts
<1>3. ASSUME NEW i \in 1 .. MaxOps, Dispatch(i) PROVE Base' /\ RowsStep
  <2> DEFINE a == [NoArgs EXCEPT !.world = ops[i].world, !.op = i]
             q == IF ops[i].type = "Start" THEN "check" ELSE "run"
  <2>1. /\ Up /\ p = "idle" /\ ops[i].type \in Ops!RuntimeTypes /\ Ops!Claim(i)
        /\ ops[i].status = "Queued" /\ Resume("worker", q, a)
        /\ UNCHANGED <<state, accepted, servers, crashes>>
    BY <1>3 DEF Dispatch, Ops!Claim, Ops!Claimable
  <2>2. i \in 1 .. issued /\ issued \in Nat
    BY <2>1, RowNumbers DEF Base
  <2>3. RowsStep
    BY <2>1, <2>2 DEF RowsStep
  <2>4. RowsStay /\ RowsTyped'
    BY <2>3, RowsTypedStep DEF Base
  <2>5. ops[i].world \in Worlds
    BY <2>2 DEF Base, RowsTyped
  <2>6. a \in Args /\ a.world = ops[i].world /\ a.op = i
    <3>1. i \in 0 .. MaxOps
      BY RuntimeAssumption
    <3>2. QED
      BY <2>5, <3>1, ArgsOfRow
  <2> HIDE DEF a
  <2>7. /\ q \in PointsOf("worker") /\ q \notin Resting /\ q \notin WithRow /\ q # "close"
        /\ q \notin WithWorld
        /\ q \in StartPoints => ops[i].type = "Start"
        /\ q \in EndPoints => ops[i].type \in {"Stop", "Kill"}
    BY <2>1 DEF PointsOf, WorkerPoints, StartPoints, EndPoints, Resting, WithRow, WithWorld,
                Ops!RuntimeTypes
  <2> HIDE DEF q
  <2>8. i # 0
    BY <2>2
  <2>9. Fits("worker", q, Kept(q, a))
    BY <2>1, <2>2, <2>5, <2>6, <2>7, <2>8 DEF Fits, Kept, KindsOf, Halts
  <2>10. StatesTyped' /\ RestTyped'
    BY <2>1 DEF Base, StatesTyped, RestTyped, servers
  <2>11. ASSUME NEW x, x = a, NEW y, y = q PROVE Fits("worker", y, Kept(y, x))'
    BY <2>4, <2>9, <2>11, FitsStays DEF Base
  <2>12. Runs("worker")
    BY <2>1 DEF Runs
  <2>13. ASSUME NEW x, x = a, NEW y, y = q PROVE Base'
    BY <1>1, <2>1, <2>3, <2>10, <2>11, <2>12, <2>13, BaseMove DEF a, q
  <2>14. QED
    BY <2>3, <2>13
<1>4. CASE CheckLaunch
  <2> DEFINE first == p = "check"
  <2>1. /\ p \in {"check", "recheck"} /\ UNCHANGED <<rows, state, accepted, servers, crashes>>
        /\ \E q \in {"raise", "cancel"} \cup {AfterGate(first, o) : o \in Gate(W)} :
              Resume("worker", q, at["worker"])
    BY <1>4 DEF CheckLaunch, Goto
  <2>2. Gate(W) \subseteq {"pass", "eula", "reject"}
    BY DEF Gate, Preconditions
  <2>3. \A o \in {"pass", "eula", "reject"} :
          AfterGate(first, o) \in {"validate", "queue", "require_eula", "fail_eula", "raise",
                                   "fail_start"}
    BY DEF AfterGate
  <2>4. PICK q \in {"raise", "cancel", "validate", "queue", "require_eula", "fail_eula",
                    "fail_start"} : Resume("worker", q, at["worker"])
    BY <2>1, <2>2, <2>3
  <2>5. q \in WorkerPoints \ {"idle", "close"} /\ q \notin EndPoints
    BY DEF WorkerPoints, StartPoints, EndPoints
  <2>6. p # "idle" /\ ops[at["worker"].op].type = "Start"
    BY <1>2, <2>1 DEF StartPoints
  <2>7. RestTyped'
    BY <2>1 DEF Base, RestTyped, servers
  <2>8. QED
    BY <2>1, <2>4, <2>5, <2>6, <2>7, WorkerMove
<1>5. CASE Spawn
  <2>1. /\ p = "spawn" /\ UNCHANGED <<rows, state, accepted, crashes>>
        /\ \/ Resume("worker", "fail_start", at["worker"])
           \/ Resume("worker", "open_session", at["worker"])
    BY <1>5 DEF Spawn, Goto
  <2>2. ops[at["worker"].op].type = "Start" /\ p # "idle" /\ W \in Worlds
    BY <1>2, <2>1 DEF StartPoints
  <2>3. RestTyped'
    BY <1>5, <2>1, <2>2 DEF Spawn, Base, RestTyped, servers, Live
  <2>4. /\ {"fail_start", "open_session"} \subseteq WorkerPoints \ {"idle", "close"}
        /\ {"fail_start", "open_session"} \cap EndPoints = {}
    BY DEF WorkerPoints, StartPoints, EndPoints
  <2>5. QED
    BY <2>1, <2>2, <2>3, <2>4, WorkerMove
<1>6. CASE OpenSession
  <2>1. /\ p = "open_session" /\ UNCHANGED <<rows, state, accepted, proc, stray, attached, crashes>>
        /\ \/ Resume("worker", "fail_start", at["worker"])
           \/ Resume("worker", "await", at["worker"])
        /\ session' = session \/ session' = [session EXCEPT ![W] = "open"]
    BY <1>6 DEF OpenSession, Goto
  <2>2. ops[at["worker"].op].type = "Start" /\ p # "idle" /\ W \in Worlds
    BY <1>2, <2>1 DEF StartPoints
  <2>3. RestTyped'
    BY <2>1, <2>2 DEF Base, RestTyped
  <2>4. /\ {"fail_start", "await"} \subseteq WorkerPoints \ {"idle", "close"}
        /\ {"fail_start", "await"} \cap EndPoints = {}
    BY DEF WorkerPoints, StartPoints, EndPoints
  <2>5. QED
    BY <2>1, <2>2, <2>3, <2>4, WorkerMove
<1>7. CASE AwaitReadiness
  <2>1. /\ p = "await" /\ UNCHANGED <<rows, state, accepted, session, stray, crashes>>
        /\ \/ Resume("worker", "confirm", at["worker"])
           \/ Resume("worker", "close", [at["worker"] EXCEPT !.reason = "crashed"])
        /\ attached' \in {attached, attached \ {W}}
        /\ proc' = proc \/ \E s \in Outcome(W) : proc' = [proc EXCEPT ![W] = s]
    BY <1>7 DEF AwaitReadiness, Goto
  <2>2. ops[at["worker"].op].type = "Start" /\ p # "idle" /\ W \in Worlds
    BY <1>2, <2>1 DEF StartPoints
  <2>3. Outcome(W) \subseteq Live \cup {"none", "dead"}
    BY <2>2 DEF Outcome, Base, RestTyped
  <2>4. RestTyped'
    BY <2>1, <2>2, <2>3 DEF Base, RestTyped
  <2>5. /\ "confirm" \in WorkerPoints \ {"idle", "close"} /\ "confirm" \notin EndPoints
        /\ "crashed" \in EndReasons
    BY DEF WorkerPoints, StartPoints, EndPoints, EndReasons
  <2>6. QED
    BY <2>1, <2>2, <2>4, <2>5, WorkerMove, WorkerCloses
<1>8. CASE Halt
  <2>1. /\ p = "halt" /\ UNCHANGED <<rows, state, accepted, session, stray, attached, crashes>>
        /\ \E r \in {"graceful_stop", "forced_stop"} :
              Resume("worker", "close", [at["worker"] EXCEPT !.reason = r])
        /\ proc' = proc \/ \E s \in Outcome(W) : proc' = [proc EXCEPT ![W] = s]
    BY <1>8 DEF Halt, Outcome
  <2>2. ops[at["worker"].op].type # "Start" /\ p # "idle" /\ W \in Worlds
    BY <1>2, <2>1 DEF EndPoints
  <2>3. Outcome(W) \subseteq Live \cup {"none", "dead"}
    BY <2>2 DEF Outcome, Base, RestTyped
  <2>4. RestTyped'
    BY <2>1, <2>2, <2>3 DEF Base, RestTyped
  <2>5. {"graceful_stop", "forced_stop"} \subseteq EndReasons
    BY DEF EndReasons
  <2>6. QED
    BY <2>1, <2>2, <2>4, <2>5, WorkerCloses
<1>9. CASE Store("worker")
  BY <1>1, <1>9, StoreStep
<1>10. QED
  BY <1>3, <1>4, <1>5, <1>6, <1>7, <1>8, <1>9 DEF Dispatcher

\* A supervisor tick starts, or goes on.
LEMMA PollerStep ==
    ASSUME Base, NEW p \in Pollers, Poller(p)
    PROVE  Base' /\ RowsStep
<1>1. /\ p \in Threads /\ p # "worker" /\ p # "boot"
      /\ PointsOf(p) = PollerPoints /\ KindsOf(p) = {"CrashDetected"} /\ p \notin Clients
  BY ThreadKinds DEF Threads
<1>2. pc[p] # "idle" => Runs(p)
  BY <1>1, BaseFacts
<1>3. /\ {"idle", "scan", "close", "observe"} \subseteq PollerPoints
      /\ {"scan", "close"} \cap (Resting \cup WithRow) = {} /\ "scan" \notin WithWorld
  BY DEF PollerPoints, Resting, WithRow, WithWorld
<1>4. CASE PollStart(p)
  <2> DEFINE a == [NoArgs EXCEPT !.todo = OpenSessions]
  <2>1. /\ Up /\ Resume(p, "scan", a) /\ UNCHANGED <<rows, state, accepted, servers, crashes>>
    BY <1>4 DEF PollStart
  <2>2. a \in Args /\ a.op = 0
    BY ArgsMade DEF NoArgs, OpenSessions
  <2> HIDE DEF a
  <2>3. Fits(p, "scan", Kept("scan", a))
    BY <1>1, <1>3, <2>2 DEF Fits, Kept
  <2>4. Runs(p)
    BY <1>1, <2>1 DEF Runs
  <2>5. QED
    BY <1>1, <2>1, <2>3, <2>4, QuietMove
<1>5. CASE Poll(p)
  <2>1. pc[p] = "scan" /\ UNCHANGED <<rows, state, accepted, servers, crashes>>
    BY <1>5 DEF Poll
  <2>2. CASE Goto(p, "idle")
    <3>1. Resume(p, "idle", at[p]) /\ Kept("idle", at[p]) = NoArgs
      BY <2>2 DEF Goto, Kept, Resting
    <3>2. Fits(p, "idle", NoArgs)
      BY <1>1, <1>3, NoArgsFit DEF Resting
    <3>3. QED
      BY <1>1, <1>2, <2>1, <3>1, <3>2, QuietMove
  <2>3. ASSUME NEW w \in at[p].todo, NEW q \in {"scan", "close"},
               Resume(p, q, [world |-> w, op |-> 0, reason |-> "crashed",
                             todo |-> at[p].todo \ {w}])
        PROVE  Base' /\ RowsStep
    <3> DEFINE a == [world |-> w, op |-> 0, reason |-> "crashed", todo |-> at[p].todo \ {w}]
    <3>1. at[p].todo \subseteq Worlds
      BY <1>1, BaseFacts DEF Args
    <3>2. "crashed" \in EndReasons
      BY DEF EndReasons
    <3>3. a \in Args /\ a.world \in Worlds /\ a.op = 0 /\ a.reason = "crashed"
      BY <3>1, <3>2, RuntimeAssumption DEF Args
    <3> HIDE DEF a
    <3>4. Fits(p, q, Kept(q, a))
      BY <1>1, <1>3, <3>2, <3>3 DEF Fits, Kept
    <3>5. QED
      BY <1>1, <1>2, <2>1, <2>3, <3>4, QuietMove DEF a
  <2>4. QED
    BY <1>5, <2>2, <2>3 DEF Poll
<1>6. CASE RecordCrash(p)
  <2>1. /\ pc[p] = "record" /\ Submit(p, "CrashDetected", MaxOps, "observe")
        /\ UNCHANGED <<state, accepted, servers, crashes>>
    BY <1>6 DEF RecordCrash
  <2>2. at[p].world \in Worlds
    BY <1>1, <2>1, BaseFacts DEF Fits, WithWorld
  <2>3. "CrashDetected" \in RowKinds
    BY DEF RowKinds
  <2>4. QED
    BY <1>1, <1>2, <1>3, <2>1, <2>2, <2>3, SubmitStep
<1>7. CASE Store(p)
  BY <1>1, <1>7, StoreStep
<1>8. QED
  BY <1>4, <1>5, <1>6, <1>7 DEF Poller

\* Boot goes on about a world, and writes no row.
LEMMA BootMove ==
    ASSUME Base, ~Up, NEW q \in BootPoints \ {"close"}, NEW a \in Args,
           Resume("boot", q, a), q \in WithWorld => a.world \in Worlds,
           q \in WithRow => a.op # 0,
           a.op # 0 => a.op \in 1 .. issued /\ ops[a.op].type \in {"CrashDetected", "Start"},
           UNCHANGED <<rows, accepted, crashes>>, StatesTyped', RestTyped'
    PROVE  Base' /\ RowsStep
<1>1. "boot" \in Threads /\ KindsOf("boot") = {"CrashDetected", "Start"} /\ "boot" # "worker"
      /\ PointsOf("boot") = BootPoints /\ Runs("boot")
  BY DEF Threads, KindsOf, PointsOf, Runs
<1>2. Fits("boot", q, Kept(q, a))
  <2>1. CASE q \in Resting
    BY <1>1, <2>1, NoArgsFit DEF Kept
  <2>2. CASE q \notin Resting
    BY <1>1, <2>2 DEF Fits, Kept
  <2>3. QED
    BY <2>1, <2>2
<1>3. RowsStep /\ RowsStay
  BY RowsTypedStep DEF RowsStep, Base
<1>4. Fits("boot", q, Kept(q, a))'
  BY <1>2, <1>3, FitsStays DEF Base
<1>5. QED
  BY <1>1, <1>3, <1>4, BaseMove

\* Boot starts, or goes on.
LEMMA BootStep ==
    ASSUME Base, Boot
    PROVE  Base' /\ RowsStep
<1>1. /\ "boot" \in Threads /\ Fits("boot", pc["boot"], at["boot"]) /\ at["boot"] \in Args
      /\ at["boot"].todo \subseteq Worlds
      /\ "boot" # "worker" /\ PointsOf("boot") = BootPoints
      /\ KindsOf("boot") = {"CrashDetected", "Start"}
      /\ "boot" \notin Clients /\ "boot" \notin Pollers
  BY BaseFacts, RuntimeAssumption DEF Threads, PointsOf, KindsOf, Args
<1>2. /\ {"scan", "reattach", "close", "crash", "interrupt", "interrupted", "abort", "up",
          "idle", "observe"} \subseteq BootPoints
      /\ {"scan", "reattach", "close", "crash", "abort", "up"} \cap WithRow = {}
      /\ {"scan", "abort", "up", "interrupted"} \cap WithWorld = {}
  BY DEF BootPoints, WithRow, WithWorld
<1>3. ASSUME UNCHANGED <<state, servers, accepted, crashes>>
      PROVE  StatesTyped' /\ RestTyped'
  BY <1>3 DEF Base, StatesTyped, RestTyped, servers
<1>4. at["boot"].op # 0 => /\ at["boot"].op \in 1 .. issued
                           /\ ops[at["boot"].op].type \in {"CrashDetected", "Start"}
  BY <1>1 DEF Fits
<1>5. CASE BootStart
  <2> DEFINE a == [NoArgs EXCEPT !.todo = OpenSessions]
  <2>1. /\ ~Up /\ Resume("boot", "scan", a)
        /\ UNCHANGED <<rows, state, accepted, servers, crashes>>
    BY <1>5 DEF BootStart, Up
  <2>2. a \in Args /\ a.op = 0
    BY ArgsMade DEF NoArgs, OpenSessions
  <2> HIDE DEF a
  <2>3. QED
    BY <1>2, <1>3, <2>1, <2>2, BootMove
<1>6. CASE Reattach
  <2>1. /\ pc["boot"] = "scan" /\ UNCHANGED <<rows, state, accepted, session, proc, stray, crashes>>
    BY <1>6 DEF Reattach
  <2>2. PICK w \in at["boot"].todo, q \in {"reattach", "close"} :
           /\ Resume("boot", q, [world |-> w, op |-> 0, reason |-> "reconciled_missing",
                                 todo |-> at["boot"].todo \ {w}])
           /\ attached' \in {attached, attached \cup {w}}
    BY <1>6 DEF Reattach
  <2> DEFINE a == [world |-> w, op |-> 0, reason |-> "reconciled_missing",
                   todo |-> at["boot"].todo \ {w}]
  <2>3. w \in Worlds /\ at["boot"].todo \ {w} \in SUBSET Worlds /\ 0 \in 0 .. MaxOps
    BY <1>1, RuntimeAssumption
  <2>4. /\ a \in Args /\ a.world = w /\ a.op = 0 /\ a.reason \in EndReasons
    BY <2>3 DEF Args, EndReasons
  <2> HIDE DEF a
  <2>6. StatesTyped' /\ RestTyped' /\ ~Up
    BY <2>1, <2>2, <2>3 DEF Base, StatesTyped, RestTyped, Up
  <2>7. CASE q = "reattach"
    BY <1>2, <2>1, <2>2, <2>3, <2>4, <2>6, <2>7, BootMove DEF a
  <2>8. CASE q = "close"
    <3>1. "close" \notin Resting
      BY DEF Resting
    <3>2. Fits("boot", "close", Kept("close", a))
      BY <1>1, <1>2, <2>3, <2>4, <3>1 DEF Fits, Kept
    <3>3. RowsStep /\ RowsStay
      BY <2>1, RowsTypedStep DEF RowsStep, Base
    <3>4. ASSUME NEW x, x = a PROVE Fits("boot", "close", Kept("close", x))'
      BY <3>2, <3>3, <3>4, FitsStays DEF Base
    <3>5. Runs("boot")
      BY <2>6 DEF Runs
    <3>6. ASSUME NEW x, x = a PROVE Base'
      BY <1>1, <2>2, <2>6, <2>8, <3>3, <3>4, <3>5, <3>6, BaseMove DEF a
    <3>7. QED
      BY <3>3, <3>6
  <2>9. QED
    BY <2>7, <2>8
<1>7. CASE ResolveMissing
  <2>1. /\ pc["boot"] = "resolve" /\ UNCHANGED <<rows, state, accepted, servers, crashes>>
    BY <1>7 DEF ResolveMissing
  <2>2. at["boot"].world \in Worlds /\ ~Up
    BY <1>1, <2>1 DEF Fits, WithWorld, Up
  <2>3. CASE Goto("boot", "crash")
    BY <1>1, <1>2, <1>3, <1>4, <2>1, <2>2, <2>3, BootMove DEF Goto
  <2>4. ASSUME NEW i \in RunningStarts,
               Resume("boot", "interrupt", [at["boot"] EXCEPT !.op = i])
        PROVE  Base' /\ RowsStep
    <3> DEFINE a == [at["boot"] EXCEPT !.op = i]
    <3>1. i \in 1 .. issued /\ ops[i].type = "Start" /\ i \in 0 .. MaxOps
      BY RowNumbers DEF RunningStarts, Base
    <3>2. a \in Args /\ a.world = at["boot"].world /\ a.op = i /\ i # 0
      BY <1>1, <3>1, ArgsMade DEF Args
    <3> HIDE DEF a
    <3>3. QED
      BY <1>2, <1>3, <2>1, <2>2, <2>4, <3>1, <3>2, BootMove DEF a
  <2>5. QED
    BY <1>7, <2>3, <2>4 DEF ResolveMissing
<1>8. CASE RecordCrash("boot")
  <2>1. /\ pc["boot"] = "record" /\ Submit("boot", "CrashDetected", MaxOps, "observe")
        /\ UNCHANGED <<state, accepted, servers, crashes>>
    BY <1>8 DEF RecordCrash
  <2>2. at["boot"].world \in Worlds /\ Runs("boot")
    BY <1>1, <2>1 DEF Fits, WithWorld, Runs, Up
  <2>3. "CrashDetected" \in RowKinds
    BY DEF RowKinds
  <2>4. QED
    BY <1>1, <1>2, <2>1, <2>2, <2>3, SubmitStep
<1>9. CASE NextInterruptedStart
  <2>1. /\ pc["boot"] = "scan" /\ UNCHANGED <<rows, state, accepted, servers, crashes>> /\ ~Up
    BY <1>9 DEF NextInterruptedStart, Up
  <2>2. CASE Goto("boot", "up")
    BY <1>1, <1>2, <1>3, <1>4, <2>1, <2>2, BootMove DEF Goto
  <2>3. ASSUME NEW i \in RunningStarts,
               Resume("boot", "interrupt", [NoArgs EXCEPT !.world = ops[i].world, !.op = i])
        PROVE  Base' /\ RowsStep
    <3> DEFINE a == [NoArgs EXCEPT !.world = ops[i].world, !.op = i]
    <3>1. i \in 1 .. issued /\ ops[i].type = "Start" /\ i \in 0 .. MaxOps /\ i # 0
      BY RowNumbers DEF RunningStarts, Base
    <3>2. ops[i].world \in Worlds
      BY <3>1 DEF Base, RowsTyped
    <3>3. a \in Args /\ a.world = ops[i].world /\ a.op = i /\ i # 0
      BY <3>1, <3>2, ArgsOfRow
    <3> HIDE DEF a
    <3>4. QED
      BY <1>2, <1>3, <2>1, <2>3, <3>1, <3>2, <3>3, BootMove DEF a
  <2>4. QED
    BY <1>9, <2>2, <2>3 DEF NextInterruptedStart
<1>10. CASE FailInterruptedStart
  <2>1. /\ pc["boot"] = "interrupt" /\ UNCHANGED <<rows, accepted, servers, crashes>> /\ ~Up
        /\ \/ /\ state[at["boot"].world] \in DOMAIN Interrupted
              /\ state' = [state EXCEPT ![at["boot"].world] = Interrupted[state[at["boot"].world]]]
              /\ Goto("boot", "interrupted")
           \/ /\ Goto("boot", "interrupted") \/ Goto("boot", "abort")
              /\ UNCHANGED state
    BY <1>10 DEF FailInterruptedStart, Up
  <2>2. at["boot"].world \in Worlds
    BY <1>1, <2>1 DEF Fits, WithWorld
  <2>3. StatesTyped'
    <3>1. /\ DOMAIN Interrupted = {"starting", "running", "stopping", "queued"}
          /\ \A s \in DOMAIN Interrupted : Interrupted[s] \in {"error", "crashed", "off"}
      BY DEF Interrupted
    <3>2. {"error", "crashed", "off"} \subseteq RuntimeStates
      BY DEF RuntimeStates, Life!States
    <3>3. QED
      BY <2>1, <3>1, <3>2 DEF Base, StatesTyped
  <2>4. RestTyped'
    BY <2>1 DEF Base, RestTyped, servers
  <2>5. at["boot"].op # 0
    BY <1>1, <2>1 DEF Fits, WithRow
  <2>6. QED
    BY <1>1, <1>2, <1>4, <2>1, <2>3, <2>4, <2>5, BootMove DEF Goto
<1>11. CASE Store("boot")
  BY <1>1, <1>11, StoreStep
<1>12. QED
  BY <1>5, <1>6, <1>7, <1>8, <1>9, <1>10, <1>11 DEF Boot

\* Servers bind and exit, eula.txt is edited, and the manager crashes.
LEMMA EnvironmentStep ==
    ASSUME Base, Environment
    PROVE  Base' /\ RowsStep
<1>1. ASSUME NEW w \in Worlds, Bind(w) \/ Exit(w) PROVE Base' /\ RowsStep
  <2>1. /\ UNCHANGED <<rows, state, accepted, session, stray, attached, pc, at, crashes>>
        /\ proc' = [proc EXCEPT ![w] = "serving"] \/ proc' = [proc EXCEPT ![w] = "dead"]
    BY <1>1 DEF Bind, Exit
  <2>2. RestTyped'
    BY <2>1 DEF Base, RestTyped, Live
  <2>3. QED
    BY <2>1, <2>2, OutsideStep
<1>2. ASSUME NEW w \in Worlds, RevokeEula(w) PROVE Base' /\ RowsStep
  <2>1. /\ UNCHANGED <<rows, state, servers, pc, at, crashes>>
        /\ accepted' = accepted \ {w}
    BY <1>2 DEF RevokeEula
  <2>2. RestTyped'
    BY <2>1 DEF Base, RestTyped, servers
  <2>3. QED
    BY <2>1, <2>2, OutsideStep
<1>3. CASE ManagerCrash
  <2>1. /\ crashes < MaxCrashes /\ crashes' = crashes + 1 /\ attached' = {}
        /\ pc' = [t \in Threads |-> IF t = "boot" THEN "down" ELSE "idle"]
        /\ at' = [t \in Threads |-> NoArgs]
        /\ UNCHANGED <<rows, state, accepted, session, proc, stray>>
    BY <1>3 DEF ManagerCrash
  <2>2. RowsStep /\ RowsTyped' /\ RowsStay
    BY <2>1, RowsTypedStep DEF RowsStep, Base
  <2>3. StatesTyped'
    BY <2>1 DEF Base, StatesTyped
  <2>4. RestTyped'
    <3>1. crashes' \in 0 .. MaxCrashes
      BY <2>1, RuntimeAssumption DEF Base, RestTyped
    <3>2. QED
      BY <2>1, <3>1 DEF Base, RestTyped
  <2>5. "down" \in Points /\ "idle" \in Points /\ NoArgs \in Args
    BY ArgsMade DEF Points, Resting
  <2>6. ASSUME NEW t \in Threads PROVE Fits(t, pc[t], at[t])'
    <3> DEFINE p == IF t = "boot" THEN "down" ELSE "idle"
    <3>1. pc'[t] = p /\ at'[t] = NoArgs
      BY <2>1
    <3>2. p \in PointsOf(t) \cap Resting /\ (t = "worker" => p = "idle")
      BY ThreadKinds DEF WorkerPoints, BootPoints, ClientPoints, PollerPoints, Resting
    <3>3. Fits(t, p, NoArgs)'
      BY <3>2, NoArgsFit
    <3>4. QED
      BY <3>1, <3>3
  <2>7. ThreadsOK'
    <3>1. pc' \in [Threads -> Points] /\ at' \in [Threads -> Args]
      BY <2>1, <2>5
    <3>2. QED
      BY <2>6, <3>1 DEF ThreadsOK
  <2>8. BootsAlone'
    BY <2>1 DEF BootsAlone
  <2>9. QED
    BY <2>2, <2>3, <2>4, <2>7, <2>8 DEF Base
<1>4. QED
  BY <1>1, <1>2, <1>3 DEF Environment

\* Every step of the system.
LEMMA BaseStep ==
    ASSUME Base, Next
    PROVE  Base' /\ RowsStep
BY RequestStep, ClientStep, DispatcherStep, PollerStep, BootStep, EnvironmentStep DEF Next

\* A step that changes nothing.
LEMMA BaseStutter ==
    ASSUME Base, UNCHANGED vars
    PROVE  Base' /\ RowsStep
<1>1. UNCHANGED <<rows, state, pc, at, crashes>> /\ RestTyped'
  BY DEF vars, servers, Base, RestTyped
<1>2. QED
  BY <1>1, OutsideStep

\* A new installation.
LEMMA BaseInit ==
    ASSUME Init
    PROVE  Base
<1>1. /\ issued = 0 /\ 1 .. issued = {} /\ Ops!TypeOK
  <2>1. issued = 0 /\ MaxOps \in Nat
    BY RuntimeAssumption DEF Init, Ops!Init
  <2>2. Ops!NoRow \in Ops!Row /\ Ops!NoRow.status = "Absent" /\ Ops!OpId = 1 .. MaxOps
    BY DEF Ops!Row, Ops!NoRow, Ops!Types, Ops!OpId
  <2>3. /\ ops \in [Ops!OpId -> Ops!Row] /\ \A i \in Ops!OpId : ops[i].status = "Absent"
        /\ audits \in [Ops!OpId -> Nat] /\ claims \in [Ops!OpId -> Nat]
    BY <2>2 DEF Init, Ops!Init
  <2>4. 1 .. issued = {} /\ \A i \in Ops!OpId : i > issued
    BY <2>1, <2>2
  <2>5. QED
    BY <2>1, <2>3, <2>4 DEF Ops!TypeOK
<1>2. RowsTyped
  BY <1>1 DEF RowsTyped
<1>3. StatesTyped
  BY DEF Init, Life!Init, StatesTyped, RuntimeStates, Life!States
<1>4. RestTyped
  BY RuntimeAssumption DEF Init, RestTyped
<1>5. /\ pc = [t \in Threads |-> IF t = "boot" THEN "up" ELSE "idle"]
      /\ at = [t \in Threads |-> NoArgs]
  BY DEF Init
<1>6. BootsAlone
  BY <1>5 DEF BootsAlone, Up, Threads
<1>7. ThreadsOK
  <2>1. "up" \in Points /\ "idle" \in Points /\ NoArgs \in Args
    BY ArgsMade DEF Points, Resting
  <2>2. ASSUME NEW t \in Threads PROVE Fits(t, pc[t], at[t])
    <3> DEFINE p == IF t = "boot" THEN "up" ELSE "idle"
    <3>1. pc[t] = p /\ at[t] = NoArgs
      BY <1>5
    <3>2. p \in PointsOf(t) \cap Resting /\ (t = "worker" => p = "idle")
      BY ThreadKinds DEF WorkerPoints, BootPoints, ClientPoints, PollerPoints, Resting
    <3>3. QED
      BY <3>1, <3>2, NoArgsFit
  <2>3. QED
    BY <1>5, <2>1, <2>2 DEF ThreadsOK
<1>8. QED
  BY <1>2, <1>3, <1>4, <1>6, <1>7 DEF Base
-----------------------------------------------------------------------------
(* Where the servers are.  A forced kill is taken to settle within its     *)
(* deadline where the faults say so (terminate is not among them).         *)

Down == {"off", "queued", "eula_required"}

\* A world that is down has no open session, and no live server but a lost one.
IsDown(w) == session[w] # "open" /\ (proc[w] \in Live => Lost(w))

\* What start has made sure of on its way to a running server.
LaunchOK ==
    LET w == at["worker"].world
        p == pc["worker"]
    IN
    /\ p = "queue" /\ state[w] \in Down => proc[w] \notin Live
    /\ p \in {"launch", "spawn"} => proc[w] \notin Live
    /\ p \in {"open_session", "await", "confirm"} => w \in attached
    /\ p \in {"await", "confirm"} => session[w] \in {"open", "crashed"}
    /\ p = "confirm" => proc[w] \in {"serving", "dead"}

\* What stop, kill and a failed start have made sure of before they go on.
HaltOK ==
    LET w == at["worker"].world
        p == pc["worker"]
    IN
    /\ p = "close" => (proc[w] \in Live => Lost(w))
    /\ p = "off" => IsDown(w)

WorkerOK == LaunchOK /\ HaltOK

\* A tick is about to close the session of w.
Closing(w) == \E t \in Pollers : pc[t] = "close" /\ at[t].world = w

\* A running world's server without an open session serves and was taken for crashed, and
\* one that does not listen yet has a session that no tick is about to close.
BooksOK ==
    \A w \in Worlds : state[w] \in {"running", "stopping"} =>
        /\ proc[w] \in Live /\ session[w] # "open" =>
              session[w] = "crashed" /\ proc[w] = "serving"
        /\ proc[w] = "booting" => session[w] = "open" /\ ~Closing(w)

ServersOK == BooksOK /\ OffIsDown /\ ServersAreKnown

\* Boot has attached or closed the open sessions it does not look at any more.
BootOK ==
    LET w == at["boot"].world
        p == pc["boot"]
        S == at["boot"].todo
    IN
    /\ ~Up => crashes > 0
    /\ S \subseteq OpenSessions
    /\ p = "close" => w \notin S /\ proc[w] \notin Live
    /\ p = "reattach" => session[w] = "open"
    /\ p \notin Resting =>
          OpenSessions \subseteq S \cup attached \cup (IF p = "close" THEN {w} ELSE {})

Runtime == WorkerOK /\ ServersOK /\ BootOK

Still(t) == pc'[t] = pc[t] /\ at'[t] = at[t]

\* The points of the dispatcher that nothing is said about.
Elsewhere == WorkerPoints \ (Launching \cup Halting \cup {"queue", "launch"})

LEMMA WorkerElsewhere ==
    /\ pc["worker"] \in Elsewhere => DispatcherOwnsWorld /\ WorkerOK
    /\ pc'["worker"] \in Elsewhere => DispatcherOwnsWorld' /\ WorkerOK'
<1>1. Elsewhere \cap {"spawn", "open_session", "await", "confirm", "halt", "close", "off",
                     "queue", "launch"} = {}
  BY DEF Elsewhere, Launching, Halting
<1>2. QED
  BY <1>1 DEF WorkerOK, DispatcherOwnsWorld, LaunchOK, HaltOK, Launching, Halting

\* Those points, one by one.
LEMMA ElsewherePoints ==
    Elsewhere = {"idle", "check", "recheck", "validate", "cancel", "require_eula", "fail_eula",
                 "fail_start", "error", "time_out", "timed_out", "run", "stopping",
                 "complete", "raise"}
BY DEF Elsewhere, WorkerPoints, StartPoints, EndPoints, Launching, Halting

\* Once the manager is up, boot is over.
LEMMA BootOver ==
    /\ Base /\ Up => BootOK
    /\ Base' /\ Up' => BootOK'
<1>1. NoArgs.todo = {} /\ "boot" \in Threads /\ "up" \in Resting /\ "up" \notin {"close", "reattach"}
  BY DEF NoArgs, Threads, Resting
<1>2. Base /\ Up => at["boot"] = NoArgs /\ pc["boot"] = "up"
  BY <1>1 DEF Up, Base, ThreadsOK, Fits
<1>3. Base' /\ Up' => at'["boot"] = NoArgs /\ pc'["boot"] = "up"
  BY <1>1 DEF Up, Base, ThreadsOK, Fits
<1>4. QED
  BY <1>1, <1>2, <1>3 DEF BootOK, Up

\* While it boots, the dispatcher and the pollers rest.
LEMMA WhileBooting ==
    /\ Base /\ ~Up => /\ DispatcherOwnsWorld /\ WorkerOK
                       /\ \A w \in Worlds : ~Closing(w)
    /\ Base' /\ ~Up' => /\ DispatcherOwnsWorld' /\ WorkerOK'
                         /\ \A w \in Worlds : ~Closing(w)'
<1>1. "worker" \in Threads \ {"boot"} /\ Pollers \subseteq Threads \ {"boot"}
  BY RuntimeAssumption DEF Threads
<1>2. Base /\ ~Up => pc["worker"] = "idle" /\ \A t \in Pollers : pc[t] = "idle"
  BY <1>1 DEF Base, BootsAlone
<1>3. Base' /\ ~Up' => pc'["worker"] = "idle" /\ \A t \in Pollers : pc'[t] = "idle"
  BY <1>1 DEF Base, BootsAlone
<1>4. QED
  BY <1>2, <1>3, WorkerElsewhere, ElsewherePoints DEF Closing

\* The kind of the dispatcher's row stays what it is.
LEMMA SameRow ==
    ASSUME Base, RowsStep, Still("worker"), pc["worker"] # "idle"
    PROVE  Halts(at["worker"].op)' = Halts(at["worker"].op)
<1>1. at["worker"].op \in 1 .. issued
  BY BaseFacts DEF Threads, Fits
<1>2. RowsStay
  BY RowsTypedStep DEF Base
<1>3. QED
  BY <1>1, <1>2 DEF RowsStay, Halts, Still

\* What a thread other than the dispatcher may do to the states of the worlds.
OthersWrite ==
    \A w \in Worlds : \/ state'[w] = state[w]
                      \/ /\ state[w] \notin {"starting", "stopping"}
                         /\ state'[w] \notin {"starting", "running", "stopping"}
                         /\ state'[w] \in Down => state[w] \in Down

\* The dispatcher owns its world whatever the others do to the states.
LEMMA OwnsKept ==
    ASSUME Base, RowsStep, DispatcherOwnsWorld, OthersWrite, Still("worker")
    PROVE  DispatcherOwnsWorld'
<1> DEFINE W == at["worker"].world
<1>1. CASE pc["worker"] = "idle"
  BY <1>1, WorkerElsewhere, ElsewherePoints DEF Still
<1>2. CASE pc["worker"] # "idle"
  <2>1. W \in Worlds
    BY <1>2, BaseFacts DEF Fits, Threads
  <2>2. state[W] \in {"starting", "stopping"} => state'[W] = state[W]
    BY <2>1 DEF OthersWrite
  <2>3. pc'["worker"] = pc["worker"] /\ at'["worker"] = at["worker"]
    BY DEF Still
  <2>4. QED
    BY <1>2, <2>2, <2>3, SameRow DEF DispatcherOwnsWorld
<1>3. QED
  BY <1>1, <1>2

\* What it has made sure of survives, too.
LEMMA WorkerKept ==
    ASSUME Base, WorkerOK, OthersWrite, Still("worker"), UNCHANGED <<servers, crashes>>
    PROVE  WorkerOK'
<1> DEFINE W == at["worker"].world
<1>1. CASE pc["worker"] = "idle"
  BY <1>1, WorkerElsewhere, ElsewherePoints DEF Still
<1>2. CASE pc["worker"] # "idle"
  <2>1. W \in Worlds
    BY <1>2, BaseFacts DEF Fits, Threads
  <2>2. state'[W] \in Down => state[W] \in Down
    BY <2>1 DEF OthersWrite
  <2>3. pc'["worker"] = pc["worker"] /\ at'["worker"] = at["worker"]
    BY DEF Still
  <2>4. UNCHANGED <<session, proc, stray, attached, crashes>>
    BY DEF servers
  <2>5. LaunchOK'
    BY <2>2, <2>3, <2>4 DEF WorkerOK, LaunchOK
  <2>6. HaltOK'
    BY <2>3, <2>4 DEF WorkerOK, HaltOK, IsDown, Lost
  <2>7. QED
    BY <2>5, <2>6 DEF WorkerOK
<1>3. QED
  BY <1>1, <1>2

\* So do the servers, if no tick goes for a session whose server is to be found.
LEMMA ServersKept ==
    ASSUME ServersOK, OthersWrite, UNCHANGED <<servers, crashes>>, Up' => Up,
           \A w \in Worlds : Closing(w)' => Closing(w) \/ proc[w] # "booting"
                                            \/ state[w] \notin {"running", "stopping"}
    PROVE  ServersOK'
<1>1. UNCHANGED <<session, proc, stray, attached, crashes>>
  BY DEF servers
<1>2. BooksOK'
  <2>1. SUFFICES ASSUME NEW w \in Worlds, state'[w] \in {"running", "stopping"}
                 PROVE  /\ proc[w] \in Live /\ session[w] # "open" =>
                              session[w] = "crashed" /\ proc[w] = "serving"
                        /\ proc[w] = "booting" => session[w] = "open" /\ ~Closing(w)'
    BY <1>1 DEF BooksOK
  <2>2. state[w] \in {"running", "stopping"}
    BY <2>1 DEF OthersWrite
  <2>3. QED
    BY <2>2 DEF ServersOK, BooksOK
<1>3. OffIsDown'
  BY <1>1 DEF ServersOK, OffIsDown, OthersWrite, Down, Lost
<1>4. ServersAreKnown'
  BY <1>1 DEF ServersOK, ServersAreKnown, SingleServer, SessionsAreAttached
<1>5. QED
  BY <1>2, <1>3, <1>4 DEF ServersOK

\* Boot's part survives what moves no boot.
LEMMA BootKept ==
    ASSUME Base', BootOK, Still("boot"), UNCHANGED <<servers, crashes>>
    PROVE  BootOK'
BY DEF BootOK, Still, servers, Up, OpenSessions
\* What a thread that is neither the dispatcher nor boot moves.
LEMMA OtherMoves ==
    ASSUME Base, NEW t \in Threads \ {"worker", "boot"}, NEW p, NEW a, Resume(t, p, a)
    PROVE  /\ Still("worker") /\ Still("boot") /\ (Up' <=> Up)
           /\ \A w \in Worlds : Closing(w)' => \/ Closing(w)
                                               \/ t \in Pollers /\ p = "close" /\ a.world = w
<1>1. /\ pc'[t] = p /\ at'[t] = Kept(p, a)
      /\ \A s \in Threads \ {t} : pc'[s] = pc[s] /\ at'[s] = at[s]
  BY Resumed DEF Base
<1>2. Still("worker") /\ Still("boot")
  BY <1>1 DEF Still, Threads
<1>3. p = "close" => Kept(p, a) = a
  BY DEF Kept, Resting
<1>4. Pollers \subseteq Threads
  BY DEF Threads
<1>5. ASSUME NEW w \in Worlds, NEW s \in Pollers, pc'[s] = "close" /\ at'[s].world = w
      PROVE  Closing(w) \/ (t \in Pollers /\ p = "close" /\ a.world = w)
  BY <1>1, <1>3, <1>4, <1>5 DEF Closing
<1>6. QED
  BY <1>2, <1>5 DEF Closing, Still, Up

\* The threads other than the dispatcher and boot, when they only write rows and states.
LEMMA RuntimeKept ==
    ASSUME Base, Base', Runtime, OthersWrite, Still("worker"), Still("boot"),
           UNCHANGED <<servers, crashes>>,
           \A w \in Worlds : Closing(w)' => Closing(w) \/ proc[w] # "booting"
                                            \/ state[w] \notin {"running", "stopping"}
    PROVE  Runtime'
<1>1. Up' => Up
  BY DEF Still, Up
<1>2. QED
  BY <1>1, WorkerKept, ServersKept, BootKept DEF Runtime

\* The writes to the states by the threads other than the dispatcher and boot.
LEMMA OthersWrites ==
    ASSUME Base, NEW t \in Clients \cup Pollers, SetWorldState(t)
    PROVE  /\ OthersWrite /\ UNCHANGED <<rows, accepted, servers, crashes>>
           /\ \E p \in {"idle", "complete", "raise", "record", "abort"} : Resume(t, p, at[t])
<1> DEFINE p == pc[t]
           w == at[t].world
<1>1. t \in Threads /\ Fits(t, p, at[t]) /\ p \in PointsOf(t) /\ StatesTyped
  BY BaseFacts DEF Threads
<1>2. p \in DOMAIN WorldWrites
  BY DEF SetWorldState
<1>3. w \in Worlds
  BY <1>1, <1>2, StateWriteFits
<1>4. p \in {"answer_eula", "lift_eula", "crash"}
  BY <1>1, <1>2, WorldWriteTable, ThreadKinds DEF ClientPoints, PollerPoints
<1>5. /\ \/ UNCHANGED state /\ Goto(t, WorldWrites[p].refused)
         \/ /\ state[w] \in Sources[p] /\ state' = [state EXCEPT ![w] = WorldWrites[p].to]
            /\ Goto(t, WorldWrites[p].next)
      /\ UNCHANGED <<rows, accepted, servers, crashes>>
  BY <1>1, <1>3, StateWrite
<1>6. \E q \in {"idle", "complete", "raise", "record", "abort"} : Resume(t, q, at[t])
  BY <1>4, <1>5, WorldWriteTable DEF Goto
<1>7. /\ Sources["answer_eula"] = {"off", "eula_required"}
      /\ Sources["lift_eula"] = {"eula_required"} /\ Sources["crash"] = {"running", "crashed"}
  BY DEF Sources
<1>8. ASSUME state[w] \in Sources[p], state' = [state EXCEPT ![w] = WorldWrites[p].to]
      PROVE  OthersWrite
  <2>1. /\ \A v \in Worlds : v # w => state'[v] = state[v]
        /\ state'[w] = WorldWrites[p].to
    BY <1>3, <1>8 DEF Base, StatesTyped
  <2>2. \/ state'[w] = state[w]
        \/ /\ state[w] \notin {"starting", "stopping"}
           /\ state'[w] \notin {"starting", "running", "stopping"}
           /\ state'[w] \in Down => state[w] \in Down
    BY <1>4, <1>7, <1>8, <2>1, WorldWriteTable DEF Down
  <2>3. QED
    BY <2>1, <2>2 DEF OthersWrite
<1>9. QED
  BY <1>5, <1>6, <1>8 DEF OthersWrite

\* The transitions of rows by those threads.
LEMMA OthersTransition ==
    ASSUME Base, NEW t \in Clients \cup Pollers, SetStatus(t)
    PROVE  /\ OthersWrite /\ UNCHANGED <<servers, crashes>>
           /\ \E p \in {"idle", "accept", "raise", "observed", "scan", "abort"} :
                 Resume(t, p, at[t])
<1> DEFINE p == pc[t]
<1>1. t \in Threads /\ p \in PointsOf(t)
  BY BaseFacts DEF Threads
<1>2. /\ p \in DOMAIN StatusWrites /\ UNCHANGED <<state, accepted, servers, crashes>>
      /\ Goto(t, StatusWrites[p].next) \/ Goto(t, StatusWrites[p].refused)
  BY DEF SetStatus
<1>3. p \in {"complete", "raise", "edit_run", "observe", "observed"}
  BY <1>1, <1>2, StatusWriteTable, ThreadKinds DEF ClientPoints, PollerPoints
<1>4. \E q \in {"idle", "accept", "raise", "observed", "scan", "abort"} : Resume(t, q, at[t])
  BY <1>2, <1>3, StatusWriteTable DEF Goto
<1>5. QED
  BY <1>2, <1>4 DEF OthersWrite

\* Requests and clients touch no server.
LEMMA ClientRuntime ==
    ASSUME Base, Base', Runtime, Request \/ \E c \in Clients : Client(c)
    PROVE  Runtime'
<1>1. CASE UNCHANGED <<state, servers, pc, at, crashes>>
  BY <1>1, RuntimeKept DEF OthersWrite, Still, Closing
<1>2. ASSUME NEW c \in Clients, OthersWrite, UNCHANGED <<servers, crashes>>,
             NEW p, NEW a, Resume(c, p, a)
      PROVE  Runtime'
  <2>1. c \in Threads \ {"worker", "boot"} /\ c \notin Pollers
    BY RuntimeAssumption DEF Threads
  <2>2. /\ Still("worker") /\ Still("boot")
        /\ \A w \in Worlds : Closing(w)' => Closing(w)
    BY <1>2, <2>1, OtherMoves
  <2>3. QED
    BY <1>2, <2>2, RuntimeKept
<1>3. ASSUME NEW c \in Clients, UNCHANGED <<state, servers, crashes>>,
             NEW p, NEW a, Resume(c, p, a)
      PROVE  Runtime'
  BY <1>2, <1>3 DEF OthersWrite
<1>4. CASE Request
  BY <1>1, <1>3, <1>4 DEF Request, RequestStart, RequestAcceptance, RequestEnd
<1>5. ASSUME NEW c \in Clients, EnqueueStart(c) \/ EnqueueAcceptance(c) \/ AcceptEula(c)
      PROVE  Runtime'
  BY <1>3, <1>5 DEF EnqueueStart, EnqueueAcceptance, AcceptEula, Submit, Goto
<1>6. ASSUME NEW c \in Clients, Store(c) PROVE Runtime'
  <2>1. CASE SetWorldState(c)
    BY <1>2, <2>1, OthersWrites
  <2>2. CASE SetStatus(c)
    BY <1>2, <2>2, OthersTransition
  <2>3. CASE CloseSession(c)
    <3>1. pc[c] = "close" /\ pc[c] \in PointsOf(c) /\ c \in Threads
      BY <2>3, BaseFacts DEF CloseSession, Threads
    <3>2. QED
      BY <3>1, ThreadKinds DEF ClientPoints
  <2>4. QED
    BY <1>6, <2>1, <2>2, <2>3 DEF Store
<1>7. QED
  BY <1>4, <1>5, <1>6 DEF Client

\* A tick closes the session of a world whose server it has found gone, or another one's.
LEMMA PollerCloses ==
    ASSUME Base, Base', Runtime, NEW t \in Pollers, CloseSession(t)
    PROVE  Runtime'
<1> DEFINE w == at[t].world
<1>1. /\ t \in Threads /\ pc[t] = "close" /\ t # "worker" /\ t # "boot" /\ w \in Worlds
      /\ at[t].reason = "crashed" /\ Up
  <2>1. t \in Threads /\ t # "worker" /\ t # "boot" /\ pc[t] = "close"
    BY RuntimeAssumption DEF Threads, CloseSession
  <2>2. Fits(t, pc[t], at[t]) /\ Runs(t)
    BY <2>1, BaseFacts
  <2>3. QED
    BY <2>1, <2>2 DEF Fits, WithWorld, Runs
<1>2. /\ session' = [session EXCEPT ![w] = IF session[w] = "open" THEN "crashed" ELSE session[w]]
      /\ UNCHANGED <<rows, state, accepted, proc, stray, attached, crashes>>
      /\ Resume(t, "crash", at[t])
  BY <1>1 DEF CloseSession, Goto
<1>3. /\ Still("worker") /\ Still("boot") /\ Up'
      /\ \A v \in Worlds : Closing(v)' => Closing(v)
  BY <1>1, <1>2, OtherMoves
<1>4. /\ session' \in [Worlds -> {"none", "open"} \cup EndReasons]
      /\ \A v \in Worlds : \/ session'[v] = session[v]
                           \/ v = w /\ session[v] = "open" /\ session'[v] = "crashed"
  BY <1>1, <1>2 DEF Base, RestTyped
<1>5. Closing(w)
  BY <1>1 DEF Closing
<1>6. WorkerOK'
  <2>1. CASE pc["worker"] = "idle"
    BY <1>3, <2>1, WorkerElsewhere, ElsewherePoints DEF Still
  <2>2. CASE pc["worker"] # "idle"
    <3>1. at["worker"].world \in Worlds
      BY <2>2, BaseFacts DEF Fits, Threads
    <3>2. pc'["worker"] = pc["worker"] /\ at'["worker"] = at["worker"]
      BY <1>3 DEF Still
    <3>3. LaunchOK'
      BY <1>2, <1>4, <3>1, <3>2 DEF Runtime, WorkerOK, LaunchOK
    <3>4. HaltOK'
      BY <1>2, <1>4, <3>1, <3>2 DEF Runtime, WorkerOK, HaltOK, IsDown, Lost
    <3>5. QED
      BY <3>3, <3>4 DEF WorkerOK
  <2>3. QED
    BY <2>1, <2>2
<1>7. BooksOK'
  <2>1. SUFFICES ASSUME NEW v \in Worlds, state[v] \in {"running", "stopping"}
                 PROVE  /\ proc[v] \in Live /\ session'[v] # "open" =>
                              session'[v] = "crashed" /\ proc[v] = "serving"
                        /\ proc[v] = "booting" => session'[v] = "open" /\ ~Closing(v)'
    BY <1>2 DEF BooksOK
  <2>2. /\ proc[v] \in Live /\ session[v] # "open" =>
              session[v] = "crashed" /\ proc[v] = "serving"
        /\ proc[v] = "booting" => session[v] = "open" /\ ~Closing(v)
    BY <2>1 DEF Runtime, ServersOK, BooksOK
  <2>3. QED
    BY <1>3, <1>4, <1>5, <2>2 DEF Live
<1>8. OffIsDown'
  BY <1>2, <1>4 DEF Runtime, ServersOK, OffIsDown, Lost
<1>9. ServersAreKnown'
  BY <1>1, <1>2, <1>4 DEF Runtime, ServersOK, ServersAreKnown, SingleServer, SessionsAreAttached
<1>10. BootOK'
  BY <1>3, BootOver
<1>11. QED
  BY <1>6, <1>7, <1>8, <1>9, <1>10 DEF Runtime, ServersOK

\* The supervisor's ticks.
LEMMA PollerRuntime ==
    ASSUME Base, Base', Runtime, NEW t \in Pollers, Poller(t)
    PROVE  Runtime'
<1>1. t \in Threads \ {"worker", "boot"} /\ (pc[t] # "idle" => Up)
  <2>1. t \in Threads \ {"worker", "boot"}
    BY RuntimeAssumption DEF Threads
  <2>2. QED
    BY <2>1, BaseFacts DEF Runs
<1>2. ASSUME OthersWrite, UNCHANGED <<servers, crashes>>, NEW p, NEW a, Resume(t, p, a),
             p # "close" \/ (~Reachable(a.world) /\ Up)
      PROVE  Runtime'
  <2>1. /\ Still("worker") /\ Still("boot")
        /\ \A w \in Worlds : Closing(w)' => Closing(w) \/ (p = "close" /\ a.world = w)
    BY <1>1, <1>2, OtherMoves
  <2>2. ASSUME NEW w \in Worlds, Up, ~Reachable(w)
        PROVE  proc[w] # "booting" \/ state[w] \notin {"running", "stopping"}
    BY <2>2 DEF Runtime, ServersOK, BooksOK, ServersAreKnown, SessionsAreAttached, Reachable,
                Live
  <2>3. QED
    BY <1>2, <2>1, <2>2, RuntimeKept
<1>3. ASSUME UNCHANGED <<state, servers, crashes>>, NEW p, NEW a, Resume(t, p, a),
             p # "close" \/ (~Reachable(a.world) /\ Up)
      PROVE  Runtime'
  BY <1>2, <1>3 DEF OthersWrite
<1>4. CASE PollStart(t)
  BY <1>3, <1>4 DEF PollStart
<1>5. CASE Poll(t)
  <2>1. pc[t] = "scan" /\ UNCHANGED <<state, servers, crashes>> /\ Up
    BY <1>1, <1>5 DEF Poll
  <2>2. CASE Goto(t, "idle")
    BY <1>3, <2>1, <2>2 DEF Goto
  <2>3. ASSUME NEW w \in at[t].todo, NEW a,
               a = [world |-> w, op |-> 0, reason |-> "crashed", todo |-> at[t].todo \ {w}],
               Resume(t, IF Reachable(w) THEN "scan" ELSE "close", a)
        PROVE  Runtime'
    <3>1. a.world = w
      BY <2>3
    <3>2. CASE Reachable(w)
      BY <1>3, <2>1, <2>3, <3>2
    <3>3. CASE ~Reachable(w)
      BY <1>3, <2>1, <2>3, <3>1, <3>3
    <3>4. QED
      BY <3>2, <3>3
  <2>4. QED
    BY <1>5, <2>2, <2>3 DEF Poll
<1>6. CASE RecordCrash(t)
  <2>1. /\ UNCHANGED <<state, servers, crashes>>
        /\ \/ Resume(t, "observe", [at[t] EXCEPT !.op = issued + 1])
           \/ Resume(t, "idle", at[t])
    BY <1>6 DEF RecordCrash, Submit, Goto
  <2>2. QED
    BY <1>3, <2>1
<1>7. CASE SetWorldState(t)
  <2>1. PICK p \in {"idle", "complete", "raise", "record", "abort"} : Resume(t, p, at[t])
    BY <1>7, OthersWrites
  <2>2. OthersWrite /\ UNCHANGED <<servers, crashes>> /\ p # "close"
    BY <1>7, OthersWrites
  <2>3. QED
    BY <1>2, <2>1, <2>2
<1>8. CASE SetStatus(t)
  <2>1. PICK p \in {"idle", "accept", "raise", "observed", "scan", "abort"} :
           Resume(t, p, at[t])
    BY <1>8, OthersTransition
  <2>2. OthersWrite /\ UNCHANGED <<servers, crashes>> /\ p # "close"
    BY <1>8, OthersTransition
  <2>3. QED
    BY <1>2, <2>1, <2>2
<1>9. CASE CloseSession(t)
  BY <1>9, PollerCloses
<1>10. QED
  BY <1>4, <1>5, <1>6, <1>7, <1>8, <1>9 DEF Poller, Store
\* What boot moves.
LEMMA BootMoves ==
    ASSUME Base, ~Up, NEW p, NEW a, Resume("boot", p, a)
    PROVE  /\ pc'["boot"] = p /\ at'["boot"] = Kept(p, a) /\ (Up' <=> p = "up")
           /\ DispatcherOwnsWorld' /\ WorkerOK' /\ \A w \in Worlds : ~Closing(w)'
<1>1. /\ "boot" \in Threads /\ "worker" \in Threads \ {"boot"}
      /\ Pollers \subseteq Threads \ {"boot"}
  BY RuntimeAssumption DEF Threads
<1>2. /\ pc'["boot"] = p /\ at'["boot"] = Kept(p, a)
      /\ \A s \in Threads \ {"boot"} : pc'[s] = "idle"
  BY <1>1, Resumed DEF Base, BootsAlone
<1>3. DispatcherOwnsWorld' /\ WorkerOK'
  BY <1>1, <1>2, WorkerElsewhere, ElsewherePoints
<1>4. QED
  BY <1>1, <1>2, <1>3 DEF Closing, Up

\* Boot goes on and changes no server, nor the list of the sessions it is to look at.
LEMMA BootKeeps ==
    ASSUME Base, ~Up, Runtime, NEW p, NEW a, Resume("boot", p, a),
           p \notin {"close", "reattach", "up"},
           p \notin Resting => a.todo = at["boot"].todo /\ pc["boot"] \notin Resting \cup {"close"},
           UNCHANGED <<servers, crashes>>,
           \A w \in Worlds : \/ state'[w] = state[w]
                             \/ /\ state'[w] \notin {"running", "stopping"}
                                /\ state'[w] \in Down => state[w] \in Down
                             \/ session[w] = "open" /\ state'[w] \notin Down
    PROVE  Runtime'
<1>1. /\ pc'["boot"] = p /\ at'["boot"] = Kept(p, a) /\ ~Up'
      /\ WorkerOK' /\ \A w \in Worlds : ~Closing(w)'
  BY BootMoves
<1>2. UNCHANGED <<session, proc, stray, attached, crashes>>
  BY DEF servers
<1>3. BooksOK'
  <2>1. SUFFICES ASSUME NEW w \in Worlds, state'[w] \in {"running", "stopping"}
                 PROVE  /\ proc[w] \in Live /\ session[w] # "open" =>
                              session[w] = "crashed" /\ proc[w] = "serving"
                        /\ proc[w] = "booting" => session[w] = "open"
    BY <1>1, <1>2 DEF BooksOK
  <2>2. state[w] \in {"running", "stopping"} \/ session[w] = "open"
    BY <2>1
  <2>3. QED
    BY <2>2 DEF Runtime, ServersOK, BooksOK
<1>4. OffIsDown'
  BY <1>2 DEF Runtime, ServersOK, OffIsDown, Down, Lost
<1>5. ServersAreKnown'
  BY <1>1, <1>2 DEF Runtime, ServersOK, ServersAreKnown, SingleServer, SessionsAreAttached
<1>6. BootOK'
  <2>1. CASE p \in Resting
    <3>1. at'["boot"].todo = {}
      BY <1>1, <2>1 DEF Kept, NoArgs
    <3>2. QED
      BY <1>1, <1>2, <2>1, <3>1 DEF Runtime, BootOK
  <2>2. CASE p \notin Resting
    <3>1. at'["boot"].todo = at["boot"].todo
      BY <1>1, <2>2 DEF Kept
    <3>2. QED
      BY <1>1, <1>2, <2>2, <3>1 DEF Runtime, BootOK, OpenSessions
  <2>3. QED
    BY <2>1, <2>2
<1>7. QED
  BY <1>1, <1>3, <1>4, <1>5, <1>6 DEF Runtime, ServersOK

\* Boot finds the server of a session, or takes it for gone.
LEMMA BootReattaches ==
    ASSUME Base, Runtime, Reattach
    PROVE  Runtime'
<1>1. /\ ~Up /\ pc["boot"] = "scan" /\ pc["boot"] \notin Resting
      /\ UNCHANGED <<rows, state, accepted, session, proc, stray, crashes>>
  BY DEF Reattach, Up, Resting
<1>2. PICK w \in at["boot"].todo :
         LET a == [world |-> w, op |-> 0, reason |-> "reconciled_missing",
                   todo |-> at["boot"].todo \ {w}] IN
         IF proc[w] \in Live
         THEN attached' = attached \cup {w} /\ Resume("boot", "reattach", a)
         ELSE UNCHANGED attached /\ Resume("boot", "close", a)
  BY DEF Reattach
<1>3. w \in Worlds /\ session[w] = "open" /\ at["boot"].todo \subseteq OpenSessions
  BY DEF Runtime, BootOK, OpenSessions
<1> DEFINE a == [world |-> w, op |-> 0, reason |-> "reconciled_missing",
                 todo |-> at["boot"].todo \ {w}]
           q == IF proc[w] \in Live THEN "reattach" ELSE "close"
<1>4. Resume("boot", q, a) /\ attached' = IF proc[w] \in Live THEN attached \cup {w} ELSE attached
  BY <1>2
<1>5. q \notin Resting /\ q # "up" /\ a.world = w /\ a.todo = at["boot"].todo \ {w}
  BY DEF Resting
<1> HIDE DEF a
<1>6. /\ pc'["boot"] = q /\ at'["boot"] = a /\ ~Up'
      /\ WorkerOK' /\ \A v \in Worlds : ~Closing(v)'
  BY <1>1, <1>4, <1>5, BootMoves DEF Kept
<1>7. BooksOK'
  BY <1>1, <1>6 DEF Runtime, ServersOK, BooksOK
<1>8. OffIsDown'
  <2>1. \A v \in Worlds \ {w} : v \in attached' <=> v \in attached
    BY <1>4
  <2>2. QED
    BY <1>1, <1>3, <2>1 DEF Runtime, ServersOK, OffIsDown, Lost
<1>9. ServersAreKnown'
  BY <1>1, <1>6 DEF Runtime, ServersOK, ServersAreKnown, SingleServer, SessionsAreAttached
<1>10. BootOK'
  <2>1. OpenSessions' = OpenSessions
    BY <1>1 DEF OpenSessions
  <2>2. crashes > 0 /\ OpenSessions \subseteq at["boot"].todo \cup attached
    BY <1>1 DEF Runtime, BootOK
  <2>3. /\ at'["boot"].todo = at["boot"].todo \ {w} /\ at'["boot"].world = w
        /\ crashes' = crashes
    BY <1>1, <1>5, <1>6
  <2>4. CASE proc[w] \in Live
    <3>1. attached' = attached \cup {w} /\ pc'["boot"] = "reattach" /\ session'[w] = "open"
      BY <1>1, <1>3, <1>4, <1>6, <2>4
    <3>2. QED
      BY <1>3, <1>6, <2>1, <2>2, <2>3, <3>1 DEF BootOK
  <2>5. CASE proc[w] \notin Live
    <3>1. attached' = attached /\ pc'["boot"] = "close" /\ proc'[w] \notin Live
      BY <1>1, <1>4, <1>6, <2>5
    <3>2. QED
      BY <1>3, <1>6, <2>1, <2>2, <2>3, <3>1 DEF BootOK
  <2>6. QED
    BY <2>4, <2>5
<1>11. QED
  BY <1>6, <1>7, <1>8, <1>9, <1>10 DEF Runtime, ServersOK

\* Boot closes the session of a world whose server is gone.
LEMMA BootCloses ==
    ASSUME Base, Runtime, CloseSession("boot")
    PROVE  Runtime'
<1> DEFINE w == at["boot"].world
<1>1. /\ ~Up /\ pc["boot"] = "close" /\ pc["boot"] \notin Resting
      /\ Resume("boot", "resolve", at["boot"])
      /\ session' = [session EXCEPT ![w] =
                        IF session[w] = "open" THEN at["boot"].reason ELSE session[w]]
      /\ UNCHANGED <<rows, state, accepted, proc, stray, attached, crashes>>
  <2> DEFINE q == CASE "boot" = "boot"    -> "resolve"
                    [] "boot" \in Pollers -> "crash"
                    [] "boot" = "worker"  ->
                          IF ops[at["boot"].op].type = "Start" THEN "time_out" ELSE "off"
  <2>1. /\ pc["boot"] = "close" /\ Resume("boot", q, at["boot"])
        /\ session' = [session EXCEPT ![w] =
                          IF session[w] = "open" THEN at["boot"].reason ELSE session[w]]
        /\ UNCHANGED <<rows, state, accepted, proc, stray, attached, crashes>>
    BY DEF CloseSession, Goto
  <2>2. q = "resolve"
    BY RuntimeAssumption
  <2> HIDE DEF q
  <2>3. QED
    BY <2>1, <2>2 DEF Up, Resting
<1>2. w \in Worlds /\ at["boot"].reason \in EndReasons
  BY <1>1, BaseFacts DEF Threads, Fits, WithWorld
<1>3. /\ pc'["boot"] = "resolve" /\ at'["boot"] = at["boot"] /\ ~Up'
      /\ WorkerOK' /\ \A v \in Worlds : ~Closing(v)'
  BY <1>1, BootMoves DEF Kept, Resting
<1>4. session'[w] # "open" /\ \A v \in Worlds \ {w} : session'[v] = session[v]
  BY <1>1, <1>2 DEF Base, RestTyped, EndReasons
<1>5. /\ w \notin at["boot"].todo /\ proc[w] \notin Live /\ crashes > 0
      /\ at["boot"].todo \subseteq OpenSessions
      /\ OpenSessions \subseteq at["boot"].todo \cup attached \cup {w}
  BY <1>1 DEF Runtime, BootOK
<1>6. BooksOK'
  BY <1>1, <1>3, <1>4, <1>5 DEF Runtime, ServersOK, BooksOK, Live
<1>7. OffIsDown'
  BY <1>1, <1>4, <1>5 DEF Runtime, ServersOK, OffIsDown, Lost
<1>8. ServersAreKnown'
  BY <1>1, <1>3 DEF Runtime, ServersOK, ServersAreKnown, SingleServer, SessionsAreAttached
<1>9. OpenSessions' = OpenSessions \ {w}
  BY <1>2, <1>4 DEF OpenSessions
<1>10. BootOK'
  BY <1>1, <1>3, <1>5, <1>9 DEF BootOK
<1>11. QED
  BY <1>3, <1>6, <1>7, <1>8, <1>10 DEF Runtime, ServersOK

\* The manager boots.
LEMMA BootRuntime ==
    ASSUME Base, Base', Runtime, Boot
    PROVE  Runtime'
<1> DEFINE b == at["boot"]
<1>1. /\ "boot" \in Threads /\ pc["boot"] \in BootPoints /\ Fits("boot", pc["boot"], b)
      /\ StatesTyped
  BY BaseFacts, ThreadKinds DEF Threads
<1>2. ASSUME UNCHANGED <<state, servers, crashes>>, ~Up, NEW p, NEW a, Resume("boot", p, a),
             p \notin {"close", "reattach", "up"},
             p \notin Resting => a.todo = b.todo /\ pc["boot"] \notin Resting \cup {"close"}
      PROVE  Runtime'
  BY <1>2, BootKeeps
<1>3. CASE BootStart
  <2> DEFINE a == [NoArgs EXCEPT !.todo = OpenSessions]
  <2>1. /\ ~Up /\ Resume("boot", "scan", a) /\ UNCHANGED <<state, servers, crashes>>
    BY <1>3 DEF BootStart, Up
  <2>2. a.todo = OpenSessions /\ "scan" \notin Resting
    BY DEF NoArgs, Resting
  <2>3. /\ pc'["boot"] = "scan" /\ at'["boot"] = a /\ ~Up'
        /\ WorkerOK' /\ \A w \in Worlds : ~Closing(w)'
    BY <2>1, <2>2, BootMoves DEF Kept
  <2> HIDE DEF a
  <2>4. UNCHANGED <<session, proc, stray, attached, crashes>> /\ UNCHANGED state
    BY <2>1 DEF servers
  <2>5. ServersOK'
    BY <2>1, <2>3, ServersKept DEF Runtime, OthersWrite
  <2>6. BootOK'
    BY <2>1, <2>2, <2>3, <2>4 DEF Runtime, BootOK, OpenSessions
  <2>7. QED
    BY <2>3, <2>5, <2>6 DEF Runtime
<1>4. CASE ResolveMissing
  <2>1. /\ ~Up /\ pc["boot"] \notin Resting \cup {"close"}
        /\ UNCHANGED <<state, servers, crashes>>
    BY <1>4 DEF ResolveMissing, Up, Resting
  <2>2. CASE Goto("boot", "crash")
    BY <1>2, <2>1, <2>2 DEF Goto
  <2>3. ASSUME NEW i \in RunningStarts, Resume("boot", "interrupt", [b EXCEPT !.op = i])
        PROVE  Runtime'
    <3>1. [b EXCEPT !.op = i].todo = b.todo
      BY <1>1 DEF Fits, Args
    <3>2. ASSUME NEW a, a.todo = b.todo, Resume("boot", "interrupt", a) PROVE Runtime'
      BY <1>2, <2>1, <3>2
    <3>3. QED
      BY <2>3, <3>1, <3>2
  <2>4. QED
    BY <1>4, <2>2, <2>3 DEF ResolveMissing
<1>5. CASE RecordCrash("boot")
  <2>1. /\ ~Up /\ pc["boot"] \notin Resting \cup {"close"}
        /\ UNCHANGED <<state, servers, crashes>>
        /\ \/ Resume("boot", "observe", [b EXCEPT !.op = issued + 1])
           \/ Resume("boot", "idle", b)
    BY <1>5 DEF RecordCrash, Submit, Goto, Up, Resting
  <2>2. [b EXCEPT !.op = issued + 1].todo = b.todo /\ "idle" \in Resting
    BY <1>1 DEF Fits, Args, Resting
  <2>3. ASSUME NEW a, a.todo = b.todo, NEW p \in {"observe", "idle"}, Resume("boot", p, a)
        PROVE  Runtime'
    BY <1>2, <2>1, <2>3
  <2>4. QED
    BY <2>1, <2>2, <2>3
<1>6. CASE NextInterruptedStart
  <2>1. /\ ~Up /\ pc["boot"] \notin Resting \cup {"close"} /\ b.todo = {}
        /\ UNCHANGED <<state, servers, crashes>>
    BY <1>6 DEF NextInterruptedStart, Up, Resting
  <2>2. CASE Goto("boot", "up")
    <3>1. Resume("boot", "up", b)
      BY <2>2 DEF Goto
    <3>2. Up' /\ WorkerOK' /\ \A w \in Worlds : ~Closing(w)'
      BY <2>1, <3>1, BootMoves
    <3>3. OpenSessions \subseteq attached /\ crashes > 0
      BY <2>1 DEF Runtime, BootOK
    <3>4. UNCHANGED <<session, proc, stray, attached, crashes, state>>
      BY <2>1 DEF servers
    <3>5. ServersAreKnown'
      BY <3>3, <3>4 DEF Runtime, ServersOK, ServersAreKnown, SingleServer,
                        SessionsAreAttached, OpenSessions
    <3>6. BooksOK' /\ OffIsDown'
      BY <3>2, <3>4 DEF Runtime, ServersOK, BooksOK, OffIsDown, Lost
    <3>7. QED
      BY <3>2, <3>5, <3>6, BootOver DEF Runtime, ServersOK
  <2>3. ASSUME NEW i \in RunningStarts,
               Resume("boot", "interrupt", [NoArgs EXCEPT !.world = ops[i].world, !.op = i])
        PROVE  Runtime'
    <3>1. ops[i].world \in Worlds /\ i \in 0 .. MaxOps
      BY RowNumbers DEF RunningStarts, Base, RowsTyped
    <3>2. [NoArgs EXCEPT !.world = ops[i].world, !.op = i].todo = b.todo
      BY <2>1, <3>1, ArgsOfRow
    <3>3. ASSUME NEW a, a.todo = b.todo, Resume("boot", "interrupt", a) PROVE Runtime'
      BY <1>2, <2>1, <3>3
    <3>4. QED
      BY <2>3, <3>2, <3>3
  <2>4. QED
    BY <1>6, <2>2, <2>3 DEF NextInterruptedStart
<1>7. CASE FailInterruptedStart
  <2>1. /\ ~Up /\ pc["boot"] \notin Resting \cup {"close"}
        /\ UNCHANGED <<servers, crashes>>
        /\ \/ /\ state[b.world] \in DOMAIN Interrupted
              /\ state' = [state EXCEPT ![b.world] = Interrupted[state[b.world]]]
           \/ UNCHANGED state
        /\ Goto("boot", "interrupted") \/ Goto("boot", "abort")
    BY <1>7 DEF FailInterruptedStart, Up, Resting
  <2>2. /\ DOMAIN Interrupted = {"starting", "running", "stopping", "queued"}
        /\ Interrupted["queued"] = "off"
        /\ \A s \in DOMAIN Interrupted : /\ Interrupted[s] \in {"error", "crashed", "off"}
                                         /\ Interrupted[s] = "off" => s = "queued"
    BY DEF Interrupted
  <2>3. \A w \in Worlds : \/ state'[w] = state[w]
                          \/ /\ state'[w] \notin {"running", "stopping"}
                             /\ state'[w] \in Down => state[w] \in Down
    BY <1>1, <2>1, <2>2 DEF StatesTyped, Down
  <2>4. \E p \in {"interrupted", "abort"} : Resume("boot", p, b)
    BY <2>1 DEF Goto
  <2>5. QED
    BY <2>1, <2>3, <2>4, BootKeeps
<1>8. CASE SetWorldState("boot")
  <2>1. pc["boot"] \in DOMAIN WorldWrites
    BY <1>8 DEF SetWorldState
  <2>2. pc["boot"] \in {"crash", "reattach"}
    BY <1>1, <2>1, WorldWriteTable DEF BootPoints
  <2>3. b.world \in Worlds /\ ~Up /\ pc["boot"] \notin Resting \cup {"close"}
    BY <1>1, <2>2 DEF Fits, WithWorld, Up, Resting
  <2>4. /\ \/ /\ UNCHANGED state
              /\ Goto("boot", WorldWrites[pc["boot"]].refused)
           \/ /\ state[b.world] \in Sources[pc["boot"]]
              /\ state' = [state EXCEPT ![b.world] = WorldWrites[pc["boot"]].to]
              /\ Goto("boot", WorldWrites[pc["boot"]].next)
        /\ UNCHANGED <<rows, accepted, servers, crashes>>
    BY <1>1, <1>8, <2>3, StateWrite
  <2>5. \E p \in {"record", "abort", "scan"} : Resume("boot", p, b)
    BY <2>2, <2>4, WorldWriteTable DEF Goto
  <2>6. \A w \in Worlds : w # b.world => state'[w] = state[w]
    BY <1>1, <2>4 DEF StatesTyped
  <2>7. \/ state'[b.world] = state[b.world]
        \/ pc["boot"] = "crash" /\ state'[b.world] = "crashed"
        \/ pc["boot"] = "reattach" /\ state'[b.world] = "running"
    BY <1>1, <2>2, <2>3, <2>4, WorldWriteTable DEF StatesTyped
  <2>8. pc["boot"] = "reattach" => session[b.world] = "open"
    BY DEF Runtime, BootOK
  <2>9. \A w \in Worlds : \/ state'[w] = state[w]
                          \/ /\ state'[w] \notin {"running", "stopping"}
                             /\ state'[w] \in Down => state[w] \in Down
                          \/ session[w] = "open" /\ state'[w] \notin Down
    BY <2>6, <2>7, <2>8 DEF Down
  <2>10. QED
    BY <2>3, <2>4, <2>5, <2>9, BootKeeps
<1>9. CASE SetStatus("boot")
  <2>1. /\ pc["boot"] \in DOMAIN StatusWrites /\ UNCHANGED <<state, servers, crashes>>
        /\ \/ Goto("boot", StatusWrites[pc["boot"]].next)
           \/ Goto("boot", StatusWrites[pc["boot"]].refused)
    BY <1>9 DEF SetStatus
  <2>2. pc["boot"] \in {"observe", "observed", "interrupted"}
    BY <1>1, <2>1, StatusWriteTable DEF BootPoints
  <2>3. ~Up /\ pc["boot"] \notin Resting \cup {"close"}
    BY <2>2 DEF Up, Resting
  <2>4. PICK p \in {"observed", "abort", "scan"} : Resume("boot", p, b)
    BY <2>1, <2>2, StatusWriteTable DEF Goto
  <2>5. QED
    BY <1>2, <2>1, <2>3, <2>4
<1>10. CASE CloseSession("boot")
  BY <1>10, BootCloses
<1>11. CASE Reattach
  BY <1>11, BootReattaches
<1>12. QED
  BY <1>3, <1>4, <1>5, <1>6, <1>7, <1>8, <1>9, <1>10, <1>11 DEF Boot, Store
\* What the dispatcher moves.
LEMMA WorkerMoves ==
    ASSUME Base, Up, NEW p, NEW a, Resume("worker", p, a)
    PROVE  /\ pc'["worker"] = p /\ at'["worker"] = Kept(p, a) /\ Up'
           /\ \A w \in Worlds : Closing(w)' => Closing(w)
<1>1. /\ "worker" \in Threads /\ "boot" \in Threads \ {"worker"}
      /\ Pollers \subseteq Threads \ {"worker"}
  BY RuntimeAssumption DEF Threads
<1>2. /\ pc'["worker"] = p /\ at'["worker"] = Kept(p, a)
      /\ \A s \in Threads \ {"worker"} : pc'[s] = pc[s] /\ at'[s] = at[s]
  BY <1>1, Resumed DEF Base
<1>3. QED
  BY <1>1, <1>2 DEF Closing, Up

\* What the dispatcher has at hand.
LEMMA WorkerHas ==
    ASSUME Base, pc["worker"] # "idle"
    PROVE  /\ at["worker"].world \in Worlds /\ Up /\ at["worker"] \in Args
           /\ at["worker"].op \in 1 .. issued
           /\ ops[at["worker"].op].type \in Ops!RuntimeTypes
           /\ pc["worker"] \in StartPoints => ops[at["worker"].op].type = "Start"
           /\ pc["worker"] \in EndPoints => Halts(at["worker"].op)
           /\ ops[at["worker"].op].type = "Start" <=> ~Halts(at["worker"].op)
<1>1. /\ "worker" \in Threads /\ "worker" # "boot" /\ Fits("worker", pc["worker"], at["worker"])
      /\ Runs("worker") /\ KindsOf("worker") = Ops!RuntimeTypes
  BY BaseFacts DEF Threads, KindsOf
<1>2. QED
  BY <1>1 DEF Fits, Runs, Halts, Ops!RuntimeTypes

\* It goes on to a point that nothing is said about, and changes nothing else of the runtime.
LEMMA WorkerQuiet ==
    ASSUME Base, Base', Up, Runtime, UNCHANGED <<state, servers, crashes>>,
           NEW p \in Elsewhere, NEW a, Resume("worker", p, a)
    PROVE  Runtime'
<1>1. /\ pc'["worker"] = p /\ Up' /\ \A w \in Worlds : Closing(w)' => Closing(w)
  BY WorkerMoves
<1>2. ServersOK'
  BY <1>1, ServersKept DEF Runtime, OthersWrite
<1>3. QED
  BY <1>1, <1>2, WorkerElsewhere, BootOver DEF Runtime

\* It sets the state of its world.
LEMMA WorkerWrites ==
    ASSUME Base, Base', Up, Runtime, UNCHANGED <<servers, crashes>>,
           NEW p, Resume("worker", p, at["worker"]), NEW to,
           at["worker"].world \in Worlds, state' = [state EXCEPT ![at["worker"].world] = to],
           to \in Down => IsDown(at["worker"].world),
           to \in {"running", "stopping"} =>
               \/ state[at["worker"].world] \in {"running", "stopping"}
               \/ /\ session[at["worker"].world] \in {"open", "crashed"}
                  /\ proc[at["worker"].world] \in {"serving", "dead"}
    PROVE  ServersOK' /\ BootOK'
<1> DEFINE W == at["worker"].world
<1>1. Up' /\ \A w \in Worlds : Closing(w)' => Closing(w)
  BY WorkerMoves
<1>2. UNCHANGED <<session, proc, stray, attached, crashes>>
  BY DEF servers
<1>3. state'[W] = to /\ \A w \in Worlds \ {W} : state'[w] = state[w]
  BY DEF Base, StatesTyped
<1> HIDE DEF W
<1>4. BooksOK'
  <2>1. SUFFICES ASSUME NEW w \in Worlds, state'[w] \in {"running", "stopping"}
                 PROVE  /\ proc[w] \in Live /\ session[w] # "open" =>
                              session[w] = "crashed" /\ proc[w] = "serving"
                        /\ proc[w] = "booting" => session[w] = "open" /\ ~Closing(w)'
    BY <1>2 DEF BooksOK
  <2>2. CASE state[w] \in {"running", "stopping"}
    BY <1>1, <2>2 DEF Runtime, ServersOK, BooksOK
  <2>3. CASE state[w] \notin {"running", "stopping"}
    <3>1. w = W
      BY <1>3, <2>1, <2>3
    <3>2. session[w] \in {"open", "crashed"} /\ proc[w] \in {"serving", "dead"}
      BY <1>3, <2>1, <2>3, <3>1 DEF W
    <3>3. QED
      BY <3>2 DEF Live
  <2>4. QED
    BY <2>2, <2>3
<1>5. OffIsDown'
  <2>1. SUFFICES ASSUME NEW w \in Worlds, state'[w] \in Down PROVE IsDown(w)
    BY <1>2 DEF OffIsDown, IsDown, Down, Lost
  <2>2. CASE w = W
    BY <1>3, <2>1, <2>2 DEF W
  <2>3. CASE w # W
    BY <1>3, <2>1, <2>3 DEF Runtime, ServersOK, OffIsDown, IsDown, Down
  <2>4. QED
    BY <2>2, <2>3
<1>6. ServersAreKnown'
  BY <1>1, <1>2 DEF Runtime, ServersOK, ServersAreKnown, SingleServer, SessionsAreAttached,
                    Up
<1>7. QED
  BY <1>1, <1>4, <1>5, <1>6, BootOver DEF ServersOK
\* The dispatcher's writes to the state of its world.
LEMMA WorkerWrite ==
    ASSUME Base, SetWorldState("worker")
    PROVE  /\ pc["worker"] \in {"require_eula", "error", "queue", "launch", "confirm",
                                "time_out", "stopping", "off"}
           /\ UNCHANGED <<rows, servers, crashes>>
           /\ \/ UNCHANGED state /\ Resume("worker", "raise", at["worker"])
              \/ /\ state[at["worker"].world] \in Sources[pc["worker"]]
                 /\ state' = [state EXCEPT ![at["worker"].world] =
                                               WorldWrites[pc["worker"]].to]
                 /\ Resume("worker", WorldWrites[pc["worker"]].next, at["worker"])
<1> DEFINE p == pc["worker"]
<1>1. p \in WorkerPoints /\ p \in DOMAIN WorldWrites /\ StatesTyped
  BY BaseFacts, ThreadKinds DEF Threads, SetWorldState
<1>2. p \in {"require_eula", "error", "queue", "launch", "confirm", "time_out", "stopping", "off"}
  BY <1>1, WorldWriteTable DEF WorkerPoints, StartPoints, EndPoints
<1>3. at["worker"].world \in Worlds
  BY <1>2, WorkerHas
<1>4. /\ UNCHANGED <<rows, accepted, servers, crashes>>
      /\ \/ UNCHANGED state /\ Goto("worker", WorldWrites[p].refused)
         \/ /\ state[at["worker"].world] \in Sources[p]
            /\ state' = [state EXCEPT ![at["worker"].world] = WorldWrites[p].to]
            /\ Goto("worker", WorldWrites[p].next)
  BY <1>1, <1>3, StateWrite
<1>5. WorldWrites[p].refused = "raise"
  BY <1>2, WorldWriteTable
<1>6. QED
  BY <1>2, <1>4, <1>5 DEF Goto

\* Where each of them is made from, and where it leads.
LEMMA WorkerWriteTable ==
    ASSUME NEW p \in {"require_eula", "error", "queue", "launch", "confirm", "time_out",
                      "stopping", "off"}
    PROVE  /\ p = "require_eula" => /\ Sources[p] = {"off", "eula_required"}
                                    /\ WorldWrites[p].to = "eula_required"
                                    /\ WorldWrites[p].next = "raise"
           /\ p \in {"error", "time_out"} => /\ WorldWrites[p].to = "error"
                                             /\ WorldWrites[p].next \in {"raise", "timed_out"}
           /\ p = "queue" => /\ Sources[p] = {"off", "queued"} /\ WorldWrites[p].to = "queued"
                             /\ WorldWrites[p].next = "launch"
           /\ p = "launch" => /\ WorldWrites[p].to = "starting" /\ WorldWrites[p].next = "spawn"
           /\ p = "confirm" => /\ WorldWrites[p].to = "running"
                               /\ WorldWrites[p].next = "complete"
           /\ p = "stopping" => /\ Sources[p] = {"running", "stopping"}
                                /\ WorldWrites[p].to = "stopping"
                                /\ WorldWrites[p].next = "halt"
           /\ p = "off" => /\ WorldWrites[p].to = "off" /\ WorldWrites[p].next = "complete"
BY WorldWriteTable DEF Sources

\* The writes keep the servers where they are known to be.
LEMMA WorkerSetsState ==
    ASSUME Base, Base', Runtime, SetWorldState("worker")
    PROVE  Runtime'
<1> DEFINE W == at["worker"].world
           p == pc["worker"]
           to == WorldWrites[p].to
           next == WorldWrites[p].next
<1>1. p \in {"require_eula", "error", "queue", "launch", "confirm", "time_out", "stopping", "off"}
  BY WorkerWrite
<1>2. W \in Worlds /\ Up /\ W = at["worker"].world
  BY <1>1, WorkerHas
<1>3. UNCHANGED <<rows, servers, crashes>> /\ UNCHANGED <<session, proc, stray, attached>>
  BY WorkerWrite DEF servers
<1>4. /\ p = "queue" /\ state[W] \in Down => proc[W] \notin Live
      /\ p \in {"launch", "spawn"} => proc[W] \notin Live
      /\ p = "confirm" => session[W] \in {"open", "crashed"} /\ proc[W] \in {"serving", "dead"}
      /\ p = "off" => IsDown(W)
  BY DEF Runtime, WorkerOK, LaunchOK, HaltOK
<1>5. state[W] \in Down => IsDown(W)
  BY <1>2 DEF Runtime, ServersOK, OffIsDown, IsDown, Down
<1>6. CASE UNCHANGED state /\ Resume("worker", "raise", at["worker"])
  BY <1>2, <1>3, <1>6, WorkerQuiet, ElsewherePoints
<1>7. CASE /\ state[W] \in Sources[p] /\ state' = [state EXCEPT ![W] = to]
           /\ Resume("worker", next, at["worker"])
  <2>1. to \in Down => IsDown(W)
    BY <1>1, <1>4, <1>5, <1>7, WorkerWriteTable DEF Down
  <2>2. to \in {"running", "stopping"} =>
            \/ state[W] \in {"running", "stopping"}
            \/ session[W] \in {"open", "crashed"} /\ proc[W] \in {"serving", "dead"}
    BY <1>1, <1>4, <1>7, WorkerWriteTable
  <2>3. ServersOK' /\ BootOK'
    <3>1. ASSUME NEW q, NEW v, q = next, v = to PROVE ServersOK' /\ BootOK'
      BY <1>2, <1>3, <1>7, <2>1, <2>2, <3>1, WorkerWrites
    <3>2. QED
      BY <3>1
  <2>4. /\ pc'["worker"] = next /\ at'["worker"] = Kept(next, at["worker"])
    <3>1. ASSUME NEW q, q = next PROVE pc'["worker"] = q /\ at'["worker"] = Kept(q, at["worker"])
      BY <1>2, <1>7, <3>1, WorkerMoves
    <3>2. QED
      BY <3>1
  <2>5. WorkerOK'
    <3>1. CASE next \in Elsewhere
      BY <2>4, <3>1, WorkerElsewhere
    <3>2. CASE next \notin Elsewhere
      <4>1. \/ p = "queue" /\ next = "launch" /\ state[W] \in Down
            \/ p = "launch" /\ next = "spawn"
            \/ p = "stopping" /\ next = "halt"
        <5>1. CASE p \in {"require_eula", "error", "time_out", "confirm", "off"}
          BY <3>2, <5>1, WorkerWriteTable, ElsewherePoints
        <5>2. CASE p \in {"queue", "launch", "stopping"}
          BY <1>7, <5>2, WorkerWriteTable DEF Down
        <5>3. QED
          BY <1>1, <5>1, <5>2
      <4>2. /\ pc'["worker"] \in {"launch", "spawn", "halt"}
            /\ at'["worker"] = at["worker"]
        BY <2>4, <4>1 DEF Kept, Resting
      <4>3. pc'["worker"] \in {"launch", "spawn"} => proc[W] \notin Live
        BY <1>4, <2>4, <4>1
      <4>4. QED
        BY <1>3, <4>2, <4>3 DEF WorkerOK, LaunchOK, HaltOK
    <3>3. QED
      BY <3>1, <3>2
  <2>6. QED
    BY <2>3, <2>5 DEF Runtime
<1>8. QED
  BY <1>6, <1>7, WorkerWrite

\* The dispatcher's transitions of its row.
LEMMA WorkerTransition ==
    ASSUME Base, SetStatus("worker")
    PROVE  /\ UNCHANGED <<state, servers, crashes>> /\ Up
           /\ \E p \in Elsewhere : Resume("worker", p, at["worker"])
<1> DEFINE p == pc["worker"]
<1>1. /\ p \in DOMAIN StatusWrites /\ UNCHANGED <<state, accepted, servers, crashes>>
      /\ Goto("worker", StatusWrites[p].next) \/ Goto("worker", StatusWrites[p].refused)
  BY DEF SetStatus
<1>2. p \in WorkerPoints
  BY BaseFacts, ThreadKinds DEF Threads
<1>3. p \in {"validate", "cancel", "fail_eula", "fail_start", "timed_out", "run", "complete",
             "raise"}
  BY <1>1, <1>2, StatusWriteTable DEF WorkerPoints, StartPoints, EndPoints
<1>4. {StatusWrites[p].next, StatusWrites[p].refused} \subseteq Elsewhere
  BY <1>3, StatusWriteTable, ElsewherePoints
<1>5. QED
  BY <1>1, <1>3, <1>4, WorkerHas DEF Goto

\* The dispatcher's call of _close_session.
LEMMA WorkerClose ==
    ASSUME CloseSession("worker")
    PROVE  /\ pc["worker"] = "close"
           /\ Resume("worker", IF ops[at["worker"].op].type = "Start" THEN "time_out" ELSE "off",
                     at["worker"])
           /\ session' = [session EXCEPT ![at["worker"].world] =
                             IF session[at["worker"].world] = "open" THEN at["worker"].reason
                             ELSE session[at["worker"].world]]
           /\ UNCHANGED <<rows, state, accepted, proc, stray, attached, crashes>>
<1> DEFINE W == at["worker"].world
           r == at["worker"].reason
           q == IF ops[at["worker"].op].type = "Start" THEN "time_out" ELSE "off"
           next == CASE "worker" = "boot"    -> "resolve"
                     [] "worker" \in Pollers -> "crash"
                     [] "worker" = "worker"  -> q
<1>1. /\ pc["worker"] = "close" /\ Resume("worker", next, at["worker"])
      /\ session' = [session EXCEPT ![W] = IF session[W] = "open" THEN r ELSE session[W]]
      /\ UNCHANGED <<rows, state, accepted, proc, stray, attached, crashes>>
  BY DEF CloseSession, Goto
<1> HIDE DEF q
<1>2. next = q
  BY RuntimeAssumption
<1> HIDE DEF next
<1>3. QED
  BY <1>1, <1>2 DEF q

\* The dispatcher closes the session of the world it has halted or failed to start.
LEMMA WorkerClosesSession ==
    ASSUME Base, Base', Runtime, CloseSession("worker")
    PROVE  Runtime'
<1> DEFINE W == at["worker"].world
           r == at["worker"].reason
           q == IF ops[at["worker"].op].type = "Start" THEN "time_out" ELSE "off"
<1>1. /\ pc["worker"] = "close" /\ Resume("worker", q, at["worker"])
      /\ session' = [session EXCEPT ![W] = IF session[W] = "open" THEN r ELSE session[W]]
      /\ UNCHANGED <<rows, state, accepted, proc, stray, attached, crashes>>
  BY WorkerClose
<1>2. W \in Worlds /\ Up /\ r \in EndReasons
  BY <1>1, WorkerHas, BaseFacts DEF Threads, Fits
<1>3. /\ pc'["worker"] = q /\ at'["worker"] = at["worker"] /\ Up'
      /\ \A w \in Worlds : Closing(w)' => Closing(w)
  BY <1>1, <1>2, WorkerMoves DEF Kept, Resting
<1>4. proc[W] \in Live => Lost(W)
  BY <1>1 DEF Runtime, WorkerOK, HaltOK
<1>5. /\ session'[W] # "open" /\ (proc[W] \in Live => session'[W] = session[W])
      /\ \A w \in Worlds \ {W} : session'[w] = session[w]
  BY <1>1, <1>2, <1>4 DEF Base, RestTyped, EndReasons, Lost
<1>6. \A w : w = W /\ proc[w] \in Live => Lost(w)'
  BY <1>1, <1>4, <1>5 DEF Lost
<1>7. WorkerOK'
  <2>1. CASE q = "time_out"
    BY <1>3, <2>1, WorkerElsewhere, ElsewherePoints
  <2>2. CASE q = "off"
    BY <1>1, <1>3, <1>5, <1>6, <2>2 DEF WorkerOK, LaunchOK, HaltOK, IsDown
  <2>3. QED
    BY <2>1, <2>2
<1>8. BooksOK'
  <2>1. SUFFICES ASSUME NEW w \in Worlds, state[w] \in {"running", "stopping"}
                 PROVE  /\ proc[w] \in Live /\ session'[w] # "open" =>
                              session'[w] = "crashed" /\ proc[w] = "serving"
                        /\ proc[w] = "booting" => session'[w] = "open" /\ ~Closing(w)'
    BY <1>1 DEF BooksOK
  <2>2. CASE w = W
    <3>1. proc[w] \in Live => session'[w] = "crashed" /\ proc[w] = "serving"
      BY <1>4, <1>5, <2>2 DEF Lost
    <3>2. QED
      BY <3>1 DEF Live
  <2>3. CASE w # W
    <3>1. session'[w] = session[w]
      BY <1>5, <2>3
    <3>2. QED
      BY <1>3, <2>1, <3>1 DEF Runtime, ServersOK, BooksOK
  <2>4. QED
    BY <2>2, <2>3
<1>9. OffIsDown'
  <2>1. SUFFICES ASSUME NEW w \in Worlds, state[w] \in Down PROVE IsDown(w)'
    BY <1>1 DEF OffIsDown, IsDown, Down
  <2>2. CASE w = W
    BY <1>1, <1>5, <1>6, <2>2 DEF IsDown
  <2>3. CASE w # W
    BY <1>1, <1>5, <2>1, <2>3 DEF Runtime, ServersOK, OffIsDown, IsDown, Lost, Down
  <2>4. QED
    BY <2>2, <2>3
<1>10. ServersAreKnown'
  BY <1>1, <1>2, <1>5 DEF Runtime, ServersOK, ServersAreKnown, SingleServer,
                          SessionsAreAttached
<1>11. QED
  BY <1>3, <1>7, <1>8, <1>9, <1>10, BootOver DEF Runtime, ServersOK
\* Where the dispatcher goes after it has looked at the world and the gate.
LEMMA LaunchChecked ==
    ASSUME CheckLaunch
    PROVE  /\ pc["worker"] \in {"check", "recheck"}
           /\ UNCHANGED <<rows, state, accepted, servers, crashes>>
           /\ \E q \in {"raise", "cancel", "validate", "queue", "require_eula", "fail_eula",
                        "fail_start"} :
                 /\ Resume("worker", q, at["worker"])
                 /\ q = "queue" => proc[at["worker"].world] # "serving"
<1> DEFINE first == pc["worker"] = "check"
           W == at["worker"].world
<1>1. /\ pc["worker"] \in {"check", "recheck"}
      /\ UNCHANGED <<rows, state, accepted, servers, crashes>>
      /\ \/ Resume("worker", IF first THEN "raise" ELSE "cancel", at["worker"])
         \/ \E o \in Gate(W) : Resume("worker", AfterGate(first, o), at["worker"])
  BY DEF CheckLaunch, Goto
<1>2. Gate(W) \subseteq {"pass", "eula", "reject"} /\ ("pass" \in Gate(W) => proc[W] # "serving")
  BY DEF Gate, Preconditions
<1>3. \A o \in {"pass", "eula", "reject"} :
        /\ AfterGate(first, o) \in {"validate", "queue", "require_eula", "fail_eula", "raise",
                                    "fail_start"}
        /\ AfterGate(first, o) = "queue" => o = "pass"
  BY DEF AfterGate
<1>4. ASSUME NEW o \in Gate(W), Resume("worker", AfterGate(first, o), at["worker"])
      PROVE  \E q \in {"raise", "cancel", "validate", "queue", "require_eula", "fail_eula",
                       "fail_start"} :
                 /\ Resume("worker", q, at["worker"])
                 /\ q = "queue" => proc[at["worker"].world] # "serving"
  <2> DEFINE q == AfterGate(first, o)
  <2>1. /\ q \in {"validate", "queue", "require_eula", "fail_eula", "raise", "fail_start"}
        /\ q = "queue" => proc[at["worker"].world] # "serving"
    BY <1>2, <1>3
  <2>2. Resume("worker", q, at["worker"])
    BY <1>4
  <2> HIDE DEF q
  <2>3. QED
    BY <2>1, <2>2
<1>5. QED
  BY <1>1, <1>4

\* At most points nothing is said about whose the world is.
LEMMA OwnsElsewhere ==
    pc'["worker"] \notin Launching \cup Halting => DispatcherOwnsWorld'
BY DEF DispatcherOwnsWorld

\* The dispatcher keeps the state it has set while it launches or halts.
LEMMA DispatcherOwns ==
    ASSUME Base, DispatcherOwnsWorld, Dispatcher
    PROVE  DispatcherOwnsWorld'
<1> DEFINE W == at["worker"].world
<1>0. ASSUME Up, NEW p, NEW a, Resume("worker", p, a), p \notin Launching \cup Halting
      PROVE  DispatcherOwnsWorld'
  BY <1>0, WorkerMoves, OwnsElsewhere
<1>1. {"idle", "check", "run", "raise", "cancel", "validate", "queue", "require_eula", "fail_eula",
       "fail_start", "launch", "complete", "timed_out", "time_out", "recheck", "error",
       "stopping"} \cap (Launching \cup Halting) = {}
  BY DEF Launching, Halting
<1>2. ASSUME NEW i \in 1 .. MaxOps, Dispatch(i) PROVE DispatcherOwnsWorld'
  BY <1>0, <1>1, <1>2 DEF Dispatch
<1>3. CASE CheckLaunch
  <2>1. PICK q \in {"raise", "cancel", "validate", "queue", "require_eula", "fail_eula",
                    "fail_start"} : Resume("worker", q, at["worker"])
    BY <1>3, LaunchChecked
  <2>2. Up
    BY <1>3, LaunchChecked, WorkerHas
  <2>3. QED
    BY <1>0, <1>1, <2>1, <2>2
<1>4. CASE Spawn
  <2>1. /\ pc["worker"] = "spawn" /\ UNCHANGED state
        /\ \/ Resume("worker", "fail_start", at["worker"])
           \/ Resume("worker", "open_session", at["worker"])
    BY <1>4 DEF Spawn, Goto
  <2>2. Up /\ state[W] = "starting"
    BY <2>1, WorkerHas DEF DispatcherOwnsWorld, Launching
  <2>3. CASE Resume("worker", "fail_start", at["worker"])
    BY <1>0, <1>1, <2>2, <2>3
  <2>4. CASE Resume("worker", "open_session", at["worker"])
    <3>1. pc'["worker"] = "open_session" /\ at'["worker"] = at["worker"]
      BY <2>2, <2>4, WorkerMoves DEF Kept, Resting
    <3>2. QED
      BY <2>1, <2>2, <3>1 DEF DispatcherOwnsWorld, Halting
  <2>5. QED
    BY <2>1, <2>3, <2>4
<1>5. CASE OpenSession
  <2>1. /\ pc["worker"] = "open_session" /\ UNCHANGED state
        /\ \/ Resume("worker", "fail_start", at["worker"])
           \/ Resume("worker", "await", at["worker"])
    BY <1>5 DEF OpenSession, Goto
  <2>2. Up /\ state[W] = "starting"
    BY <2>1, WorkerHas DEF DispatcherOwnsWorld, Launching
  <2>3. CASE Resume("worker", "fail_start", at["worker"])
    BY <1>0, <1>1, <2>2, <2>3
  <2>4. CASE Resume("worker", "await", at["worker"])
    <3>1. pc'["worker"] = "await" /\ at'["worker"] = at["worker"]
      BY <2>2, <2>4, WorkerMoves DEF Kept, Resting
    <3>2. QED
      BY <2>1, <2>2, <3>1 DEF DispatcherOwnsWorld, Halting
  <2>5. QED
    BY <2>1, <2>3, <2>4
<1>6. CASE AwaitReadiness
  <2>1. /\ pc["worker"] = "await" /\ UNCHANGED <<rows, state>>
        /\ \/ Resume("worker", "confirm", at["worker"])
           \/ Resume("worker", "close", [at["worker"] EXCEPT !.reason = "crashed"])
    BY <1>6 DEF AwaitReadiness, Goto
  <2>2. /\ Up /\ state[W] = "starting" /\ at["worker"] \in Args
        /\ ops[at["worker"].op].type = "Start"
    BY <2>1, WorkerHas DEF DispatcherOwnsWorld, Launching, StartPoints
  <2>3. CASE Resume("worker", "confirm", at["worker"])
    <3>1. pc'["worker"] = "confirm" /\ at'["worker"] = at["worker"]
      BY <2>2, <2>3, WorkerMoves DEF Kept, Resting
    <3>2. QED
      BY <2>1, <2>2, <3>1 DEF DispatcherOwnsWorld, Halting
  <2>4. CASE Resume("worker", "close", [at["worker"] EXCEPT !.reason = "crashed"])
    <3>1. /\ pc'["worker"] = "close"
          /\ at'["worker"] = [at["worker"] EXCEPT !.reason = "crashed"]
      BY <2>2, <2>4, WorkerMoves DEF Kept, Resting
    <3>2. at'["worker"].op = at["worker"].op
      BY <2>2, <3>1, ArgSet DEF EndReasons
    <3>3. ops' = ops
      BY <2>1 DEF rows
    <3>4. QED
      BY <2>2, <3>1, <3>2, <3>3 DEF DispatcherOwnsWorld, Launching, Halts
  <2>5. QED
    BY <2>1, <2>3, <2>4
<1>7. CASE Halt
  <2>1. /\ pc["worker"] = "halt" /\ UNCHANGED <<rows, state>>
        /\ \E r \in {"graceful_stop", "forced_stop"} :
              Resume("worker", "close", [at["worker"] EXCEPT !.reason = r])
    BY <1>7 DEF Halt
  <2>2. /\ Up /\ Halts(at["worker"].op) /\ at["worker"] \in Args
    BY <2>1, WorkerHas DEF EndPoints
  <2>3. state[W] = "stopping"
    BY <2>1, <2>2 DEF DispatcherOwnsWorld, Halting
  <2>4. PICK r \in {"graceful_stop", "forced_stop"} :
           Resume("worker", "close", [at["worker"] EXCEPT !.reason = r])
    BY <2>1
  <2>5. /\ pc'["worker"] = "close" /\ at'["worker"] = [at["worker"] EXCEPT !.reason = r]
    BY <2>2, <2>4, WorkerMoves DEF Kept, Resting
  <2>6. at'["worker"].world = W
    BY <2>2, <2>5, ArgSet DEF EndReasons
  <2>7. QED
    BY <2>1, <2>3, <2>5, <2>6 DEF DispatcherOwnsWorld, Launching
<1>8. CASE SetWorldState("worker")
  <2> DEFINE p == pc["worker"]
             next == WorldWrites[p].next
             to == WorldWrites[p].to
  <2>1. /\ p \in {"require_eula", "error", "queue", "launch", "confirm", "time_out", "stopping",
                  "off"}
        /\ \/ UNCHANGED state /\ Resume("worker", "raise", at["worker"])
           \/ /\ state' = [state EXCEPT ![W] = to]
              /\ Resume("worker", next, at["worker"])
    BY <1>8, WorkerWrite
  <2>2. W \in Worlds /\ Up
    BY <2>1, WorkerHas
  <2>3. CASE UNCHANGED state /\ Resume("worker", "raise", at["worker"])
    BY <1>0, <1>1, <2>2, <2>3
  <2>4. CASE state' = [state EXCEPT ![W] = to] /\ Resume("worker", next, at["worker"])
    <3>1. state'[W] = to
      BY <2>2, <2>4 DEF Base, StatesTyped
    <3>2. \/ next \in {"launch", "complete", "raise", "timed_out"}
          \/ next = "spawn" /\ to = "starting"
          \/ next = "halt" /\ to = "stopping"
      BY <2>1, WorkerWriteTable
    <3> HIDE DEF next, to
    <3>3. CASE next \in {"launch", "complete", "raise", "timed_out"}
      BY <1>0, <1>1, <2>2, <2>4, <3>3
    <3>4. CASE next \in {"spawn", "halt"}
      <4>1. pc'["worker"] = next /\ at'["worker"] = at["worker"]
        BY <2>2, <2>4, <3>4, WorkerMoves DEF Kept, Resting
      <4>2. QED
        BY <3>1, <3>2, <3>4, <4>1 DEF DispatcherOwnsWorld, Launching, Halting
    <3>5. QED
      BY <3>2, <3>3, <3>4
  <2>5. QED
    BY <2>1, <2>3, <2>4
<1>9. CASE SetStatus("worker")
  <2>1. /\ Up /\ \E p \in Elsewhere : Resume("worker", p, at["worker"])
    BY <1>9, WorkerTransition
  <2>2. Elsewhere \cap (Launching \cup Halting) = {}
    BY DEF Elsewhere
  <2>3. QED
    BY <1>0, <2>1, <2>2
<1>10. CASE CloseSession("worker")
  <2> DEFINE q == IF ops[at["worker"].op].type = "Start" THEN "time_out" ELSE "off"
  <2>1. pc["worker"] = "close" /\ Resume("worker", q, at["worker"]) /\ UNCHANGED <<rows, state>>
    BY <1>10, WorkerClose
  <2>2. Up /\ (q = "off" => Halts(at["worker"].op))
    BY <2>1, WorkerHas
  <2>3. CASE q = "time_out"
    BY <1>0, <1>1, <2>1, <2>2, <2>3
  <2>4. CASE q = "off"
    <3>1. state[W] = "stopping"
      BY <2>1, <2>2, <2>4 DEF DispatcherOwnsWorld, Halting
    <3>2. pc'["worker"] = "off" /\ at'["worker"] = at["worker"]
      BY <2>1, <2>2, <2>4, WorkerMoves DEF Kept, Resting
    <3>3. QED
      BY <2>1, <3>1, <3>2 DEF DispatcherOwnsWorld, Launching
  <2>5. QED
    BY <2>3, <2>4
<1>11. QED
  BY <1>2, <1>3, <1>4, <1>5, <1>6, <1>7, <1>8, <1>9, <1>10 DEF Dispatcher, Store
\* Nobody else gets in between.
LEMMA OwnsStep ==
    ASSUME Base, Base', RowsStep, DispatcherOwnsWorld, Next
    PROVE  DispatcherOwnsWorld'
<1>1. CASE Request \/ \E c \in Clients : Client(c)
  <2>1. CASE UNCHANGED <<state, pc, at>>
    BY <2>1, OwnsKept DEF OthersWrite, Still
  <2>2. ASSUME NEW c \in Clients, OthersWrite, NEW p, NEW a, Resume(c, p, a)
        PROVE  DispatcherOwnsWorld'
    <3>1. c \in Threads \ {"worker", "boot"}
      BY RuntimeAssumption DEF Threads
    <3>2. QED
      BY <2>2, <3>1, OtherMoves, OwnsKept
  <2>3. ASSUME NEW c \in Clients, UNCHANGED state, NEW p, NEW a, Resume(c, p, a)
        PROVE  DispatcherOwnsWorld'
    BY <2>2, <2>3 DEF OthersWrite
  <2>4. CASE Request
    BY <2>1, <2>3, <2>4 DEF Request, RequestStart, RequestAcceptance, RequestEnd
  <2>5. ASSUME NEW c \in Clients, EnqueueStart(c) \/ EnqueueAcceptance(c) \/ AcceptEula(c)
        PROVE  DispatcherOwnsWorld'
    BY <2>3, <2>5 DEF EnqueueStart, EnqueueAcceptance, AcceptEula, Submit, Goto
  <2>6. ASSUME NEW c \in Clients, Store(c) PROVE DispatcherOwnsWorld'
    <3>1. CASE SetWorldState(c)
      BY <2>2, <3>1, OthersWrites
    <3>2. CASE SetStatus(c)
      BY <2>2, <3>2, OthersTransition
    <3>3. CASE CloseSession(c)
      BY <2>3, <3>3 DEF CloseSession, Goto
    <3>4. QED
      BY <2>6, <3>1, <3>2, <3>3 DEF Store
  <2>7. QED
    BY <1>1, <2>4, <2>5, <2>6 DEF Client
<1>2. ASSUME NEW t \in Pollers, Poller(t) PROVE DispatcherOwnsWorld'
  <2>1. ASSUME OthersWrite, NEW p, NEW a, Resume(t, p, a) PROVE DispatcherOwnsWorld'
    <3>1. t \in Threads \ {"worker", "boot"}
      BY RuntimeAssumption DEF Threads
    <3>2. QED
      BY <2>1, <3>1, OtherMoves, OwnsKept
  <2>2. ASSUME UNCHANGED state, NEW p, NEW a, Resume(t, p, a) PROVE DispatcherOwnsWorld'
    BY <2>1, <2>2 DEF OthersWrite
  <2>3. CASE PollStart(t) \/ Poll(t)
    BY <2>2, <2>3 DEF PollStart, Poll, Goto
  <2>4. CASE RecordCrash(t)
    BY <2>2, <2>4 DEF RecordCrash, Submit, Goto
  <2>5. CASE SetWorldState(t)
    BY <2>1, <2>5, OthersWrites
  <2>6. CASE SetStatus(t)
    BY <2>1, <2>6, OthersTransition
  <2>7. CASE CloseSession(t)
    BY <2>2, <2>7 DEF CloseSession, Goto
  <2>8. QED
    BY <1>2, <2>3, <2>4, <2>5, <2>6, <2>7 DEF Poller, Store
<1>3. CASE Boot
  <2>1. ~Up /\ \E p, a : Resume("boot", p, a)
    <3>1. pc["boot"] \in BootPoints
      BY BaseFacts, ThreadKinds DEF Threads
    <3>2. CASE BootStart \/ Reattach
      BY <3>2 DEF BootStart, Reattach, Up
    <3>3. CASE ResolveMissing \/ NextInterruptedStart \/ FailInterruptedStart
      BY <3>3 DEF ResolveMissing, NextInterruptedStart, FailInterruptedStart, Goto, Up
    <3>4. CASE RecordCrash("boot")
      BY <3>4 DEF RecordCrash, Submit, Goto, Up
    <3>5. CASE Store("boot")
      <4>1. {"up"} \cap (DOMAIN WorldWrites \cup DOMAIN StatusWrites \cup {"close"}) = {}
        BY WorldWriteTable, StatusWriteTable
      <4>2. QED
        BY <3>5, <4>1 DEF Store, SetWorldState, SetStatus, CloseSession, Goto, Up
    <3>6. QED
      BY <1>3, <3>2, <3>3, <3>4, <3>5 DEF Boot
  <2>2. QED
    BY <2>1, BootMoves
<1>4. CASE Environment
  <2>1. ASSUME NEW w \in Worlds, Bind(w) \/ Exit(w) \/ RevokeEula(w) PROVE DispatcherOwnsWorld'
    <3>1. UNCHANGED <<state, pc, at>>
      BY <2>1 DEF Bind, Exit, RevokeEula
    <3>2. QED
      BY <3>1, OwnsKept DEF OthersWrite, Still
  <2>2. CASE ManagerCrash
    BY <2>2, WorkerElsewhere, ElsewherePoints DEF ManagerCrash, Threads
  <2>3. QED
    BY <1>4, <2>1, <2>2 DEF Environment
<1>5. CASE Dispatcher
  BY <1>5, DispatcherOwns
<1>6. QED
  BY <1>1, <1>2, <1>3, <1>4, <1>5 DEF Next

\* The adapter spawns a server of a world that has none.
LEMMA SpawnRuntime ==
    ASSUME Base, Base', Runtime, DispatcherOwnsWorld, Spawn
    PROVE  Runtime'
<1> DEFINE W == at["worker"].world
<1>1. /\ pc["worker"] = "spawn" /\ UNCHANGED <<rows, state, accepted, crashes>>
      /\ \/ Resume("worker", "fail_start", at["worker"]) /\ UNCHANGED servers
         \/ /\ proc' = [proc EXCEPT ![W] = "booting"]
            /\ stray' = IF proc[W] \in Live THEN stray \cup {W} ELSE stray
            /\ attached' = attached \cup {W}
            /\ Resume("worker", "open_session", at["worker"]) /\ UNCHANGED session
  BY DEF Spawn, Goto
<1>2. W \in Worlds /\ Up /\ state[W] = "starting" /\ proc[W] \notin Live
  BY <1>1, WorkerHas DEF DispatcherOwnsWorld, Launching, Runtime, WorkerOK, LaunchOK
<1>3. CASE Resume("worker", "fail_start", at["worker"]) /\ UNCHANGED servers
  BY <1>1, <1>2, <1>3, WorkerQuiet, ElsewherePoints
<1>4. CASE /\ proc' = [proc EXCEPT ![W] = "booting"]
           /\ stray' = IF proc[W] \in Live THEN stray \cup {W} ELSE stray
           /\ attached' = attached \cup {W}
           /\ Resume("worker", "open_session", at["worker"]) /\ UNCHANGED session
  <2>1. /\ pc'["worker"] = "open_session" /\ at'["worker"] = at["worker"] /\ Up'
        /\ \A w \in Worlds : Closing(w)' => Closing(w)
    BY <1>2, <1>4, WorkerMoves DEF Kept, Resting
  <2>2. \A w \in Worlds \ {W} : proc'[w] = proc[w]
    BY <1>4 DEF Base, RestTyped
  <2>3. WorkerOK'
    BY <1>4, <2>1 DEF WorkerOK, LaunchOK, HaltOK
  <2>4. BooksOK'
    BY <1>1, <1>2, <1>4, <2>1, <2>2 DEF Runtime, ServersOK, BooksOK
  <2>5. OffIsDown'
    BY <1>1, <1>2, <1>4, <2>2 DEF Runtime, ServersOK, OffIsDown, Lost
  <2>6. ServersAreKnown'
    BY <1>1, <1>2, <1>4, <2>2 DEF Runtime, ServersOK, ServersAreKnown, SingleServer,
                                  SessionsAreAttached
  <2>7. QED
    BY <2>1, <2>3, <2>4, <2>5, <2>6, BootOver DEF Runtime, ServersOK
<1>5. QED
  BY <1>1, <1>3, <1>4

\* Its runtime session is written.
LEMMA OpenSessionRuntime ==
    ASSUME Base, Base', Runtime, DispatcherOwnsWorld, OpenSession
    PROVE  Runtime'
<1> DEFINE W == at["worker"].world
<1>1. /\ pc["worker"] = "open_session"
      /\ UNCHANGED <<rows, state, accepted, proc, stray, attached, crashes>>
      /\ \/ Resume("worker", "fail_start", at["worker"]) /\ UNCHANGED session
         \/ /\ session' = [session EXCEPT ![W] = "open"]
            /\ Resume("worker", "await", at["worker"])
  BY DEF OpenSession, Goto
<1>2. W \in Worlds /\ Up /\ state[W] = "starting" /\ W \in attached
  BY <1>1, WorkerHas DEF DispatcherOwnsWorld, Launching, Runtime, WorkerOK, LaunchOK
<1>3. CASE Resume("worker", "fail_start", at["worker"]) /\ UNCHANGED session
  BY <1>1, <1>2, <1>3, WorkerQuiet, ElsewherePoints DEF servers
<1>4. CASE /\ session' = [session EXCEPT ![W] = "open"]
           /\ Resume("worker", "await", at["worker"])
  <2>1. /\ pc'["worker"] = "await" /\ at'["worker"] = at["worker"] /\ Up'
        /\ \A w \in Worlds : Closing(w)' => Closing(w)
    BY <1>2, <1>4, WorkerMoves DEF Kept, Resting
  <2>2. session'[W] = "open" /\ \A w \in Worlds \ {W} : session'[w] = session[w]
    BY <1>2, <1>4 DEF Base, RestTyped
  <2>3. WorkerOK'
    BY <1>1, <1>2, <2>1, <2>2 DEF WorkerOK, LaunchOK, HaltOK
  <2>4. BooksOK'
    BY <1>1, <1>2, <2>1, <2>2 DEF Runtime, ServersOK, BooksOK
  <2>5. OffIsDown'
    BY <1>1, <1>2, <2>2 DEF Runtime, ServersOK, OffIsDown, Lost
  <2>6. ServersAreKnown'
    BY <1>1, <1>2, <2>2 DEF Runtime, ServersOK, ServersAreKnown, SingleServer,
                            SessionsAreAttached
  <2>7. QED
    BY <2>1, <2>3, <2>4, <2>5, <2>6, BootOver DEF Runtime, ServersOK
<1>5. QED
  BY <1>1, <1>3, <1>4

\* A server of a world is gone, and its handle with it or not.
LEMMA ServerDies ==
    ASSUME Base, ServersOK, NEW w \in Worlds, proc' = [proc EXCEPT ![w] = "dead"],
           attached' \in {attached, attached \ {w}},
           UNCHANGED <<state, session, stray, crashes>>, Up' => Up,
           \A v \in Worlds : Closing(v)' => Closing(v)
    PROVE  ServersOK'
<1>1. proc'[w] \notin Live /\ \A v \in Worlds \ {w} : proc'[v] = proc[v]
  BY DEF Base, RestTyped, Live
<1>2. \A v \in Worlds \ {w} : v \in attached' <=> v \in attached
  OBVIOUS
<1>3. BooksOK'
  BY <1>1 DEF ServersOK, BooksOK, Live
<1>4. OffIsDown'
  BY <1>1, <1>2 DEF ServersOK, OffIsDown, Lost
<1>5. ServersAreKnown'
  BY <1>1, <1>2 DEF ServersOK, ServersAreKnown, SingleServer, SessionsAreAttached
<1>6. QED
  BY <1>3, <1>4, <1>5 DEF ServersOK

\* The dispatcher waits for the server.
LEMMA AwaitRuntime ==
    ASSUME "terminate" \notin Faults, Base, Base', Runtime, AwaitReadiness
    PROVE  Runtime'
<1> DEFINE W == at["worker"].world
           a == [at["worker"] EXCEPT !.reason = "crashed"]
<1>1. /\ pc["worker"] = "await" /\ UNCHANGED <<rows, state, accepted, session, stray, crashes>>
      /\ \/ /\ proc[W] = "serving" /\ Resume("worker", "confirm", at["worker"])
            /\ UNCHANGED <<proc, attached>>
         \/ /\ proc[W] = "dead" /\ Resume("worker", "close", a)
            /\ UNCHANGED <<proc, attached>>
         \/ /\ proc' = [proc EXCEPT ![W] = "dead"] /\ attached' = attached \ {W}
            /\ Resume("worker", "close", a)
  BY DEF AwaitReadiness, Goto, Outcome
<1>2. /\ W \in Worlds /\ Up /\ W \in attached /\ session[W] \in {"open", "crashed"}
      /\ at["worker"] \in Args
  BY <1>1, WorkerHas DEF Runtime, WorkerOK, LaunchOK
<1>3. a.world = W
  BY <1>2, ArgSet DEF EndReasons
<1> HIDE DEF a
<1>4. CASE UNCHANGED <<proc, attached>>
  <2>1. UNCHANGED servers
    BY <1>1, <1>4 DEF servers
  <2>2. ASSUME NEW p, NEW b, Resume("worker", p, b) PROVE ServersOK' /\ BootOK'
    BY <1>1, <1>2, <2>1, <2>2, WorkerMoves, ServersKept, BootOver DEF Runtime, OthersWrite
  <2>3. CASE proc[W] = "serving" /\ Resume("worker", "confirm", at["worker"])
    <3>1. pc'["worker"] = "confirm" /\ at'["worker"] = at["worker"]
      BY <1>2, <2>3, WorkerMoves DEF Kept, Resting
    <3>2. WorkerOK'
      BY <1>1, <1>2, <1>4, <2>3, <3>1 DEF WorkerOK, LaunchOK, HaltOK
    <3>3. QED
      BY <2>2, <2>3, <3>2 DEF Runtime
  <2>4. CASE proc[W] = "dead" /\ Resume("worker", "close", a)
    <3>1. pc'["worker"] = "close" /\ at'["worker"].world = W
      BY <1>2, <1>3, <2>4, WorkerMoves DEF Kept, Resting
    <3>2. WorkerOK'
      BY <1>4, <2>4, <3>1 DEF WorkerOK, LaunchOK, HaltOK, Live
    <3>3. QED
      BY <2>2, <2>4, <3>2 DEF Runtime
  <2>5. CASE proc' = [proc EXCEPT ![W] = "dead"] /\ Resume("worker", "close", a)
    <3>1. proc[W] = "dead"
      BY <1>2, <1>4, <2>5 DEF Base, RestTyped
    <3>2. QED
      BY <2>4, <2>5, <3>1
  <2>6. QED
    BY <1>1, <2>3, <2>4, <2>5
<1>5. CASE /\ proc' = [proc EXCEPT ![W] = "dead"] /\ attached' = attached \ {W}
           /\ Resume("worker", "close", a)
  <2>1. /\ pc'["worker"] = "close" /\ at'["worker"].world = W /\ Up'
        /\ \A w \in Worlds : Closing(w)' => Closing(w)
    BY <1>2, <1>3, <1>5, WorkerMoves DEF Kept, Resting
  <2>2. proc'[W] \notin Live
    BY <1>2, <1>5 DEF Base, RestTyped, Live
  <2>3. WorkerOK'
    BY <2>1, <2>2 DEF WorkerOK, LaunchOK, HaltOK
  <2>4. ServersOK'
    BY <1>1, <1>2, <1>5, <2>1, ServerDies DEF Runtime
  <2>5. QED
    BY <2>1, <2>3, <2>4, BootOver DEF Runtime
<1>6. QED
  BY <1>1, <1>4, <1>5

\* The dispatcher stops or kills the server it finds.
LEMMA HaltRuntime ==
    ASSUME "terminate" \notin Faults, Base, Base', Runtime, DispatcherOwnsWorld, Halt
    PROVE  Runtime'
<1> DEFINE W == at["worker"].world
<1>1. /\ pc["worker"] = "halt"
      /\ UNCHANGED <<rows, state, accepted, session, stray, attached, crashes>>
      /\ \E r \in {"graceful_stop", "forced_stop"} :
            Resume("worker", "close", [at["worker"] EXCEPT !.reason = r])
      /\ \/ ~Reachable(W) /\ UNCHANGED proc
         \/ proc' = [proc EXCEPT ![W] = "dead"]
  BY DEF Halt, Outcome
<1>2. W \in Worlds /\ Up /\ Halts(at["worker"].op) /\ at["worker"] \in Args
  BY <1>1, WorkerHas DEF EndPoints
<1>3. state[W] = "stopping"
  BY <1>1, <1>2 DEF DispatcherOwnsWorld, Halting
<1>4. PICK r \in {"graceful_stop", "forced_stop"} :
         Resume("worker", "close", [at["worker"] EXCEPT !.reason = r])
  BY <1>1
<1>5. /\ pc'["worker"] = "close" /\ Up'
      /\ at'["worker"] = [at["worker"] EXCEPT !.reason = r]
      /\ \A w \in Worlds : Closing(w)' => Closing(w)
  BY <1>2, <1>4, WorkerMoves DEF Kept, Resting
<1>6. at'["worker"].world = W
  BY <1>2, <1>5, ArgSet DEF EndReasons
<1>7. CASE ~Reachable(W) /\ UNCHANGED proc
  <2>1. proc[W] \in Live => Lost(W)
    BY <1>2, <1>3, <1>7 DEF Runtime, ServersOK, BooksOK, ServersAreKnown, SessionsAreAttached,
                            Reachable, Lost, Base, RestTyped
  <2>2. UNCHANGED servers
    BY <1>1, <1>7 DEF servers
  <2>3. ServersOK'
    BY <1>1, <1>2, <1>5, <2>2, ServersKept DEF Runtime, OthersWrite
  <2>4. \A w : w = W /\ proc[w] \in Live => Lost(w)'
    BY <1>1, <1>7, <2>1 DEF Lost
  <2>5. WorkerOK'
    BY <1>5, <1>6, <1>7, <2>4 DEF WorkerOK, LaunchOK, HaltOK
  <2>6. QED
    BY <1>5, <2>3, <2>5, BootOver DEF Runtime
<1>8. CASE proc' = [proc EXCEPT ![W] = "dead"]
  <2>1. proc'[W] \notin Live
    BY <1>2, <1>8 DEF Base, RestTyped, Live
  <2>2. ServersOK'
    BY <1>1, <1>2, <1>5, <1>8, ServerDies DEF Runtime
  <2>3. WorkerOK'
    BY <1>5, <1>6, <2>1 DEF WorkerOK, LaunchOK, HaltOK
  <2>4. QED
    BY <1>5, <2>2, <2>3, BootOver DEF Runtime
<1>9. QED
  BY <1>1, <1>7, <1>8

\* The dispatcher.
LEMMA DispatcherRuntime ==
    ASSUME "terminate" \notin Faults, Base, Base', Runtime, DispatcherOwnsWorld, Dispatcher
    PROVE  Runtime'
<1> DEFINE W == at["worker"].world
<1>1. ASSUME NEW i \in 1 .. MaxOps, Dispatch(i) PROVE Runtime'
  <2>1. /\ Up /\ UNCHANGED <<state, servers, crashes>>
        /\ \E p \in {"check", "run"} :
              Resume("worker", p, [NoArgs EXCEPT !.world = ops[i].world, !.op = i])
    BY <1>1 DEF Dispatch
  <2>2. QED
    BY <2>1, WorkerQuiet, ElsewherePoints
<1>2. CASE CheckLaunch
  <2>1. PICK q \in {"raise", "cancel", "validate", "queue", "require_eula", "fail_eula",
                    "fail_start"} :
           /\ Resume("worker", q, at["worker"])
           /\ q = "queue" => proc[W] # "serving"
    BY <1>2, LaunchChecked
  <2>2. UNCHANGED <<rows, state, accepted, servers, crashes>> /\ Up /\ W \in Worlds
    BY <1>2, LaunchChecked, WorkerHas
  <2>3. CASE q # "queue"
    BY <2>1, <2>2, <2>3, WorkerQuiet, ElsewherePoints
  <2>4. CASE q = "queue"
    <3>1. /\ pc'["worker"] = "queue" /\ at'["worker"] = at["worker"] /\ Up'
          /\ \A w \in Worlds : Closing(w)' => Closing(w)
      BY <2>1, <2>2, <2>4, WorkerMoves DEF Kept, Resting
    <3>2. state[W] \in Down => proc[W] \notin Live
      BY <2>1, <2>2, <2>4 DEF Runtime, ServersOK, OffIsDown, Down, Lost
    <3>3. WorkerOK'
      BY <2>2, <3>1, <3>2 DEF WorkerOK, LaunchOK, HaltOK, servers
    <3>4. ServersOK'
      BY <2>2, <3>1, ServersKept DEF Runtime, OthersWrite
    <3>5. QED
      BY <3>1, <3>3, <3>4, BootOver DEF Runtime
  <2>5. QED
    BY <2>3, <2>4
<1>3. CASE Spawn
  BY <1>3, SpawnRuntime
<1>4. CASE OpenSession
  BY <1>4, OpenSessionRuntime
<1>5. CASE AwaitReadiness
  BY <1>5, AwaitRuntime
<1>6. CASE Halt
  BY <1>6, HaltRuntime
<1>7. CASE SetWorldState("worker")
  BY <1>7, WorkerSetsState
<1>8. CASE SetStatus("worker")
  BY <1>8, WorkerTransition, WorkerQuiet
<1>9. CASE CloseSession("worker")
  BY <1>9, WorkerClosesSession
<1>10. QED
  BY <1>1, <1>2, <1>3, <1>4, <1>5, <1>6, <1>7, <1>8, <1>9 DEF Dispatcher, Store
\* Servers bind and exit, and the manager crashes.
LEMMA EnvironmentRuntime ==
    ASSUME Base, Base', Runtime, Environment
    PROVE  Runtime'
<1> DEFINE W == at["worker"].world
<1>1. ASSUME NEW w \in Worlds, Bind(w) PROVE Runtime'
  <2>1. /\ proc[w] = "booting" /\ proc' = [proc EXCEPT ![w] = "serving"]
        /\ UNCHANGED <<state, session, stray, attached, pc, at, crashes>>
    BY <1>1 DEF Bind
  <2>2. /\ proc'[w] = "serving" /\ \A v \in Worlds \ {w} : proc'[v] = proc[v]
        /\ \A v \in Worlds : proc'[v] \in Live <=> proc[v] \in Live
    BY <2>1 DEF Base, RestTyped, Live
  <2>3. \A v \in Worlds : Lost(v) => Lost(v)'
    BY <2>1, <2>2 DEF Lost
  <2>4. \A v \in Worlds : Closing(v)' <=> Closing(v)
    BY <2>1 DEF Closing
  <2>5. WorkerOK'
    <3>1. CASE pc["worker"] = "idle"
      BY <2>1, <3>1, WorkerElsewhere, ElsewherePoints
    <3>2. CASE pc["worker"] # "idle"
      <4>1. W \in Worlds
        BY <3>2, WorkerHas
      <4>2. LaunchOK'
        BY <2>1, <2>2, <4>1 DEF Runtime, WorkerOK, LaunchOK
      <4>3. HaltOK'
        BY <2>1, <2>2, <2>3, <4>1 DEF Runtime, WorkerOK, HaltOK, IsDown
      <4>4. QED
        BY <4>2, <4>3 DEF WorkerOK
    <3>3. QED
      BY <3>1, <3>2
  <2>6. BooksOK'
    BY <2>1, <2>2, <2>4 DEF Runtime, ServersOK, BooksOK
  <2>7. OffIsDown'
    BY <2>1, <2>2, <2>3 DEF Runtime, ServersOK, OffIsDown
  <2>8. ServersAreKnown'
    BY <2>1, <2>2 DEF Runtime, ServersOK, ServersAreKnown, SingleServer, SessionsAreAttached, Up
  <2>9. BootOK'
    <3>1. CASE Up
      BY <2>1, <3>1, BootOver DEF Up
    <3>2. CASE ~Up
      <4>1. pc["boot"] = "close" => at["boot"].world \in Worlds
        BY BaseFacts DEF Fits, WithWorld, Threads
      <4>2. QED
        BY <2>1, <2>2, <4>1 DEF Runtime, BootOK, OpenSessions, Up
    <3>3. QED
      BY <3>1, <3>2
  <2>10. QED
    BY <2>5, <2>6, <2>7, <2>8, <2>9 DEF Runtime, ServersOK
<1>2. ASSUME NEW w \in Worlds, Exit(w) PROVE Runtime'
  <2>1. /\ proc' = [proc EXCEPT ![w] = "dead"]
        /\ UNCHANGED <<state, session, stray, attached, pc, at, crashes>>
    BY <1>2 DEF Exit
  <2>2. \A v \in Worlds : proc'[v] = proc[v] \/ proc'[v] = "dead"
    BY <2>1 DEF Base, RestTyped
  <2>3. "dead" \notin Live
    BY DEF Live
  <2>4. \A v \in Worlds : proc'[v] \in Live /\ Lost(v) => Lost(v)'
    BY <2>1, <2>2, <2>3 DEF Lost
  <2>5. WorkerOK'
    <3>1. CASE pc["worker"] = "idle"
      BY <2>1, <3>1, WorkerElsewhere, ElsewherePoints
    <3>2. CASE pc["worker"] # "idle"
      <4>1. W \in Worlds
        BY <3>2, WorkerHas
      <4>2. LaunchOK'
        BY <2>1, <2>2, <2>3, <4>1 DEF Runtime, WorkerOK, LaunchOK
      <4>3. HaltOK'
        BY <2>1, <2>2, <2>3, <2>4, <4>1 DEF Runtime, WorkerOK, HaltOK, IsDown
      <4>4. QED
        BY <4>2, <4>3 DEF WorkerOK
    <3>3. QED
      BY <3>1, <3>2
  <2>6. ServersOK'
    BY <2>1, ServerDies DEF Runtime, Up, Closing
  <2>7. BootOK'
    <3>1. CASE Up
      BY <2>1, <3>1, BootOver DEF Up
    <3>2. CASE ~Up
      <4>1. pc["boot"] = "close" => at["boot"].world \in Worlds
        BY BaseFacts DEF Fits, WithWorld, Threads
      <4>2. QED
        BY <2>1, <2>2, <2>3, <4>1 DEF Runtime, BootOK, OpenSessions, Up
    <3>3. QED
      BY <3>1, <3>2
  <2>8. QED
    BY <2>5, <2>6, <2>7 DEF Runtime
<1>3. ASSUME NEW w \in Worlds, RevokeEula(w) PROVE Runtime'
  BY <1>3, RuntimeKept DEF RevokeEula, OthersWrite, Still, Closing
<1>4. CASE ManagerCrash
  <2>1. /\ crashes' = crashes + 1 /\ attached' = {}
        /\ pc' = [t \in Threads |-> IF t = "boot" THEN "down" ELSE "idle"]
        /\ at' = [t \in Threads |-> NoArgs]
        /\ UNCHANGED <<state, session, proc, stray>>
    BY <1>4 DEF ManagerCrash
  <2>2. pc'["boot"] = "down" /\ at'["boot"].todo = {} /\ ~Up'
    BY <2>1 DEF Threads, NoArgs, Up
  <2>3. WorkerOK' /\ \A w \in Worlds : ~Closing(w)'
    BY <2>2, WhileBooting
  <2>4. crashes' > 0
    BY <2>1 DEF Base, RestTyped
  <2>5. BooksOK'
    BY <2>1, <2>3 DEF Runtime, ServersOK, BooksOK
  <2>6. \A w \in Worlds : Lost(w) => Lost(w)'
    BY <2>1, <2>4 DEF Lost
  <2>7. OffIsDown'
    BY <2>1, <2>6 DEF Runtime, ServersOK, OffIsDown
  <2>8. ServersAreKnown'
    BY <2>1, <2>2 DEF Runtime, ServersOK, ServersAreKnown, SingleServer, SessionsAreAttached
  <2>9. BootOK'
    BY <2>2, <2>4 DEF BootOK, Resting
  <2>10. QED
    BY <2>3, <2>5, <2>7, <2>8, <2>9 DEF Runtime, ServersOK
<1>5. QED
  BY <1>1, <1>2, <1>3, <1>4 DEF Environment

\* Every step of the system, where a forced kill settles.
LEMMA RuntimeStep ==
    ASSUME "terminate" \notin Faults, Base, DispatcherOwnsWorld, Runtime, Next
    PROVE  Runtime'
<1>1. Base'
  BY BaseStep
<1>2. QED
  BY <1>1, ClientRuntime, DispatcherRuntime, PollerRuntime, BootRuntime, EnvironmentRuntime
     DEF Next

\* A step that changes nothing.
LEMMA RuntimeStutter ==
    ASSUME Base, DispatcherOwnsWorld, UNCHANGED vars
    PROVE  DispatcherOwnsWorld' /\ (Runtime => Runtime')
<1>1. Base' /\ RowsStep
  BY BaseStutter
<1>2. /\ OthersWrite /\ Still("worker") /\ Still("boot") /\ UNCHANGED <<servers, crashes>>
      /\ \A w \in Worlds : Closing(w)' => Closing(w)
  BY DEF vars, OthersWrite, Still, Closing
<1>3. QED
  BY <1>1, <1>2, OwnsKept, RuntimeKept

\* A new installation has no servers and no sessions.
LEMMA RuntimeInit ==
    ASSUME Init
    PROVE  DispatcherOwnsWorld /\ Runtime
<1>1. /\ session = [w \in Worlds |-> "none"] /\ proc = [w \in Worlds |-> "none"] /\ stray = {}
      /\ pc["worker"] = "idle" /\ Up
  BY RuntimeAssumption DEF Init, Up, Threads
<1>2. Base
  BY BaseInit
<1>3. "none" \notin Live
  BY DEF Live
<1>4. \A w \in Worlds : proc[w] \notin Live /\ proc[w] # "booting" /\ session[w] # "open"
  BY <1>1, <1>3
<1>5. ServersOK
  BY <1>1, <1>4 DEF ServersOK, BooksOK, OffIsDown, ServersAreKnown, SingleServer,
                    SessionsAreAttached
<1>6. QED
  BY <1>1, <1>2, <1>5, WorkerElsewhere, ElsewherePoints, BootOver DEF Runtime
-----------------------------------------------------------------------------

\* Types of the engine's rows, the states, the servers and the threads.
THEOREM RuntimeBase == Spec => [](Base /\ DispatcherOwnsWorld)
<1>1. Init => Base /\ DispatcherOwnsWorld
  BY BaseInit, RuntimeInit
<1>2. Base /\ DispatcherOwnsWorld /\ [Next]_vars => (Base /\ DispatcherOwnsWorld)'
  <2>1. SUFFICES ASSUME Base, DispatcherOwnsWorld, [Next]_vars
                 PROVE  Base' /\ DispatcherOwnsWorld'
    OBVIOUS
  <2>2. CASE Next
    BY <2>1, <2>2, BaseStep, OwnsStep
  <2>3. CASE UNCHANGED vars
    BY <2>1, <2>3, BaseStutter, RuntimeStutter
  <2>4. QED
    BY <2>1, <2>2, <2>3
<1>3. QED
  BY <1>1, <1>2, PTL DEF Spec

\* The rows, the states of the worlds, the servers, their sessions and the threads have the
\* types of the tables and of the adapter's registry, whatever the environment does.
THEOREM RuntimeTypes == Spec => []TypeOK
<1>1. Base => TypeOK
  <2>1. Args = [world : Worlds \cup {None}, op : 0 .. MaxOps,
                reason : EndReasons \cup {None}, todo : SUBSET Worlds]
    BY DEF Args
  <2>2. StatesTyped => Life!TypeOK
    BY DEF StatesTyped, Life!TypeOK, RuntimeStates
  <2>3. QED
    BY <2>1, <2>2 DEF Base, RowsTyped, ThreadsOK, RestTyped, TypeOK
<1>2. QED
  BY <1>1, RuntimeBase, PTL

\* While the dispatcher launches or halts a server, no client, supervisor tick or boot changes
\* the state of its world, although none of them looks at the row that is running.
THEOREM DispatcherOwnsItsWorld == Spec => []DispatcherOwnsWorld
BY RuntimeBase, PTL

\* Where a forced kill settles within its deadline, the servers, the sessions, the registry
\* and the states of the worlds go together.
THEOREM RuntimeInvariant ==
    ASSUME "terminate" \notin Faults
    PROVE  Spec => []Runtime
<1>1. Init => Runtime
  BY RuntimeInit
<1>2. Base /\ DispatcherOwnsWorld /\ Runtime /\ [Next]_vars => Runtime'
  <2>1. SUFFICES ASSUME Base, DispatcherOwnsWorld, Runtime, [Next]_vars
                 PROVE  Runtime'
    OBVIOUS
  <2>2. CASE Next
    BY <2>1, <2>2, RuntimeStep
  <2>3. CASE UNCHANGED vars
    BY <2>1, <2>3, RuntimeStutter
  <2>4. QED
    BY <2>1, <2>2, <2>3
<1>3. QED
  BY <1>1, <1>2, RuntimeBase, PTL DEF Spec

\* A world that is off, on its way to a start or waiting for its EULA has no open session and
\* no live server but a lost one (stop's ladder, _close_session, reconcile).
THEOREM OffWorldsAreDown ==
    ASSUME "terminate" \notin Faults
    PROVE  Spec => []OffIsDown
<1>1. Runtime => OffIsDown
  BY DEF Runtime, ServersOK
<1>2. QED
  BY <1>1, RuntimeInvariant, PTL

\* A world never has two live servers, and a server with an open session can be reached
\* through the registry whenever the manager is up (spawn, reconcile, close_handle).
THEOREM ServersStayKnown ==
    ASSUME "terminate" \notin Faults
    PROVE  Spec => []ServersAreKnown
<1>1. Runtime => ServersAreKnown
  BY DEF Runtime, ServersOK
<1>2. QED
  BY <1>1, RuntimeInvariant, PTL

-----------------------------------------------------------------------------
(* Who works on which row.                                                 *)

\* The points at which a thread other than the dispatcher has no row (yet).
Unclaimed == {"answer_eula", "enqueue", "edit", "close", "crash", "record", "reattach",
              "resolve"}

\* The points of start at which its row is running.
Started == {"check", "validate", "recheck", "queue", "launch", "spawn", "open_session",
            "await"}

\* How the row of a thread goes with where the thread is.
Tied(t, p, a) ==
    /\ t # "worker" /\ p \in Unclaimed => a.op = 0
    /\ t \in Pollers /\ p = "scan" /\ a.op # 0 => ops[a.op].status \in Ops!Terminal
    /\ t = "worker" /\ p \in Started => ops[a.op].status = "Running"

\* No two threads have the same row.
Alone == \A s, t \in Threads : at[s].op = at[t].op => at[s].op = 0 \/ s = t

\* Before any crash of the manager, somebody works on every row that is running.
Worked ==
    crashes = 0 => \A i \in 1 .. issued : ops[i].status = "Running" =>
                      \E t \in Threads : at[t].op = i

Holders == OneHolder /\ Alone /\ Worked /\ \A t \in Threads : Tied(t, pc[t], at[t])

\* Boot attaches every session it does not close.
BootFinds ==
    /\ ~Up => crashes > 0
    /\ pc["boot"] \notin Resting =>
          OpenSessions \subseteq at["boot"].todo \cup attached \cup
                                 (IF pc["boot"] = "close" THEN {at["boot"].world} ELSE {})

Owned == Holders /\ BootFinds /\ InterruptedStartsResolved

\* A step may insert a row or write row k.
Touches(k) ==
    \/ UNCHANGED rows
    \/ \E type \in RowKinds, w \in Worlds : Inserts(type, w)
    \/ k \in 1 .. issued /\ Ops!Claim(k)
    \/ k \in 1 .. issued /\ \E st \in Ops!Persisted : Ops!Transition(k, st)

\* What such a step leaves of the others: create_with_replay cancels nothing but stops, a new
\* row is queued, and what is terminal stays so.
LEMMA TouchedRows ==
    ASSUME RowsTyped, NEW k, Touches(k)
    PROVE  /\ RowsStep /\ RowsStay
           /\ \A i \in 1 .. issued' : ops'[i].status = "Running" /\ i # k =>
                 i \in 1 .. issued /\ ops[i].status = "Running"
           /\ \A i \in 1 .. issued : ops[i].status \in Ops!Terminal =>
                 ops'[i].status \in Ops!Terminal
           /\ \A i \in 1 .. issued :
                 i # k /\ ops[i].type # "Stop" /\ ops[i].status = "Running" =>
                    ops'[i].status = "Running"
<1>1. RowsStep /\ RowsStay
  BY RowsTypedStep DEF Touches, RowsStep
<1>2. Ops!InFlight \cap Ops!Terminal = {} /\ "Running" \in Ops!InFlight
      /\ "Cancelled" \in Ops!Terminal /\ "Running" # "Queued"
  BY DEF Ops!InFlight, Ops!Terminal
<1>3. CASE UNCHANGED rows
  BY <1>1, <1>3 DEF rows
<1>4. ASSUME NEW type \in RowKinds, NEW w \in Worlds, Inserts(type, w)
      PROVE  /\ \A i \in 1 .. issued' : ops'[i].status = "Running" =>
                   i \in 1 .. issued /\ ops[i].status = "Running"
             /\ \A i \in 1 .. issued : ops[i].status \in Ops!Terminal =>
                   ops'[i].status \in Ops!Terminal
             /\ \A i \in 1 .. issued :
                   ops[i].type # "Stop" /\ ops[i].status = "Running" =>
                      ops'[i].status = "Running"
  <2>1. issued' = issued + 1 /\ ops'[issued + 1].status = "Queued" /\ issued \in Nat
    BY <1>4, InsertStep, RowNumbers
  <2>2. \A i \in 1 .. issued : i \in Ops!OpId /\ i # issued + 1
    BY <2>1, RowNumbers
  <2>3. \A i \in 1 .. issued :
           \/ ops'[i].status = ops[i].status
           \/ /\ ops[i].type = "Stop" /\ ops[i].status \in Ops!InFlight
              /\ ops'[i].status = "Cancelled"
    BY <1>4, <2>2, InsertFields
  <2>4. \A i \in 1 .. issued' : i \in 1 .. issued \/ i = issued + 1
    BY <2>1
  <2>5. QED
    BY <1>2, <2>1, <2>3, <2>4
<1>5. ASSUME k \in 1 .. issued, NEW st \in Ops!Persisted, ops[k].status \in Ops!InFlight,
             ops' = [ops EXCEPT ![k].status = st], issued' = issued
      PROVE  /\ \A i \in 1 .. issued' : i # k => i \in 1 .. issued /\ ops'[i] = ops[i]
             /\ ops[k].status \notin Ops!Terminal
  <2>1. \A i \in Ops!OpId \ {k} : ops'[i] = ops[i]
    BY <1>5, RestatusStep
  <2>2. QED
    BY <1>2, <1>5, <2>1, RowNumbers
<1>6. CASE k \in 1 .. issued /\ Ops!Claim(k)
  <2>1. /\ "Running" \in Ops!Persisted /\ ops[k].status \in Ops!InFlight
        /\ ops' = [ops EXCEPT ![k].status = "Running"] /\ issued' = issued
    BY <1>6 DEF Ops!Claim, Ops!Claimable, Ops!Persisted, Ops!InFlight
  <2>2. /\ \A i \in 1 .. issued' : i # k => i \in 1 .. issued /\ ops'[i] = ops[i]
        /\ ops[k].status \notin Ops!Terminal
    BY <1>5, <1>6, <2>1
  <2>3. QED
    BY <1>1, <2>1, <2>2
<1>7. CASE k \in 1 .. issued /\ \E st \in Ops!Persisted : Ops!Transition(k, st)
  <2>1. PICK st \in Ops!Persisted : Ops!Transition(k, st)
    BY <1>7
  <2>2. /\ ops[k].status \in Ops!InFlight
        /\ ops' = [ops EXCEPT ![k].status = st] /\ issued' = issued
    BY <2>1 DEF Ops!Transition, Ops!Transitionable
  <2>3. /\ \A i \in 1 .. issued' : i # k => i \in 1 .. issued /\ ops'[i] = ops[i]
        /\ ops[k].status \notin Ops!Terminal
    BY <1>5, <1>7, <2>2
  <2>4. QED
    BY <1>1, <2>2, <2>3
<1>8. QED
  BY <1>1, <1>3, <1>4, <1>6, <1>7 DEF Touches

\* What the other threads have stays theirs: the row being written, if any, is not one of theirs.
LEMMA TiedElsewhere ==
    ASSUME Base, Holders, NEW k, Touches(k), NEW s \in Threads, at[s].op = k => k = 0,
           NEW p, NEW a, p = pc[s], a = at[s]
    PROVE  Tied(s, p, a)'
<1>1. Tied(s, pc[s], at[s]) /\ Fits(s, pc[s], at[s]) /\ RowsTyped
  BY BaseFacts DEF Holders
<1>4. Tied(s, p, a) /\ Fits(s, p, a)
  BY <1>1
<1>5. a.op # 0 => a.op \in 1 .. issued /\ a.op # k
  BY <1>4 DEF Fits
<1>6. a.op # 0 /\ ops[a.op].status \in Ops!Terminal => ops'[a.op].status \in Ops!Terminal
  BY <1>1, <1>5, TouchedRows
<1>7. CASE s = "worker" /\ p \in Started
  <2>1. a.op # 0 /\ (p \in StartPoints => ops[a.op].type = "Start")
    BY <1>4, <1>7 DEF Fits, Started
  <2>2. ops[a.op].type # "Stop"
    BY <1>7, <2>1 DEF Started, StartPoints
  <2>3. ops'[a.op].status = "Running"
    BY <1>1, <1>4, <1>5, <1>7, <2>1, <2>2, TouchedRows DEF Tied
  <2>4. QED
    BY <1>4, <1>6, <1>7, <2>3 DEF Tied
<1>8. CASE ~(s = "worker" /\ p \in Started)
  BY <1>4, <1>6, <1>8 DEF Tied
<1>9. QED
  BY <1>1, <1>7, <1>8

\* A thread moves, keeps its row, drops it when it is not running any more, or takes one that
\* nobody else has; and it writes no other.
LEMMA HoldersMove ==
    ASSUME Base, Holders, NEW t \in Threads, NEW p, NEW a, Resume(t, p, a),
           NEW b, b = Kept(p, a), b.op \in Nat, UNCHANGED crashes, NEW k, Touches(k),
           \A s \in Threads \ {t} : at[s].op = k => k = 0,
           b.op \in {0, at[t].op} \/ \A s \in Threads \ {t} : at[s].op # b.op,
           t = "boot" \/ at[t].op \in {0, b.op} \/ ops'[at[t].op].status # "Running",
           t = "boot" \/ b.op = k \/ k \notin 1 .. issued \/ ops'[k].status # "Running",
           Tied(t, p, b)', t = "boot" => crashes > 0
    PROVE  Holders'
<1>1. /\ pc'[t] = p /\ at'[t] = b
      /\ \A s \in Threads \ {t} : pc'[s] = pc[s] /\ at'[s] = at[s]
  BY Resumed DEF Base
<1>2. RowsTyped /\ issued \in Nat /\ \A s \in Threads : at[s].op # 0 => at[s].op \in 1 .. issued
  BY BaseFacts, RowNumbers DEF Fits
<1>3. OneHolder'
  BY <1>2, TouchedRows, OneHolderStep DEF Holders
<1>4. Alone'
  <2>1. SUFFICES ASSUME NEW s \in Threads, NEW u \in Threads, at'[s].op = at'[u].op,
                        at'[s].op # 0, s # u
                 PROVE  FALSE
    BY DEF Alone
  <2>2. CASE s # t /\ u # t
    BY <1>1, <2>1, <2>2 DEF Holders, Alone
  <2>3. ASSUME NEW v \in Threads \ {t}, at[v].op = b.op, b.op # 0 PROVE FALSE
    BY <2>3 DEF Holders, Alone
  <2>4. QED
    BY <1>1, <2>1, <2>2, <2>3
<1>5. Worked'
  <2>1. SUFFICES ASSUME crashes = 0, NEW i \in 1 .. issued', ops'[i].status = "Running"
                 PROVE  \E s \in Threads : at'[s].op = i
    BY DEF Worked
  <2>2. CASE i = k /\ k \in 1 .. issued
    <3>1. t # "boot"
      BY <2>1
    <3>2. QED
      BY <1>1, <2>1, <2>2, <3>1
  <2>3. CASE i \in 1 .. issued /\ ops[i].status = "Running"
    <3>1. PICK s \in Threads : at[s].op = i
      BY <2>1, <2>3 DEF Holders, Worked
    <3>2. i # 0 /\ t # "boot"
      BY <1>2, <2>1, <2>3
    <3>3. CASE s = t
      BY <1>1, <2>1, <3>1, <3>2, <3>3
    <3>4. CASE s # t
      BY <1>1, <3>1, <3>4
    <3>5. QED
      BY <3>3, <3>4
  <2>4. CASE i = k /\ k \notin 1 .. issued
    <3>1. UNCHANGED rows \/ \E type \in RowKinds, w \in Worlds : Inserts(type, w)
      BY <2>4 DEF Touches
    <3>2. CASE UNCHANGED rows
      BY <2>1, <2>4, <3>2 DEF rows
    <3>3. ASSUME NEW type \in RowKinds, NEW w \in Worlds, Inserts(type, w) PROVE FALSE
      <4>1. issued' = issued + 1 /\ ops'[issued + 1].status = "Queued"
        BY <1>2, <3>3, InsertStep
      <4>2. i = issued + 1
        BY <1>2, <2>1, <2>4, <4>1
      <4>3. QED
        BY <2>1, <4>1, <4>2
    <3>4. QED
      BY <3>1, <3>2, <3>3
  <2>5. QED
    BY <1>2, <2>1, <2>2, <2>3, <2>4, TouchedRows
<1>6. ASSUME NEW s \in Threads PROVE Tied(s, pc[s], at[s])'
  <2>1. CASE s = t
    BY <1>1, <2>1
  <2>2. CASE s # t
    BY <1>1, <2>2, TiedElsewhere
  <2>3. QED
    BY <2>1, <2>2
<1>7. QED
  BY <1>3, <1>4, <1>5, <1>6 DEF Holders
\* A thread other than boot does so, and every start that is running stays in good hands.
LEMMA OwnedMove ==
    ASSUME Base, Base', Owned, NEW t \in Threads \ {"boot"}, Up, NEW p, NEW a, Resume(t, p, a),
           NEW b, b = Kept(p, a), b.op \in Nat, UNCHANGED crashes, NEW k, Touches(k),
           \A s \in Threads \ {t} : at[s].op = k => k = 0,
           b.op \in {0, at[t].op} \/ \A s \in Threads \ {t} : at[s].op # b.op,
           at[t].op \in {0, b.op} \/ ops'[at[t].op].status # "Running",
           b.op = k \/ k \notin 1 .. issued \/ ops'[k].status # "Running",
           t = "worker" \/ k \notin 1 .. issued \/ ops[k].type # "Start",
           \A i \in 1 .. issued :
              /\ ops[i].type = "Start" /\ ops[i].status = "Running"
              /\ ops[i].world \in attached
              => ops[i].world \in attached' \/ at["worker"].op = i,
           Tied(t, p, b)'
    PROVE  Owned'
<1>1. /\ pc'[t] = p /\ at'[t] = b /\ t # "boot"
      /\ \A s \in Threads \ {t} : pc'[s] = pc[s] /\ at'[s] = at[s]
  BY Resumed DEF Base
<1>2. Up' /\ "worker" \in Threads
  BY <1>1 DEF Up, Threads
<1>3. Holders'
  BY <1>1, HoldersMove DEF Owned
<1>4. BootFinds'
  BY <1>2 DEF BootFinds, Up, Resting
<1>5. InterruptedStartsResolved'
  <2>1. SUFFICES ASSUME NEW i \in 1 .. issued', ops'[i].type = "Start",
                        ops'[i].status = "Running"
                 PROVE  at'["worker"].op = i \/ (crashes > 0 /\ ops'[i].world \in attached')
    BY DEF InterruptedStartsResolved
  <2>2. RowsTyped /\ RowsStay /\ issued \in Nat
    BY RowNumbers, TouchedRows DEF Base
  <2>3. CASE i \in 1 .. issued /\ ops[i].status = "Running" /\ i # k
    <3>1. ops[i].type = "Start" /\ ops'[i].world = ops[i].world
      BY <2>1, <2>2, <2>3 DEF RowsStay
    <3>2. at["worker"].op = i \/ (crashes > 0 /\ ops[i].world \in attached)
      BY <2>3, <3>1 DEF Owned, InterruptedStartsResolved
    <3>3. CASE at["worker"].op = i
      <4>1. i # 0
        BY <2>2, <2>3
      <4>2. QED
        BY <1>1, <1>2, <2>1, <3>3, <4>1
    <3>4. CASE at["worker"].op # i
      BY <2>3, <3>1, <3>2, <3>4
    <3>5. QED
      BY <3>3, <3>4
  <2>4. CASE i = k /\ k \in 1 .. issued
    BY <1>1, <2>1, <2>2, <2>4 DEF RowsStay
  <2>5. i \in 1 .. issued
    <3>1. UNCHANGED rows => i \in 1 .. issued
      BY <2>1 DEF rows
    <3>2. ASSUME NEW type \in RowKinds, NEW w \in Worlds, Inserts(type, w)
          PROVE  i \in 1 .. issued
      <4>1. issued' = issued + 1 /\ ops'[issued + 1].status = "Queued"
        BY <2>2, <3>2, InsertStep
      <4>2. i # issued + 1
        BY <2>1, <4>1
      <4>3. QED
        BY <2>1, <2>2, <4>1, <4>2
    <3>3. Ops!Claim(k) \/ (\E st \in Ops!Persisted : Ops!Transition(k, st)) => i \in 1 .. issued
      BY <2>1 DEF Ops!Claim, Ops!Transition
    <3>4. QED
      BY <3>1, <3>2, <3>3 DEF Touches
  <2>6. i # k => ops[i].status = "Running"
    BY <2>1, <2>2, TouchedRows
  <2>7. QED
    BY <2>3, <2>4, <2>5, <2>6
<1>6. QED
  BY <1>3, <1>4, <1>5 DEF Owned

\* A thread that rests has nothing.
LEMMA TiedAtRest ==
    ASSUME NEW t, NEW p \in Resting, NEW b
    PROVE  Tied(t, p, b) /\ Tied(t, p, b)'
<1>1. p \notin Unclaimed /\ p # "scan" /\ p \notin Started
  BY DEF Resting, Unclaimed, Started
<1>2. QED
  BY <1>1 DEF Tied

\* A thread moves and writes no row.
LEMMA OwnedQuiet ==
    ASSUME Base, Base', Owned, NEW t \in Threads \ {"boot"}, Up, NEW p, NEW a, Resume(t, p, a),
           UNCHANGED <<rows, crashes>>, a.op \in {0, at[t].op},
           \/ at[t].op = 0
           \/ p \notin Resting /\ a.op = at[t].op
           \/ ops[at[t].op].status # "Running",
           p \notin Resting => Tied(t, p, a),
           \A i \in 1 .. issued :
              /\ ops[i].type = "Start" /\ ops[i].status = "Running"
              /\ ops[i].world \in attached
              => ops[i].world \in attached' \/ at["worker"].op = i
    PROVE  Owned'
<1>1. Touches(0) /\ UNCHANGED ops
  BY DEF Touches, rows
<1>2. at[t].op \in Nat /\ NoArgs.op = 0 /\ 0 \notin 1 .. issued
  BY BaseFacts, RuntimeAssumption, RowNumbers DEF Args, NoArgs
<1>3. ASSUME NEW b, b = Kept(p, a) PROVE Owned'
  <2>1. b.op \in {0, at[t].op} /\ b.op \in Nat
    BY <1>2, <1>3 DEF Kept
  <2>2. Tied(t, p, b)
    BY <1>3, TiedAtRest DEF Kept
  <2>3. Tied(t, p, b)'
    BY <1>1, <2>2 DEF Tied
  <2>4. at[t].op \in {0, b.op} \/ ops'[at[t].op].status # "Running"
    BY <1>1, <1>3 DEF Kept
  <2>5. QED
    BY <1>1, <1>2, <1>3, <2>1, <2>3, <2>4, OwnedMove
<1>4. QED
  BY <1>3

\* No thread moves and no row is written.
LEMMA OwnedStill ==
    ASSUME Owned, UNCHANGED <<rows, pc, at, session, attached, crashes>>
    PROVE  Owned'
<1>1. UNCHANGED <<ops, issued, pc, at, session, attached, crashes>>
  BY DEF rows
<1>2. OneHolder' /\ Alone' /\ Worked'
  BY <1>1 DEF Owned, Holders, OneHolder, Alone, Worked, Ops!InFlight
<1>3. \A t \in Threads : Tied(t, pc[t], at[t])'
  BY <1>1 DEF Owned, Holders, Tied, Ops!Terminal
<1>4. BootFinds' /\ InterruptedStartsResolved'
  BY <1>1 DEF Owned, BootFinds, OpenSessions, InterruptedStartsResolved, Up
<1>5. QED
  BY <1>2, <1>3, <1>4 DEF Owned, Holders

\* create_with_replay by a thread without a row.
LEMMA OwnedSubmit ==
    ASSUME Base, Base', Owned, NEW t \in Threads \ {"worker", "boot"}, Up, at[t].op = 0,
           NEW type \in RowKinds, at[t].world \in Worlds, NEW bound,
           NEW next \in {"idle", "edit_run", "observe"}, Submit(t, type, bound, next),
           UNCHANGED <<attached, crashes>>
    PROVE  Owned'
<1>1. at[t] \in Args /\ RowsTyped /\ issued \in Nat
  BY BaseFacts, RowNumbers
<1>2. CASE UNCHANGED rows /\ Resume(t, "idle", at[t])
  <2>1. "idle" \in Resting
    BY DEF Resting
  <2>2. QED
    BY <1>2, <2>1, OwnedQuiet
<1>3. ASSUME Inserts(type, at[t].world), NEW a, a = [at[t] EXCEPT !.op = issued + 1],
             Resume(t, next, a)
      PROVE  Owned'
  <2>1. Touches(0)
    BY <1>3 DEF Touches
  <2>2. issued + 1 \in 0 .. MaxOps
    BY <1>1, <1>3, InsertStep, RowNumbers
  <2>3. a.op = issued + 1
    BY <1>1, <1>3, <2>2, ArgSet
  <2>4. NoArgs.op = 0 /\ 0 \notin 1 .. issued
    BY <1>1 DEF NoArgs
  <2>5. \A s \in Threads : at[s].op \in 0 .. issued
    BY <1>1, BaseFacts DEF Fits
  <2>6. next \notin Unclaimed /\ next # "scan" /\ next \notin Started
    BY DEF Unclaimed, Started
  <2>7. ASSUME NEW b, b = Kept(next, a) PROVE Owned'
    <3>1. b.op \in {0, issued + 1} /\ b.op \in Nat
      BY <1>1, <2>3, <2>4, <2>7 DEF Kept
    <3>2. \A s \in Threads : at[s].op # issued + 1
      BY <1>1, <2>5
    <3>3. Tied(t, next, b)'
      BY <2>6 DEF Tied
    <3>4. QED
      BY <1>3, <2>1, <2>4, <2>7, <3>1, <3>2, <3>3, OwnedMove
  <2>8. QED
    BY <2>7
<1>4. QED
  BY <1>2, <1>3 DEF Submit, Inserts, Goto
\* What a thread is tied to, unfolded once.
LEMMA TiedFacts ==
    ASSUME Base, Owned, NEW t \in Threads
    PROVE  /\ Tied(t, pc[t], at[t]) /\ at[t].op \in Nat
           /\ at[t].op # 0 => at[t].op \in 1 .. issued /\ ops[at[t].op].type \in KindsOf(t)
           /\ \A s \in Threads \ {t} : at[s].op = at[t].op => at[t].op = 0
           /\ t # "boot" /\ pc[t] # "idle" => Up
           /\ pc[t] \in Resting => at[t].op = 0
<1>1. Fits(t, pc[t], at[t]) /\ at[t] \in Args /\ (t # "boot" /\ pc[t] # "idle" => Runs(t))
  BY BaseFacts
<1>2. at[t].op \in Nat
  BY <1>1, RuntimeAssumption DEF Args
<1>3. \A s \in Threads \ {t} : at[s].op = at[t].op => at[t].op = 0
  BY DEF Owned, Holders, Alone
<1>4. pc[t] \in Resting => at[t].op = 0
  BY <1>1, FitsRest
<1>5. QED
  BY <1>1, <1>2, <1>3, <1>4 DEF Owned, Holders, Fits, Runs

\* A thread other than boot sets the state of its world.
LEMMA OwnedSetsState ==
    ASSUME Base, Base', Owned, NEW t \in Threads \ {"boot"}, SetWorldState(t)
    PROVE  Owned'
<1> DEFINE p == pc[t]
<1>1. PICK q \in {WorldWrites[p].next, WorldWrites[p].refused} : Resume(t, q, at[t])
  BY DEF SetWorldState, Goto
<1>2. /\ p \in DOMAIN WorldWrites /\ UNCHANGED <<rows, attached, crashes>>
      /\ p \in PointsOf(t)
  BY BaseFacts DEF SetWorldState, servers
<1>3. p \notin Resting /\ p # "idle" /\ p # "reattach"
  <2>1. p \notin Resting /\ p # "idle"
    BY <1>2, WorldWriteTable DEF Resting
  <2>2. p # "reattach"
    BY <1>2, ThreadKinds DEF ClientPoints, PollerPoints, WorkerPoints, StartPoints, EndPoints
  <2>3. QED
    BY <2>1, <2>2
<1>4. Up /\ Tied(t, p, at[t])
  BY <1>3, TiedFacts
<1>5. CASE t = "worker"
  <2>1. p \in {"require_eula", "error", "queue", "launch", "confirm", "time_out", "stopping",
               "off"}
    BY <1>2, <1>5, WorldWriteTable, ThreadKinds DEF WorkerPoints, StartPoints, EndPoints
  <2>2. /\ q \in {"raise", "launch", "spawn", "complete", "timed_out", "halt"}
        /\ q \in {"launch", "spawn"} => p \in {"queue", "launch"}
    BY <1>1, <2>1, WorldWriteTable
  <2>3. q \notin Resting /\ q # "scan" /\ (q \in Started => p \in Started)
    BY <2>2 DEF Resting, Started
  <2>4. Tied(t, q, at[t])
    BY <1>4, <1>5, <2>3 DEF Tied
  <2>5. QED
    BY <1>1, <1>2, <1>4, <2>3, <2>4, OwnedQuiet
<1>6. CASE t # "worker"
  <2>1. p \in {"answer_eula", "lift_eula", "crash"}
    BY <1>2, <1>3, <1>6, WorldWriteTable, ThreadKinds DEF ClientPoints, PollerPoints
  <2>2. \/ p = "answer_eula" /\ q = "idle"
        \/ p = "lift_eula" /\ q \in {"complete", "raise"}
        \/ p = "crash" /\ q \in {"record", "abort"}
    BY <1>1, <2>1, WorldWriteTable
  <2>3. /\ p \in Unclaimed \/ (q \notin Resting /\ q \notin Unclaimed)
        /\ q # "scan"
    BY <2>2 DEF Unclaimed, Resting
  <2>4. p \in Unclaimed => at[t].op = 0
    BY <1>4, <1>6 DEF Tied
  <2>5. Tied(t, q, at[t])
    BY <1>6, <2>3, <2>4 DEF Tied
  <2>6. QED
    BY <1>1, <1>2, <1>4, <2>3, <2>4, <2>5, OwnedQuiet
<1>7. QED
  BY <1>5, <1>6

\* It writes its row.
LEMMA OwnedTransition ==
    ASSUME Base, Base', Owned, NEW t \in Threads \ {"boot"}, SetStatus(t)
    PROVE  Owned'
<1> DEFINE p == pc[t]
<1>1. p \in DOMAIN StatusWrites /\ UNCHANGED <<attached, crashes>> /\ p \in PointsOf(t)
  BY BaseFacts DEF SetStatus, servers
<1>2. p \notin Resting /\ p # "idle"
  BY <1>1, StatusWriteTable DEF Resting
<1>3. at[t].op # 0
  <2>1. t # "worker" => p \in WithRow
    BY <1>1, StatusWriteTable, ThreadKinds DEF ClientPoints, PollerPoints, WithRow
  <2>2. QED
    BY <1>2, <2>1, BaseFacts DEF Fits
<1>4. Up /\ at[t].op \in 1 .. issued /\ ops[at[t].op].type \in KindsOf(t)
  BY <1>2, <1>3, TiedFacts
<1>5. CASE ~Ops!Transitionable(at[t].op)
  <2>1. UNCHANGED rows /\ Resume(t, StatusWrites[p].refused, at[t])
    BY <1>5 DEF SetStatus, Goto
  <2>2. StatusWrites[p].refused \in {"idle", "raise", "abort"}
    BY <1>1, StatusWriteTable
  <2>3. ops[at[t].op].status # "Running"
    BY <1>5 DEF Ops!Transitionable, Ops!InFlight
  <2>4. Tied(t, StatusWrites[p].refused, at[t])
    BY <2>2 DEF Tied, Unclaimed, Started
  <2>5. QED
    BY <1>1, <1>4, <2>1, <2>3, <2>4, OwnedQuiet
<1>6. ASSUME NEW k, k = at[t].op, NEW st, NEW q, st = StatusWrites[p].to,
             q = StatusWrites[p].next, Ops!Transition(k, st), Resume(t, q, at[t])
      PROVE  Owned'
  <2>1. /\ \/ st = "Running" /\ q \in {"recheck", "stopping", "accept", "observed"}
           \/ st \in Ops!Terminal /\ q \in {"idle", "require_eula", "error", "scan"}
        /\ st \in Ops!Persisted
        /\ q = "recheck" => st = "Running"
    BY <1>1, <1>6, StatusWriteTable DEF Ops!Terminal, Ops!Persisted
  <2>2. Touches(k)
    BY <1>4, <1>6, <2>1 DEF Touches
  <2>3. ops'[k].status = st
    <3>1. ops' = [ops EXCEPT ![k].status = st] /\ issued' = issued
      BY <1>6 DEF Ops!Transition
    <3>2. RowsTyped /\ k \in 1 .. issued /\ st \in Ops!Persisted
      BY <1>4, <1>6, <2>1 DEF Base
    <3>3. QED
      BY <3>1, <3>2, RestatusStep
  <2>4. \A s \in Threads \ {t} : at[s].op = k => k = 0
    BY <1>6, TiedFacts
  <2>5. t = "worker" \/ ops[k].type # "Start"
    BY <1>4, <1>6, ThreadKinds
  <2>6. q \in Resting => q = "idle"
    BY <2>1 DEF Resting
  <2>7. "Running" \notin Ops!Terminal
    BY DEF Ops!Terminal
  <2>8. k \in Nat /\ NoArgs.op = 0
    BY <1>6, TiedFacts DEF NoArgs
  <2>9. ASSUME NEW b, b = Kept(q, at[t]) PROVE Owned'
    <3>1. b.op = k \/ (b.op = 0 /\ q = "idle")
      BY <1>6, <2>6, <2>8, <2>9 DEF Kept
    <3>2. st # "Running" \/ b.op = k
      BY <2>1, <3>1, <2>7
    <3>3. Tied(t, q, b)'
      <4>1. q = "scan" => st \in Ops!Terminal
        BY <2>1
      <4>2. q \notin Unclaimed /\ (q \in Started => q = "recheck")
        BY <2>1 DEF Unclaimed, Started
      <4>3. b.op = k => ops'[b.op].status = st
        BY <2>3
      <4>4. q # "idle" => b.op = k
        BY <3>1
      <4>5. "idle" \notin Started /\ "idle" # "scan"
        BY DEF Started
      <4>6. QED
        BY <2>1, <4>1, <4>2, <4>3, <4>4, <4>5 DEF Tied
    <3>4. QED
      BY <1>1, <1>4, <1>6, <2>2, <2>3, <2>4, <2>5, <2>8, <2>9, <3>1, <3>2, <3>3, OwnedMove
  <2>10. QED
    BY <2>9
<1>7. CASE Ops!Transitionable(at[t].op)
  BY <1>6, <1>7 DEF SetStatus, Goto
<1>8. QED
  BY <1>5, <1>7

\* It closes a session.
LEMMA OwnedCloses ==
    ASSUME Base, Base', Owned, NEW t \in Threads \ {"boot"}, CloseSession(t)
    PROVE  Owned'
<1>1. /\ pc[t] = "close" /\ UNCHANGED <<rows, attached, crashes>> /\ pc[t] \in PointsOf(t)
      /\ Tied(t, pc[t], at[t]) /\ Up
  BY TiedFacts, BaseFacts DEF CloseSession
<1>2. t \in Pollers \/ t = "worker"
  BY <1>1, ThreadKinds DEF ClientPoints
<1>3. CASE t \in Pollers
  <2>1. t # "worker"
    BY <1>3, RuntimeAssumption
  <2>2. Resume(t, "crash", at[t])
    BY <1>3, <2>1 DEF CloseSession, Goto
  <2>3. at[t].op = 0
    BY <1>1, <2>1 DEF Tied, Unclaimed
  <2>4. Tied(t, "crash", at[t])
    BY <2>1, <2>3 DEF Tied
  <2>5. QED
    BY <1>1, <2>2, <2>3, <2>4, OwnedQuiet
<1>4. CASE t = "worker"
  <2>1. "worker" \notin Pollers
    BY RuntimeAssumption
  <2>2. PICK q \in {"time_out", "off"} : Resume(t, q, at[t])
    BY <1>4, <2>1 DEF CloseSession, Goto
  <2>3. q \notin Resting /\ q \notin Started
    BY DEF Resting, Started
  <2>4. Tied(t, q, at[t])
    BY <1>4, <2>1, <2>3 DEF Tied
  <2>5. QED
    BY <1>1, <2>2, <2>3, <2>4, OwnedQuiet
<1>5. QED
  BY <1>2, <1>3, <1>4

\* The clients.
LEMMA OwnedClients ==
    ASSUME Base, Base', Owned, Request \/ \E c \in Clients : Client(c)
    PROVE  Owned'
<1>1. ASSUME NEW c \in Clients
      PROVE  c \in Threads \ {"worker", "boot"} /\ c \notin Pollers
  BY ThreadKinds DEF Threads
<1>2. ASSUME NEW c \in Clients, NEW w \in Worlds, Up, pc[c] = "idle",
             NEW p \in {"answer_eula", "enqueue", "edit"},
             Resume(c, p, [NoArgs EXCEPT !.world = w]),
             UNCHANGED <<rows, attached, crashes>>
      PROVE  Owned'
  <2>1. at[c].op = 0
    BY <1>1, <1>2, TiedFacts DEF Resting
  <2>2. [NoArgs EXCEPT !.world = w].op = 0
    BY DEF NoArgs
  <2>3. p # "scan" /\ p \notin Started /\ p \notin Resting
    BY DEF Started, Resting
  <2>4. Tied(c, p, [NoArgs EXCEPT !.world = w])
    BY <1>1, <2>2, <2>3 DEF Tied
  <2>5. QED
    BY <1>1, <1>2, <2>1, <2>2, <2>4, OwnedQuiet
<1>3. ASSUME NEW c \in Clients, NEW w \in Worlds, RequestStart(c, w) PROVE Owned'
  BY <1>2, <1>3 DEF RequestStart, servers
<1>4. ASSUME NEW c \in Clients, NEW w \in Worlds, RequestAcceptance(c, w) PROVE Owned'
  BY <1>2, <1>4 DEF RequestAcceptance, servers
<1>5. ASSUME NEW w \in Worlds, NEW type \in {"Stop", "Kill"}, RequestEnd(w, type)
      PROVE  Owned'
  <2>1. /\ Inserts(type, w) /\ type \in RowKinds
        /\ UNCHANGED <<state, accepted, servers, pc, at, crashes>> /\ Up
    BY <1>5 DEF RequestEnd, Inserts, RowKinds
  <2>2. Touches(0)
    BY <2>1 DEF Touches
  <2>3. "worker" \in Threads /\ at["worker"].op \in Nat /\ RowsTyped
    BY TiedFacts DEF Threads, Base
  <2>4. \A s \in Threads : Tied(s, pc[s], at[s])'
    BY <2>1, <2>2, TiedElsewhere DEF Owned
  <2>5. OneHolder'
    BY <2>2, <2>3, TouchedRows, OneHolderStep DEF Owned, Holders
  <2>6. 0 \notin 1 .. issued /\ 0 \notin 1 .. issued' /\ RowsStay
    BY <2>2, <2>3, TouchedRows, RowNumbers DEF RowsStay
  <2>7. \A i \in 1 .. issued' : ops'[i].status = "Running" =>
           /\ i \in 1 .. issued /\ ops[i].status = "Running"
           /\ ops'[i].type = ops[i].type /\ ops'[i].world = ops[i].world
    BY <2>2, <2>3, <2>6, TouchedRows DEF RowsStay
  <2>8. Alone' /\ Worked'
    BY <2>1, <2>7 DEF Owned, Holders, Alone, Worked
  <2>9. UNCHANGED <<session, attached>>
    BY <2>1 DEF servers
  <2>10. BootFinds' /\ InterruptedStartsResolved'
    BY <2>1, <2>7, <2>9 DEF Owned, BootFinds, OpenSessions, InterruptedStartsResolved, Up
  <2>11. QED
    BY <2>4, <2>5, <2>8, <2>10 DEF Owned, Holders
<1>6. CASE Request
  BY <1>3, <1>4, <1>5, <1>6 DEF Request
<1>7. ASSUME NEW c \in Clients, EnqueueStart(c) \/ EnqueueAcceptance(c) PROVE Owned'
  <2>1. pc[c] \in {"enqueue", "edit"} /\ pc[c] # "idle" /\ c \in Threads
    BY <1>1, <1>7 DEF EnqueueStart, EnqueueAcceptance
  <2>2. at[c].op = 0 /\ Up /\ at[c].world \in Worlds
    BY <1>1, <2>1, TiedFacts, BaseFacts DEF Tied, Unclaimed, Fits, WithWorld
  <2>3. \/ Submit(c, "Start", MaxRequests, "idle")
        \/ Submit(c, "ConfigEdit", MaxRequests, "edit_run")
    BY <1>7 DEF EnqueueStart, EnqueueAcceptance
  <2>4. UNCHANGED <<attached, crashes>> /\ {"Start", "ConfigEdit"} \subseteq RowKinds
    BY <1>7 DEF EnqueueStart, EnqueueAcceptance, servers, RowKinds
  <2>5. QED
    BY <1>1, <2>2, <2>3, <2>4, OwnedSubmit
<1>8. ASSUME NEW c \in Clients, AcceptEula(c) PROVE Owned'
  <2>1. /\ pc[c] = "accept" /\ Resume(c, "lift_eula", at[c])
        /\ UNCHANGED <<rows, attached, crashes>>
    BY <1>8 DEF AcceptEula, Goto, servers
  <2>2. Up /\ Tied(c, "lift_eula", at[c]) /\ "lift_eula" \notin Resting
    BY <1>1, <2>1, TiedFacts DEF Tied, Unclaimed, Started, Resting
  <2>3. QED
    BY <1>1, <2>1, <2>2, OwnedQuiet
<1>9. QED
  BY <1>1, <1>6, <1>7, <1>8, OwnedSetsState, OwnedTransition, OwnedCloses DEF Client, Store
\* The supervisor's ticks.
LEMMA OwnedPollers ==
    ASSUME Base, Base', Owned, NEW t \in Pollers, Poller(t)
    PROVE  Owned'
<1>1. t \in Threads \ {"worker", "boot"}
  BY ThreadKinds DEF Threads
<1>2. CASE PollStart(t)
  <2>1. /\ Up /\ pc[t] \in Resting /\ UNCHANGED <<rows, attached, crashes>>
        /\ Resume(t, "scan", [NoArgs EXCEPT !.todo = OpenSessions])
    BY <1>2 DEF PollStart, Resting, servers
  <2>2. at[t].op = 0 /\ [NoArgs EXCEPT !.todo = OpenSessions].op = 0
    BY <1>1, <2>1, TiedFacts DEF NoArgs
  <2>3. Tied(t, "scan", [NoArgs EXCEPT !.todo = OpenSessions])
    BY <1>1, <2>2 DEF Tied, Started
  <2>4. QED
    BY <1>1, <2>1, <2>2, <2>3, OwnedQuiet
<1>3. CASE Poll(t)
  <2>1. /\ pc[t] = "scan" /\ Up /\ UNCHANGED <<rows, attached, crashes>>
        /\ Tied(t, pc[t], at[t])
    BY <1>1, <1>3, TiedFacts DEF Poll, servers
  <2>2. at[t].op = 0 \/ ops[at[t].op].status # "Running"
    BY <2>1 DEF Tied, Ops!Terminal
  <2>3. CASE Resume(t, "idle", at[t])
    <3>1. "idle" \in Resting
      BY DEF Resting
    <3>2. QED
      BY <1>1, <2>1, <2>2, <2>3, <3>1, OwnedQuiet
  <2>4. ASSUME NEW a, a.op = 0, NEW q \in {"scan", "close"}, Resume(t, q, a) PROVE Owned'
    <3>1. Tied(t, q, a)
      BY <1>1, <2>4 DEF Tied, Started
    <3>2. QED
      BY <1>1, <2>1, <2>2, <2>4, <3>1, OwnedQuiet
  <2>5. ASSUME NEW w \in at[t].todo, NEW a,
               a = [world |-> w, op |-> 0, reason |-> "crashed", todo |-> at[t].todo \ {w}],
               Resume(t, IF Reachable(w) THEN "scan" ELSE "close", a)
        PROVE  Owned'
    BY <2>4, <2>5
  <2>6. QED
    BY <1>3, <2>3, <2>5 DEF Poll, Goto
<1>4. CASE RecordCrash(t)
  <2>1. pc[t] = "record" /\ pc[t] # "idle" /\ Submit(t, "CrashDetected", MaxOps, "observe")
    BY <1>4 DEF RecordCrash
  <2>2. at[t].op = 0 /\ Up /\ at[t].world \in Worlds
    BY <1>1, <2>1, TiedFacts, BaseFacts DEF Tied, Unclaimed, Fits, WithWorld
  <2>3. UNCHANGED <<attached, crashes>> /\ "CrashDetected" \in RowKinds
    BY <1>4 DEF RecordCrash, servers, RowKinds
  <2>4. QED
    BY <1>1, <2>1, <2>2, <2>3, OwnedSubmit
<1>5. QED
  BY <1>1, <1>2, <1>3, <1>4, OwnedSetsState, OwnedTransition, OwnedCloses DEF Poller, Store

\* The dispatcher claims a row nobody else has.
LEMMA OwnedDispatch ==
    ASSUME Base, Base', Owned, NEW i \in 1 .. MaxOps, Dispatch(i)
    PROVE  Owned'
<1>1. /\ Up /\ pc["worker"] = "idle" /\ ops[i].type \in Ops!RuntimeTypes /\ Ops!Claim(i)
      /\ UNCHANGED <<attached, crashes>>
      /\ \E q \in {"check", "run"} :
            Resume("worker", q, [NoArgs EXCEPT !.world = ops[i].world, !.op = i])
  BY DEF Dispatch, servers
<1>2. "worker" \in Threads \ {"boot"} /\ RowsTyped /\ at["worker"].op = 0
  BY <1>1, TiedFacts DEF Base, Threads, Resting
<1>3. i \in 1 .. issued /\ ops[i].world \in Worlds /\ i \in 0 .. MaxOps
  BY <1>1, <1>2, RowNumbers DEF Ops!Claim, Ops!Claimable, RowsTyped
<1>4. ops'[i].status = "Running"
  <2>1. /\ "Running" \in Ops!Persisted /\ issued' = issued
        /\ ops' = [ops EXCEPT ![i].status = "Running"]
    BY <1>1 DEF Ops!Claim, Ops!Persisted
  <2>2. QED
    BY <1>2, <1>3, <2>1, RestatusStep
<1>5. \A s \in Threads \ {"worker"} : at[s].op # i
  <2>1. SUFFICES ASSUME NEW s \in Threads \ {"worker"}, at[s].op = i PROVE FALSE
    OBVIOUS
  <2>2. ops[i].type \in KindsOf(s) /\ i # 0
    BY <1>3, <2>1, TiedFacts
  <2>3. s = "boot"
    BY <1>1, <2>2, ThreadKinds DEF Ops!RuntimeTypes
  <2>4. QED
    BY <1>1, <2>1, <2>2, <2>3, TiedFacts DEF Up, Resting
<1>6. ASSUME NEW q \in {"check", "run"}, NEW a,
             a = [NoArgs EXCEPT !.world = ops[i].world, !.op = i], Resume("worker", q, a)
      PROVE  Owned'
  <2>1. a.op = i /\ i \in Nat
    <3>1. [NoArgs EXCEPT !.world = ops[i].world, !.op = i].op = i
      BY <1>3, ArgsOfRow
    <3>2. QED
      BY <1>2, <1>3, <1>6, <3>1, RowNumbers
  <2>2. q \notin Resting /\ q # "scan" /\ "worker" \notin Pollers
    BY RuntimeAssumption DEF Resting
  <2>3. a = Kept(q, a)
    BY <2>2 DEF Kept
  <2>4. Tied("worker", q, a)'
    BY <1>4, <2>1, <2>2 DEF Tied
  <2>5. Touches(i)
    BY <1>1, <1>3 DEF Touches
  <2>6. QED
    BY <1>1, <1>2, <1>5, <1>6, <2>1, <2>3, <2>4, <2>5, OwnedMove
<1>7. QED
  BY <1>1, <1>6

\* The dispatcher.
LEMMA OwnedDispatcher ==
    ASSUME Base, Base', Owned, Dispatcher
    PROVE  Owned'
<1> DEFINE W == at["worker"].world
           p == pc["worker"]
<1>1. "worker" \in Threads \ {"boot"} /\ "worker" \notin Pollers
  BY RuntimeAssumption DEF Threads
<1>2. ASSUME p # "idle", UNCHANGED <<rows, crashes>>, NEW q, q \notin Resting, q # "idle",
             q \in Started => p \in Started, NEW a, a.op = at["worker"].op,
             Resume("worker", q, a),
             \A i \in 1 .. issued :
                /\ ops[i].type = "Start" /\ ops[i].status = "Running"
                /\ ops[i].world \in attached
                => ops[i].world \in attached' \/ at["worker"].op = i
      PROVE  Owned'
  <2>1. Up /\ Tied("worker", p, at["worker"])
    BY <1>1, <1>2, TiedFacts
  <2>2. Tied("worker", q, a)
    BY <1>1, <1>2, <2>1 DEF Tied
  <2>3. QED
    BY <1>1, <1>2, <2>1, <2>2, OwnedQuiet
<1>3. CASE CheckLaunch
  <2>1. /\ p \in {"check", "recheck"} /\ UNCHANGED <<rows, attached, crashes>>
        /\ \E q \in {"raise", "cancel", "validate", "queue", "require_eula", "fail_eula",
                     "fail_start"} : Resume("worker", q, at["worker"])
    BY <1>3, LaunchChecked DEF CheckLaunch, servers
  <2>2. p \in Started /\ p # "idle"
    BY <2>1 DEF Started
  <2>3. QED
    BY <1>2, <2>1, <2>2 DEF Resting
<1>4. CASE Spawn
  <2>1. /\ p = "spawn" /\ UNCHANGED <<rows, crashes>> /\ attached \subseteq attached'
        /\ \E q \in {"fail_start", "open_session"} : Resume("worker", q, at["worker"])
    BY <1>4 DEF Spawn, Goto, servers
  <2>2. QED
    BY <1>2, <2>1 DEF Resting, Started
<1>5. CASE OpenSession
  <2>1. /\ p = "open_session" /\ UNCHANGED <<rows, attached, crashes>>
        /\ \E q \in {"fail_start", "await"} : Resume("worker", q, at["worker"])
    BY <1>5 DEF OpenSession, Goto
  <2>2. QED
    BY <1>2, <2>1 DEF Resting, Started
<1>6. ASSUME NEW r \in EndReasons PROVE [at["worker"] EXCEPT !.reason = r].op = at["worker"].op
  BY <1>1, BaseFacts, ArgSet
<1>7. CASE AwaitReadiness
  <2>1. /\ p = "await" /\ UNCHANGED <<rows, crashes>>
        /\ attached' \in {attached, attached \ {W}}
        /\ \/ Resume("worker", "confirm", at["worker"])
           \/ Resume("worker", "close", [at["worker"] EXCEPT !.reason = "crashed"])
    BY <1>7 DEF AwaitReadiness, Goto
  <2>2. /\ at["worker"].op \in 1 .. issued /\ ops[at["worker"].op].type = "Start"
        /\ ops[at["worker"].op].world = W
    BY <1>1, <2>1, BaseFacts DEF Fits, StartPoints
  <2>3. ops[at["worker"].op].status = "Running"
    BY <1>1, <2>1, TiedFacts DEF Tied, Started
  <2>4. \A i \in 1 .. issued :
           ops[i].type = "Start" /\ ops[i].status = "Running" /\ ops[i].world = W
           => at["worker"].op = i
    BY <2>2, <2>3 DEF Owned, Holders, OneHolder, Ops!InFlight
  <2>5. \A i \in 1 .. issued :
           /\ ops[i].type = "Start" /\ ops[i].status = "Running"
           /\ ops[i].world \in attached
           => ops[i].world \in attached' \/ at["worker"].op = i
    BY <2>1, <2>4
  <2>6. "crashed" \in EndReasons /\ "await" # "idle"
    BY DEF EndReasons
  <2>7. ASSUME NEW q \in {"confirm", "close"}, NEW a, a.op = at["worker"].op,
               Resume("worker", q, a)
        PROVE  Owned'
    BY <1>2, <2>1, <2>5, <2>6, <2>7 DEF Resting, Started
  <2>8. QED
    BY <1>6, <2>1, <2>6, <2>7
<1>8. CASE Halt
  <2>1. /\ p = "halt" /\ UNCHANGED <<rows, attached, crashes>>
        /\ \E r \in {"graceful_stop", "forced_stop"} :
              Resume("worker", "close", [at["worker"] EXCEPT !.reason = r])
    BY <1>8 DEF Halt
  <2>2. {"graceful_stop", "forced_stop"} \subseteq EndReasons
    BY DEF EndReasons
  <2>3. ASSUME NEW a, a.op = at["worker"].op, Resume("worker", "close", a)
        PROVE  Owned'
    BY <1>2, <2>1, <2>3 DEF Resting, Started
  <2>4. QED
    BY <1>6, <2>1, <2>2, <2>3
<1>9. QED
  BY <1>1, <1>3, <1>4, <1>5, <1>7, <1>8, OwnedDispatch, OwnedSetsState, OwnedTransition,
     OwnedCloses DEF Dispatcher, Store
\* Boot goes on.  Nobody else has a row, and the manager has crashed before.
LEMMA OwnedBoots ==
    ASSUME Base, Base', Owned, ~Up, NEW p, NEW a, Resume("boot", p, a), p # "up",
           NEW k, Touches(k), UNCHANGED crashes, p \in Unclaimed => a.op = 0,
           p \notin Resting => OpenSessions' \subseteq a.todo \cup attached' \cup
                                                (IF p = "close" THEN {a.world} ELSE {})
    PROVE  Owned'
<1>1. "boot" \in Threads /\ "boot" \notin Pollers
  BY RuntimeAssumption DEF Threads
<1>2. pc'["boot"] = p /\ at'["boot"] = Kept(p, a)
  BY <1>1, Resumed DEF Base
<1>3. crashes > 0
  BY DEF Owned, BootFinds
<1>4. \A s \in Threads \ {"boot"} : at[s].op = 0
  BY TiedFacts DEF Base, BootsAlone, Resting
<1>5. ASSUME NEW b, b = Kept(p, a) PROVE Holders'
  <2>1. b = at'["boot"] /\ at'["boot"].op \in Nat
    BY <1>1, <1>2, <1>5, RuntimeAssumption DEF Base, ThreadsOK, Args
  <2>2. Tied("boot", p, b)'
    <3>1. p \in Unclaimed => p \notin Resting
      BY DEF Unclaimed, Resting
    <3>2. QED
      BY <1>1, <1>5, <3>1, RuntimeAssumption DEF Tied, Kept
  <2>3. \A s \in Threads \ {"boot"} : at[s].op = k => k = 0
    BY <1>4
  <2>4. b.op \in Nat
    BY <2>1
  <2>5. b.op \in {0, at["boot"].op} \/ \A s \in Threads \ {"boot"} : at[s].op # b.op
    BY <1>4
  <2>6. QED
    BY <1>1, <1>3, <1>5, <2>2, <2>3, <2>4, <2>5, HoldersMove DEF Owned
<1>6. Holders'
  BY <1>5
<1>7. BootFinds'
  BY <1>2, <1>3 DEF BootFinds, Kept
<1>8. InterruptedStartsResolved'
  BY <1>2 DEF InterruptedStartsResolved, Up
<1>9. QED
  BY <1>6, <1>7, <1>8 DEF Owned

\* It goes on and leaves the sessions and the registry alone.
LEMMA OwnedBootKeeps ==
    ASSUME Base, Base', Owned, ~Up, NEW p, NEW a, Resume("boot", p, a),
           p \notin {"up", "close"}, NEW k, Touches(k), UNCHANGED <<session, attached, crashes>>,
           p \in Unclaimed => a.op = 0,
           p \notin Resting => a.todo = at["boot"].todo /\ pc["boot"] \notin Resting \cup {"close"}
    PROVE  Owned'
<1>1. OpenSessions' = OpenSessions
  BY DEF OpenSessions
<1>2. p \notin Resting => OpenSessions \subseteq a.todo \cup attached
  BY DEF Owned, BootFinds
<1>3. QED
  BY <1>1, <1>2, OwnedBoots

\* The manager boots.
LEMMA OwnedBoot ==
    ASSUME Base, Base', Owned, Boot
    PROVE  Owned'
<1> DEFINE b == at["boot"]
           p == pc["boot"]
<1>1. /\ "boot" \in Threads /\ "boot" # "worker" /\ p \in BootPoints /\ b \in Args
      /\ Fits("boot", p, b) /\ Tied("boot", p, b) /\ RowsTyped
  BY BaseFacts, TiedFacts, ThreadKinds, RuntimeAssumption DEF Threads
<1>2. Touches(0) \/ ~UNCHANGED rows
  BY DEF Touches
<1>3. p \in Unclaimed => b.op = 0
  BY <1>1 DEF Tied
<1>4. CASE BootStart
  <2>1. /\ ~Up /\ UNCHANGED <<rows, session, attached, crashes>>
        /\ Resume("boot", "scan", [NoArgs EXCEPT !.todo = OpenSessions])
    BY <1>4 DEF BootStart, Up, servers
  <2>2. [NoArgs EXCEPT !.todo = OpenSessions].todo = OpenSessions /\ OpenSessions' = OpenSessions
    BY <2>1 DEF NoArgs, OpenSessions
  <2>3. "scan" \notin Unclaimed
    BY DEF Unclaimed
  <2>4. QED
    BY <1>2, <2>1, <2>2, <2>3, OwnedBoots
<1>5. CASE Reattach
  <2>1. p = "scan" /\ ~Up /\ UNCHANGED <<rows, session, crashes>>
    BY <1>5 DEF Reattach, Up
  <2>2. OpenSessions \subseteq b.todo \cup attached /\ OpenSessions' = OpenSessions
    BY <2>1 DEF Owned, BootFinds, Resting, OpenSessions
  <2>3. ASSUME NEW w \in b.todo, NEW a, a.op = 0, a.world = w, a.todo = b.todo \ {w},
               \/ attached' = attached \cup {w} /\ Resume("boot", "reattach", a)
               \/ UNCHANGED attached /\ Resume("boot", "close", a)
        PROVE  Owned'
    BY <1>2, <2>1, <2>2, <2>3, OwnedBoots
  <2>4. PICK w \in b.todo :
           LET a == [world |-> w, op |-> 0, reason |-> "reconciled_missing",
                     todo |-> b.todo \ {w}] IN
           \/ attached' = attached \cup {w} /\ Resume("boot", "reattach", a)
           \/ UNCHANGED attached /\ Resume("boot", "close", a)
    BY <1>5 DEF Reattach
  <2> DEFINE a == [world |-> w, op |-> 0, reason |-> "reconciled_missing",
                   todo |-> b.todo \ {w}]
  <2>5. a.op = 0 /\ a.world = w /\ a.todo = b.todo \ {w}
    OBVIOUS
  <2> HIDE DEF a
  <2>6. \/ attached' = attached \cup {w} /\ Resume("boot", "reattach", a)
        \/ UNCHANGED attached /\ Resume("boot", "close", a)
    BY <2>4 DEF a
  <2>7. QED
    BY <2>3, <2>5, <2>6
<1>6. CASE ResolveMissing
  <2>1. p = "resolve" /\ ~Up /\ UNCHANGED <<rows, session, attached, crashes>>
    BY <1>6 DEF ResolveMissing, Up, servers
  <2>2. CASE Resume("boot", "crash", b)
    BY <1>2, <1>3, <2>1, <2>2, OwnedBootKeeps DEF Resting, Unclaimed
  <2>3. ASSUME NEW a, a.todo = b.todo, Resume("boot", "interrupt", a) PROVE Owned'
    BY <1>2, <2>1, <2>3, OwnedBootKeeps DEF Resting, Unclaimed
  <2>4. ASSUME NEW i \in RunningStarts PROVE [b EXCEPT !.op = i].todo = b.todo
    BY <1>1 DEF Args
  <2>5. QED
    BY <1>6, <2>2, <2>3, <2>4 DEF ResolveMissing, Goto
<1>7. CASE RecordCrash("boot")
  <2>1. /\ p = "record" /\ ~Up /\ UNCHANGED <<session, attached, crashes>>
        /\ \/ /\ Inserts("CrashDetected", b.world)
              /\ Resume("boot", "observe", [b EXCEPT !.op = issued + 1])
           \/ UNCHANGED rows /\ Resume("boot", "idle", b)
    BY <1>7 DEF RecordCrash, Submit, Goto, Inserts, Up, servers
  <2>2. CASE UNCHANGED rows /\ Resume("boot", "idle", b)
    BY <1>2, <2>1, <2>2, OwnedBootKeeps DEF Resting, Unclaimed
  <2>3. ASSUME Inserts("CrashDetected", b.world), NEW a, a = [b EXCEPT !.op = issued + 1],
               Resume("boot", "observe", a)
        PROVE  Owned'
    <3>1. b.world \in Worlds /\ "CrashDetected" \in RowKinds
      BY <1>1, <2>1 DEF Fits, WithWorld, RowKinds
    <3>2. Touches(0)
      BY <2>3, <3>1 DEF Touches
    <3>3. a.todo = b.todo
      BY <1>1, <2>3 DEF Args
    <3>4. ASSUME NEW x, x.todo = b.todo, Resume("boot", "observe", x) PROVE Owned'
      BY <2>1, <3>2, <3>4, OwnedBootKeeps DEF Resting, Unclaimed
    <3>5. QED
      BY <2>3, <3>3, <3>4
  <2>4. QED
    BY <2>1, <2>2, <2>3
<1>8. CASE NextInterruptedStart
  <2>1. p = "scan" /\ ~Up /\ UNCHANGED <<rows, session, attached, crashes>> /\ b.todo = {}
    BY <1>8 DEF NextInterruptedStart, Up, servers
  <2>2. CASE /\ {i \in RunningStarts : session[ops[i].world] # "open"} = {}
             /\ Resume("boot", "up", b)
    <3>1. OpenSessions \subseteq attached /\ crashes > 0
      BY <2>1 DEF Owned, BootFinds, Resting
    <3>2. \A s \in Threads \ {"boot"} : at[s].op = 0
      BY <2>1, TiedFacts DEF Base, BootsAlone, Resting
    <3>3. "up" \in Resting /\ pc'["boot"] = "up"
      BY <1>1, <2>2, Resumed DEF Resting, Base
    <3>4. ASSUME NEW c, c = Kept("up", b) PROVE Holders'
      <4>1. c.op = 0
        BY <3>3, <3>4 DEF Kept, NoArgs
      <4>2. Tied("boot", "up", c)'
        BY <3>3, TiedAtRest
      <4>3. QED
        BY <1>1, <1>2, <2>1, <2>2, <3>1, <3>2, <3>4, <4>1, <4>2, HoldersMove DEF Owned
    <3>5. Holders'
      BY <3>4
    <3>6. BootFinds'
      BY <3>3 DEF BootFinds, Up
    <3>7. UNCHANGED <<ops, issued>>
      BY <2>1 DEF rows
    <3>8. ASSUME NEW i \in 1 .. issued, ops[i].type = "Start", ops[i].status = "Running"
          PROVE  ops[i].world \in attached
      <4>1. session[ops[i].world] = "open" /\ ops[i].world \in Worlds
        BY <1>1, <2>2, <3>8 DEF RunningStarts, RowsTyped
      <4>2. QED
        BY <3>1, <4>1 DEF OpenSessions
    <3>9. InterruptedStartsResolved'
      BY <2>1, <3>1, <3>7, <3>8 DEF InterruptedStartsResolved
    <3>10. QED
      BY <3>5, <3>6, <3>9 DEF Owned
  <2>3. ASSUME NEW i \in RunningStarts, NEW a,
               a = [NoArgs EXCEPT !.world = ops[i].world, !.op = i],
               Resume("boot", "interrupt", a)
        PROVE  Owned'
    <3>1. ops[i].world \in Worlds /\ i \in 0 .. MaxOps
      BY <1>1, RowNumbers DEF RunningStarts, RowsTyped
    <3>2. [NoArgs EXCEPT !.world = ops[i].world, !.op = i].todo = {}
      BY <3>1, ArgsOfRow
    <3>3. a.todo = b.todo
      BY <2>1, <2>3, <3>2
    <3>4. ASSUME NEW x, x.todo = b.todo, Resume("boot", "interrupt", x) PROVE Owned'
      BY <1>2, <2>1, <3>4, OwnedBootKeeps DEF Resting, Unclaimed
    <3>5. QED
      BY <2>3, <3>3, <3>4
  <2>4. QED
    BY <1>8, <2>2, <2>3 DEF NextInterruptedStart, Goto
<1>9. CASE FailInterruptedStart
  <2>1. /\ p = "interrupt" /\ ~Up /\ UNCHANGED <<rows, session, attached, crashes>>
        /\ \E q \in {"interrupted", "abort"} : Resume("boot", q, b)
    BY <1>9 DEF FailInterruptedStart, Goto, Up, servers
  <2>2. QED
    BY <1>2, <2>1, OwnedBootKeeps DEF Resting, Unclaimed
<1>10. CASE SetWorldState("boot")
  <2>1. /\ p \in DOMAIN WorldWrites /\ UNCHANGED <<rows, session, attached, crashes>>
        /\ \E q \in {WorldWrites[p].next, WorldWrites[p].refused} : Resume("boot", q, b)
    BY <1>10 DEF SetWorldState, Goto, servers
  <2>2. p \in {"crash", "reattach"}
    BY <1>1, <2>1, WorldWriteTable DEF BootPoints
  <2>3. ~Up /\ \E q \in {"record", "abort", "scan"} : Resume("boot", q, b)
    BY <2>1, <2>2, WorldWriteTable DEF Up
  <2>4. b.op = 0
    BY <1>3, <2>2 DEF Unclaimed
  <2>5. QED
    BY <1>2, <2>1, <2>2, <2>3, <2>4, OwnedBootKeeps DEF Resting
<1>11. CASE SetStatus("boot")
  <2>1. p \in DOMAIN StatusWrites /\ UNCHANGED <<session, attached, crashes>>
    BY <1>11 DEF SetStatus, servers
  <2>2. p \in {"observe", "observed", "interrupted"}
    BY <1>1, <2>1, StatusWriteTable DEF BootPoints
  <2>3. ~Up /\ p \notin Resting \cup {"close"} /\ b.op \in 1 .. issued
    BY <1>1, <2>2 DEF Up, Resting, Fits, WithRow
  <2>4. \E q \in {"observed", "abort", "scan"} : Resume("boot", q, b)
    BY <1>11, <2>2, StatusWriteTable DEF SetStatus, Goto
  <2>5. {"Running", "Completed", "Failed"} \subseteq Ops!Persisted
    BY DEF Ops!Persisted, Ops!Terminal
  <2>6. Touches(b.op)
    BY <1>11, <2>2, <2>3, <2>5, StatusWriteTable DEF SetStatus, Touches
  <2>7. QED
    BY <2>1, <2>3, <2>4, <2>6, OwnedBootKeeps DEF Unclaimed
<1>12. CASE CloseSession("boot")
  <2>1. /\ p = "close" /\ ~Up /\ UNCHANGED <<rows, attached, crashes>>
        /\ session' = [session EXCEPT ![b.world] = IF @ = "open" THEN b.reason ELSE @]
        /\ Resume("boot", "resolve", b)
    <3>1. (CASE "boot" = "boot" -> "resolve"
             [] "boot" \in Pollers -> "crash"
             [] "boot" = "worker" ->
                  IF ops[at["boot"].op].type = "Start" THEN "time_out" ELSE "off") = "resolve"
      BY RuntimeAssumption
    <3>2. QED
      BY <1>12, <3>1 DEF CloseSession, Goto, Up
  <2>2. b.world \in Worlds /\ b.reason # "open"
    BY <1>1, <2>1 DEF Fits, WithWorld, EndReasons
  <2>3. OpenSessions' \subseteq OpenSessions \ {b.world}
    BY <2>1, <2>2 DEF OpenSessions, Base, RestTyped
  <2>4. OpenSessions \subseteq b.todo \cup attached \cup {b.world}
    BY <2>1 DEF Owned, BootFinds, Resting
  <2>5. b.op = 0
    BY <1>3, <2>1 DEF Unclaimed
  <2>6. OpenSessions' \subseteq b.todo \cup attached'
    BY <2>1, <2>3, <2>4
  <2>7. QED
    BY <1>2, <2>1, <2>5, <2>6, OwnedBoots
<1>13. QED
  BY <1>4, <1>5, <1>6, <1>7, <1>8, <1>9, <1>10, <1>11, <1>12 DEF Boot, Store
\* Servers bind and exit, eula.txt is edited, and the manager crashes.
LEMMA OwnedEnvironment ==
    ASSUME Base, Base', Owned, Environment
    PROVE  Owned'
<1>1. ASSUME NEW w \in Worlds, Bind(w) \/ Exit(w) \/ RevokeEula(w) PROVE Owned'
  <2>1. UNCHANGED <<rows, pc, at, session, attached, crashes>>
    BY <1>1 DEF Bind, Exit, RevokeEula, servers
  <2>2. QED
    BY <2>1, OwnedStill
<1>2. CASE ManagerCrash
  <2>1. /\ crashes' = crashes + 1 /\ UNCHANGED rows
        /\ pc' = [t \in Threads |-> IF t = "boot" THEN "down" ELSE "idle"]
        /\ at' = [t \in Threads |-> NoArgs]
    BY <1>2 DEF ManagerCrash
  <2>2. crashes' > 0
    BY <2>1 DEF Base, RestTyped
  <2>3. pc'["boot"] = "down" /\ ~Up' /\ "down" \in Resting
    BY <2>1 DEF Threads, Up, Resting
  <2>4. NoArgs.op = 0
    BY DEF NoArgs
  <2>5. OneHolder'
    BY <2>1 DEF rows, Owned, Holders, OneHolder, Ops!InFlight
  <2>6. Alone' /\ Worked'
    BY <2>1, <2>2, <2>4 DEF Alone, Worked
  <2>7. ASSUME NEW t \in Threads PROVE Tied(t, pc[t], at[t])'
    <3>1. pc'[t] \in Resting
      BY <2>1 DEF Resting
    <3>2. QED
      BY <3>1 DEF Tied, Resting, Unclaimed, Started
  <2>8. BootFinds' /\ InterruptedStartsResolved'
    BY <2>2, <2>3 DEF BootFinds, InterruptedStartsResolved
  <2>9. QED
    BY <2>5, <2>6, <2>7, <2>8 DEF Owned, Holders
<1>3. QED
  BY <1>1, <1>2 DEF Environment

\* A new installation has no rows.
LEMMA OwnedInit ==
    ASSUME Init
    PROVE  Owned
<1>1. /\ issued = 0 /\ 1 .. issued = {} /\ Up
      /\ pc = [t \in Threads |-> IF t = "boot" THEN "up" ELSE "idle"]
      /\ at = [t \in Threads |-> NoArgs]
  BY DEF Init, Ops!Init, Up, Threads
<1>2. NoArgs.op = 0
  BY DEF NoArgs
<1>3. OneHolder /\ Alone /\ Worked /\ InterruptedStartsResolved
  BY <1>1, <1>2 DEF OneHolder, Alone, Worked, InterruptedStartsResolved
<1>4. ASSUME NEW t \in Threads PROVE Tied(t, pc[t], at[t])
  <2>1. pc[t] \in Resting
    BY <1>1 DEF Resting
  <2>2. QED
    BY <2>1 DEF Tied, Resting, Unclaimed, Started
<1>5. BootFinds
  BY <1>1 DEF BootFinds, Up, Resting
<1>6. QED
  BY <1>3, <1>4, <1>5 DEF Owned, Holders

\* No thread of the manager loses a row, nor does a boot lose a start: before any crash of the
\* manager exactly one thread works on each row that is running, and after a restart a start
\* that is running is the dispatcher's, or its server was found (claim_queued, _fail_op,
\* reconcile, _in_flight_start).
THEOREM RowsStayOwned == Spec => []RowsAreOwned
<1>1. Init => Owned
  BY OwnedInit
<1>2. Base /\ Owned /\ [Next]_vars => Owned'
  <2>1. SUFFICES ASSUME Base, Owned, [Next]_vars PROVE Owned'
    OBVIOUS
  <2>2. CASE Next
    <3>1. Base'
      BY <2>1, <2>2, BaseStep
    <3>2. QED
      BY <2>1, <2>2, <3>1, OwnedClients, OwnedPollers, OwnedDispatcher, OwnedBoot,
         OwnedEnvironment DEF Next
  <2>3. CASE UNCHANGED vars
    BY <2>1, <2>3, OwnedStill DEF vars, servers
  <2>4. QED
    BY <2>1, <2>2, <2>3
<1>3. Base /\ Owned => RowsAreOwned
  <2>1. SUFFICES ASSUME Base, Owned PROVE RowsAreOwned
    OBVIOUS
  <2>2. ASSUME crashes = 0, NEW i \in 1 .. issued, ops[i].status = "Running"
        PROVE  Cardinality({t \in Threads : at[t].op = i}) = 1
    <3>1. PICK s \in Threads : at[s].op = i
      BY <2>1, <2>2 DEF Owned, Holders, Worked
    <3>2. i # 0
      BY <2>1, RowNumbers DEF Base
    <3>3. {t \in Threads : at[t].op = i} = {s}
      BY <2>1, <3>1, <3>2 DEF Owned, Holders, Alone
    <3>4. QED
      BY <3>3, FS_Singleton
  <2>3. QED
    BY <2>1, <2>2 DEF RowsAreOwned, RunningRowsAreOwned, Owned
<1>4. QED
  BY <1>1, <1>2, <1>3, RuntimeBase, PTL DEF Spec

-----------------------------------------------------------------------------
(* The state machine that every change goes through: the invariant of      *)
(* validate_world_instance and the promise that servers are given up only  *)
(* by stopping or failing, for any set of worlds.                          *)

\* Variables of a state machine of its own: any changes that its table allows.
VARIABLES lifeState, lifeBefore, lifeDeleted

Lifecycle == INSTANCE WorldLifecycle WITH
    state <- lifeState, before <- lifeBefore, deleted <- lifeDeleted

\* The table leads into a backup only from off and from running, and to a state of
\* the world only by the successors written in it (_ALLOWED_TRANSITIONS).
LEMMA Table ==
    ASSUME NEW s \in Lifecycle!States
    PROVE  /\ Lifecycle!Successors[s] \subseteq Lifecycle!States
           /\ "backing_up" \in Lifecycle!Successors[s] => s \in {"off", "running"}
           /\ "starting" \in Lifecycle!Successors[s] => s = "queued"
           /\ "running" \in Lifecycle!Successors[s] => s \in {"starting", "backing_up"}
           /\ "stopping" \in Lifecycle!Successors[s] => s = "running"
           /\ s = "off" => Lifecycle!Successors[s] =
                               {"queued", "backing_up", "restoring", "eula_required"}
           /\ s = "starting" => Lifecycle!Successors[s] = {"running", "error"}
           /\ s = "running" => Lifecycle!Successors[s] = {"stopping", "backing_up", "crashed"}
  <1>1. /\ Lifecycle!Successors["off"] = {"queued", "backing_up", "restoring", "eula_required"}
        /\ Lifecycle!Successors["queued"] = {"off", "starting"}
        /\ Lifecycle!Successors["starting"] = {"running", "error"}
        /\ Lifecycle!Successors["running"] = {"stopping", "backing_up", "crashed"}
        /\ Lifecycle!Successors["stopping"] = {"off"}
        /\ Lifecycle!Successors["restoring"] = {"off", "error"}
        /\ Lifecycle!Successors["backing_up"] = {"off", "running", "error"}
        /\ Lifecycle!Successors["crashed"] = {"off"}
        /\ Lifecycle!Successors["error"] = {"off"}
        /\ Lifecycle!Successors["eula_required"] = {"off"}
    BY DEF Lifecycle!Successors
  <1> QED
    BY <1>1 DEF Lifecycle!States

\* What a transition does to the world it is about: pre_backup_state is the state
\* a backup interrupted, and nothing otherwise (transition_world).
LEMMA TransitionEffect ==
    ASSUME Lifecycle!TypeOK, NEW w \in Worlds, NEW new \in Lifecycle!States,
           NEW intent \in Lifecycle!Intents, Lifecycle!Transition(w, new, intent)
    PROVE  /\ lifeState' \in [Worlds -> Lifecycle!States]
           /\ lifeBefore' \in [Worlds -> {"off", "running", None}]
           /\ lifeState'[w] = new
           /\ new # "backing_up" => lifeBefore'[w] = None
           /\ new = "backing_up" /\ lifeState[w] = "backing_up" => lifeBefore'[w] = lifeBefore[w]
           /\ new = "backing_up" /\ lifeState[w] # "backing_up" => lifeBefore'[w] = lifeState[w]
           /\ new = "backing_up" => lifeBefore'[w] \in {"off", "running"}
           /\ \A v \in Worlds \ {w} : lifeState'[v] = lifeState[v] /\ lifeBefore'[v] = lifeBefore[v]
           /\ w \notin lifeDeleted /\ lifeDeleted' = lifeDeleted
  <1>1. new = lifeState[w] \/ new \in Lifecycle!Successors[lifeState[w]]
    BY DEF Lifecycle!Transition, Lifecycle!Permitted
  <1>2. lifeState[w] \in Lifecycle!States
    BY DEF Lifecycle!TypeOK
  <1>3. new = "backing_up" /\ lifeState[w] # "backing_up" => lifeState[w] \in {"off", "running"}
    <2>1. "backing_up" \in Lifecycle!Successors[lifeState[w]] => lifeState[w] \in {"off", "running"}
      BY <1>2, Table
    <2>2. QED
      BY <1>1, <2>1
  <1>4. new = "backing_up" /\ lifeState[w] = "backing_up" => lifeBefore[w] \in {"off", "running"}
    BY DEF Lifecycle!TypeOK
  <1> DEFINE b == IF new # "backing_up" THEN None
                  ELSE IF lifeState[w] = "backing_up" THEN lifeBefore[w] ELSE lifeState[w]
  <1>5. /\ new # "backing_up" => b = None
        /\ new = "backing_up" /\ lifeState[w] = "backing_up" => b = lifeBefore[w]
        /\ new = "backing_up" /\ lifeState[w] # "backing_up" => b = lifeState[w]
    OBVIOUS
  <1>6. b \in {"off", "running", None}
    BY <1>3, <1>4, <1>5
  <1>7. lifeBefore' = [lifeBefore EXCEPT ![w] = b] /\ lifeState' = [lifeState EXCEPT ![w] = new]
    BY DEF Lifecycle!Transition
  <1>8. w \notin lifeDeleted /\ lifeDeleted' = lifeDeleted
    BY DEF Lifecycle!Transition, Lifecycle!Permitted
  <1> HIDE DEF b
  <1>9. /\ lifeState' \in [Worlds -> Lifecycle!States]
        /\ lifeBefore' \in [Worlds -> {"off", "running", None}]
        /\ lifeState'[w] = new /\ lifeBefore'[w] = b
        /\ \A v \in Worlds \ {w} : lifeState'[v] = lifeState[v] /\ lifeBefore'[v] = lifeBefore[v]
    BY <1>6, <1>7 DEF Lifecycle!TypeOK
  <1> QED
    BY <1>3, <1>4, <1>5, <1>8, <1>9

\* What validate_world_instance demands holds of every world that transition_world
\* and tombstone_world produce.
THEOREM WorldsAreValid == Lifecycle!Spec => []Lifecycle!TypeOK
  <1>1. Lifecycle!Init => Lifecycle!TypeOK
    BY DEF Lifecycle!Init, Lifecycle!TypeOK, Lifecycle!States
  <1>2. Lifecycle!TypeOK /\ [Lifecycle!Next]_Lifecycle!vars => Lifecycle!TypeOK'
    <2> SUFFICES ASSUME Lifecycle!TypeOK, [Lifecycle!Next]_Lifecycle!vars PROVE Lifecycle!TypeOK'
      OBVIOUS
    <2>1. CASE UNCHANGED Lifecycle!vars
      BY <2>1 DEF Lifecycle!TypeOK, Lifecycle!vars
    <2>2. ASSUME NEW w \in Worlds, NEW new \in Lifecycle!States, NEW intent \in Lifecycle!Intents,
                 Lifecycle!Transition(w, new, intent)
          PROVE  Lifecycle!TypeOK'
      <3>1. lifeDeleted' \subseteq {v \in Worlds : lifeState'[v] = "off"}
        BY <2>2, TransitionEffect DEF Lifecycle!TypeOK
      <3>2. \A v \in Worlds :
                /\ lifeState'[v] = "backing_up" => lifeBefore'[v] \in {"off", "running"}
                /\ lifeState'[v] # "backing_up" => lifeBefore'[v] = None
        BY <2>2, TransitionEffect DEF Lifecycle!TypeOK
      <3> QED
        BY <2>2, <3>1, <3>2, TransitionEffect DEF Lifecycle!TypeOK
    <2>3. ASSUME NEW w \in Worlds, Lifecycle!Tombstone(w) PROVE Lifecycle!TypeOK'
      BY <2>3 DEF Lifecycle!TypeOK, Lifecycle!Tombstone, Lifecycle!Deletable
    <2> QED
      BY <2>1, <2>2, <2>3 DEF Lifecycle!Next
  <1> QED
    BY <1>1, <1>2, PTL DEF Lifecycle!Spec

\* A step changes whether a world's server may be up only by completing a stop, by a
\* failure, or by a start.
LEMMA UpChanges ==
    ASSUME Lifecycle!TypeOK, NEW w \in Worlds, NEW new \in Lifecycle!States,
           NEW intent \in Lifecycle!Intents, Lifecycle!Transition(w, new, intent)
    PROVE  /\ Lifecycle!Up(w) /\ ~Lifecycle!Up(w)' =>
                lifeState[w] = "stopping" \/ new \in {"crashed", "error"}
           /\ ~Lifecycle!Up(w) /\ Lifecycle!Up(w)' => lifeState[w] = "queued" /\ new = "starting"
  <1>1. lifeState[w] \in Lifecycle!States /\ lifeState'[w] = new
    BY TransitionEffect DEF Lifecycle!TypeOK
  <1>2. new = lifeState[w] \/ new \in Lifecycle!Successors[lifeState[w]]
    BY DEF Lifecycle!Transition, Lifecycle!Permitted
  <1>3. CASE lifeState[w] = "backing_up"
    <2>1. new = "backing_up" \/ new \in {lifeBefore[w], "error"}
      BY <1>3 DEF Lifecycle!Transition, Lifecycle!Permitted, Lifecycle!BackupExit
    <2>2. lifeBefore[w] \in {"off", "running"}
      BY <1>3 DEF Lifecycle!TypeOK
    <2> QED
      BY <1>1, <1>3, <2>1, <2>2, TransitionEffect DEF Lifecycle!Up
  <1>4. CASE lifeState[w] # "backing_up" /\ new = "backing_up"
    BY <1>1, <1>2, <1>4, Table, TransitionEffect DEF Lifecycle!Up
  <1>5. CASE lifeState[w] # "backing_up" /\ new # "backing_up"
    BY <1>1, <1>2, <1>5, Table DEF Lifecycle!Up
  <1> QED
    BY <1>3, <1>4, <1>5

\* No sequence of legal transitions takes a world's server down or up behind the
\* back of a stop, a failure or a start (transition_world).
THEOREM ServersAreStoppedOrFail == Lifecycle!Spec => Lifecycle!ServersAreStopped
  <1> DEFINE P(w) ==
          /\ Lifecycle!Up(w) /\ ~Lifecycle!Up(w)' =>
               lifeState[w] = "stopping" \/ lifeState'[w] \in {"crashed", "error"}
          /\ ~Lifecycle!Up(w) /\ Lifecycle!Up(w)' =>
               lifeState[w] = "queued" /\ lifeState'[w] = "starting"
  <1>1. Lifecycle!TypeOK /\ [Lifecycle!Next]_Lifecycle!vars =>
            [\A w \in Worlds : P(w)]_Lifecycle!vars
    <2> SUFFICES ASSUME Lifecycle!TypeOK, Lifecycle!Next, NEW v \in Worlds PROVE P(v)
      OBVIOUS
    <2>1. ASSUME NEW w \in Worlds, NEW new \in Lifecycle!States, NEW intent \in Lifecycle!Intents,
                 Lifecycle!Transition(w, new, intent)
          PROVE  P(v)
      <3>1. CASE v = w
        BY <2>1, <3>1, UpChanges, TransitionEffect
      <3>2. CASE v # w
        <4>1. lifeState'[v] = lifeState[v] /\ lifeBefore'[v] = lifeBefore[v]
          BY <2>1, <3>2, TransitionEffect
        <4> QED
          BY <4>1 DEF Lifecycle!Up
      <3> QED
        BY <3>1, <3>2
    <2>2. ASSUME NEW w \in Worlds, Lifecycle!Tombstone(w) PROVE P(v)
      BY <2>2 DEF Lifecycle!Tombstone, Lifecycle!Up
    <2> QED
      BY <2>1, <2>2 DEF Lifecycle!Next
  <1> QED
    BY <1>1, WorldsAreValid, PTL DEF Lifecycle!Spec, Lifecycle!ServersAreStopped
=============================================================================
