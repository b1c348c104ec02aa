------------------------ MODULE OperationServiceProofs ------------------------
(***************************************************************************)
(* Theorems about the operation engine, for every set of worlds, keys and  *)
(* requests and every table size.                                          *)
(***************************************************************************)
EXTENDS OperationService, TLAPS

\* The rows a request supersedes are in flight.
LEMMA SupersededInFlight ==
    ASSUME NEW r PROVE Superseded(r) \subseteq InFlightOps
BY DEF Superseded, Active

\* What create_with_replay's transaction does to each row.
LEMMA CreateEffect ==
    ASSUME TypeOK, NEW r \in Requests, Create(r)
    PROVE  /\ issued + 1 \in OpId
           /\ issued' = issued + 1
           /\ ops[issued + 1].status = "Absent"
           /\ issued + 1 \notin Superseded(r)
           /\ \A j \in OpId : j \notin Superseded(r) \cup {issued + 1} => ops'[j] = ops[j]
           /\ \A j \in Superseded(r) : ops'[j] = [ops[j] EXCEPT !.status = "Cancelled"]
           /\ ops'[issued + 1] = NewRow(r)
<1>1. issued + 1 \in OpId /\ issued' = issued + 1
  BY ConstantsAssumption DEF TypeOK, Create, OpId
<1>2. ops[issued + 1].status = "Absent"
  BY <1>1 DEF TypeOK, OpId
<1>3. issued + 1 \notin Superseded(r)
  BY <1>2, SupersededInFlight DEF InFlightOps, InFlight
<1>4. Superseded(r) \subseteq OpId
  BY SupersededInFlight DEF InFlightOps
<1>5. QED
  BY <1>1, <1>2, <1>3, <1>4 DEF Create

\* Rewriting the status of a row leaves its identity alone.
LEMMA StatusOnly ==
    ASSUME NEW x \in Row, NEW st \in InFlight \cup Terminal
    PROVE  /\ [x EXCEPT !.status = st] \in Row
           /\ [x EXCEPT !.status = st].status = st
           /\ [x EXCEPT !.status = st].type = x.type
           /\ [x EXCEPT !.status = st].world = x.world
           /\ [x EXCEPT !.status = st].key = x.key
           /\ ([x EXCEPT !.status = st].bypass <=> x.bypass)
BY DEF Row

\* The row inserted is well typed and waits or runs.
LEMMA NewRowType ==
    ASSUME NEW r \in Requests
    PROVE  /\ NewRow(r) \in Row
           /\ NewRow(r).status \in {"Queued", "Running"}
           /\ NewRow(r).type = r.type /\ NewRow(r).world = r.world
           /\ NewRow(r).key = r.key /\ (NewRow(r).bypass <=> r.bypass)
<1>1. r \in Request
  BY ConstantsAssumption
<1>2. r.initial \in {"Queued", "Running"}
  BY <1>1 DEF Request
<1>3. NewRow(r).status \in {"Queued", "Running"}
  BY <1>2 DEF NewRow
<1>4. QED
  BY <1>1, <1>3 DEF NewRow, Request, Row, InFlight

\* A row in flight that is given a stored status stays a row, and the others stay as
\* they are.
LEMMA Restatus ==
    ASSUME TypeOK, NEW i \in OpId, NEW st \in Persisted, ops[i].status \in InFlight,
           ops' = [ops EXCEPT ![i].status = st], issued' = issued
    PROVE  /\ ops' \in [OpId -> Row]
           /\ \A j \in OpId : ops'[j].status = "Absent" <=> j > issued'
           /\ \A j \in OpId : ops'[j].status \notin {"Created", "Validating"}
<1>1. st \in InFlight \cup Terminal /\ st \notin {"Created", "Validating", "Absent"}
  BY DEF Persisted, InFlight, Terminal
<1>2. ops \in [OpId -> Row] /\ ops[i] \in Row
  BY DEF TypeOK
<1>3. ops' = [ops EXCEPT ![i] = [ops[i] EXCEPT !.status = st]]
  BY <1>2
<1>4. [ops[i] EXCEPT !.status = st] \in Row /\ [ops[i] EXCEPT !.status = st].status = st
  BY <1>1, <1>2, StatusOnly
<1> DEFINE row == [ops[i] EXCEPT !.status = st]
<1> HIDE DEF row
<1>5. ops' = [ops EXCEPT ![i] = row] /\ row \in Row /\ row.status = st
  BY <1>3, <1>4 DEF row
<1>6. ops' \in [OpId -> Row] /\ ops'[i].status = st
      /\ \A j \in OpId \ {i} : ops'[j] = ops[j]
  BY <1>2, <1>5
<1>7. ops[i].status # "Absent"
  BY DEF InFlight
<1>8. /\ \A j \in OpId : ops[j].status = "Absent" <=> j > issued
      /\ \A j \in OpId : ops[j].status \notin {"Created", "Validating"}
  BY DEF TypeOK
<1>9. QED
  BY <1>1, <1>6, <1>7, <1>8

-----------------------------------------------------------------------------
\* Type correctness: rows are numbered without gaps and hold stored statuses only.
THEOREM TypeCorrect == Spec => []TypeOK
<1>1. Init => TypeOK
  BY ConstantsAssumption DEF Init, TypeOK, NoRow, Row, Types, OpId
<1>2. TypeOK /\ [Next]_vars => TypeOK'
  <2> SUFFICES ASSUME TypeOK, [Next]_vars PROVE TypeOK'
    OBVIOUS
  <2>1. ASSUME NEW r \in Requests, Create(r) PROVE TypeOK'
    <3>1. ops'[issued + 1] \in Row /\ ops'[issued + 1].status \in {"Queued", "Running"}
      BY <2>1, CreateEffect, NewRowType
    <3>3. \A j \in Superseded(r) : ops'[j] \in Row /\ ops'[j].status = "Cancelled"
                                                   /\ ops[j].status \in InFlight
      <4> SUFFICES ASSUME NEW j \in Superseded(r)
                   PROVE  ops'[j] \in Row /\ ops'[j].status = "Cancelled"
                                          /\ ops[j].status \in InFlight
        OBVIOUS
      <4>1. j \in OpId /\ ops[j].status \in InFlight
        BY SupersededInFlight DEF InFlightOps
      <4>2. ops[j] \in Row
        BY <4>1 DEF TypeOK
      <4>3. ops'[j] = [ops[j] EXCEPT !.status = "Cancelled"]
        BY <2>1, CreateEffect
      <4>4. "Cancelled" \in InFlight \cup Terminal
        BY DEF Terminal
      <4>5. QED
        BY <4>1, <4>2, <4>3, <4>4, StatusOnly
    <3>4. \A j \in OpId : ops'[j] \in Row
      BY <2>1, <3>1, <3>3, CreateEffect DEF TypeOK
    <3>5. ops' \in [OpId -> Row]
      BY <2>1, <3>4 DEF Create
    <3>6. issued' \in 0 .. MaxOps
      BY <2>1, CreateEffect, ConstantsAssumption DEF OpId, TypeOK
    <3>7. \A j \in OpId : /\ ops'[j].status = "Absent" <=> j > issued'
                          /\ ops'[j].status \notin {"Created", "Validating"}
      <4> SUFFICES ASSUME NEW j \in OpId
                   PROVE  /\ ops'[j].status = "Absent" <=> j > issued'
                          /\ ops'[j].status \notin {"Created", "Validating"}
        OBVIOUS
      <4>1. CASE j = issued + 1
        BY <2>1, <3>1, <4>1, CreateEffect DEF TypeOK, OpId
      <4>2. CASE j \in Superseded(r)
        BY <2>1, <3>3, <4>2, CreateEffect DEF TypeOK, OpId, InFlight
      <4>3. CASE j \notin Superseded(r) \cup {issued + 1}
        BY <2>1, <4>3, CreateEffect DEF TypeOK, OpId
      <4>4. QED
        BY <4>1, <4>2, <4>3
    <3>8. audits' \in [OpId -> Nat] /\ claims' \in [OpId -> Nat]
      BY <2>1 DEF Create, TypeOK
    <3>9. QED
      BY <3>5, <3>6, <3>7, <3>8 DEF TypeOK
  <2>2. ASSUME NEW i \in OpId, Claim(i) PROVE TypeOK'
    <3>1. ops[i].status \in InFlight /\ ops' = [ops EXCEPT ![i].status = "Running"]
      BY <2>2 DEF Claim, Claimable, InFlight
    <3>2. "Running" \in Persisted
      BY DEF Persisted
    <3>3. claims' \in [OpId -> Nat]
      BY <2>2 DEF Claim, TypeOK
    <3>4. UNCHANGED <<issued, audits>>
      BY <2>2 DEF Claim
    <3>5. QED
      BY <3>1, <3>2, <3>3, <3>4, Restatus DEF TypeOK
  <2>3. ASSUME NEW i \in OpId, NEW st \in Persisted, Transition(i, st) PROVE TypeOK'
    <3>1. ops[i].status \in InFlight /\ ops' = [ops EXCEPT ![i].status = st]
      BY <2>3 DEF Transition, Transitionable
    <3>2. audits' \in [OpId -> Nat]
      BY <2>3 DEF Transition, TypeOK
    <3>3. UNCHANGED <<issued, claims>>
      BY <2>3 DEF Transition
    <3>4. QED
      BY <3>1, <3>2, <3>3, Restatus DEF TypeOK
  <2>4. CASE UNCHANGED vars
    BY <2>4 DEF TypeOK, vars
  <2>5. QED
    BY <2>1, <2>2, <2>3, <2>4 DEF Next
<1>3. QED
  BY <1>1, <1>2, PTL DEF Spec

-----------------------------------------------------------------------------
\* What each action does to one row.  A row that exists keeps its identity.
SameIdentity(j) ==
    /\ ops'[j].type = ops[j].type /\ ops'[j].world = ops[j].world
    /\ ops'[j].key = ops[j].key /\ (ops'[j].bypass <=> ops[j].bypass)

LEMMA CreateRow ==
    ASSUME TypeOK, NEW r \in Requests, Create(r), NEW j \in OpId, j # issued + 1
    PROVE  /\ SameIdentity(j)
           /\ j \in Superseded(r) => /\ ops[j].status \in InFlight
                                     /\ ops'[j].status = "Cancelled"
           /\ j \notin Superseded(r) => ops'[j] = ops[j]
<1>1. CASE j \in Superseded(r)
  <2>1. ops[j] \in Row /\ ops[j].status \in InFlight
    BY <1>1, SupersededInFlight DEF InFlightOps, TypeOK
  <2>2. ops'[j] = [ops[j] EXCEPT !.status = "Cancelled"]
    BY <1>1, CreateEffect
  <2>3. "Cancelled" \in InFlight \cup Terminal
    BY DEF Terminal
  <2>4. QED
    BY <1>1, <2>1, <2>2, <2>3, StatusOnly DEF SameIdentity
<1>2. CASE j \notin Superseded(r)
  BY <1>2, CreateEffect DEF SameIdentity
<1>3. QED
  BY <1>1, <1>2

LEMMA ClaimRow ==
    ASSUME TypeOK, NEW i \in OpId, Claim(i), NEW j \in OpId
    PROVE  /\ SameIdentity(j)
           /\ j = i => ops[j].status = "Queued" /\ ops'[j].status = "Running"
           /\ j # i => ops'[j] = ops[j]
<1>1. ops[i] \in Row /\ "Running" \in InFlight \cup Terminal
  BY DEF TypeOK, InFlight
<1>2. ops' = [ops EXCEPT ![i] = [ops[i] EXCEPT !.status = "Running"]]
  BY DEF Claim
<1>3. ops'[i] = [ops[i] EXCEPT !.status = "Running"] /\ (j # i => ops'[j] = ops[j])
  BY <1>2 DEF TypeOK
<1>4. ops[i].status = "Queued"
  BY DEF Claim, Claimable
<1>5. /\ ops'[i].status = "Running"
      /\ ops'[i].type = ops[i].type /\ ops'[i].world = ops[i].world
      /\ ops'[i].key = ops[i].key /\ (ops'[i].bypass <=> ops[i].bypass)
  BY <1>1, <1>3, StatusOnly
<1>6. QED
  BY <1>3, <1>4, <1>5 DEF SameIdentity

LEMMA TransitionRow ==
    ASSUME TypeOK, NEW i \in OpId, NEW st \in Persisted, Transition(i, st), NEW j \in OpId
    PROVE  /\ SameIdentity(j)
           /\ j = i => ops[j].status \in InFlight /\ ops'[j].status = st
           /\ j # i => ops'[j] = ops[j]
<1>1. ops[i] \in Row /\ st \in InFlight \cup Terminal
  BY DEF TypeOK, InFlight, Persisted
<1>2. ops' = [ops EXCEPT ![i] = [ops[i] EXCEPT !.status = st]]
  BY DEF Transition
<1>3. ops'[i] = [ops[i] EXCEPT !.status = st] /\ (j # i => ops'[j] = ops[j])
  BY <1>2 DEF TypeOK
<1>4. ops[i].status \in InFlight
  BY DEF Transition, Transitionable
<1>5. /\ ops'[i].status = st
      /\ ops'[i].type = ops[i].type /\ ops'[i].world = ops[i].world
      /\ ops'[i].key = ops[i].key /\ (ops'[i].bypass <=> ops[i].bypass)
  BY <1>1, <1>3, StatusOnly
<1>6. QED
  BY <1>3, <1>4, <1>5 DEF SameIdentity

-----------------------------------------------------------------------------
\* A terminal row has exactly one terminal audit record, an open row none.
THEOREM TerminalRowsAuditedOnce == Spec => []AuditedOnce
<1>1. Init => AuditedOnce
  BY DEF Init, AuditedOnce, NoRow, Terminal
<1>2. TypeOK /\ AuditedOnce /\ [Next]_vars => AuditedOnce'
  <2> SUFFICES ASSUME TypeOK, AuditedOnce, [Next]_vars, NEW j \in OpId
               PROVE  audits'[j] = IF ops'[j].status \in Terminal THEN 1 ELSE 0
    BY DEF AuditedOnce
  <2>1. ASSUME NEW r \in Requests, Create(r)
        PROVE  audits'[j] = IF ops'[j].status \in Terminal THEN 1 ELSE 0
    <3>1. audits'[j] = IF j \in Superseded(r) THEN audits[j] + 1 ELSE audits[j]
      BY <2>1 DEF Create, TerminalAudits
    <3>2. CASE j = issued + 1
      BY <2>1, <3>1, <3>2, CreateEffect, NewRowType DEF AuditedOnce, Terminal
    <3>3. CASE j # issued + 1
      BY <2>1, <3>1, <3>3, CreateRow DEF AuditedOnce, Terminal, InFlight
    <3>4. QED
      BY <3>2, <3>3
  <2>2. ASSUME NEW i \in OpId, Claim(i)
        PROVE  audits'[j] = IF ops'[j].status \in Terminal THEN 1 ELSE 0
    BY <2>2, ClaimRow DEF AuditedOnce, Claim, Terminal
  <2>3. ASSUME NEW i \in OpId, NEW st \in Persisted, Transition(i, st)
        PROVE  audits'[j] = IF ops'[j].status \in Terminal THEN 1 ELSE 0
    <3>1. audits' = IF st \in Terminal THEN [audits EXCEPT ![i] = @ + 1] ELSE audits
      BY <2>3 DEF Transition
    <3>2. j = i => ops[j].status \in InFlight /\ ops'[j].status = st
      BY <2>3, TransitionRow
    <3>3. j # i => ops'[j] = ops[j]
      BY <2>3, TransitionRow
    <3>4. QED
      BY <3>1, <3>2, <3>3 DEF AuditedOnce, TypeOK, Terminal, InFlight
  <2>4. CASE UNCHANGED vars
    BY <2>4 DEF AuditedOnce, vars
  <2>5. QED
    BY <2>1, <2>2, <2>3, <2>4 DEF Next
<1>3. QED
  BY <1>1, <1>2, TypeCorrect, PTL DEF Spec

\* (op_type, idempotency_key) identifies one row.
THEOREM KeysIdentifyRows == Spec => []KeysUnique
<1>1. Init => KeysUnique
  BY DEF Init, KeysUnique, NoRow
<1>2. TypeOK /\ KeysUnique /\ [Next]_vars => KeysUnique'
  <2> SUFFICES ASSUME TypeOK, KeysUnique, [Next]_vars PROVE KeysUnique'
    OBVIOUS
  <2>1. ASSUME NEW r \in Requests, Create(r) PROVE KeysUnique'
    <3>1. Replayed(r) = {}
      BY <2>1 DEF Create
    <3>2. \A j \in OpId : j # issued + 1
            => SameIdentity(j) /\ (ops'[j].status = "Absent" <=> ops[j].status = "Absent")
      BY <2>1, CreateRow DEF InFlight
    <3>3. ops'[issued + 1].type = r.type /\ ops'[issued + 1].key = r.key
      BY <2>1, CreateEffect, NewRowType
    <3>4. QED
      BY <3>1, <3>2, <3>3 DEF KeysUnique, Replayed, SameIdentity
  <2>2. ASSUME NEW i \in OpId, Claim(i) PROVE KeysUnique'
    <3>1. \A j \in OpId : SameIdentity(j) /\ (ops'[j].status = "Absent" <=> ops[j].status = "Absent")
      BY <2>2, ClaimRow
    <3>2. QED
      BY <3>1 DEF KeysUnique, SameIdentity
  <2>3. ASSUME NEW i \in OpId, NEW st \in Persisted, Transition(i, st) PROVE KeysUnique'
    <3>1. \A j \in OpId : SameIdentity(j) /\ (ops'[j].status = "Absent" <=> ops[j].status = "Absent")
      BY <2>3, TransitionRow DEF InFlight, Persisted, Terminal
    <3>2. QED
      BY <3>1 DEF KeysUnique, SameIdentity
  <2>4. CASE UNCHANGED vars
    BY <2>4 DEF KeysUnique, vars
  <2>5. QED
    BY <2>1, <2>2, <2>3, <2>4 DEF Next
<1>3. QED
  BY <1>1, <1>2, TypeCorrect, PTL DEF Spec

\* A claim leaves its trace: a row nobody claimed yet is absent or queued.  This
\* makes ClaimExclusion inductive.
ClaimedRowsRun ==
    \A i \in OpId : ops[i].status \in {"Absent", "Queued"} => claims[i] = 0

\* Dispatchers never share a row, nor a world.
THEOREM ClaimsExclude == Spec => []ClaimExclusion
<1> DEFINE Inv == ClaimExclusion /\ ClaimedRowsRun
<1>1. Init => Inv
  BY DEF Init, ClaimExclusion, ClaimedRowsRun
<1>2. TypeOK /\ Inv /\ [Next]_vars => Inv'
  <2> SUFFICES ASSUME TypeOK, Inv, [Next]_vars PROVE Inv'
    OBVIOUS
  <2>1. ASSUME NEW r \in Requests, Create(r) PROVE Inv'
    <3>1. claims' = claims
      BY <2>1 DEF Create
    <3>2. claims[issued + 1] = 0
      BY <2>1, CreateEffect DEF ClaimedRowsRun
    <3>3. \A j \in OpId : j # issued + 1 =>
             /\ SameIdentity(j)
             /\ ops'[j].status \in InFlight \cup {"Absent"} => ops'[j] = ops[j]
      BY <2>1, CreateRow DEF InFlight
    <3>4. ClaimExclusion'
      BY <3>1, <3>2, <3>3 DEF ClaimExclusion, SameIdentity
    <3>5. ClaimedRowsRun'
      BY <3>1, <3>2, <3>3 DEF ClaimedRowsRun, InFlight
    <3>6. QED
      BY <3>4, <3>5
  <2>2. ASSUME NEW i \in OpId, Claim(i) PROVE Inv'
    <3>1. \A j \in OpId : claims'[j] = IF j = i THEN claims[j] + 1 ELSE claims[j]
      BY <2>2 DEF Claim, TypeOK
    <3>2. claims[i] = 0 /\ \A j \in OpId : claims[j] \in Nat
      BY <2>2, ClaimRow DEF ClaimedRowsRun, TypeOK
    <3>3. \A j \in OpId : /\ SameIdentity(j)
                          /\ j # i => ops'[j] = ops[j]
      BY <2>2, ClaimRow
    <3>4. ops'[i].status = "Running"
      BY <2>2, ClaimRow
    <3>5. \A j \in OpId \ {i} :
             ops[i].world # None /\ ops[j].world = ops[i].world => ops[j].status \notin Busy
      BY <2>2 DEF Claim, Claimable
    <3>6. \A j \in OpId \ {i} :
             claims[j] > 0 /\ ops[j].status \in InFlight => ops[j].status \in Busy
      BY <3>2 DEF ClaimedRowsRun, Busy
    <3>7. \A j \in OpId \ {i} :
             claims[j] > 0 /\ ops[j].status \in InFlight /\ ops[i].world # None
             => ops[j].world # ops[i].world
      BY <3>5, <3>6
    <3>8. \A j \in OpId : claims'[j] <= 1
      BY <3>1, <3>2 DEF ClaimExclusion
    <3>9. ASSUME NEW j \in OpId, NEW k \in OpId,
                 claims'[j] > 0, claims'[k] > 0,
                 ops'[j].status \in InFlight, ops'[k].status \in InFlight,
                 ops'[j].world = ops'[k].world, ops'[j].world # None
          PROVE  j = k
      <4>1. ops[j].world = ops[k].world /\ ops[j].world # None
        BY <3>3, <3>9 DEF SameIdentity
      <4>2. \A x \in {j, k} : x # i => claims[x] > 0 /\ ops[x].status \in InFlight
        BY <3>1, <3>3, <3>9
      <4>3. CASE j = i \/ k = i
        BY <3>7, <4>1, <4>2, <4>3
      <4>4. CASE j # i /\ k # i
        BY <4>1, <4>2, <4>4 DEF ClaimExclusion
      <4>5. QED
        BY <4>3, <4>4
    <3>10. ClaimExclusion'
      BY <3>8, <3>9 DEF ClaimExclusion
    <3>11. ClaimedRowsRun'
      <4> SUFFICES ASSUME NEW j \in OpId, ops'[j].status \in {"Absent", "Queued"}
                   PROVE  claims'[j] = 0
        BY DEF ClaimedRowsRun
      <4>1. j # i
        BY <3>4
      <4>2. QED
        BY <3>1, <3>3, <4>1 DEF ClaimedRowsRun
    <3>12. QED
      BY <3>10, <3>11
  <2>3. ASSUME NEW i \in OpId, NEW st \in Persisted, Transition(i, st) PROVE Inv'
    <3>1. claims' = claims
      BY <2>3 DEF Transition
    <3>2. \A j \in OpId : /\ ops'[j].world = ops[j].world
                          /\ ops'[j].status \in InFlight => ops[j].status \in InFlight
                          /\ ops'[j].status \in {"Absent", "Queued"} => ops'[j] = ops[j]
      BY <2>3, TransitionRow DEF InFlight, Persisted, Terminal, SameIdentity
    <3>3. ClaimExclusion'
      BY <3>1, <3>2 DEF ClaimExclusion
    <3>4. ClaimedRowsRun'
      <4> SUFFICES ASSUME NEW j \in OpId, ops'[j].status \in {"Absent", "Queued"}
                   PROVE  claims'[j] = 0
        BY DEF ClaimedRowsRun
      <4>1. QED
        BY <3>1, <3>2 DEF ClaimedRowsRun
    <3>5. QED
      BY <3>3, <3>4
  <2>4. CASE UNCHANGED vars
    BY <2>4 DEF ClaimExclusion, ClaimedRowsRun, vars
  <2>5. QED
    BY <2>1, <2>2, <2>3, <2>4 DEF Next
<1>3. QED
  BY <1>1, <1>2, TypeCorrect, PTL DEF Spec

\* A request is one row and is carried out once, alone on its world.
THEOREM RequestsAreCarriedOutOnce == Spec => []RequestsRunOnce
BY KeysIdentifyRows, ClaimsExclude, PTL DEF RequestsRunOnce

-----------------------------------------------------------------------------
\* A row the policy did not see is never a cleanup, so a cleanup in flight
\* vouches for what else is in flight.  This makes the matrix inductive.
CleanupsAreChecked ==
    \A i \in OpId : ops[i].status # "Absent" /\ ops[i].bypass => ops[i].type # "Cleanup"

\* The row a request inserts respects the matrix towards every row that stays.
LEMMA AdmittedRespectsMatrix ==
    ASSUME TypeOK, MutualExclusionMatrix, CleanupsAreChecked,
           NEW r \in Requests, Create(r),
           ~r.bypass, r.world # None, r.type # "Sync",
           NEW j \in Remaining(r), ~ops[j].bypass, ops[j].type # "Sync"
    PROVE  /\ ~(ops[j].type \in RuntimeTypes /\ r.type \in RuntimeTypes)
           /\ ~(ops[j].type = "Backup" /\ r.type = "Cleanup")
           /\ ~(ops[j].type = "Cleanup" /\ r.type = "Backup")
           /\ (ops[j].type = "Restore" <=> r.type = "Restore")
<1>1. j \in OpId /\ ops[j].status \in InFlight /\ ops[j].world = r.world
  BY DEF Remaining, Active, InFlightOps
<1>2. TypesOf(Remaining(r)) \subseteq Tolerates(r.type) \/ SameCleanup(r, Remaining(r))
  BY DEF Create, Admissible, Exempt
<1>3. CASE TypesOf(Remaining(r)) \subseteq Tolerates(r.type)
  <2>1. ops[j].type \in Tolerates(r.type)
    BY <1>3 DEF TypesOf
  <2>2. r.type \in Types
    BY ConstantsAssumption DEF Request
  <2>3. QED
    BY <2>1, <2>2 DEF Tolerates, RuntimeTypes, Types
<1>4. CASE SameCleanup(r, Remaining(r))
  <2>1. PICK c \in Remaining(r) : ops[c].type = "Cleanup"
    BY <1>4 DEF SameCleanup
  <2>2. r.type = "Cleanup"
    BY <1>4 DEF SameCleanup
  <2>3. c \in OpId /\ ops[c].status \in InFlight /\ ops[c].world = r.world
    BY DEF Remaining, Active, InFlightOps
  <2>4. ~ops[c].bypass
    BY <2>1, <2>3 DEF CleanupsAreChecked, InFlight, TypeOK, Row
  <2>5. j # c => ops[j].type # "Backup" /\ ops[j].type # "Restore"
    BY <1>1, <2>1, <2>3, <2>4 DEF MutualExclusionMatrix, Contending
  <2>6. QED
    BY <2>1, <2>2, <2>5 DEF RuntimeTypes
<1>5. QED
  BY <1>2, <1>3, <1>4

\* The mutual-exclusion matrix of Document 9 holds among the rows the policy saw.
THEOREM MatrixHolds == Spec => []MutualExclusionMatrix
<1> DEFINE Inv == MutualExclusionMatrix /\ CleanupsAreChecked
<1>1. Init => Inv
  BY DEF Init, MutualExclusionMatrix, CleanupsAreChecked, Contending, NoRow, InFlight
<1>2. TypeOK /\ Inv /\ [Next]_vars => Inv'
  <2> SUFFICES ASSUME TypeOK, Inv, [Next]_vars PROVE Inv'
    OBVIOUS
  <2>1. ASSUME NEW r \in Requests, Create(r) PROVE Inv'
    <3> DEFINE n == issued + 1
    <3>1. /\ n \in OpId
          /\ ops'[n].type = r.type /\ ops'[n].world = r.world /\ (ops'[n].bypass <=> r.bypass)
      BY <2>1, CreateEffect, NewRowType
    <3>2. \A j \in OpId : j # n => SameIdentity(j)
      BY <2>1, CreateRow
    <3>3. \A j \in OpId : j # n /\ ops'[j].status \in InFlight
             => j \notin Superseded(r) /\ ops[j].status \in InFlight
      BY <2>1, CreateRow DEF InFlight
    <3> HIDE DEF n
    <3>4. ASSUME NEW j \in OpId, j # n, ops'[j].status \in InFlight,
                 ~ops'[j].bypass, ~ops'[n].bypass, ops'[j].world = ops'[n].world,
                 ops'[n].world # None, ops'[j].type # "Sync", ops'[n].type # "Sync"
          PROVE  /\ ~(ops'[j].type \in RuntimeTypes /\ ops'[n].type \in RuntimeTypes)
                 /\ ~(ops'[j].type = "Backup" /\ ops'[n].type = "Cleanup")
                 /\ ~(ops'[j].type = "Cleanup" /\ ops'[n].type = "Backup")
                 /\ (ops'[j].type = "Restore" <=> ops'[n].type = "Restore")
      <4>1. /\ ~r.bypass /\ r.world # None /\ r.type # "Sync"
            /\ ~ops[j].bypass /\ ops[j].type # "Sync"
            /\ ops[j].world = r.world
        BY <3>1, <3>2, <3>4 DEF SameIdentity
      <4>2. j \in Remaining(r)
        BY <3>3, <3>4, <4>1 DEF Remaining, Active, InFlightOps
      <4>3. /\ ~(ops[j].type \in RuntimeTypes /\ r.type \in RuntimeTypes)
            /\ ~(ops[j].type = "Backup" /\ r.type = "Cleanup")
            /\ ~(ops[j].type = "Cleanup" /\ r.type = "Backup")
            /\ (ops[j].type = "Restore" <=> r.type = "Restore")
        BY <2>1, <4>1, <4>2, AdmittedRespectsMatrix
      <4>4. QED
        BY <3>1, <3>2, <3>4, <4>3 DEF SameIdentity
    <3>5. MutualExclusionMatrix'
      <4> SUFFICES ASSUME NEW j \in OpId, NEW k \in OpId, j # k,
                          ops'[j].status \in InFlight, ops'[k].status \in InFlight,
                          ~ops'[j].bypass, ~ops'[k].bypass,
                          ops'[j].world = ops'[k].world, ops'[j].world # None,
                          ops'[j].type # "Sync", ops'[k].type # "Sync"
                   PROVE
                     /\ ~(ops'[j].type \in RuntimeTypes /\ ops'[k].type \in RuntimeTypes)
                     /\ ~(ops'[j].type = "Backup" /\ ops'[k].type = "Cleanup")
                     /\ ops'[j].type = "Restore" => ops'[k].type = "Restore"
        BY DEF MutualExclusionMatrix, Contending
      <4>1. CASE j # n /\ k # n
        <5>1. Contending(j, k)
          BY <3>2, <3>3, <4>1 DEF Contending, SameIdentity
        <5>2. QED
          BY <3>2, <4>1, <5>1 DEF MutualExclusionMatrix, SameIdentity
      <4>2. CASE j = n
        BY <3>4, <4>2
      <4>3. CASE k = n
        BY <3>4, <4>3
      <4>4. QED
        BY <4>1, <4>2, <4>3
    <3>6. CleanupsAreChecked'
      <4> SUFFICES ASSUME NEW j \in OpId, ops'[j].status # "Absent", ops'[j].bypass
                   PROVE  ops'[j].type # "Cleanup"
        BY DEF CleanupsAreChecked
      <4>1. CASE j = n
        BY <3>1, <4>1, BypassAssumption
      <4>2. CASE j # n
        <5>1. ops[j].status # "Absent"
          BY <2>1, <4>2, CreateRow DEF n, InFlight
        <5>2. QED
          BY <3>2, <4>2, <5>1 DEF CleanupsAreChecked, SameIdentity
      <4>3. QED
        BY <4>1, <4>2
    <3>7. QED
      BY <3>5, <3>6
  <2>2. ASSUME \A j \in OpId : /\ SameIdentity(j)
                               /\ ops'[j].status \in InFlight => ops[j].status \in InFlight
                               /\ ops'[j].status # "Absent" => ops[j].status # "Absent"
        PROVE  Inv'
    <3>1. ASSUME NEW j \in OpId, NEW k \in OpId, Contending(j, k)'
          PROVE  Contending(j, k)
      BY <2>2, <3>1 DEF Contending, SameIdentity
    <3>2. MutualExclusionMatrix'
      BY <2>2, <3>1 DEF MutualExclusionMatrix, SameIdentity
    <3>3. CleanupsAreChecked'
      BY <2>2 DEF CleanupsAreChecked, SameIdentity
    <3>4. QED
      BY <3>2, <3>3
  <2>3. ASSUME NEW i \in OpId, Claim(i) PROVE Inv'
    BY <2>2, <2>3, ClaimRow DEF InFlight
  <2>4. ASSUME NEW i \in OpId, NEW st \in Persisted, Transition(i, st) PROVE Inv'
    BY <2>2, <2>4, TransitionRow DEF InFlight
  <2>5. CASE UNCHANGED vars
    BY <2>2, <2>5 DEF vars, SameIdentity
  <2>6. QED
    BY <2>1, <2>3, <2>4, <2>5 DEF Next
<1>3. QED
  BY <1>1, <1>2, TypeCorrect, PTL DEF Spec

-----------------------------------------------------------------------------
\* A terminal row is never rewritten and a running row never goes back to the queue.
THEOREM TerminalRowsAreFinal == Spec => TerminalIsFinal
<1>1. TypeOK /\ [Next]_vars
      => [\A i \in OpId : /\ ops[i].status \in Terminal => ops'[i] = ops[i]
                          /\ ops[i].status = "Running" => ops'[i].status # "Queued"]_vars
  <2> SUFFICES ASSUME TypeOK, Next, NEW j \in OpId
               PROVE  /\ ops[j].status \in Terminal => ops'[j] = ops[j]
                      /\ ops[j].status = "Running" => ops'[j].status # "Queued"
    OBVIOUS
  <2>1. ASSUME NEW r \in Requests, Create(r)
        PROVE  /\ ops[j].status \in Terminal => ops'[j] = ops[j]
               /\ ops[j].status = "Running" => ops'[j].status # "Queued"
    <3>1. CASE j = issued + 1
      BY <2>1, <3>1, CreateEffect DEF Terminal
    <3>2. CASE j # issued + 1
      BY <2>1, <3>2, CreateRow DEF Terminal, InFlight
    <3>3. QED
      BY <3>1, <3>2
  <2>2. ASSUME NEW i \in OpId, Claim(i)
        PROVE  /\ ops[j].status \in Terminal => ops'[j] = ops[j]
               /\ ops[j].status = "Running" => ops'[j].status # "Queued"
    BY <2>2, ClaimRow DEF Terminal
  <2>3. ASSUME NEW i \in OpId, NEW st \in Persisted, Transition(i, st)
        PROVE  /\ ops[j].status \in Terminal => ops'[j] = ops[j]
               /\ ops[j].status = "Running" => ops'[j].status # "Queued"
    BY <2>3, TransitionRow DEF Terminal, InFlight, Persisted
  <2>4. QED
    BY <2>1, <2>2, <2>3 DEF Next
<1>2. QED
  BY <1>1, TypeCorrect, PTL DEF Spec, TerminalIsFinal

\* What a request may cancel.
LEMMA SupersededKinds ==
    ASSUME NEW r, NEW j \in Superseded(r)
    PROVE  /\ ops[j].world = r.world
           /\ \/ ops[j].type = "Stop" /\ r.type = "Kill"
              \/ ops[j].type = "DeleteWorld" /\ ops[j].status = "Queued" /\ r.type = "Restore"
<1>1. j \in Active(r.world)
  BY DEF Superseded
<1>2. ops[j].world = r.world /\ ops[j].type \in TypesOf(Active(r.world))
  BY <1>1 DEF Active, TypesOf
<1>3. QED
  BY <1>2 DEF Superseded

\* Only a Kill over a Stop and a Restore over a queued deletion cancel other rows.
THEOREM SupersessionsAreJustified == Spec => SupersessionIsJustified
<1> DEFINE Justified(i) ==
      (issued' # issued /\ ops'[i].status = "Cancelled" /\ ops[i].status \in InFlight)
      => LET n == ops'[issued'] IN
         /\ n.world = ops[i].world /\ n.status \in InFlight
         /\ \/ ops[i].type = "Stop" /\ n.type = "Kill"
            \/ ops[i].type = "DeleteWorld" /\ ops[i].status = "Queued" /\ n.type = "Restore"
<1>1. TypeOK /\ [Next]_vars => [\A i \in OpId : Justified(i)]_vars
  <2> SUFFICES ASSUME TypeOK, Next, NEW j \in OpId PROVE Justified(j)
    OBVIOUS
  <2>1. ASSUME NEW r \in Requests, Create(r), ops'[j].status = "Cancelled",
               ops[j].status \in InFlight
        PROVE  /\ ops'[issued'].world = ops[j].world /\ ops'[issued'].status \in InFlight
               /\ \/ ops[j].type = "Stop" /\ ops'[issued'].type = "Kill"
                  \/ /\ ops[j].type = "DeleteWorld" /\ ops[j].status = "Queued"
                     /\ ops'[issued'].type = "Restore"
    <3>1. /\ ops'[issued'].world = r.world /\ ops'[issued'].type = r.type
          /\ ops'[issued'].status \in InFlight
      BY <2>1, CreateEffect, NewRowType DEF InFlight
    <3>2. j # issued + 1
      BY <2>1, CreateEffect DEF InFlight
    <3>3. j \in Superseded(r)
      BY <2>1, <3>2, CreateRow DEF InFlight
    <3>4. QED
      BY <3>1, <3>3, SupersededKinds
  <2>2. ASSUME NEW i \in OpId, Claim(i) PROVE issued' = issued
    BY <2>2 DEF Claim
  <2>3. ASSUME NEW i \in OpId, NEW st \in Persisted, Transition(i, st) PROVE issued' = issued
    BY <2>3 DEF Transition
  <2>4. QED
    BY <2>1, <2>2, <2>3 DEF Next
<1>2. QED
  BY <1>1, TypeCorrect, PTL DEF Spec, SupersessionIsJustified

-----------------------------------------------------------------------------
\* The engine implements the decision log: each transaction accepts one request,
\* decides one, or is a stutter of the registers.
THEOREM Refinement == Spec => ImplementsDecisionLog
<1>1. Init => Log!Init
  BY DEF Init, Log!Init, Decided, NoRow
<1>2. TypeOK /\ [Next]_vars => [Log!Next]_<<Decided, audits>>
  <2> SUFFICES ASSUME TypeOK, [Next]_vars PROVE Log!Next \/ UNCHANGED <<Decided, audits>>
    OBVIOUS
  <2>1. ASSUME NEW r \in Requests, Create(r) PROVE Log!Next
    <3> DEFINE n == issued + 1
               S == Superseded(r)
    <3>1. n \in OpId /\ S \subseteq OpId /\ n \notin S
      BY <2>1, CreateEffect, SupersededInFlight DEF InFlightOps
    <3>2. Decided[n] = "none" /\ \A p \in S : Decided[p] = "open"
      BY <2>1, <3>1, CreateEffect, SupersededInFlight DEF Decided, InFlightOps, InFlight
    <3>3. ASSUME NEW p \in OpId
          PROVE  Decided'[p] = IF p = n THEN "open"
                               ELSE IF p \in S THEN "Cancelled" ELSE Decided[p]
      <4>1. CASE p = n
        BY <2>1, <3>1, <4>1, CreateEffect, NewRowType DEF Decided, InFlight
      <4>2. CASE p # n
        BY <2>1, <3>1, <4>2, CreateRow DEF Decided, InFlight
      <4>3. QED
        BY <4>1, <4>2
    <3>4. Decided' = [p \in OpId |-> IF p = n THEN "open"
                                     ELSE IF p \in S THEN "Cancelled" ELSE Decided[p]]
      BY <3>3 DEF Decided
    <3>5. audits' = [p \in OpId |-> IF p \in S THEN audits[p] + 1 ELSE audits[p]]
      BY <2>1 DEF Create, TerminalAudits
    <3> HIDE DEF n, S
    <3>6. Log!Accept(n, S)
      BY <3>1, <3>2, <3>4, <3>5 DEF Log!Accept
    <3>7. QED
      BY <3>1, <3>6 DEF Log!Next
  <2>2. ASSUME NEW i \in OpId, Claim(i) PROVE UNCHANGED <<Decided, audits>>
    <3>1. \A p \in OpId : Decided'[p] = Decided[p]
      BY <2>2, ClaimRow DEF Decided, InFlight
    <3>2. Decided' = Decided
      BY <3>1 DEF Decided
    <3>3. QED
      BY <2>2, <3>2 DEF Claim
  <2>3. ASSUME NEW i \in OpId, NEW st \in Terminal, Transition(i, st) PROVE Log!Next
    <3>1. Decided[i] = "open"
      BY <2>3 DEF Decided, Transition, Transitionable, InFlight
    <3>2. st \in Persisted
      BY DEF Persisted
    <3>3. \A p \in OpId : Decided'[p] = IF p = i THEN st ELSE Decided[p]
      BY <2>3, <3>2, TransitionRow DEF Decided, InFlight, Terminal
    <3>4. Decided' = [Decided EXCEPT ![i] = st]
      BY <3>3 DEF Decided
    <3>5. audits' = [audits EXCEPT ![i] = @ + 1]
      BY <2>3 DEF Transition
    <3>6. Log!Decide(i, st)
      BY <3>1, <3>4, <3>5 DEF Log!Decide
    <3>7. QED
      BY <3>6 DEF Log!Next
  <2>4. ASSUME NEW i \in OpId, Transition(i, "Running") PROVE UNCHANGED <<Decided, audits>>
    <3>1. "Running" \in Persisted /\ "Running" \notin Terminal
      BY DEF Persisted, Terminal
    <3>2. \A p \in OpId : Decided'[p] = Decided[p]
      BY <2>4, <3>1, TransitionRow DEF Decided, InFlight
    <3>3. Decided' = Decided
      BY <3>2 DEF Decided
    <3>4. QED
      BY <2>4, <3>1, <3>3 DEF Transition
  <2>5. CASE UNCHANGED vars
    BY <2>5 DEF vars, Decided
  <2>6. QED
    BY <2>1, <2>2, <2>3, <2>4, <2>5 DEF Next, Persisted
<1>3. QED
  BY <1>1, <1>2, TypeCorrect, PTL DEF Spec, Log!Spec, ImplementsDecisionLog
=============================================================================
