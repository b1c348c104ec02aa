------------------------- MODULE ConfigurationProofs -------------------------
(***************************************************************************)
(* That every stored change of the configuration has its ConfigEdit row,   *)
(* that edits only overwrite what they have seen, and that requests are    *)
(* answered truly, but for what threads commit and undo of each other's    *)
(* statements: for any number of clients, rows, names and requests.        *)
(***************************************************************************)
EXTENDS Configuration, TLAPS

Busy(c) == pc[c] # "idle"

Steps == {"idle", "check", "begin", "read", "body", "confirm", "commit", "undo"}

\* A thread at work has a request of its own; only Java is verified and only roles
\* are deleted.
OwnRequests ==
    /\ \A c \in Clients : Busy(c) =>
          /\ at[c].id \in 1 .. issued /\ at[c].row \in Rows
          /\ at[c].kind = "verify" => Kind[at[c].row] = "runtime"
          /\ at[c].status = "deleted" => Kind[at[c].row] = "role"
          /\ pc[c] \in {"read", "confirm"} => at[c].phase = "edit"
    /\ \A c, d \in Clients : Busy(c) /\ Busy(d) /\ at[c].id = at[d].id => c = d

\* The unique indexes, over any state of the tables.
Distinct(t) ==
    /\ \A r \in Rows : t.rows[r].status = "deleted" => Kind[r] = "role"
    /\ \A q, r \in Rows :
        /\ q # r /\ Kind[q] = Kind[r] /\ Kind[r] \in NamedKinds
        /\ t.rows[q].exists /\ t.rows[q].status # "deleted"
        /\ t.rows[r].exists /\ t.rows[r].status # "deleted"
        => t.rows[q].name # t.rows[r].name

Typed ==
    /\ db \in Tables /\ saved \in Tables /\ txn \in BOOLEAN
    /\ ~txn => db = saved
    /\ Distinct(db) /\ Distinct(saved)
    /\ issued \in 0 .. MaxRequests
    /\ pc \in [Clients -> Steps]
    /\ at \in [Clients -> Local]
    /\ cut \in [Requests -> SUBSET Phases]
    /\ answer \in [Requests -> {"none", "ok", "failed", "raised"}]
    /\ OwnRequests

\* The ConfigEdit row is there whatever is undone.
LoggedIn(t, u, i) == t.ops[i] # "absent" /\ u.ops[i] # "absent"
Logged(i) == LoggedIn(db, saved, i)

Unlogged(kind, r) == kind = "insert" /\ Kind[r] = "role"

\* A thread that has committed its row finds it there for good or has lost it for good,
\* and goes on to its change in the first case only.
RowsPersist ==
    \A c \in Clients : Busy(c) =>
        LET i == at[c].id IN
        /\ at[c].phase = "run" => (db.ops[i] = "absent" <=> saved.ops[i] = "absent")
        /\ at[c].phase = "run" /\ pc[c] = "commit" => Logged(i)
        /\ at[c].phase \in {"edit", "complete", "fail"} /\ ~Unlogged(at[c].kind, at[c].row)
              => Logged(i)

\* The version an edit has looked at is the row's until the edit writes, or its
\* transaction has been cut into.
LooksHold ==
    \A c \in Clients : Editing(c, "edit") =>
        \/ db.rows[at[c].row].version = at[c].expected
        \/ "edit" \in cut[at[c].id]

Meets(e) == e.kind = "edit" => e.from = e.expected \/ "edit" \in cut[e.id]

MeetingChanges == \A e \in db.changes \cup saved.changes : Meets(e)

LoggedChanges ==
    \A e \in db.changes \cup saved.changes : Logged(e.id) \/ Unlogged(e.kind, e.row)

-----------------------------------------------------------------------------
(* Records.                                                                *)

\* The requests that have been issued are of those there may be.
LEMMA RequestIds == ASSUME Typed PROVE 1 .. issued \subseteq Requests
BY RequestsAssumption DEF Typed, Requests

\* A thread at work has a request, and a row it is about.
LEMMA OwnRows ==
    ASSUME Typed, NEW c \in Clients, Busy(c)
    PROVE  /\ at[c] \in Local /\ at[c].id \in Requests /\ at[c].row \in Rows
           /\ db.rows[at[c].row] \in Row /\ db.rows[at[c].row].exists \in BOOLEAN
           /\ db.rows[at[c].row].version \in Nat
<1>1. at[c] \in Local /\ at[c].id \in Requests /\ at[c].row \in Rows
  BY RequestIds DEF Typed, OwnRequests
<1>2. db.rows[at[c].row] \in Row
  BY <1>1 DEF Typed, Tables
<1>3. QED
  BY <1>1, <1>2 DEF Row

\* Setting the status of an operation leaves the configuration alone.
LEMMA OpsWritten ==
    ASSUME NEW t \in Tables, NEW i \in Requests, NEW st \in Statuses
    PROVE  LET new == [t EXCEPT !.ops[i] = st] IN
           /\ new \in Tables
           /\ new.rows = t.rows /\ new.changes = t.changes
           /\ new.ops = [t.ops EXCEPT ![i] = st]
<1> DEFINE new == [t EXCEPT !.ops[i] = st]
<1>1. new.rows = t.rows /\ new.changes = t.changes /\ new.ops = [t.ops EXCEPT ![i] = st]
  BY DEF Tables
<1>2. t.ops \in [Requests -> Statuses]
  BY DEF Tables
<1>3. [t.ops EXCEPT ![i] = st] \in [Requests -> Statuses]
  BY <1>2
<1>4. new \in Tables
  BY <1>3 DEF Tables
<1>5. QED
  BY <1>1, <1>4

\* A change of a row leaves the operations alone and is recorded as its thread made it.
LEMMA ChangedTables ==
    ASSUME Typed, NEW c \in Clients, Busy(c), NEW row \in Row
    PROVE  /\ Changed(c, row) \in Tables
           /\ Changed(c, row).ops = db.ops
           /\ Changed(c, row).rows = [db.rows EXCEPT ![at[c].row] = row]
           /\ \A e \in Changed(c, row).changes :
                 \/ e \in db.changes
                 \/ /\ e.id = at[c].id /\ e.kind = at[c].kind /\ e.row = at[c].row
                    /\ e.from = db.rows[at[c].row].version /\ e.expected = at[c].expected
<1> DEFINE e == [id |-> at[c].id, kind |-> at[c].kind, row |-> at[c].row,
                 from |-> db.rows[at[c].row].version, expected |-> at[c].expected]
           new == [db EXCEPT !.rows[at[c].row] = row, !.changes = @ \cup {e}]
<1>1. new = Changed(c, row)
  BY DEF Changed
<1>2. /\ e \in Change /\ e.id = at[c].id /\ e.kind = at[c].kind /\ e.row = at[c].row
      /\ e.from = db.rows[at[c].row].version /\ e.expected = at[c].expected
  BY OwnRows DEF Local, Change
<1>3. at[c].row \in Rows
  BY OwnRows
<1>4. db \in Tables
  BY DEF Typed
<1> HIDE DEF e
<1>5. /\ new.rows = [db.rows EXCEPT ![at[c].row] = row] /\ new.ops = db.ops
      /\ new.changes = db.changes \cup {e}
  BY <1>4 DEF Tables
<1>6. db.rows \in [Rows -> Row] /\ db.changes \subseteq Change
  BY <1>4 DEF Tables
<1>7. [db.rows EXCEPT ![at[c].row] = row] \in [Rows -> Row] /\ db.changes \cup {e} \subseteq Change
  BY <1>2, <1>3, <1>6
<1>8. new \in Tables
  BY <1>4, <1>7 DEF Tables
<1> HIDE DEF new
<1>9. QED
  BY <1>1, <1>2, <1>5, <1>8

\* Assigning a phase or what was found leaves the other local variables alone.
LEMMA LocalWritten ==
    ASSUME NEW x \in Local, NEW p \in Phases, NEW b \in BOOLEAN
    PROVE  /\ NoRequest \in Local
           /\ [x EXCEPT !.phase = p] \in Local /\ [x EXCEPT !.phase = p].phase = p
           /\ [x EXCEPT !.found = b] \in Local
           /\ \A y \in {[x EXCEPT !.phase = p], [x EXCEPT !.found = b]} :
                 y.id = x.id /\ y.row = x.row /\ y.kind = x.kind /\ y.status = x.status
           /\ [x EXCEPT !.found = b].phase = x.phase
<1>1. NoRequest \in Local
  BY RequestsAssumption DEF Local, NoRequest, Phases
<1>2. [x EXCEPT !.phase = p] \in Local /\ [x EXCEPT !.found = b] \in Local
  BY DEF Local
<1>3. QED
  BY <1>1, <1>2 DEF Local

-----------------------------------------------------------------------------
(* What a step of a thread does to its own variables, and to the tables.   *)

\* The thread goes on with its request, or ends it.
Moves(c, step, x) ==
    /\ pc' = [pc EXCEPT ![c] = step]
    /\ at' = [at EXCEPT ![c] = x]
    /\ step # "idle" =>
          /\ x.id = at[c].id /\ x.row = at[c].row
          /\ x.kind = at[c].kind /\ x.status = at[c].status
          /\ step \in {"read", "confirm"} => x.phase = "edit"
          /\ \/ /\ x.phase = at[c].phase
                /\ step = "commit" /\ x.phase = "run" => db.ops[at[c].id] # "absent"
             \/ at[c].phase = "create" /\ x.phase = "run" /\ step = "begin" /\ Commit
             \/ at[c].phase = "run" /\ pc[c] = "commit"
             \/ at[c].phase \in {"edit", "complete"} /\ x.phase \in {"edit", "complete", "fail"}

\* The row of the operation is written when it is created, or when it is there.
OperationWritten(c) ==
    \E st \in Statuses \ {"absent"} :
        /\ at[c].phase = "create" \/ db.ops[at[c].id] # "absent"
        /\ Statement([db EXCEPT !.ops[at[c].id] = st])

\* The row of the configuration is written and keeps a name of its own.
ConfigurationWritten(c) ==
    \E row \in Row :
        /\ at[c].phase = "edit"
        /\ row.status = "deleted" => Kind[at[c].row] = "role"
        /\ row.exists /\ row.status # "deleted" => NameFree(at[c].row, row.name)
        /\ Statement(Changed(c, row))

Effect(c) ==
    \/ UNCHANGED <<db, saved>> /\ (txn' = TRUE \/ UNCHANGED txn)
    \/ Commit \/ Rollback
    \/ OperationWritten(c) \/ ConfigurationWritten(c)

\* A thread that goes on within its phase moves.
LEMMA GotoMoves ==
    ASSUME Typed, NEW c \in Clients, NEW step \in Steps, Goto(c, step),
           step = "commit" /\ at[c].phase = "run" => db.ops[at[c].id] # "absent",
           step \in {"read", "confirm"} => at[c].phase = "edit"
    PROVE  \E x \in Local : Moves(c, step, x)
<1>1. at[c] \in Local /\ at' = [at EXCEPT ![c] = at[c]]
  BY DEF Typed, Goto
<1>2. Moves(c, step, at[c])
  BY <1>1 DEF Goto, Moves
<1>3. QED
  BY <1>1, <1>2

\* So does one that has read its row,
LEMMA FoundMoves ==
    ASSUME Typed, NEW c \in Clients, NEW step \in Steps, NEW b \in BOOLEAN,
           at[c].phase = "edit",
           pc' = [pc EXCEPT ![c] = step], at' = [at EXCEPT ![c].found = b]
    PROVE  \E x \in Local : Moves(c, step, x)
<1> DEFINE x == [at[c] EXCEPT !.found = b]
<1>1. at[c] \in Local /\ "edit" \in Phases
  BY DEF Typed, Phases
<1>2. /\ x \in Local /\ x.phase = at[c].phase
      /\ x.id = at[c].id /\ x.row = at[c].row /\ x.kind = at[c].kind /\ x.status = at[c].status
  BY <1>1, LocalWritten
<1>3. at' = [at EXCEPT ![c] = x]
  OBVIOUS
<1> HIDE DEF x
<1>4. Moves(c, step, x)
  BY <1>2, <1>3 DEF Moves
<1>5. QED
  BY <1>2, <1>4

\* one that enters another phase,
LEMMA EnterMoves ==
    ASSUME Typed, NEW c \in Clients, NEW step \in Steps \ {"idle", "read", "confirm", "commit"},
           NEW phase \in Phases, Enter(c, phase, step),
           \/ at[c].phase = "create" /\ phase = "run" /\ step = "begin" /\ Commit
           \/ at[c].phase = "run" /\ pc[c] = "commit"
           \/ at[c].phase \in {"edit", "complete"} /\ phase \in {"edit", "complete", "fail"}
    PROVE  \E x \in Local : Moves(c, step, x)
<1> DEFINE x == [at[c] EXCEPT !.phase = phase]
<1>1. at[c] \in Local
  BY DEF Typed
<1>2. /\ x \in Local /\ x.phase = phase
      /\ x.id = at[c].id /\ x.row = at[c].row /\ x.kind = at[c].kind /\ x.status = at[c].status
  BY <1>1, LocalWritten
<1>3. pc' = [pc EXCEPT ![c] = step] /\ at' = [at EXCEPT ![c] = x]
  BY DEF Enter
<1> HIDE DEF x
<1>4. Moves(c, step, x)
  BY <1>2, <1>3 DEF Moves
<1>5. QED
  BY <1>2, <1>4

\* and one that answers.
LEMMA AnswerMoves ==
    ASSUME Typed, NEW c \in Clients, NEW what, Answer(c, what)
    PROVE  \E x \in Local : Moves(c, "idle", x)
<1>1. NoRequest \in Local
  BY RequestsAssumption DEF Local, NoRequest, Phases
<1>2. Moves(c, "idle", NoRequest)
  BY DEF Answer, Moves
<1>3. QED
  BY <1>1, <1>2

\* Every step of a thread is such a move; none issues a request.
LEMMA ThreadMoves ==
    ASSUME Typed, NEW c \in Clients, Thread(c)
    PROVE  /\ Busy(c) /\ issued' = issued
           /\ \E step \in Steps, x \in Local : Moves(c, step, x)
<1> DEFINE Moved == \E step \in Steps, x \in Local : Moves(c, step, x)
<1> USE DEF Steps, Phases
<1>1. Check(c) => Moved
  <2>1. ASSUME Check(c) PROVE Moved
    <3>1. Goto(c, "begin") \/ Answer(c, "failed")
      BY <2>1 DEF Check
    <3>2. QED
      BY <3>1, GotoMoves, AnswerMoves
  <2>2. QED
    BY <2>1
<1>2. Begin(c) => Moved
  <2>1. ASSUME Begin(c) PROVE Moved
    <3>1. PICK step \in {"undo", "read", "body"} :
             Goto(c, step) /\ (step = "read" => at[c].phase = "edit")
      BY <2>1 DEF Begin
    <3>2. QED
      BY <3>1, GotoMoves
  <2>2. QED
    BY <2>1
<1>3. InsertOperation(c) => Moved
  BY GotoMoves DEF InsertOperation
<1>4. Transition(c) => Moved
  BY GotoMoves DEF Transition, Transitionable
<1>5. Read(c) => Moved
  <2>1. ASSUME Read(c) PROVE Moved
    <3>1. at[c].phase = "edit" /\ db.rows[at[c].row].exists \in BOOLEAN
      BY <2>1, OwnRows DEF Read, Typed, OwnRequests, Busy
    <3>2. PICK step \in {"body", "undo"} : pc' = [pc EXCEPT ![c] = step]
      BY <2>1 DEF Read
    <3>3. QED
      BY <2>1, <3>1, <3>2, FoundMoves DEF Read
  <2>2. QED
    BY <2>1
<1>6. Write(c) => Moved
  <2>1. ASSUME Write(c) PROVE Moved
    <3>1. PICK step \in {"confirm", "undo"} : Goto(c, step)
      BY <2>1 DEF Write, WriteRow
    <3>2. QED
      BY <2>1, <3>1, GotoMoves DEF Write, Editing
  <2>2. QED
    BY <2>1
<1>7. Confirm(c) => Moved
  <2>1. ASSUME Confirm(c) PROVE Moved
    <3>1. at[c].phase = "edit" /\ db.rows[at[c].row].exists \in BOOLEAN
      BY <2>1, OwnRows DEF Confirm, Typed, OwnRequests, Busy
    <3>2. QED
      BY <2>1, <3>1, FoundMoves DEF Confirm
  <2>2. QED
    BY <2>1
<1>8. Insert(c) => Moved
  <2>1. ASSUME Insert(c) PROVE Moved
    <3>1. at[c].phase = "edit"
      BY <2>1 DEF Insert, Editing
    <3>2. Goto(c, "commit") \/ Answer(c, "failed") \/ Enter(c, "fail", "begin")
      BY <2>1 DEF Insert
    <3>3. QED
      BY <3>1, <3>2, GotoMoves, AnswerMoves, EnterMoves
  <2>2. QED
    BY <2>1
<1>9. Verify(c) => Moved
  BY FoundMoves DEF Verify, Editing
<1>10. CommitPhase(c) => Moved
  <2>1. ASSUME CommitPhase(c) PROVE Moved
    <3>1. Commit /\ pc[c] = "commit"
      BY <2>1 DEF CommitPhase
    <3>2. \/ at[c].phase = "create" /\ Enter(c, "run", "begin")
          \/ at[c].phase = "run" /\ Enter(c, "edit", "begin")
          \/ at[c].phase = "run" /\ Enter(c, "edit", "body")
          \/ at[c].phase = "edit" /\ Enter(c, "fail", "begin")
          \/ at[c].phase = "edit" /\ Enter(c, "complete", "begin")
          \/ at[c].phase = "complete" /\ Enter(c, "edit", "undo")
          \/ Answer(c, "ok") \/ Answer(c, "failed")
      BY <2>1 DEF CommitPhase
    <3>3. QED
      BY <3>1, <3>2, AnswerMoves, EnterMoves
  <2>2. QED
    BY <2>1
<1>11. Undo(c) => Moved
  <2>1. ASSUME Undo(c) PROVE Moved
    <3>1. \/ at[c].phase = "edit" /\ Enter(c, "fail", "begin")
          \/ at[c].phase = "complete" /\ Enter(c, "edit", "undo")
          \/ Answer(c, "raised")
      BY <2>1 DEF Undo
    <3>2. QED
      BY <3>1, AnswerMoves, EnterMoves
  <2>2. QED
    BY <2>1
<1>12. Busy(c) /\ issued' = issued
  BY DEF Thread, Busy, Check, Begin, InsertOperation, Transition, Read, Write, WriteRow, Editing,
         Confirm, Insert, Verify, CommitPhase, Undo
<1>13. QED
  BY <1>1, <1>2, <1>3, <1>4, <1>5, <1>6, <1>7, <1>8, <1>9, <1>10, <1>11, <1>12 DEF Thread

\* A statement on a row writes the row, with a name the unique indexes allow, or nothing.
LEMMA WriteRowEffect ==
    ASSUME NEW c, NEW row \in Row, NEW valid \in BOOLEAN, NEW next, NEW raised,
           WriteRow(c, row, valid, next, raised), at[c].phase = "edit",
           valid => /\ row.status = "deleted" => Kind[at[c].row] = "role"
                    /\ row.exists /\ row.status # "deleted" => NameFree(at[c].row, row.name)
    PROVE  Effect(c)
<1>1. CASE valid
  <2>1. Statement(Changed(c, row))
    BY <1>1 DEF WriteRow
  <2>2. QED
    BY <1>1, <2>1 DEF Effect, ConfigurationWritten
<1>2. CASE ~valid
  BY <1>2 DEF WriteRow, Statement, Effect
<1>3. QED
  BY <1>1, <1>2

\* A row as it is inserted.
LEMMA GivenRow ==
    ASSUME NEW name \in Names \cup {None}
    PROVE  /\ Given(name) \in Row /\ NoRow \in Row
           /\ Given(name).status = "live" /\ Given(name).name = name
BY DEF Given, NoRow, Row

\* A row as update_versioned_with_operation writes it: only a role is ever deleted.
LEMMA UpdatedRow ==
    ASSUME Typed, NEW c \in Clients, Busy(c)
    PROVE  /\ Updated(c) \in Row
           /\ Updated(c).status = "deleted" => Kind[at[c].row] = "role"
<1> DEFINE row == db.rows[at[c].row]
<1>0. row \in Row
  BY OwnRows
<1> HIDE DEF row
<1>1. /\ row.exists \in BOOLEAN /\ row.name \in Names \cup {None} /\ row.version + 1 \in Nat
      /\ row.status \in {"live", "deprecated", "deleted"}
      /\ row = [exists |-> row.exists, name |-> row.name, status |-> row.status,
                version |-> row.version]
  <2>1. row.exists \in BOOLEAN /\ row.name \in Names \cup {None}
    BY <1>0 DEF Row
  <2>2. row.version + 1 \in Nat /\ row.status \in {"live", "deprecated", "deleted"}
    BY <1>0 DEF Row
  <2>3. row = [exists |-> row.exists, name |-> row.name, status |-> row.status,
               version |-> row.version]
    BY <1>0 DEF Row
  <2>4. QED
    BY <2>1, <2>2, <2>3
<1>2. /\ at[c].name \in Names \cup {None}
      /\ at[c].status \in {"live", "deprecated", "deleted", None}
  BY OwnRows DEF Local
<1>3. row.status = "deleted" => Kind[at[c].row] = "role"
  BY OwnRows DEF Typed, Distinct, row
<1>4. at[c].status = "deleted" => Kind[at[c].row] = "role"
  BY DEF Typed, OwnRequests
<1> DEFINE name == IF at[c].name = None THEN row.name ELSE at[c].name
           status == IF at[c].status = None THEN row.status ELSE at[c].status
<1>5. name \in Names \cup {None}
  BY <1>1, <1>2
<1>6. /\ status \in {"live", "deprecated", "deleted"}
      /\ status = "deleted" => Kind[at[c].row] = "role"
  BY <1>1, <1>2, <1>3, <1>4
<1>7. Updated(c) = [row EXCEPT !.name = name, !.status = status, !.version = row.version + 1]
  BY DEF Updated, row
<1>8. Updated(c) = [exists |-> row.exists, name |-> name, status |-> status,
                    version |-> row.version + 1]
  BY <1>1, <1>7
<1> HIDE DEF name, status
<1>9. Updated(c) \in Row
  BY <1>1, <1>5, <1>6, <1>8 DEF Row
<1>10. Updated(c).status = status
  BY <1>8
<1>11. QED
  BY <1>6, <1>9, <1>10

\* A row as the verification of a Java runtime writes it.
LEMMA VerifiedRow ==
    ASSUME NEW row \in Row
    PROVE  LET new == [row EXCEPT !.status = "live", !.version = @ + 1] IN
           /\ new \in Row
           /\ new.status = "live" /\ new.name = row.name /\ new.exists = row.exists
<1> DEFINE live == [row EXCEPT !.status = "live"]
           new == [live EXCEPT !.version = live.version + 1]
<1>1. live \in Row /\ live.status = "live" /\ live.name = row.name /\ live.exists = row.exists
  BY DEF Row
<1> HIDE DEF live
<1>2. live.version + 1 \in Nat
  BY <1>1 DEF Row
<1>3. /\ new \in Row
      /\ new.status = live.status /\ new.name = live.name /\ new.exists = live.exists
  BY <1>1, <1>2 DEF Row
<1>4. QED
  BY <1>1, <1>3 DEF live

\* What the steps of a thread do to the tables.
LEMMA ThreadEffect ==
    ASSUME Typed, NEW c \in Clients, Thread(c)
    PROVE  Effect(c)
<1> USE DEF Effect
<1>1. Check(c) \/ Read(c) \/ Confirm(c) \/ Begin(c) => Effect(c)
  BY DEF Check, Read, Confirm, Begin, tables
<1>2. InsertOperation(c) => Effect(c)
  BY DEF InsertOperation, OperationWritten, Statuses
<1>3. ASSUME Transition(c) PROVE Effect(c)
  <2>1. at[c].phase \in {"run", "complete", "fail"}
    BY <1>3 DEF Transition
  <2>2. PICK st \in Statuses \ {"absent"} : Goal[at[c].phase] = st
    <3>1. /\ Goal["run"] = "Running" /\ Goal["complete"] = "Completed"
          /\ Goal["fail"] = "Failed"
      BY DEF Goal
    <3>2. QED
      BY <2>1, <3>1 DEF Statuses
  <2>3. CASE db.ops[at[c].id] # "absent" /\ Statement(SetStatus(at[c].id, Goal[at[c].phase]))
    <3>1. Statement([db EXCEPT !.ops[at[c].id] = st])
      BY <2>2, <2>3 DEF SetStatus
    <3>2. QED
      BY <2>3, <3>1 DEF OperationWritten
  <2>4. CASE UNCHANGED tables
    BY <2>4 DEF tables
  <2>5. QED
    BY <1>3, <2>3, <2>4 DEF Transition, Transitionable
<1>4. ASSUME Write(c) PROVE Effect(c)
  <2> DEFINE r == at[c].row
  <2>1. at[c].phase = "edit" /\ Busy(c)
    BY <1>4 DEF Write, Editing, Busy
  <2>2. /\ Given(at[c].name) \in Row /\ NoRow \in Row /\ Given(at[c].name).status = "live"
        /\ Given(at[c].name).name = at[c].name
    BY <2>1, OwnRows, GivenRow DEF Local
  <2>3. CASE WriteRow(c, Given(at[c].name), Insertable(r, Given(at[c].name)), "confirm", "undo")
    <3>1. Insertable(r, Given(at[c].name)) => NameFree(r, Given(at[c].name).name)
      BY DEF Insertable
    <3>2. Insertable(r, Given(at[c].name)) \in BOOLEAN
      BY DEF Insertable
    <3>3. QED
      BY <2>1, <2>2, <2>3, <3>1, <3>2, WriteRowEffect
  <2>4. CASE WriteRow(c, Updated(c), Updatable(r, Updated(c)), "confirm", "undo")
    <3>1. Updatable(r, Updated(c)) => Updated(c).status = "deleted" \/ NameFree(r, Updated(c).name)
      BY DEF Updatable
    <3>2. Updatable(r, Updated(c)) \in BOOLEAN
      BY DEF Updatable
    <3>3. QED
      BY <2>1, <2>4, <3>1, <3>2, UpdatedRow, WriteRowEffect
  <2>5. CASE WriteRow(c, NoRow, FALSE, "confirm", "confirm")
    BY <2>1, <2>2, <2>5, WriteRowEffect
  <2>6. QED
    BY <1>4, <2>3, <2>4, <2>5 DEF Write
<1>5. ASSUME Insert(c) PROVE Effect(c)
  <2> DEFINE new == Given(at[c].name)
  <2>1. at[c].phase = "edit" /\ Busy(c)
    BY <1>5 DEF Insert, Editing, Busy
  <2>2. new \in Row /\ new.status = "live" /\ new.name = at[c].name
    BY <2>1, OwnRows, GivenRow DEF Local
  <2>3. CASE Insertable(at[c].row, new)
    BY <1>5, <2>1, <2>2, <2>3 DEF Insert, Insertable, ConfigurationWritten
  <2>4. CASE ~Insertable(at[c].row, new)
    BY <1>5, <2>4 DEF Insert, Statement
  <2>5. QED
    BY <2>3, <2>4
<1>6. ASSUME Verify(c) PROVE Effect(c)
  <2> DEFINE r == at[c].row
             row == db.rows[r]
             new == [row EXCEPT !.status = "live", !.version = @ + 1]
  <2>1. at[c].phase = "edit" /\ Busy(c) /\ Statement(Changed(c, new)) /\ Kind[r] = "runtime"
    BY <1>6 DEF Verify, Editing, Busy, Typed, OwnRequests
  <2>2. row \in Row /\ r \in Rows
    BY <2>1, OwnRows
  <2>3. new \in Row /\ new.status = "live" /\ new.name = row.name /\ new.exists = row.exists
    BY <2>2, VerifiedRow
  <2>4. row.status # "deleted"
    BY <2>1, <2>2 DEF Typed, Distinct
  <2>5. new.exists => NameFree(r, new.name)
    BY <2>1, <2>2, <2>3, <2>4 DEF Typed, Distinct, NameFree
  <2>6. QED
    BY <2>1, <2>3, <2>5 DEF ConfigurationWritten
<1>7. CommitPhase(c) \/ Undo(c) => Effect(c)
  BY DEF CommitPhase, Undo
<1>8. QED
  BY <1>1, <1>2, <1>3, <1>4, <1>5, <1>6, <1>7 DEF Thread

-----------------------------------------------------------------------------
(* Type correctness.                                                       *)

\* The tables, after any of the effects.
LEMMA TablesStep ==
    ASSUME Typed, NEW c \in Clients, Busy(c), Effect(c)
    PROVE  /\ db' \in Tables /\ saved' \in Tables /\ txn' \in BOOLEAN
           /\ ~txn' => db' = saved'
           /\ Distinct(db') /\ Distinct(saved')
<1> DEFINE Goal1 == /\ db' \in Tables /\ saved' \in Tables /\ txn' \in BOOLEAN
                    /\ ~txn' => db' = saved'
                    /\ Distinct(db') /\ Distinct(saved')
<1>1. CASE UNCHANGED <<db, saved>> /\ (txn' = TRUE \/ UNCHANGED txn)
  BY <1>1 DEF Typed
<1>2. CASE Commit
  BY <1>2 DEF Commit, Typed
<1>3. CASE Rollback
  BY <1>3 DEF Rollback, Typed
<1>4. CASE OperationWritten(c)
  <2>1. PICK st \in Statuses : Statement([db EXCEPT !.ops[at[c].id] = st])
    BY <1>4 DEF OperationWritten
  <2>2. db' \in Tables /\ db'.rows = db.rows
    BY <2>1, OpsWritten, OwnRows DEF Statement, Typed
  <2>3. QED
    BY <2>1, <2>2 DEF Statement, Typed, Distinct
<1>5. CASE ConfigurationWritten(c)
  <2> DEFINE r == at[c].row
  <2>1. PICK row \in Row : /\ row.status = "deleted" => Kind[r] = "role"
                           /\ row.exists /\ row.status # "deleted" => NameFree(r, row.name)
                           /\ Statement(Changed(c, row))
    BY <1>5 DEF ConfigurationWritten
  <2>2. db' \in Tables /\ db'.rows = [db.rows EXCEPT ![r] = row]
    BY <2>1, ChangedTables DEF Statement
  <2>3. \A q \in Rows : db'.rows[q] = IF q = r THEN row ELSE db.rows[q]
    BY <2>2 DEF Typed, Tables
  <2>4. r \in Rows
    BY OwnRows
  <2> HIDE DEF r
  <2>5. Distinct(db')
    BY <2>1, <2>3, <2>4 DEF Typed, Distinct, NameFree
  <2>6. QED
    BY <2>1, <2>2, <2>5 DEF Statement, Typed
<1>6. QED
  BY <1>1, <1>2, <1>3, <1>4, <1>5 DEF Effect

\* The marks are phases.
LEMMA CutsTyped ==
    ASSUME Typed, NEW c \in Clients, Cuts(c)
    PROVE  cut' \in [Requests -> SUBSET Phases]
<1>1. \A i \in Requests : cut[i] \subseteq Phases
  BY DEF Typed
<1>2. \A d \in Clients : at[d].phase \in Phases
  BY DEF Typed, Local
<1>3. QED
  BY <1>1, <1>2 DEF Cuts

\* The histories.
LEMMA HistoryStep ==
    ASSUME Typed, NEW c \in Clients, Thread(c)
    PROVE  /\ cut' \in [Requests -> SUBSET Phases]
           /\ answer' \in [Requests -> {"none", "ok", "failed", "raised"}]
<1>1. cut' \in [Requests -> SUBSET Phases]
  <2>1. CASE UNCHANGED cut
    BY <2>1 DEF Typed
  <2>2. CASE Cuts(c)
    BY <2>2, CutsTyped
  <2>3. CASE cut' = [cut EXCEPT ![at[c].id] = @ \cup {at[c].phase}]
    <3>1. at[c].phase \in Phases
      BY DEF Typed, Local
    <3>2. \A i \in Requests : cut[i] \subseteq Phases
      BY DEF Typed
    <3>3. \A i \in Requests : cut[i] \cup {at[c].phase} \subseteq Phases
      BY <3>1, <3>2
    <3>4. QED
      BY <2>3, <3>3 DEF Typed
  <2>4. QED
    BY <2>1, <2>2, <2>3
       DEF Thread, Check, Begin, InsertOperation, Transition, Read, Write, WriteRow,
           Confirm, Insert, Verify, CommitPhase, Undo
<1>2. answer' \in [Requests -> {"none", "ok", "failed", "raised"}]
  <2>1. UNCHANGED answer \/ \E what \in {"ok", "failed", "raised"} : Answer(c, what)
    BY DEF Thread, Check, Begin, InsertOperation, Transition, Read, Write, WriteRow,
           Confirm, Insert, Verify, CommitPhase, Undo
  <2>2. QED
    BY <2>1 DEF Answer, Typed
<1>3. QED
  BY <1>1, <1>2

\* A step of a thread keeps the types,
LEMMA ThreadTyped ==
    ASSUME Typed, NEW c \in Clients, Thread(c)
    PROVE  Typed'
<1>1. Busy(c) /\ issued' = issued
  BY ThreadMoves
<1>2. PICK step \in Steps, x \in Local : Moves(c, step, x)
  BY ThreadMoves
<1>3. pc' \in [Clients -> Steps] /\ at' \in [Clients -> Local]
  BY <1>2 DEF Moves, Typed
<1>4. \A d \in Clients : /\ pc'[d] = IF d = c THEN step ELSE pc[d]
                         /\ at'[d] = IF d = c THEN x ELSE at[d]
  BY <1>2 DEF Moves, Typed
<1>5. \A d \in Clients : pc'[d] # "idle" =>
         /\ Busy(d)
         /\ at'[d].id = at[d].id /\ at'[d].row = at[d].row
         /\ at'[d].kind = at[d].kind /\ at'[d].status = at[d].status
         /\ pc'[d] \in {"read", "confirm"} => at'[d].phase = "edit"
  BY <1>1, <1>2, <1>4 DEF Moves, Busy, Typed, OwnRequests
<1>6. OwnRequests'
  BY <1>1, <1>5 DEF Typed, OwnRequests, Busy
<1>7. QED
  BY <1>1, <1>3, <1>6, ThreadEffect, TablesStep, HistoryStep DEF Typed

\* What an accepted request leaves behind.
Accepted(c, x) ==
    /\ pc[c] = "idle" /\ issued < MaxRequests /\ issued' = issued + 1
    /\ at' = [at EXCEPT ![c] = x]
    /\ \E step \in {"check", "begin", "body"} :
          /\ pc' = [pc EXCEPT ![c] = step]
          /\ x.phase = IF step = "body" THEN "edit" ELSE "create"
          /\ step = "body" <=> Unlogged(x.kind, x.row)
    /\ x.id = issued + 1 /\ x.row \in Rows
    /\ x.kind = "verify" => Kind[x.row] = "runtime"
    /\ x.status = "deleted" => Kind[x.row] = "role"
    /\ UNCHANGED <<tables, cut, answer>>

\* A route that accepts a request has checked what it is made of.
LEMMA AcceptAccepted ==
    ASSUME Typed, NEW c \in Clients, NEW kind \in {"edit", "insert", "verify"}, NEW r \in Rows,
           NEW name \in Names \cup {None}, NEW status \in {"live", "deprecated", "deleted", None},
           NEW expected \in Nat, NEW step \in {"check", "begin", "body"},
           Accept(c, kind, r, name, status, expected, step),
           step = "body" <=> Unlogged(kind, r),
           kind = "verify" => Kind[r] = "runtime",
           status = "deleted" => Kind[r] = "role"
    PROVE  \E x \in Local : Accepted(c, x)
<1> DEFINE phase == IF step = "body" THEN "edit" ELSE "create"
           x == [id |-> issued + 1, kind |-> kind, row |-> r, name |-> name, status |-> status,
                 expected |-> expected, found |-> TRUE, phase |-> phase]
<1>1. at' = [at EXCEPT ![c] = x]
  BY DEF Accept
<1>2. issued + 1 \in 0 .. MaxRequests
  BY RequestsAssumption DEF Accept, Typed
<1>3. phase \in Phases
  BY DEF Phases
<1>4. x \in Local
  BY <1>2, <1>3 DEF Local
<1>5. /\ x.id = issued + 1 /\ x.kind = kind /\ x.row = r /\ x.status = status
      /\ x.phase = phase
  OBVIOUS
<1> HIDE DEF x
<1>6. Accepted(c, x)
  BY <1>1, <1>5 DEF Accept, Accepted
<1>7. QED
  BY <1>4, <1>6

\* Every route does.
LEMMA RequestAccepted ==
    ASSUME Typed, NEW c \in Clients, Request(c)
    PROVE  \E x \in Local : Accepted(c, x)
<1> DEFINE Done == \E x \in Local : Accepted(c, x)
<1>1. PICK r \in Rows :
         \/ DeprecateTemplate(c, r) \/ DeprecateJavaRuntime(c, r) \/ DeleteRole(c, r)
         \/ VerifyJavaRuntime(c, r)
         \/ UpdateGlobalSettings(c, r) \/ UpdateWorldSettings(c, r)
         \/ \E name \in Names :
               \/ UpdateTemplate(c, r, name) \/ UpdateJavaRuntime(c, r, name)
               \/ UpdateRole(c, r, name)
               \/ CreateTemplate(c, r, name) \/ RegisterJavaRuntime(c, r, name)
               \/ CreateRole(c, r, name)
  BY DEF Request
<1>2. saved.rows[r].version \in Nat
  BY DEF Typed, Tables, Row
<1>3. ASSUME NEW status \in {"deprecated", "deleted"}, Retire(c, r, status),
             status = "deleted" => Kind[r] = "role"
      PROVE  Done
  BY <1>2, <1>3, AcceptAccepted DEF Retire, Unlogged
<1>4. ASSUME NEW name \in Names \cup {None}, Update(c, r, name)
      PROVE  Done
  BY <1>2, <1>4, AcceptAccepted, NoneAssumption DEF Update, Unlogged
<1>5. ASSUME NEW name \in Names, NEW step \in {"begin", "body"}, Create(c, r, name, step),
             step = "body" <=> Kind[r] = "role"
      PROVE  Done
  BY <1>5, AcceptAccepted DEF Create, Unlogged
<1>6. CASE VerifyJavaRuntime(c, r)
  BY <1>2, <1>6, AcceptAccepted DEF VerifyJavaRuntime, Unlogged
<1>7. CASE DeprecateTemplate(c, r) \/ DeprecateJavaRuntime(c, r) \/ DeleteRole(c, r)
  BY <1>3, <1>7 DEF DeprecateTemplate, DeprecateJavaRuntime, DeleteRole
<1>8. CASE UpdateGlobalSettings(c, r) \/ UpdateWorldSettings(c, r)
  BY <1>4, <1>8 DEF UpdateGlobalSettings, UpdateWorldSettings
<1>9. ASSUME NEW name \in Names,
             \/ UpdateTemplate(c, r, name) \/ UpdateJavaRuntime(c, r, name)
             \/ UpdateRole(c, r, name)
      PROVE  Done
  BY <1>4, <1>9 DEF UpdateTemplate, UpdateJavaRuntime, UpdateRole
<1>10. ASSUME NEW name \in Names,
              \/ CreateTemplate(c, r, name) \/ RegisterJavaRuntime(c, r, name)
              \/ CreateRole(c, r, name)
       PROVE  Done
  BY <1>5, <1>10 DEF CreateTemplate, RegisterJavaRuntime, CreateRole
<1>11. QED
  BY <1>1, <1>6, <1>7, <1>8, <1>9, <1>10

\* and so does a new request,
LEMMA RequestTyped ==
    ASSUME Typed, NEW c \in Clients, Request(c)
    PROVE  Typed'
<1>1. PICK x \in Local : Accepted(c, x)
  BY RequestAccepted
<1>2. PICK step \in {"check", "begin", "body"} : pc' = [pc EXCEPT ![c] = step]
  BY <1>1 DEF Accepted
<1>3. pc' \in [Clients -> Steps] /\ at' \in [Clients -> Local]
  BY <1>1, <1>2 DEF Accepted, Typed, Steps
<1>4. issued' = issued + 1 /\ issued' \in 0 .. MaxRequests
  BY <1>1, RequestsAssumption DEF Accepted, Typed
<1>5. \A d \in Clients : /\ pc'[d] = IF d = c THEN step ELSE pc[d]
                         /\ at'[d] = IF d = c THEN x ELSE at[d]
  BY <1>1, <1>2 DEF Accepted, Typed
<1>6. issued \in Nat /\ \A d \in Clients : Busy(d) => at[d].id \in 1 .. issued
  BY DEF Typed, OwnRequests
<1>7. \A d \in Clients : Busy(d)' =>
         /\ at'[d].id \in 1 .. issued' /\ at'[d].row \in Rows
         /\ at'[d].kind = "verify" => Kind[at'[d].row] = "runtime"
         /\ at'[d].status = "deleted" => Kind[at'[d].row] = "role"
         /\ pc'[d] \in {"read", "confirm"} => at'[d].phase = "edit"
  BY <1>1, <1>4, <1>5, <1>6 DEF Accepted, Typed, OwnRequests, Busy
<1>8. \A d, e \in Clients : Busy(d)' /\ Busy(e)' /\ at'[d].id = at'[e].id => d = e
  <2>1. x.id = issued + 1
    BY <1>1 DEF Accepted
  <2>2. \A d \in Clients : Busy(d) => at[d].id # issued + 1
    BY <1>6
  <2>3. QED
    BY <1>5, <2>1, <2>2 DEF Typed, OwnRequests, Busy
<1>9. OwnRequests'
  BY <1>7, <1>8 DEF OwnRequests
<1>10. QED
  BY <1>1, <1>3, <1>4, <1>9 DEF Accepted, Typed, tables

\* The first state has them,
LEMMA TypedInit == Init => Typed
<1> SUFFICES ASSUME Init PROVE Typed
  OBVIOUS
<1>1. \A r \in Rows : db.rows[r] = IF r \in DOMAIN FirstRows THEN Given(FirstRows[r]) ELSE NoRow
  BY DEF Init
<1>2. \A r \in DOMAIN FirstRows : /\ Given(FirstRows[r]) \in Row
                                  /\ Given(FirstRows[r]).status = "live"
                                  /\ Given(FirstRows[r]).name = FirstRows[r]
  BY RowsAssumption, GivenRow
<1>3. NoRow \in Row /\ NoRow.exists = FALSE /\ NoRow.status = "live"
  BY DEF NoRow, Row
<1>4. db \in Tables
  BY <1>2, <1>3 DEF Init, Tables, Statuses
<1>5. Distinct(db)
  BY <1>1, <1>2, <1>3, RowsAssumption DEF Distinct
<1>6. NoRequest \in Local
  BY RequestsAssumption DEF Local, NoRequest, Phases
<1>7. OwnRequests
  BY DEF Init, OwnRequests, Busy
<1>8. pc \in [Clients -> Steps] /\ at \in [Clients -> Local]
  BY <1>6 DEF Init, Steps
<1>9. saved = db /\ txn = FALSE
  BY DEF Init
<1>10. /\ cut \in [Requests -> SUBSET Phases]
       /\ answer \in [Requests -> {"none", "ok", "failed", "raised"}]
  BY DEF Init
<1>11. issued \in 0 .. MaxRequests
  BY RequestsAssumption DEF Init
<1>12. QED
  BY <1>4, <1>5, <1>7, <1>8, <1>9, <1>10, <1>11 DEF Typed

\* and every step keeps them.
LEMMA TypedStep == Typed /\ [Next]_vars => Typed'
<1> SUFFICES ASSUME Typed, [Next]_vars PROVE Typed'
  OBVIOUS
<1>1. ASSUME NEW c \in Clients, Request(c) PROVE Typed'
  BY <1>1, RequestTyped
<1>2. ASSUME NEW c \in Clients, Thread(c) PROVE Typed'
  BY <1>2, ThreadTyped
<1>3. CASE UNCHANGED vars
  BY <1>3 DEF vars, tables, Typed, OwnRequests, Busy
<1>4. QED
  BY <1>1, <1>2, <1>3 DEF Next

\* The types hold always.
LEMMA TypedAlways == Spec => []Typed
BY TypedInit, TypedStep, PTL DEF Spec

\* The tables, the threads and the histories keep their types and the unique indexes
\* hold, whatever the threads undo for each other.
THEOREM TypeCorrect == Spec => []TypeOK
<1>1. Typed => TypeOK
  <2> SUFFICES ASSUME Typed PROVE TypeOK
    OBVIOUS
  <2>1. \A r \in Rows : db.rows[r].exists /\ db.rows[r].status # "deleted"
                        => NameFree(r, db.rows[r].name)
    BY DEF Typed, Distinct, NameFree
  <2>2. QED
    BY <2>1 DEF Typed, TypeOK, Steps
<1>2. QED
  BY <1>1, TypedAlways, PTL

-----------------------------------------------------------------------------
(* Changes are logged.                                                     *)

\* A row of an operation never goes once it is committed, and is written for its own
\* request only.
LEMMA RowsStay ==
    ASSUME Typed, NEW c \in Clients, Busy(c), Effect(c), NEW i \in Requests
    PROVE  /\ Logged(i) => LoggedIn(db', saved', i)
           /\ i # at[c].id \/ at[c].phase # "create" =>
                 ((db.ops[i] = "absent" <=> saved.ops[i] = "absent")
                  => (db'.ops[i] = "absent" <=> saved'.ops[i] = "absent"))
<1>1. CASE UNCHANGED <<db, saved>> \/ Commit \/ Rollback
  BY <1>1 DEF Commit, Rollback, Logged, LoggedIn
<1>2. CASE OperationWritten(c)
  <2>1. PICK st \in Statuses \ {"absent"} :
           /\ at[c].phase = "create" \/ db.ops[at[c].id] # "absent"
           /\ Statement([db EXCEPT !.ops[at[c].id] = st])
    BY <1>2 DEF OperationWritten
  <2>2. db'.ops = [db.ops EXCEPT ![at[c].id] = st] /\ saved' = saved
    BY <2>1, OpsWritten, OwnRows DEF Statement, Typed
  <2>3. db'.ops[i] = IF i = at[c].id THEN st ELSE db.ops[i]
    BY <2>2 DEF Typed, Tables
  <2>4. QED
    BY <2>1, <2>2, <2>3 DEF Logged, LoggedIn
<1>3. CASE ConfigurationWritten(c)
  <2>1. db'.ops = db.ops /\ saved' = saved
    <3>1. PICK row \in Row : Statement(Changed(c, row))
      BY <1>3 DEF ConfigurationWritten
    <3>2. db' = Changed(c, row) /\ saved' = saved
      BY <3>1 DEF Statement
    <3>3. QED
      BY <3>2, ChangedTables
  <2>2. QED
    BY <2>1 DEF Logged, LoggedIn
<1>4. QED
  BY <1>1, <1>2, <1>3 DEF Effect

\* A step of a thread keeps the rows of the operations with the changes,
LEMMA ThreadLogged ==
    ASSUME Typed, RowsPersist, LoggedChanges, NEW c \in Clients, Thread(c)
    PROVE  RowsPersist' /\ LoggedChanges'
<1>1. Busy(c) /\ Effect(c)
  BY ThreadMoves, ThreadEffect
<1>2. PICK step \in Steps, x \in Local : Moves(c, step, x)
  BY ThreadMoves
<1>3. \A d \in Clients : /\ pc'[d] = IF d = c THEN step ELSE pc[d]
                         /\ at'[d] = IF d = c THEN x ELSE at[d]
  BY <1>2 DEF Moves, Typed
<1>4. RowsPersist'
  <2> SUFFICES ASSUME NEW d \in Clients, Busy(d)'
               PROVE  LET i == at'[d].id IN
                      /\ at'[d].phase = "run" =>
                            (db'.ops[i] = "absent" <=> saved'.ops[i] = "absent")
                      /\ at'[d].phase = "run" /\ pc'[d] = "commit" => LoggedIn(db', saved', i)
                      /\ at'[d].phase \in {"edit", "complete", "fail"}
                            /\ ~Unlogged(at'[d].kind, at'[d].row) => LoggedIn(db', saved', i)
    BY DEF RowsPersist, Logged
  <2>1. CASE d # c
    <3>1. Busy(d) /\ at'[d] = at[d] /\ pc'[d] = pc[d] /\ at[d].id # at[c].id
      BY <1>1, <1>3, <2>1 DEF Busy, Typed, OwnRequests
    <3>2. at[d].id \in Requests
      BY <3>1, OwnRows
    <3>3. QED
      BY <1>1, <3>1, <3>2, RowsStay DEF RowsPersist
  <2>2. CASE d = c
    <3> DEFINE i == at[c].id
    <3>1. at'[d] = x /\ pc'[d] = step /\ step # "idle"
      BY <1>3, <2>2 DEF Busy
    <3>2. x.id = i /\ x.kind = at[c].kind /\ x.row = at[c].row
      BY <1>2, <3>1 DEF Moves
    <3>3. i \in Requests
      BY <1>1, OwnRows
    <3>4. CASE /\ x.phase = at[c].phase
               /\ step = "commit" /\ x.phase = "run" => db.ops[i] # "absent"
      BY <1>1, <3>1, <3>2, <3>3, <3>4, RowsStay DEF RowsPersist, Logged, LoggedIn
    <3>5. CASE at[c].phase = "create" /\ x.phase = "run" /\ step = "begin" /\ Commit
      BY <3>1, <3>2, <3>5 DEF Commit
    <3>6. CASE at[c].phase = "run" /\ pc[c] = "commit"
      <4>1. LoggedIn(db', saved', i)
        BY <1>1, <3>3, <3>6, RowsStay DEF RowsPersist
      <4>2. QED
        BY <3>1, <3>2, <4>1 DEF Logged, LoggedIn
    <3>7. CASE at[c].phase \in {"edit", "complete"} /\ x.phase \in {"edit", "complete", "fail"}
      <4>1. ~Unlogged(x.kind, x.row) => LoggedIn(db', saved', i)
        BY <1>1, <3>2, <3>3, <3>7, RowsStay DEF RowsPersist
      <4>2. QED
        BY <3>1, <3>2, <3>7, <4>1
    <3>8. QED
      BY <1>2, <3>1, <3>4, <3>5, <3>6, <3>7 DEF Moves
  <2>3. QED
    BY <2>1, <2>2
<1>5. LoggedChanges'
  <2>1. \A e \in db.changes \cup saved.changes :
           LoggedIn(db', saved', e.id) \/ Unlogged(e.kind, e.row)
    <3>1. \A e \in db.changes \cup saved.changes : e.id \in Requests
      BY DEF Typed, Tables, Change
    <3>2. QED
      BY <1>1, <3>1, RowsStay DEF LoggedChanges
  <2>2. CASE UNCHANGED <<db, saved>> \/ Commit \/ Rollback
    BY <2>1, <2>2 DEF Commit, Rollback, LoggedChanges, Logged
  <2>3. CASE OperationWritten(c)
    <3>1. db'.changes = db.changes /\ saved' = saved
      BY <1>1, <2>3, OpsWritten, OwnRows DEF OperationWritten, Statement, Typed
    <3>2. QED
      BY <2>1, <3>1 DEF LoggedChanges, Logged
  <2>4. CASE ConfigurationWritten(c)
    <3>1. PICK row \in Row : at[c].phase = "edit" /\ Statement(Changed(c, row))
      BY <2>4 DEF ConfigurationWritten
    <3>2. saved' = saved
      BY <3>1 DEF Statement
    <3>3. \A e \in db'.changes :
             \/ e \in db.changes
             \/ e.id = at[c].id /\ e.kind = at[c].kind /\ e.row = at[c].row
      BY <1>1, <3>1, ChangedTables DEF Statement
    <3>4. LoggedIn(db', saved', at[c].id) \/ Unlogged(at[c].kind, at[c].row)
      BY <1>1, <3>1, RowsStay, OwnRows DEF RowsPersist
    <3>5. QED
      BY <2>1, <3>2, <3>3, <3>4 DEF LoggedChanges, Logged
  <2>5. QED
    BY <1>1, <2>2, <2>3, <2>4 DEF Effect
<1>6. QED
  BY <1>4, <1>5

\* and so does a new request.
LEMMA RequestLogged ==
    ASSUME Typed, RowsPersist, LoggedChanges, NEW c \in Clients, Request(c)
    PROVE  RowsPersist' /\ LoggedChanges'
<1>1. PICK x \in Local : Accepted(c, x)
  BY RequestAccepted
<1>2. PICK step \in {"check", "begin", "body"} :
         /\ pc' = [pc EXCEPT ![c] = step]
         /\ x.phase = IF step = "body" THEN "edit" ELSE "create"
         /\ step = "body" => Unlogged(x.kind, x.row)
  BY <1>1 DEF Accepted
<1>3. \A d \in Clients : /\ pc'[d] = IF d = c THEN step ELSE pc[d]
                         /\ at'[d] = IF d = c THEN x ELSE at[d]
  BY <1>1, <1>2 DEF Accepted, Typed
<1>4. UNCHANGED <<db, saved>>
  BY <1>1 DEF Accepted, tables
<1>5. QED
  BY <1>2, <1>3, <1>4 DEF RowsPersist, LoggedChanges, Logged, LoggedIn, Busy

\* Whatever of its own or of other requests' transactions is undone, a change of the
\* configuration is stored only with the row that accounts for it.
THEOREM StoredChangesAreLogged == Spec => []ChangesAreLogged
<1> DEFINE Inv == RowsPersist /\ LoggedChanges
<1>1. Init => Inv
  BY DEF Init, RowsPersist, LoggedChanges, Busy
<1>2. Typed /\ Inv /\ [Next]_vars => Inv'
  <2> SUFFICES ASSUME Typed, Inv, [Next]_vars PROVE Inv'
    OBVIOUS
  <2>1. ASSUME NEW c \in Clients, Request(c) PROVE Inv'
    BY <2>1, RequestLogged
  <2>2. ASSUME NEW c \in Clients, Thread(c) PROVE Inv'
    BY <2>2, ThreadLogged
  <2>3. CASE UNCHANGED vars
    BY <2>3 DEF vars, tables, RowsPersist, LoggedChanges, Logged, LoggedIn, Busy
  <2>4. QED
    BY <2>1, <2>2, <2>3 DEF Next
<1>3. Inv => ChangesAreLogged
  BY DEF LoggedChanges, ChangesAreLogged, Logged, LoggedIn, Unlogged
<1>4. QED
  BY <1>1, <1>2, <1>3, TypedAlways, PTL DEF Spec

-----------------------------------------------------------------------------
(* Edits meet their version.                                               *)

\* Whatever changes the tables leaves its mark on the transactions of other threads, and
\* no mark is taken back.
LEMMA StepCuts ==
    ASSUME Typed, NEW c \in Clients, Thread(c)
    PROVE  /\ UNCHANGED <<db, saved>> \/ Cuts(c)
           /\ \A i \in Requests : cut[i] \subseteq cut'[i]
<1>1. \/ Cuts(c)
      \/ /\ UNCHANGED <<db, saved>>
         /\ UNCHANGED cut \/ cut' = [cut EXCEPT ![at[c].id] = @ \cup {at[c].phase}]
  BY DEF Thread, Check, Begin, InsertOperation, Transition, Read, Write, WriteRow, Confirm,
         Insert, Verify, CommitPhase, Undo, tables
<1>2. cut \in [Requests -> SUBSET Phases]
  BY DEF Typed
<1>3. ASSUME Cuts(c), NEW i \in Requests PROVE cut[i] \subseteq cut'[i]
  <2>1. cut'[i] = cut[i] \cup
                     {at[d].phase : d \in {e \in Clients \ {c} : Within(e) /\ at[e].id = i}}
    BY <1>3 DEF Cuts
  <2>2. QED
    BY <2>1
<1>4. ASSUME cut' = [cut EXCEPT ![at[c].id] = @ \cup {at[c].phase}], NEW i \in Requests
      PROVE  cut[i] \subseteq cut'[i]
  BY <1>2, <1>4
<1>5. QED
  BY <1>1, <1>3, <1>4

\* Only the look inside its transaction takes an edit to its UPDATE.
LEMMA EditsLook ==
    ASSUME Typed, NEW c \in Clients, Thread(c), Editing(c, "edit")'
    PROVE  /\ UNCHANGED <<db, cut>> /\ StillCurrent(c)
           /\ at'[c].row = at[c].row /\ at'[c].id = at[c].id
           /\ at'[c].expected = at[c].expected
<1> DEFINE Elsewhere == \/ pc'[c] # "body"
                        \/ at'[c].phase # "edit"
                        \/ at'[c].kind # "edit"
<1> USE DEF Elsewhere
<1>1. at[c] \in Local
  BY DEF Typed
<1>2. ASSUME NEW step \in Steps \ {"body"}, pc' = [pc EXCEPT ![c] = step] PROVE Elsewhere
  BY <1>2 DEF Typed
<1>3. Check(c) \/ Write(c) \/ Confirm(c) \/ Insert(c) \/ Verify(c) \/ Undo(c)
         \/ InsertOperation(c) \/ Transition(c) => Elsewhere
  <2>1. Check(c) => Elsewhere
    BY <1>2 DEF Check, Goto, Answer, Steps
  <2>2. Write(c) => Elsewhere
    BY <1>2 DEF Write, WriteRow, Goto, Steps
  <2>3. Confirm(c) \/ Verify(c) => Elsewhere
    BY <1>2 DEF Confirm, Verify, Steps
  <2>4. Insert(c) => Elsewhere
    BY <1>2 DEF Insert, Goto, Enter, Answer, Steps
  <2>5. Undo(c) => Elsewhere
    BY <1>2 DEF Undo, Enter, Answer, Steps
  <2>6. InsertOperation(c) \/ Transition(c) => Elsewhere
    BY <1>2 DEF InsertOperation, Transition, Goto, Steps
  <2>7. QED
    BY <2>1, <2>2, <2>3, <2>4, <2>5, <2>6
<1>4. Begin(c) => Elsewhere
  BY DEF Begin, Goto, Typed
<1>5. ASSUME CommitPhase(c) PROVE Elsewhere
  <2>1. CASE /\ at[c].kind # "edit"
             /\ at' = [at EXCEPT ![c].phase = "edit"]
    BY <1>1, <2>1 DEF Typed, Local
  <2>2. CASE \E step \in Steps \ {"body"} : pc' = [pc EXCEPT ![c] = step]
    BY <1>2, <2>2
  <2>3. QED
    BY <1>5, <2>1, <2>2 DEF CommitPhase, Enter, Answer, Steps
<1>6. Read(c)
  BY <1>3, <1>4, <1>5 DEF Thread, Editing
<1>7. StillCurrent(c)
  BY <1>6 DEF Read, Editing, Typed
<1>8. at' = [at EXCEPT ![c].found = db.rows[at[c].row].exists] /\ UNCHANGED <<db, cut>>
  BY <1>6 DEF Read, tables
<1>9. at[c] \in Local
  BY DEF Typed
<1>10. at'[c] = [at[c] EXCEPT !.found = db.rows[at[c].row].exists]
  BY <1>8 DEF Typed
<1>11. QED
  BY <1>7, <1>8, <1>9, <1>10 DEF Local

\* Outside the body of a transaction nothing is written but by its end.
LEMMA BodiesWrite ==
    ASSUME NEW c \in Clients, Thread(c), pc[c] # "body"
    PROVE  UNCHANGED <<db, saved>> \/ Commit \/ Rollback
BY DEF Thread, Check, Begin, InsertOperation, Transition, Read, Write, Editing,
       Confirm, Insert, Verify, CommitPhase, Undo, tables

\* A change is made by a statement of its request, upon the version the row then has.
LEMMA ChangesAreMade ==
    ASSUME Typed, NEW c \in Clients, Thread(c), NEW e \in db'.changes \cup saved'.changes
    PROVE  \/ e \in db.changes \cup saved.changes
           \/ /\ Editing(c, e.kind) /\ e.id = at[c].id /\ e.row = at[c].row
              /\ e.from = db.rows[at[c].row].version /\ e.expected = at[c].expected
<1>1. Busy(c) /\ Effect(c)
  BY ThreadMoves, ThreadEffect
<1>2. CASE UNCHANGED <<db, saved>> \/ Commit \/ Rollback
  BY <1>2 DEF Commit, Rollback
<1>3. CASE OperationWritten(c)
  BY <1>1, <1>3, OpsWritten, OwnRows DEF OperationWritten, Statement, Typed
<1>4. CASE ConfigurationWritten(c)
  <2>1. PICK row \in Row : at[c].phase = "edit" /\ Statement(Changed(c, row))
    BY <1>4 DEF ConfigurationWritten
  <2>2. db' = Changed(c, row) /\ saved' = saved
    BY <2>1 DEF Statement
  <2>3. CASE e \in db.changes
    BY <2>3
  <2>4. CASE e \notin db.changes \cup saved.changes
    <3>1. /\ e.id = at[c].id /\ e.kind = at[c].kind /\ e.row = at[c].row
          /\ e.from = db.rows[at[c].row].version /\ e.expected = at[c].expected
      BY <1>1, <2>2, <2>4, ChangedTables
    <3>2. pc[c] = "body"
      <4>1. ~(UNCHANGED <<db, saved>> \/ Commit \/ Rollback)
        BY <2>4 DEF Commit, Rollback
      <4>2. QED
        BY <4>1, BodiesWrite
    <3>3. QED
      BY <2>1, <3>1, <3>2 DEF Editing
  <2>5. QED
    BY <2>2, <2>3, <2>4
<1>5. QED
  BY <1>1, <1>2, <1>3, <1>4 DEF Effect

\* A step of a thread keeps what the looks have found, or marks it,
LEMMA ThreadMeets ==
    ASSUME Typed, LooksHold, MeetingChanges, NEW c \in Clients, Thread(c)
    PROVE  LooksHold' /\ MeetingChanges'
<1>1. Busy(c) /\ \A i \in Requests : cut[i] \subseteq cut'[i]
  BY ThreadMoves, StepCuts
<1>2. PICK step \in Steps, x \in Local : Moves(c, step, x)
  BY ThreadMoves
<1>3. \A d \in Clients \ {c} : pc'[d] = pc[d] /\ at'[d] = at[d]
  BY <1>2 DEF Moves, Typed
<1>4. ASSUME NEW d \in Clients, Editing(d, "edit")'
      PROVE  \/ db'.rows[at'[d].row].version = at'[d].expected
             \/ "edit" \in cut'[at'[d].id]
  <2>1. CASE d = c
    BY <1>4, <2>1, EditsLook DEF StillCurrent
  <2>2. CASE d # c
    <3>1. Editing(d, "edit") /\ at'[d] = at[d] /\ at[d].id \in Requests
      BY <1>3, <1>4, <2>2, OwnRows DEF Editing, Busy
    <3>2. CASE UNCHANGED <<db, saved>>
      BY <1>1, <3>1, <3>2 DEF LooksHold
    <3>3. CASE Cuts(c)
      <4>1. Within(d) /\ at[d].phase = "edit"
        BY <3>1 DEF Within, Editing
      <4>2. QED
        BY <2>2, <3>1, <3>3, <4>1 DEF Cuts
    <3>4. QED
      BY <3>2, <3>3, StepCuts
  <2>3. QED
    BY <2>1, <2>2
<1>5. ASSUME NEW e \in db'.changes \cup saved'.changes, e.kind = "edit"
      PROVE  e.from = e.expected \/ "edit" \in cut'[e.id]
  <2>1. CASE e \in db.changes \cup saved.changes
    <3>1. e.id \in Requests
      BY <2>1 DEF Typed, Tables, Change
    <3>2. QED
      BY <1>1, <1>5, <2>1, <3>1 DEF MeetingChanges, Meets
  <2>2. CASE /\ Editing(c, e.kind) /\ e.id = at[c].id
             /\ e.from = db.rows[at[c].row].version /\ e.expected = at[c].expected
    BY <1>1, <1>5, <2>2, OwnRows DEF LooksHold
  <2>3. QED
    BY <2>1, <2>2, ChangesAreMade
<1>6. QED
  BY <1>4, <1>5 DEF LooksHold, MeetingChanges, Meets

\* and a new request has not looked yet.
LEMMA RequestMeets ==
    ASSUME Typed, LooksHold, MeetingChanges, NEW c \in Clients, Request(c)
    PROVE  LooksHold' /\ MeetingChanges'
<1>1. PICK x \in Local : Accepted(c, x)
  BY RequestAccepted
<1>2. PICK step \in {"check", "begin", "body"} :
         /\ pc' = [pc EXCEPT ![c] = step]
         /\ step = "body" => Unlogged(x.kind, x.row)
  BY <1>1 DEF Accepted
<1>3. \A d \in Clients : /\ pc'[d] = IF d = c THEN step ELSE pc[d]
                         /\ at'[d] = IF d = c THEN x ELSE at[d]
  BY <1>1, <1>2 DEF Accepted, Typed
<1>4. UNCHANGED <<db, saved, cut>>
  BY <1>1 DEF Accepted, tables
<1>5. QED
  BY <1>2, <1>3, <1>4 DEF LooksHold, MeetingChanges, Meets, Editing, Unlogged

\* An edit that meets another version than the one it was made for has shared its
\* transaction: any number of edits that only follow each other never overwrite one.
THEOREM EditsMeetVersions == Spec => []EditsMeetTheirVersion
<1> DEFINE Inv == LooksHold /\ MeetingChanges
<1>1. Init => Inv
  BY DEF Init, LooksHold, MeetingChanges, Editing
<1>2. Typed /\ Inv /\ [Next]_vars => Inv'
  <2> SUFFICES ASSUME Typed, Inv, [Next]_vars PROVE Inv'
    OBVIOUS
  <2>1. ASSUME NEW c \in Clients, Request(c) PROVE Inv'
    BY <2>1, RequestMeets
  <2>2. ASSUME NEW c \in Clients, Thread(c) PROVE Inv'
    BY <2>2, ThreadMeets
  <2>3. CASE UNCHANGED vars
    BY <2>3 DEF vars, tables, LooksHold, MeetingChanges, Meets, Editing
  <2>4. QED
    BY <2>1, <2>2, <2>3 DEF Next
<1>3. Inv => EditsMeetTheirVersion
  BY DEF MeetingChanges, Meets, EditsMeetTheirVersion
<1>4. QED
  BY <1>1, <1>2, <1>3, TypedAlways, PTL DEF Spec

-----------------------------------------------------------------------------
(* Answers are true.                                                       *)

Closed == {"Completed", "Failed"}

\* A request has a change in the tables t that a statement of its kind has made.
MadeIn(t, i, kind) == \E e \in t.changes : e.id = i /\ e.kind = kind

Untouched(i) == \A e \in db.changes : e.id # i

Open(i) == db.ops[i] \notin Closed /\ saved.ops[i] \notin Closed

Absent(i) == db.ops[i] = "absent" /\ saved.ops[i] = "absent"

CutIn(i, phases) == cut[i] \cap phases # {}

\* A request that has come to nothing, or is one whose failure AnswersAreTrue excuses.
Refusable(i) == Untouched(i) \/ MadeIn(saved, i, "verify") \/ CutIn(i, {"edit", "complete"})

\* The thread has not yet come to its change.
Early(c) ==
    \/ at[c].phase \in {"create", "run"}
    \/ at[c].phase = "edit" /\ pc[c] \in {"begin", "read", "body"}

\* Until the thread closes its request, or gives it up, the request is open.
Opens(c, i) ==
    /\ answer[i] = "none"
    /\ pc[c] = "check" => at[c].phase = "create"
    /\ Unlogged(at[c].kind, at[c].row) => at[c].phase = "edit" /\ pc[c] \in {"body", "commit"}
    /\ pc[c] = "check" \/ Unlogged(at[c].kind, at[c].row) => Absent(i)
    /\ Early(c) => Untouched(i)
    /\ \/ Early(c)
       \/ at[c].phase = "edit" /\ pc[c] # "undo"
       \/ at[c].phase = "complete" /\ pc[c] \in {"begin", "body"}
       => Open(i)

\* A change that was to be committed is made, and its row found, or another thread has
\* cut into the transaction.
Edits(c, i) ==
    at[c].phase = "edit" =>
        /\ pc[c] \in {"confirm", "commit"} => MadeIn(db, i, at[c].kind) \/ CutIn(i, {"edit"})
        /\ at[c].kind = "edit" =>
              /\ (pc[c] = "body" /\ at[c].found) \/ pc[c] = "confirm" =>
                    db.rows[at[c].row].exists \/ CutIn(i, {"edit"})
              /\ pc[c] = "commit" => at[c].found \/ CutIn(i, {"edit"})
        /\ pc[c] = "undo" => Refusable(i)

\* A request is closed as what has come of its change.
Closes(c, i) ==
    /\ at[c].phase = "complete" =>
        /\ MadeIn(saved, i, at[c].kind) \/ CutIn(i, {"edit"})
        /\ pc[c] = "commit" => db.ops[i] \in Closed \/ CutIn(i, {"complete"})
        /\ at[c].kind = "edit" =>
              /\ at[c].found \/ CutIn(i, {"edit"})
              /\ pc[c] = "undo" => CutIn(i, {"complete"})
    /\ at[c].phase = "fail" =>
        /\ Refusable(i)
        /\ pc[c] = "commit" => db.ops[i] \in Closed \/ CutIn(i, {"fail"})

Stands(c, i) == Opens(c, i) /\ Edits(c, i) /\ Closes(c, i)

\* AnswersAreTrue, whatever is undone of the rows of the operations.
Accounts(i) ==
    /\ answer[i] = "ok" \/ db.ops[i] = "Completed" \/ saved.ops[i] = "Completed" =>
          Made(i) \/ CutIn(i, {"edit"})
    /\ answer[i] = "failed" \/ db.ops[i] = "Failed" \/ saved.ops[i] = "Failed" => Refusable(i)
    /\ answer[i] \in {"ok", "failed"} =>
          \/ db.ops[i] \in Closed \cup {"absent"} /\ saved.ops[i] \in Closed \cup {"absent"}
          \/ CutIn(i, {"complete", "fail"})

Fresh(i) == Untouched(i) /\ Absent(i) /\ answer[i] = "none"

\* What is committed is never undone.
Grown == saved.changes \subseteq db.changes

Accounted ==
    /\ Grown
    /\ \A i \in Requests : Accounts(i) /\ (i > issued => Fresh(i))
    /\ \A c \in Clients : Busy(c) => Stands(c, at[c].id)

\* What a step keeps of a request: its changes, and the marks on its transactions.
Carried(i) ==
    /\ Untouched(i) => Untouched(i)'
    /\ Made(i) => Made(i)'
    /\ \A kind \in {"edit", "insert", "verify"} :
          MadeIn(saved, i, kind) => MadeIn(saved', i, kind)
    /\ cut[i] \subseteq cut'[i]

\* The row of its operation, as it was seen or as it was stored.
Kept(i) ==
    /\ Carried(i)
    /\ {db'.ops[i], saved'.ops[i]} \subseteq {db.ops[i], saved.ops[i]}

\* The statement of a thread records the change it makes, and takes none away.
LEMMA ChangeMade ==
    ASSUME Typed, NEW c \in Clients, Busy(c), NEW row \in Row
    PROVE  /\ db.changes \subseteq Changed(c, row).changes
           /\ \E e \in Changed(c, row).changes : e.id = at[c].id /\ e.kind = at[c].kind
<1> DEFINE e == [id |-> at[c].id, kind |-> at[c].kind, row |-> at[c].row,
                 from |-> db.rows[at[c].row].version, expected |-> at[c].expected]
           new == [db EXCEPT !.rows[at[c].row] = row, !.changes = @ \cup {e}]
<1>1. new = Changed(c, row)
  BY DEF Changed
<1>2. e.id = at[c].id /\ e.kind = at[c].kind
  OBVIOUS
<1> HIDE DEF e
<1>3. new.changes = db.changes \cup {e}
  BY DEF Typed, Tables
<1> HIDE DEF new
<1>4. QED
  BY <1>1, <1>2, <1>3

\* What a step keeps, the conditions over it keep.
LEMMA Keeping ==
    ASSUME NEW i \in Requests, Kept(i)
    PROVE  /\ Open(i) => Open(i)'
           /\ Absent(i) => Absent(i)'
           /\ Refusable(i) => Refusable(i)'
           /\ \A phases : CutIn(i, phases) => CutIn(i, phases)'
<1>1. \A phases : CutIn(i, phases) => CutIn(i, phases)'
  BY DEF Kept, Carried, CutIn
<1>2. Refusable(i) => Refusable(i)'
  BY <1>1 DEF Kept, Carried, Refusable
<1>3. (Open(i) => Open(i)') /\ (Absent(i) => Absent(i)')
  BY DEF Kept, Open, Absent
<1>4. QED
  BY <1>1, <1>2, <1>3

\* The account of a request stays true while its answer does.
LEMMA AccountKept ==
    ASSUME NEW i \in Requests, Kept(i), Accounts(i), answer'[i] = answer[i]
    PROVE  Accounts(i)'
<1>1. /\ Refusable(i) => Refusable(i)'
      /\ \A phases : CutIn(i, phases) => CutIn(i, phases)'
      /\ Made(i) => Made(i)'
  BY Keeping DEF Kept, Carried
<1>2. {db'.ops[i], saved'.ops[i]} \subseteq {db.ops[i], saved.ops[i]}
  BY DEF Kept
<1>3. QED
  BY <1>1, <1>2 DEF Accounts

\* A step keeps what it makes no statement about: every request but the thread's own,
\* and its own too when the step only looks, commits or rolls back.
LEMMA StepKeeps ==
    ASSUME Typed, Grown, NEW c \in Clients, Thread(c), NEW i \in Requests,
           i # at[c].id \/ UNCHANGED <<db, saved>> \/ Commit \/ Rollback
    PROVE  Kept(i)
<1>1. Busy(c) /\ Effect(c) /\ cut[i] \subseteq cut'[i]
  BY ThreadMoves, ThreadEffect, StepCuts
<1>2. CASE UNCHANGED <<db, saved>> \/ Commit \/ Rollback
  <2>1. db'.changes \subseteq db.changes /\ saved.changes \subseteq saved'.changes
    BY <1>2 DEF Commit, Rollback, Grown
  <2>2. {db'.ops[i], saved'.ops[i]} \subseteq {db.ops[i], saved.ops[i]}
    BY <1>2 DEF Commit, Rollback
  <2>3. QED
    BY <1>1, <2>1, <2>2 DEF Kept, Carried, Untouched, Made, MadeIn
<1>3. CASE i # at[c].id /\ OperationWritten(c)
  <2>1. PICK st \in Statuses : Statement([db EXCEPT !.ops[at[c].id] = st])
    BY <1>3 DEF OperationWritten
  <2>2. /\ db'.changes = db.changes /\ saved' = saved
        /\ db'.ops = [db.ops EXCEPT ![at[c].id] = st]
    BY <1>1, <2>1, OpsWritten, OwnRows DEF Statement, Typed
  <2>3. db'.ops[i] = db.ops[i]
    BY <1>3, <2>2 DEF Typed, Tables
  <2>4. QED
    BY <1>1, <2>2, <2>3 DEF Kept, Carried, Untouched, Made, MadeIn
<1>4. CASE i # at[c].id /\ ConfigurationWritten(c)
  <2>1. PICK row \in Row : Statement(Changed(c, row))
    BY <1>4 DEF ConfigurationWritten
  <2>2. db' = Changed(c, row) /\ saved' = saved
    BY <2>1 DEF Statement
  <2>3. db'.ops = db.ops /\ \A e \in db'.changes : e \in db.changes \/ e.id = at[c].id
    BY <1>1, <2>2, ChangedTables
  <2>4. QED
    BY <1>1, <1>4, <2>2, <2>3 DEF Kept, Carried, Untouched, Made, MadeIn
<1>5. QED
  BY <1>1, <1>2, <1>3, <1>4 DEF Effect

\* No step takes a change from what is committed.
LEMMA GrownStep ==
    ASSUME Typed, Grown, NEW c \in Clients, Thread(c)
    PROVE  Grown'
<1>1. Busy(c) /\ Effect(c)
  BY ThreadMoves, ThreadEffect
<1>2. CASE UNCHANGED <<db, saved>> \/ Commit \/ Rollback
  BY <1>2 DEF Commit, Rollback, Grown
<1>3. CASE OperationWritten(c)
  BY <1>1, <1>3, OpsWritten, OwnRows DEF OperationWritten, Statement, Typed, Grown
<1>4. CASE ConfigurationWritten(c)
  <2>1. PICK row \in Row : Statement(Changed(c, row))
    BY <1>4 DEF ConfigurationWritten
  <2>2. db' = Changed(c, row) /\ saved' = saved
    BY <2>1 DEF Statement
  <2>3. db.changes \subseteq db'.changes
    BY <1>1, <2>2, ChangeMade
  <2>4. QED
    BY <2>2, <2>3 DEF Grown
<1>5. QED
  BY <1>1, <1>2, <1>3, <1>4 DEF Effect

\* What the step of another thread leaves of a thread's own place: the changes and the
\* row it has seen, unless its transaction is now marked.
LEMMA OthersStand ==
    ASSUME Typed, Grown, NEW c \in Clients, Thread(c), NEW d \in Clients \ {c}, Busy(d),
           Stands(d, at[d].id)
    PROVE  Stands(d, at[d].id)' /\ pc'[d] = pc[d] /\ at'[d] = at[d]
<1>1. pc'[d] = pc[d] /\ at'[d] = at[d]
  BY ThreadMoves DEF Moves, Typed
<1>2. PICK i \in Requests : i = at[d].id /\ i # at[c].id /\ at'[d].id = i
  BY <1>1, OwnRows, ThreadMoves DEF Typed, OwnRequests
<1>3. Kept(i)
  BY <1>2, StepKeeps
<1>4. answer'[i] = answer[i]
  <2>1. UNCHANGED answer \/ \E what : Answer(c, what)
    BY DEF Thread, Check, Begin, InsertOperation, Transition, Read, Write, WriteRow,
           Confirm, Insert, Verify, CommitPhase, Undo
  <2>2. QED
    BY <1>2, <2>1 DEF Answer, Typed
<1>5. /\ Open(i) => Open(i)'
      /\ Absent(i) => Absent(i)'
      /\ Refusable(i) => Refusable(i)'
      /\ \A phases : CutIn(i, phases) => CutIn(i, phases)'
      /\ Untouched(i) => Untouched(i)'
      /\ MadeIn(saved, i, at[d].kind) => MadeIn(saved', i, at[d].kind)
  <2>1. at[d].kind \in {"edit", "insert", "verify"}
    BY OwnRows DEF Local
  <2>2. QED
    BY <1>3, <2>1, Keeping DEF Kept, Carried
<1>6. \/ UNCHANGED <<db, saved>>
      \/ Within(d) => CutIn(i, {at[d].phase})'
  <2>1. ASSUME Cuts(c), Within(d) PROVE CutIn(i, {at[d].phase})'
    <3>1. at[d].phase \in cut'[i]
      BY <1>2, <2>1 DEF Cuts
    <3>2. QED
      BY <1>1, <3>1 DEF CutIn
  <2>2. QED
    BY <2>1, StepCuts
<1>7. Stands(d, i)
  BY <1>2
<1>8. Opens(d, i)'
  BY <1>1, <1>4, <1>5, <1>7 DEF Stands, Opens, Early
<1>9. Edits(d, i)'
  <2>1. CASE UNCHANGED <<db, saved>>
    BY <1>1, <1>5, <1>7, <2>1 DEF Stands, Edits
  <2>2. CASE Within(d) => CutIn(i, {at[d].phase})'
    BY <1>1, <1>5, <1>7, <2>2 DEF Stands, Edits, Within
  <2>3. QED
    BY <1>6, <2>1, <2>2
<1>10. Closes(d, i)'
  <2>1. CASE UNCHANGED <<db, saved>>
    BY <1>1, <1>5, <1>7, <2>1 DEF Stands, Closes
  <2>2. CASE Within(d) => CutIn(i, {at[d].phase})'
    BY <1>1, <1>5, <1>7, <2>2 DEF Stands, Closes, Within
  <2>3. QED
    BY <1>6, <2>1, <2>2
<1>11. QED
  BY <1>1, <1>2, <1>8, <1>9, <1>10 DEF Stands

-----------------------------------------------------------------------------
(* A thread's own step.                                                    *)

\* Where a step leaves the thread, with the request it had.
LEMMA WentOn ==
    ASSUME Typed, NEW c \in Clients, NEW step, Goto(c, step)
    PROVE  pc'[c] = step /\ at'[c] = at[c]
BY DEF Typed, Goto

\* A thread that enters a phase keeps its request.
LEMMA WentOver ==
    ASSUME Typed, NEW c \in Clients, NEW phase \in Phases, NEW step, Enter(c, phase, step)
    PROVE  /\ pc'[c] = step /\ at'[c].phase = phase /\ at'[c].id = at[c].id
           /\ at'[c].row = at[c].row /\ at'[c].kind = at[c].kind /\ at'[c].found = at[c].found
<1>1. at[c] \in Local
  BY DEF Typed
<1>2. pc'[c] = step /\ at'[c] = [at[c] EXCEPT !.phase = phase]
  BY DEF Typed, Enter
<1>3. QED
  BY <1>1, <1>2 DEF Local

\* So does one that has read its row.
LEMMA Found ==
    ASSUME Typed, NEW c \in Clients, NEW b \in BOOLEAN, at' = [at EXCEPT ![c].found = b]
    PROVE  /\ at'[c].found = b /\ at'[c].phase = at[c].phase /\ at'[c].id = at[c].id
           /\ at'[c].row = at[c].row /\ at'[c].kind = at[c].kind
<1>1. at[c] \in Local
  BY DEF Typed
<1>2. at'[c] = [at[c] EXCEPT !.found = b]
  BY DEF Typed
<1>3. QED
  BY <1>1, <1>2 DEF Local

\* A thread that answers is done.
LEMMA Answered ==
    ASSUME Typed, NEW c \in Clients, Busy(c), NEW what, Answer(c, what)
    PROVE  pc'[c] = "idle" /\ answer'[at[c].id] = what
BY OwnRows DEF Typed, Answer

\* Where the thread's step leaves it, with request i, and the account of i.
Placed(c, i) == (pc'[c] # "idle" => Stands(c, i)') /\ Accounts(i)'

\* What a thread at work knows of its request.
At(c, i) ==
    /\ i = at[c].id /\ at[c].kind \in {"edit", "insert", "verify"}
    /\ Stands(c, i) /\ Accounts(i)

\* The invariant, for one thread.
LEMMA AtWork ==
    ASSUME Typed, Accounted, NEW c \in Clients, Busy(c)
    PROVE  at[c].id \in Requests /\ At(c, at[c].id)
BY OwnRows DEF Accounted, At, Local

\* A statement that keeps the operations, and marks, of the thread's request.
LEMMA KeepsOpen ==
    ASSUME NEW i \in Requests, Open(i), answer[i] = "none",
           db'.ops[i] = db.ops[i], saved' = saved, answer' = answer
    PROVE  Open(i)' /\ Accounts(i)' /\ (Absent(i) => Absent(i)')
BY DEF Open, Accounts, Absent, Closed

\* The first look: a stale request fails with nothing done.
LEMMA PlacedByCheck ==
    ASSUME Typed, Accounted, NEW c \in Clients, Check(c), NEW i \in Requests, At(c, i)
    PROVE  Placed(c, i)
<1>1. UNCHANGED <<db, saved, cut>> /\ pc[c] = "check"
  BY DEF Check, tables
<1>2. /\ at[c].phase = "create" /\ Early(c) /\ Absent(i) /\ Untouched(i) /\ Open(i)
      /\ ~Unlogged(at[c].kind, at[c].row) /\ answer[i] = "none"
  BY <1>1 DEF At, Stands, Opens, Early
<1>3. Absent(i)' /\ Untouched(i)' /\ Open(i)' /\ Refusable(i)'
  BY <1>1, <1>2 DEF Absent, Untouched, Open, Refusable
<1>4. CASE Goto(c, "begin") /\ UNCHANGED answer
  <2>1. pc'[c] = "begin" /\ at'[c] = at[c]
    BY <1>4, WentOn
  <2>2. Stands(c, i)'
    BY <1>2, <1>3, <1>4, <2>1 DEF Stands, Opens, Edits, Closes
  <2>3. Accounts(i)'
    BY <1>2, <1>3, <1>4 DEF Accounts, Absent
  <2>4. QED
    BY <2>2, <2>3 DEF Placed
<1>5. CASE Answer(c, "failed")
  <2>1. pc'[c] = "idle" /\ answer'[i] = "failed"
    BY <1>1, <1>5, Answered DEF At, Busy
  <2>2. Accounts(i)'
    BY <1>3, <2>1 DEF Accounts, Absent
  <2>3. QED
    BY <2>1, <2>2 DEF Placed
<1>6. QED
  BY <1>4, <1>5 DEF Check

\* A transaction that cannot begin marks its request.
LEMMA PlacedByBegin ==
    ASSUME Typed, Accounted, NEW c \in Clients, Begin(c), NEW i \in Requests, At(c, i)
    PROVE  Placed(c, i)
<1>1. UNCHANGED <<db, saved, answer>> /\ pc[c] = "begin" /\ Thread(c)
  BY DEF Begin, Thread
<1>2. Kept(i)
  BY <1>1, StepKeeps DEF Accounted
<1>3. Accounts(i)'
  BY <1>1, <1>2, AccountKept DEF At
<1>4. PICK step \in {"undo", "read", "body"} :
         /\ pc'[c] = step /\ at'[c] = at[c]
         /\ step = "undo" => at[c].phase \in cut'[i]
         /\ step = "read" <=> at[c].phase = "edit" /\ step # "undo"
  <2>1. CASE Goto(c, "undo") /\ cut' = [cut EXCEPT ![at[c].id] = @ \cup {at[c].phase}]
    <3>1. at[c].phase \in cut'[i]
      BY <2>1 DEF At, Typed
    <3>2. QED
      BY <2>1, <3>1, WentOn
  <2>2. CASE Goto(c, IF at[c].phase = "edit" THEN "read" ELSE "body")
    BY <2>2, WentOn
  <2>3. QED
    BY <2>1, <2>2 DEF Begin
<1>5. /\ Open(i) => Open(i)'
      /\ Refusable(i) => Refusable(i)'
      /\ \A phases : CutIn(i, phases) => CutIn(i, phases)'
      /\ Untouched(i) => Untouched(i)'
      /\ MadeIn(saved, i, at[c].kind) => MadeIn(saved', i, at[c].kind)
  BY <1>2, Keeping DEF Kept, Carried, At
<1>6. /\ step = "undo" /\ at[c].phase = "edit" => Refusable(i)'
      /\ step = "undo" /\ at[c].phase = "complete" => CutIn(i, {"complete"})'
  BY <1>4 DEF Refusable, CutIn
<1>7. Opens(c, i)'
  BY <1>1, <1>4, <1>5 DEF At, Stands, Opens, Early
<1>8. Edits(c, i)'
  BY <1>1, <1>4, <1>6 DEF At, Stands, Edits
<1>9. Closes(c, i)'
  BY <1>1, <1>4, <1>5, <1>6 DEF At, Stands, Closes
<1>10. QED
  BY <1>3, <1>7, <1>8, <1>9 DEF Placed, Stands

\* The row of the operation is queued before anything is changed.
LEMMA PlacedByInsertOperation ==
    ASSUME Typed, Accounted, NEW c \in Clients, InsertOperation(c), NEW i \in Requests, At(c, i)
    PROVE  Placed(c, i)
<1>1. /\ db' = [db EXCEPT !.ops[i] = "Queued"] /\ saved' = saved /\ answer' = answer
      /\ pc'[c] = "commit" /\ at'[c] = at[c] /\ at[c].phase = "create"
  BY WentOn DEF InsertOperation, Statement, At
<1>2. db'.changes = db.changes /\ db'.ops[i] = "Queued"
  BY <1>1, OpsWritten DEF Typed, Statuses, Tables
<1>3. /\ answer[i] = "none" /\ Untouched(i) /\ Open(i) /\ ~Unlogged(at[c].kind, at[c].row)
  BY <1>1 DEF At, Stands, Opens, Early
<1>4. Untouched(i)' /\ Open(i)'
  BY <1>1, <1>2, <1>3 DEF Untouched, Open, Closed
<1>5. Accounts(i)'
  BY <1>1, <1>3, <1>4 DEF Accounts, Open, Closed
<1>6. Stands(c, i)'
  BY <1>1, <1>3, <1>4 DEF Stands, Opens, Edits, Closes
<1>7. QED
  BY <1>5, <1>6 DEF Placed

\* The row is closed as what has come of the change; a request of the phase
\* complete is never refused the transition.
LEMMA PlacedByTransition ==
    ASSUME Typed, RowsPersist, Accounted, NEW c \in Clients, Transition(c),
           NEW i \in Requests, At(c, i)
    PROVE  Placed(c, i)
<1>1. /\ answer' = answer /\ pc[c] = "body" /\ at[c].phase \in {"run", "complete", "fail"}
      /\ Thread(c) /\ Busy(c)
  BY DEF Transition, Thread, Busy
<1>2. answer[i] = "none" /\ ~Unlogged(at[c].kind, at[c].row)
  BY <1>1 DEF At, Stands, Opens
<1>3. CASE Transitionable(db.ops[i])
  <2>1. /\ db' = SetStatus(i, Goal[at[c].phase]) /\ saved' = saved
        /\ pc'[c] = "commit" /\ at'[c] = at[c]
    BY <1>3, WentOn DEF Transition, Statement, At
  <2>2. PICK st \in Statuses :
           /\ st = Goal[at[c].phase]
           /\ at[c].phase = "run" => st = "Running"
           /\ at[c].phase = "complete" => st = "Completed"
           /\ at[c].phase = "fail" => st = "Failed"
    BY <1>1 DEF Goal, Statuses
  <2>3. db' = [db EXCEPT !.ops[i] = st]
    BY <1>3, <2>1, <2>2 DEF SetStatus, Transitionable
  <2>4. db'.changes = db.changes /\ db'.ops[i] = st
    BY <2>3, OpsWritten DEF Typed, Tables
  <2>5. cut[i] \subseteq cut'[i]
    BY <1>1, StepCuts
  <2>6. /\ Untouched(i) => Untouched(i)'
        /\ Refusable(i) => Refusable(i)'
        /\ \A phases : CutIn(i, phases) => CutIn(i, phases)'
        /\ MadeIn(saved, i, at[c].kind) => MadeIn(saved', i, at[c].kind) /\ Made(i)'
    BY <2>1, <2>4, <2>5 DEF Untouched, Refusable, CutIn, MadeIn, Made
  <2>7. CASE at[c].phase = "run"
    <3>1. Untouched(i) /\ Open(i)
      BY <2>7 DEF At, Stands, Opens, Early
    <3>2. Untouched(i)' /\ Open(i)'
      BY <2>1, <2>2, <2>4, <2>6, <2>7, <3>1 DEF Open, Closed
    <3>3. Accounts(i)'
      BY <1>1, <1>2, <3>2 DEF Accounts, Open, Closed
    <3>4. Stands(c, i)'
      BY <1>1, <1>2, <2>1, <2>7, <3>2 DEF Stands, Opens, Edits, Closes
    <3>5. QED
      BY <3>3, <3>4 DEF Placed
  <2>8. CASE at[c].phase = "complete"
    <3>1. MadeIn(saved, i, at[c].kind) \/ CutIn(i, {"edit"})
      BY <2>8 DEF At, Stands, Closes
    <3>2. Open(i)
      BY <1>1, <2>8 DEF At, Stands, Opens
    <3>3. db'.ops[i] = "Completed" /\ saved'.ops[i] \notin Closed
      BY <2>1, <2>2, <2>4, <2>8, <3>2 DEF Open
    <3>4. Accounts(i)'
      BY <1>1, <1>2, <2>6, <3>1, <3>3 DEF Accounts, Closed
    <3>5. Stands(c, i)'
      BY <1>1, <1>2, <2>1, <2>6, <2>8, <3>1, <3>3
         DEF Stands, Opens, Early, Edits, Closes, At, Closed
    <3>6. QED
      BY <3>4, <3>5 DEF Placed
  <2>9. CASE at[c].phase = "fail"
    <3>1. Refusable(i)
      BY <2>9 DEF At, Stands, Closes
    <3>2. db'.ops[i] = "Failed" /\ Refusable(i)'
      BY <2>2, <2>4, <2>6, <2>9, <3>1
    <3>3. saved'.ops[i] = "Completed" => Made(i)' \/ CutIn(i, {"edit"})'
      <4>1. saved'.ops[i] = "Completed" => Made(i) \/ CutIn(i, {"edit"})
        BY <2>1 DEF At, Accounts
      <4>2. Made(i) => Made(i)'
        BY <2>1 DEF Made
      <4>3. QED
        BY <2>6, <4>1, <4>2
    <3>4. Accounts(i)'
      BY <1>1, <1>2, <3>2, <3>3 DEF Accounts
    <3>5. Stands(c, i)'
      BY <1>1, <1>2, <2>1, <2>9, <3>2 DEF Stands, Opens, Early, Edits, Closes, Closed
    <3>6. QED
      BY <3>4, <3>5 DEF Placed
  <2>10. QED
    BY <1>1, <2>7, <2>8, <2>9
<1>4. CASE ~Transitionable(db.ops[i])
  <2>1. UNCHANGED <<db, saved, cut>> /\ pc'[c] = "undo" /\ at'[c] = at[c]
    BY <1>4, WentOn DEF Transition, At, tables
  <2>2. Kept(i)
    BY <1>1, <2>1, StepKeeps DEF Accounted
  <2>3. Accounts(i)'
    BY <1>1, <2>2, AccountKept DEF At
  <2>4. at[c].phase # "complete"
    <3>1. SUFFICES ASSUME at[c].phase = "complete" PROVE FALSE
      OBVIOUS
    <3>2. db.ops[i] # "absent"
      BY <1>1, <1>2, <3>1 DEF RowsPersist, Logged, LoggedIn, At
    <3>3. Open(i)
      BY <1>1, <3>1 DEF At, Stands, Opens
    <3>4. QED
      BY <1>4, <3>2, <3>3 DEF Transitionable, Open, Closed
  <2>5. Open(i) => Open(i)'
    BY <2>2, Keeping
  <2>6. (Refusable(i) => Refusable(i)') /\ (Untouched(i) => Untouched(i)')
    BY <2>2, Keeping DEF Kept, Carried
  <2>7. Stands(c, i)'
    BY <1>1, <1>2, <2>1, <2>4, <2>5, <2>6 DEF At, Stands, Opens, Early, Edits, Closes
  <2>8. QED
    BY <2>3, <2>7 DEF Placed
<1>5. QED
  BY <1>3, <1>4

\* The second look: nothing has been changed when it fails.
LEMMA PlacedByRead ==
    ASSUME Typed, Accounted, NEW c \in Clients, Read(c), NEW i \in Requests, At(c, i)
    PROVE  Placed(c, i)
<1>1. /\ UNCHANGED <<db, saved, cut, answer>> /\ pc[c] = "read" /\ Busy(c)
      /\ at[c].phase = "edit"
  BY DEF Read, tables, Busy, Typed, OwnRequests
<1>2. /\ answer[i] = "none" /\ Open(i) /\ Untouched(i) /\ Accounts(i)
      /\ ~Unlogged(at[c].kind, at[c].row)
  BY <1>1 DEF At, Stands, Opens, Early
<1>3. Open(i)' /\ Untouched(i)' /\ Refusable(i)' /\ Accounts(i)'
  BY <1>1, <1>2 DEF Open, Untouched, Refusable, Accounts, Made, CutIn, MadeIn
<1>4. db.rows[at[c].row].exists \in BOOLEAN
  BY <1>1, OwnRows
<1>5. /\ at'[c].found = db.rows[at[c].row].exists /\ at'[c].phase = "edit"
      /\ at'[c].row = at[c].row /\ at'[c].kind = at[c].kind
  BY <1>1, <1>4, Found DEF Read
<1>6. pc'[c] \in {"body", "undo"}
  BY DEF Read, Typed
<1>7. Stands(c, i)'
  BY <1>1, <1>2, <1>3, <1>5, <1>6 DEF Stands, Opens, Edits, Closes
<1>8. QED
  BY <1>3, <1>7 DEF Placed

\* A change that the thread records is one of its request.
LEMMA MadeByStatement ==
    ASSUME Typed, NEW c \in Clients, Busy(c), NEW row \in Row, Statement(Changed(c, row))
    PROVE  /\ db'.ops = db.ops /\ saved' = saved /\ db'.rows[at[c].row] = row
           /\ MadeIn(db', at[c].id, at[c].kind)
<1>1. db' = Changed(c, row) /\ saved' = saved /\ at[c].row \in Rows
  BY OwnRows DEF Statement
<1>2. db'.ops = db.ops /\ db'.rows[at[c].row] = row
  <2>1. db.rows \in [Rows -> Row]
    BY DEF Typed, Tables
  <2>2. db'.ops = db.ops /\ db'.rows = [db.rows EXCEPT ![at[c].row] = row]
    BY <1>1, ChangedTables
  <2>3. QED
    BY <1>1, <2>1, <2>2
<1>3. MadeIn(db', at[c].id, at[c].kind)
  BY <1>1, ChangeMade DEF MadeIn
<1>4. QED
  BY <1>1, <1>2, <1>3

\* An edit that writes, raises, or finds no row to update.
LEMMA PlacedByWriteRow ==
    ASSUME Typed, Accounted, NEW c \in Clients, Editing(c, "edit"), NEW i \in Requests, At(c, i),
           NEW row \in Row, NEW valid \in BOOLEAN, NEW raised \in {"confirm", "undo"},
           WriteRow(c, row, valid, "confirm", raised),
           valid => row.exists,
           raised = "confirm" => ~valid /\ at[c].found /\ ~db.rows[at[c].row].exists,
           cut[i] \subseteq cut'[i]
    PROVE  Placed(c, i)
<1>1. /\ answer' = answer /\ saved' = saved /\ pc[c] = "body" /\ Busy(c)
      /\ at[c].phase = "edit" /\ at[c].kind = "edit"
  BY DEF WriteRow, Statement, Editing, Busy
<1>2. answer[i] = "none" /\ Open(i) /\ Untouched(i) /\ ~Unlogged(at[c].kind, at[c].row)
  BY <1>1 DEF At, Stands, Opens, Early, Unlogged
<1>3. pc'[c] = (IF valid THEN "confirm" ELSE raised) /\ at'[c] = at[c]
  BY WentOn DEF WriteRow
<1>4. CASE valid
  <2>1. Statement(Changed(c, row))
    BY <1>4 DEF WriteRow
  <2>2. /\ db'.ops = db.ops /\ db'.rows[at[c].row] = row
        /\ MadeIn(db', at[c].id, at[c].kind)
    BY <1>1, <2>1, MadeByStatement
  <2>3. Open(i)' /\ Accounts(i)'
    BY <1>1, <1>2, <2>2, KeepsOpen
  <2>4. db'.rows[at[c].row].exists
    BY <1>4, <2>2
  <2>5. MadeIn(db', i, at[c].kind)
    BY <2>2 DEF At
  <2>6. pc'[c] = "confirm"
    BY <1>3, <1>4
  <2>7. Opens(c, i)'
    BY <1>1, <1>2, <1>3, <2>3, <2>6 DEF Opens, Early
  <2>8. Edits(c, i)' /\ Closes(c, i)'
    BY <1>1, <1>3, <2>4, <2>5, <2>6 DEF Edits, Closes
  <2>9. QED
    BY <2>3, <2>7, <2>8 DEF Placed, Stands
<1>5. CASE ~valid
  <2>1. db' = db
    BY <1>5 DEF WriteRow, Statement
  <2>2. Open(i)' /\ Accounts(i)'
    BY <1>1, <1>2, <2>1, KeepsOpen
  <2>3. Untouched(i)' /\ Refusable(i)'
    BY <1>2, <2>1 DEF Untouched, Refusable
  <2>4. raised = "confirm" => CutIn(i, {"edit"})
    BY <1>1 DEF At, Stands, Edits
  <2>5. raised = "confirm" => CutIn(i, {"edit"})'
    BY <2>4 DEF CutIn
  <2>6. pc'[c] = raised
    BY <1>3, <1>5
  <2>7. Opens(c, i)'
    BY <1>1, <1>2, <1>3, <2>2, <2>3, <2>6 DEF Opens, Early
  <2>8. Edits(c, i)' /\ Closes(c, i)'
    BY <1>1, <1>3, <2>3, <2>5, <2>6 DEF Edits, Closes
  <2>9. QED
    BY <2>2, <2>7, <2>8 DEF Placed, Stands
<1>6. QED
  BY <1>4, <1>5

\* The three ways of an edit: to insert, to update, to find no row.
LEMMA PlacedByWrite ==
    ASSUME Typed, Accounted, NEW c \in Clients, Write(c), NEW i \in Requests, At(c, i)
    PROVE  Placed(c, i)
<1> DEFINE r == at[c].row
<1>1. Editing(c, "edit") /\ Busy(c) /\ cut[i] \subseteq cut'[i]
  <2>1. Editing(c, "edit") /\ Busy(c) /\ Thread(c)
    BY DEF Write, Editing, Busy, Thread
  <2>2. QED
    BY <2>1, StepCuts
<1>2. /\ Given(at[c].name) \in Row /\ NoRow \in Row /\ Given(at[c].name).exists
  <2>1. Given(at[c].name) \in Row /\ NoRow \in Row
    BY <1>1, OwnRows, GivenRow DEF Local
  <2>2. QED
    BY <2>1 DEF Given
<1>3. Updated(c) \in Row /\ Updated(c).exists = db.rows[r].exists
  <2>1. db.rows[r] \in Row /\ Updated(c) \in Row
    BY <1>1, OwnRows, UpdatedRow
  <2>2. QED
    BY <2>1 DEF Updated, Row
<1>4. CASE WriteRow(c, Given(at[c].name), Insertable(r, Given(at[c].name)), "confirm", "undo")
  <2>1. Insertable(r, Given(at[c].name)) \in BOOLEAN
    BY DEF Insertable
  <2>2. QED
    BY <1>1, <1>2, <1>4, <2>1, PlacedByWriteRow
<1>5. CASE /\ db.rows[r].exists
           /\ WriteRow(c, Updated(c), Updatable(r, Updated(c)), "confirm", "undo")
  <2>1. Updatable(r, Updated(c)) \in BOOLEAN
    BY DEF Updatable
  <2>2. QED
    BY <1>1, <1>3, <1>5, <2>1, PlacedByWriteRow
<1>6. CASE /\ at[c].found /\ ~db.rows[r].exists
           /\ WriteRow(c, NoRow, FALSE, "confirm", "confirm")
  BY <1>1, <1>2, <1>6, PlacedByWriteRow
<1>7. QED
  BY <1>4, <1>5, <1>6 DEF Write

\* The row that is read again is there, unless others have undone it.
LEMMA PlacedByConfirm ==
    ASSUME Typed, Accounted, NEW c \in Clients, Confirm(c), NEW i \in Requests, At(c, i)
    PROVE  Placed(c, i)
<1>1. /\ UNCHANGED <<db, saved, cut, answer>> /\ pc[c] = "confirm" /\ Busy(c)
      /\ at[c].phase = "edit"
  BY DEF Confirm, tables, Busy, Typed, OwnRequests
<1>2. /\ answer[i] = "none" /\ Open(i) /\ ~Unlogged(at[c].kind, at[c].row)
      /\ MadeIn(db, i, at[c].kind) \/ CutIn(i, {"edit"})
  BY <1>1 DEF At, Stands, Opens, Edits
<1>3. at[c].kind = "edit" => db.rows[at[c].row].exists \/ CutIn(i, {"edit"})
  BY <1>1 DEF At, Stands, Edits
<1>4. Open(i)' /\ Accounts(i)'
  BY <1>1, <1>2, KeepsOpen
<1>5. /\ CutIn(i, {"edit"}) => CutIn(i, {"edit"})'
      /\ MadeIn(db', i, at[c].kind) <=> MadeIn(db, i, at[c].kind)
  BY <1>1 DEF CutIn
<1>6. db.rows[at[c].row].exists \in BOOLEAN
  BY <1>1, OwnRows
<1>7. /\ at'[c].found = db.rows[at[c].row].exists /\ at'[c].phase = "edit"
      /\ at'[c].row = at[c].row /\ at'[c].kind = at[c].kind
  BY <1>1, <1>6, Found DEF Confirm
<1>8. pc'[c] = "commit"
  BY DEF Confirm, Typed
<1>9. Opens(c, i)'
  BY <1>1, <1>2, <1>4, <1>7, <1>8 DEF Opens, Early
<1>10. Edits(c, i)' /\ Closes(c, i)'
  BY <1>2, <1>3, <1>5, <1>7, <1>8 DEF Edits, Closes
<1>11. QED
  BY <1>4, <1>9, <1>10 DEF Placed, Stands

\* An insert that raises has changed nothing.
LEMMA PlacedByInsert ==
    ASSUME Typed, Accounted, NEW c \in Clients, Insert(c), NEW i \in Requests, At(c, i)
    PROVE  Placed(c, i)
<1> DEFINE new == Given(at[c].name)
<1>1. /\ saved' = saved /\ pc[c] = "body" /\ Busy(c)
      /\ at[c].phase = "edit" /\ at[c].kind = "insert"
  BY DEF Insert, Statement, Editing, Busy
<1>2. /\ answer[i] = "none" /\ Open(i) /\ Untouched(i)
      /\ Unlogged(at[c].kind, at[c].row) => Absent(i)
  BY <1>1 DEF At, Stands, Opens, Early
<1>3. CASE Insertable(at[c].row, new)
  <2>1. /\ Statement(Changed(c, new)) /\ answer' = answer
        /\ pc'[c] = "commit" /\ at'[c] = at[c]
    BY <1>3, WentOn DEF Insert
  <2>2. new \in Row
    BY <1>1, OwnRows, GivenRow DEF Local
  <2>3. db'.ops = db.ops /\ MadeIn(db', i, at[c].kind)
    BY <1>1, <2>1, <2>2, MadeByStatement DEF At
  <2>4. Open(i)' /\ Accounts(i)' /\ (Absent(i) => Absent(i)')
    BY <1>1, <1>2, <2>1, <2>3, KeepsOpen
  <2>5. Opens(c, i)'
    BY <1>1, <1>2, <2>1, <2>4 DEF Opens, Early
  <2>6. Edits(c, i)' /\ Closes(c, i)'
    BY <1>1, <2>1, <2>3 DEF Edits, Closes
  <2>7. QED
    BY <2>4, <2>5, <2>6 DEF Placed, Stands
<1>4. CASE ~Insertable(at[c].row, new)
  <2>1. db' = db
    BY <1>4 DEF Insert, Statement
  <2>2. Refusable(i)' /\ Untouched(i)'
    BY <1>2, <2>1 DEF Untouched, Refusable
  <2>3. CASE Kind[at[c].row] = "role"
    <3>1. Answer(c, "failed") /\ Absent(i)
      BY <1>1, <1>2, <1>4, <2>3 DEF Insert, Unlogged
    <3>2. pc'[c] = "idle" /\ answer'[i] = "failed"
      BY <1>1, <3>1, Answered DEF At
    <3>3. Accounts(i)'
      BY <1>1, <2>1, <2>2, <3>1, <3>2 DEF Accounts, Absent
    <3>4. QED
      BY <3>2, <3>3 DEF Placed
  <2>4. CASE Kind[at[c].row] # "role"
    <3>1. Enter(c, "fail", "begin") /\ answer' = answer
      BY <1>4, <2>4 DEF Insert
    <3>2. /\ pc'[c] = "begin" /\ at'[c].phase = "fail"
          /\ at'[c].row = at[c].row /\ at'[c].kind = at[c].kind
      BY <3>1, WentOver DEF Phases
    <3>3. Accounts(i)'
      BY <1>1, <1>2, <2>1, <3>1, KeepsOpen
    <3>4. Stands(c, i)'
      BY <1>1, <1>2, <2>2, <2>4, <3>1, <3>2
         DEF Stands, Opens, Early, Edits, Closes, Unlogged
    <3>5. QED
      BY <3>3, <3>4 DEF Placed
  <2>5. QED
    BY <2>3, <2>4
<1>5. QED
  BY <1>3, <1>4

\* A verification writes whatever it has detected.
LEMMA PlacedByVerify ==
    ASSUME Typed, Accounted, NEW c \in Clients, Verify(c), NEW i \in Requests, At(c, i)
    PROVE  Placed(c, i)
<1> DEFINE row == db.rows[at[c].row]
           new == [row EXCEPT !.status = "live", !.version = @ + 1]
<1>1. /\ answer' = answer /\ pc[c] = "body" /\ Busy(c)
      /\ at[c].phase = "edit" /\ at[c].kind = "verify" /\ Statement(Changed(c, new))
  BY DEF Verify, Editing, Busy
<1>2. answer[i] = "none" /\ Open(i) /\ ~Unlogged(at[c].kind, at[c].row)
  BY <1>1 DEF At, Stands, Opens, Early, Unlogged
<1>3. new \in Row
  BY <1>1, OwnRows, VerifiedRow
<1> HIDE DEF new
<1>4. db'.ops = db.ops /\ saved' = saved /\ MadeIn(db', i, at[c].kind)
  BY <1>1, <1>3, MadeByStatement DEF At
<1>5. Open(i)' /\ Accounts(i)'
  BY <1>1, <1>2, <1>4, KeepsOpen
<1>6. /\ at'[c].phase = "edit" /\ at'[c].row = at[c].row /\ at'[c].kind = at[c].kind
  BY <1>1, Found DEF Verify
<1>7. pc'[c] = "commit"
  BY DEF Verify, Typed
<1>8. Opens(c, i)'
  BY <1>1, <1>2, <1>5, <1>6, <1>7 DEF Opens, Early
<1>9. Edits(c, i)' /\ Closes(c, i)'
  BY <1>1, <1>4, <1>6, <1>7 DEF Edits, Closes
<1>10. QED
  BY <1>5, <1>8, <1>9 DEF Placed, Stands

\* The end of a transaction: what the thread's tables hold is what is stored.
LEMMA PlacedByCommit ==
    ASSUME Typed, Accounted, NEW c \in Clients, CommitPhase(c), NEW i \in Requests, At(c, i)
    PROVE  Placed(c, i)
<1> DEFINE k == at[c].kind
           lacking == at[c].kind # "insert" /\ ~at[c].found
<1>1. db' = db /\ saved' = db /\ pc[c] = "commit" /\ Thread(c) /\ Busy(c)
  BY DEF CommitPhase, Commit, Thread, Busy
<1>2. Kept(i)
  BY StepKeeps, <1>1 DEF CommitPhase, Accounted
<1>3. /\ Open(i) => Open(i)'
      /\ Absent(i) => Absent(i)'
      /\ Refusable(i) => Refusable(i)'
      /\ \A phases : CutIn(i, phases) => CutIn(i, phases)'
      /\ Untouched(i) => Untouched(i)'
      /\ Made(i) => Made(i)'
      /\ MadeIn(saved, i, k) => MadeIn(saved', i, k)
  BY <1>2, Keeping DEF Kept, Carried, At
<1>4. /\ MadeIn(db, i, k) => MadeIn(saved', i, k)
      /\ MadeIn(saved', i, k) => Made(i)'
  BY <1>1 DEF MadeIn, Made
<1>5. answer[i] = "none" /\ Opens(c, i) /\ Edits(c, i) /\ Closes(c, i) /\ Accounts(i)
  BY DEF At, Stands, Opens
<1>6. answer' = answer => Accounts(i)'
  BY <1>2, <1>5, AccountKept
<1>7. CASE at[c].phase = "create" /\ Enter(c, "run", "begin") /\ answer' = answer
  <2>1. /\ pc'[c] = "begin" /\ at'[c].phase = "run"
        /\ at'[c].row = at[c].row /\ at'[c].kind = k
    BY <1>7, WentOver DEF Phases
  <2>2. Untouched(i) /\ Open(i) /\ ~Unlogged(k, at[c].row)
    BY <1>5, <1>7 DEF Opens, Early
  <2>3. Stands(c, i)'
    BY <1>3, <1>5, <1>7, <2>1, <2>2 DEF Stands, Opens, Edits, Closes
  <2>4. QED
    BY <1>6, <1>7, <2>3 DEF Placed
<1>8. CASE /\ at[c].phase = "run" /\ answer' = answer
           /\ Enter(c, "edit", IF k = "edit" THEN "begin" ELSE "body")
  <2>1. /\ pc'[c] = (IF k = "edit" THEN "begin" ELSE "body") /\ at'[c].phase = "edit"
        /\ at'[c].row = at[c].row /\ at'[c].kind = k
    BY <1>8, WentOver DEF Phases
  <2>2. Untouched(i) /\ Open(i) /\ ~Unlogged(k, at[c].row)
    BY <1>5, <1>8 DEF Opens, Early
  <2>3. Stands(c, i)'
    BY <1>3, <1>5, <1>8, <2>1, <2>2 DEF Stands, Opens, Edits, Closes
  <2>4. QED
    BY <1>6, <1>8, <2>3 DEF Placed
<1>9. CASE at[c].phase = "edit" /\ Kind[at[c].row] = "role" /\ k = "insert" /\ Answer(c, "ok")
  <2>1. pc'[c] = "idle" /\ answer'[i] = "ok"
    BY <1>1, <1>9, Answered DEF At
  <2>2. Absent(i)'
    BY <1>3, <1>5, <1>9 DEF Opens, Unlogged
  <2>3. Made(i)' \/ CutIn(i, {"edit"})'
    BY <1>1, <1>3, <1>4, <1>5, <1>9 DEF Edits
  <2>4. Accounts(i)'
    BY <2>1, <2>2, <2>3 DEF Accounts, Absent
  <2>5. QED
    BY <2>1, <2>4 DEF Placed
<1>10. CASE /\ at[c].phase = "edit" /\ ~(Kind[at[c].row] = "role" /\ k = "insert")
            /\ Enter(c, IF k = "verify" /\ lacking THEN "fail" ELSE "complete", "begin")
            /\ answer' = answer
  <2>1. /\ pc'[c] = "begin" /\ at'[c].row = at[c].row /\ at'[c].kind = k
        /\ at'[c].found = at[c].found
        /\ \/ at'[c].phase = "fail" /\ k = "verify"
           \/ at'[c].phase = "complete"
    BY <1>10, WentOver DEF Phases
  <2>2. (MadeIn(saved', i, k) \/ CutIn(i, {"edit"})') /\ Open(i)' /\ ~Unlogged(k, at[c].row)
    BY <1>1, <1>3, <1>4, <1>5, <1>10 DEF Opens, Edits, Unlogged
  <2>3. k = "edit" => at[c].found \/ CutIn(i, {"edit"})'
    BY <1>1, <1>3, <1>5, <1>10 DEF Edits
  <2>4. k = "verify" => Refusable(i)'
    BY <2>2 DEF Refusable, CutIn
  <2>5. Opens(c, i)' /\ Edits(c, i)'
    BY <1>5, <1>10, <2>1, <2>2 DEF Opens, Early, Edits
  <2>6. Closes(c, i)'
    BY <2>1, <2>2, <2>3, <2>4 DEF Closes
  <2>7. QED
    BY <1>6, <1>10, <2>5, <2>6 DEF Placed, Stands
<1>11. CASE /\ at[c].phase = "complete" /\ k = "edit" /\ lacking /\ Enter(c, "edit", "undo")
            /\ answer' = answer
  <2>1. /\ pc'[c] = "undo" /\ at'[c].phase = "edit"
        /\ at'[c].row = at[c].row /\ at'[c].kind = k
    BY <1>11, WentOver DEF Phases
  <2>2. CutIn(i, {"edit"})'
    BY <1>3, <1>5, <1>11 DEF Closes
  <2>3. Refusable(i)'
    BY <2>2 DEF Refusable, CutIn
  <2>4. Stands(c, i)'
    BY <1>5, <1>11, <2>1, <2>3 DEF Stands, Opens, Early, Edits, Closes, Unlogged
  <2>5. QED
    BY <1>6, <1>11, <2>4 DEF Placed
<1>12. CASE at[c].phase = "complete" /\ Answer(c, "ok")
  <2>1. pc'[c] = "idle" /\ answer'[i] = "ok"
    BY <1>1, <1>12, Answered DEF At
  <2>2. Made(i)' \/ CutIn(i, {"edit"})'
    BY <1>3, <1>4, <1>5, <1>12 DEF Closes
  <2>3. db.ops[i] \in Closed \/ CutIn(i, {"complete", "fail"})'
    <3>1. db.ops[i] \in Closed \/ CutIn(i, {"complete"})
      BY <1>1, <1>5, <1>12 DEF Closes
    <3>2. CutIn(i, {"complete"}) => CutIn(i, {"complete", "fail"})
      BY DEF CutIn
    <3>3. QED
      BY <1>3, <3>1, <3>2
  <2>4. db.ops[i] = "Failed" => Refusable(i)'
    BY <1>3, <1>5 DEF Accounts
  <2>5. Accounts(i)'
    BY <1>1, <2>1, <2>2, <2>3, <2>4 DEF Accounts
  <2>6. QED
    BY <2>1, <2>5 DEF Placed
<1>13. CASE at[c].phase = "fail" /\ Answer(c, "failed")
  <2>1. pc'[c] = "idle" /\ answer'[i] = "failed"
    BY <1>1, <1>13, Answered DEF At
  <2>2. Refusable(i)'
    BY <1>3, <1>5, <1>13 DEF Closes
  <2>3. db.ops[i] \in Closed \/ CutIn(i, {"complete", "fail"})'
    <3>1. db.ops[i] \in Closed \/ CutIn(i, {"fail"})
      BY <1>1, <1>5, <1>13 DEF Closes
    <3>2. CutIn(i, {"fail"}) => CutIn(i, {"complete", "fail"})
      BY DEF CutIn
    <3>3. QED
      BY <1>3, <3>1, <3>2
  <2>4. db.ops[i] = "Completed" => Made(i)' \/ CutIn(i, {"edit"})'
    BY <1>3, <1>5 DEF Accounts
  <2>5. Accounts(i)'
    BY <1>1, <2>1, <2>2, <2>3, <2>4 DEF Accounts
  <2>6. QED
    BY <2>1, <2>5 DEF Placed
<1>14. QED
  BY <1>7, <1>8, <1>9, <1>10, <1>11, <1>12, <1>13 DEF CommitPhase

\* The handlers.
LEMMA PlacedByUndo ==
    ASSUME Typed, Accounted, NEW c \in Clients, Undo(c), NEW i \in Requests, At(c, i)
    PROVE  Placed(c, i)
<1>1. pc[c] = "undo" /\ Thread(c) /\ Busy(c)
  BY DEF Undo, Thread, Busy
<1>2. Kept(i)
  BY StepKeeps, <1>1 DEF Undo, Accounted
<1>3. /\ Refusable(i) => Refusable(i)'
      /\ \A phases : CutIn(i, phases) => CutIn(i, phases)'
  BY <1>2, Keeping
<1>4. answer[i] = "none" /\ Edits(c, i) /\ Closes(c, i) /\ Accounts(i)
      /\ ~Unlogged(at[c].kind, at[c].row)
  BY <1>1 DEF At, Stands, Opens
<1>5. answer' = answer => Accounts(i)'
  BY <1>2, <1>4, AccountKept
<1>6. CASE at[c].phase = "edit" /\ Enter(c, "fail", "begin") /\ answer' = answer
  <2>1. /\ pc'[c] = "begin" /\ at'[c].phase = "fail"
        /\ at'[c].row = at[c].row /\ at'[c].kind = at[c].kind
    BY <1>6, WentOver DEF Phases
  <2>2. Refusable(i)'
    BY <1>1, <1>3, <1>4, <1>6 DEF Edits
  <2>3. Stands(c, i)'
    BY <1>4, <1>6, <2>1, <2>2 DEF Stands, Opens, Early, Edits, Closes
  <2>4. QED
    BY <1>5, <1>6, <2>3 DEF Placed
<1>7. CASE /\ at[c].phase = "complete" /\ at[c].kind = "edit" /\ Enter(c, "edit", "undo")
           /\ answer' = answer
  <2>1. /\ pc'[c] = "undo" /\ at'[c].phase = "edit"
        /\ at'[c].row = at[c].row /\ at'[c].kind = at[c].kind
    BY <1>7, WentOver DEF Phases
  <2>2. CutIn(i, {"complete"})'
    BY <1>1, <1>3, <1>4, <1>7 DEF Closes
  <2>3. Refusable(i)'
    BY <2>2 DEF Refusable, CutIn
  <2>4. Stands(c, i)'
    BY <1>4, <1>7, <2>1, <2>3 DEF Stands, Opens, Early, Edits, Closes
  <2>5. QED
    BY <1>5, <1>7, <2>4 DEF Placed
<1>8. CASE Answer(c, "raised")
  <2>1. pc'[c] = "idle" /\ answer'[i] = "raised"
    BY <1>1, <1>8, Answered DEF At
  <2>2. {db'.ops[i], saved'.ops[i]} \subseteq {db.ops[i], saved.ops[i]} /\ (Made(i) => Made(i)')
    BY <1>2 DEF Kept, Carried
  <2>3. Accounts(i)'
    BY <1>3, <1>4, <2>1, <2>2 DEF Accounts
  <2>4. QED
    BY <2>1, <2>3 DEF Placed
<1>9. QED
  BY <1>6, <1>7, <1>8 DEF Undo

\* Whatever step the thread takes.
LEMMA ThreadPlaced ==
    ASSUME Typed, RowsPersist, Accounted, NEW c \in Clients, Thread(c)
    PROVE  /\ at[c].id \in Requests
           /\ \A i \in Requests : i = at[c].id => Placed(c, i)
<1>1. at[c].id \in Requests /\ At(c, at[c].id)
  BY ThreadMoves, AtWork
<1> SUFFICES ASSUME NEW i \in Requests, i = at[c].id PROVE Placed(c, i)
  BY <1>1
<1>2. At(c, i)
  BY <1>1
<1>3. Check(c) \/ Begin(c) \/ InsertOperation(c) \/ Transition(c) => Placed(c, i)
  BY <1>2, PlacedByCheck, PlacedByBegin, PlacedByInsertOperation, PlacedByTransition
<1>4. Read(c) \/ Write(c) \/ Confirm(c) \/ Insert(c) \/ Verify(c) => Placed(c, i)
  BY <1>2, PlacedByRead, PlacedByWrite, PlacedByConfirm, PlacedByInsert, PlacedByVerify
<1>5. CommitPhase(c) \/ Undo(c) => Placed(c, i)
  BY <1>2, PlacedByCommit, PlacedByUndo
<1>6. QED
  BY <1>3, <1>4, <1>5 DEF Thread

\* The step of a thread keeps the account of every request and the place of every thread,
LEMMA ThreadAccounted ==
    ASSUME Typed, RowsPersist, Accounted, NEW c \in Clients, Thread(c)
    PROVE  Accounted'
<1>1. PICK i \in Requests : i = at[c].id /\ Placed(c, i)
  BY ThreadPlaced
<1>2. /\ Busy(c) /\ issued' = issued /\ i \in 1 .. issued
      /\ \A d \in Clients \ {c} : pc'[d] = pc[d]
      /\ pc'[c] # "idle" => at'[c].id = i
  BY <1>1, ThreadMoves DEF Moves, Typed, OwnRequests
<1>3. \A d \in Clients : Busy(d)' => Stands(d, at[d].id)'
  <2>1. ASSUME NEW d \in Clients \ {c}, Busy(d)' PROVE Stands(d, at[d].id)'
    BY <1>2, <2>1, OthersStand DEF Accounted, Busy
  <2>2. Busy(c)' => Stands(c, at[c].id)'
    BY <1>1, <1>2 DEF Placed, Busy
  <2>3. QED
    BY <2>1, <2>2
<1>4. ASSUME NEW j \in Requests PROVE Accounts(j)' /\ (j > issued' => Fresh(j)')
  <2>1. CASE j = i
    BY <1>1, <1>2, <2>1 DEF Placed, Typed
  <2>2. CASE j # i
    <3>1. Kept(j)
      BY <1>1, <2>2, StepKeeps DEF Accounted
    <3>2. answer'[j] = answer[j]
      <4>1. UNCHANGED answer \/ \E what : Answer(c, what)
        BY DEF Thread, Check, Begin, InsertOperation, Transition, Read, Write, WriteRow,
               Confirm, Insert, Verify, CommitPhase, Undo
      <4>2. QED
        BY <1>1, <2>2, <4>1 DEF Answer, Typed
    <3>3. Accounts(j)'
      BY <3>1, <3>2, AccountKept DEF Accounted
    <3>4. Untouched(j) /\ Absent(j) => Untouched(j)' /\ Absent(j)'
      BY <3>1, Keeping DEF Kept, Carried
    <3>5. QED
      BY <1>2, <3>2, <3>3, <3>4 DEF Accounted, Fresh
  <2>3. QED
    BY <2>1, <2>2
<1>5. Grown'
  BY GrownStep DEF Accounted
<1>6. QED
  BY <1>3, <1>4, <1>5 DEF Accounted

\* and a new request has nothing to account for.
LEMMA RequestAccounted ==
    ASSUME Typed, Accounted, NEW c \in Clients, Request(c)
    PROVE  Accounted'
<1>1. PICK x \in Local : Accepted(c, x)
  BY RequestAccepted
<1>2. PICK step \in {"check", "begin", "body"} :
         /\ pc' = [pc EXCEPT ![c] = step]
         /\ x.phase = IF step = "body" THEN "edit" ELSE "create"
         /\ step = "body" <=> Unlogged(x.kind, x.row)
  BY <1>1 DEF Accepted
<1>3. \A d \in Clients : /\ pc'[d] = IF d = c THEN step ELSE pc[d]
                         /\ at'[d] = IF d = c THEN x ELSE at[d]
  BY <1>1, <1>2 DEF Accepted, Typed
<1>4. /\ UNCHANGED <<db, saved, cut, answer>>
      /\ issued' = issued + 1 /\ issued \in Nat /\ issued + 1 \in Requests
      /\ x.id = issued + 1
  BY <1>1, RequestsAssumption DEF Accepted, tables, Typed, Requests
<1>5. \A i : /\ Accounts(i)' <=> Accounts(i)
             /\ Fresh(i)' <=> Fresh(i)
             /\ Untouched(i)' <=> Untouched(i)
             /\ Absent(i)' <=> Absent(i)
             /\ Open(i)' <=> Open(i)
  BY <1>4 DEF Accounts, Fresh, Untouched, Absent, Open, Made, MadeIn, Refusable, CutIn
<1>6. \A i \in Requests : Accounts(i)' /\ (i > issued' => Fresh(i)')
  BY <1>4, <1>5 DEF Accounted, Requests
<1>7. ASSUME NEW d \in Clients \ {c}, Busy(d)' PROVE Stands(d, at[d].id)'
  BY <1>3, <1>4, <1>7
     DEF Accounted, Busy, Stands, Opens, Edits, Closes, Early, Untouched, Absent, Open,
         Made, MadeIn, Refusable, CutIn
<1>8. Stands(c, at[c].id)'
  <2>1. PICK i \in Requests : i = issued + 1 /\ at'[c].id = i
    BY <1>3, <1>4
  <2>2. Fresh(i) /\ answer'[i] = "none"
    BY <1>4, <2>1 DEF Accounted, Fresh
  <2>3. Untouched(i)' /\ Absent(i)' /\ Open(i)'
    BY <1>5, <2>2 DEF Fresh, Absent, Open, Closed
  <2>4. Stands(c, i)'
    <3>1. /\ pc'[c] = step /\ at'[c].phase = (IF step = "body" THEN "edit" ELSE "create")
          /\ step = "body" <=> Unlogged(at'[c].kind, at'[c].row)
          /\ step = "body" => at'[c].kind # "edit"
      BY <1>2, <1>3 DEF Unlogged
    <3>2. QED
      BY <2>2, <2>3, <3>1 DEF Stands, Opens, Edits, Closes
  <2>5. QED
    BY <2>1, <2>4
<1>9. QED
  BY <1>3, <1>4, <1>6, <1>7, <1>8 DEF Accounted, Grown

\* What the client is told of a request and what its ConfigEdit row says of it are what
\* has come of its change, unless another thread has cut into the transaction in
\* question or has kept it from beginning.
THEOREM RequestsAreAnsweredTruly == Spec => []AnswersAreTrue
<1> DEFINE Inv == RowsPersist /\ LoggedChanges /\ Accounted
<1>1. Init => Inv
  BY DEF Init, RowsPersist, LoggedChanges, Busy, Accounted, Accounts, Fresh, Untouched,
         Absent, Grown, Closed
<1>2. Typed /\ Inv /\ [Next]_vars => Inv'
  <2> SUFFICES ASSUME Typed, Inv, [Next]_vars PROVE Inv'
    OBVIOUS
  <2>1. ASSUME NEW c \in Clients, Request(c) PROVE Inv'
    BY <2>1, RequestLogged, RequestAccounted
  <2>2. ASSUME NEW c \in Clients, Thread(c) PROVE Inv'
    BY <2>2, ThreadLogged, ThreadAccounted
  <2>3. CASE UNCHANGED vars
    <3>1. RowsPersist' /\ LoggedChanges'
      BY <2>3 DEF vars, tables, RowsPersist, LoggedChanges, Logged, LoggedIn, Busy
    <3>2. Accounted'
      BY <2>3 DEF vars, tables, Accounted, Busy, Accounts, Fresh, Untouched, Absent, Open, Grown,
                  Stands, Opens, Edits, Closes, Early, Made, MadeIn, Refusable, CutIn
    <3>3. QED
      BY <3>1, <3>2
  <2>4. QED
    BY <2>1, <2>2, <2>3 DEF Next
<1>3. Inv => AnswersAreTrue
  <2> SUFFICES ASSUME Accounted, NEW i \in Requests
               PROVE  /\ answer[i] = "ok" \/ saved.ops[i] = "Completed" =>
                            Made(i) \/ "edit" \in cut[i]
                      /\ answer[i] = "failed" \/ saved.ops[i] = "Failed" =>
                            ~Made(i) \/ Verified(i) \/ cut[i] \cap {"edit", "complete"} # {}
                      /\ answer[i] \in {"ok", "failed"} =>
                            \/ saved.ops[i] \in {"absent", "Completed", "Failed"}
                            \/ cut[i] \cap {"complete", "fail"} # {}
    BY DEF AnswersAreTrue
  <2>1. Accounts(i)
    BY DEF Accounted
  <2>2. Refusable(i) => ~Made(i) \/ Verified(i) \/ cut[i] \cap {"edit", "complete"} # {}
    BY DEF Accounted, Grown, Refusable, Untouched, Made, MadeIn, Verified, CutIn
  <2>3. QED
    BY <2>1, <2>2 DEF Accounts, Closed, CutIn
<1>4. QED
  BY <1>1, <1>2, <1>3, TypedAlways, PTL DEF Spec
=============================================================================
