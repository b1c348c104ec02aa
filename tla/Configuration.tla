---------------------------- MODULE Configuration ----------------------------
(***************************************************************************)
(* Edits of the configuration: templates, Java runtimes, roles, and the    *)
(* settings of the manager and of worlds.  Each request has a thread; all  *)
(* threads execute their statements on the one writer connection of the    *)
(* store, with no lock around a transaction.                               *)
(*                                                                         *)
(* One step is one statement with the looks it rests on.  A BEGIN          *)
(* IMMEDIATE raises inside an open transaction, whosesoever it is; any     *)
(* other statement that writes joins it, or opens one and leaves it open   *)
(* when it raises; a commit or a rollback ends it for all threads.         *)
(*                                                                         *)
(* A request runs through phases: the ConfigEdit row is created and set    *)
(* Running, the change is made, and the row is Completed or Failed.        *)
(***************************************************************************)
EXTENDS Naturals, FiniteSets

CONSTANTS Clients,     \* HTTP request threads
          Rows,        \* rows of the configuration, existing and yet to be drawn
          Kind,        \* the table of each row
          FirstRows,   \* the name of each row that exists at first
          Names,       \* names: they stand for all a row of the first three tables holds
          None,
          MaxRequests  \* bound on requests

\* The tables whose rows have names, and all.
NamedKinds == {"template", "runtime", "role"}
Kinds == NamedKinds \cup {"global", "world"}

ASSUME RowsAssumption ==
    /\ Kind \in [Rows -> Kinds]
    /\ DOMAIN FirstRows \subseteq Rows /\ FirstRows \in [DOMAIN FirstRows -> Names \cup {None}]
    /\ \A q, r \in DOMAIN FirstRows :
          q # r /\ Kind[q] = Kind[r] /\ Kind[r] \in NamedKinds => FirstRows[q] # FirstRows[r]

ASSUME RequestsAssumption == MaxRequests \in Nat

ASSUME NoneAssumption == None \notin Rows \cup Names \cup {"live", "deprecated", "deleted"}

Requests == 1 .. MaxRequests

VARIABLES
    db,      \* the tables as the writer sees them
    saved,   \* the tables as last committed
    txn,     \* whether a transaction is open on the writer
    issued,  \* requests so far
    pc,      \* what each thread does next, within its phase
    at,      \* its local variables
    cut,     \* history: the phases of each request that others cut into or kept it from
    answer   \* history: what came of each request

tables == <<db, saved, txn>>
vars == <<tables, issued, pc, at, cut, answer>>

Phases == {"create", "run", "edit", "complete", "fail"}

NoRow == [exists |-> FALSE, name |-> None, status |-> "live", version |-> 0]

Given(name) == [exists |-> TRUE, name |-> name, status |-> "live", version |-> 1]

NoRequest == [id |-> 0, kind |-> "edit", row |-> None, name |-> None, status |-> None,
              expected |-> 0, found |-> TRUE, phase |-> "create"]

\* db.changes is no table but the changes the statements so far have made.
Init ==
    /\ db = [rows |-> [r \in Rows |-> IF r \in DOMAIN FirstRows THEN Given(FirstRows[r])
                                                                 ELSE NoRow],
             ops |-> [i \in Requests |-> "absent"],
             changes |-> {}]
    /\ saved = db
    /\ txn = FALSE
    /\ issued = 0
    /\ pc = [c \in Clients |-> "idle"]
    /\ at = [c \in Clients |-> NoRequest]
    /\ cut = [i \in Requests |-> {}]
    /\ answer = [i \in Requests |-> "none"]

-----------------------------------------------------------------------------
(* The writer connection.                                                  *)

Statement(new) == db' = new /\ txn' = TRUE /\ UNCHANGED saved

Commit == saved' = db /\ txn' = FALSE /\ UNCHANGED db

Rollback == db' = saved /\ txn' = FALSE /\ UNCHANGED saved

\* c has written, or has begun a transaction, that it is yet to commit.
Within(c) ==
    \/ pc[c] \in {"read", "confirm", "commit"}
    \/ pc[c] = "body" /\ ~(at[c].phase = "edit" /\ at[c].kind # "edit")

\* What c does to the writer cuts into the transactions other threads are in.
Cuts(c) ==
    cut' = [i \in Requests |->
               cut[i] \cup {at[d].phase : d \in {e \in Clients \ {c} : Within(e) /\ at[e].id = i}}]

-----------------------------------------------------------------------------
(* Threads.                                                                *)

Goto(c, step) == pc' = [pc EXCEPT ![c] = step] /\ UNCHANGED at

Enter(c, phase, step) ==
    /\ pc' = [pc EXCEPT ![c] = step]
    /\ at' = [at EXCEPT ![c].phase = phase]

Answer(c, what) ==
    /\ pc' = [pc EXCEPT ![c] = "idle"]
    /\ at' = [at EXCEPT ![c] = NoRequest]
    /\ answer' = [answer EXCEPT ![at[c].id] = what]

Accept(c, kind, r, name, status, expected, step) ==
    /\ pc[c] = "idle" /\ issued < MaxRequests
    /\ issued' = issued + 1
    /\ pc' = [pc EXCEPT ![c] = step]
    /\ at' = [at EXCEPT ![c] =
                  [id |-> issued + 1, kind |-> kind, row |-> r, name |-> name, status |-> status,
                   expected |-> expected, found |-> TRUE,
                   phase |-> IF step = "body" THEN "edit" ELSE "create"]]
    /\ UNCHANGED <<tables, cut, answer>>

\* The routes look at committed rows; a deleted role is gone.
Visible(r) == saved.rows[r].exists /\ saved.rows[r].status # "deleted"

\* An edit is made with the version the client has read before.
Update(c, r, name) == Accept(c, "edit", r, name, None, saved.rows[r].version, "check")

UpdateTemplate(c, r, name) == Kind[r] = "template" /\ Visible(r) /\ Update(c, r, name)

UpdateJavaRuntime(c, r, name) == Kind[r] = "runtime" /\ Visible(r) /\ Update(c, r, name)

UpdateRole(c, r, name) == Kind[r] = "role" /\ Visible(r) /\ Update(c, r, name)

\* Settings have no name.
UpdateGlobalSettings(c, r) == Kind[r] = "global" /\ Visible(r) /\ Update(c, r, None)

\* A world has no settings of its own until they are edited; their version is 0 then.
UpdateWorldSettings(c, r) == Kind[r] = "world" /\ Update(c, r, None)

\* The routes that retire a row read its version themselves.
Retire(c, r, status) ==
    Visible(r) /\ Accept(c, "edit", r, None, status, saved.rows[r].version, "check")

DeprecateTemplate(c, r) == Kind[r] = "template" /\ Retire(c, r, "deprecated")

DeprecateJavaRuntime(c, r) == Kind[r] = "runtime" /\ Retire(c, r, "deprecated")

DeleteRole(c, r) == Kind[r] = "role" /\ Retire(c, r, "deleted")

\* A new row has an identifier that no other request has drawn.
Create(c, r, name, step) ==
    /\ ~db.rows[r].exists
    /\ \A d \in Clients : at[d].row # r
    /\ Accept(c, "insert", r, name, "live", 0, step)

CreateTemplate(c, r, name) == Kind[r] = "template" /\ Create(c, r, name, "begin")

RegisterJavaRuntime(c, r, name) == Kind[r] = "runtime" /\ Create(c, r, name, "begin")

\* A new role gets no ConfigEdit row.
CreateRole(c, r, name) == Kind[r] = "role" /\ Create(c, r, name, "body")

VerifyJavaRuntime(c, r) ==
    /\ Kind[r] = "runtime" /\ Visible(r)
    /\ Accept(c, "verify", r, None, "live", saved.rows[r].version, "begin")

\* The first look of update_versioned_with_operation is at what the writer sees.
Check(c) ==
    /\ pc[c] = "check"
    /\ IF db.rows[at[c].row].version = at[c].expected
       THEN Goto(c, "begin") /\ UNCHANGED answer
       ELSE Answer(c, "failed")
    /\ UNCHANGED <<tables, issued, cut>>

-----------------------------------------------------------------------------
(* Transactions of the operation engine: create and transition.            *)

\* The phases that begin a transaction of their own.
Begin(c) ==
    /\ pc[c] = "begin"
    /\ IF txn THEN Goto(c, "undo") /\ cut' = [cut EXCEPT ![at[c].id] = @ \cup {at[c].phase}]
              ELSE Goto(c, IF at[c].phase = "edit" THEN "read" ELSE "body") /\ UNCHANGED cut
    /\ txn' = TRUE
    /\ UNCHANGED <<db, saved, issued, answer>>

\* Mutated form: a request that was refused is closed as one that was carried out.
GoalOfAll == [run |-> "Running", complete |-> "Completed", fail |-> "Completed"]

\* The status each phase gives the row.
Goal == [run |-> "Running", complete |-> "Completed", fail |-> "Failed"]

InsertOperation(c) ==
    /\ pc[c] = "body" /\ at[c].phase = "create"
    /\ Statement([db EXCEPT !.ops[at[c].id] = "Queued"])
    /\ Goto(c, "commit")
    /\ Cuts(c)
    /\ UNCHANGED <<issued, answer>>

\* Mutated form: whether the row is there is not looked at.
TransitionableUnseen(status) == status \notin {"Completed", "Failed"}

Transitionable(status) == status \notin {"absent", "Completed", "Failed"}

\* The UPDATE touches no row when there is none.
SetStatus(i, status) == IF db.ops[i] = "absent" THEN db ELSE [db EXCEPT !.ops[i] = status]

Transition(c) ==
    /\ pc[c] = "body" /\ at[c].phase \in {"run", "complete", "fail"}
    /\ IF Transitionable(db.ops[at[c].id])
       THEN /\ Statement(SetStatus(at[c].id, Goal[at[c].phase]))
            /\ Goto(c, "commit") /\ Cuts(c)
       ELSE Goto(c, "undo") /\ UNCHANGED <<tables, cut>>
    /\ UNCHANGED <<issued, answer>>

-----------------------------------------------------------------------------
(* The change itself.                                                      *)

\* The unique indexes over the live rows of a table.
NameFree(r, name) ==
    Kind[r] \in NamedKinds =>
        \A q \in Rows \ {r} : ~(/\ Kind[q] = Kind[r] /\ db.rows[q].exists
                                /\ db.rows[q].status # "deleted" /\ db.rows[q].name = name)

\* Mutated form: without the unique indexes.
InsertableAnyName(r, row) == ~db.rows[r].exists

Insertable(r, row) == ~db.rows[r].exists /\ NameFree(r, row.name)

Updatable(r, row) == row.status = "deleted" \/ NameFree(r, row.name)

\* What a statement of c makes of its row.
Changed(c, row) ==
    [db EXCEPT !.rows[at[c].row] = row,
               !.changes = @ \cup {[id |-> at[c].id, kind |-> at[c].kind, row |-> at[c].row,
                                    from |-> db.rows[at[c].row].version,
                                    expected |-> at[c].expected]}]

\* A statement that writes the row or raises, or that finds no row to update.
WriteRow(c, row, valid, next, raised) ==
    /\ Statement(IF valid THEN Changed(c, row) ELSE db)
    /\ Goto(c, IF valid THEN next ELSE raised)
    /\ Cuts(c)
    /\ UNCHANGED <<issued, answer>>

Editing(c, kind) == pc[c] = "body" /\ at[c].phase = "edit" /\ at[c].kind = kind

\* Mutated form: the version was compared before the ConfigEdit row was created.
StillCurrentUnread(c) == TRUE

\* The second look, inside the transaction: a row that is there is compared, one that
\* is not is created by an edit that was to create it.
StillCurrent(c) == db.rows[at[c].row].version = at[c].expected

Read(c) ==
    /\ pc[c] = "read"
    /\ at' = [at EXCEPT ![c].found = db.rows[at[c].row].exists]
    /\ pc' = [pc EXCEPT ![c] = IF StillCurrent(c) THEN "body" ELSE "undo"]
    /\ UNCHANGED <<tables, issued, cut, answer>>

\* The columns an edit gives; its UPDATE compares no version.
Updated(c) ==
    LET row == db.rows[at[c].row] IN
    [row EXCEPT !.name = IF at[c].name = None THEN @ ELSE at[c].name,
                !.status = IF at[c].status = None THEN @ ELSE at[c].status,
                !.version = @ + 1]

Write(c) ==
    LET r == at[c].row IN
    /\ Editing(c, "edit")
    /\ \/ ~at[c].found
          /\ WriteRow(c, Given(at[c].name), Insertable(r, Given(at[c].name)), "confirm", "undo")
       \/ at[c].found /\ db.rows[r].exists
          /\ WriteRow(c, Updated(c), Updatable(r, Updated(c)), "confirm", "undo")
       \/ at[c].found /\ ~db.rows[r].exists
          /\ WriteRow(c, NoRow, FALSE, "confirm", "confirm")

\* The row the request is to return is read again.
Confirm(c) ==
    /\ pc[c] = "confirm"
    /\ at' = [at EXCEPT ![c].found = db.rows[at[c].row].exists]
    /\ pc' = [pc EXCEPT ![c] = "commit"]
    /\ UNCHANGED <<tables, issued, cut, answer>>

\* An INSERT without a BEGIN; whatever it opened stays open when it raises.
Insert(c) ==
    LET new == Given(at[c].name)
        valid == Insertable(at[c].row, new)
    IN
    /\ Editing(c, "insert")
    /\ Statement(IF valid THEN Changed(c, new) ELSE db)
    /\ IF valid THEN Goto(c, "commit") /\ UNCHANGED answer
       ELSE IF Kind[at[c].row] = "role" THEN Answer(c, "failed")
       ELSE Enter(c, "fail", "begin") /\ UNCHANGED answer
    /\ Cuts(c)
    /\ UNCHANGED issued

\* Whether Java is there was found out before; what the row holds now is not looked at.
Verify(c) ==
    /\ Editing(c, "verify")
    /\ \E detected \in BOOLEAN : at' = [at EXCEPT ![c].found = detected]
    /\ Statement(Changed(c, [db.rows[at[c].row] EXCEPT !.status = "live", !.version = @ + 1]))
    /\ pc' = [pc EXCEPT ![c] = "commit"]
    /\ Cuts(c)
    /\ UNCHANGED <<issued, answer>>

-----------------------------------------------------------------------------
(* The end of a transaction, and what a thread does next.                  *)

\* An edit whose row had gone when it was read again has nothing to return.
CommitPhase(c) ==
    LET phase == at[c].phase
        lacking == at[c].kind # "insert" /\ ~at[c].found
    IN
    /\ pc[c] = "commit"
    /\ Commit
    /\ \/ phase = "create" /\ Enter(c, "run", "begin") /\ UNCHANGED answer
       \/ /\ phase = "run"
          /\ Enter(c, "edit", IF at[c].kind = "edit" THEN "begin" ELSE "body")
          /\ UNCHANGED answer
       \/ phase = "edit" /\ Kind[at[c].row] = "role" /\ at[c].kind = "insert" /\ Answer(c, "ok")
       \/ /\ phase = "edit" /\ ~(Kind[at[c].row] = "role" /\ at[c].kind = "insert")
          /\ Enter(c, IF at[c].kind = "verify" /\ lacking THEN "fail" ELSE "complete", "begin")
          /\ UNCHANGED answer
       \/ /\ phase = "complete"
          /\ IF at[c].kind = "edit" /\ lacking THEN Enter(c, "edit", "undo") /\ UNCHANGED answer
                                               ELSE Answer(c, "ok")
       \/ phase = "fail" /\ Answer(c, "failed")
    /\ Cuts(c)
    /\ UNCHANGED issued

\* The handlers: a transaction of the engine is rolled back and the exception passed
\* on; that of update_versioned_with_operation rolls back once more, and the row fails.
Undo(c) ==
    /\ pc[c] = "undo"
    /\ Rollback
    /\ \/ at[c].phase = "edit" /\ Enter(c, "fail", "begin") /\ UNCHANGED answer
       \/ /\ at[c].phase = "complete" /\ at[c].kind = "edit"
          /\ Enter(c, "edit", "undo") /\ UNCHANGED answer
       \/ /\ at[c].phase \in {"create", "run", "fail"}
             \/ (at[c].phase = "complete" /\ at[c].kind # "edit")
          /\ Answer(c, "raised")
    /\ Cuts(c)
    /\ UNCHANGED issued

Request(c) ==
    \E r \in Rows :
        \/ DeprecateTemplate(c, r) \/ DeprecateJavaRuntime(c, r) \/ DeleteRole(c, r)
        \/ VerifyJavaRuntime(c, r)
        \/ UpdateGlobalSettings(c, r) \/ UpdateWorldSettings(c, r)
        \/ \E name \in Names :
              \/ UpdateTemplate(c, r, name) \/ UpdateJavaRuntime(c, r, name)
              \/ UpdateRole(c, r, name)
              \/ CreateTemplate(c, r, name) \/ RegisterJavaRuntime(c, r, name)
              \/ CreateRole(c, r, name)

Thread(c) ==
    \/ Check(c) \/ Begin(c) \/ InsertOperation(c) \/ Transition(c)
    \/ Read(c) \/ Write(c) \/ Confirm(c) \/ Insert(c) \/ Verify(c)
    \/ CommitPhase(c) \/ Undo(c)

Next == \E c \in Clients : Request(c) \/ Thread(c)

Spec == Init /\ [][Next]_vars

-----------------------------------------------------------------------------
(* Properties.                                                             *)

Statuses == {"absent", "Queued", "Running", "Completed", "Failed"}

Row == [exists : BOOLEAN, name : Names \cup {None},
        status : {"live", "deprecated", "deleted"}, version : Nat]

Change == [id : Requests, kind : {"edit", "insert", "verify"}, row : Rows, from : Nat,
           expected : Nat]

Tables == [rows : [Rows -> Row], ops : [Requests -> Statuses], changes : SUBSET Change]

Local == [id : 0 .. MaxRequests, kind : {"edit", "insert", "verify"}, row : Rows \cup {None},
          name : Names \cup {None}, status : {"live", "deprecated", "deleted", None},
          expected : Nat, found : BOOLEAN, phase : Phases]

\* Type invariant, with the unique indexes.  Nothing is uncommitted when no transaction is open.
TypeOK ==
    /\ db \in Tables /\ saved \in Tables /\ txn \in BOOLEAN
    /\ ~txn => db = saved
    /\ \A r \in Rows : db.rows[r].exists /\ db.rows[r].status # "deleted"
                       => NameFree(r, db.rows[r].name)
    /\ issued \in 0 .. MaxRequests
    /\ pc \in [Clients -> {"idle", "check", "begin", "read", "body", "confirm", "commit", "undo"}]
    /\ at \in [Clients -> Local]
    /\ cut \in [Requests -> SUBSET Phases]
    /\ answer \in [Requests -> {"none", "ok", "failed", "raised"}]

\* docs/ARCHITECTURE.md:98: an edit writes upon the version that was submitted or not at
\* all, never last save wins (the UPDATE of update_versioned_with_operation).
NeverLastSaveWins == \A e \in saved.changes : e.kind = "edit" => e.from = e.expected

\* An edit that meets another version than it was made for has shared its transaction
\* with another thread, whose statement, commit or rollback came between the look and
\* the UPDATE; two edits that only follow each other, at whatever distance, do not
\* overwrite one another (update_versioned_with_operation looks twice).
EditsMeetTheirVersion ==
    \A e \in db.changes : e.kind = "edit" => e.from = e.expected \/ "edit" \in cut[e.id]

\* Every stored change has a ConfigEdit row, whatever of the row's own transactions
\* others undo: a row that has gone cannot be set Running.  Only creating a role has
\* none (create_role).
ChangesAreLogged ==
    \A e \in saved.changes :
        saved.ops[e.id] # "absent" \/ (Kind[e.row] = "role" /\ e.kind = "insert")

Made(i) == \E e \in saved.changes : e.id = i

Verified(i) == \E e \in saved.changes : e.id = i /\ e.kind = "verify"

\* A request reported as done has its change stored, one that is reported as failed, or
\* whose row says so, has not, and its row is closed, unless another thread cut into the
\* transaction in question or kept it from beginning.
AnswersAreTrue ==
    \A i \in Requests :
        /\ answer[i] = "ok" \/ saved.ops[i] = "Completed" => Made(i) \/ "edit" \in cut[i]
        /\ answer[i] = "failed" \/ saved.ops[i] = "Failed" =>
              ~Made(i) \/ Verified(i) \/ cut[i] \cap {"edit", "complete"} # {}
        /\ answer[i] \in {"ok", "failed"} =>
              \/ saved.ops[i] \in {"absent", "Completed", "Failed"}
              \/ cut[i] \cap {"complete", "fail"} # {}

=============================================================================
