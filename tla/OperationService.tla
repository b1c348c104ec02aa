--------------------------- MODULE OperationService ---------------------------
(***************************************************************************)
(* The operation engine of app/services/operations.py.                     *)
(*                                                                         *)
(* Every state-changing request of the manager becomes a durable row of    *)
(* the "operations" table.  The in-flight rows of a world are its derived  *)
(* lock: create_with_replay reads them and admits, replays or refuses the  *)
(* request in the same transaction; claim_queued hands a queued row to one *)
(* dispatcher; transition runs and terminalizes a row, writing its audit   *)
(* record in the same transaction.                                         *)
(*                                                                         *)
(* One action stands for one SQL transaction.  Requests that are replayed  *)
(* or refused write nothing, so they are stuttering steps.                 *)
(***************************************************************************)
EXTENDS Naturals, FiniteSets

CONSTANTS Worlds,     \* world ids
          Keys,       \* idempotency keys chosen by the clients
          Subjects,   \* artifact ids of Sync rows and scopes of Cleanup rows
          None,       \* SQL NULL
          Requests,   \* what the callers of create_with_replay pass in
          MaxOps      \* bound on the number of rows

Types == {"CreateWorld", "Start", "Stop", "Kill", "Backup", "Restore",
          "Cleanup", "Sync", "ConfigEdit", "CrashDetected", "DeleteWorld"}

InFlight == {"Created", "Queued", "Validating", "Running"}
Terminal == {"Completed", "Failed", "Cancelled", "TimedOut"}

\* The statuses that keep another row of the world from being claimed.
Busy == InFlight \ {"Queued"}

RuntimeTypes == {"Start", "Stop", "Kill"}

OpId == 1 .. MaxOps

\* "initial" is initial_status, "bypass" is allow_world_conflict.
Request == [type : Types, world : Worlds \cup {None}, key : Keys \cup {None},
            subject : Subjects \cup {None}, initial : {"Queued", "Running"},
            bypass : BOOLEAN]

Row == [type : Types, world : Worlds \cup {None}, key : Keys \cup {None},
        subject : Subjects \cup {None}, bypass : BOOLEAN,
        status : InFlight \cup Terminal \cup {"Absent"}]

ASSUME ConstantsAssumption ==
    /\ MaxOps \in Nat \ {0}
    /\ Requests \subseteq Request
    /\ None \notin Worlds \cup Keys \cup Subjects

\* The callers that pass allow_world_conflict are the restart and the rollback
\* of a restore, crash records, configuration edits, deletions and syncs.
ASSUME BypassAssumption == \A r \in Requests : r.bypass => r.type # "Cleanup"

VARIABLES ops,     \* the operations table: row ids are in order of creation
          issued,  \* how many rows exist
          audits,  \* how many terminal audit records each row has
          claims   \* how many dispatchers claim_queued has handed each row to

vars == <<ops, issued, audits, claims>>

NoRow == [type |-> "Start", world |-> None, key |-> None, subject |-> None,
          bypass |-> FALSE, status |-> "Absent"]

Init ==
    /\ ops = [i \in OpId |-> NoRow]
    /\ issued = 0
    /\ audits = [i \in OpId |-> 0]
    /\ claims = [i \in OpId |-> 0]

-----------------------------------------------------------------------------
(* The derived world lock and the admission policy.                        *)

InFlightOps == {i \in OpId : ops[i].status \in InFlight}

\* The in-flight rows of a world: the derived lock.
Active(w) == {i \in InFlightOps : ops[i].world = w /\ w # None}

TypesOf(S) == {ops[i].type : i \in S}

\* A cleanup names its scope or defaults to its world's.
CleanupScope(x) == IF x.subject # None THEN x.subject ELSE x.world

\* Is a cleanup of the same scope, or a sync of the same artifact, in flight?
SameCleanup(r, S) ==
    /\ r.type = "Cleanup" /\ CleanupScope(r) # None
    /\ \E i \in S : ops[i].type = "Cleanup" /\ CleanupScope(ops[i]) = CleanupScope(r)

SameSync(r) ==
    /\ r.type = "Sync" /\ r.subject # None
    /\ \E i \in InFlightOps : ops[i].type = "Sync" /\ ops[i].subject = r.subject

\* A row that already carries the request's idempotency key, in any status.
Replayed(r) ==
    {i \in OpId : /\ r.key # None
                  /\ ops[i].status # "Absent"
                  /\ ops[i].type = r.type
                  /\ ops[i].key = r.key}

\* The requests the world policy does not apply to.
Exempt(r) == r.world = None \/ r.bypass \/ r.type = "Sync"

\* A second Start or Stop is answered with the one in flight.
Repeated(r) ==
    {i \in Active(r.world) : ~Exempt(r) /\ ops[i].type = r.type
                                        /\ r.type \in {"Start", "Stop"}}

\* Mutated form: a restore also cancels a deletion that is being carried out.
SupersededAnyDelete(r) ==
    CASE ~Exempt(r) /\ r.type = "Kill" /\ TypesOf(Active(r.world)) = {"Stop"}
                                                      -> Active(r.world)
      [] ~Exempt(r) /\ r.type = "Restore"             ->
            {i \in Active(r.world) : ops[i].type = "DeleteWorld"}
      [] OTHER                                        -> {}

\* The rows a request cancels to make room for itself.
Superseded(r) ==
    CASE ~Exempt(r) /\ r.type = "Kill" /\ TypesOf(Active(r.world)) = {"Stop"}
                                                      -> Active(r.world)
      [] ~Exempt(r) /\ r.type = "Restore"             ->
            {i \in Active(r.world) : /\ ops[i].type = "DeleteWorld"
                                     /\ ops[i].status = "Queued"}
      [] OTHER                                        -> {}

Remaining(r) == Active(r.world) \ Superseded(r)

\* Mutated form: the list of cancelled rows is lost in the Restore branch.
TerminalAuditsOfKill(r) == IF r.type = "Kill" THEN Superseded(r) ELSE {}

\* The rows whose terminal audit record the request's transaction writes.
TerminalAudits(r) == Superseded(r)

\* Mutated form: a backup does not wait for a cleanup of the world's backups.
ToleratesCleanup(t) ==
    CASE t \in RuntimeTypes -> {"Backup", "Cleanup"}
      [] t = "Backup"       -> RuntimeTypes \cup {"Backup", "Cleanup"}
      [] t = "Cleanup"      -> RuntimeTypes \cup {"Cleanup"}
      [] t = "Restore"      -> {"Restore"}
      [] OTHER              -> {}

\* The in-flight types each type is admitted alongside.
Tolerates(t) ==
    CASE t \in RuntimeTypes -> {"Backup", "Cleanup"}
      [] t = "Backup"       -> RuntimeTypes \cup {"Backup"}
      [] t = "Cleanup"      -> RuntimeTypes \cup {"Cleanup"}
      [] t = "Restore"      -> {"Restore"}
      [] OTHER              -> {}

Admissible(r) ==
    \/ Exempt(r)
    \/ TypesOf(Remaining(r)) \subseteq Tolerates(r.type)
    \/ SameCleanup(r, Remaining(r))

\* Single flight: the row waits behind work of its own kind, a Stop behind a
\* Backup; otherwise it takes the status the caller asked for.
Waits(r) ==
    \/ SameSync(r)
    \/ SameCleanup(r, InFlightOps)
    \/ /\ ~Exempt(r)
       /\ \/ r.type \in {"Backup", "Stop"} /\ "Backup" \in TypesOf(Remaining(r))
          \/ r.type = "Restore" /\ "Restore" \in TypesOf(Remaining(r))

-----------------------------------------------------------------------------
(* Transactions.                                                           *)

\* The row create_with_replay inserts.
NewRow(r) == [type |-> r.type, world |-> r.world, key |-> r.key,
              subject |-> r.subject, bypass |-> r.bypass,
              status |-> IF Waits(r) THEN "Queued" ELSE r.initial]

\* create_with_replay, when it inserts a row.  Cancelling a superseded row and
\* auditing it belong to the same transaction.
Create(r) ==
    /\ issued < MaxOps
    /\ Replayed(r) = {}
    /\ Repeated(r) = {}
    /\ Admissible(r)
    /\ issued' = issued + 1
    /\ ops' = [j \in OpId |->
          IF j = issued + 1 THEN NewRow(r)
          ELSE IF j \in Superseded(r) THEN [ops[j] EXCEPT !.status = "Cancelled"]
          ELSE ops[j]]
    /\ audits' = [j \in OpId |-> IF j \in TerminalAudits(r) THEN audits[j] + 1
                                                            ELSE audits[j]]
    /\ UNCHANGED claims

\* Mutated form: any queued row may be claimed.
ClaimableWhenQueued(i) == ops[i].status = "Queued"

\* claim_queued: one dispatcher gets the row, and only while no other row of
\* its world is under way.
Claimable(i) ==
    /\ ops[i].status = "Queued"
    /\ ~\E j \in OpId \ {i} : /\ ops[i].world # None
                              /\ ops[j].world = ops[i].world
                              /\ ops[j].status \in Busy

Claim(i) ==
    /\ Claimable(i)
    /\ ops' = [ops EXCEPT ![i].status = "Running"]
    /\ claims' = [claims EXCEPT ![i] = @ + 1]
    /\ UNCHANGED <<issued, audits>>

\* The row exists and is not terminal.
Transitionable(i) == ops[i].status \in InFlight

\* Mutated form: every intermediate status is written to the row.
PersistedAll == (InFlight \cup Terminal) \ {"Queued"}

\* The statuses transition writes to the row; for the others it only keeps the
\* checkpoint in memory and leaves the row as it is.
Persisted == Terminal \cup {"Running"}

\* transition to a persisted status, with the audit record of a terminal one.
Transition(i, st) ==
    /\ Transitionable(i)
    /\ ops' = [ops EXCEPT ![i].status = st]
    /\ audits' = IF st \in Terminal THEN [audits EXCEPT ![i] = @ + 1] ELSE audits
    /\ UNCHANGED <<issued, claims>>

Next ==
    \/ \E r \in Requests : Create(r)
    \/ \E i \in OpId : Claim(i)
    \/ \E i \in OpId, st \in Persisted : Transition(i, st)

Spec == Init /\ [][Next]_vars

-----------------------------------------------------------------------------
(* Properties.                                                             *)

\* Type invariant of the operations table: the rows are numbered without gaps
\* and only Queued, Running and the terminal statuses are ever stored.
TypeOK ==
    /\ ops \in [OpId -> Row]
    /\ issued \in 0 .. MaxOps
    /\ \A i \in OpId : ops[i].status = "Absent" <=> i > issued
    /\ \A i \in OpId : ops[i].status \notin {"Created", "Validating"}
    /\ audits \in [OpId -> Nat]
    /\ claims \in [OpId -> Nat]

\* A retried request never creates a second row: (op_type, idempotency_key)
\* identifies one row, whatever became of it (create_with_replay's lookup).
KeysUnique ==
    \A i, j \in OpId :
        /\ ops[i].status # "Absent" /\ ops[j].status # "Absent"
        /\ ops[i].key # None
        /\ ops[i].key = ops[j].key /\ ops[i].type = ops[j].type
        => i = j

\* Two rows of a world, both in flight and both subject to the policy.
Contending(i, j) ==
    /\ i # j
    /\ ops[i].status \in InFlight /\ ops[j].status \in InFlight
    /\ ~ops[i].bypass /\ ~ops[j].bypass
    /\ ops[i].world = ops[j].world /\ ops[i].world # None
    /\ ops[i].type # "Sync" /\ ops[j].type # "Sync"

\* Document 9 section 3.1: among the rows the policy admitted, a world never has
\* two of Start/Stop/Kill in flight, a Backup beside a Cleanup, or a Restore
\* beside anything but another Restore.
MutualExclusionMatrix ==
    \A i, j \in OpId : Contending(i, j) =>
        /\ ~(ops[i].type \in RuntimeTypes /\ ops[j].type \in RuntimeTypes)
        /\ ~(ops[i].type = "Backup" /\ ops[j].type = "Cleanup")
        /\ ops[i].type = "Restore" => ops[j].type = "Restore"

\* A row is handed to at most one dispatcher, and two dispatchers never work on
\* rows of the same world at once (claim_queued).
ClaimExclusion ==
    /\ \A i \in OpId : claims[i] <= 1
    /\ \A i, j \in OpId :
          /\ claims[i] > 0 /\ claims[j] > 0
          /\ ops[i].status \in InFlight /\ ops[j].status \in InFlight
          /\ ops[i].world = ops[j].world /\ ops[i].world # None
          => i = j

\* However often a request is retried and whoever polls the queue, it is one row,
\* and at most one dispatcher carries it out, alone on its world.
RequestsRunOnce == KeysUnique /\ ClaimExclusion

\* Every row that reached a terminal status has exactly one terminal audit
\* record and an open row has none, whether the row ended by transition or was
\* cancelled inside another request's transaction.
AuditedOnce ==
    \A i \in OpId : audits[i] = IF ops[i].status \in Terminal THEN 1 ELSE 0

\* Nothing reopens or rewrites a terminal row, and no row ever goes back to the
\* queue (transition refuses terminal rows, _cancel_row filters on status).
TerminalIsFinal ==
    [][\A i \in OpId :
          /\ ops[i].status \in Terminal => ops'[i] = ops[i]
          /\ ops[i].status = "Running" => ops'[i].status # "Queued"]_vars

\* A row that another request cancels was a Stop making way for a Kill or a
\* queued deletion making way for a Restore; then the newcomer of that type is
\* in flight for the same world.
SupersessionIsJustified ==
    [][\A i \in OpId :
          (issued' # issued /\ ops'[i].status = "Cancelled" /\ ops[i].status \in InFlight)
          => LET n == ops'[issued'] IN
             /\ n.world = ops[i].world /\ n.status \in InFlight
             /\ \/ ops[i].type = "Stop" /\ n.type = "Kill"
                \/ ops[i].type = "DeleteWorld" /\ ops[i].status = "Queued"
                                               /\ n.type = "Restore"]_vars

\* The engine implements DecisionLog: a row in flight is an open register.
Decided ==
    [i \in OpId |-> IF ops[i].status = "Absent" THEN "none"
                   ELSE IF ops[i].status \in InFlight THEN "open"
                   ELSE ops[i].status]

Log == INSTANCE DecisionLog WITH
           Requests <- OpId, Decisions <- Terminal, Cancelled <- "Cancelled",
           decision <- Decided, entries <- audits

\* Every step of the engine accepts one request, decides one, or changes nothing
\* a client can observe; a decision is never taken back or left out of the audit.
ImplementsDecisionLog == Log!Spec

=============================================================================
