----------------------------- MODULE Artifacts -----------------------------
(***************************************************************************)
(* The backup artifacts of one world: BackupService with its save          *)
(* coordination, RestoreService with its rollback, and CleanupService, as  *)
(* three threads that share the artifact files, the directories of the     *)
(* world and the one writer connection of the database.                    *)
(*                                                                         *)
(* Every statement a thread executes on the writer joins whatever          *)
(* transaction is open there; a commit publishes, and a rollback undoes,   *)
(* the statements of all threads.  A BEGIN IMMEDIATE inside an open        *)
(* transaction fails and its handler rolls back.  Readers see committed    *)
(* rows only.                                                              *)
(*                                                                         *)
(* A backup and a restore of one world exclude each other, and each is     *)
(* single flight (OperationService); a cleanup that names no world is      *)
(* exempt from that policy and runs beside either.                         *)
(***************************************************************************)
EXTENDS Integers, FiniteSets, FiniteSetsExt

CONSTANTS
    None,          \* nothing: no file, no directory
    Partial,       \* a directory that holds part of a world
    Torn,          \* an archive whose world changed while it was read
    Seeds,         \* bound: old artifacts there are at first
    MaxArtifacts,  \* bound: artifact ids
    MaxEvents,     \* bound: contents a running server makes, and crashes, together
    Keep           \* CLEANUP_COUNT_FLOOR: artifacts kept per category

ASSUME KeepAssumption == Keep \in Nat \ {0}
\* The markers are not contents, and differ.
ASSUME MarkersAssumption == /\ None \notin Nat /\ Partial \notin Nat /\ Torn \notin Nat
                            /\ None # Partial /\ None # Torn /\ Partial # Torn
ASSUME BoundsAssumption ==
    /\ Seeds \in Nat /\ MaxArtifacts \in Nat /\ Seeds < MaxArtifacts
    /\ MaxEvents \in Nat

Artifact == 1..MaxArtifacts
Categories == {"manual", "pre_restore"}

\* The world's first content is 0, that of an artifact there is at first its
\* id, and a running server writes the rest.
Content == 0..(Seeds + MaxEvents)

VARIABLES
    disk,      \* the world's directory, the archived ones, the staging one
    files,     \* what the file of each artifact holds
    db,        \* the tables as the writer connection sees them
    saved,     \* the tables as last committed
    txn,       \* whether a transaction is open on the writer
    server,    \* the world's server process
    copy,      \* a _write_and_register under way
    backup,    \* a create_world_backup of a caller
    restore,   \* a restore
    cleanup,   \* a wet cleanup run
    previews,  \* the candidate sets dry runs have shown
    old,       \* artifacts older than the policy's age
    issued,    \* artifact ids and contents used so far
    blocked,   \* a Backup or Restore row was left Running by a crash
    past       \* what has happened that the properties except

vars == <<disk, files, db, saved, txn, server, copy, backup, restore, cleanup,
          previews, old, issued, blocked, past>>

dbVars == <<db, saved, txn>>
threads == <<copy, backup, restore, cleanup>>
rest == <<previews, old, issued, blocked, past>>

NoRow == [status |-> "absent", suspect |-> FALSE, category |-> "manual", checksum |-> None]

Registered(category, content) ==
    [status |-> "live", suspect |-> FALSE, category |-> category, checksum |-> content]

NoCopy == [pc |-> "idle", art |-> None, category |-> "manual", content |-> None]
NoRestore == [pc |-> "idle", due |-> FALSE, round |-> "restore", source |-> None, pre |-> None,
              original |-> None, moved |-> None, wasRunning |-> FALSE]
NoCleanup == [pc |-> "idle", candidates |-> {}, todo |-> {}]

Init ==
    /\ disk = [dir |-> 0, archives |-> {}, staging |-> None]
    /\ files = [a \in Artifact |-> IF a <= Seeds THEN a ELSE None]
    /\ \E state \in {"off", "running"} :
          /\ db = [rows |-> [a \in Artifact |-> IF a <= Seeds THEN Registered("manual", a) ELSE NoRow],
                   outcome |-> "none", state |-> state]
          /\ server = [up |-> state = "running", autosave |-> TRUE]
    /\ saved = db
    /\ txn = FALSE
    /\ copy = NoCopy
    /\ backup = [pc |-> "idle", running |-> FALSE]
    /\ restore = NoRestore
    /\ cleanup = NoCleanup
    /\ previews = {}
    /\ old = 1..Seeds
    /\ issued = [artifacts |-> Seeds, contents |-> Seeds, crashes |-> 0]
    /\ blocked = FALSE
    /\ past = [undone |-> FALSE, unlinked |-> {}, stranded |-> {}, unresumed |-> FALSE]

-----------------------------------------------------------------------------
(* The shared writer connection.                                           *)

Statement(tables) == db' = tables /\ txn' = TRUE /\ UNCHANGED saved

Commit == saved' = db /\ txn' = FALSE /\ UNCHANGED db

Rollback == db' = saved /\ txn' = FALSE /\ UNCHANGED saved

\* BEGIN IMMEDIATE of a transaction whose rows are not modelled here.
Begins == ~txn /\ UNCHANGED <<dbVars, past>>

BeginFails == txn /\ Rollback /\ past' = [past EXCEPT !.undone = @ \/ db # saved]

Suspected(a) == [db EXCEPT !.rows[a].suspect = TRUE]

-----------------------------------------------------------------------------
(* The server.                                                             *)

NewContent == issued.contents + 1

CanWrite == issued.contents - Seeds + issued.crashes < MaxEvents

\* An archive that is being read no longer holds one state of the world.
Changed(c) == IF c.pc = "read" THEN [c EXCEPT !.content = Torn] ELSE c

Autosave ==
    /\ server.up /\ server.autosave
    /\ backup.pc # "idle" \/ restore.pc # "idle"
    /\ CanWrite
    /\ disk' = [disk EXCEPT !.dir = NewContent]
    /\ issued' = [issued EXCEPT !.contents = @ + 1]
    /\ copy' = Changed(copy)
    /\ UNCHANGED <<files, dbVars, server, backup, restore, cleanup, previews, old, blocked, past>>

\* Start, stop and the detection of a crash wait for a Backup row, and are
\* refused beside a Restore; their transactions are those of WorldRuntime.
Switch(up, state) ==
    /\ backup.pc = "idle" /\ restore.pc = "idle" /\ ~blocked
    /\ ~txn
    /\ server' = [up |-> up, autosave |-> TRUE]
    /\ db' = [db EXCEPT !.state = state]
    /\ saved' = db'
    /\ UNCHANGED <<disk, files, txn, threads, rest>>

StartServer == ~server.up /\ saved.state = "off" /\ Switch(TRUE, "running")

StopServer == saved.state = "running" /\ Switch(FALSE, "off")

ServerDies ==
    /\ server.up
    /\ server' = [server EXCEPT !.up = FALSE]
    /\ UNCHANGED <<disk, files, dbVars, threads, rest>>

-----------------------------------------------------------------------------
(* _write_and_register, called by a backup and by a restore.               *)

\* Mutant: every copy is registered as one made by hand.
CalledByHand(category) == [pc |-> "read", art |-> issued.artifacts + 1, category |-> "manual",
                           content |-> disk.dir]

Called(category) == [pc |-> "read", art |-> issued.artifacts + 1, category |-> category,
                     content |-> disk.dir]

\* The world is archived, verified and moved to its final name.
Read ==
    /\ copy.pc = "read" /\ disk.dir # None
    /\ copy' = [copy EXCEPT !.pc = "insert"]
    /\ files' = [files EXCEPT ![copy.art] = copy.content]
    /\ UNCHANGED <<disk, dbVars, server, backup, restore, cleanup, rest>>

Insert ==
    /\ copy.pc = "insert"
    /\ copy' = [copy EXCEPT !.pc = "commit"]
    /\ Statement([db EXCEPT !.rows[copy.art] = Registered(copy.category, copy.content)])
    /\ UNCHANGED <<disk, files, server, backup, restore, cleanup, rest>>

CopyCommits ==
    /\ copy.pc = "commit"
    /\ copy' = [copy EXCEPT !.pc = "done"]
    /\ Commit
    /\ UNCHANGED <<disk, files, server, backup, restore, cleanup, rest>>

\* The tables but for a copy's own row.
Without(a) == [db EXCEPT !.rows[a] = saved.rows[a]]

\* Any step raises; a commit can, while there is something to commit.  The writer is rolled back once the handler has it.
CopyFails ==
    /\ copy.pc \in {"read", "insert", "commit"}
    /\ copy' = [copy EXCEPT !.pc = "failed"]
    /\ files' = [files EXCEPT ![copy.art] = None]
    /\ \/ copy.pc # "commit" /\ UNCHANGED <<dbVars, past>>
       \/ /\ copy.pc = "insert" \/ (copy.pc = "commit" /\ txn)
          /\ Rollback
          /\ past' = [past EXCEPT
                !.undone = @ \/ Without(copy.art) # saved,
                !.stranded = @ \cup {a \in {copy.art} : saved.rows[a].status = "live"}]
    /\ UNCHANGED <<disk, server, backup, restore, cleanup, previews, old, issued, blocked>>

-----------------------------------------------------------------------------
(* create_world_backup, called for a world of its own accord.              *)

CanCopy == issued.artifacts < MaxArtifacts

Copies(category) ==
    /\ copy' = Called(category)
    /\ issued' = [issued EXCEPT !.artifacts = @ + 1]

Unissued == UNCHANGED <<copy, issued>>

StartBackup ==
    /\ backup.pc = "idle" /\ restore.pc = "idle" /\ ~blocked
    /\ CanCopy
    /\ IF saved.state = "running"
       THEN backup' = [pc |-> "suspend", running |-> TRUE] /\ Unissued
       ELSE backup' = [pc |-> "copy", running |-> FALSE] /\ Copies("manual")
    /\ UNCHANGED <<disk, files, dbVars, server, restore, cleanup, previews, old, blocked, past>>

\* Mutant: a failing save-off is overlooked.
SuspendOrNot ==
    /\ backup.pc = "suspend"
    /\ \E off \in BOOLEAN : server' = [server EXCEPT !.autosave = @ /\ ~(server.up /\ off)]
    /\ backup' = [backup EXCEPT !.pc = "flush"]
    /\ UNCHANGED <<disk, files, dbVars, copy, restore, cleanup, rest>>

\* save-off; a command that raises may have been carried out.
Suspend ==
    /\ backup.pc = "suspend"
    /\ \/ server.up /\ backup' = [backup EXCEPT !.pc = "flush"]
                    /\ server' = [server EXCEPT !.autosave = FALSE]
       \/ backup' = [backup EXCEPT !.pc = "resume"]
          /\ \/ server.up /\ server' = [server EXCEPT !.autosave = FALSE]
             \/ UNCHANGED server
    /\ UNCHANGED <<disk, files, dbVars, copy, restore, cleanup, rest>>

\* save-all, and whether level.dat shows that the world was written.
Flush ==
    /\ backup.pc = "flush"
    /\ \/ /\ server.up /\ CanWrite
          /\ disk' = [disk EXCEPT !.dir = NewContent]
          /\ issued' = [issued EXCEPT !.contents = @ + 1]
       \/ UNCHANGED <<disk, issued>>
    /\ \/ server.up /\ backup' = [backup EXCEPT !.pc = "verified"]
       \/ backup' = [backup EXCEPT !.pc = "resume"]
    /\ UNCHANGED <<files, dbVars, server, copy, restore, cleanup, previews, old, blocked, past>>

Capture ==
    /\ backup.pc = "verified"
    /\ backup' = [backup EXCEPT !.pc = "copy"]
    /\ Copies("manual")
    /\ UNCHANGED <<disk, files, dbVars, server, restore, cleanup, previews, old, blocked, past>>

\* Mutant: autosave is resumed after a success only.
CapturedOnce ==
    /\ backup.pc = "copy" /\ copy.pc \in {"done", "failed"}
    /\ copy' = NoCopy
    /\ backup' = [backup EXCEPT !.pc = IF backup.running /\ copy.pc = "done" THEN "resume" ELSE "idle"]
    /\ UNCHANGED <<disk, files, dbVars, server, restore, cleanup, rest>>

\* The copy returns or raises; a running world's autosave is resumed in any case.
Captured ==
    /\ backup.pc = "copy" /\ copy.pc \in {"done", "failed"}
    /\ copy' = NoCopy
    /\ backup' = [backup EXCEPT !.pc = IF backup.running THEN "resume" ELSE "idle"]
    /\ UNCHANGED <<disk, files, dbVars, server, restore, cleanup, rest>>

Resume ==
    /\ backup.pc = "resume"
    /\ backup' = [backup EXCEPT !.pc = "idle"]
    /\ \/ /\ server.up
          /\ server' = [server EXCEPT !.autosave = TRUE] /\ UNCHANGED past
       \/ /\ past' = [past EXCEPT !.unresumed = ~server.autosave]
          /\ UNCHANGED server
    /\ UNCHANGED <<disk, files, dbVars, copy, restore, cleanup, previews, old, issued, blocked>>

-----------------------------------------------------------------------------
(* validate_artifact, extract_to_staging and _switch_world, which a restore *)
(* uses twice: for the artifact it restores and, when the restarted server  *)
(* does not become ready, for the backup it has made before.                *)

\* Mutant: the rollback restores the artifact once more.
WantedAgain == restore.source

Wanted == IF restore.round = "restore" THEN restore.source ELSE restore.pre

\* An exception ends the restore, or its rollback as failed.
Raised(r) == [r EXCEPT !.pc = IF r.round = "restore" THEN "raised" ELSE "revert_failed"]

At(pc) == restore.pc = pc /\ ~restore.due

Goto(pc) == restore' = [restore EXCEPT !.pc = pc]

\* A statement whose commit is the next step of the thread.
GotoAfterCommit(pc) == restore' = [restore EXCEPT !.pc = pc, !.due = TRUE]

RestoreCommits ==
    /\ restore.due
    /\ restore' = [restore EXCEPT !.due = FALSE]
    /\ Commit
    /\ UNCHANGED <<disk, files, server, copy, backup, cleanup, rest>>

IsValid(a) == files[a] # None /\ files[a] = saved.rows[a].checksum

FlagSuspect(a) ==
    /\ Statement(Suspected(a))
    /\ restore' = [Raised(restore) EXCEPT !.due = TRUE]

\* The row is missing, or the file is missing or another than the row says.
Rejects(a) ==
    /\ ~IsValid(a)
    /\ IF saved.rows[a].status = "absent"
       THEN restore' = Raised(restore) /\ UNCHANGED dbVars
       ELSE FlagSuspect(a)

StartRestore ==
    /\ backup.pc = "idle" /\ restore.pc = "idle" /\ ~blocked /\ ~txn
    /\ saved.state = "off" /\ ~server.up
    /\ CanCopy
    /\ \E a \in {x \in Artifact : saved.rows[x].status # "absent"}, wasRunning \in BOOLEAN :
          restore' = [NoRestore EXCEPT !.pc = "validate", !.source = a, !.original = disk.dir,
                                       !.wasRunning = wasRunning]
    /\ db' = [db EXCEPT !.outcome = "none"]
    /\ saved' = db'
    /\ UNCHANGED <<disk, files, txn, server, copy, backup, cleanup, rest>>

Validate ==
    /\ At("validate")
    /\ \/ /\ IsValid(restore.source)
          /\ restore' = [restore EXCEPT !.pc = "copy", !.pre = issued.artifacts + 1]
          /\ Copies("pre_restore")
          /\ UNCHANGED dbVars
       \/ Rejects(restore.source) /\ Unissued
    /\ UNCHANGED <<disk, files, server, backup, cleanup, previews, old, blocked, past>>

\* Mutant: a restore goes on without its backup.
PreBackupOptional ==
    /\ At("copy") /\ copy.pc \in {"done", "failed"}
    /\ copy' = NoCopy
    /\ Goto("extract")
    /\ UNCHANGED <<disk, files, dbVars, server, backup, cleanup, rest>>

PreBackup ==
    /\ At("copy") /\ copy.pc \in {"done", "failed"}
    /\ copy' = NoCopy
    /\ IF copy.pc = "done" THEN Goto("extract") ELSE restore' = Raised(restore)
    /\ UNCHANGED <<disk, files, dbVars, server, backup, cleanup, rest>>

\* The artifact is validated again; its extraction may fail, as unsafe or not.
Extract ==
    /\ At("extract")
    /\ \/ /\ IsValid(Wanted)
          /\ disk' = [disk EXCEPT !.staging = files[Wanted]]
          /\ Goto("archive")
          /\ UNCHANGED dbVars
       \/ /\ IsValid(Wanted)
          /\ disk' = [disk EXCEPT !.staging = None]
          /\ \/ FlagSuspect(Wanted)
             \/ restore' = Raised(restore) /\ UNCHANGED dbVars
       \/ Rejects(Wanted) /\ UNCHANGED disk
    /\ UNCHANGED <<files, server, copy, backup, cleanup, rest>>

Archive ==
    /\ At("archive")
    /\ \/ /\ restore' = [restore EXCEPT !.pc = "move_in", !.moved = disk.dir]
          /\ disk' = [disk EXCEPT !.dir = None, !.archives = @ \cup ({disk.dir} \ {None})]
       \/ /\ disk.dir # None
          /\ restore' = Raised(restore) /\ UNCHANGED disk
    /\ UNCHANGED <<files, dbVars, server, copy, backup, cleanup, rest>>

\* The move fails and the archived directory is moved back, or that fails too.
MovesBack ==
    \/ /\ restore.moved # None
       /\ disk' = [disk EXCEPT !.dir = restore.moved, !.archives = @ \ {restore.moved}]
    \/ \E left \in {None, Partial} :
          /\ restore.moved # None => left = None
          /\ disk' = [disk EXCEPT !.dir = left]

MoveIn ==
    /\ At("move_in")
    /\ \/ /\ disk' = [disk EXCEPT !.dir = disk.staging, !.staging = None]
          /\ Goto(IF restore.round = "restore" THEN "history" ELSE "complete")
       \/ MovesBack /\ restore' = Raised(restore)
    /\ UNCHANGED <<files, dbVars, server, copy, backup, cleanup, rest>>

-----------------------------------------------------------------------------
(* The records a restore keeps, its restart, and its rollback.             *)

\* The history names the backup made before: its row must be there.
RecordHistory ==
    /\ At("history")
    /\ IF db.rows[restore.pre].status = "absent"
       THEN Statement(db) /\ restore' = Raised(restore)
       ELSE Statement([db EXCEPT !.outcome = "success"]) /\ GotoAfterCommit("settle")
    /\ UNCHANGED <<disk, files, server, copy, backup, cleanup, rest>>

Settle ==
    /\ At("settle") /\ ~restore.wasRunning
    /\ Statement([db EXCEPT !.state = "off"])
    /\ GotoAfterCommit("done")
    /\ UNCHANGED <<disk, files, server, copy, backup, cleanup, rest>>

RestartProbe ==
    /\ At("settle") /\ restore.wasRunning
    /\ \/ server' = [up |-> TRUE, autosave |-> TRUE] /\ Goto("running")
       \/ UNCHANGED server /\ Goto("flag")
    /\ UNCHANGED <<disk, files, dbVars, copy, backup, cleanup, rest>>

SetRunning ==
    /\ At("running")
    /\ Statement([db EXCEPT !.state = "running"])
    /\ GotoAfterCommit("done")
    /\ UNCHANGED <<disk, files, server, copy, backup, cleanup, rest>>

FlagSource ==
    /\ At("flag")
    /\ Statement(Suspected(restore.source))
    /\ GotoAfterCommit("compensate")
    /\ UNCHANGED <<disk, files, server, copy, backup, cleanup, rest>>

\* The row of the rollback; an exception here is outside its try.
Compensate ==
    /\ At("compensate")
    /\ \/ Begins /\ restore' = [restore EXCEPT !.pc = "extract", !.round = "rollback"]
       \/ BeginFails /\ Goto("raised")
    /\ UNCHANGED <<disk, files, server, copy, backup, cleanup, previews, old, issued, blocked>>

CompleteRollback ==
    /\ At("complete")
    /\ \/ Begins /\ Goto("correct")
       \/ BeginFails /\ Goto("revert_failed")
    /\ UNCHANGED <<disk, files, server, copy, backup, cleanup, previews, old, issued, blocked>>

\* The history row of the rollback, whose contents no property is about.
RecordReversal ==
    /\ At("correct")
    /\ Statement(db)
    /\ GotoAfterCommit("reverted")
    /\ UNCHANGED <<disk, files, server, copy, backup, cleanup, rest>>

SetReverted ==
    /\ At("reverted")
    /\ Statement([db EXCEPT !.outcome = "reverted"])
    /\ GotoAfterCommit("off")
    /\ UNCHANGED <<disk, files, server, copy, backup, cleanup, rest>>

SetOff ==
    /\ At("off")
    /\ Statement([db EXCEPT !.state = "off"])
    /\ GotoAfterCommit("done")
    /\ UNCHANGED <<disk, files, server, copy, backup, cleanup, rest>>

FailRollback ==
    /\ At("revert_failed")
    /\ \/ Begins /\ Goto("failed")
       \/ BeginFails /\ Goto("raised")
    /\ UNCHANGED <<disk, files, server, copy, backup, cleanup, previews, old, issued, blocked>>

SetFailed ==
    /\ At("failed")
    /\ Statement([db EXCEPT !.outcome = "failed"])
    /\ GotoAfterCommit("error")
    /\ UNCHANGED <<disk, files, server, copy, backup, cleanup, rest>>

SetError ==
    /\ At("error")
    /\ Statement([db EXCEPT !.state = "error"])
    /\ GotoAfterCommit("raised")
    /\ UNCHANGED <<disk, files, server, copy, backup, cleanup, rest>>

EndRestore ==
    /\ At("done") \/ At("raised")
    /\ restore' = NoRestore
    /\ UNCHANGED <<disk, files, dbVars, server, copy, backup, cleanup, rest>>

-----------------------------------------------------------------------------
(* Cleanup.                                                                *)

Live(category) ==
    {a \in Artifact : saved.rows[a].status = "live" /\ saved.rows[a].category = category}

Newest(S) == {a \in S : Cardinality({b \in S : b > a}) < Keep}

NewestViable(S) ==
    LET viable == {a \in S : ~saved.rows[a].suspect} IN
    {a \in viable : \A b \in viable : b <= a}

Protected == UNION {Newest(Live(k)) \cup NewestViable(Live(k)) : k \in Categories}

Candidates ==
    {a \in UNION {Live(k) : k \in Categories} : /\ a \in old
                                                /\ ~saved.rows[a].suspect
                                                /\ a \notin Protected}

\* A dry run is transitions and reads; the first transition may fail.
DryRun ==
    /\ cleanup.pc = "idle"
    /\ \/ Begins /\ previews' = previews \cup ({Candidates} \ {{}})
       \/ BeginFails /\ UNCHANGED previews
    /\ UNCHANGED <<disk, files, server, threads, old, issued, blocked>>

\* Mutant: no preview is asked for.
StartUnconfirmed ==
    /\ cleanup.pc = "idle"
    /\ Candidates # {}
    /\ Begins /\ cleanup' = [pc |-> "recheck", candidates |-> Candidates, todo |-> Candidates]
    /\ UNCHANGED <<disk, files, server, copy, backup, restore, previews, old, issued, blocked>>

\* A wet run is admitted when a dry run has shown the candidates of now.
StartCleanup ==
    /\ cleanup.pc = "idle"
    /\ Candidates \in previews
    /\ \/ Begins /\ cleanup' = [pc |-> "recheck", candidates |-> Candidates, todo |-> Candidates]
       \/ BeginFails /\ UNCHANGED cleanup
    /\ UNCHANGED <<disk, files, server, copy, backup, restore, previews, old, issued, blocked>>

Recheck ==
    /\ cleanup.pc = "recheck"
    /\ \/ /\ Candidates = cleanup.candidates
          /\ cleanup' = [cleanup EXCEPT !.pc = "sweep"] /\ UNCHANGED <<dbVars, past>>
       \/ /\ Candidates # cleanup.candidates
          /\ cleanup' = NoCleanup /\ (Begins \/ BeginFails)
    /\ UNCHANGED <<disk, files, server, copy, backup, restore, previews, old, issued, blocked>>

\* The oldest candidate left that is not marked; its file goes, or the removal raises.
Unlink(a) ==
    /\ cleanup.pc = "sweep"
    /\ a \in cleanup.todo /\ \A b \in cleanup.todo : a <= b
    /\ db.rows[a].status = "live"
    /\ \/ /\ files' = [files EXCEPT ![a] = None]
          /\ cleanup' = [cleanup EXCEPT !.pc = "mark"]
          /\ past' = [past EXCEPT !.unlinked = @ \cup {a}]
       \/ /\ files[a] # None
          /\ cleanup' = NoCleanup
          /\ UNCHANGED <<files, past>>
    /\ UNCHANGED <<disk, dbVars, server, copy, backup, restore, previews, old, issued, blocked>>

Mark ==
    /\ cleanup.pc = "mark"
    /\ LET a == Min(cleanup.todo) IN
          /\ Statement([db EXCEPT !.rows[a].status = "deleted"])
          /\ cleanup' = [cleanup EXCEPT !.pc = "sweep", !.todo = @ \ {a}]
    /\ UNCHANGED <<disk, files, server, copy, backup, restore, rest>>

Sweep == \E a \in Artifact : Unlink(a)

CleanupCommits ==
    /\ cleanup.pc = "sweep" /\ cleanup.todo = {}
    /\ Commit
    /\ cleanup' = [cleanup EXCEPT !.pc = "complete"]
    /\ UNCHANGED <<disk, files, server, copy, backup, restore, rest>>

CompleteCleanup ==
    /\ cleanup.pc = "complete"
    /\ Begins \/ BeginFails
    /\ cleanup' = NoCleanup
    /\ UNCHANGED <<disk, files, server, copy, backup, restore, previews, old, issued, blocked>>

-----------------------------------------------------------------------------
(* The rest of the manager, and its end.                                   *)

\* Another thread begins a transaction, or commits its own statements.
OtherThread ==
    /\ \/ BeginFails
       \/ txn /\ Commit /\ UNCHANGED past
    /\ UNCHANGED <<disk, files, server, threads, previews, old, issued, blocked>>

\* Time passes; no call takes the days a policy asks for.
Age ==
    /\ copy.pc = "idle" /\ restore.pc \in {"idle", "crashed"} /\ cleanup.pc = "idle"
    /\ old' = 1..issued.artifacts
    /\ old' # old
    /\ UNCHANGED <<disk, files, dbVars, server, threads, previews, issued, blocked, past>>

\* A move that is interrupted leaves what it has copied; the server lives on.  A crash
\* of a manager that does none of this changes nothing here.
Crash ==
    /\ issued.contents - Seeds + issued.crashes < MaxEvents
    /\ backup.pc # "idle" \/ restore.pc \notin {"idle", "crashed"} \/ cleanup.pc # "idle"
    /\ issued' = [issued EXCEPT !.crashes = @ + 1]
    /\ Rollback
    /\ \E left \in IF restore.pc = "move_in" THEN {None, Partial} ELSE {disk.dir} :
          disk' = [disk EXCEPT !.dir = left]
    /\ copy' = NoCopy
    /\ backup' = [pc |-> "idle", running |-> FALSE]
    /\ restore' = [restore EXCEPT !.pc = IF @ = "idle" THEN @ ELSE "crashed", !.due = FALSE]
    /\ cleanup' = NoCleanup
    /\ blocked' = (blocked \/ backup.pc # "idle" \/ restore.pc # "idle")
    /\ UNCHANGED <<files, server, previews, old, past>>

Next ==
    \/ Autosave \/ StartServer \/ StopServer \/ ServerDies
    \/ Read \/ Insert \/ CopyCommits \/ CopyFails
    \/ StartBackup \/ Suspend \/ Flush \/ Capture \/ Captured \/ Resume
    \/ StartRestore \/ Validate \/ PreBackup \/ Extract \/ Archive \/ MoveIn
    \/ RecordHistory \/ Settle \/ RestartProbe \/ SetRunning \/ FlagSource
    \/ Compensate \/ CompleteRollback \/ RecordReversal \/ SetReverted \/ SetOff
    \/ FailRollback \/ SetFailed \/ SetError \/ EndRestore \/ RestoreCommits
    \/ DryRun \/ StartCleanup \/ Recheck \/ Sweep \/ Mark \/ CleanupCommits \/ CompleteCleanup
    \/ OtherThread \/ Age \/ Crash

Spec == Init /\ [][Next]_vars

-----------------------------------------------------------------------------
(* Properties.                                                             *)

Tables == [rows: [Artifact -> [status: {"absent", "live", "deleted"}, suspect: BOOLEAN,
                               category: Categories, checksum: Content \cup {None, Partial, Torn}]],
           outcome: {"none", "success", "reverted", "failed"},
           state: {"off", "running", "error"}]

Directories == Content \cup {None, Partial, Torn}

\* The values the state takes; a commit leaves nothing open, and the state of
\* a thread fits its step: only a restore copies for pre_restore, only a
\* restore past its validation has an artifact of its own.
TypeOK ==
    /\ disk \in [dir: Directories, archives: SUBSET (Directories \ {None}),
                 staging: Directories]
    /\ files \in [Artifact -> Directories]
    /\ db \in Tables /\ saved \in Tables /\ txn \in BOOLEAN
    /\ ~txn => db = saved
    /\ copy.art # None <=> copy.pc # "idle"
    /\ copy.pc # "idle" => (copy.category = "pre_restore" <=> restore.pc = "copy")
                           /\ (restore.pc = "copy" \/ backup.pc = "copy")
    /\ restore.pre # None => restore.pre \in 1..issued.artifacts
    /\ cleanup.todo \subseteq cleanup.candidates /\ cleanup.candidates \in SUBSET Artifact

\* The world as it was when a restore began is always in its directory or in
\* an archived one: whichever step of the restore or of its rollback fails, or
\* is cut off by a crash (_switch_world moves, and never removes, a world).
OriginalSurvives ==
    restore.pc # "idle" /\ restore.original # None
        => restore.original \in {disk.dir} \cup disk.archives

\* A restore that has touched the world's directory can be reverted by another
\* one, as the recovery from an interrupted restore asks for (document 8
\* section 7): the backup made before is registered and whole.  It is not if
\* another thread's failed BEGIN undid its row, or a cleanup took it.
OriginalIsBackedUp ==
    restore.pc # "idle" /\ disk.dir # restore.original
        => \/ saved.rows[restore.pre].status = "live" /\ files[restore.pre] = restore.original
           \/ past.undone
           \/ restore.pre \in past.unlinked

\* Nothing a restore does, or leaves undone, costs the world it began with.
OriginalIsSafe == OriginalSurvives /\ OriginalIsBackedUp

\* A registered artifact is one state of the world and its file is complete,
\* unless a cleanup has removed it: whatever write, server, RCON command or
\* database statement fails, and however the server writes meanwhile.  A copy
\* whose own commit fails removes a file whose row another thread's commit may
\* have made permanent; and a world whose state RUNNING
\* was undone is archived like one that is off.
RegisteredIsWhole ==
    \A a \in Artifact : saved.rows[a].status = "live" =>
        /\ saved.rows[a].checksum # Torn \/ past.undone
        /\ files[a] = saved.rows[a].checksum \/ a \in past.unlinked \cup past.stranded

\* What the history says of a restore that has returned or raised is true of
\* the world's directory and state (document 14 section 12), unless statements
\* of it were undone by another thread.
OutcomeIsTrue ==
    (At("done") \/ At("raised")) /\ ~server.up /\ ~past.undone =>
        LET is(content, states) == disk.dir = content /\ saved.state \in states
        IN  /\ saved.outcome = "success" =>
                  \/ is(saved.rows[restore.source].checksum, {"off"})
                  \/ restore.wasRunning /\ saved.state = "running"
            /\ saved.outcome = "reverted" => is(restore.original, {"off"})
            /\ saved.outcome = "failed" => saved.state = "error"
            /\ saved.outcome = "none" => \/ is(restore.original, {"off"})
                                         \/ /\ disk.dir \in {None, Partial}
                                            /\ restore.original \in disk.archives \cup {None}

\* A cleanup removes the file of a live artifact only when a dry run has shown
\* it and as many newer ones of its category as the floor says are live,
\* however backups, restores and flags come between its steps.
OnlyConfirmedSurplusGoes ==
    [][\A a \in Artifact, k \in Categories :
          a \in Live(k) \ {copy.art} /\ files[a] # None /\ files'[a] = None =>
              /\ \E shown \in previews : a \in shown
              /\ Cardinality({b \in Live(k) : b > a}) >= Keep]_vars

\* A backup leaves a running server's autosave off only if its save-on failed
\* or the manager crashed (document 14 section 10).
AutosaveReturns ==
    backup.pc = "idle" /\ server.up /\ ~server.autosave => past.unresumed \/ blocked
=============================================================================
