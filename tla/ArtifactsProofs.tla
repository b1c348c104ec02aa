-------------------------- MODULE ArtifactsProofs --------------------------
(***************************************************************************)
(* Theorems about backups, restores and cleanups of one world, for any     *)
(* numbers of artifacts, contents and crashes, and any floor.              *)
(***************************************************************************)
EXTENDS Artifacts, FiniteSetTheorems, TLAPS

-----------------------------------------------------------------------------
(* The inductive invariant.                                                *)

\* The steps of a copy, a backup and a restore.
CopySteps == {"idle", "read", "insert", "commit", "done", "failed"}
BackupSteps == {"idle", "suspend", "flush", "verified", "copy", "resume"}
RestoreSteps == {"idle", "validate", "copy", "extract", "archive", "move_in", "history", "settle",
    "running", "flag", "compensate", "complete", "correct", "reverted", "off", "done",
    "revert_failed", "failed", "error", "raised", "crashed"}

\* The shapes of the state, variable by variable.
DiskType == [dir: Directories, archives: SUBSET (Directories \ {None}), staging: Directories]

FilesType == [Artifact -> Directories]

ServerType == [up: BOOLEAN, autosave: BOOLEAN]

CopyType == [pc: CopySteps, art: Artifact \cup {None}, category: Categories, content: Directories]

BackupType == [pc: BackupSteps, running: BOOLEAN]

RestoreType == [pc: RestoreSteps, due: BOOLEAN, round: {"restore", "rollback"},
                source: Artifact \cup {None}, pre: Artifact \cup {None},
                original: Directories, moved: Directories, wasRunning: BOOLEAN]

CleanupType == [pc: {"idle", "recheck", "sweep", "mark", "complete"},
                candidates: SUBSET Artifact, todo: SUBSET Artifact]

Previews == SUBSET SUBSET Artifact

Olds == SUBSET Artifact

IssuedType == [artifacts: Artifact \cup {0}, contents: Nat, crashes: Nat]

\* The contents a server has made and the crashes share one bound.
Bounded == issued.contents >= Seeds /\ issued.contents - Seeds + issued.crashes <= MaxEvents

PastType == [undone: BOOLEAN, unlinked: SUBSET Artifact, stranded: SUBSET Artifact,
             unresumed: BOOLEAN]

\* Every variable keeps to its shape.
Shapes ==
    /\ disk \in DiskType /\ files \in FilesType
    /\ db \in Tables /\ saved \in Tables /\ txn \in BOOLEAN
    /\ server \in ServerType /\ copy \in CopyType /\ backup \in BackupType
    /\ restore \in RestoreType /\ cleanup \in CleanupType
    /\ previews \in Previews /\ old \in Olds
    /\ issued \in IssuedType /\ Bounded
    /\ blocked \in BOOLEAN /\ past \in PastType

\* The steps of a restore before it touches the world; those that do; those of a restore
\* and those of its rollback; and those at which a statement awaits its commit.
Early == {"validate", "copy"}
Switching == {"extract", "archive", "move_in"}
First == Early \cup Switching \cup {"idle", "history", "settle", "running", "flag", "compensate",
                                    "done", "raised", "crashed"}
Second == Switching \cup {"complete", "correct", "reverted", "off", "done", "revert_failed",
                          "failed", "error", "raised", "crashed"}
Due == {"raised", "revert_failed", "settle", "done", "compensate", "reverted", "off", "error"}

\* A backup and a restore exclude each other, and a copy under way is of one of them; a
\* crash blocks both; each step is of its round.
Turns ==
    /\ restore.pc # "idle" => backup.pc = "idle"
    /\ restore.pc = "crashed" => blocked
    /\ blocked => backup.pc = "idle" /\ restore.pc \in {"idle", "crashed"}
    /\ copy.pc # "idle" => \/ restore.pc = "copy" /\ copy.category = "pre_restore"
                              /\ restore.pre = copy.art
                           \/ backup.pc = "copy" /\ copy.category = "manual"
    /\ restore.pc = "copy" => copy.pc # "idle"
    /\ copy.art # None <=> copy.pc # "idle"
    /\ backup.pc \in {"suspend", "flush", "verified"} \/ restore.pc = "validate" => CanCopy
    /\ copy.pc # "idle" => copy.art \in 1..issued.artifacts
    /\ restore.pre # None => restore.pre \in 1..issued.artifacts
    /\ restore.pc \notin {"idle", "validate", "raised", "crashed"} => restore.pre # None
    /\ restore.due => restore.pc \in Due
    /\ IF restore.round = "restore" THEN restore.pc \in First ELSE restore.pc \in Second
    /\ restore.pc \notin {"idle", "crashed"} =>
          restore.source \in Artifact /\ saved.rows[restore.source].status # "absent"

\* A committed row stays in what the writer sees, for the same content.  Only a copy about
\* to commit has a row that is not committed, and a deleted row has lost its file.
RowKept(a) ==
    /\ saved.rows[a].status # "absent" =>
          /\ db.rows[a].status # "absent"
          /\ db.rows[a].checksum = saved.rows[a].checksum
          /\ db.rows[a].category = saved.rows[a].category
    /\ saved.rows[a].status = "deleted" => db.rows[a].status = "deleted"
    /\ db.rows[a].status # "absent" /\ saved.rows[a].status = "absent" =>
          a = copy.art /\ copy.pc = "commit"
    /\ db.rows[a].status = "deleted" => a \in past.unlinked
    /\ a > issued.artifacts => db.rows[a].status = "absent"
    /\ db.rows[a].status = "absent" => db.rows[a].checksum = None
    /\ saved.rows[a].status = "absent" => saved.rows[a].checksum = None

\* A transaction is open while there is something to commit, a restore is to commit, or
\* a statement was undone; and a copy's row is there from its insert on.
Ledger ==
    /\ ~txn => db = saved
    /\ txn => db # saved \/ restore.due \/ past.undone
    /\ \A a \in Artifact : RowKept(a)
    /\ copy.pc \in {"read", "insert"} => db.rows[copy.art].status = "absent"
    /\ copy.pc = "commit" => db.rows[copy.art].status # "absent" \/ past.undone
    /\ copy.pc = "done" => saved.rows[copy.art].status # "absent" \/ past.undone
    /\ copy.pc # "idle" /\ db.rows[copy.art].status # "absent" =>
          db.rows[copy.art].checksum = copy.content

\* A row's file holds what the row says, unless a cleanup or a failing commit took it; and
\* a copy holds in hand what it is about to register.
Whole ==
    /\ \A a \in Artifact : db.rows[a].status # "absent" =>
          files[a] = db.rows[a].checksum \/ a \in past.unlinked \cup past.stranded
    /\ copy.pc = "insert" => files[copy.art] = copy.content
    /\ copy.pc = "read" => copy.content \in {disk.dir, Torn}
    /\ copy.pc \in {"insert", "commit", "done"} => copy.content # None
    /\ \A a \in past.stranded : a \in 1..issued.artifacts
    /\ copy.pc \notin {"idle", "failed"} => copy.art \notin past.stranded

\* As long as no statement was undone, nothing torn is registered, archived or restored.
Untorn ==
    ~past.undone =>
        /\ \A a \in Artifact : db.rows[a].status # "absent" => db.rows[a].checksum # Torn
        /\ disk.dir # Torn /\ disk.staging # Torn /\ Torn \notin disk.archives
        /\ copy.content # Torn /\ restore.moved # Torn

\* The server is down while a restore works, is up again only after a restart the tables
\* tell of, and does not save while a backup of a running world reads.
Serving ==
    /\ restore.pc \notin {"idle", "running", "done", "crashed"} => ~server.up
    /\ restore.pc \in {"running", "flag", "compensate"} \/ restore.round = "rollback" =>
          restore.wasRunning
    /\ restore.pc = "done" /\ server.up =>
          restore.wasRunning /\ restore.round = "restore"
    /\ restore.pc = "done" /\ server.up => db.state = "running" \/ past.undone
    /\ restore.pc = "done" /\ server.up /\ ~restore.due => saved.state = "running" \/ past.undone
    /\ restore.pc = "idle" /\ server.up =>
          (db.state = "running" /\ saved.state = "running") \/ past.undone
    /\ backup.pc \in {"flush", "verified"} \/ (backup.pc = "copy" /\ backup.running)
          => ~server.autosave
    /\ backup.pc \in {"suspend", "flush", "verified"} => backup.running
    /\ backup.pc = "copy" /\ ~backup.running /\ server.up => past.undone
    /\ server.up /\ ~server.autosave =>
          \/ past.unresumed \/ blocked
          \/ backup.pc \in {"flush", "verified", "resume"}
          \/ backup.pc = "copy" /\ backup.running

\* The backup made before is registered and is of the world the restore began with.
Backed ==
    \/ past.undone
    \/ /\ restore.pre \in Artifact
       /\ saved.rows[restore.pre].status # "absent"
       /\ saved.rows[restore.pre].checksum = restore.original
       /\ restore.pre \notin past.stranded

\* The world the restore began with is among the archived ones, and is backed up.
Stowed == restore.original # None /\ restore.original \in disk.archives /\ Backed

\* The directory holds the artifact that was to be restored.
FromSource == disk.dir = saved.rows[restore.source].checksum /\ disk.dir # None

\* Where the world a restore began with is, step by step.
Original ==
    /\ restore.pc \in Early => disk.dir = restore.original
    /\ restore.pc = "copy" /\ copy.pc # "failed" => copy.content = restore.original
    /\ restore.pc \in {"extract", "archive"} /\ restore.round = "restore" =>
          disk.dir = restore.original /\ restore.original # None /\ Backed
    /\ restore.pc = "move_in" /\ restore.round = "restore" =>
          disk.dir = None /\ restore.moved = restore.original /\ Stowed
    /\ restore.pc \in Switching /\ restore.round = "rollback" => Stowed
    /\ restore.pc = "move_in" /\ restore.round = "rollback" =>
          restore.moved # None /\ disk.dir = None
    /\ restore.pc \in {"history", "settle", "running", "flag", "compensate", "complete", "correct",
                       "reverted", "off", "done"} => Stowed
    /\ restore.pc \in {"revert_failed", "failed", "error", "raised", "crashed"} =>
          disk.dir = restore.original \/ Stowed
    /\ restore.pc = "crashed" /\ server.up => Stowed
    /\ restore.pc = "raised" /\ restore.round = "restore" =>
          \/ disk.dir = restore.original
          \/ (disk.dir \in {None, Partial} /\ restore.original \in disk.archives \cup {None})
          \/ past.undone
    /\ restore.pc \in {"archive", "move_in"} =>
          disk.staging = saved.rows[Wanted].checksum /\ disk.staging # None
    /\ restore.pc \in {"history", "settle", "flag", "compensate"} => FromSource
    /\ restore.pc \in {"extract", "archive"} /\ restore.round = "rollback" => disk.dir # None
    /\ restore.pc = "done" /\ ~restore.wasRunning => FromSource
    /\ restore.pc \in {"complete", "correct", "reverted", "off"} =>
          disk.dir = restore.original \/ past.undone
    /\ restore.pc = "done" /\ restore.round = "rollback" =>
          disk.dir = restore.original \/ past.undone

\* What the writer sees of the outcome and of the state of the world.
Told(outcome, state) == db.outcome = outcome /\ db.state = state

\* What the tables tell of a restore, step by step, unless a statement was undone.
Story ==
    ~past.undone =>
        /\ restore.pc \notin {"idle", "crashed"} /\ ~restore.due =>
              saved.outcome = db.outcome /\ saved.state = db.state
        /\ restore.pc \in Early \cup {"history"} => Told("none", "off")
        /\ restore.pc \in Switching /\ restore.round = "restore" => Told("none", "off")
        /\ restore.pc \in Switching /\ restore.round = "rollback" => Told("success", "off")
        /\ restore.pc \in {"settle", "running", "flag", "compensate", "complete", "correct",
                           "reverted", "revert_failed", "failed"} => Told("success", "off")
        /\ restore.pc = "off" => Told("reverted", "off")
        /\ restore.pc = "error" => Told("failed", "off")
        /\ restore.pc = "raised" => IF restore.round = "restore" THEN Told("none", "off")
                                    ELSE Told("failed", "error")
        /\ restore.pc = "done" =>
              IF restore.round = "rollback" THEN Told("reverted", "off")
              ELSE Told("success", IF restore.wasRunning THEN "running" ELSE "off")

\* What a cleanup has still to do was previewed, is live, has the floor above it, and is
\* newer than what it has done.
Sweeping ==
    /\ cleanup.todo \subseteq cleanup.candidates
    /\ cleanup.pc # "idle" => cleanup.candidates \in previews
    /\ cleanup.pc = "idle" => cleanup.candidates = {}
    /\ cleanup.pc = "recheck" => cleanup.todo = cleanup.candidates
    /\ \A a \in cleanup.todo : saved.rows[a].status = "live"
    /\ cleanup.pc # "idle" => \A a \in Artifact :
          saved.rows[a].status = "live" /\ db.rows[a].status = "deleted" =>
              a \in cleanup.candidates \ cleanup.todo
    /\ \A a \in cleanup.candidates \ cleanup.todo, b \in cleanup.todo : a < b
    /\ cleanup.pc \in {"sweep", "mark"} => \A a \in cleanup.todo, k \in Categories :
          a \in Live(k) => Cardinality({b \in Live(k) : b > a}) >= Keep
    /\ cleanup.pc = "mark" =>
          \E a \in cleanup.todo : a \in past.unlinked /\ \A b \in cleanup.todo : a <= b

\* The inductive invariant.
Inv == /\ Shapes /\ Turns /\ Ledger /\ Whole /\ Untorn /\ Serving /\ Original /\ Story /\ Sweeping

-----------------------------------------------------------------------------
(* Which steps change which variable.                                      *)

\* The directories change in a switch, by the server, or at a crash.
LEMMA DiskChanges ==
    ASSUME [Next]_vars, disk' # disk
    PROVE  Autosave \/ Flush \/ Extract \/ Archive \/ MoveIn \/ Crash
BY DEF StartServer, StopServer, ServerDies, Read, Insert, CopyCommits, CopyFails, StartBackup,
    Suspend, Capture, Captured, Resume, StartRestore, Validate, PreBackup, RecordHistory,
    Settle, RestartProbe, SetRunning, FlagSource, Compensate, CompleteRollback, RecordReversal,
    SetReverted, SetOff, FailRollback, SetFailed, SetError, EndRestore, RestoreCommits, DryRun,
    StartCleanup, Recheck, Sweep, Mark, CleanupCommits, CompleteCleanup, OtherThread, Age, At,
    BeginFails, Begins, Called, CanCopy, Commit, Copies, FlagSuspect, Goto, GotoAfterCommit,
    IsValid, NoCleanup, NoCopy, NoRestore, Raised, Registered, Rejects, Rollback, Statement,
    Suspected, Switch, Unissued, Unlink, Without, dbVars, rest, threads, vars, Next

\* Files come by a copy and go by a failed one or a cleanup.
LEMMA FilesChanges ==
    ASSUME [Next]_vars, files' # files
    PROVE  Read \/ CopyFails \/ Sweep
BY DEF Autosave, StartServer, StopServer, ServerDies, Insert, CopyCommits, StartBackup, Suspend,
    Flush, Capture, Captured, Resume, StartRestore, Validate, PreBackup, Extract, Archive,
    MoveIn, RecordHistory, Settle, RestartProbe, SetRunning, FlagSource, Compensate,
    CompleteRollback, RecordReversal, SetReverted, SetOff, FailRollback, SetFailed, SetError,
    EndRestore, RestoreCommits, DryRun, StartCleanup, Recheck, Mark, CleanupCommits,
    CompleteCleanup, OtherThread, Age, Crash, At, BeginFails, Begins, Called, CanCopy, CanWrite,
    Changed, Commit, Copies, FlagSuspect, Goto, GotoAfterCommit, IsValid, MovesBack, NewContent,
    NoCleanup, NoCopy, NoRestore, Raised, Registered, Rejects, Rollback, Statement, Suspected,
    Switch, Unissued, Wanted, dbVars, rest, threads, vars, Next

\* A copy moves by its own steps, those of its caller, and the server that writes.
LEMMA CopyChanges ==
    ASSUME [Next]_vars, copy' # copy
    PROVE  Autosave \/ Read \/ Insert \/ CopyCommits \/ CopyFails \/ StartBackup \/ Capture \/
           Captured \/ Validate \/ PreBackup \/ Crash
BY DEF StartServer, StopServer, ServerDies, Suspend, Flush, Resume, StartRestore, Extract,
    Archive, MoveIn, RecordHistory, Settle, RestartProbe, SetRunning, FlagSource, Compensate,
    CompleteRollback, RecordReversal, SetReverted, SetOff, FailRollback, SetFailed, SetError,
    EndRestore, RestoreCommits, DryRun, StartCleanup, Recheck, Sweep, Mark, CleanupCommits,
    CompleteCleanup, OtherThread, Age, At, BeginFails, Begins, CanCopy, CanWrite, Commit,
    FlagSuspect, Goto, GotoAfterCommit, IsValid, MovesBack, NewContent, NoCleanup, NoRestore,
    Raised, Rejects, Rollback, Statement, Suspected, Switch, Unlink, Wanted, dbVars, rest,
    threads, vars, Next

\* The server changes by starts and stops, and by the commands of a backup.
LEMMA ServerChanges ==
    ASSUME [Next]_vars, server' # server
    PROVE  StartServer \/ StopServer \/ ServerDies \/ Suspend \/ Resume \/ RestartProbe
BY DEF Autosave, Read, Insert, CopyCommits, CopyFails, StartBackup, Flush, Capture, Captured,
    StartRestore, Validate, PreBackup, Extract, Archive, MoveIn, RecordHistory, Settle,
    SetRunning, FlagSource, Compensate, CompleteRollback, RecordReversal, SetReverted, SetOff,
    FailRollback, SetFailed, SetError, EndRestore, RestoreCommits, DryRun, StartCleanup,
    Recheck, Sweep, Mark, CleanupCommits, CompleteCleanup, OtherThread, Age, Crash, At,
    BeginFails, Begins, Called, CanCopy, CanWrite, Changed, Commit, Copies, FlagSuspect, Goto,
    GotoAfterCommit, IsValid, MovesBack, NewContent, NoCleanup, NoCopy, NoRestore, Raised,
    Registered, Rejects, Rollback, Statement, Suspected, Unissued, Unlink, Wanted, Without,
    dbVars, rest, threads, vars, Next

\* A backup moves by its own steps, and ends at a crash.
LEMMA BackupChanges ==
    ASSUME [Next]_vars, backup' # backup
    PROVE  StartBackup \/ Suspend \/ Flush \/ Capture \/ Captured \/ Resume \/ Crash
BY DEF Autosave, StartServer, StopServer, ServerDies, Read, Insert, CopyCommits, CopyFails,
    StartRestore, Validate, PreBackup, Extract, Archive, MoveIn, RecordHistory, Settle,
    RestartProbe, SetRunning, FlagSource, Compensate, CompleteRollback, RecordReversal,
    SetReverted, SetOff, FailRollback, SetFailed, SetError, EndRestore, RestoreCommits, DryRun,
    StartCleanup, Recheck, Sweep, Mark, CleanupCommits, CompleteCleanup, OtherThread, Age, At,
    BeginFails, Begins, Called, CanCopy, CanWrite, Changed, Commit, Copies, FlagSuspect, Goto,
    GotoAfterCommit, IsValid, MovesBack, NewContent, NoCleanup, NoCopy, NoRestore, Raised,
    Registered, Rejects, Rollback, Statement, Suspected, Switch, Unissued, Unlink, Wanted,
    Without, dbVars, rest, threads, vars, Next

\* A cleanup moves by its own steps, and ends at a crash.
LEMMA CleanupChanges ==
    ASSUME [Next]_vars, cleanup' # cleanup
    PROVE  StartCleanup \/ Recheck \/ Sweep \/ Mark \/ CleanupCommits \/ CompleteCleanup \/
           Crash
BY DEF Autosave, StartServer, StopServer, ServerDies, Read, Insert, CopyCommits, CopyFails,
    StartBackup, Suspend, Flush, Capture, Captured, Resume, StartRestore, Validate, PreBackup,
    Extract, Archive, MoveIn, RecordHistory, Settle, RestartProbe, SetRunning, FlagSource,
    Compensate, CompleteRollback, RecordReversal, SetReverted, SetOff, FailRollback, SetFailed,
    SetError, EndRestore, RestoreCommits, DryRun, OtherThread, Age, At, BeginFails, Begins,
    Called, CanCopy, CanWrite, Changed, Commit, Copies, FlagSuspect, Goto, GotoAfterCommit,
    IsValid, MovesBack, NewContent, NoCopy, NoRestore, Raised, Registered, Rejects, Rollback,
    Statement, Suspected, Switch, Unissued, Wanted, Without, dbVars, rest, threads, vars, Next

\* Only a dry run shows candidates.
LEMMA PreviewsChanges ==
    ASSUME [Next]_vars, previews' # previews
    PROVE  DryRun
BY DEF Autosave, StartServer, StopServer, ServerDies, Read, Insert, CopyCommits, CopyFails,
    StartBackup, Suspend, Flush, Capture, Captured, Resume, StartRestore, Validate, PreBackup,
    Extract, Archive, MoveIn, RecordHistory, Settle, RestartProbe, SetRunning, FlagSource,
    Compensate, CompleteRollback, RecordReversal, SetReverted, SetOff, FailRollback, SetFailed,
    SetError, EndRestore, RestoreCommits, StartCleanup, Recheck, Sweep, Mark, CleanupCommits,
    CompleteCleanup, OtherThread, Age, Crash, At, BeginFails, Begins, Called, CanCopy, CanWrite,
    Changed, Commit, Copies, FlagSuspect, Goto, GotoAfterCommit, IsValid, MovesBack, NewContent,
    NoCleanup, NoCopy, NoRestore, Raised, Registered, Rejects, Rollback, Statement, Suspected,
    Switch, Unissued, Unlink, Wanted, Without, dbVars, rest, threads, vars, Next

\* Artifacts age as time passes.
LEMMA OldChanges ==
    ASSUME [Next]_vars, old' # old
    PROVE  Age
BY DEF Autosave, StartServer, StopServer, ServerDies, Read, Insert, CopyCommits, CopyFails,
    StartBackup, Suspend, Flush, Capture, Captured, Resume, StartRestore, Validate, PreBackup,
    Extract, Archive, MoveIn, RecordHistory, Settle, RestartProbe, SetRunning, FlagSource,
    Compensate, CompleteRollback, RecordReversal, SetReverted, SetOff, FailRollback, SetFailed,
    SetError, EndRestore, RestoreCommits, DryRun, StartCleanup, Recheck, Sweep, Mark,
    CleanupCommits, CompleteCleanup, OtherThread, Crash, At, BeginFails, Begins, Called,
    CanCopy, CanWrite, Changed, Commit, Copies, FlagSuspect, Goto, GotoAfterCommit, IsValid,
    MovesBack, NewContent, NoCleanup, NoCopy, NoRestore, Raised, Registered, Rejects, Rollback,
    Statement, Suspected, Switch, Unissued, Unlink, Wanted, Without, dbVars, rest, threads,
    vars, Next

\* Ids are used by copies, contents by the server, crashes by crashes.
LEMMA IssuedChanges ==
    ASSUME [Next]_vars, issued' # issued
    PROVE  Autosave \/ Flush \/ StartBackup \/ Capture \/ Validate \/ Crash
BY DEF StartServer, StopServer, ServerDies, Read, Insert, CopyCommits, CopyFails, Suspend,
    Captured, Resume, StartRestore, PreBackup, Extract, Archive, MoveIn, RecordHistory, Settle,
    RestartProbe, SetRunning, FlagSource, Compensate, CompleteRollback, RecordReversal,
    SetReverted, SetOff, FailRollback, SetFailed, SetError, EndRestore, RestoreCommits, DryRun,
    StartCleanup, Recheck, Sweep, Mark, CleanupCommits, CompleteCleanup, OtherThread, Age, At,
    BeginFails, Begins, CanCopy, Commit, FlagSuspect, Goto, GotoAfterCommit, IsValid, MovesBack,
    NoCleanup, NoCopy, NoRestore, Raised, Registered, Rejects, Rollback, Statement, Suspected,
    Switch, Unlink, Wanted, Without, dbVars, rest, threads, vars, Next

\* Only a crash leaves rows that block the world.
LEMMA BlockedChanges ==
    ASSUME [Next]_vars, blocked' # blocked
    PROVE  Crash
BY DEF Autosave, StartServer, StopServer, ServerDies, Read, Insert, CopyCommits, CopyFails,
    StartBackup, Suspend, Flush, Capture, Captured, Resume, StartRestore, Validate, PreBackup,
    Extract, Archive, MoveIn, RecordHistory, Settle, RestartProbe, SetRunning, FlagSource,
    Compensate, CompleteRollback, RecordReversal, SetReverted, SetOff, FailRollback, SetFailed,
    SetError, EndRestore, RestoreCommits, DryRun, StartCleanup, Recheck, Sweep, Mark,
    CleanupCommits, CompleteCleanup, OtherThread, Age, At, BeginFails, Begins, Called, CanCopy,
    CanWrite, Changed, Commit, Copies, FlagSuspect, Goto, GotoAfterCommit, IsValid, MovesBack,
    NewContent, NoCleanup, NoCopy, NoRestore, Raised, Registered, Rejects, Rollback, Statement,
    Suspected, Switch, Unissued, Unlink, Wanted, Without, dbVars, rest, threads, vars, Next

-----------------------------------------------------------------------------
(* The moves of a restore and the statements it executes.                  *)

\* The artifact, the world and the server a restore is about.
SameCase ==
    /\ restore'.source = restore.source /\ restore'.original = restore.original
    /\ restore'.wasRunning = restore.wasRunning

\* A restore goes on to p, at once or after its commit.
Onward(p, due) ==
    /\ restore' \in RestoreType
    /\ restore'.pc = p /\ restore'.due = due /\ SameCase
    /\ restore'.round = restore.round /\ restore'.pre = restore.pre
    /\ restore'.moved = restore.moved

\* Where an exception leads.
Failing == IF restore.round = "restore" THEN "raised" ELSE "revert_failed"

\* A step without a statement.
LEMMA GotoMoves ==
    ASSUME Shapes, NEW p \in RestoreSteps, Goto(p)
    PROVE  Onward(p, restore.due)
BY DEF Shapes, Goto, Onward, SameCase, RestoreType

\* A step whose statement awaits its commit.
LEMMA CommitMoves ==
    ASSUME Shapes, NEW p \in RestoreSteps, GotoAfterCommit(p)
    PROVE  Onward(p, TRUE)
BY DEF Shapes, GotoAfterCommit, Onward, SameCase, RestoreType

\* An exception.
LEMMA RaisedMoves ==
    ASSUME Shapes, restore' = Raised(restore)
    PROVE  Onward(Failing, restore.due)
<1>1. Failing \in RestoreSteps
  BY DEF Failing, RestoreSteps
<1>2. restore' = [restore EXCEPT !.pc = Failing]
  BY DEF Raised, Failing
<1> QED
  BY <1>1, <1>2 DEF Shapes, Onward, SameCase, RestoreType

\* An exception after the artifact is flagged.
LEMMA FlagMoves ==
    ASSUME Shapes, restore' = [Raised(restore) EXCEPT !.due = TRUE]
    PROVE  Onward(Failing, TRUE)
<1>1. Failing \in RestoreSteps
  BY DEF Failing, RestoreSteps
<1>2. restore' = [restore EXCEPT !.pc = Failing, !.due = TRUE]
  BY DEF Raised, Failing, Shapes, RestoreType
<1> QED
  BY <1>1, <1>2 DEF Shapes, Onward, SameCase, RestoreType

\* The rows keep what the properties tell of them, but for the suspicion.
KeepsRows ==
    \A a \in Artifact :
        /\ db'.rows[a].status = db.rows[a].status
        /\ db'.rows[a].checksum = db.rows[a].checksum
        /\ db'.rows[a].category = db.rows[a].category

\* A statement of a restore, which leaves this outcome and state in the tables.
Writes(outcome, state) ==
    /\ db' \in Tables /\ saved' = saved /\ txn' = TRUE
    /\ KeepsRows /\ db'.outcome = outcome /\ db'.state = state

\* A statement whose rows are not modelled writes nothing of the tables.
LEMMA SameWrites ==
    ASSUME Shapes, Statement(db)
    PROVE  Writes(db.outcome, db.state)
BY DEF Shapes, Statement, Writes, KeepsRows

\* A flag changes nothing the properties tell of a row.
LEMMA SuspectWrites ==
    ASSUME Shapes, NEW a \in Artifact, Statement(Suspected(a))
    PROVE  Writes(db.outcome, db.state)
<1> DEFINE Rows == [status: {"absent", "live", "deleted"}, suspect: BOOLEAN,
                    category: Categories, checksum: Content \cup {None, Partial, Torn}]
           row == [db.rows[a] EXCEPT !.suspect = TRUE]
           rows == [db.rows EXCEPT ![a] = row]
<1>1. db' = [db EXCEPT !.rows = rows]
  BY DEF Statement, Suspected
<1>2. /\ db \in Tables /\ db.rows \in [Artifact -> Rows]
  BY DEF Shapes, Tables
<1>3. /\ row \in Rows /\ row.status = db.rows[a].status /\ row.checksum = db.rows[a].checksum
      /\ row.category = db.rows[a].category
  BY <1>2
<1> HIDE DEF row, Rows
<1>4. /\ rows \in [Artifact -> Rows] /\ rows[a] = row
      /\ \A x \in Artifact \ {a} : rows[x] = db.rows[x]
  BY <1>2, <1>3
<1> HIDE DEF rows
<1>5. db' \in Tables /\ db'.rows = rows /\ db'.outcome = db.outcome /\ db'.state = db.state
  BY <1>1, <1>2, <1>4 DEF Tables, Rows
<1>6. KeepsRows
  BY <1>3, <1>4, <1>5 DEF KeepsRows
<1> QED
  BY <1>5, <1>6 DEF Statement, Writes

\* A statement on the outcome of a restore.
LEMMA OutcomeWrites ==
    ASSUME Shapes, NEW o \in {"none", "success", "reverted", "failed"},
           Statement([db EXCEPT !.outcome = o])
    PROVE  Writes(o, db.state)
BY DEF Shapes, Statement, Writes, KeepsRows, Tables

\* A statement on the state of the world.
LEMMA StateWrites ==
    ASSUME Shapes, NEW s \in {"off", "running", "error"},
           Statement([db EXCEPT !.state = s])
    PROVE  Writes(db.outcome, s)
BY DEF Shapes, Statement, Writes, KeepsRows, Tables

-----------------------------------------------------------------------------
(* What each step does to the tables.                                      *)

\* The least of a set is its minimum.
LEMMA LeastIsMin ==
    ASSUME NEW S \in SUBSET Nat, NEW a \in S, \A b \in S : a <= b
    PROVE  Min(S) = a
<1>1. \A x \in S : (\A y \in S : x =< y) => x = a
  OBVIOUS
<1> QED
  BY <1>1 DEF Min

\* A row changes and nothing else of the tables the writer sees.
Rewrites(a, status, category, checksum) ==
    /\ db' \in Tables /\ saved' = saved /\ txn' = TRUE
    /\ db'.rows[a].status = status /\ db'.rows[a].category = category
    /\ db'.rows[a].checksum = checksum
    /\ \A x \in Artifact \ {a} : db'.rows[x] = db.rows[x]
    /\ db'.outcome = db.outcome /\ db'.state = db.state

\* The rows of artifacts.
RowType == [status: {"absent", "live", "deleted"}, suspect: BOOLEAN,
            category: Categories, checksum: Content \cup {None, Partial, Torn}]

\* A statement that replaces one row.
LEMMA RowWritten ==
    ASSUME Shapes, NEW a \in Artifact, NEW row \in RowType,
           Statement([db EXCEPT !.rows = [db.rows EXCEPT ![a] = row]])
    PROVE  Rewrites(a, row.status, row.category, row.checksum)
<1> DEFINE rows == [db.rows EXCEPT ![a] = row]
<1>1. db \in Tables /\ db.rows \in [Artifact -> RowType]
  BY DEF Shapes, Tables, RowType
<1>2. /\ rows \in [Artifact -> RowType] /\ rows[a] = row
      /\ \A x \in Artifact \ {a} : rows[x] = db.rows[x]
  BY <1>1
<1>3. db' = [db EXCEPT !.rows = rows]
  BY DEF Statement
<1> HIDE DEF rows
<1>4. db' \in Tables /\ db'.rows = rows /\ db'.outcome = db.outcome /\ db'.state = db.state
  BY <1>1, <1>2, <1>3 DEF Tables, RowType
<1> QED
  BY <1>2, <1>4 DEF Statement, Rewrites

\* _write_and_register inserts the row of its copy.
LEMMA InsertWrites ==
    ASSUME Shapes, Turns, Insert
    PROVE  Rewrites(copy.art, "live", copy.category, copy.content)
<1>1. copy.art \in Artifact
  BY DEF Shapes, Turns, Insert, CopyType
<1>2. Registered(copy.category, copy.content) \in RowType
  BY DEF Shapes, CopyType, Registered, RowType, Directories
<1>3. Statement([db EXCEPT !.rows =
                    [db.rows EXCEPT ![copy.art] = Registered(copy.category, copy.content)]])
  BY DEF Insert
<1>4. Rewrites(copy.art, Registered(copy.category, copy.content).status,
               Registered(copy.category, copy.content).category,
               Registered(copy.category, copy.content).checksum)
  BY <1>1, <1>2, <1>3, RowWritten
<1> QED
  BY <1>4 DEF Registered

\* A cleanup marks the oldest artifact it has still to do.
LEMMA MarkWrites ==
    ASSUME Shapes, Mark, NEW a \in cleanup.todo, \A b \in cleanup.todo : a <= b
    PROVE  /\ Rewrites(a, "deleted", db.rows[a].category, db.rows[a].checksum)
           /\ cleanup' = [cleanup EXCEPT !.pc = "sweep", !.todo = cleanup.todo \ {a}]
<1>1. cleanup.todo \in SUBSET Artifact
  BY DEF Shapes, CleanupType
<1>2. a \in Artifact /\ cleanup.todo \in SUBSET Nat
  BY <1>1 DEF Artifact
<1>3. Min(cleanup.todo) = a
  BY <1>2, LeastIsMin
<1> DEFINE row == [db.rows[a] EXCEPT !.status = "deleted"]
<1>4. /\ row \in RowType /\ row.status = "deleted" /\ row.checksum = db.rows[a].checksum
      /\ row.category = db.rows[a].category
  BY <1>2 DEF Shapes, Tables, RowType
<1>5. /\ Statement([db EXCEPT !.rows = [db.rows EXCEPT ![a] = row]])
      /\ cleanup' = [cleanup EXCEPT !.pc = "sweep", !.todo = cleanup.todo \ {a}]
  BY <1>3 DEF Mark
<1> HIDE DEF row
<1>6. Rewrites(a, row.status, row.category, row.checksum)
  BY <1>2, <1>4, <1>5, RowWritten
<1> QED
  BY <1>4, <1>5, <1>6

\* No statement, no commit, no rollback.
Untouched == db' = db /\ saved' = saved /\ txn' = txn

\* The steps of a restore that write its outcome or the state of the world.
Tells == RecordHistory \/ Settle \/ SetRunning \/ SetReverted \/ SetOff \/ SetFailed \/ SetError

\* A statement of a restore, which its own commit follows, or its exception.
RestoreWrites ==
    /\ \E o \in {"none", "success", "reverted", "failed"}, s \in {"off", "running", "error"} :
          Writes(o, s) /\ (Tells \/ (o = db.outcome /\ s = db.state))
    /\ past' = past /\ copy' = copy /\ files' = files /\ issued' = issued /\ cleanup' = cleanup
    /\ previews' = previews
    /\ restore'.due \/ (RecordHistory /\ db.rows[restore.pre].status = "absent")

\* What a step does to the tables.
TablesStep ==
    \/ Untouched \/ Commit \/ BeginFails
    \/ Insert \/ Mark \/ Crash
    \/ CopyFails /\ Rollback
    \/ StartServer \/ StopServer \/ StartRestore
    \/ RestoreWrites

\* Each step does one of these.
LEMMA TablesAreStepped ==
    ASSUME Shapes, Turns, [Next]_vars
    PROVE  TablesStep
<1> DEFINE Outcomes == {"none", "success", "reverted", "failed"}
           States == {"off", "running", "error"}
<1>0. db.outcome \in Outcomes /\ db.state \in States
  BY DEF Shapes, Tables
<1>f. ASSUME NEW a \in Artifact, FlagSuspect(a)
      PROVE  Writes(db.outcome, db.state) /\ restore'.due
  BY <1>f, SuspectWrites, FlagMoves DEF FlagSuspect, Onward
<1>s. restore.pc \notin {"idle", "crashed"} => restore.source \in Artifact
  BY DEF Turns
<1>1. CASE Validate
  <2>1. CASE Untouched
    BY <2>1 DEF TablesStep
  <2>3. CASE FlagSuspect(restore.source) /\ Unissued
    <3>1. restore.source \in Artifact
      BY <1>s, <1>1 DEF Validate, At
    <3>2. Writes(db.outcome, db.state) /\ restore'.due
      BY <1>f, <2>3, <3>1
    <3>3. RestoreWrites
      BY <1>0, <1>1, <2>3, <3>2 DEF RestoreWrites, Validate, Unissued
    <3> QED
      BY <3>3 DEF TablesStep
  <2> QED
    BY <1>1, <2>1, <2>3 DEF Validate, Rejects, Untouched, dbVars
<1>2. CASE Extract
  <2>1. CASE Untouched
    BY <2>1 DEF TablesStep
  <2>2. CASE FlagSuspect(Wanted)
    <3>1. Wanted \in Artifact
      BY <1>s, <1>2 DEF Extract, At, Wanted, Turns, Artifact, Shapes, RestoreType
    <3>2. Writes(db.outcome, db.state) /\ restore'.due
      BY <1>f, <2>2, <3>1
    <3>3. RestoreWrites
      BY <1>0, <1>2, <2>2, <3>2 DEF RestoreWrites, Extract, rest
    <3> QED
      BY <3>3 DEF TablesStep
  <2> QED
    BY <1>2, <2>1, <2>2 DEF Extract, Rejects, Untouched, dbVars
<1>3. CASE RecordHistory
  <2>1. CASE db.rows[restore.pre].status = "absent"
    <3>1. Writes(db.outcome, db.state)
      BY <1>3, <2>1, SameWrites DEF RecordHistory
    <3>2. RestoreWrites
      BY <1>0, <1>3, <2>1, <3>1 DEF RestoreWrites, RecordHistory, rest, Tells
    <3> QED
      BY <3>2 DEF TablesStep
  <2>2. CASE db.rows[restore.pre].status # "absent"
    <3>1. Writes("success", db.state) /\ restore'.due
      BY <1>3, <2>2, OutcomeWrites, CommitMoves DEF RecordHistory, Onward, RestoreSteps
    <3>2. RestoreWrites
      BY <1>0, <1>3, <3>1 DEF RestoreWrites, RecordHistory, rest, Tells
    <3> QED
      BY <3>2 DEF TablesStep
  <2> QED
    BY <2>1, <2>2
<1>4. CASE Settle
  <2>1. Writes(db.outcome, "off") /\ restore'.due
    BY <1>4, StateWrites, CommitMoves DEF Settle, At, Onward, RestoreSteps
  <2>2. RestoreWrites
    BY <1>0, <1>4, <2>1 DEF RestoreWrites, Settle, rest, Tells
  <2> QED
    BY <2>2 DEF TablesStep
<1>5. CASE SetRunning
  <2>1. Writes(db.outcome, "running") /\ restore'.due
    BY <1>5, StateWrites, CommitMoves DEF SetRunning, At, Onward, RestoreSteps
  <2>2. RestoreWrites
    BY <1>0, <1>5, <2>1 DEF RestoreWrites, SetRunning, rest, Tells
  <2> QED
    BY <2>2 DEF TablesStep
<1>6. CASE FlagSource
  <2>1. Writes(db.outcome, db.state) /\ restore'.due
    BY <1>6, SuspectWrites, <1>s, CommitMoves DEF FlagSource, At, Onward, RestoreSteps
  <2>2. RestoreWrites
    BY <1>0, <1>6, <2>1 DEF RestoreWrites, FlagSource, rest, Tells
  <2> QED
    BY <2>2 DEF TablesStep
<1>7. CASE RecordReversal
  <2>1. Writes(db.outcome, db.state) /\ restore'.due
    BY <1>7, SameWrites, CommitMoves DEF RecordReversal, At, Onward, RestoreSteps
  <2>2. RestoreWrites
    BY <1>0, <1>7, <2>1 DEF RestoreWrites, RecordReversal, rest, Tells
  <2> QED
    BY <2>2 DEF TablesStep
<1>8. CASE SetReverted
  <2>1. Writes("reverted", db.state) /\ restore'.due
    BY <1>8, OutcomeWrites, CommitMoves DEF SetReverted, At, Onward, RestoreSteps
  <2>2. RestoreWrites
    BY <1>0, <1>8, <2>1 DEF RestoreWrites, SetReverted, rest, Tells
  <2> QED
    BY <2>2 DEF TablesStep
<1>9. CASE SetOff
  <2>1. Writes(db.outcome, "off") /\ restore'.due
    BY <1>9, StateWrites, CommitMoves DEF SetOff, At, Onward, RestoreSteps
  <2>2. RestoreWrites
    BY <1>0, <1>9, <2>1 DEF RestoreWrites, SetOff, rest, Tells
  <2> QED
    BY <2>2 DEF TablesStep
<1>10. CASE SetFailed
  <2>1. Writes("failed", db.state) /\ restore'.due
    BY <1>10, OutcomeWrites, CommitMoves DEF SetFailed, At, Onward, RestoreSteps
  <2>2. RestoreWrites
    BY <1>0, <1>10, <2>1 DEF RestoreWrites, SetFailed, rest, Tells
  <2> QED
    BY <2>2 DEF TablesStep
<1>11. CASE SetError
  <2>1. Writes(db.outcome, "error") /\ restore'.due
    BY <1>11, StateWrites, CommitMoves DEF SetError, At, Onward, RestoreSteps
  <2>2. RestoreWrites
    BY <1>0, <1>11, <2>1 DEF RestoreWrites, SetError, rest, Tells
  <2> QED
    BY <2>2 DEF TablesStep
<1>12. CASE CopyFails
  BY <1>12 DEF CopyFails, dbVars, Untouched, TablesStep
<1>13. CASE
    Autosave \/ ServerDies \/ Read \/ CopyCommits \/ StartBackup \/ Suspend \/ Flush \/ Capture
    \/ Captured \/ Resume \/ PreBackup \/ Archive \/ MoveIn \/ RestartProbe \/ Compensate \/
    CompleteRollback \/ FailRollback \/ EndRestore \/ RestoreCommits \/ DryRun \/ StartCleanup
    \/ Recheck \/ Sweep \/ CleanupCommits \/ CompleteCleanup \/ OtherThread \/ Age
    \/ UNCHANGED vars
  BY <1>13
  DEF TablesStep, Untouched, Autosave, ServerDies, Read, CopyCommits, StartBackup, Suspend,
    Flush, Capture, Captured, Resume, PreBackup, Archive, MoveIn, RestartProbe, Compensate,
    CompleteRollback, FailRollback, EndRestore, RestoreCommits, DryRun, StartCleanup, Recheck,
    Sweep, CleanupCommits, CompleteCleanup, OtherThread, Age, CanWrite, NewContent, Changed,
    dbVars, threads, rest, CanCopy, Unissued, Copies, Called, NoCopy, At, Goto, Raised,
    MovesBack, Begins, NoRestore, NoCleanup, Unlink, vars
<1> QED
  BY <1>1, <1>2, <1>3, <1>4, <1>5, <1>6, <1>7, <1>8, <1>9, <1>10, <1>11, <1>12, <1>13
  DEF Next, TablesStep

-----------------------------------------------------------------------------
(* The shapes of the state.                                                *)

\* What the properties except happens at a failed BEGIN, a failed copy, a failed save-on,
\* and a removal.
LEMMA PastChanges ==
    ASSUME [Next]_vars, past' # past
    PROVE  BeginFails \/ CopyFails \/ Resume \/ Sweep
BY DEF Autosave, StartServer, StopServer, ServerDies, Read, Insert, CopyCommits, StartBackup,
    Suspend, Flush, Capture, Captured, StartRestore, Validate, PreBackup, Extract, Archive,
    MoveIn, RecordHistory, Settle, RestartProbe, SetRunning, FlagSource, Compensate,
    CompleteRollback, RecordReversal, SetReverted, SetOff, FailRollback, SetFailed, SetError,
    EndRestore, RestoreCommits, DryRun, StartCleanup, Recheck, Mark, CleanupCommits,
    CompleteCleanup, OtherThread, Age, Crash, CanWrite, NewContent, Changed, dbVars, Switch,
    threads, rest, Statement, Registered, Commit, CanCopy, Unissued, Copies, Called, NoCopy,
    NoRestore, At, IsValid, Rejects, Raised, FlagSuspect, Suspected, Goto, Wanted, MovesBack,
    GotoAfterCommit, Begins, Rollback, NoCleanup, vars, Next

\* A restore moves by its own steps, and is cut off by a crash.
LEMMA RestoreChanges ==
    ASSUME [Next]_vars, restore' # restore
    PROVE  \/ StartRestore \/ Validate \/ PreBackup \/ Extract \/ Archive \/ MoveIn \/ RecordHistory
           \/ Settle \/ RestartProbe \/ SetRunning \/ FlagSource \/ Compensate \/ CompleteRollback
           \/ RecordReversal \/ SetReverted \/ SetOff \/ FailRollback \/ SetFailed \/ SetError
           \/ EndRestore \/ RestoreCommits \/ Crash
BY DEF Autosave, StartServer, StopServer, ServerDies, Read, Insert, CopyCommits, CopyFails,
    StartBackup, Suspend, Flush, Capture, Captured, Resume, DryRun, StartCleanup, Recheck,
    Sweep, Mark, CleanupCommits, CompleteCleanup, OtherThread, Age, CanWrite, NewContent,
    Changed, dbVars, Switch, threads, rest, Statement, Registered, Commit, Rollback, Without,
    CanCopy, Unissued, Copies, Called, NoCopy, Begins, BeginFails, NoCleanup, Unlink, vars, Next

\* What has been excepted stays so.
PastGrows ==
    /\ past' \in PastType
    /\ past.undone => past'.undone
    /\ past.unlinked \subseteq past'.unlinked /\ past.stranded \subseteq past'.stranded

\* No step takes back what was undone, unlinked or stranded.
LEMMA PastStep ==
    ASSUME Shapes, Turns, [Next]_vars
    PROVE  PastGrows
<1>1. past \in PastType /\ server \in ServerType /\ copy \in CopyType
  BY DEF Shapes
<1>2. CASE past' = past
  BY <1>1, <1>2 DEF PastGrows
<1>3. CASE BeginFails
  BY <1>1, <1>3 DEF BeginFails, PastGrows, PastType
<1>4. CASE CopyFails /\ past' # past
  <2>1. copy.art \in Artifact
    BY <1>1, <1>4 DEF CopyFails, CopyType, Turns
  <2>2. past' = [past EXCEPT
           !.undone = @ \/ Without(copy.art) # saved,
           !.stranded = @ \cup {a \in {copy.art} : saved.rows[a].status = "live"}]
    BY <1>4 DEF CopyFails
  <2> QED
    BY <1>1, <2>1, <2>2 DEF PastGrows, PastType
<1>5. CASE Resume /\ past' # past
  BY <1>1, <1>5 DEF Resume, PastGrows, PastType, ServerType
<1>6. CASE Sweep /\ past' # past
  BY <1>1, <1>6 DEF Sweep, Unlink, PastGrows, PastType
<1> QED
  BY <1>2, <1>3, <1>4, <1>5, <1>6, PastChanges

\* A content a server may make is one of the contents.
LEMMA NewContentFits ==
    ASSUME Shapes, CanWrite
    PROVE  NewContent \in Content
BY BoundsAssumption DEF Shapes, Bounded, IssuedType, CanWrite, NewContent, Content

\* A switch is about an artifact.
LEMMA WantedIsThere ==
    ASSUME Shapes, Turns, restore.pc \in Switching
    PROVE  Wanted \in Artifact
BY DEF Shapes, Turns, Switching, Wanted, RestoreType, Artifact

\* Each step keeps the shape of the directories.
LEMMA DiskShape ==
    ASSUME Shapes, Turns, [Next]_vars
    PROVE  disk' \in DiskType
<1>1. disk \in DiskType /\ restore \in RestoreType
  BY DEF Shapes
<1>2. CASE disk' = disk
  BY <1>1, <1>2
<1>3. CASE Autosave \/ (Flush /\ disk' # disk)
  <2>1. NewContent \in Directories
    BY <1>3, NewContentFits DEF Autosave, Flush, Directories
  <2>2. disk' = [disk EXCEPT !.dir = NewContent]
    BY <1>3 DEF Autosave, Flush
  <2> QED
    BY <1>1, <2>1, <2>2 DEF DiskType
<1>4. CASE Extract /\ disk' # disk
  <2>1. IsValid(Wanted) /\ (disk' = [disk EXCEPT !.staging = files[Wanted]]
                            \/ disk' = [disk EXCEPT !.staging = None])
    BY <1>4 DEF Extract
  <2>2. Wanted \in Artifact
    BY <1>4, WantedIsThere DEF Extract, At, Switching
  <2>3. files[Wanted] \in Directories
    BY <2>2 DEF Shapes, FilesType
  <2> QED
    BY <1>1, <2>1, <2>3 DEF DiskType, Directories
<1>a. /\ disk.dir \in Directories /\ disk.archives \in SUBSET (Directories \ {None})
      /\ disk.staging \in Directories /\ restore.moved \in Directories
      /\ None \in Directories /\ Partial \in Directories
  BY <1>1 DEF DiskType, RestoreType, Directories
<1>5. CASE Archive /\ disk' # disk
  <2>1. disk.archives \cup ({disk.dir} \ {None}) \in SUBSET (Directories \ {None})
    BY <1>a
  <2>2. disk' = [disk EXCEPT !.dir = None, !.archives = disk.archives \cup ({disk.dir} \ {None})]
    BY <1>5 DEF Archive
  <2> QED
    BY <1>1, <1>a, <2>1, <2>2 DEF DiskType
<1>6. CASE MoveIn
  <2>1. CASE disk' = [disk EXCEPT !.dir = disk.staging, !.staging = None]
    BY <1>1, <1>a, <2>1 DEF DiskType
  <2>2. CASE disk' = [disk EXCEPT !.dir = restore.moved,
                                  !.archives = disk.archives \ {restore.moved}]
    <3>1. disk.archives \ {restore.moved} \in SUBSET (Directories \ {None})
      BY <1>a
    <3> QED
      BY <1>1, <1>a, <2>2, <3>1 DEF DiskType
  <2>3. CASE \E left \in {None, Partial} : disk' = [disk EXCEPT !.dir = left]
    BY <1>1, <1>a, <2>3 DEF DiskType
  <2> QED
    BY <1>6, <2>1, <2>2, <2>3 DEF MoveIn, MovesBack
<1>7. CASE Crash
  BY <1>1, <1>7 DEF Crash, DiskType, Directories
<1> QED
  BY <1>2, <1>3, <1>4, <1>5, <1>6, <1>7, DiskChanges

\* Each step keeps the shape of the files.
LEMMA FilesShape ==
    ASSUME Shapes, Turns, [Next]_vars
    PROVE  files' \in FilesType
<1>1. files \in FilesType /\ copy \in CopyType /\ None \in Directories
  BY DEF Shapes, Directories
<1>2. CASE Read
  BY <1>1, <1>2 DEF Read, FilesType, CopyType
<1>3. CASE CopyFails
  BY <1>1, <1>3 DEF CopyFails, FilesType
<1>4. CASE Sweep
  BY <1>1, <1>4 DEF Sweep, Unlink, FilesType
<1> QED
  BY <1>1, <1>2, <1>3, <1>4, FilesChanges

\* An id is left for a copy that may begin.
LEMMA NextArtifact ==
    ASSUME Shapes, CanCopy
    PROVE  issued.artifacts + 1 \in Artifact
BY BoundsAssumption DEF Shapes, IssuedType, CanCopy, Artifact

\* A copy is begun.
LEMMA CopyBegun ==
    ASSUME Shapes, NEW c \in Categories, Copies(c), issued.artifacts + 1 \in Artifact
    PROVE  /\ copy' \in CopyType
           /\ copy'.pc = "read" /\ copy'.art = issued.artifacts + 1 /\ copy'.category = c
           /\ copy'.content = disk.dir
           /\ issued' \in IssuedType /\ issued'.artifacts = issued.artifacts + 1
           /\ issued'.contents = issued.contents /\ issued'.crashes = issued.crashes
<1>1. disk.dir \in Directories /\ issued \in IssuedType
  BY DEF Shapes, DiskType
<1>2. copy' = [pc |-> "read", art |-> issued.artifacts + 1, category |-> c, content |-> disk.dir]
  BY DEF Copies, Called
<1>3. issued' = [issued EXCEPT !.artifacts = @ + 1]
  BY DEF Copies
<1>4. copy' \in CopyType
  BY <1>1, <1>2 DEF CopyType, CopySteps
<1>5. /\ issued' \in IssuedType /\ issued'.artifacts = issued.artifacts + 1
      /\ issued'.contents = issued.contents /\ issued'.crashes = issued.crashes
  BY <1>1, <1>3 DEF IssuedType
<1> QED
  BY <1>2, <1>4, <1>5

\* No copy, no restore and no cleanup have the shape of one.
LEMMA ShapesOfNothing ==
    NoCopy \in CopyType /\ NoRestore \in RestoreType /\ NoCleanup \in CleanupType
BY DEF NoCopy, NoRestore, NoCleanup, CopyType, CopySteps, Categories, Directories, RestoreType,
       RestoreSteps, CleanupType

\* Each step keeps the shape of a copy.
LEMMA CopyShape ==
    ASSUME Shapes, Turns, [Next]_vars
    PROVE  copy' \in CopyType
<1>1. copy \in CopyType
  BY DEF Shapes
<1>2. CASE Autosave
  BY <1>1, <1>2 DEF Autosave, Changed, CopyType, Directories
<1>3. CASE Read \/ Insert \/ CopyCommits \/ CopyFails
  BY <1>1, <1>3 DEF Read, Insert, CopyCommits, CopyFails, CopyType, CopySteps
<1>4. CASE (StartBackup \/ Capture \/ Validate) /\ copy' # copy
  <2>1. issued.artifacts + 1 \in Artifact
    BY <1>4, NextArtifact DEF StartBackup, Capture, Validate, At, Turns
  <2>2. Copies("manual") \/ Copies("pre_restore")
    BY <1>4 DEF StartBackup, Capture, Validate, Unissued
  <2> QED
    BY <2>1, <2>2, CopyBegun DEF Categories
<1>5. CASE Captured \/ PreBackup \/ Crash
  BY <1>5, ShapesOfNothing DEF Captured, PreBackup, Crash
<1> QED
  BY <1>1, <1>2, <1>3, <1>4, <1>5, CopyChanges

\* Each step keeps the shape of the server.
LEMMA ServerShape ==
    ASSUME Shapes, [Next]_vars
    PROVE  server' \in ServerType
<1>1. server \in ServerType
  BY DEF Shapes
<1>2. ASSUME server' = [server EXCEPT !.up = FALSE] PROVE server' \in ServerType
  BY <1>1, <1>2 DEF ServerType
<1>3. ASSUME NEW off \in BOOLEAN, server' = [server EXCEPT !.autosave = off]
      PROVE  server' \in ServerType
  BY <1>1, <1>3 DEF ServerType
<1>4. ASSUME NEW up \in BOOLEAN, server' = [up |-> up, autosave |-> TRUE]
      PROVE  server' \in ServerType
  BY <1>4 DEF ServerType
<1>5. CASE StartServer \/ StopServer \/ RestartProbe
  BY <1>1, <1>4, <1>5 DEF StartServer, StopServer, Switch, RestartProbe
<1>6. CASE ServerDies \/ Suspend \/ Resume
  BY <1>1, <1>2, <1>3, <1>6 DEF ServerDies, Suspend, Resume
<1> QED
  BY <1>1, <1>5, <1>6, ServerChanges

\* Each step keeps the shape of a backup.
LEMMA BackupShape ==
    ASSUME Shapes, [Next]_vars
    PROVE  backup' \in BackupType
<1>1. backup \in BackupType
  BY DEF Shapes
<1>2. ASSUME NEW p \in BackupSteps, backup' = [backup EXCEPT !.pc = p]
      PROVE  backup' \in BackupType
  BY <1>1, <1>2 DEF BackupType
<1>3. ASSUME NEW p \in BackupSteps, NEW r \in BOOLEAN, backup' = [pc |-> p, running |-> r]
      PROVE  backup' \in BackupType
  BY <1>3 DEF BackupType
<1>4. CASE StartBackup \/ Crash
  BY <1>3, <1>4 DEF StartBackup, Crash, BackupSteps
<1>5. CASE Suspend \/ Flush \/ Capture \/ Resume
  BY <1>2, <1>5 DEF Suspend, Flush, Capture, Resume, BackupSteps
<1>6. CASE Captured
  BY <1>2, <1>6 DEF Captured, BackupSteps
<1> QED
  BY <1>1, <1>4, <1>5, <1>6, BackupChanges

\* Each step keeps the shape of a cleanup.
LEMMA CleanupShape ==
    ASSUME Shapes, [Next]_vars
    PROVE  cleanup' \in CleanupType
<1>1. cleanup \in CleanupType
  BY DEF Shapes
<1>2. Candidates \in SUBSET Artifact
  BY DEF Candidates, Live
<1>a. ASSUME NEW p \in {"recheck", "sweep", "mark", "complete"},
             cleanup' = [cleanup EXCEPT !.pc = p]
      PROVE  cleanup' \in CleanupType
  BY <1>1, <1>a DEF CleanupType
<1>b. ASSUME cleanup' = [pc |-> "recheck", candidates |-> Candidates, todo |-> Candidates]
      PROVE  cleanup' \in CleanupType
  BY <1>2, <1>b DEF CleanupType
<1>c. /\ cleanup' = [cleanup EXCEPT !.pc = "sweep"] => cleanup' \in CleanupType
      /\ cleanup' = [cleanup EXCEPT !.pc = "mark"] => cleanup' \in CleanupType
      /\ cleanup' = [cleanup EXCEPT !.pc = "complete"] => cleanup' \in CleanupType
  BY <1>a
<1>3. CASE StartCleanup
  BY <1>1, <1>b, <1>3 DEF StartCleanup
<1>d. CASE Recheck
  BY <1>c, <1>d, ShapesOfNothing DEF Recheck
<1>4. CASE Sweep \/ CleanupCommits
  BY <1>c, <1>4, ShapesOfNothing DEF Sweep, Unlink, CleanupCommits
<1>5. CASE Mark
  BY <1>1, <1>5 DEF Mark, CleanupType
<1>6. CASE CompleteCleanup \/ Crash
  BY <1>1, <1>6, ShapesOfNothing DEF CompleteCleanup, Crash
<1> QED
  BY <1>1, <1>3, <1>d, <1>4, <1>5, <1>6, CleanupChanges

\* Each step keeps the shape of the previews.
LEMMA PreviewsShape ==
    ASSUME Shapes, [Next]_vars
    PROVE  previews' \in Previews
<1>1. previews \in Previews
  BY DEF Shapes
<1>2. Candidates \in SUBSET Artifact
  BY DEF Candidates, Live
<1> QED
  BY <1>1, <1>2, PreviewsChanges DEF DryRun, Previews

\* Each step keeps the shape of the counters, and uses no id twice.
LEMMA IssuedShape ==
    ASSUME Shapes, Turns, [Next]_vars
    PROVE  issued' \in IssuedType /\ Bounded' /\ issued.artifacts <= issued'.artifacts
<1>1. issued \in IssuedType /\ Bounded
  BY DEF Shapes
<1>2. CASE issued' = issued
  BY <1>1, <1>2 DEF Bounded, IssuedType, Artifact
<1>3. CASE (Autosave \/ Flush) /\ issued' # issued
  BY <1>1, <1>3, BoundsAssumption
  DEF Autosave, Flush, CanWrite, Bounded, IssuedType, Artifact
<1>4. CASE (StartBackup \/ Capture \/ Validate) /\ issued' # issued
  <2>1. issued.artifacts + 1 \in Artifact
    BY <1>4, NextArtifact DEF StartBackup, Capture, Validate, At, Turns
  <2>2. Copies("manual") \/ Copies("pre_restore")
    BY <1>4 DEF StartBackup, Capture, Validate, Unissued
  <2>3. /\ issued' \in IssuedType /\ issued'.artifacts = issued.artifacts + 1
        /\ issued'.contents = issued.contents /\ issued'.crashes = issued.crashes
    BY <2>1, <2>2, CopyBegun DEF Categories
  <2> QED
    BY <1>1, <2>3 DEF Bounded, IssuedType, Artifact
<1>5. CASE Crash
  BY <1>1, <1>5, BoundsAssumption DEF Crash, Bounded, IssuedType, Artifact
<1> QED
  BY <1>2, <1>3, <1>4, <1>5, IssuedChanges

\* Each step keeps the shape of the rest.
LEMMA RestShape ==
    ASSUME Shapes, Turns, [Next]_vars
    PROVE  old' \in Olds /\ blocked' \in BOOLEAN
<1>1. old \in Olds /\ blocked \in BOOLEAN /\ issued \in IssuedType
  BY DEF Shapes
<1>2. 1 .. issued.artifacts \in SUBSET Artifact
  BY <1>1, BoundsAssumption DEF IssuedType, Artifact
<1> QED
  BY <1>1, <1>2, OldChanges, BlockedChanges DEF Age, Crash, Olds

-----------------------------------------------------------------------------
(* The moves of a restore.                                                 *)

\* A restore begins with the artifact it is asked for and the world as it is.
LEMMA StartMoves ==
    ASSUME Shapes, StartRestore
    PROVE  /\ restore' \in RestoreType
           /\ restore'.pc = "validate" /\ ~restore'.due /\ restore'.round = "restore"
           /\ restore'.source \in Artifact /\ saved.rows[restore'.source].status # "absent"
           /\ restore'.original = disk.dir /\ restore'.pre = None /\ restore'.moved = None
<1>1. PICK a \in Artifact, w \in BOOLEAN :
         /\ saved.rows[a].status # "absent"
         /\ restore' = [NoRestore EXCEPT !.pc = "validate", !.source = a, !.original = disk.dir,
                                         !.wasRunning = w]
  BY DEF StartRestore
<1>2. disk.dir \in Directories
  BY DEF Shapes, DiskType
<1>3. restore' = [pc |-> "validate", due |-> FALSE, round |-> "restore", source |-> a, pre |-> None,
                  original |-> disk.dir, moved |-> None, wasRunning |-> w]
  BY <1>1 DEF NoRestore
<1>4. "validate" \in RestoreSteps /\ None \in Directories
  BY DEF RestoreSteps, Directories
<1>5. restore' \in RestoreType
  BY <1>2, <1>3, <1>4 DEF RestoreType
<1>6. /\ restore'.pc = "validate" /\ ~restore'.due /\ restore'.round = "restore"
      /\ restore'.source = a
      /\ restore'.original = disk.dir /\ restore'.pre = None /\ restore'.moved = None
  BY <1>3
<1> QED
  BY <1>1, <1>5, <1>6

\* The artifact is found valid, and the backup before begins.
LEMMA ValidateMoves ==
    ASSUME Shapes, issued.artifacts + 1 \in Artifact,
           restore' = [restore EXCEPT !.pc = "copy", !.pre = issued.artifacts + 1]
    PROVE  /\ restore' \in RestoreType
           /\ restore'.pc = "copy" /\ restore'.due = restore.due /\ SameCase
           /\ restore'.round = restore.round /\ restore'.pre = issued.artifacts + 1
           /\ restore'.moved = restore.moved
<1>1. restore \in RestoreType /\ "copy" \in RestoreSteps
  BY DEF Shapes, RestoreSteps
<1> QED
  BY <1>1 DEF RestoreType, SameCase

\* The directory is archived, and the restore remembers it.
LEMMA ArchiveMoves ==
    ASSUME Shapes, restore' = [restore EXCEPT !.pc = "move_in", !.moved = disk.dir]
    PROVE  /\ restore' \in RestoreType
           /\ restore'.pc = "move_in" /\ restore'.due = restore.due /\ SameCase
           /\ restore'.round = restore.round /\ restore'.pre = restore.pre
           /\ restore'.moved = disk.dir
<1>1. restore \in RestoreType /\ "move_in" \in RestoreSteps /\ disk.dir \in Directories
  BY DEF Shapes, RestoreSteps, DiskType
<1> QED
  BY <1>1 DEF RestoreType, SameCase

\* The rollback begins.
LEMMA CompensateMoves ==
    ASSUME Shapes, restore' = [restore EXCEPT !.pc = "extract", !.round = "rollback"]
    PROVE  /\ restore' \in RestoreType
           /\ restore'.pc = "extract" /\ restore'.due = restore.due /\ SameCase
           /\ restore'.round = "rollback" /\ restore'.pre = restore.pre
           /\ restore'.moved = restore.moved
<1>1. restore \in RestoreType /\ "extract" \in RestoreSteps
  BY DEF Shapes, RestoreSteps
<1> QED
  BY <1>1 DEF RestoreType, SameCase

\* A commit of a restore leaves it at its step.
LEMMA DueMoves ==
    ASSUME Shapes, RestoreCommits
    PROVE  Onward(restore.pc, FALSE)
BY DEF Shapes, RestoreCommits, Onward, SameCase, RestoreType

\* A restore is cut off by a crash.
LEMMA CrashMoves ==
    ASSUME Shapes, Crash
    PROVE  Onward(IF restore.pc = "idle" THEN "idle" ELSE "crashed", FALSE)
<1>1. restore \in RestoreType
  BY DEF Shapes
<1> DEFINE p == IF restore.pc = "idle" THEN "idle" ELSE "crashed"
<1>2. restore' = [restore EXCEPT !.pc = p, !.due = FALSE]
  BY DEF Crash
<1>3. p \in RestoreSteps
  BY DEF RestoreSteps
<1> HIDE DEF p
<1>4. Onward(p, FALSE)
  BY <1>1, <1>2, <1>3 DEF Onward, SameCase, RestoreType
<1> QED
  BY <1>4 DEF p

\* Where each step of a restore leads, but for the steps with a lemma of their own.
Hop(p, due) == restore.pc \in RestoreSteps /\ ~restore.due /\ Onward(p, due)

\* Where each of the other steps leads.
LEMMA Hops ==
    ASSUME Shapes
    PROVE  /\ Validate /\ ~Copies("pre_restore") => \E due \in BOOLEAN : Hop(Failing, due)
           /\ PreBackup => Hop(IF copy.pc = "done" THEN "extract" ELSE Failing, FALSE)
           /\ Extract => Hop("archive", FALSE) \/ \E due \in BOOLEAN : Hop(Failing, due)
           /\ MoveIn => \/ Hop(IF restore.round = "restore" THEN "history" ELSE "complete", FALSE)
                        \/ Hop(Failing, FALSE)
           /\ RecordHistory => IF db.rows[restore.pre].status = "absent" THEN Hop(Failing, FALSE)
                               ELSE Hop("settle", TRUE)
           /\ Settle => Hop("done", TRUE)
           /\ RestartProbe => Hop("running", FALSE) \/ Hop("flag", FALSE)
           /\ SetRunning => Hop("done", TRUE)
           /\ FlagSource => Hop("compensate", TRUE)
           /\ RecordReversal => Hop("reverted", TRUE)
           /\ SetReverted => Hop("off", TRUE)
           /\ SetOff => Hop("done", TRUE)
           /\ SetFailed => Hop("error", TRUE)
           /\ SetError => Hop("raised", TRUE)
           /\ CompleteRollback => Hop("correct", FALSE) \/ Hop("revert_failed", FALSE)
           /\ FailRollback => Hop("failed", FALSE) \/ Hop("raised", FALSE)
<1>0. restore.pc \in RestoreSteps
  BY DEF Shapes, RestoreType
<1>1. ASSUME NEW p \in RestoreSteps, Goto(p), ~restore.due
      PROVE  Hop(p, FALSE)
  BY <1>0, <1>1, GotoMoves DEF Hop, Onward
<1>2. ASSUME NEW p \in RestoreSteps, GotoAfterCommit(p), ~restore.due
      PROVE  Hop(p, TRUE)
  BY <1>0, <1>2, CommitMoves DEF Hop
<1>3. ASSUME restore' = Raised(restore), ~restore.due
      PROVE  Hop(Failing, FALSE)
  BY <1>0, <1>3, RaisedMoves DEF Hop, Onward
<1>4. ASSUME NEW a, FlagSuspect(a), ~restore.due
      PROVE  Hop(Failing, TRUE)
  BY <1>0, <1>4, FlagMoves DEF Hop, FlagSuspect
<1>5. ASSUME NEW a, Rejects(a), ~restore.due
      PROVE  \E due \in BOOLEAN : Hop(Failing, due)
  BY <1>3, <1>4, <1>5 DEF Rejects
<1>6. Validate /\ ~Copies("pre_restore") => \E due \in BOOLEAN : Hop(Failing, due)
  BY <1>5 DEF Validate, At
<1>7. PreBackup => Hop(IF copy.pc = "done" THEN "extract" ELSE Failing, FALSE)
  BY <1>1, <1>3 DEF PreBackup, At, RestoreSteps
<1>8. Extract => Hop("archive", FALSE) \/ \E due \in BOOLEAN : Hop(Failing, due)
  BY <1>1, <1>3, <1>4, <1>5 DEF Extract, At, RestoreSteps
<1>9. MoveIn => \/ Hop(IF restore.round = "restore" THEN "history" ELSE "complete", FALSE)
                \/ Hop(Failing, FALSE)
  BY <1>1, <1>3 DEF MoveIn, At, RestoreSteps
<1>10. RecordHistory => IF db.rows[restore.pre].status = "absent" THEN Hop(Failing, FALSE)
                        ELSE Hop("settle", TRUE)
  BY <1>2, <1>3 DEF RecordHistory, At, RestoreSteps
<1>11. /\ RestartProbe => Hop("running", FALSE) \/ Hop("flag", FALSE)
       /\ CompleteRollback => Hop("correct", FALSE) \/ Hop("revert_failed", FALSE)
       /\ FailRollback => Hop("failed", FALSE) \/ Hop("raised", FALSE)
  BY <1>1 DEF RestartProbe, CompleteRollback, FailRollback, At, RestoreSteps
<1>12. /\ Settle => Hop("done", TRUE)
       /\ SetRunning => Hop("done", TRUE)
       /\ FlagSource => Hop("compensate", TRUE)
       /\ RecordReversal => Hop("reverted", TRUE)
       /\ SetReverted => Hop("off", TRUE)
       /\ SetOff => Hop("done", TRUE)
       /\ SetFailed => Hop("error", TRUE)
       /\ SetError => Hop("raised", TRUE)
  BY <1>2 DEF Settle, SetRunning, FlagSource, RecordReversal, SetReverted, SetOff, SetFailed,
              SetError, At, RestoreSteps
<1> QED
  BY <1>6, <1>7, <1>8, <1>9, <1>10, <1>11, <1>12

\* The backup before begins.
PreBegins ==
    /\ restore' \in RestoreType
    /\ restore'.pc = "copy" /\ ~restore'.due /\ SameCase
    /\ restore'.round = restore.round /\ restore'.pre = issued.artifacts + 1
    /\ restore'.moved = restore.moved
    /\ copy'.pc = "read" /\ copy'.art = issued.artifacts + 1 /\ copy'.category = "pre_restore"
    /\ copy'.content = disk.dir
    /\ issued'.artifacts = issued.artifacts + 1 /\ issued.artifacts + 1 \in Artifact
    /\ Untouched

\* A validation begins the backup before, or fails.
LEMMA ValidateGoes ==
    ASSUME Shapes, Turns, Validate
    PROVE  \/ PreBegins
           \/ Unissued /\ \E due \in BOOLEAN : Hop(Failing, due)
<1>1. ~restore.due /\ issued.artifacts + 1 \in Artifact
  BY NextArtifact DEF Validate, At, Turns
<1>2. CASE Copies("pre_restore")
  <2>1. /\ copy'.pc = "read" /\ copy'.art = issued.artifacts + 1 /\ copy'.category = "pre_restore"
        /\ copy'.content = disk.dir /\ issued'.artifacts = issued.artifacts + 1
    BY <1>1, <1>2, CopyBegun DEF Categories
  <2>2. issued'.artifacts # issued.artifacts
    BY <1>1, <2>1 DEF Artifact, Shapes, IssuedType
  <2>3. restore' = [restore EXCEPT !.pc = "copy", !.pre = issued.artifacts + 1] /\ Untouched
    BY <2>2 DEF Validate, Unissued, dbVars, Untouched
  <2> QED
    BY <1>1, <2>1, <2>3, ValidateMoves DEF PreBegins
<1>3. CASE ~Copies("pre_restore")
  BY <1>3, Hops DEF Validate
<1> QED
  BY <1>2, <1>3

\* Each step keeps the shape of a restore.
LEMMA RestoreShape ==
    ASSUME Shapes, Turns, [Next]_vars
    PROVE  restore' \in RestoreType
<1>1. restore \in RestoreType
  BY DEF Shapes
<1>2. CASE Validate
  BY <1>2, ValidateGoes DEF PreBegins, Hop, Onward
<1>3. CASE Archive
  BY <1>3, ArchiveMoves, RaisedMoves DEF Archive, Onward
<1>4. CASE Compensate
  BY <1>4, CompensateMoves, GotoMoves DEF Compensate, Onward, RestoreSteps
<1>5. CASE PreBackup \/ Extract \/ MoveIn \/ RecordHistory \/ RestartProbe
  BY <1>5, Hops DEF Hop, Onward
<1>6. CASE Settle \/ SetRunning \/ FlagSource \/ CompleteRollback \/ RecordReversal \/ SetReverted
           \/ SetOff \/ FailRollback \/ SetFailed \/ SetError
  BY <1>6, Hops DEF Hop, Onward
<1>7. CASE StartRestore \/ EndRestore \/ RestoreCommits \/ Crash
  BY <1>7, StartMoves, ShapesOfNothing, DueMoves, CrashMoves DEF EndRestore, Onward
<1> QED
  BY <1>1, <1>2, <1>3, <1>4, <1>5, <1>6, <1>7, RestoreChanges

\* The state of the tables a start or stop of the server, or of a restore, leaves.
LEMMA SwitchWrites ==
    ASSUME Shapes, NEW up, NEW s \in {"off", "running", "error"}, Switch(up, s)
    PROVE  /\ db' \in Tables /\ saved' = db' /\ txn' = txn /\ ~txn
           /\ KeepsRows /\ db'.outcome = db.outcome /\ db'.state = s
<1>1. db \in Tables /\ db' = [db EXCEPT !.state = s]
  BY DEF Shapes, Switch
<1> QED
  BY <1>1 DEF Switch, Tables, KeepsRows

\* The tables a restore that begins leaves.
LEMMA StartWrites ==
    ASSUME Shapes, StartRestore
    PROVE  /\ db' \in Tables /\ saved' = db' /\ txn' = txn /\ ~txn
           /\ KeepsRows /\ db'.outcome = "none" /\ db'.state = db.state
<1>1. db \in Tables /\ db' = [db EXCEPT !.outcome = "none"]
  BY DEF Shapes, StartRestore
<1> QED
  BY <1>1 DEF StartRestore, Tables, KeepsRows

\* Each step keeps the shape of the tables.
LEMMA TablesShape ==
    ASSUME Shapes, Turns, Sweeping, [Next]_vars
    PROVE  db' \in Tables /\ saved' \in Tables /\ txn' \in BOOLEAN
<1>1. db \in Tables /\ saved \in Tables /\ txn \in BOOLEAN
  BY DEF Shapes
<1>2. CASE Untouched \/ Commit
  BY <1>1, <1>2 DEF Untouched, Commit
<1>3. CASE BeginFails \/ Crash \/ (CopyFails /\ Rollback)
  BY <1>1, <1>3 DEF BeginFails, Crash, Rollback
<1>4. CASE Insert
  BY <1>1, <1>4, InsertWrites DEF Rewrites
<1>5. CASE Mark
  <2>1. PICK a \in cleanup.todo : \A b \in cleanup.todo : a <= b
    BY <1>5 DEF Mark, Sweeping
  <2> QED
    BY <1>1, <1>5, <2>1, MarkWrites DEF Rewrites
<1>6. CASE StartServer \/ StopServer \/ StartRestore
  BY <1>1, <1>6, SwitchWrites, StartWrites DEF StartServer, StopServer
<1>7. CASE RestoreWrites
  BY <1>1, <1>7 DEF RestoreWrites, Writes
<1> QED
  BY <1>2, <1>3, <1>4, <1>5, <1>6, <1>7, TablesAreStepped DEF TablesStep

\* Shapes is kept by every step.
LEMMA ShapesStep == ASSUME Shapes, Turns, Sweeping, [Next]_vars PROVE Shapes'
BY DiskShape, FilesShape, CopyShape, ServerShape, BackupShape, RestoreShape, CleanupShape,
   PreviewsShape, IssuedShape, RestShape, TablesShape, PastStep
DEF Shapes, PastGrows

-----------------------------------------------------------------------------
(* The turns of the threads.                                               *)

\* A row once committed stays, and is about the same content.
SavedStays ==
    \A a \in Artifact : saved.rows[a].status # "absent" =>
        /\ saved'.rows[a].status # "absent"
        /\ saved'.rows[a].checksum = saved.rows[a].checksum
        /\ saved'.rows[a].category = saved.rows[a].category

\* No commit takes a committed row.
LEMMA SavedStay ==
    ASSUME Shapes, Turns, Ledger, [Next]_vars
    PROVE  SavedStays
<1>1. CASE saved' = saved
  BY <1>1 DEF SavedStays
<1>2. CASE Commit
  BY <1>2 DEF Commit, SavedStays, Ledger, RowKept
<1>3. CASE StartServer \/ StopServer \/ StartRestore
  <2>1. saved' = db' /\ KeepsRows /\ db = saved
    BY <1>3, SwitchWrites, StartWrites DEF StartServer, StopServer, Ledger
  <2> QED
    BY <2>1 DEF KeepsRows, SavedStays
<1> QED
  BY <1>1, <1>2, <1>3, TablesAreStepped
  DEF TablesStep, Untouched, BeginFails, Rollback, Insert, Mark, Statement, Crash,
      RestoreWrites, Writes

\* Turns, but for what it says of the tables.
Places ==
    /\ restore.pc # "idle" => backup.pc = "idle"
    /\ restore.pc = "crashed" => blocked
    /\ blocked => backup.pc = "idle" /\ restore.pc \in {"idle", "crashed"}
    /\ copy.pc # "idle" => \/ restore.pc = "copy" /\ copy.category = "pre_restore"
                              /\ restore.pre = copy.art
                           \/ backup.pc = "copy" /\ copy.category = "manual"
    /\ restore.pc = "copy" => copy.pc # "idle"
    /\ copy.art # None <=> copy.pc # "idle"
    /\ backup.pc \in {"suspend", "flush", "verified"} \/ restore.pc = "validate" => CanCopy
    /\ copy.pc # "idle" => copy.art \in 1..issued.artifacts
    /\ restore.pre # None => restore.pre \in 1..issued.artifacts
    /\ restore.pc \notin {"idle", "validate", "raised", "crashed"} => restore.pre # None
    /\ restore.due => restore.pc \in Due
    /\ IF restore.round = "restore" THEN restore.pc \in First ELSE restore.pc \in Second

\* Turns is that, and that the artifact a restore is about has a row.
LEMMA TurnsParts ==
    Turns <=> /\ Places
              /\ restore.pc \notin {"idle", "crashed"} =>
                    restore.source \in Artifact /\ saved.rows[restore.source].status # "absent"
BY DEF Turns, Places

\* A step that moves no thread keeps the threads in their places.
LEMMA PlacesStay ==
    ASSUME Places, restore' = restore, backup' = backup, blocked' = blocked,
           copy'.pc = copy.pc, copy'.art = copy.art, copy'.category = copy.category,
           issued'.artifacts = issued.artifacts
    PROVE  Places'
BY DEF Places, CanCopy

\* Each step keeps the threads in their places.
LEMMA PlacesStep ==
    ASSUME Shapes, Turns, [Next]_vars
    PROVE  Places'
<1>0. Places
  BY TurnsParts
<1>1. CASE
    StartServer \/ StopServer \/ ServerDies \/ DryRun \/ StartCleanup \/ Recheck \/ Sweep \/
    Mark \/ CleanupCommits \/ CompleteCleanup \/ OtherThread \/ Age
    \/ UNCHANGED vars
  <2>1. /\ restore' = restore /\ backup' = backup /\ blocked' = blocked /\ copy' = copy
        /\ issued' = issued
    BY <1>1
    DEF StartServer, Switch, threads, rest, StopServer, ServerDies, dbVars, DryRun, Rollback,
    StartCleanup, Recheck, NoCleanup, Sweep, Unlink, Mark, Statement, CleanupCommits, Commit,
    CompleteCleanup, OtherThread, Age, vars
  <2> QED
    BY <1>0, <2>1, PlacesStay
<1>2. CASE Autosave
  <2>1. copy'.pc = copy.pc /\ copy'.art = copy.art /\ copy'.category = copy.category
    BY <1>2 DEF Autosave, Changed, Shapes, CopyType
  <2>2. issued'.artifacts = issued.artifacts
    BY <1>2 DEF Autosave, Shapes, IssuedType
  <2>3. restore' = restore /\ backup' = backup /\ blocked' = blocked
    BY <1>2 DEF Autosave
  <2> QED
    BY <1>0, <2>1, <2>2, <2>3, PlacesStay
<1>3. CASE Read \/ Insert \/ CopyCommits \/ CopyFails
  <2>1. copy.pc # "idle" /\ copy'.pc # "idle" /\ copy'.art = copy.art
        /\ copy'.category = copy.category
    BY <1>3 DEF Read, Insert, CopyCommits, CopyFails, Shapes, CopyType
  <2>2. restore' = restore /\ backup' = backup /\ blocked' = blocked /\ issued' = issued
    BY <1>3 DEF Read, Insert, CopyCommits, CopyFails, rest
  <2> QED
    BY <1>0, <2>1, <2>2 DEF Places, CanCopy
<1>a. issued.artifacts \in Nat /\ None # issued.artifacts + 1
  BY MarkersAssumption DEF Shapes, IssuedType, Artifact
<1>4. CASE StartBackup
  <2>1. restore' = restore /\ blocked' = blocked /\ restore.pc = "idle" /\ ~blocked
        /\ backup.pc = "idle"
        /\ CanCopy /\ copy.pc = "idle"
    BY <1>0, <1>4 DEF StartBackup, Places
  <2>2. CASE Copies("manual")
    <3>1. backup'.pc = "copy"
      BY <1>4, <2>2, <1>a, NextArtifact, CopyBegun DEF StartBackup, Unissued, Categories, Shapes
    <3>2. copy'.pc = "read" /\ copy'.art = issued.artifacts + 1 /\ copy'.category = "manual"
          /\ issued'.artifacts = issued.artifacts + 1
      BY <2>1, <2>2, NextArtifact, CopyBegun DEF Categories
    <3> QED
      BY <1>0, <1>a, <2>1, <3>1, <3>2 DEF Places, CanCopy
  <2>3. CASE backup'.pc = "suspend" /\ Unissued
    BY <1>0, <2>1, <2>3 DEF Places, CanCopy, Unissued
  <2> QED
    BY <1>4, <2>2, <2>3 DEF StartBackup
<1>5. CASE Suspend \/ Flush \/ Resume
  <2>1. /\ restore' = restore /\ blocked' = blocked /\ copy' = copy
        /\ backup'.pc \in {"flush", "verified", "resume", "idle"}
        /\ backup.pc \notin {"idle", "copy"}
        /\ backup.pc = "resume" => backup'.pc = "idle"
    BY <1>5 DEF Suspend, Flush, Resume, rest, Shapes, BackupType
  <2>2. issued'.artifacts = issued.artifacts
    BY <1>5 DEF Suspend, Flush, Resume, rest, Shapes, IssuedType
  <2>3. backup.pc \in {"suspend", "flush", "verified", "resume"}
    BY <2>1 DEF Shapes, BackupType, BackupSteps
  <2> QED
    BY <1>0, <2>1, <2>2, <2>3 DEF Places, CanCopy
<1>7. CASE Capture
  <2>1. /\ restore' = restore /\ blocked' = blocked /\ backup.pc = "verified" /\ backup'.pc = "copy"
        /\ Copies("manual") /\ CanCopy /\ copy.pc = "idle" /\ restore.pc = "idle"
    BY <1>0, <1>7 DEF Capture, Places, Shapes, BackupType
  <2>2. copy'.pc = "read" /\ copy'.art = issued.artifacts + 1 /\ copy'.category = "manual"
        /\ issued'.artifacts = issued.artifacts + 1
    BY <2>1, NextArtifact, CopyBegun DEF Categories
  <2> QED
    BY <1>0, <1>a, <2>1, <2>2 DEF Places, CanCopy
<1>8. CASE Captured
  <2>1. /\ restore' = restore /\ blocked' = blocked /\ copy' = NoCopy /\ issued' = issued
        /\ backup.pc = "copy" /\ backup'.pc \in {"resume", "idle"}
    BY <1>8 DEF Captured, rest, Shapes, BackupType
  <2> QED
    BY <1>0, <2>1 DEF Places, CanCopy, NoCopy
<1>9. CASE StartRestore
  <2>1. /\ backup' = backup /\ blocked' = blocked /\ copy' = copy /\ issued' = issued
        /\ backup.pc = "idle" /\ ~blocked /\ restore.pc = "idle" /\ CanCopy
    BY <1>9 DEF StartRestore, rest
  <2> QED
    BY <1>0, <1>9, <2>1, StartMoves DEF Places, CanCopy, First, Early
<1>11. CASE Validate
  <2>1. /\ backup' = backup /\ blocked' = blocked /\ restore.pc = "validate" /\ ~restore.due
        /\ CanCopy
    BY <1>0, <1>11 DEF Validate, At, Places
  <2>2. CASE PreBegins
    BY <1>0, <1>a, <2>1, <2>2
    DEF PreBegins, Places, CanCopy, First, Second, Early, Switching, Due, SameCase
  <2>3. CASE Unissued /\ \E due \in BOOLEAN : Hop(Failing, due)
    BY <1>0, <2>1, <2>3
    DEF Hop, Onward, Places, CanCopy, Unissued, Failing, Due, First, Second, Early, Switching,
        SameCase
  <2> QED
    BY <1>11, <2>2, <2>3, ValidateGoes
<1>12. CASE Archive
  <2>1. /\ backup' = backup /\ blocked' = blocked /\ copy' = copy /\ issued' = issued
        /\ restore.pc = "archive" /\ ~restore.due
    BY <1>12 DEF Archive, At, rest
  <2> QED
    BY <1>0, <1>12, <2>1, ArchiveMoves, RaisedMoves
    DEF Archive, Onward, Places, CanCopy, Failing, Due, First, Second, Switching, SameCase
<1>13. CASE Compensate
  <2>1. /\ backup' = backup /\ blocked' = blocked /\ copy' = copy /\ issued' = issued
        /\ restore.pc = "compensate" /\ ~restore.due
    BY <1>13 DEF Compensate, At
  <2> QED
    BY <1>0, <1>13, <2>1, CompensateMoves, GotoMoves
    DEF Compensate, Onward, Places, CanCopy, Due, First, Second, Switching, SameCase, RestoreSteps
<1>14. CASE EndRestore
  <2>1. /\ backup' = backup /\ blocked' = blocked /\ copy' = copy /\ issued' = issued
        /\ restore.pc \in {"done", "raised"} /\ restore' = NoRestore
    BY <1>14 DEF EndRestore, At, rest
  <2> QED
    BY <1>0, <2>1 DEF Places, CanCopy, NoRestore, First
<1>15. CASE RestoreCommits
  <2>1. /\ backup' = backup /\ blocked' = blocked /\ copy' = copy /\ issued' = issued
    BY <1>15 DEF RestoreCommits, rest
  <2> QED
    BY <1>0, <1>15, <2>1, DueMoves
    DEF Places, CanCopy, Onward, First, Second, Early, Switching, Due
<1>16. CASE Crash
  <2>1. /\ backup'.pc = "idle" /\ copy' = NoCopy
        /\ blocked' = (blocked \/ backup.pc # "idle" \/ restore.pc # "idle")
    BY <1>16 DEF Crash
  <2>2. issued'.artifacts = issued.artifacts
    BY <1>16 DEF Crash, Shapes, IssuedType
  <2>3. blocked' \in BOOLEAN
    BY <2>1 DEF Shapes
  <2>4. CASE restore.pc = "idle"
    BY <1>0, <1>16, <2>1, <2>2, <2>4, CrashMoves
    DEF Onward, Places, CanCopy, NoCopy, First, Second
  <2>5. CASE restore.pc # "idle"
    BY <1>0, <1>16, <2>1, <2>2, <2>5, CrashMoves
    DEF Onward, Places, CanCopy, NoCopy, First, Second
  <2> QED
    BY <2>4, <2>5
<1>17. CASE PreBackup
  <2>1. /\ backup' = backup /\ blocked' = blocked /\ issued' = issued /\ copy' = NoCopy
        /\ restore.pc = "copy" /\ ~restore.due
    BY <1>17 DEF PreBackup, At, rest
  <2>2. Hop("extract", FALSE) \/ Hop(Failing, FALSE)
    BY <1>17, Hops
  <2> QED
    BY <1>0, <2>1, <2>2
    DEF Hop, Onward, SameCase, Places, Failing, Due, First, Second, Early, Switching, CanCopy,
        NoCopy
<1>18. CASE Extract
  <2>1. /\ backup' = backup /\ blocked' = blocked /\ issued' = issued /\ copy' = copy
        /\ restore.pc = "extract" /\ ~restore.due
    BY <1>18 DEF Extract, At, rest
  <2>2. Hop("archive", FALSE) \/ \E due \in BOOLEAN : Hop(Failing, due)
    BY <1>18, Hops
  <2> QED
    BY <1>0, <2>1, <2>2
    DEF Hop, Onward, SameCase, Places, Failing, Due, First, Second, Early, Switching, CanCopy
<1>19. CASE MoveIn
  <2>1. /\ backup' = backup /\ blocked' = blocked /\ issued' = issued /\ copy' = copy
        /\ restore.pc = "move_in" /\ ~restore.due
    BY <1>19 DEF MoveIn, At, rest
  <2>2. \/ Hop(IF restore.round = "restore" THEN "history" ELSE "complete", FALSE)
        \/ Hop(Failing, FALSE)
    BY <1>19, Hops
  <2> QED
    BY <1>0, <2>1, <2>2
    DEF Hop, Onward, SameCase, Places, Failing, Due, First, Second, Early, Switching, CanCopy
<1>20. CASE RecordHistory
  <2>1. /\ backup' = backup /\ blocked' = blocked /\ issued' = issued /\ copy' = copy
        /\ restore.pc = "history" /\ ~restore.due
    BY <1>20 DEF RecordHistory, At, rest
  <2>2. Hop(Failing, FALSE) \/ Hop("settle", TRUE)
    BY <1>20, Hops
  <2> QED
    BY <1>0, <2>1, <2>2
    DEF Hop, Onward, SameCase, Places, Failing, Due, First, Second, Early, Switching, CanCopy
<1>21. CASE RestartProbe
  <2>1. /\ backup' = backup /\ blocked' = blocked /\ issued' = issued /\ copy' = copy
        /\ restore.pc = "settle" /\ ~restore.due
    BY <1>21 DEF RestartProbe, At, rest
  <2>2. Hop("running", FALSE) \/ Hop("flag", FALSE)
    BY <1>21, Hops
  <2> QED
    BY <1>0, <2>1, <2>2
    DEF Hop, Onward, SameCase, Places, Failing, Due, First, Second, Early, Switching, CanCopy
<1>22. CASE Settle
  <2>1. /\ backup' = backup /\ blocked' = blocked /\ issued' = issued /\ copy' = copy
        /\ restore.pc = "settle" /\ ~restore.due
    BY <1>22 DEF Settle, At, rest
  <2>2. Hop("done", TRUE)
    BY <1>22, Hops
  <2> QED
    BY <1>0, <2>1, <2>2
    DEF Hop, Onward, SameCase, Places, Failing, Due, First, Second, Early, Switching, CanCopy
<1>23. CASE SetRunning
  <2>1. /\ backup' = backup /\ blocked' = blocked /\ issued' = issued /\ copy' = copy
        /\ restore.pc = "running" /\ ~restore.due
    BY <1>23 DEF SetRunning, At, rest
  <2>2. Hop("done", TRUE)
    BY <1>23, Hops
  <2> QED
    BY <1>0, <2>1, <2>2
    DEF Hop, Onward, SameCase, Places, Failing, Due, First, Second, Early, Switching, CanCopy
<1>24. CASE FlagSource
  <2>1. /\ backup' = backup /\ blocked' = blocked /\ issued' = issued /\ copy' = copy
        /\ restore.pc = "flag" /\ ~restore.due
    BY <1>24 DEF FlagSource, At, rest
  <2>2. Hop("compensate", TRUE)
    BY <1>24, Hops
  <2> QED
    BY <1>0, <2>1, <2>2
    DEF Hop, Onward, SameCase, Places, Failing, Due, First, Second, Early, Switching, CanCopy
<1>25. CASE CompleteRollback
  <2>1. /\ backup' = backup /\ blocked' = blocked /\ issued' = issued /\ copy' = copy
        /\ restore.pc = "complete" /\ ~restore.due
    BY <1>25 DEF CompleteRollback, At, rest
  <2>2. Hop("correct", FALSE) \/ Hop("revert_failed", FALSE)
    BY <1>25, Hops
  <2> QED
    BY <1>0, <2>1, <2>2
    DEF Hop, Onward, SameCase, Places, Failing, Due, First, Second, Early, Switching, CanCopy
<1>26. CASE RecordReversal
  <2>1. /\ backup' = backup /\ blocked' = blocked /\ issued' = issued /\ copy' = copy
        /\ restore.pc = "correct" /\ ~restore.due
    BY <1>26 DEF RecordReversal, At, rest
  <2>2. Hop("reverted", TRUE)
    BY <1>26, Hops
  <2> QED
    BY <1>0, <2>1, <2>2
    DEF Hop, Onward, SameCase, Places, Failing, Due, First, Second, Early, Switching, CanCopy
<1>27. CASE SetReverted
  <2>1. /\ backup' = backup /\ blocked' = blocked /\ issued' = issued /\ copy' = copy
        /\ restore.pc = "reverted" /\ ~restore.due
    BY <1>27 DEF SetReverted, At, rest
  <2>2. Hop("off", TRUE)
    BY <1>27, Hops
  <2> QED
    BY <1>0, <2>1, <2>2
    DEF Hop, Onward, SameCase, Places, Failing, Due, First, Second, Early, Switching, CanCopy
<1>28. CASE SetOff
  <2>1. /\ backup' = backup /\ blocked' = blocked /\ issued' = issued /\ copy' = copy
        /\ restore.pc = "off" /\ ~restore.due
    BY <1>28 DEF SetOff, At, rest
  <2>2. Hop("done", TRUE)
    BY <1>28, Hops
  <2> QED
    BY <1>0, <2>1, <2>2
    DEF Hop, Onward, SameCase, Places, Failing, Due, First, Second, Early, Switching, CanCopy
<1>29. CASE FailRollback
  <2>1. /\ backup' = backup /\ blocked' = blocked /\ issued' = issued /\ copy' = copy
        /\ restore.pc = "revert_failed" /\ ~restore.due
    BY <1>29 DEF FailRollback, At, rest
  <2>2. Hop("failed", FALSE) \/ Hop("raised", FALSE)
    BY <1>29, Hops
  <2> QED
    BY <1>0, <2>1, <2>2
    DEF Hop, Onward, SameCase, Places, Failing, Due, First, Second, Early, Switching, CanCopy
<1>30. CASE SetFailed
  <2>1. /\ backup' = backup /\ blocked' = blocked /\ issued' = issued /\ copy' = copy
        /\ restore.pc = "failed" /\ ~restore.due
    BY <1>30 DEF SetFailed, At, rest
  <2>2. Hop("error", TRUE)
    BY <1>30, Hops
  <2> QED
    BY <1>0, <2>1, <2>2
    DEF Hop, Onward, SameCase, Places, Failing, Due, First, Second, Early, Switching, CanCopy
<1>31. CASE SetError
  <2>1. /\ backup' = backup /\ blocked' = blocked /\ issued' = issued /\ copy' = copy
        /\ restore.pc = "error" /\ ~restore.due
    BY <1>31 DEF SetError, At, rest
  <2>2. Hop("raised", TRUE)
    BY <1>31, Hops
  <2> QED
    BY <1>0, <2>1, <2>2
    DEF Hop, Onward, SameCase, Places, Failing, Due, First, Second, Early, Switching, CanCopy
<1> QED
  BY <1>1, <1>2, <1>3, <1>4, <1>5, <1>7, <1>8, <1>9, <1>11, <1>12, <1>13, <1>14, <1>15, <1>16,
     <1>17, <1>18, <1>19, <1>20, <1>21, <1>22, <1>23, <1>24, <1>25, <1>26, <1>27, <1>28, <1>29,
     <1>30, <1>31
  DEF Next

-----------------------------------------------------------------------------
(* The rows of artifacts.                                                  *)

\* A restore in progress began so, or keeps to its case.
LEMMA RestoreGoesOn ==
    ASSUME Shapes, Turns, [Next]_vars, restore'.pc \notin {"idle", "crashed"}
    PROVE  StartRestore \/ (SameCase /\ restore.pc \notin {"idle", "crashed"})
<1>1. CASE restore' = restore
  BY <1>1 DEF SameCase
<1>2. CASE Validate
  BY <1>2, ValidateGoes DEF PreBegins, Hop, Onward, Validate, At
<1>3. CASE Archive
  BY <1>3, ArchiveMoves, RaisedMoves DEF Archive, Onward, At
<1>4. CASE Compensate
  BY <1>4, CompensateMoves, GotoMoves DEF Compensate, Onward, RestoreSteps, At
<1>5. CASE PreBackup \/ Extract \/ MoveIn \/ RecordHistory \/ RestartProbe
  <2>1. restore.pc \notin {"idle", "crashed"}
    BY <1>5 DEF PreBackup, Extract, MoveIn, RecordHistory, RestartProbe, At
  <2> QED
    BY <1>5, <2>1, Hops DEF Hop, Onward
<1>6. CASE Settle \/ SetRunning \/ FlagSource \/ CompleteRollback \/ RecordReversal \/ SetReverted
           \/ SetOff \/ FailRollback \/ SetFailed \/ SetError
  <2>1. restore.pc \notin {"idle", "crashed"}
    BY <1>6 DEF Settle, SetRunning, FlagSource, CompleteRollback, RecordReversal, SetReverted,
                SetOff, FailRollback, SetFailed, SetError, At
  <2> QED
    BY <1>6, <2>1, Hops DEF Hop, Onward
<1>7. CASE EndRestore
  BY <1>7 DEF EndRestore, NoRestore
<1>8. CASE RestoreCommits
  BY <1>8, DueMoves DEF Onward
<1>9. CASE Crash
  BY <1>9, CrashMoves DEF Onward
<1> QED
  BY <1>1, <1>2, <1>3, <1>4, <1>5, <1>6, <1>7, <1>8, <1>9, RestoreChanges

\* Turns is kept by every step.
LEMMA TurnsStep == ASSUME Shapes, Turns, Ledger, [Next]_vars PROVE Turns'
<1>1. Places'
  BY PlacesStep
<1>2. restore'.pc \notin {"idle", "crashed"} =>
         restore'.source \in Artifact /\ saved'.rows[restore'.source].status # "absent"
  <2>1. CASE StartRestore
    BY <2>1, StartMoves, SavedStay DEF SavedStays
  <2>2. CASE SameCase /\ restore.pc \notin {"idle", "crashed"}
    BY <2>2, SavedStay DEF SavedStays, SameCase, Turns
  <2> QED
    BY <2>1, <2>2, RestoreGoesOn
<1> QED
  BY <1>1, <1>2 DEF Turns, Places

\* A copy whose row waits for its commit is left as it is, or the tables agree.
LEMMA CopyWaits ==
    ASSUME Shapes, Turns, copy.pc = "commit", [Next]_vars
    PROVE  copy' = copy \/ db' = saved'
<1>1. CASE copy' = copy
  BY <1>1
<1>2. CASE Autosave
  BY <1>2 DEF Autosave, Changed
<1>3. CASE CopyCommits \/ CopyFails \/ Crash
  BY <1>3 DEF CopyCommits, Commit, CopyFails, Rollback, Crash
<1>4. CASE Read \/ Insert \/ Captured \/ PreBackup
  BY <1>4 DEF Read, Insert, Captured, PreBackup
<1>5. CASE (StartBackup \/ Capture \/ Validate) /\ copy' # copy
  BY <1>5 DEF Turns, StartBackup, Capture, Validate, At
<1> QED
  BY <1>1, <1>2, <1>3, <1>4, <1>5, CopyChanges

\* Each row is kept by every step.
LEMMA RowKeptStep ==
    ASSUME Shapes, Turns, Ledger, Sweeping, [Next]_vars, NEW a \in Artifact
    PROVE  RowKept(a)'
<1>1. /\ a \in past.unlinked => a \in past'.unlinked
      /\ a \in Nat /\ issued.artifacts \in Nat /\ issued'.artifacts \in Nat
      /\ issued.artifacts <= issued'.artifacts
  BY PastStep, IssuedShape DEF PastGrows, Shapes, IssuedType, Artifact
<1>2. RowKept(a)
  BY DEF Ledger
<1>3. CASE Untouched
  BY <1>1, <1>2, <1>3, CopyWaits DEF Untouched, RowKept
<1>4. CASE Commit
  BY <1>1, <1>2, <1>4 DEF Commit, RowKept
<1>5. CASE BeginFails \/ Crash \/ (CopyFails /\ Rollback)
  <2>1. db' = saved /\ saved' = saved
    BY <1>5 DEF BeginFails, Crash, Rollback
  <2> QED
    BY <1>1, <1>2, <2>1 DEF RowKept
<1>6. CASE Insert
  <2>1. /\ copy'.pc = "commit" /\ copy'.art = copy.art /\ db.rows[copy.art].status = "absent"
        /\ copy.art \in 1 .. issued.artifacts
    BY <1>6 DEF Insert, Ledger, Turns, Shapes, CopyType
  <2>2. Rewrites(copy.art, "live", copy.category, copy.content)
    BY <1>6, InsertWrites
  <2>3. CASE a = copy.art
    BY <1>1, <1>2, <2>1, <2>2, <2>3 DEF RowKept, Rewrites
  <2>4. CASE a # copy.art
    <3>1. db'.rows[a] = db.rows[a] /\ saved' = saved
      BY <2>2, <2>4 DEF Rewrites
    <3> QED
      BY <1>1, <1>2, <1>6, <2>4, <3>1 DEF RowKept, Insert
  <2> QED
    BY <2>3, <2>4
<1>7. CASE Mark
  <2>1. PICK m \in cleanup.todo : m \in past.unlinked /\ \A b \in cleanup.todo : m <= b
    BY <1>7 DEF Mark, Sweeping
  <2>2. Rewrites(m, "deleted", db.rows[m].category, db.rows[m].checksum)
    BY <1>7, <2>1, MarkWrites
  <2>3. saved.rows[m].status = "live" /\ copy' = copy
    BY <1>7, <2>1 DEF Sweeping, Mark
  <2>4. CASE a = m
    BY <1>1, <1>2, <2>1, <2>2, <2>3, <2>4 DEF RowKept, Rewrites
  <2>5. CASE a # m
    <3>1. db'.rows[a] = db.rows[a] /\ saved' = saved
      BY <2>2, <2>5 DEF Rewrites
    <3> QED
      BY <1>1, <1>2, <2>3, <3>1 DEF RowKept
  <2> QED
    BY <2>4, <2>5
<1>8. CASE StartServer \/ StopServer \/ StartRestore
  <2>1. saved' = db' /\ KeepsRows /\ db = saved
    BY <1>8, SwitchWrites, StartWrites DEF StartServer, StopServer, Ledger
  <2> QED
    BY <1>1, <1>2, <2>1 DEF RowKept, KeepsRows
<1>9. CASE RestoreWrites
  <2>1. saved' = saved /\ KeepsRows /\ copy' = copy
    BY <1>9 DEF RestoreWrites, Writes
  <2> QED
    BY <1>1, <1>2, <2>1 DEF RowKept, KeepsRows
<1> QED
  BY <1>3, <1>4, <1>5, <1>6, <1>7, <1>8, <1>9, TablesAreStepped DEF TablesStep

\* The rows are those there were but for an insert; another thread's failed BEGIN
\* takes one only if it undoes it.
LEMMA RowsStay ==
    ASSUME Shapes, Turns, Ledger, Sweeping, [Next]_vars, NEW a \in Artifact,
           ~(Insert /\ a = copy.art)
    PROVE  /\ db'.rows[a].status # "absent" =>
                 /\ db.rows[a].status # "absent"
                 /\ db'.rows[a].checksum = db.rows[a].checksum
           /\ db.rows[a].status # "absent" =>
                 db'.rows[a].status # "absent" \/ past'.undone \/ CopyFails \/ Crash
<1>2. RowKept(a)
  BY DEF Ledger
<1>3. CASE Untouched \/ Commit
  BY <1>3 DEF Untouched, Commit
<1>5. CASE BeginFails \/ Crash \/ (CopyFails /\ Rollback)
  <2>1. db' = saved
    BY <1>5 DEF BeginFails, Crash, Rollback
  <2>2. BeginFails => past'.undone \/ db = saved
    BY DEF BeginFails, Shapes, PastType
  <2> QED
    BY <1>2, <1>5, <2>1, <2>2 DEF RowKept
<1>6. CASE Insert
  BY <1>6, InsertWrites DEF Rewrites
<1>7. CASE Mark
  <2>1. PICK m \in cleanup.todo : m \in past.unlinked /\ \A b \in cleanup.todo : m <= b
    BY <1>7 DEF Mark, Sweeping
  <2>2. Rewrites(m, "deleted", db.rows[m].category, db.rows[m].checksum)
    BY <1>7, <2>1, MarkWrites
  <2>3. saved.rows[m].status = "live"
    BY <1>7, <2>1 DEF Sweeping
  <2> QED
    BY <1>2, <2>2, <2>3 DEF RowKept, Rewrites
<1>8. CASE StartServer \/ StopServer \/ StartRestore
  BY <1>8, SwitchWrites, StartWrites DEF StartServer, StopServer, KeepsRows
<1>9. CASE RestoreWrites
  BY <1>9 DEF RestoreWrites, Writes, KeepsRows
<1> QED
  BY <1>3, <1>5, <1>6, <1>7, <1>8, <1>9, TablesAreStepped DEF TablesStep

\* What is due is committed, or undone.
LEMMA DueEnds ==
    ASSUME Shapes, Turns, [Next]_vars, restore.due, ~restore'.due
    PROVE  ~txn'
<1>1. CASE RestoreCommits \/ Crash
  BY <1>1 DEF RestoreCommits, Commit, Crash, Rollback
<1>2. CASE StartRestore
  BY <1>2 DEF StartRestore
<1>3. restore' # restore
  OBVIOUS
<1> QED
  BY <1>1, <1>2, <1>3, RestoreChanges
  DEF EndRestore, Validate, PreBackup, Extract, Archive, MoveIn, RecordHistory, Settle,
      RestartProbe,
      SetRunning, FlagSource, Compensate, CompleteRollback, RecordReversal, SetReverted, SetOff,
      FailRollback, SetFailed, SetError, At

\* How a copy comes to its steps.
LEMMA CopySteppedOn ==
    ASSUME Shapes, Turns, [Next]_vars
    PROVE  \/ copy' = copy
           \/ copy'.pc = "idle"
           \/ /\ copy'.pc = "read" /\ copy'.art = issued.artifacts + 1 /\ copy'.content = disk.dir
              /\ copy'.art \in Artifact /\ Untouched /\ copy.pc = "idle"
              /\ copy'.art = issued'.artifacts
              /\ disk' = disk
           \/ /\ copy.pc # "idle" /\ copy'.art = copy.art
              /\ \/ copy.pc = "read" /\ copy'.pc = "read" /\ Autosave /\ copy'.content = Torn
                 \/ /\ copy'.content = copy.content
                    /\ \/ copy.pc = "read" /\ copy'.pc = "insert" /\ Read
                       \/ copy.pc = "insert" /\ copy'.pc = "commit" /\ Insert
                       \/ copy.pc = "commit" /\ copy'.pc = "done" /\ CopyCommits
                       \/ copy'.pc = "failed" /\ CopyFails
<1>0. copy \in CopyType
  BY DEF Shapes
<1>1. CASE copy' = copy
  BY <1>1
<1>2. CASE Autosave
  BY <1>0, <1>2 DEF Autosave, Changed, CopyType
<1>3. CASE Read
  BY <1>0, <1>3 DEF Read, CopyType
<1>4. CASE Insert
  BY <1>0, <1>4 DEF Insert, CopyType
<1>5. CASE CopyCommits
  BY <1>0, <1>5 DEF CopyCommits, CopyType
<1>6. CASE CopyFails
  BY <1>0, <1>6 DEF CopyFails, CopyType
<1>7. CASE Captured \/ PreBackup \/ Crash
  BY <1>7 DEF Captured, PreBackup, Crash, NoCopy
<1>8. CASE (StartBackup \/ Capture \/ Validate) /\ copy' # copy
  <2>1. issued.artifacts + 1 \in Artifact
    BY <1>8, NextArtifact DEF StartBackup, Capture, Validate, At, Turns
  <2>2. (Copies("manual") \/ Copies("pre_restore")) /\ disk' = disk
    BY <1>8 DEF StartBackup, Capture, Validate, Unissued
  <2>3. copy.pc = "idle"
    BY <1>8 DEF StartBackup, Capture, Validate, At, Turns
  <2>4. Untouched
    BY <1>8 DEF StartBackup, Capture, Validate, dbVars, Untouched, Unissued
  <2> QED
    BY <2>1, <2>2, <2>3, <2>4, CopyBegun DEF Categories
<1> QED
  BY <1>1, <1>2, <1>3, <1>4, <1>5, <1>6, <1>7, <1>8, CopyChanges

\* What is open is work, or is due.
LEMMA OpenIsWork ==
    ASSUME Shapes, Turns, Ledger, Sweeping, Original, [Next]_vars, txn'
    PROVE  db' # saved' \/ restore'.due \/ past'.undone
<1>1. CASE Untouched
  <2>1. restore.due => restore'.due
    BY DueEnds DEF Shapes, RestoreType
  <2> QED
    BY <1>1, <2>1, PastStep DEF Untouched, Ledger, PastGrows
<1>2. CASE Commit \/ BeginFails \/ Crash \/ (CopyFails /\ Rollback)
  BY <1>2 DEF Commit, BeginFails, Crash, Rollback
<1>3. CASE Insert
  <2>1. Rewrites(copy.art, "live", copy.category, copy.content)
    BY <1>3, InsertWrites
  <2>2. copy.art \in Artifact /\ db.rows[copy.art].status = "absent"
    BY <1>3 DEF Insert, Ledger, Turns, Shapes, CopyType
  <2>3. saved.rows[copy.art].status = "absent"
    BY <2>2 DEF Ledger, RowKept
  <2> QED
    BY <2>1, <2>3 DEF Rewrites
<1>4. CASE Mark
  <2>1. PICK m \in cleanup.todo : m \in past.unlinked /\ \A b \in cleanup.todo : m <= b
    BY <1>4 DEF Mark, Sweeping
  <2>2. Rewrites(m, "deleted", db.rows[m].category, db.rows[m].checksum)
    BY <1>4, <2>1, MarkWrites
  <2>3. saved.rows[m].status = "live"
    BY <1>4, <2>1 DEF Sweeping
  <2> QED
    BY <2>2, <2>3 DEF Rewrites
<1>5. CASE StartServer \/ StopServer \/ StartRestore
  BY <1>5, SwitchWrites, StartWrites DEF StartServer, StopServer
<1>6. CASE RestoreWrites
  <2>1. CASE restore'.due
    BY <2>1
  <2>2. CASE RecordHistory /\ db.rows[restore.pre].status = "absent"
    <3>1. Backed
      BY <2>2 DEF RecordHistory, At, Original, Stowed
    <3>2. past.undone
      BY <2>2, <3>1 DEF Backed, Ledger, RowKept
    <3> QED
      BY <3>2, PastStep DEF PastGrows
  <2> QED
    BY <1>6, <2>1, <2>2 DEF RestoreWrites
<1> QED
  BY <1>1, <1>2, <1>3, <1>4, <1>5, <1>6, TablesAreStepped DEF TablesStep

\* With no transaction open the writer sees what is committed.
LEMMA ClosedIsSaved ==
    ASSUME Shapes, Turns, Ledger, [Next]_vars, ~txn'
    PROVE  db' = saved'
<1>1. CASE Untouched \/ Commit \/ BeginFails \/ Crash \/ (CopyFails /\ Rollback)
  BY <1>1 DEF Untouched, Commit, BeginFails, Crash, Rollback, Ledger
<1>2. CASE StartServer \/ StopServer \/ StartRestore
  BY <1>2, SwitchWrites, StartWrites DEF StartServer, StopServer
<1> QED
  BY <1>1, <1>2, TablesAreStepped DEF TablesStep, Insert, Mark, Statement, RestoreWrites, Writes

\* The row of a copy under way.
CopyRow ==
    /\ copy.pc \in {"read", "insert"} => db.rows[copy.art].status = "absent"
    /\ copy.pc = "commit" => db.rows[copy.art].status # "absent" \/ past.undone
    /\ copy.pc = "done" => saved.rows[copy.art].status # "absent" \/ past.undone
    /\ copy.pc # "idle" /\ db.rows[copy.art].status # "absent" =>
          db.rows[copy.art].checksum = copy.content

\* Each step keeps what is said of the row of a copy.
LEMMA CopyRowStep ==
    ASSUME Shapes, Turns, Ledger, Sweeping, [Next]_vars
    PROVE  CopyRow'
<1>0. CopyRow /\ (past.undone => past'.undone)
  BY PastStep DEF Ledger, CopyRow, PastGrows
<1>a. copy.pc # "idle" => copy.art \in Artifact
  BY DEF Shapes, CopyType, Turns
<1>1. CASE copy'.pc = "idle"
  BY <1>1 DEF CopyRow
<1>2. CASE copy' = copy /\ copy.pc # "idle"
  <2>1. ~Insert /\ ~CopyFails /\ ~Crash
    BY <1>2 DEF Insert, CopyFails, Crash, NoCopy, Shapes, CopyType
  <2>2. /\ db'.rows[copy.art].status # "absent" =>
              /\ db.rows[copy.art].status # "absent"
              /\ db'.rows[copy.art].checksum = db.rows[copy.art].checksum
        /\ db.rows[copy.art].status # "absent" =>
              db'.rows[copy.art].status # "absent" \/ past'.undone
    BY <1>a, <1>2, <2>1, RowsStay
  <2>3. saved.rows[copy.art].status # "absent" => saved'.rows[copy.art].status # "absent"
    BY <1>a, <1>2, SavedStay DEF SavedStays
  <2> QED
    BY <1>0, <1>2, <2>2, <2>3 DEF CopyRow
<1>3. CASE /\ copy'.pc = "read" /\ copy'.art = issued.artifacts + 1 /\ copy'.art \in Artifact
           /\ Untouched
  <2>1. db.rows[copy'.art].status = "absent"
    BY <1>3 DEF Ledger, RowKept, Shapes, IssuedType, Artifact
  <2> QED
    BY <1>3, <2>1 DEF CopyRow, Untouched
<1>4. CASE copy.pc # "idle" /\ copy'.art = copy.art /\ (Autosave \/ Read) /\ copy.pc = "read"
           /\ copy'.pc \in {"read", "insert"}
  <2>1. db' = db
    BY <1>4 DEF Autosave, Read, dbVars
  <2> QED
    BY <1>0, <1>4, <2>1 DEF CopyRow
<1>5. CASE copy.pc = "insert" /\ copy'.pc = "commit" /\ Insert /\ copy'.art = copy.art
           /\ copy'.content = copy.content
  BY <1>5, InsertWrites DEF CopyRow, Rewrites
<1>6. CASE copy.pc = "commit" /\ copy'.pc = "done" /\ CopyCommits /\ copy'.art = copy.art
           /\ copy'.content = copy.content
  BY <1>0, <1>6 DEF CopyRow, CopyCommits, Commit
<1>7. CASE copy.pc # "idle" /\ copy'.pc = "failed" /\ CopyFails /\ copy'.art = copy.art
           /\ copy'.content = copy.content
  <2>1. /\ db'.rows[copy.art].status # "absent" =>
              /\ db.rows[copy.art].status # "absent"
              /\ db'.rows[copy.art].checksum = db.rows[copy.art].checksum
    <3>1. ~Insert
      BY <1>7 DEF Insert, Shapes, CopyType
    <3> QED
      BY <1>a, <1>7, <3>1, RowsStay
  <2> QED
    BY <1>0, <1>7, <2>1 DEF CopyRow
<1> QED
  BY <1>1, <1>2, <1>3, <1>4, <1>5, <1>6, <1>7, CopySteppedOn DEF Turns

\* Ledger is kept by every step.
LEMMA LedgerStep == ASSUME Shapes, Turns, Ledger, Sweeping, Original, [Next]_vars PROVE Ledger'
<1>1. \A a \in Artifact : RowKept(a)'
  BY RowKeptStep
<1>2. (~txn' => db' = saved') /\ (txn' => db' # saved' \/ restore'.due \/ past'.undone)
  BY ClosedIsSaved, OpenIsWork
<1>3. CopyRow'
  BY CopyRowStep
<1> QED
  BY <1>1, <1>2, <1>3 DEF Ledger, CopyRow

-----------------------------------------------------------------------------
(* The files of artifacts.                                                 *)

\* Files go or come in three ways.
LEMMA FilesStep ==
    ASSUME Shapes, Turns, [Next]_vars, NEW a \in Artifact
    PROVE  \/ files'[a] = files[a]
           \/ a = copy.art /\ Read /\ files'[a] = copy.content
           \/ a = copy.art /\ CopyFails
           \/ Unlink(a) /\ a \in past'.unlinked
<1>1. files \in FilesType
  BY DEF Shapes
<1>2. CASE files' = files
  BY <1>2
<1>3. CASE Read \/ CopyFails
  BY <1>1, <1>3 DEF Read, CopyFails, FilesType
<1>4. CASE Sweep /\ files' # files
  <2>1. PICK x \in Artifact : Unlink(x)
    BY <1>4 DEF Sweep
  <2>2. files' = [files EXCEPT ![x] = None] /\ past' = [past EXCEPT !.unlinked = @ \cup {x}]
    BY <1>4, <2>1 DEF Unlink
  <2>3. x # a => files'[a] = files[a]
    BY <1>1, <2>2 DEF FilesType
  <2>4. x \in past'.unlinked
    BY <2>2 DEF Shapes, PastType
  <2> QED
    BY <2>1, <2>3, <2>4
<1> QED
  BY <1>2, <1>3, <1>4, FilesChanges

\* A file is of the row's content, or its loss is known.
FileKept(a) ==
    db.rows[a].status # "absent" =>
        files[a] = db.rows[a].checksum \/ a \in past.unlinked \cup past.stranded

\* Each step keeps what is said of a file: a copy that fails removes it before its row is
\* committed, or strands the row another thread has committed.
LEMMA FileKeptStep ==
    ASSUME Shapes, Turns, Ledger, Whole, Sweeping, [Next]_vars, NEW a \in Artifact
    PROVE  FileKept(a)'
<1>0. /\ a \in past.unlinked => a \in past'.unlinked
      /\ a \in past.stranded => a \in past'.stranded
  BY PastStep DEF PastGrows
<1>1. FileKept(a) /\ RowKept(a)
  BY DEF Whole, FileKept, Ledger
<1>2. CASE Insert /\ a = copy.art
  <2>1. files' = files /\ files[a] = copy.content
    BY <1>2 DEF Insert, Whole
  <2> QED
    BY <1>2, <2>1, InsertWrites DEF Rewrites, FileKept
<1>3. CASE ~(Insert /\ a = copy.art)
  <2>1. /\ db'.rows[a].status # "absent" =>
              /\ db.rows[a].status # "absent"
              /\ db'.rows[a].checksum = db.rows[a].checksum
    BY <1>3, RowsStay
  <2>2. CASE files'[a] = files[a] \/ a \in past'.unlinked
    BY <1>0, <1>1, <2>1, <2>2 DEF FileKept
  <2>3. CASE a = copy.art /\ Read
    BY <2>1, <2>3 DEF Read, Ledger, FileKept
  <2>4. CASE a = copy.art /\ CopyFails
    <3>1. CASE copy.pc # "commit"
      BY <2>1, <2>4, <3>1 DEF CopyFails, Ledger, FileKept
    <3>2. CASE copy.pc = "commit"
      <4>1. db' = saved /\ past' = [past EXCEPT
                !.undone = @ \/ Without(copy.art) # saved,
                !.stranded = @ \cup {x \in {copy.art} : saved.rows[x].status = "live"}]
        BY <2>4, <3>2 DEF CopyFails, Rollback
      <4>2. saved.rows[a].status = "live" => a \in past'.stranded
        BY <2>4, <4>1 DEF Shapes, PastType
      <4>3. saved.rows[a].status = "deleted" => a \in past'.unlinked
        BY <1>0, <1>1 DEF RowKept
      <4>4. saved.rows[a].status \in {"absent", "live", "deleted"}
        BY DEF Shapes, Tables
      <4> QED
        BY <4>1, <4>2, <4>3, <4>4 DEF FileKept
    <3> QED
      BY <3>1, <3>2
  <2> QED
    BY <2>2, <2>3, <2>4, FilesStep
<1> QED
  BY <1>2, <1>3

\* What a copy holds in hand.
InHand ==
    /\ copy.pc = "insert" => files[copy.art] = copy.content
    /\ copy.pc = "read" => copy.content \in {disk.dir, Torn}
    /\ copy.pc \in {"insert", "commit", "done"} => copy.content # None
    /\ \A a \in past.stranded : a \in 1..issued.artifacts
    /\ copy.pc \notin {"idle", "failed"} => copy.art \notin past.stranded

\* Only a copy whose commit fails strands a row.
LEMMA StrandedStep ==
    ASSUME Shapes, Turns, [Next]_vars
    PROVE  past'.stranded = past.stranded
           \/ (CopyFails /\ past'.stranded \subseteq past.stranded \cup {copy.art})
<1>0. past \in PastType
  BY DEF Shapes
<1>1. CASE past' = past
  BY <1>1
<1>2. CASE BeginFails
  BY <1>0, <1>2 DEF BeginFails, PastType
<1>3. CASE CopyFails /\ past' # past
  <2>1. past' = [past EXCEPT
           !.undone = @ \/ Without(copy.art) # saved,
           !.stranded = @ \cup {a \in {copy.art} : saved.rows[a].status = "live"}]
    BY <1>3 DEF CopyFails
  <2>2. past'.stranded = past.stranded \cup {a \in {copy.art} : saved.rows[a].status = "live"}
    BY <1>0, <2>1 DEF PastType
  <2> QED
    BY <1>3, <2>2
<1>4. CASE Resume
  BY <1>0, <1>4 DEF Resume, PastType
<1>5. CASE Sweep
  BY <1>0, <1>5 DEF Sweep, Unlink, PastType
<1> QED
  BY <1>1, <1>2, <1>3, <1>4, <1>5, PastChanges

\* Each step keeps what is said of a copy in hand.
LEMMA InHandStep ==
    ASSUME Shapes, Turns, Ledger, Whole, Sweeping, [Next]_vars
    PROVE  InHand'
<1>0. InHand
  BY DEF Whole, InHand
<1>a. copy.pc # "idle" => copy.art \in Artifact
  BY DEF Shapes, CopyType, Turns
<1>b. /\ issued.artifacts \in Nat /\ issued'.artifacts \in Nat
      /\ issued.artifacts <= issued'.artifacts
  BY IssuedShape DEF Shapes, IssuedType, Artifact
<1>1. \A a \in past'.stranded : a \in 1..issued'.artifacts
  <2>1. \A a \in past.stranded : a \in 1..issued'.artifacts
    BY <1>0, <1>b DEF InHand
  <2>2. CopyFails => copy.art \in 1..issued'.artifacts
    BY <1>b DEF CopyFails, Turns
  <2> QED
    BY <2>1, <2>2, StrandedStep
<1>2. copy'.pc \notin {"idle", "failed"} => copy'.art \notin past'.stranded
  <2>1. ASSUME copy'.pc \notin {"idle", "failed"}
        PROVE  ~CopyFails /\ past'.stranded = past.stranded
    BY <2>1, StrandedStep DEF CopyFails, Shapes, CopyType
  <2>2. /\ copy'.pc \notin {"idle", "failed"} /\ copy'.art = copy.art
        /\ copy.pc \notin {"idle", "failed"}
        => copy'.art \notin past'.stranded
    BY <1>0, <2>1 DEF InHand
  <2>3. copy'.pc = "read" /\ copy'.art = issued.artifacts + 1 => copy'.art \notin past'.stranded
    BY <1>0, <1>b, <2>1 DEF InHand
  <2> QED
    BY <2>2, <2>3, CopySteppedOn
<1>3. copy'.pc = "insert" => files'[copy'.art] = copy'.content
  <2>1. CASE copy' = copy /\ copy.pc = "insert"
    <3>1. ~Read /\ ~CopyFails
      BY <2>1 DEF Read, CopyFails, Shapes, CopyType
    <3>2. saved.rows[copy.art].status = "absent"
      BY <1>a, <2>1 DEF Ledger, RowKept
    <3>3. ~Unlink(copy.art)
      BY <3>2 DEF Unlink, Sweeping
    <3> QED
      BY <1>0, <1>a, <2>1, <3>1, <3>3, FilesStep DEF InHand
  <2>2. CASE Read
    BY <2>2 DEF Read, Shapes, CopyType, FilesType, Turns
  <2> QED
    BY <2>1, <2>2, CopySteppedOn
<1>4. copy'.pc = "read" => copy'.content \in {disk'.dir, Torn}
  <2>1. CASE copy' = copy /\ copy.pc = "read"
    <3>1. restore.pc = "copy" \/ (backup.pc = "copy" /\ restore.pc = "idle")
      BY <2>1 DEF Turns
    <3>2. ~Flush /\ ~Extract /\ ~Archive /\ ~MoveIn
      BY <3>1 DEF Flush, Extract, Archive, MoveIn, At, Turns
    <3>3. ~Crash
      BY <2>1 DEF Crash, NoCopy
    <3>4. Autosave => copy'.content = Torn
      BY <2>1 DEF Autosave, Changed, Shapes, CopyType
    <3> QED
      BY <1>0, <2>1, <3>2, <3>3, <3>4, DiskChanges DEF InHand
  <2> QED
    BY <2>1, CopySteppedOn
<1>5. copy'.pc \in {"insert", "commit", "done"} => copy'.content # None
  <2>1. CASE Read /\ copy'.content = copy.content
    BY <1>0, <2>1, MarkersAssumption DEF Read, InHand
  <2> QED
    BY <1>0, <2>1, CopySteppedOn DEF InHand
<1> QED
  BY <1>1, <1>2, <1>3, <1>4, <1>5 DEF InHand

\* Whole is kept by every step.
LEMMA WholeStep == ASSUME Shapes, Turns, Ledger, Whole, Sweeping, [Next]_vars PROVE Whole'
<1>1. \A a \in Artifact : FileKept(a)'
  BY FileKeptStep
<1>2. InHand'
  BY InHandStep
<1> QED
  BY <1>1, <1>2 DEF Whole, FileKept, InHand

-----------------------------------------------------------------------------
(* Nothing torn is kept.                                                   *)

\* No server writes while a copy is read, unless a state was undone.
LEMMA ReadsAlone ==
    ASSUME Shapes, Turns, Serving, ~past.undone, copy.pc = "read"
    PROVE  ~Autosave
<1>1. CASE restore.pc = "copy"
  BY <1>1 DEF Serving, Autosave
<1>2. CASE backup.pc = "copy" /\ backup.running
  BY <1>2 DEF Serving, Autosave
<1>3. CASE backup.pc = "copy" /\ ~backup.running
  BY <1>3 DEF Serving, Autosave
<1> QED
  BY <1>1, <1>2, <1>3 DEF Turns

\* What is found valid has a row.
LEMMA WantedHasRow ==
    ASSUME Shapes, Turns, Original, ~past.undone, restore.pc \in Switching
    PROVE  Wanted \in Artifact /\ saved.rows[Wanted].status # "absent"
<1>1. CASE restore.round = "restore"
  BY <1>1, WantedIsThere DEF Wanted, Turns, Switching
<1>2. CASE restore.round # "restore"
  <2>1. Backed
    BY <1>2 DEF Original, Stowed, Shapes, RestoreType
  <2> QED
    BY <1>2, <2>1, WantedIsThere DEF Wanted, Backed
<1> QED
  BY <1>1, <1>2

\* Only a switch, an end or a beginning is about another directory moved away.
LEMMA MovedStays ==
    ASSUME Shapes, Turns, [Next]_vars
    PROVE  restore'.moved = restore.moved \/ Archive \/ StartRestore \/ EndRestore
<1>1. CASE Validate
  BY <1>1, ValidateGoes DEF PreBegins, Hop, Onward
<1>2. CASE Compensate
  BY <1>2, CompensateMoves, GotoMoves DEF Compensate, Onward, RestoreSteps
<1>3. CASE PreBackup \/ Extract \/ MoveIn \/ RecordHistory \/ RestartProbe
  BY <1>3, Hops DEF Hop, Onward
<1>4. CASE Settle \/ SetRunning \/ FlagSource \/ CompleteRollback \/ RecordReversal \/ SetReverted
           \/ SetOff \/ FailRollback \/ SetFailed \/ SetError
  BY <1>4, Hops DEF Hop, Onward
<1>5. CASE RestoreCommits \/ Crash
  BY <1>5, DueMoves, CrashMoves DEF Onward
<1> QED
  BY <1>1, <1>2, <1>3, <1>4, <1>5, RestoreChanges

\* Untorn is kept by every step.
LEMMA UntornStep ==
    ASSUME Shapes, Turns, Ledger, Untorn, Serving, Original, Sweeping, [Next]_vars
    PROVE  Untorn'
<1> SUFFICES ASSUME ~past'.undone
             PROVE  /\ \A a \in Artifact :
                          db'.rows[a].status # "absent" => db'.rows[a].checksum # Torn
                    /\ disk'.dir # Torn /\ disk'.staging # Torn /\ Torn \notin disk'.archives
                    /\ copy'.content # Torn /\ restore'.moved # Torn
  BY DEF Untorn
<1>0. ~past.undone
  BY PastStep DEF PastGrows
<1>a. /\ \A a \in Artifact : db.rows[a].status # "absent" => db.rows[a].checksum # Torn
      /\ disk.dir # Torn /\ disk.staging # Torn /\ Torn \notin disk.archives
      /\ copy.content # Torn /\ restore.moved # Torn
  BY <1>0 DEF Untorn
<1>b. disk \in DiskType /\ restore \in RestoreType /\ copy \in CopyType
  BY DEF Shapes
<1>1. ASSUME NEW a \in Artifact, db'.rows[a].status # "absent" PROVE db'.rows[a].checksum # Torn
  <2>1. CASE Insert /\ a = copy.art
    BY <1>a, <2>1, InsertWrites DEF Rewrites
  <2>2. CASE ~(Insert /\ a = copy.art)
    BY <1>a, <1>1, <2>2, RowsStay
  <2> QED
    BY <2>1, <2>2
<1>2. copy'.content # Torn
  <2>1. CASE Read \/ Insert \/ CopyCommits \/ CopyFails
    BY <1>a, <1>b, <2>1 DEF Read, Insert, CopyCommits, CopyFails, CopyType
  <2>2. CASE Autosave
    BY <1>0, <1>a, <2>2, ReadsAlone DEF Autosave, Changed
  <2>3. CASE Captured \/ PreBackup \/ Crash
    BY <2>3, MarkersAssumption DEF Captured, PreBackup, Crash, NoCopy
  <2>4. CASE (StartBackup \/ Capture \/ Validate) /\ copy' # copy
    BY <1>a, <2>4 DEF StartBackup, Capture, Validate, Copies, Called, Unissued
  <2> QED
    BY <1>a, <2>1, <2>2, <2>3, <2>4, CopyChanges
<1>3. disk'.dir # Torn /\ disk'.staging # Torn /\ Torn \notin disk'.archives
  <2>1. CASE Autosave \/ (Flush /\ disk' # disk)
    <3>1. NewContent # Torn
      BY <2>1, NewContentFits, BoundsAssumption, MarkersAssumption DEF Autosave, Flush, Content
    <3>2. disk' = [disk EXCEPT !.dir = NewContent]
      BY <2>1 DEF Autosave, Flush
    <3> QED
      BY <1>a, <1>b, <3>1, <3>2 DEF DiskType
  <2>2. CASE Extract /\ disk' # disk
    <3>1. IsValid(Wanted) /\ (disk' = [disk EXCEPT !.staging = files[Wanted]]
                              \/ disk' = [disk EXCEPT !.staging = None])
      BY <2>2 DEF Extract
    <3>2. Wanted \in Artifact /\ saved.rows[Wanted].status # "absent"
      BY <1>0, <2>2, WantedHasRow DEF Extract, At, Switching
    <3>3. saved.rows[Wanted].checksum # Torn
      BY <1>a, <3>2 DEF Ledger, RowKept
    <3>4. files[Wanted] # Torn
      BY <3>1, <3>3 DEF IsValid
    <3> QED
      BY <1>a, <1>b, <3>1, <3>4, MarkersAssumption DEF DiskType
  <2>3. CASE Archive /\ disk' # disk
    <3>1. disk' = [disk EXCEPT !.dir = None, !.archives = disk.archives \cup ({disk.dir} \ {None})]
      BY <2>3 DEF Archive
    <3> QED
      BY <1>a, <1>b, <3>1, MarkersAssumption DEF DiskType
  <2>4. CASE MoveIn
    <3>1. CASE disk' = [disk EXCEPT !.dir = disk.staging, !.staging = None]
      BY <1>a, <1>b, <3>1, MarkersAssumption DEF DiskType
    <3>2. CASE disk' = [disk EXCEPT !.dir = restore.moved,
                                    !.archives = disk.archives \ {restore.moved}]
      BY <1>a, <1>b, <3>2, MarkersAssumption DEF DiskType
    <3>3. CASE \E left \in {None, Partial} : disk' = [disk EXCEPT !.dir = left]
      BY <1>a, <1>b, <3>3, MarkersAssumption DEF DiskType
    <3> QED
      BY <2>4, <3>1, <3>2, <3>3 DEF MoveIn, MovesBack
  <2>5. CASE Crash
    BY <1>a, <1>b, <2>5, MarkersAssumption DEF Crash, DiskType
  <2> QED
    BY <1>a, <2>1, <2>2, <2>3, <2>4, <2>5, DiskChanges
<1>4. restore'.moved # Torn
  <2>1. CASE restore' = restore
    BY <1>a, <2>1
  <2>2. CASE Archive
    BY <1>a, <2>2, ArchiveMoves, RaisedMoves DEF Archive, Onward
  <2>3. CASE StartRestore
    BY <2>3, StartMoves, MarkersAssumption
  <2>4. CASE EndRestore
    BY <2>4, MarkersAssumption DEF EndRestore, NoRestore
  <2>5. \/ restore'.moved = restore.moved \/ restore' = restore
        \/ Archive \/ StartRestore \/ EndRestore
    BY MovedStays
  <2> QED
    BY <1>a, <2>1, <2>2, <2>3, <2>4, <2>5
<1> QED
  BY <1>1, <1>2, <1>3, <1>4

-----------------------------------------------------------------------------
(* The server, and its autosave.                                           *)

\* The steps that write what the tables tell of the world: its state and a restore's outcome.
Telling == StartServer \/ StopServer \/ StartRestore \/ Tells \/ Crash

\* Any other step leaves what the writer sees of it, or undoes a statement, and commits
\* nothing else.
LEMMA TellsStay ==
    ASSUME Shapes, Turns, Sweeping, [Next]_vars, ~past'.undone, ~Telling
    PROVE  /\ db'.outcome = db.outcome /\ db'.state = db.state
           /\ \/ saved'.outcome = saved.outcome /\ saved'.state = saved.state
              \/ saved'.outcome = db.outcome /\ saved'.state = db.state
<1>1. CASE Untouched \/ Commit
  BY <1>1 DEF Untouched, Commit
<1>2. CASE BeginFails
  BY <1>2 DEF BeginFails, Rollback, Shapes, PastType
<1>3. CASE CopyFails /\ Rollback /\ ~Untouched
  <2>1. past' = [past EXCEPT
           !.undone = @ \/ Without(copy.art) # saved,
           !.stranded = @ \cup {a \in {copy.art} : saved.rows[a].status = "live"}]
    BY <1>3 DEF CopyFails, Untouched, dbVars
  <2>2. past'.undone = (past.undone \/ Without(copy.art) # saved)
    BY <2>1 DEF Shapes, PastType
  <2>3. Without(copy.art) = saved
    BY <2>2
  <2>4. Without(copy.art).outcome = db.outcome /\ Without(copy.art).state = db.state
    BY DEF Without, Shapes, Tables
  <2> QED
    BY <1>3, <2>3, <2>4 DEF Rollback
<1>4. CASE Insert
  BY <1>4, InsertWrites DEF Rewrites
<1>5. CASE Mark
  <2>1. PICK m \in cleanup.todo : m \in past.unlinked /\ \A b \in cleanup.todo : m <= b
    BY <1>5 DEF Mark, Sweeping
  <2> QED
    BY <1>5, <2>1, MarkWrites DEF Rewrites
<1>6. CASE RestoreWrites
  BY <1>6 DEF RestoreWrites, Writes, Telling
<1> QED
  BY <1>1, <1>2, <1>3, <1>4, <1>5, <1>6, TablesAreStepped DEF TablesStep, Telling

\* Serving, of a restore and of a backup.
RestoreServing ==
    /\ restore.pc \notin {"idle", "running", "done", "crashed"} => ~server.up
    /\ restore.pc \in {"running", "flag", "compensate"} \/ restore.round = "rollback" =>
          restore.wasRunning
    /\ restore.pc = "done" /\ server.up =>
          restore.wasRunning /\ restore.round = "restore"
    /\ restore.pc = "done" /\ server.up => db.state = "running" \/ past.undone
    /\ restore.pc = "done" /\ server.up /\ ~restore.due => saved.state = "running" \/ past.undone
    /\ restore.pc = "idle" /\ server.up =>
          (db.state = "running" /\ saved.state = "running") \/ past.undone

\* And that of a backup.
BackupServing ==
    /\ backup.pc \in {"flush", "verified"} \/ (backup.pc = "copy" /\ backup.running)
          => ~server.autosave
    /\ backup.pc \in {"suspend", "flush", "verified"} => backup.running
    /\ backup.pc = "copy" /\ ~backup.running /\ server.up => past.undone
    /\ server.up /\ ~server.autosave =>
          \/ past.unresumed \/ blocked
          \/ backup.pc \in {"flush", "verified", "resume"}
          \/ backup.pc = "copy" /\ backup.running

\* Serving is both.
LEMMA ServingParts == Serving <=> RestoreServing /\ BackupServing
BY DEF Serving, RestoreServing, BackupServing

\* A server comes up by a start only.
LEMMA ServerUps ==
    ASSUME Shapes, [Next]_vars, server'.up
    PROVE  server.up \/ StartServer \/ RestartProbe
<1>1. server \in ServerType
  BY DEF Shapes
<1>2. CASE StopServer
  BY <1>2 DEF StopServer, Switch
<1>3. CASE ServerDies
  BY <1>1, <1>3 DEF ServerDies, ServerType
<1>4. CASE Suspend
  BY <1>1, <1>4 DEF Suspend, ServerType
<1>5. CASE Resume
  BY <1>1, <1>5 DEF Resume, ServerType
<1> QED
  BY <1>2, <1>3, <1>4, <1>5, ServerChanges

\* Each step of a restore, and of the server, keeps the first part.
LEMMA RestoreServingStep ==
    ASSUME Shapes, Turns, Serving, Sweeping, [Next]_vars
    PROVE  RestoreServing'
<1>0. RestoreServing /\ (past.undone => past'.undone)
  BY ServingParts, PastStep DEF PastGrows
<1>1. CASE Crash
  <2>1. db' = saved /\ saved' = saved /\ server' = server
    BY <1>1 DEF Crash, Rollback
  <2> QED
    BY <1>0, <1>1, <2>1, CrashMoves DEF RestoreServing, Onward, SameCase
<1>2. CASE StartServer \/ StopServer
  <2>1. restore' = restore /\ restore.pc = "idle"
    BY <1>2 DEF StartServer, StopServer, Switch, threads
  <2>2. \/ server'.up /\ db'.state = "running" /\ saved'.state = "running"
        \/ ~server'.up
    BY <1>2, SwitchWrites DEF StartServer, StopServer, Switch
  <2> QED
    BY <1>0, <2>1, <2>2 DEF RestoreServing
<1>3. CASE StartRestore
  <2>1. server' = server /\ ~server.up
    BY <1>3 DEF StartRestore
  <2> QED
    BY <1>3, <2>1, StartMoves DEF RestoreServing
<1>4. CASE EndRestore
  <2>1. /\ server' = server /\ db' = db /\ saved' = saved /\ restore' = NoRestore
        /\ restore.pc \in {"done", "raised"} /\ ~restore.due
    BY <1>4 DEF EndRestore, dbVars, At
  <2> QED
    BY <1>0, <2>1 DEF RestoreServing, NoRestore
<1>5. CASE RestoreCommits
  <2>1. server' = server /\ db' = db /\ saved' = db
    BY <1>5 DEF RestoreCommits, Commit
  <2> QED
    BY <1>0, <1>5, <2>1, DueMoves DEF RestoreServing, Onward, SameCase
<1>6. CASE Validate
  <2>1. server' = server /\ restore.pc = "validate"
    BY <1>6 DEF Validate, At
  <2> QED
    BY <1>0, <1>6, <2>1, ValidateGoes
    DEF RestoreServing, PreBegins, Hop, Onward, SameCase, Failing
<1>7. CASE Archive
  <2>1. server' = server /\ restore.pc = "archive"
    BY <1>7 DEF Archive, At
  <2> QED
    BY <1>0, <1>7, <2>1, ArchiveMoves, RaisedMoves
    DEF Archive, RestoreServing, Onward, SameCase, Failing
<1>8. CASE Compensate
  <2>1. server' = server /\ restore.pc = "compensate"
    BY <1>8 DEF Compensate, At
  <2> QED
    BY <1>0, <1>8, <2>1, CompensateMoves, GotoMoves
    DEF Compensate, RestoreServing, Onward, SameCase, RestoreSteps
<1>9. CASE PreBackup \/ Extract \/ MoveIn \/ RecordHistory
  <2>1. server' = server /\ restore.pc \in {"copy", "extract", "move_in", "history"}
    BY <1>9 DEF PreBackup, Extract, MoveIn, RecordHistory, At
  <2> QED
    BY <1>0, <1>9, <2>1, Hops DEF RestoreServing, Hop, Onward, SameCase, Failing
<1>10. CASE FlagSource \/ CompleteRollback \/ RecordReversal \/ SetReverted \/ FailRollback
            \/ SetFailed \/ SetError
  <2>1. server' = server /\ restore.pc \in {"flag", "complete", "correct", "reverted",
                                            "revert_failed", "failed", "error"}
    BY <1>10 DEF FlagSource, CompleteRollback, RecordReversal, SetReverted, FailRollback,
                 SetFailed, SetError, At
  <2>2. restore.pc = "flag" => restore.wasRunning
    BY <1>0 DEF RestoreServing
  <2>3. \E p \in {"compensate", "correct", "reverted", "off", "revert_failed", "failed", "raised",
                 "error"}, due \in BOOLEAN :
           Onward(p, due) /\ (p = "compensate" => restore.pc = "flag")
    <3>1. CASE FlagSource
      BY <3>1, Hops DEF Hop, FlagSource, At
    <3>2. CASE CompleteRollback \/ FailRollback
      BY <3>2, Hops DEF Hop
    <3>3. CASE RecordReversal \/ SetReverted
      BY <3>3, Hops DEF Hop
    <3>4. CASE SetFailed \/ SetError
      BY <3>4, Hops DEF Hop
    <3> QED
      BY <1>10, <3>1, <3>2, <3>3, <3>4
  <2> QED
    BY <1>0, <2>1, <2>2, <2>3 DEF RestoreServing, Onward, SameCase
<1>11. CASE Settle \/ SetOff
  <2>1. server' = server /\ restore.pc \in {"settle", "off"}
    BY <1>11 DEF Settle, SetOff, At
  <2> QED
    BY <1>0, <1>11, <2>1, Hops DEF RestoreServing, Hop, Onward, SameCase
<1>12. CASE RestartProbe
  <2>1. /\ restore.pc = "settle" /\ restore.wasRunning
        /\ Goto("running") \/ (server' = server /\ Goto("flag"))
    BY <1>12 DEF RestartProbe, At
  <2> QED
    BY <1>0, <2>1, GotoMoves DEF RestoreServing, Onward, SameCase, RestoreSteps
<1>13. CASE SetRunning
  <2>1. /\ server' = server /\ restore.pc = "running" /\ Statement([db EXCEPT !.state = "running"])
        /\ restore.round = "restore"
    BY <1>13 DEF SetRunning, At, Turns, Second, Switching
  <2> QED
    BY <1>0, <1>13, <2>1, Hops, StateWrites DEF RestoreServing, Hop, Onward, SameCase, Writes
<1>14. CASE restore' = restore /\ ~Telling /\ ~RestartProbe
  <2>1. server'.up => server.up
    BY <1>14, ServerUps DEF Telling
  <2>2. past'.undone \/
           /\ db'.outcome = db.outcome /\ db'.state = db.state
           /\ \/ saved'.outcome = saved.outcome /\ saved'.state = saved.state
              \/ saved'.outcome = db.outcome /\ saved'.state = db.state
    BY <1>14, TellsStay
  <2>3. server'.up \in BOOLEAN /\ server.up \in BOOLEAN
    BY ServerShape DEF Shapes, ServerType
  <2> QED
    BY <1>0, <1>14, <2>1, <2>2, <2>3 DEF RestoreServing
<1> QED
  BY <1>1, <1>2, <1>3, <1>4, <1>5, <1>6, <1>7, <1>8, <1>9, <1>10, <1>11, <1>12, <1>13, <1>14,
     RestoreChanges
  DEF Telling, Tells

\* Only a backup's resumption tells whether autosave is left off.
LEMMA UnresumedStays ==
    ASSUME Shapes, Turns, [Next]_vars, ~Resume
    PROVE  past'.unresumed = past.unresumed
<1>0. past \in PastType
  BY DEF Shapes
<1>1. CASE past' = past
  BY <1>1
<1>2. CASE BeginFails
  BY <1>0, <1>2 DEF BeginFails, PastType
<1>3. CASE CopyFails /\ past' # past
  <2>1. past' = [past EXCEPT
           !.undone = @ \/ Without(copy.art) # saved,
           !.stranded = @ \cup {a \in {copy.art} : saved.rows[a].status = "live"}]
    BY <1>3 DEF CopyFails
  <2> QED
    BY <1>0, <2>1 DEF PastType
<1>4. CASE Sweep
  BY <1>0, <1>4 DEF Sweep, Unlink, PastType
<1> QED
  BY <1>1, <1>2, <1>3, <1>4, PastChanges

\* A backup resumes autosave on every way out, or says that it has not.
LEMMA BackupServingStep ==
    ASSUME Shapes, Turns, Serving, Sweeping, [Next]_vars
    PROVE  BackupServing'
<1>0. /\ BackupServing /\ RestoreServing /\ (past.undone => past'.undone)
      /\ backup \in BackupType /\ server \in ServerType
  BY ServingParts, PastStep DEF PastGrows, Shapes
<1>1. CASE StartServer \/ StopServer \/ RestartProbe
  <2>1. backup' = backup /\ backup.pc = "idle"
    BY <1>1 DEF StartServer, StopServer, RestartProbe, Switch, threads, At, Turns
  <2>2. server'.autosave \/ (server' = server /\ past' = past /\ blocked' = blocked)
    BY <1>1 DEF StartServer, StopServer, RestartProbe, Switch, rest
  <2> QED
    BY <1>0, <2>1, <2>2 DEF BackupServing
<1>2. CASE ServerDies
  <2>1. backup' = backup /\ ~server'.up /\ server'.autosave = server.autosave
    BY <1>0, <1>2 DEF ServerDies, threads, ServerType
  <2> QED
    BY <1>0, <2>1 DEF BackupServing
<1>3. CASE StartBackup
  <2>1. server' = server /\ past' = past /\ blocked' = blocked /\ backup.pc = "idle"
        /\ restore.pc = "idle"
    BY <1>3 DEF StartBackup
  <2>2. CASE saved.state = "running"
    <3>1. backup'.pc = "suspend" /\ backup'.running
      BY <1>3, <2>2 DEF StartBackup
    <3> QED
      BY <1>0, <2>1, <3>1 DEF BackupServing
  <2>3. CASE saved.state # "running"
    <3>1. backup'.pc = "copy" /\ ~backup'.running
      BY <1>3, <2>3 DEF StartBackup
    <3>2. server.up => past.undone
      BY <1>0, <2>1, <2>3 DEF RestoreServing
    <3> QED
      BY <1>0, <2>1, <3>1, <3>2 DEF BackupServing
  <2> QED
    BY <2>2, <2>3
<1>4. CASE Suspend
  <2>1. /\ past' = past /\ blocked' = blocked /\ backup.pc = "suspend"
        /\ backup'.running = backup.running
        /\ \/ backup'.pc = "flush" /\ ~server'.autosave
           \/ backup'.pc = "resume"
    BY <1>0, <1>4 DEF Suspend, rest, BackupType, ServerType
  <2> QED
    BY <1>0, <2>1 DEF BackupServing
<1>5. CASE Flush
  <2>1. /\ past' = past /\ blocked' = blocked /\ backup.pc = "flush" /\ server' = server
        /\ backup'.running = backup.running /\ backup'.pc \in {"verified", "resume"}
    BY <1>0, <1>5 DEF Flush, BackupType
  <2> QED
    BY <1>0, <2>1 DEF BackupServing
<1>6. CASE Capture
  <2>1. /\ past' = past /\ blocked' = blocked /\ backup.pc = "verified" /\ server' = server
        /\ backup'.running = backup.running /\ backup'.pc = "copy"
    BY <1>0, <1>6 DEF Capture, BackupType
  <2> QED
    BY <1>0, <2>1 DEF BackupServing
<1>7. CASE Captured
  <2>1. /\ past' = past /\ blocked' = blocked /\ backup.pc = "copy" /\ server' = server
        /\ backup'.running = backup.running
        /\ backup'.pc = IF backup.running THEN "resume" ELSE "idle"
    BY <1>0, <1>7 DEF Captured, rest, BackupType
  <2> QED
    BY <1>0, <2>1 DEF BackupServing
<1>8. CASE Resume
  <2>1. backup.pc = "resume" /\ backup'.pc = "idle"
    BY <1>0, <1>8 DEF Resume, BackupType
  <2>2. server'.autosave \/ (server' = server /\ past'.unresumed = ~server.autosave)
    BY <1>0, <1>8 DEF Resume, ServerType, PastType, Shapes
  <2> QED
    BY <2>1, <2>2 DEF BackupServing
<1>9. CASE Crash
  <2>1. /\ past' = past /\ server' = server /\ backup'.pc = "idle"
        /\ backup.pc = "idle" \/ blocked'
        /\ blocked => blocked'
    BY <1>9 DEF Crash
  <2> QED
    BY <1>0, <2>1 DEF BackupServing
<1>10. CASE backup' = backup /\ server' = server /\ ~Crash /\ ~Resume
  <2>1. past'.unresumed = past.unresumed /\ blocked' = blocked
    BY <1>10, UnresumedStays, BlockedChanges
  <2> QED
    BY <1>0, <1>10, <2>1 DEF BackupServing
<1> QED
  BY <1>1, <1>2, <1>3, <1>4, <1>5, <1>6, <1>7, <1>8, <1>9, <1>10, BackupChanges, ServerChanges

\* Serving is kept by every step.
LEMMA ServingStep == ASSUME Shapes, Turns, Serving, Sweeping, [Next]_vars PROVE Serving'
<1>1. RestoreServing' /\ BackupServing'
  BY RestoreServingStep, BackupServingStep
<1> QED
  BY <1>1 DEF Serving, RestoreServing, BackupServing

-----------------------------------------------------------------------------
(* The world a restore began with.                                         *)

\* Past its copy no copy is under way, and nothing takes the backup a restore has made.
LEMMA BackedStays ==
    ASSUME Shapes, Turns, Ledger, [Next]_vars, restore.pc \notin {"idle", "copy"}, Backed,
           restore'.pre = restore.pre, restore'.original = restore.original
    PROVE  Backed'
<1>1. past.undone => past'.undone
  BY PastStep DEF PastGrows
<1>2. copy.pc = "idle"
  BY DEF Turns
<1>3. past'.stranded = past.stranded
  BY <1>2, StrandedStep DEF CopyFails
<1> QED
  BY <1>1, <1>3, SavedStay DEF Backed, SavedStays

\* What is put away stays so while the archives keep it.
LEMMA StowedStays ==
    ASSUME Shapes, Turns, Ledger, [Next]_vars, restore.pc \notin {"idle", "copy"}, Stowed,
           restore'.pre = restore.pre, restore'.original = restore.original,
           restore.original \in disk'.archives
    PROVE  Stowed'
BY BackedStays DEF Stowed

\* What was restored stays so while the directory is left alone.
LEMMA FromSourceStays ==
    ASSUME Shapes, Turns, Ledger, [Next]_vars, restore.pc \notin {"idle", "crashed"}, FromSource,
           restore'.source = restore.source, disk'.dir = disk.dir
    PROVE  FromSource'
BY SavedStay DEF FromSource, SavedStays, Turns

\* What was extracted was of a row, which stays.
Staged == disk.staging = saved.rows[Wanted].checksum /\ disk.staging # None

\* What was extracted stays so while the staging directory is left alone.
LEMMA StagedStays ==
    ASSUME Shapes, Turns, Ledger, [Next]_vars, restore.pc \in Switching, Staged,
           restore'.source = restore.source, restore'.pre = restore.pre,
           restore'.round = restore.round, disk'.staging = disk.staging
    PROVE  Staged'
<1>1. Wanted' = Wanted /\ Wanted \in Artifact
  BY WantedIsThere DEF Wanted
<1>2. saved.rows[Wanted].status # "absent"
  BY <1>1 DEF Staged, Ledger, RowKept
<1> QED
  BY <1>1, <1>2, SavedStay DEF Staged, SavedStays

\* A step that leaves the restore where it is.
LEMMA OriginalKept ==
    ASSUME Shapes, Turns, Ledger, Original, [Next]_vars,
           restore'.pc = restore.pc, SameCase, restore'.round = restore.round,
           restore'.pre = restore.pre, restore'.moved = restore.moved,
           disk' = disk \/ (restore.pc \in {"running", "done", "crashed"} /\ server.up
                            /\ disk'.archives = disk.archives),
           restore.pc = "done" /\ disk' # disk => restore.wasRunning /\ restore.round = "restore",
           restore.pc = "crashed" /\ server'.up => server.up,
           restore.pc = "copy" /\ copy'.pc # "failed" =>
              copy.pc # "failed" /\ copy'.content = copy.content
    PROVE  Original'
<1>1. CASE restore.pc = "idle"
  BY <1>1 DEF Original, Early, Switching
<1>2. CASE restore.pc \in Early
  BY <1>2 DEF Original, Early, Switching, SameCase
<1>3. CASE restore.pc \notin Early \cup {"idle"}
  <2>0. restore.pc \notin {"idle", "copy"}
    BY <1>3 DEF Early
  <2>1. /\ Backed => Backed'
        /\ Stowed => Stowed'
    BY <2>0, BackedStays, StowedStays DEF SameCase, Stowed
  <2>2. past.undone => past'.undone
    BY PastStep DEF PastGrows
  <2>3. CASE disk' = disk
    <3>1. /\ FromSource /\ restore.pc # "crashed" => FromSource'
          /\ Staged /\ restore.pc \in Switching => Staged'
      BY <2>0, <2>3, FromSourceStays, StagedStays DEF SameCase
    <3> QED
      BY <1>3, <2>1, <2>2, <2>3, <3>1 DEF Original, Early, Switching, SameCase, Staged
  <2>4. CASE disk' # disk
    <3>1. Stowed /\ Stowed'
      BY <2>1, <2>4 DEF Original
    <3> QED
      BY <1>3, <2>2, <2>4, <3>1 DEF Original, Early, Switching, SameCase
  <2> QED
    BY <2>3, <2>4
<1> QED
  BY <1>1, <1>2, <1>3

\* A step that is none of the restore: the server writes only where it is up.
LEMMA OriginalRests ==
    ASSUME Shapes, Turns, Ledger, Serving, Original, [Next]_vars, restore' = restore, ~Crash
    PROVE  Original'
<1>1. CASE restore.pc = "idle"
  BY <1>1 DEF Original, Early, Switching
<1>2. CASE restore.pc # "idle"
  <2>1. SameCase
    BY DEF SameCase
  <2>2. backup.pc = "idle"
    BY <1>2 DEF Turns
  <2>3. restore.pc \in Switching =>
           ~Extract /\ ~Archive /\ ~MoveIn
    <3>1. ASSUME Extract, restore.pc = "extract" PROVE FALSE
      BY <3>1, Hops DEF Hop, Onward, Failing
    <3>2. ASSUME Archive, restore.pc = "archive" PROVE FALSE
      BY <3>2, ArchiveMoves, RaisedMoves DEF Archive, Onward, Failing
    <3>3. ASSUME MoveIn, restore.pc = "move_in" PROVE FALSE
      BY <3>3, Hops DEF Hop, Onward, Failing
    <3> QED
      BY <3>1, <3>2, <3>3 DEF Extract, Archive, MoveIn, At
  <2>4. disk' = disk \/ Autosave
    BY <2>2, <2>3, DiskChanges DEF Flush, Extract, Archive, MoveIn, At, Switching
  <2>5. Autosave => /\ restore.pc \in {"running", "done", "crashed"} /\ server.up
                    /\ disk'.archives = disk.archives
                    /\ restore.pc = "done" => restore.wasRunning /\ restore.round = "restore"
    BY <1>2 DEF Autosave, Serving, Shapes, DiskType
  <2>6. restore.pc = "crashed" /\ server'.up => server.up
    BY ServerUps DEF StartServer, Switch, RestartProbe, At, Turns
  <2>7. restore.pc = "copy" /\ copy'.pc # "failed" =>
           copy.pc # "failed" /\ copy'.content = copy.content
    <3>1. ASSUME restore.pc = "copy", copy'.pc # "failed"
          PROVE  copy.pc # "failed" /\ copy'.content = copy.content
      <4>1. copy.pc # "idle" /\ ~server.up
        BY <3>1 DEF Turns, Serving
      <4>2. copy'.pc # "idle"
        BY <3>1, PlacesStep DEF Places
      <4>3. ~Autosave
        BY <4>1 DEF Autosave
      <4> QED
        BY <3>1, <4>1, <4>2, <4>3, CopySteppedOn
    <3> QED
      BY <3>1
  <2> QED
    BY <2>1, <2>4, <2>5, <2>6, <2>7, OriginalKept
<1> QED
  BY <1>1, <1>2

\* The backup before is made, and is of the world the restore began with.
LEMMA BackupMade ==
    ASSUME Shapes, Turns, Ledger, Whole, Original, restore.pc = "copy", copy.pc = "done"
    PROVE  Backed /\ restore.original # None
<1>1. /\ restore.pre = copy.art /\ copy.art \in Artifact /\ copy.content = restore.original
      /\ copy.content # None /\ copy.art \notin past.stranded
  BY DEF Turns, Shapes, CopyType, Original, Whole
<1>2. saved.rows[copy.art].status # "absent" \/ past.undone
  BY DEF Ledger
<1>3. saved.rows[copy.art].status # "absent" => saved.rows[copy.art].checksum = copy.content
  BY <1>1 DEF Ledger, RowKept
<1> QED
  BY <1>1, <1>2, <1>3 DEF Backed

\* The steps up to the switch.
LEMMA OriginalBefore ==
    ASSUME Shapes, Turns, Ledger, Whole, Original, [Next]_vars,
           StartRestore \/ Validate \/ PreBackup \/ EndRestore
    PROVE  Original'
<1>1. CASE StartRestore
  <2>1. disk' = disk
    BY <1>1 DEF StartRestore
  <2> QED
    BY <1>1, <2>1, StartMoves DEF Original, Early, Switching
<1>2. CASE EndRestore
  BY <1>2 DEF EndRestore, NoRestore, Original, Early, Switching
<1>3. CASE Validate
  <2>1. disk' = disk /\ disk.dir = restore.original /\ restore.pc = "validate"
    BY <1>3 DEF Validate, At, Original, Early
  <2>2. restore.round = "restore"
    BY <2>1 DEF Turns, Second, Switching, Shapes, RestoreType
  <2>3. CASE PreBegins
    BY <2>1, <2>3 DEF Original, Early, Switching, PreBegins, SameCase
  <2>4. CASE restore'.pc = "raised" /\ restore'.original = restore.original
    BY <2>1, <2>4 DEF Original, Early, Switching
  <2> QED
    BY <1>3, <2>2, <2>3, <2>4, ValidateGoes DEF Hop, Onward, SameCase, Failing
<1>4. CASE PreBackup
  <2>1. disk' = disk /\ disk.dir = restore.original /\ restore.pc = "copy" /\ saved' = saved
        /\ past' = past
    BY <1>4 DEF PreBackup, At, Original, Early, dbVars, rest
  <2>2. restore.round = "restore"
    BY <2>1 DEF Turns, Second, Switching, Shapes, RestoreType
  <2>3. CASE copy.pc = "done"
    <3>1. Onward("extract", FALSE)
      BY <1>4, <2>3, Hops DEF Hop
    <3>2. Backed /\ restore.original # None
      BY <2>1, <2>3, BackupMade
    <3>3. Backed'
      BY <2>1, <3>1, <3>2 DEF Backed, Onward, SameCase
    <3> QED
      BY <2>1, <2>2, <3>1, <3>2, <3>3 DEF Original, Early, Switching, Onward, SameCase
  <2>4. CASE copy.pc # "done"
    <3>1. Onward("raised", FALSE)
      BY <1>4, <2>2, <2>4, Hops DEF Hop, Failing
    <3> QED
      BY <2>1, <3>1 DEF Original, Early, Switching, Onward, SameCase
  <2> QED
    BY <2>3, <2>4
<1> QED
  BY <1>1, <1>2, <1>3, <1>4

\* A restore that fails with the world where it began, or put away.
LEMMA OriginalAtFailure ==
    ASSUME Shapes, Turns, Ledger, [Next]_vars,
           NEW due, Onward(Failing, due),
           restore.round = "restore" => \/ disk'.dir = restore.original
                                        \/ /\ Stowed'
                                           /\ \/ past'.undone
                                              \/ disk'.dir \in {None, Partial}
                                                 /\ restore.original \in disk'.archives \cup {None},
           restore.round # "restore" => disk'.dir = restore.original \/ Stowed'
    PROVE  Original'
<1>1. CASE restore.round = "restore"
  BY <1>1 DEF Original, Onward, SameCase, Failing, Early, Switching
<1>2. CASE restore.round # "restore"
  BY <1>2 DEF Original, Onward, SameCase, Failing, Early, Switching
<1> QED
  BY <1>1, <1>2

\* An extraction goes to the staging directory, or fails.
LEMMA OriginalExtracted ==
    ASSUME Shapes, Turns, Ledger, Original, Sweeping, [Next]_vars, Extract
    PROVE  Original'
<1>1. restore.pc = "extract" /\ disk'.dir = disk.dir /\ disk'.archives = disk.archives
      /\ saved' = saved
  <2>1. disk' = disk \/ (\E c \in Directories : disk' = [disk EXCEPT !.staging = c])
    BY WantedIsThere DEF Extract, At, Shapes, FilesType, Switching, Directories
  <2>2. restore.pc = "extract" /\ saved' = saved
    BY DEF Extract, At, dbVars, Rejects, FlagSuspect, Statement
  <2> QED
    BY <2>1, <2>2 DEF Shapes, DiskType
<1>2. /\ restore.round = "restore" =>
            disk.dir = restore.original /\ restore.original # None /\ Backed
      /\ restore.round # "restore" => Stowed /\ disk.dir # None
  BY <1>1 DEF Original, Switching, Shapes, RestoreType
<1>3. ASSUME NEW p, NEW due, Onward(p, due)
      PROVE  (Backed => Backed') /\ (Stowed => Stowed')
  BY <1>1, <1>3, BackedStays, StowedStays DEF Onward, SameCase, Stowed
<1>4. ASSUME NEW due, Onward(Failing, due) PROVE Original'
  BY <1>1, <1>2, <1>3, <1>4, OriginalAtFailure
<1>5. CASE Hop("archive", FALSE)
  <2>1. restore'.pc = "archive" /\ ~restore'.due /\ SameCase /\ restore'.round = restore.round
        /\ restore'.pre = restore.pre
    BY <1>5 DEF Hop, Onward
  <2>2. Failing # "archive"
    BY DEF Failing
  <2>3. disk' = [disk EXCEPT !.staging = files[Wanted]] /\ IsValid(Wanted)
    BY <2>1, <2>2, FlagMoves, RaisedMoves DEF Extract, Rejects, FlagSuspect, Onward
  <2>4. disk'.staging = saved.rows[Wanted].checksum /\ disk'.staging # None
    BY <2>3 DEF IsValid, Shapes, DiskType
  <2>5. Staged'
    BY <1>1, <2>1, <2>4 DEF Staged, Wanted, SameCase
  <2>6. (Backed => Backed') /\ (Stowed => Stowed')
    BY <1>3, <1>5 DEF Hop
  <2> QED
    BY <1>1, <1>2, <2>1, <2>5, <2>6 DEF Original, Early, Switching, Staged, SameCase
<1> QED
  BY <1>4, <1>5, Hops DEF Hop

\* The directory is archived, or left in its place.
LEMMA OriginalArchived ==
    ASSUME Shapes, Turns, Ledger, Original, [Next]_vars, Archive
    PROVE  Original'
<1>1. restore.pc = "archive" /\ disk \in DiskType
  BY DEF Archive, At, Shapes
<1>2. /\ restore.round = "restore" =>
            disk.dir = restore.original /\ restore.original # None /\ Backed
      /\ restore.round # "restore" => Stowed /\ disk.dir # None
      /\ Staged
  BY <1>1 DEF Original, Switching, Shapes, RestoreType, Staged
<1>3. CASE restore' = Raised(restore) /\ disk' = disk
  <2>1. Onward(Failing, restore.due)
    BY <1>3, RaisedMoves
  <2>2. Stowed => Stowed'
    BY <1>1, <1>3, <2>1, StowedStays DEF Onward, SameCase, Stowed
  <2> QED
    BY <1>2, <1>3, <2>1, <2>2, OriginalAtFailure
<1>4. CASE /\ restore' = [restore EXCEPT !.pc = "move_in", !.moved = disk.dir]
           /\ disk' = [disk EXCEPT !.dir = None, !.archives = @ \cup ({disk.dir} \ {None})]
  <2>1. /\ restore'.pc = "move_in" /\ restore'.due = restore.due /\ SameCase
        /\ restore'.round = restore.round /\ restore'.pre = restore.pre
        /\ restore'.moved = disk.dir
    BY <1>4, ArchiveMoves
  <2>2. disk'.dir = None /\ disk'.archives = disk.archives \cup ({disk.dir} \ {None})
        /\ disk'.staging = disk.staging
    BY <1>1, <1>4 DEF DiskType
  <2>3. Staged'
    BY <1>1, <1>2, <2>1, <2>2, StagedStays DEF SameCase, Switching
  <2>4. Stowed'
    <3>1. Backed'
      BY <1>1, <1>2, <2>1, BackedStays DEF SameCase, Stowed
    <3> QED
      BY <1>2, <2>1, <2>2, <3>1 DEF Stowed, SameCase
  <2> QED
    BY <1>2, <2>1, <2>2, <2>3, <2>4 DEF Original, Early, Switching, Staged, SameCase
<1> QED
  BY <1>3, <1>4 DEF Archive

\* The staging directory is moved in; or the move fails, and the archived one is moved
\* back, or stays archived.
LEMMA OriginalMovedIn ==
    ASSUME Shapes, Turns, Ledger, Original, [Next]_vars, MoveIn
    PROVE  Original'
<1>1. restore.pc = "move_in" /\ disk \in DiskType /\ restore.round \in {"restore", "rollback"}
  BY DEF MoveIn, At, Shapes, RestoreType
<1>2. /\ Stowed /\ Staged
      /\ restore.round = "restore" => restore.moved = restore.original
      /\ restore.round # "restore" => restore.moved # None
  BY <1>1 DEF Original, Switching, Staged
<1>a. saved' = saved
  BY DEF MoveIn, dbVars
<1>3. ASSUME NEW p, NEW due, Onward(p, due), restore.original \in disk'.archives PROVE Stowed'
  BY <1>1, <1>2, <1>3, StowedStays DEF Onward, SameCase
<1>4. CASE disk' = [disk EXCEPT !.dir = disk.staging, !.staging = None]
           /\ Goto(IF restore.round = "restore" THEN "history" ELSE "complete")
  <2>1. disk'.dir = disk.staging /\ disk'.archives = disk.archives
    BY <1>1, <1>4 DEF DiskType
  <2>2. CASE restore.round = "restore"
    <3>1. Onward("history", restore.due)
      BY <1>4, <2>2, GotoMoves DEF RestoreSteps
    <3>2. FromSource'
      BY <1>2, <1>a, <2>1, <2>2, <3>1 DEF FromSource, Staged, Wanted, Onward, SameCase
    <3>3. Stowed'
      BY <1>2, <1>3, <2>1, <3>1 DEF Stowed
    <3> QED
      BY <3>1, <3>2, <3>3 DEF Original, Early, Switching, Onward
  <2>3. CASE restore.round # "restore"
    <3>1. Onward("complete", restore.due)
      BY <1>4, <2>3, GotoMoves DEF RestoreSteps
    <3>2. disk'.dir = restore.original \/ past'.undone
      BY <1>2, <2>1, <2>3, PastStep DEF Staged, Wanted, Stowed, Backed, PastGrows
    <3>3. Stowed'
      BY <1>2, <1>3, <2>1, <3>1 DEF Stowed
    <3> QED
      BY <3>1, <3>2, <3>3 DEF Original, Early, Switching, Onward, SameCase
  <2> QED
    BY <2>2, <2>3
<1>5. CASE restore' = Raised(restore) /\ MovesBack
  <2>1. Onward(Failing, restore.due)
    BY <1>5, RaisedMoves
  <2>2. CASE disk' = [disk EXCEPT !.dir = restore.moved, !.archives = @ \ {restore.moved}]
    <3>1. disk'.dir = restore.moved /\ disk'.archives = disk.archives \ {restore.moved}
      BY <1>1, <2>2 DEF DiskType
    <3>2. restore.moved # restore.original => Stowed'
      BY <1>2, <1>3, <2>1, <3>1 DEF Stowed
    <3> QED
      BY <1>2, <2>1, <3>1, <3>2, OriginalAtFailure
  <2>3. CASE \E left \in {None, Partial} : disk' = [disk EXCEPT !.dir = left]
    <3>1. disk'.dir \in {None, Partial} /\ disk'.archives = disk.archives
      BY <1>1, <2>3 DEF DiskType
    <3>2. Stowed'
      BY <1>2, <1>3, <2>1, <3>1 DEF Stowed
    <3> QED
      BY <1>2, <2>1, <3>1, <3>2, OriginalAtFailure DEF Stowed
  <2> QED
    BY <1>5, <2>2, <2>3 DEF MovesBack
<1> QED
  BY <1>4, <1>5 DEF MoveIn

\* The steps that keep the records of a restore and touch no directory.
Records == RecordHistory \/ Settle \/ RestartProbe \/ SetRunning \/ FlagSource \/ Compensate
           \/ CompleteRollback \/ RecordReversal \/ SetReverted \/ SetOff \/ FailRollback
           \/ SetFailed \/ SetError

\* These steps have nothing due before them, and touch no directory.
LEMMA RecordsAreApart ==
    ASSUME Records
    PROVE  /\ restore.pc \in {"history", "settle", "running", "flag", "compensate", "complete",
                              "correct", "reverted", "off", "revert_failed", "failed", "error"}
           /\ ~restore.due /\ disk' = disk
BY DEF Records, RecordHistory, Settle, RestartProbe, SetRunning, FlagSource, Compensate,
       CompleteRollback, RecordReversal, SetReverted, SetOff, FailRollback, SetFailed, SetError, At

\* A BEGIN that fails where nothing of the restore is due has met another's statements.
LEMMA BeginUndoes ==
    ASSUME Shapes, Ledger, BeginFails, ~restore.due
    PROVE  past'.undone
BY DEF BeginFails, Ledger, Shapes, PastType

\* The records of a restore, and its restart.
LEMMA OriginalOfRestoring ==
    ASSUME Shapes, Turns, Ledger, Serving, Original, [Next]_vars,
           RecordHistory \/ Settle \/ RestartProbe \/ SetRunning \/ FlagSource \/ Compensate
    PROVE  Original'
<1>1. /\ restore.pc \in {"history", "settle", "running", "flag", "compensate"}
      /\ ~restore.due /\ disk' = disk
  BY DEF RecordHistory, Settle, RestartProbe, SetRunning, FlagSource, Compensate, At
<1>2. restore.round = "restore" /\ Stowed
  BY <1>1 DEF Turns, Second, Switching, Shapes, RestoreType, Original
<1>3. restore.pc # "running" => FromSource
  BY <1>1 DEF Original
<1>4. past.undone => past'.undone
  BY PastStep DEF PastGrows
<1>5. ASSUME restore'.pre = restore.pre, restore'.original = restore.original PROVE Stowed'
  BY <1>1, <1>2, <1>5, StowedStays DEF Stowed
<1>6. ASSUME restore'.source = restore.source, restore.pc # "running" PROVE FromSource'
  BY <1>1, <1>3, <1>6, FromSourceStays
<1>7. CASE RecordHistory /\ db.rows[restore.pre].status = "absent"
  <2>1. Hop("raised", FALSE)
    BY <1>2, <1>7, Hops DEF Failing
  <2>2. past'.undone
    BY <1>2, <1>4, <1>7 DEF Stowed, Backed, Ledger, RowKept
  <2> QED
    BY <1>5, <2>1, <2>2 DEF Original, Early, Switching, Hop, Onward, SameCase
<1>8. CASE RecordHistory /\ db.rows[restore.pre].status # "absent"
  <2>1. Hop("settle", TRUE)
    BY <1>8, Hops
  <2> QED
    BY <1>1, <1>5, <1>6, <1>8, <2>1
    DEF RecordHistory, At, Original, Early, Switching, Hop, Onward, SameCase
<1>9. CASE Settle
  <2>1. Hop("done", TRUE)
    BY <1>9, Hops
  <2>2. FromSource' /\ Stowed'
    BY <1>5, <1>6, <1>9, <2>1 DEF Settle, At, Hop, Onward, SameCase
  <2> QED
    BY <1>2, <2>1, <2>2 DEF Original, Early, Switching, Hop, Onward, SameCase
<1>10. CASE RestartProbe \/ FlagSource
  <2>1. restore.pc \in {"settle", "flag"}
    BY <1>10 DEF RestartProbe, FlagSource, At
  <2>2. \E p \in {"running", "flag", "compensate"}, due \in BOOLEAN : Onward(p, due)
    BY <1>10, Hops DEF Hop
  <2>3. FromSource' /\ Stowed'
    BY <1>5, <1>6, <2>1, <2>2 DEF Onward, SameCase
  <2> QED
    BY <2>2, <2>3 DEF Original, Early, Switching, Onward
<1>11. CASE SetRunning
  <2>1. Hop("done", TRUE) /\ restore.wasRunning
    BY <1>11, Hops DEF SetRunning, At, Serving
  <2>2. Stowed'
    BY <1>5, <2>1 DEF Hop, Onward, SameCase
  <2> QED
    BY <1>2, <2>1, <2>2 DEF Original, Early, Switching, Hop, Onward, SameCase
<1>12. CASE Compensate
  <2>1. restore.pc = "compensate"
    BY <1>12 DEF Compensate, At
  <2>2. CASE restore' = [restore EXCEPT !.pc = "extract", !.round = "rollback"]
    <3>1. restore'.pc = "extract" /\ SameCase /\ restore'.round = "rollback"
          /\ restore'.pre = restore.pre
      BY <2>2, CompensateMoves
    <3>2. FromSource' /\ Stowed'
      BY <1>5, <1>6, <2>1, <3>1 DEF SameCase
    <3> QED
      BY <3>1, <3>2 DEF Original, Early, Switching, FromSource
  <2>3. CASE BeginFails /\ Goto("raised")
    <3>1. Onward("raised", restore.due) /\ past'.undone
      BY <1>1, <2>3, GotoMoves, BeginUndoes DEF RestoreSteps
    <3>2. Stowed'
      BY <1>5, <3>1 DEF Onward, SameCase
    <3> QED
      BY <3>1, <3>2 DEF Original, Early, Switching, Onward
  <2> QED
    BY <1>12, <2>2, <2>3 DEF Compensate
<1> QED
  BY <1>7, <1>8, <1>9, <1>10, <1>11, <1>12

\* The records of a rollback.
LEMMA OriginalOfRollingBack ==
    ASSUME Shapes, Turns, Ledger, Serving, Original, [Next]_vars,
           CompleteRollback \/ RecordReversal \/ SetReverted \/ SetOff \/ FailRollback
           \/ SetFailed \/ SetError
    PROVE  Original'
<1>1. /\ restore.pc \in {"complete", "correct", "reverted", "off", "revert_failed", "failed",
                         "error"}
      /\ ~restore.due /\ disk' = disk
  BY DEF CompleteRollback, RecordReversal, SetReverted, SetOff, FailRollback, SetFailed, SetError,
         At
<1>2. restore.round = "rollback" /\ restore.wasRunning
  BY <1>1 DEF Turns, First, Early, Switching, Shapes, RestoreType, Serving
<1>3. /\ disk.dir = restore.original \/ Stowed
      /\ restore.pc \in {"complete", "correct", "reverted", "off"} =>
            Stowed /\ (disk.dir = restore.original \/ past.undone)
  BY <1>1 DEF Original
<1>4. past.undone => past'.undone
  BY PastStep DEF PastGrows
<1>5. ASSUME restore'.pre = restore.pre, restore'.original = restore.original
      PROVE  Stowed => Stowed'
  BY <1>1, <1>5, StowedStays DEF Stowed
<1>6. \E p \in {"correct", "reverted", "off", "done", "revert_failed", "failed", "error", "raised"},
         due \in BOOLEAN :
            /\ Onward(p, due)
            /\ p \in {"correct", "reverted", "off", "done"} =>
                  restore.pc \in {"complete", "correct", "reverted", "off"}
  <2>1. CASE CompleteRollback
    BY <2>1, Hops DEF Hop, CompleteRollback, At
  <2>2. CASE RecordReversal \/ SetReverted
    BY <2>2, Hops DEF Hop, RecordReversal, SetReverted, At
  <2>3. CASE SetOff
    BY <2>3, Hops DEF Hop, SetOff, At
  <2>4. CASE FailRollback \/ SetFailed \/ SetError
    BY <2>4, Hops DEF Hop
  <2> QED
    BY <2>1, <2>2, <2>3, <2>4
<1>7. PICK p \in {"correct", "reverted", "off", "done", "revert_failed", "failed", "error",
                  "raised"},
         due \in BOOLEAN :
            /\ Onward(p, due)
            /\ p \in {"correct", "reverted", "off", "done"} =>
                  restore.pc \in {"complete", "correct", "reverted", "off"}
  BY <1>6
<1>8. Stowed => Stowed'
  BY <1>5, <1>7 DEF Onward, SameCase
<1> QED
  BY <1>1, <1>2, <1>3, <1>4, <1>7, <1>8 DEF Original, Early, Switching, Onward, SameCase

\* A crash cuts off any step, and what a move has copied stays.
LEMMA OriginalAtCrash ==
    ASSUME Shapes, Turns, Ledger, Serving, Original, [Next]_vars, Crash
    PROVE  Original'
<1>1. CASE restore.pc = "idle"
  BY <1>1, CrashMoves DEF Original, Early, Switching, Onward
<1>2. CASE restore.pc # "idle"
  <2>1. Onward("crashed", FALSE) /\ server' = server
    BY <1>2, CrashMoves DEF Crash
  <2>2. /\ disk'.archives = disk.archives
        /\ restore.pc # "move_in" => disk'.dir = disk.dir
    BY DEF Crash, Shapes, DiskType
  <2>3. restore.pc # "copy" /\ Stowed => Stowed'
    BY <1>2, <2>1, <2>2, StowedStays DEF Onward, SameCase, Stowed
  <2>4. CASE restore.pc \in Early \cup {"extract", "archive", "revert_failed", "failed", "error",
                                        "raised"}
    <3>1. disk.dir = restore.original \/ (Stowed /\ restore.pc # "copy")
      BY <2>4 DEF Original, Early, Switching, Shapes, RestoreType
    <3>2. ~server.up
      BY <2>4 DEF Serving, Early
    <3> QED
      BY <2>1, <2>2, <2>3, <2>4, <3>1, <3>2
      DEF Original, Early, Switching, Onward, SameCase
  <2>5. CASE restore.pc = "move_in"
    <3>1. Stowed
      BY <2>5 DEF Original, Switching, Shapes, RestoreType
    <3> QED
      BY <2>1, <2>3, <2>5, <3>1 DEF Original, Early, Switching, Onward
  <2>6. CASE restore.pc \in {"history", "settle", "running", "flag", "compensate", "complete",
                             "correct", "reverted", "off", "done"}
    <3>1. Stowed
      BY <2>6 DEF Original
    <3> QED
      BY <2>1, <2>3, <2>6, <3>1 DEF Original, Early, Switching, Onward
  <2>7. CASE restore.pc = "crashed"
    BY <2>1, <2>2, <2>3, <2>7 DEF Original, Early, Switching, Onward, SameCase
  <2> QED
    BY <1>2, <2>4, <2>5, <2>6, <2>7 DEF Shapes, RestoreType, RestoreSteps, Early
<1> QED
  BY <1>1, <1>2

\* Original is kept by every step.
LEMMA OriginalStep ==
    ASSUME Shapes, Turns, Ledger, Whole, Serving, Original, Sweeping, [Next]_vars
    PROVE  Original'
<1>1. CASE Crash
  BY <1>1, OriginalAtCrash
<1>2. CASE restore' = restore /\ ~Crash
  BY <1>2, OriginalRests
<1>3. CASE RestoreCommits
  <2>1. disk' = disk /\ server' = server /\ copy' = copy /\ restore.pc # "copy"
    BY <1>3 DEF RestoreCommits, Turns, Due
  <2> QED
    BY <1>3, <2>1, DueMoves, OriginalKept DEF Onward
<1> QED
  BY <1>1, <1>2, <1>3, OriginalBefore, OriginalExtracted, OriginalArchived, OriginalMovedIn,
     OriginalOfRestoring, OriginalOfRollingBack, RestoreChanges

-----------------------------------------------------------------------------
(* What the tables tell of a restore.                                      *)

\* What the tables tell at each step of a restore.
Tale ==
    /\ restore.pc \in Early \cup {"history"} => Told("none", "off")
    /\ restore.pc \in Switching /\ restore.round = "restore" => Told("none", "off")
    /\ restore.pc \in Switching /\ restore.round = "rollback" => Told("success", "off")
    /\ restore.pc \in {"settle", "running", "flag", "compensate", "complete", "correct",
                       "reverted", "revert_failed", "failed"} => Told("success", "off")
    /\ restore.pc = "off" => Told("reverted", "off")
    /\ restore.pc = "error" => Told("failed", "off")
    /\ restore.pc = "raised" => IF restore.round = "restore" THEN Told("none", "off")
                                ELSE Told("failed", "error")
    /\ restore.pc = "done" => IF restore.round = "rollback" THEN Told("reverted", "off")
                              ELSE Told("success", IF restore.wasRunning THEN "running" ELSE "off")

\* What is not due is committed.
Settled ==
    restore.pc \notin {"idle", "crashed"} /\ ~restore.due =>
        saved.outcome = db.outcome /\ saved.state = db.state

\* Story is both.
LEMMA StoryParts == Story <=> (~past.undone => Settled /\ Tale)
BY DEF Story, Settled, Tale

\* Each step keeps that what is not due is committed.
LEMMA SettledStep ==
    ASSUME Shapes, Turns, Ledger, Settled, Sweeping, [Next]_vars, ~past'.undone
    PROVE  Settled'
<1> SUFFICES ASSUME restore'.pc \notin {"idle", "crashed"}, ~restore'.due
             PROVE  saved'.outcome = db'.outcome /\ saved'.state = db'.state
  BY DEF Settled
<1>1. CASE StartServer \/ StopServer \/ StartRestore
  BY <1>1, SwitchWrites, StartWrites DEF StartServer, StopServer
<1>2. CASE Crash
  BY <1>2, CrashMoves DEF Onward
<1>3. CASE ~StartServer /\ ~StopServer /\ ~StartRestore /\ ~Crash
  <2>1. restore.pc \notin {"idle", "crashed"}
    BY <1>3, RestoreGoesOn
  <2>2. CASE restore.due
    <3>1. ~txn'
      BY <2>2, DueEnds
    <3> QED
      BY <3>1, ClosedIsSaved
  <2>3. CASE ~restore.due
    <3>1. saved.outcome = db.outcome /\ saved.state = db.state
      BY <2>1, <2>3 DEF Settled
    <3>2. CASE Tells
      <4>1. db.rows[restore.pre].status = "absent" /\ RecordHistory
        BY <3>2, Hops DEF Tells, Hop, Onward
      <4>2. Writes(db.outcome, db.state)
        BY <4>1, SameWrites DEF RecordHistory
      <4> QED
        BY <3>1, <4>2 DEF Writes
    <3>3. CASE ~Tells
      BY <1>3, <3>1, <3>3, TellsStay DEF Telling
    <3> QED
      BY <3>2, <3>3
  <2> QED
    BY <2>2, <2>3
<1> QED
  BY <1>1, <1>2, <1>3

\* The tables stay as they are, and the restore goes where they tell the same.
LEMMA TaleGoesOn ==
    ASSUME Shapes, Turns, Ledger, Serving, Tale, Sweeping, [Next]_vars, ~past'.undone, ~Telling
    PROVE  Tale'
<1>0. restore.round \in {"restore", "rollback"}
  BY DEF Shapes, RestoreType
<1>t. db'.outcome = db.outcome /\ db'.state = db.state
  BY TellsStay
<1>s. \A o, s : Told(o, s) => Told(o, s)'
  BY <1>t DEF Told
<1>1. CASE restore'.pc = restore.pc /\ restore'.round = restore.round
           /\ restore'.wasRunning = restore.wasRunning
  BY <1>1, <1>s DEF Tale
<1>2. CASE EndRestore
  BY <1>2 DEF EndRestore, NoRestore, Tale, Early, Switching
<1>3. ASSUME restore.pc \in Early \cup Switching, NEW due, Onward(Failing, due)
      PROVE  Tale'
  <2>1. CASE restore.round = "restore"
    BY <1>3, <1>s, <2>1 DEF Tale, Early, Switching, Onward, Failing
  <2>2. CASE restore.round = "rollback"
    <3>1. restore.pc \in Switching
      BY <1>3, <2>2 DEF Turns, Second, Early, Switching
    <3> QED
      BY <1>3, <1>s, <2>2, <3>1 DEF Tale, Early, Switching, Onward, Failing
  <2> QED
    BY <1>0, <2>1, <2>2
<1>4. CASE Validate
  <2>1. restore.pc = "validate"
    BY <1>4 DEF Validate, At
  <2>2. CASE PreBegins
    BY <1>s, <2>1, <2>2 DEF PreBegins, Tale, Early, Switching
  <2> QED
    BY <1>3, <1>4, <2>1, <2>2, ValidateGoes DEF Hop, Early
<1>5. CASE PreBackup
  <2>1. restore.pc = "copy" /\ restore.round = "restore"
    BY <1>0, <1>5 DEF PreBackup, At, Turns, Second, Switching
  <2>2. CASE Onward("extract", FALSE)
    BY <1>s, <2>1, <2>2 DEF Onward, Tale, Early, Switching
  <2> QED
    BY <1>3, <1>5, <2>1, <2>2, Hops DEF Hop, Early
<1>6. CASE Extract
  <2>1. restore.pc = "extract"
    BY <1>6 DEF Extract, At
  <2>2. CASE Onward("archive", FALSE)
    BY <1>s, <2>1, <2>2 DEF Onward, Tale, Early, Switching
  <2> QED
    BY <1>3, <1>6, <2>1, <2>2, Hops DEF Hop, Switching
<1>7. CASE Archive
  <2>1. restore.pc = "archive"
    BY <1>7 DEF Archive, At
  <2>2. CASE restore'.pc = "move_in" /\ restore'.round = restore.round
    BY <1>s, <2>1, <2>2 DEF Tale, Early, Switching
  <2> QED
    BY <1>3, <1>7, <2>1, <2>2, ArchiveMoves, RaisedMoves DEF Archive, Switching
<1>8. CASE MoveIn
  <2>1. restore.pc = "move_in"
    BY <1>8 DEF MoveIn, At
  <2>2. CASE Onward(IF restore.round = "restore" THEN "history" ELSE "complete", FALSE)
    BY <1>0, <1>s, <2>1, <2>2 DEF Onward, Tale, Early, Switching
  <2> QED
    BY <1>3, <1>8, <2>1, <2>2, Hops DEF Hop, Switching
<1>9. CASE RestartProbe \/ FlagSource
  <2>1. restore.pc \in {"settle", "flag"}
    BY <1>9 DEF RestartProbe, FlagSource, At
  <2>2. \E p \in {"running", "flag", "compensate"}, due \in BOOLEAN : Onward(p, due)
    BY <1>9, Hops DEF Hop
  <2> QED
    BY <1>s, <2>1, <2>2 DEF Onward, Tale, Early, Switching
<1>10. CASE Compensate
  <2>1. restore.pc = "compensate" /\ ~BeginFails
    BY <1>10, BeginUndoes DEF Compensate, At
  <2>2. restore'.pc = "extract" /\ restore'.round = "rollback"
    BY <1>10, <2>1, CompensateMoves DEF Compensate
  <2> QED
    BY <1>s, <2>1, <2>2 DEF Tale, Early, Switching
<1>11. CASE CompleteRollback \/ RecordReversal \/ FailRollback
  <2>1. restore.pc \in {"complete", "correct", "revert_failed"} /\ ~restore.due
    BY <1>11 DEF CompleteRollback, RecordReversal, FailRollback, At
  <2>2. \E p \in {"correct", "reverted", "revert_failed", "failed"}, due \in BOOLEAN :
           Onward(p, due)
    <3>1. CASE FailRollback
      <4>1. Goto("failed")
        BY <2>1, <3>1, BeginUndoes DEF FailRollback
      <4> QED
        BY <2>1, <4>1, GotoMoves DEF RestoreSteps, Shapes, RestoreType
    <3> QED
      BY <1>11, <3>1, Hops DEF Hop
  <2> QED
    BY <1>s, <2>1, <2>2 DEF Onward, Tale, Early, Switching
<1>12. CASE RestoreCommits
  BY <1>1, <1>12, DueMoves DEF Onward, SameCase
<1> QED
  BY <1>1, <1>2, <1>4, <1>5, <1>6, <1>7, <1>8, <1>9, <1>10, <1>11, <1>12, RestoreChanges
  DEF Telling, Tells

\* The steps that write what is told.
LEMMA TaleIsTold ==
    ASSUME Shapes, Turns, Ledger, Serving, Original, Tale, [Next]_vars, ~past'.undone, Telling
    PROVE  Tale'
<1>0. restore.round \in {"restore", "rollback"} /\ ~past.undone
  BY PastStep DEF Shapes, RestoreType, PastGrows
<1>1. CASE StartServer \/ StopServer
  <2>1. restore' = restore /\ restore.pc = "idle"
    BY <1>1 DEF StartServer, StopServer, Switch, threads
  <2> QED
    BY <2>1 DEF Tale, Early, Switching
<1>2. CASE Crash
  BY <1>2, CrashMoves DEF Onward, Tale, Early, Switching
<1>3. CASE StartRestore
  <2>1. db'.outcome = "none" /\ db'.state = "off"
    <3>1. db'.outcome = "none" /\ db'.state = db.state
      BY <1>3, StartWrites
    <3>2. ~txn /\ saved.state = "off"
      BY <1>3 DEF StartRestore
    <3> QED
      BY <3>1, <3>2 DEF Ledger
  <2>2. restore'.pc = "validate"
    BY <1>3, StartMoves
  <2> QED
    BY <2>1, <2>2 DEF Tale, Told, Early, Switching
<1>4. CASE RecordHistory
  <2>1. restore.pc = "history" /\ db.rows[restore.pre].status # "absent"
    BY <1>0, <1>4 DEF RecordHistory, At, Original, Stowed, Backed, Ledger, RowKept
  <2>2. Writes("success", db.state) /\ Hop("settle", TRUE)
    BY <1>4, <2>1, OutcomeWrites, Hops DEF RecordHistory
  <2> QED
    BY <2>1, <2>2 DEF Tale, Told, Writes, Hop, Onward, Early, Switching
<1>5. CASE Settle
  <2>1. restore.pc = "settle" /\ ~restore.wasRunning /\ restore.round = "restore"
    BY <1>0, <1>5 DEF Settle, At, Turns, Second, Switching
  <2>2. Writes(db.outcome, "off") /\ Hop("done", TRUE)
    BY <1>5, StateWrites, Hops DEF Settle
  <2> QED
    BY <2>1, <2>2 DEF Tale, Told, Writes, Hop, Onward, SameCase, Early, Switching
<1>6. CASE SetRunning
  <2>1. restore.pc = "running" /\ restore.wasRunning /\ restore.round = "restore"
    BY <1>0, <1>6 DEF SetRunning, At, Turns, Second, Switching, Serving
  <2>2. Writes(db.outcome, "running") /\ Hop("done", TRUE)
    BY <1>6, StateWrites, Hops DEF SetRunning
  <2> QED
    BY <2>1, <2>2 DEF Tale, Told, Writes, Hop, Onward, SameCase, Early, Switching
<1>7. CASE SetReverted
  <2>1. restore.pc = "reverted" /\ Writes("reverted", db.state) /\ Hop("off", TRUE)
    BY <1>7, OutcomeWrites, Hops DEF SetReverted, At
  <2> QED
    BY <2>1 DEF Tale, Told, Writes, Hop, Onward, Early, Switching
<1>8. CASE SetOff
  <2>1. restore.pc = "off" /\ Writes(db.outcome, "off") /\ Hop("done", TRUE)
        /\ restore.round = "rollback"
    BY <1>0, <1>8, StateWrites, Hops DEF SetOff, At, Turns, First, Early, Switching
  <2> QED
    BY <2>1 DEF Tale, Told, Writes, Hop, Onward, Early, Switching
<1>9. CASE SetFailed
  <2>1. restore.pc = "failed" /\ Writes("failed", db.state) /\ Hop("error", TRUE)
    BY <1>9, OutcomeWrites, Hops DEF SetFailed, At
  <2> QED
    BY <2>1 DEF Tale, Told, Writes, Hop, Onward, Early, Switching
<1>10. CASE SetError
  <2>1. restore.pc = "error" /\ Writes(db.outcome, "error") /\ Hop("raised", TRUE)
        /\ restore.round = "rollback"
    BY <1>0, <1>10, StateWrites, Hops DEF SetError, At, Turns, First, Early, Switching
  <2> QED
    BY <2>1 DEF Tale, Told, Writes, Hop, Onward, Early, Switching
<1> QED
  BY <1>1, <1>2, <1>3, <1>4, <1>5, <1>6, <1>7, <1>8, <1>9, <1>10 DEF Telling, Tells

\* Story is kept by every step.
LEMMA StoryStep ==
    ASSUME Shapes, Turns, Ledger, Serving, Original, Story, Sweeping, [Next]_vars
    PROVE  Story'
<1>1. ASSUME ~past'.undone PROVE Settled' /\ Tale'
  <2>1. Settled /\ Tale
    BY <1>1, StoryParts, PastStep DEF PastGrows
  <2> QED
    BY <1>1, <2>1, SettledStep, TaleGoesOn, TaleIsTold
<1> QED
  BY <1>1 DEF Story, Settled, Tale

-----------------------------------------------------------------------------
(* The cleanup.                                                            *)

\* The newer ones of a set.
Above(S, a) == {b \in S : b > a}

\* There are finitely many.
LEMMA AboveIsCounted ==
    ASSUME NEW k, NEW a
    PROVE  Cardinality(Above(Live(k), a)) \in Nat
<1>1. IsFiniteSet(Artifact)
  BY BoundsAssumption, FS_Interval DEF Artifact
<1>2. Above(Live(k), a) \subseteq Artifact
  BY DEF Above, Live
<1> QED
  BY <1>1, <1>2, FS_Subset, FS_CardinalityType

\* A commit takes no artifact that is still to do, nor one that is newer.
LEMMA NewerStay ==
    ASSUME Shapes, Turns, Ledger, Sweeping, [Next]_vars, NEW a \in cleanup.todo,
           NEW c \in Artifact, a <= c, saved.rows[c].status = "live"
    PROVE  saved'.rows[c].status = "live" /\ saved'.rows[c].category = saved.rows[c].category
<1>0. SavedStays /\ RowKept(c) /\ cleanup.pc # "idle"
  BY SavedStay DEF Ledger, Sweeping
<1>1. db.rows[c].status = "live"
  <2>1. db.rows[c].status \in {"absent", "live", "deleted"}
    BY DEF Shapes, Tables
  <2>2. db.rows[c].status # "absent"
    BY <1>0 DEF RowKept
  <2>3. ASSUME db.rows[c].status = "deleted" PROVE FALSE
    <3>1. c \in cleanup.candidates \ cleanup.todo
      BY <1>0, <2>3 DEF Sweeping
    <3>2. c < a /\ a \in Nat /\ c \in Nat
      BY <3>1 DEF Sweeping, Shapes, CleanupType, Artifact
    <3> QED
      BY <3>2
  <2> QED
    BY <2>1, <2>2, <2>3
<1>2. CASE saved' = saved
  BY <1>2
<1>3. CASE Commit
  BY <1>0, <1>1, <1>3 DEF Commit, SavedStays
<1>4. CASE StartServer \/ StopServer \/ StartRestore
  <2>1. saved' = db' /\ KeepsRows
    BY <1>4, SwitchWrites, StartWrites DEF StartServer, StopServer
  <2> QED
    BY <1>0, <1>1, <2>1 DEF KeepsRows, RowKept
<1> QED
  BY <1>2, <1>3, <1>4, TablesAreStepped
  DEF TablesStep, Untouched, BeginFails, Rollback, Insert, Mark, Statement, Crash, RestoreWrites,
      Writes

\* The floor a candidate has above it is only raised.
LEMMA FloorStays ==
    ASSUME Shapes, Turns, Ledger, Sweeping, [Next]_vars, NEW a \in cleanup.todo,
           NEW k \in Categories,
           a \in Live(k) => Cardinality(Above(Live(k), a)) >= Keep, a \in Live(k)'
    PROVE  Cardinality(Above(Live(k)', a)) >= Keep
<1>1. a \in Artifact /\ saved.rows[a].status = "live"
  BY DEF Sweeping, Shapes, CleanupType
<1>2. a \in Live(k)
  <2>1. a <= a
    BY <1>1 DEF Artifact
  <2>2. saved'.rows[a].category = saved.rows[a].category
    BY <1>1, <2>1, NewerStay
  <2> QED
    BY <1>1, <2>2 DEF Live
<1>3. Above(Live(k), a) \subseteq Above(Live(k)', a)
  <2> SUFFICES ASSUME NEW b \in Live(k), b > a PROVE b \in Live(k)'
    BY DEF Above
  <2>1. b \in Artifact /\ saved.rows[b].status = "live" /\ saved.rows[b].category = k /\ a <= b
    BY <1>1 DEF Live, Artifact
  <2>2. saved'.rows[b].status = "live" /\ saved'.rows[b].category = k
    BY <2>1, NewerStay
  <2> QED
    BY <2>1, <2>2 DEF Live
<1>4. IsFiniteSet(Above(Live(k)', a))
  <2>1. IsFiniteSet(Artifact)
    BY BoundsAssumption, FS_Interval DEF Artifact
  <2>2. Above(Live(k)', a) \subseteq Artifact
    BY DEF Above, Live
  <2> QED
    BY <2>1, <2>2, FS_Subset
<1>5. /\ Cardinality(Above(Live(k), a)) <= Cardinality(Above(Live(k)', a))
      /\ Cardinality(Above(Live(k), a)) \in Nat /\ Cardinality(Above(Live(k)', a)) \in Nat
  BY <1>3, <1>4, FS_Subset, FS_CardinalityType
<1> QED
  BY <1>2, <1>5, KeepAssumption

\* Whatever else happens between two steps of a cleanup.
LEMMA SweepingRests ==
    ASSUME Shapes, Turns, Ledger, Sweeping, [Next]_vars, cleanup' = cleanup
    PROVE  Sweeping'
<1>0. cleanup \in CleanupType
  BY DEF Shapes
<1>1. previews \subseteq previews' /\ past.unlinked \subseteq past'.unlinked
  BY PreviewsChanges, PastStep DEF DryRun, PastGrows
<1>2. \A a \in cleanup.todo : saved'.rows[a].status = "live"
  <2> SUFFICES ASSUME NEW a \in cleanup.todo PROVE saved'.rows[a].status = "live"
    OBVIOUS
  <2>1. a \in Artifact /\ a <= a /\ saved.rows[a].status = "live"
    BY <1>0 DEF CleanupType, Artifact, Sweeping
  <2> QED
    BY <2>1, NewerStay
<1>3. ASSUME NEW a \in Artifact, cleanup.pc # "idle",
             saved'.rows[a].status = "live", db'.rows[a].status = "deleted"
      PROVE  a \in cleanup.candidates \ cleanup.todo
  <2>1. CASE Untouched
    BY <1>3, <2>1 DEF Untouched, Sweeping
  <2>2. CASE Commit \/ BeginFails \/ Crash \/ (CopyFails /\ Rollback)
    BY <1>3, <2>2 DEF Commit, BeginFails, Crash, Rollback
  <2>3. CASE Insert
    BY <1>3, <2>3, InsertWrites DEF Rewrites, Sweeping
  <2>4. CASE Mark
    <3>1. PICK m \in cleanup.todo : m \in past.unlinked /\ \A b \in cleanup.todo : m <= b
      BY <2>4 DEF Mark, Sweeping
    <3>2. cleanup' = [cleanup EXCEPT !.pc = "sweep", !.todo = cleanup.todo \ {m}]
      BY <2>4, <3>1, MarkWrites
    <3>3. m \notin cleanup'.todo
      BY <1>0, <3>2 DEF CleanupType
    <3> QED
      BY <3>1, <3>3
  <2>5. CASE StartServer \/ StopServer \/ StartRestore
    BY <1>3, <2>5, SwitchWrites, StartWrites DEF StartServer, StopServer
  <2>6. CASE RestoreWrites
    BY <1>3, <2>6 DEF RestoreWrites, Writes, KeepsRows, Sweeping
  <2> QED
    BY <2>1, <2>2, <2>3, <2>4, <2>5, <2>6, TablesAreStepped DEF TablesStep
<1>4. ASSUME cleanup.pc \in {"sweep", "mark"}, NEW a \in cleanup.todo, NEW k \in Categories,
             a \in Live(k)'
      PROVE  Cardinality({b \in Live(k)' : b > a}) >= Keep
  <2>1. a \in Live(k) => Cardinality(Above(Live(k), a)) >= Keep
    BY <1>4 DEF Sweeping, Above
  <2>2. Cardinality(Above(Live(k)', a)) >= Keep
    BY <1>4, <2>1, FloorStays
  <2> QED
    BY <2>2 DEF Above
<1>5. /\ cleanup.todo \subseteq cleanup.candidates
      /\ cleanup.pc # "idle" => cleanup.candidates \in previews
      /\ cleanup.pc = "idle" => cleanup.candidates = {}
      /\ cleanup.pc = "recheck" => cleanup.todo = cleanup.candidates
      /\ \A a \in cleanup.candidates \ cleanup.todo, b \in cleanup.todo : a < b
      /\ cleanup.pc = "mark" =>
            \E a \in cleanup.todo : a \in past.unlinked /\ \A b \in cleanup.todo : a <= b
  BY DEF Sweeping
<1> QED
  BY <1>1, <1>2, <1>3, <1>4, <1>5 DEF Sweeping

\* No cleanup, nothing to do.
LEMMA SweepingEnds == ASSUME cleanup' = NoCleanup PROVE Sweeping'
BY DEF Sweeping, NoCleanup

\* A candidate is not among the newest of its category.
LEMMA CandidatesHaveFloor ==
    ASSUME NEW a \in Candidates, NEW k \in Categories, a \in Live(k)
    PROVE  Cardinality({b \in Live(k) : b > a}) >= Keep
<1>1. a \notin Newest(Live(k))
  BY DEF Candidates, Protected
<1>2. Cardinality({b \in Live(k) : b > a}) \in Nat
  BY AboveIsCounted DEF Above
<1> QED
  BY <1>1, <1>2, KeepAssumption DEF Newest

\* A cleanup is admitted with the candidates of a preview, and checks them again.
LEMMA SweepingBegins ==
    ASSUME Shapes, Turns, Ledger, Sweeping, [Next]_vars, StartCleanup \/ Recheck
    PROVE  Sweeping'
<1>0. cleanup \in CleanupType
  BY DEF Shapes
<1>1. CASE cleanup' = cleanup
  BY <1>1, SweepingRests
<1>2. CASE StartCleanup /\ cleanup' # cleanup
  <2>1. /\ Begins /\ Candidates \in previews /\ previews' = previews
        /\ cleanup' = [pc |-> "recheck", candidates |-> Candidates, todo |-> Candidates]
    BY <1>2 DEF StartCleanup
  <2>2. db' = saved' /\ saved' = saved
    BY <2>1 DEF Begins, dbVars, Ledger
  <2>3. \A a \in Candidates : saved.rows[a].status = "live"
    BY DEF Candidates, Live
  <2> QED
    BY <2>1, <2>2, <2>3 DEF Sweeping
<1>3. CASE Recheck /\ cleanup' = NoCleanup
  BY <1>3, SweepingEnds
<1>4. CASE Recheck /\ cleanup' # NoCleanup
  <2>1. /\ Candidates = cleanup.candidates /\ cleanup.pc = "recheck"
        /\ cleanup' = [cleanup EXCEPT !.pc = "sweep"] /\ saved' = saved /\ db' = db
        /\ previews' = previews /\ past' = past
    BY <1>4 DEF Recheck, dbVars
  <2>2. cleanup'.pc = "sweep" /\ cleanup'.todo = cleanup.todo
        /\ cleanup'.candidates = cleanup.candidates /\ cleanup.todo = Candidates
    BY <1>0, <2>1 DEF CleanupType, Sweeping
  <2>3. \A a \in Candidates, k \in Categories :
           a \in Live(k) => Cardinality({b \in Live(k) : b > a}) >= Keep
    BY CandidatesHaveFloor
  <2>4. \A k : Live(k)' = Live(k)
    BY <2>1 DEF Live
  <2>5. \A a \in cleanup'.todo, k \in Categories :
           a \in Live(k)' => Cardinality({b \in Live(k)' : b > a}) >= Keep
    BY <2>2, <2>3, <2>4
  <2> QED
    BY <2>1, <2>2, <2>5 DEF Sweeping
<1> QED
  BY <1>1, <1>2, <1>3, <1>4

\* A cleanup removes the oldest, marks it, and commits when all are marked.
LEMMA SweepingGoesOn ==
    ASSUME Shapes, Turns, Ledger, Sweeping, [Next]_vars, Sweep \/ Mark \/ CleanupCommits
    PROVE  Sweeping'
<1>0. cleanup \in CleanupType /\ past \in PastType
  BY DEF Shapes
<1>1. CASE cleanup' = NoCleanup
  BY <1>1, SweepingEnds
<1>2. CASE Sweep /\ cleanup' # NoCleanup
  <2>1. PICK a \in Artifact : Unlink(a)
    BY <1>2 DEF Sweep
  <2>2. /\ cleanup.pc = "sweep" /\ a \in cleanup.todo /\ \A b \in cleanup.todo : a <= b
        /\ cleanup' = [cleanup EXCEPT !.pc = "mark"]
        /\ past' = [past EXCEPT !.unlinked = @ \cup {a}]
        /\ saved' = saved /\ db' = db /\ previews' = previews
    BY <1>2, <2>1 DEF Unlink, dbVars
  <2>3. cleanup'.pc = "mark" /\ cleanup'.todo = cleanup.todo
        /\ cleanup'.candidates = cleanup.candidates /\ a \in past'.unlinked
    BY <1>0, <2>2 DEF CleanupType, PastType
  <2>4. \A k : Live(k)' = Live(k)
    BY <2>2 DEF Live
  <2>5. \A x \in cleanup'.todo, k \in Categories :
           x \in Live(k)' => Cardinality({b \in Live(k)' : b > x}) >= Keep
    BY <2>2, <2>3, <2>4 DEF Sweeping
  <2> QED
    BY <2>2, <2>3, <2>5 DEF Sweeping
<1>3. CASE Mark
  <2>1. PICK m \in cleanup.todo : m \in past.unlinked /\ \A b \in cleanup.todo : m <= b
    BY <1>3 DEF Mark, Sweeping
  <2>2. /\ Rewrites(m, "deleted", db.rows[m].category, db.rows[m].checksum)
        /\ cleanup' = [cleanup EXCEPT !.pc = "sweep", !.todo = cleanup.todo \ {m}]
    BY <1>3, <2>1, MarkWrites
  <2>3. /\ cleanup'.pc = "sweep" /\ cleanup'.todo = cleanup.todo \ {m}
        /\ cleanup'.candidates = cleanup.candidates /\ cleanup.pc = "mark"
        /\ previews' = previews /\ saved' = saved
        /\ \A x \in Artifact \ {m} : db'.rows[x] = db.rows[x]
    BY <1>0, <1>3, <2>2 DEF CleanupType, Mark, rest, Rewrites
  <2>4. \A k : Live(k)' = Live(k)
    BY <2>3 DEF Live
  <2>5. \A x \in cleanup'.todo, k \in Categories :
           x \in Live(k)' => Cardinality({b \in Live(k)' : b > x}) >= Keep
    BY <2>3, <2>4 DEF Sweeping
  <2>6. \A x \in cleanup'.candidates \ cleanup'.todo, b \in cleanup'.todo : x < b
    <3> SUFFICES ASSUME NEW x \in cleanup'.candidates \ cleanup'.todo, NEW b \in cleanup'.todo
                 PROVE  x < b
      OBVIOUS
    <3>1. b \in Nat /\ m \in Nat /\ b # m /\ b \in cleanup.todo /\ m <= b
      BY <1>0, <2>1, <2>3 DEF CleanupType, Artifact
    <3>2. x = m \/ x \in cleanup.candidates \ cleanup.todo
      BY <2>3
    <3> QED
      BY <3>1, <3>2 DEF Sweeping
  <2>7. m \in cleanup'.candidates \ cleanup'.todo
    BY <2>3 DEF Sweeping
  <2>8. \A x \in Artifact : saved'.rows[x].status = "live" /\ db'.rows[x].status = "deleted" =>
           x \in cleanup'.candidates \ cleanup'.todo
    BY <2>3, <2>7 DEF Sweeping
  <2> QED
    BY <2>3, <2>5, <2>6, <2>8 DEF Sweeping
<1>4. CASE CleanupCommits
  <2>1. /\ cleanup.pc = "sweep" /\ cleanup.todo = {} /\ saved' = db' /\ previews' = previews
        /\ cleanup' = [cleanup EXCEPT !.pc = "complete"]
    BY <1>4 DEF CleanupCommits, Commit, rest
  <2>2. cleanup'.pc = "complete" /\ cleanup'.todo = {} /\ cleanup'.candidates = cleanup.candidates
    BY <1>0, <2>1 DEF CleanupType
  <2> QED
    BY <2>1, <2>2 DEF Sweeping
<1> QED
  BY <1>1, <1>2, <1>3, <1>4

\* Sweeping is kept by every step.
LEMMA SweepingStep ==
    ASSUME Shapes, Turns, Ledger, Sweeping, [Next]_vars
    PROVE  Sweeping'
<1>1. CASE cleanup' = cleanup
  BY <1>1, SweepingRests
<1>2. CASE CompleteCleanup \/ Crash
  BY <1>2, SweepingEnds DEF CompleteCleanup, Crash
<1> QED
  BY <1>1, <1>2, SweepingBegins, SweepingGoesOn, CleanupChanges

-----------------------------------------------------------------------------
(* The invariant holds, and what it implies.                               *)

\* The tables and files there are at first.
LEMMA InitShapes == ASSUME Init PROVE Shapes
<1>1. Seeds \in Nat /\ MaxArtifacts \in Nat /\ Seeds < MaxArtifacts /\ MaxEvents \in Nat
  BY BoundsAssumption
<1> DEFINE rows == [a \in Artifact |-> IF a <= Seeds THEN Registered("manual", a) ELSE NoRow]
<1>2. PICK state \in {"off", "running"} :
         /\ db = [rows |-> rows, outcome |-> "none", state |-> state]
         /\ server = [up |-> state = "running", autosave |-> TRUE]
  BY DEF Init
<1>3. rows \in [Artifact -> RowType]
  <2> SUFFICES ASSUME NEW a \in Artifact
               PROVE  (IF a <= Seeds THEN Registered("manual", a) ELSE NoRow) \in RowType
    OBVIOUS
  <2>1. a <= Seeds => a \in Content
    BY <1>1 DEF Artifact, Content
  <2> QED
    BY <2>1 DEF Registered, NoRow, RowType, Categories
<1> HIDE DEF rows
<1>4. db \in Tables /\ saved \in Tables
  BY <1>2, <1>3 DEF Init, Tables, RowType
<1>5. disk \in DiskType /\ files \in FilesType
  <2>1. 0 \in Directories /\ None \in Directories /\ {} \in SUBSET (Directories \ {None})
    BY <1>1 DEF Directories, Content
  <2>2. \A a \in Artifact : (IF a <= Seeds THEN a ELSE None) \in Directories
    BY <1>1 DEF Artifact, Content, Directories
  <2>3. disk \in DiskType
    BY <2>1 DEF Init, DiskType
  <2>4. files \in FilesType
    BY <2>2 DEF Init, FilesType
  <2> QED
    BY <2>3, <2>4
<1>6. server \in ServerType
  BY <1>2 DEF ServerType
<1>7. copy \in CopyType /\ restore \in RestoreType /\ cleanup \in CleanupType
  BY ShapesOfNothing DEF Init
<1>8. backup \in BackupType /\ txn \in BOOLEAN /\ blocked \in BOOLEAN /\ past \in PastType
  BY DEF Init, BackupType, BackupSteps, PastType
<1>9. previews \in Previews /\ old \in Olds
  BY <1>1 DEF Init, Previews, Olds, Artifact
<1>10. issued \in IssuedType /\ Bounded
  BY <1>1 DEF Init, IssuedType, Bounded, Artifact
<1> QED
  BY <1>4, <1>5, <1>6, <1>7, <1>8, <1>9, <1>10 DEF Shapes

\* The invariant holds at first;
LEMMA InitInv == Init => Inv
<1> SUFFICES ASSUME Init PROVE Inv
  OBVIOUS
<1>1. Seeds \in Nat /\ MaxArtifacts \in Nat /\ Seeds < MaxArtifacts
  BY BoundsAssumption
<1>2. PICK state \in {"off", "running"} :
         /\ db = [rows |-> [a \in Artifact |->
                              IF a <= Seeds THEN Registered("manual", a) ELSE NoRow],
                  outcome |-> "none", state |-> state]
         /\ server = [up |-> state = "running", autosave |-> TRUE]
  BY DEF Init
<1>3. \A a \in Artifact :
         IF a <= Seeds
         THEN /\ db.rows[a].status = "live" /\ db.rows[a].checksum = a
              /\ db.rows[a].category = "manual"
         ELSE db.rows[a].status = "absent" /\ db.rows[a].checksum = None
  BY <1>2 DEF Registered, NoRow
<1>4. saved = db /\ ~txn /\ issued.artifacts = Seeds
  BY DEF Init
<1>5. /\ copy.pc = "idle" /\ copy.art = None /\ copy.content = None
      /\ backup.pc = "idle" /\ ~backup.running
      /\ restore.pc = "idle" /\ ~restore.due /\ restore.pre = None /\ restore.round = "restore"
      /\ restore.moved = None
      /\ cleanup.pc = "idle" /\ cleanup.candidates = {} /\ cleanup.todo = {}
  BY DEF Init, NoCopy, NoRestore, NoCleanup
<1>6. /\ disk.dir = 0 /\ disk.archives = {} /\ disk.staging = None
      /\ past.stranded = {} /\ past.unlinked = {} /\ ~past.undone /\ ~blocked
      /\ \A a \in Artifact : files[a] = IF a <= Seeds THEN a ELSE None
  BY DEF Init
<1>7. Turns
  BY <1>5, <1>6 DEF Turns, First, Early, Due
<1>8. Ledger
  <2> SUFFICES ASSUME NEW a \in Artifact PROVE RowKept(a)
    BY <1>4, <1>5 DEF Ledger
  <2> QED
    BY <1>1, <1>3, <1>4, <1>6 DEF RowKept, Artifact
<1>9. Whole
  BY <1>3, <1>5, <1>6 DEF Whole
<1>10. Untorn
  <2>1. \A a \in Artifact : a # Torn
    BY MarkersAssumption DEF Artifact
  <2> QED
    BY <1>3, <1>5, <1>6, <2>1, MarkersAssumption DEF Untorn
<1>11. Serving
  BY <1>2, <1>4, <1>5 DEF Serving
<1>12. Original
  BY <1>5 DEF Original, Early, Switching
<1>13. Story
  BY <1>5 DEF Story, Early, Switching
<1>14. Sweeping
  BY <1>5 DEF Sweeping
<1> QED
  BY InitShapes, <1>7, <1>8, <1>9, <1>10, <1>11, <1>12, <1>13, <1>14 DEF Inv

\* every step keeps it;
LEMMA NextInv == Inv /\ [Next]_vars => Inv'
<1> SUFFICES ASSUME Inv, [Next]_vars PROVE Inv'
  OBVIOUS
<1> QED
  BY ShapesStep, TurnsStep, LedgerStep, WholeStep, UntornStep, ServingStep, OriginalStep,
     StoryStep, SweepingStep
  DEF Inv

\* and so it always holds.
THEOREM InvAlways == Spec => []Inv
BY InitInv, NextInv, PTL DEF Spec

\* What the parts say together.
LEMMA InvIsTyped == Inv => TypeOK
<1> SUFFICES ASSUME Inv PROVE TypeOK
  OBVIOUS
<1>1. Shapes /\ Turns /\ Ledger /\ Sweeping
  BY DEF Inv
<1>2. /\ disk \in [dir: Directories, archives: SUBSET (Directories \ {None}), staging: Directories]
      /\ files \in [Artifact -> Directories]
      /\ db \in Tables /\ saved \in Tables /\ txn \in BOOLEAN
      /\ cleanup.candidates \in SUBSET Artifact
  BY <1>1 DEF Shapes, DiskType, FilesType, CleanupType
<1>3. /\ copy.art # None <=> copy.pc # "idle"
      /\ copy.pc # "idle" => /\ copy.category = "pre_restore" <=> restore.pc = "copy"
                             /\ restore.pc = "copy" \/ backup.pc = "copy"
      /\ restore.pre # None => restore.pre \in 1..issued.artifacts
  BY <1>1 DEF Turns
<1>4. (~txn => db = saved) /\ cleanup.todo \subseteq cleanup.candidates
  BY <1>1 DEF Ledger, Sweeping
<1> QED
  BY <1>2, <1>3, <1>4 DEF TypeOK

\* The backup made before is live and whole, or the cleanup that took it is known.
LEMMA BackedIsBacked ==
    ASSUME Inv, Backed
    PROVE  \/ saved.rows[restore.pre].status = "live" /\ files[restore.pre] = restore.original
           \/ past.undone
           \/ restore.pre \in past.unlinked
<1>1. Shapes /\ Ledger /\ Whole
  BY DEF Inv
<1>2. CASE past.undone
  BY <1>2
<1>3. CASE /\ restore.pre \in Artifact
           /\ saved.rows[restore.pre].status # "absent"
           /\ saved.rows[restore.pre].checksum = restore.original
           /\ restore.pre \notin past.stranded
  <2>1. RowKept(restore.pre) /\ saved.rows[restore.pre].status \in {"absent", "live", "deleted"}
    BY <1>1, <1>3 DEF Ledger, Shapes, Tables
  <2>2. files[restore.pre] = restore.original \/ restore.pre \in past.unlinked
    BY <1>1, <1>3, <2>1 DEF RowKept, Whole
  <2> QED
    BY <1>3, <2>1, <2>2 DEF RowKept
<1> QED
  BY <1>2, <1>3 DEF Backed

\* The invariant implies each property.
LEMMA InvIsSafe == Inv => OriginalIsSafe
<1> SUFFICES ASSUME Inv, restore.pc # "idle"
             PROVE  /\ restore.original # None => restore.original \in {disk.dir} \cup disk.archives
                    /\ disk.dir # restore.original => Backed
  BY BackedIsBacked DEF OriginalIsSafe, OriginalSurvives, OriginalIsBackedUp
<1>1. disk.dir = restore.original \/ Stowed
      \/ (restore.pc = "move_in" /\ Stowed)
  <2>1. restore.pc \in RestoreSteps /\ restore.round \in {"restore", "rollback"} /\ Original
    BY DEF Inv, Shapes, RestoreType
  <2>2. CASE restore.pc \in Early
    BY <2>1, <2>2 DEF Original
  <2>3. CASE restore.pc \in Switching
    BY <2>1, <2>3 DEF Original, Switching
  <2>4. CASE restore.pc \notin Early \cup Switching
    BY <2>1, <2>4 DEF Original, RestoreSteps, Early, Switching
  <2> QED
    BY <2>2, <2>3, <2>4
<1> QED
  BY <1>1 DEF Stowed

\* Registered artifacts are whole.
LEMMA InvIsWhole == Inv => RegisteredIsWhole
<1> SUFFICES ASSUME Inv, NEW a \in Artifact, saved.rows[a].status = "live"
             PROVE  /\ saved.rows[a].checksum # Torn \/ past.undone
                    /\ files[a] = saved.rows[a].checksum \/ a \in past.unlinked \cup past.stranded
  BY DEF RegisteredIsWhole
<1>1. RowKept(a) /\ Whole /\ Untorn
  BY DEF Inv, Ledger
<1>2. db.rows[a].status # "absent" /\ db.rows[a].checksum = saved.rows[a].checksum
  BY <1>1 DEF RowKept
<1> QED
  BY <1>1, <1>2 DEF Whole, Untorn

\* The outcome of a restore that has ended is true.
LEMMA InvIsTrue == Inv => OutcomeIsTrue
<1> SUFFICES ASSUME Inv, At("done") \/ At("raised"), ~server.up, ~past.undone
             PROVE  LET is(content, states) == disk.dir = content /\ saved.state \in states
                    IN  /\ saved.outcome = "success" =>
                              \/ is(saved.rows[restore.source].checksum, {"off"})
                              \/ restore.wasRunning /\ saved.state = "running"
                        /\ saved.outcome = "reverted" => is(restore.original, {"off"})
                        /\ saved.outcome = "failed" => saved.state = "error"
                        /\ saved.outcome = "none" =>
                              \/ is(restore.original, {"off"})
                              \/ /\ disk.dir \in {None, Partial}
                                 /\ restore.original \in disk.archives \cup {None}
  BY DEF OutcomeIsTrue
<1>1. restore.round \in {"restore", "rollback"} /\ restore.wasRunning \in BOOLEAN
  BY DEF Inv, Shapes, RestoreType
<1>2. Original /\ Story
  BY DEF Inv
<1>3. CASE At("done")
  <2>1. saved.outcome = db.outcome /\ saved.state = db.state
    BY <1>2, <1>3 DEF At, Story
  <2>2. IF restore.round = "rollback" THEN Told("reverted", "off")
        ELSE Told("success", IF restore.wasRunning THEN "running" ELSE "off")
    BY <1>2, <1>3 DEF At, Story
  <2>3. /\ restore.round = "rollback" => disk.dir = restore.original
        /\ ~restore.wasRunning => disk.dir = saved.rows[restore.source].checksum
    BY <1>2, <1>3 DEF At, Original, FromSource
  <2> QED
    BY <1>1, <2>1, <2>2, <2>3 DEF Told
<1>4. CASE At("raised")
  <2>1. saved.outcome = db.outcome /\ saved.state = db.state
    BY <1>2, <1>4 DEF At, Story
  <2>2. IF restore.round = "restore" THEN Told("none", "off") ELSE Told("failed", "error")
    BY <1>2, <1>4 DEF At, Story
  <2>3. restore.round = "restore" =>
          \/ disk.dir = restore.original
          \/ disk.dir \in {None, Partial} /\ restore.original \in disk.archives \cup {None}
    BY <1>2, <1>4 DEF At, Original
  <2> QED
    BY <1>1, <2>1, <2>2, <2>3 DEF Told
<1> QED
  BY <1>3, <1>4

\* A backup that is over has resumed autosave.
LEMMA InvLetsAutosaveReturn == Inv => AutosaveReturns
BY DEF Inv, Serving, AutosaveReturns

\* The floor a cleanup leaves.
SurplusGoes ==
    \A a \in Artifact, k \in Categories :
        a \in Live(k) \ {copy.art} /\ files[a] # None /\ files'[a] = None =>
            /\ \E shown \in previews : a \in shown
            /\ Cardinality({b \in Live(k) : b > a}) >= Keep

\* The only step that takes the file of a live artifact is the removal of a cleanup, and
\* what that has to do was previewed and has its floor.
LEMMA OnlySurplusGoes == ASSUME Inv, [Next]_vars PROVE SurplusGoes
<1> SUFFICES ASSUME NEW a \in Artifact, NEW k \in Categories,
                    a \in Live(k) \ {copy.art}, files[a] # None, files'[a] = None
             PROVE  /\ \E shown \in previews : a \in shown
                    /\ Cardinality({b \in Live(k) : b > a}) >= Keep
  BY DEF SurplusGoes
<1>1. Shapes /\ Turns /\ Sweeping
  BY DEF Inv
<1>2. Unlink(a)
  BY <1>1, FilesStep
<1>3. cleanup.pc = "sweep" /\ a \in cleanup.todo
  BY <1>2 DEF Unlink
<1>4. cleanup.candidates \in previews /\ a \in cleanup.candidates
  BY <1>1, <1>3 DEF Sweeping
<1>5. Cardinality({b \in Live(k) : b > a}) >= Keep
  BY <1>1, <1>3 DEF Sweeping
<1> QED
  BY <1>4, <1>5

\* The values of the state, in every behaviour (TypeOK).
THEOREM TypeCorrect == Spec => []TypeOK
BY InvAlways, InvIsTyped, PTL

\* The world a restore began with is in its directory or archived, and once the directory
\* has been touched its backup is registered and whole: whatever step of RestoreService or
\* of _switch_world fails or is cut off, and whatever a backup, a cleanup and the writer's
\* other threads do meanwhile (OriginalIsSafe).
THEOREM OriginalsAreSafe == Spec => []OriginalIsSafe
BY InvAlways, InvIsSafe, PTL

\* A registered artifact is one state of the world with its whole file, unless a cleanup
\* or a failing commit took it: BackupService's order of file, row and commit beside any
\* server and any other thread (RegisteredIsWhole).
THEOREM RegisteredAreWhole == Spec => []RegisteredIsWhole
BY InvAlways, InvIsWhole, PTL

\* What RestoreService has recorded when it returns or raises is true of the directory and
\* of the state of the world (OutcomeIsTrue).
THEOREM OutcomesAreTrue == Spec => []OutcomeIsTrue
BY InvAlways, InvIsTrue, PTL

\* A backup leaves autosave off only if its save-on fails or the manager crashes: the
\* finally of the save coordination, on every way out (AutosaveReturns).
THEOREM AutosaveComesBack == Spec => []AutosaveReturns
BY InvAlways, InvLetsAutosaveReturn, PTL

\* A cleanup removes only what a dry run has shown and what has the floor of newer live
\* artifacts above it, at the moment of each removal (OnlyConfirmedSurplusGoes).
THEOREM SurplusOnly == Spec => OnlyConfirmedSurplusGoes
<1>1. Inv /\ [Next]_vars => [SurplusGoes]_vars
  BY OnlySurplusGoes
<1> QED
  BY InvAlways, <1>1, PTL DEF Spec, OnlyConfirmedSurplusGoes, SurplusGoes
=============================================================================
