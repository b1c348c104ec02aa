----------------------------- MODULE WorldMutations -----------------------------
(***************************************************************************)
(* Requests that change what a world is: creation, deletion, runtime       *)
(* configuration, renaming and file edits.  The routes of                  *)
(* web/api/world_management.py check and queue them; the dispatcher of     *)
(* services/worlds.py applies them, and applies again those it finds       *)
(* Running, because a manager that crashed may have left them so.          *)
(*                                                                         *)
(* One step is one SQL transaction, one read of a route, or one file       *)
(* operation.                                                              *)
(***************************************************************************)
EXTENDS Naturals, FiniteSets, FiniteSetsExt

CONSTANTS Worlds,      \* world ids, existing and yet to be drawn
          Names,       \* display names, and the directories named after them
          Ports,       \* ports: they stand for all runtime configuration
          Paths,       \* paths in a world's directory
          Contents,    \* what a file can hold
          Clients,     \* HTTP request threads
          None,
          FirstWorlds, \* name and port of each world that exists at first
          FirstFiles,  \* what the directories hold at first
          Kinds,       \* bound on the kinds of requests made
          MaxOps,      \* bound on operation rows
          MaxTouches,  \* bound on the files that clients write and delete
          MaxCrashes   \* bound on manager crashes

TypeOf == [create |-> "CreateWorld", delete |-> "DeleteWorld", config |-> "ConfigEdit",
           rename |-> "ConfigEdit", move |-> "ConfigEdit", copy |-> "ConfigEdit",
           start |-> "Start", stop |-> "Stop"]

\* The files in the directories f.
FilesIn(f) == {x \in Names \X Paths : f[x[1]][x[2]] # None}

ASSUME MutationAssumption ==
    /\ None \notin Worlds \cup Names \cup Ports \cup Contents
    /\ DOMAIN FirstWorlds \subseteq Worlds
    /\ FirstWorlds \in [DOMAIN FirstWorlds -> [name : Names, port : Ports]]
    /\ \A v, w \in DOMAIN FirstWorlds :
          FirstWorlds[v].name = FirstWorlds[w].name \/ FirstWorlds[v].port = FirstWorlds[w].port
          => v = w
    /\ FirstFiles \in [Names -> [Paths -> Contents \cup {None}]]
    /\ IsFiniteSet(FilesIn(FirstFiles))
    /\ Kinds \subseteq DOMAIN TypeOf
    /\ MaxOps \in Nat \ {0} /\ MaxTouches \in Nat /\ MaxCrashes \in Nat
    /\ "worker" \notin Clients

VARIABLES ops, issued, audits, claims,  \* the operation engine
          data,      \* operations.data_json of each row
          world,     \* the rows of world_instances
          commits,   \* history: the changes made to world, by row
          files,     \* what the directories hold
          edits,     \* history: the changes made to files, by row
          previews,  \* each client's deletion preview, in memory
          pc, at,    \* where each thread is, and its local variables
          touches, crashes

rows == <<ops, issued, audits, claims, data>>
stored == <<world, commits, files, edits>>
counters == <<touches, crashes>>
vars == <<rows, stored, previews, pc, at, counters>>

FileEdits == {"move", "copy"}

\* What the dispatcher of mutations picks out of the queue by the row's data; a
\* rename is carried out by the client's own thread.
Queued == {"create", "delete", "config"} \cup FileEdits

\* create_with_replay's arguments; the row of a creation has no world yet.
OpRequest(d) ==
    [type |-> TypeOf[d.kind], key |-> None, subject |-> None, initial |-> "Queued",
     world |-> IF d.kind = "create" THEN None ELSE d.world,
     bypass |-> TypeOf[d.kind] \in {"ConfigEdit", "DeleteWorld"}]

NoData == [kind |-> None, world |-> None, name |-> None, port |-> None,
           version |-> 0, from |-> None, to |-> None]

Ops == INSTANCE OperationService WITH
           Keys <- {}, Subjects <- {},
           Requests <- {OpRequest([NoData EXCEPT !.kind = k, !.world = w]) :
                           k \in DOMAIN TypeOf, w \in Worlds}

Rows == 1 .. issued
Threads == Clients \cup {"worker"}
NoArgs == [op |-> 0, data |-> NoData, todo |-> {}, resumed |-> {}, staged |-> None,
           since |-> 0]

Unborn == [exists |-> FALSE, deleted |-> FALSE, name |-> None, port |-> None,
           version |-> 0, state |-> "off"]

Live(w) == world[w].exists /\ ~world[w].deleted

\* _world_directory: under the root path the directory has the world's name.
Directory(w) == world[w].name

\* Mutated form: the index leaves out live worlds, not deleted ones.
NameFreeAmongDeleted(w, n) ==
    \A v \in Worlds \ {w} : world[v].exists /\ ~Live(v) => world[v].name # n

\* The unique indexes over live worlds; w itself may keep what it has.
NameFree(w, n) == \A v \in Worlds \ {w} : Live(v) => world[v].name # n

PortFree(w, p) == \A v \in Worlds \ {w} : Live(v) => world[v].port # p

Init ==
    /\ Ops!Init
    /\ data = [i \in 1 .. MaxOps |-> NoData]
    /\ world = [w \in Worlds |->
          IF w \in DOMAIN FirstWorlds
          THEN [Unborn EXCEPT !.exists = TRUE, !.version = 1,
                              !.name = FirstWorlds[w].name, !.port = FirstWorlds[w].port]
          ELSE Unborn]
    /\ commits = {[op |-> 0, world |-> w, row |-> world[w]] : w \in DOMAIN FirstWorlds}
    /\ files = FirstFiles
    /\ edits = {}
    /\ previews = [c \in Clients |-> NoData]
    /\ pc = [t \in Threads |-> "idle"]
    /\ at = [t \in Threads |-> NoArgs]
    /\ touches = 0 /\ crashes = 0

Resume(t, p, a) ==
    /\ pc' = [pc EXCEPT ![t] = p]
    /\ at' = [at EXCEPT ![t] = IF p = "idle" THEN NoArgs ELSE a]

-----------------------------------------------------------------------------
(* Routes.  A request that is refused leaves nothing behind.               *)

\* _world_conflict: the world is not off and idle.
Conflicting(w) == ~Live(w) \/ world[w].state # "off" \/ Ops!Active(w) # {}

Intend(c, d) ==
    /\ pc[c] = "idle" /\ issued < MaxOps /\ d.kind \in Kinds
    /\ Resume(c, "submit", [NoArgs EXCEPT !.data = d])
    /\ UNCHANGED <<rows, stored, previews, counters>>

\* create_world draws an id nobody has drawn before.
RequestCreate(c, w, n, p) ==
    /\ ~world[w].exists /\ NameFree(w, n) /\ PortFree(w, p)
    /\ \A i \in Rows : data[i].world # w
    /\ \A t \in Threads : at[t].data.world # w
    /\ Intend(c, [NoData EXCEPT !.kind = "create", !.world = w, !.name = n, !.port = p])

\* update_runtime_config with the version the client read last.
RequestConfig(c, w, p) ==
    /\ Live(w) /\ world[w].state = "off" /\ PortFree(w, p)
    /\ Intend(c, [NoData EXCEPT !.kind = "config", !.world = w, !.port = p,
                                !.version = world[w].version])

\* world_delete_preview
Preview(c, w) ==
    /\ pc[c] = "idle" /\ "delete" \in Kinds /\ ~Conflicting(w)
    /\ previews' = [previews EXCEPT ![c] = [NoData EXCEPT !.kind = "delete", !.world = w,
                                                          !.version = world[w].version]]
    /\ UNCHANGED <<rows, stored, pc, at, counters>>

\* delete_world uses the preview up, whether or not it still holds.
RequestDelete(c) ==
    LET d == previews[c]
        w == d.world
    IN
    /\ pc[c] = "idle" /\ d # NoData /\ issued < MaxOps
    /\ previews' = [previews EXCEPT ![c] = NoData]
    /\ IF ~Conflicting(w) /\ world[w].version = d.version
       THEN Resume(c, "submit", [NoArgs EXCEPT !.data = d])
       ELSE UNCHANGED <<pc, at>>
    /\ UNCHANGED <<rows, stored, counters>>

\* edit_world_file; the row keeps the directory the world has now.
RequestFileEdit(c, w, kind, from, to) ==
    LET held == files[Directory(w)] IN
    /\ Live(w) /\ held[from] # None /\ held[to] = None
    /\ Intend(c, [NoData EXCEPT !.kind = kind, !.world = w, !.name = Directory(w),
                                !.from = from, !.to = to])

RequestStart(c, w) ==
    /\ Live(w) /\ world[w].state = "off"
    /\ Intend(c, [NoData EXCEPT !.kind = "start", !.world = w])

RequestStop(c, w) ==
    /\ Live(w) /\ world[w].state = "running"
    /\ Intend(c, [NoData EXCEPT !.kind = "stop", !.world = w])

\* enqueue_world_mutation, and the enqueue_* of the runtime.
Insert(t, d, next) ==
    LET r == OpRequest(d) IN
    IF Ops!Repeated(r) = {} /\ Ops!Admissible(r) /\ issued < MaxOps
    THEN /\ Ops!Create(r)
         /\ data' = [data EXCEPT ![issued + 1] = d]
         /\ Resume(t, next, [at[t] EXCEPT !.op = issued + 1])
    ELSE UNCHANGED rows /\ Resume(t, "idle", NoArgs)

Submit(c) ==
    /\ pc[c] = "submit"
    /\ Insert(c, at[c].data, IF at[c].data.kind = "rename" THEN "rename" ELSE "idle")
    /\ UNCHANGED <<stored, previews, counters>>

\* upload_world_file writes without a row, after it found the path free.
RequestUpload(c, w, p, x) ==
    /\ pc[c] = "idle" /\ touches < MaxTouches
    /\ Live(w) /\ files[Directory(w)][p] = None
    /\ Resume(c, "upload", [NoArgs EXCEPT !.staged = x, !.data =
                               [NoData EXCEPT !.name = Directory(w), !.to = p]])
    /\ UNCHANGED <<rows, stored, previews, counters>>

WriteUpload(c) ==
    /\ pc[c] = "upload"
    /\ files' = [files EXCEPT ![at[c].data.name][at[c].data.to] = at[c].staged]
    /\ touches' = touches + 1
    /\ Resume(c, "idle", NoArgs)
    /\ UNCHANGED <<rows, world, commits, edits, previews, crashes>>

\* delete_world_file
DeleteFile(w, p) ==
    /\ Live(w) /\ files[Directory(w)][p] # None /\ touches < MaxTouches
    /\ files' = [files EXCEPT ![Directory(w)][p] = None]
    /\ touches' = touches + 1
    /\ UNCHANGED <<rows, world, commits, edits, previews, pc, at, crashes>>

-----------------------------------------------------------------------------
(* update_versioned, as update_world calls it to rename a world.           *)

RequestRename(c, w, n) ==
    /\ Live(w)
    /\ Intend(c, [NoData EXCEPT !.kind = "rename", !.world = w, !.name = n,
                                !.version = world[w].version])

SetStatus(t, st, next) ==
    /\ IF Ops!Transitionable(at[t].op)
       THEN Ops!Transition(at[t].op, st)
       ELSE UNCHANGED <<ops, issued, audits, claims>>
    /\ Resume(t, next, at[t])
    /\ UNCHANGED <<data, stored, previews, counters>>

RunRename(c) == pc[c] = "rename" /\ SetStatus(c, "Running", "write")

\* The committed change of row i: w becomes new.
Commit(i, w, new) ==
    /\ world' = [world EXCEPT ![w] = new]
    /\ commits' = commits \cup {[op |-> i, world |-> w, row |-> new]}

\* Mutated form: the row is changed but keeps its version.
RenamedInPlace(w, n) == [world[w] EXCEPT !.name = n]

Renamed(w, n) == [world[w] EXCEPT !.name = n, !.version = @ + 1]

Rename(c) ==
    LET d == at[c].data
        valid == world[d.world].version = d.version /\ NameFree(d.world, d.name)
    IN
    /\ pc[c] = "write"
    /\ IF valid THEN Commit(at[c].op, d.world, Renamed(d.world, d.name))
                ELSE UNCHANGED <<world, commits>>
    /\ Resume(c, IF valid THEN "complete" ELSE "fail", at[c])
    /\ UNCHANGED <<rows, files, edits, previews, counters>>

-----------------------------------------------------------------------------
(* The dispatcher: first the runtime's rows, then a pass over mutations.   *)

\* A start or stop, as far as mutations see it (WorldRuntime has its steps).
BeginRuntime(i) ==
    /\ pc["worker"] = "idle" /\ data[i].kind \in {"start", "stop"}
    /\ Ops!Claim(i)
    /\ Resume("worker", "runtime", [NoArgs EXCEPT !.op = i, !.data = data[i]])
    /\ UNCHANGED <<data, stored, previews, counters>>

EndRuntime ==
    LET w == at["worker"].data.world
        start == at["worker"].data.kind = "start"
        valid == Live(w) /\ world[w].state = IF start THEN "off" ELSE "running"
    IN
    /\ pc["worker"] = "runtime"
    /\ world' = IF valid
                THEN [world EXCEPT ![w].state = IF start THEN "running" ELSE "off"]
                ELSE world
    /\ Resume("worker", IF valid THEN "complete" ELSE "fail", at["worker"])
    /\ UNCHANGED <<rows, commits, files, edits, previews, counters>>

\* Mutated form: only queued rows are looked at.
OutstandingQueued == {i \in Rows : data[i].kind \in Queued /\ ops[i].status = "Queued"}

Outstanding == {i \in Rows : data[i].kind \in Queued /\ ops[i].status \in {"Queued", "Running"}}

\* The rows of a pass are read at its start, with their statuses.
Scan ==
    /\ pc["worker"] = "idle" /\ Outstanding # {}
    /\ Resume("worker", "pass",
              [NoArgs EXCEPT !.todo = Outstanding,
                             !.resumed = {i \in Outstanding : ops[i].status = "Running"}])
    /\ UNCHANGED <<rows, stored, previews, counters>>

Rest(i) == [at["worker"] EXCEPT !.todo = @ \ {i}, !.op = i, !.data = data[i]]

\* A row that was queued is claimed first; one that cannot be is left for later.
Take ==
    LET i == Min(at["worker"].todo) IN
    /\ pc["worker"] = "pass" /\ at["worker"].todo # {}
    /\ \/ /\ i \in at["worker"].resumed
          /\ Resume("worker", "apply", Rest(i))
          /\ UNCHANGED <<ops, issued, audits, claims>>
       \/ /\ i \notin at["worker"].resumed
          /\ Ops!Claim(i)
          /\ Resume("worker", "apply", Rest(i))
       \/ /\ i \notin at["worker"].resumed /\ ~Ops!Claimable(i)
          /\ Resume("worker", "pass", Rest(i))
          /\ UNCHANGED <<ops, issued, audits, claims>>
    /\ UNCHANGED <<data, stored, previews, counters>>

EndPass ==
    /\ pc["worker"] = "pass" /\ at["worker"].todo = {}
    /\ Resume("worker", "idle", NoArgs)
    /\ UNCHANGED <<rows, stored, previews, counters>>

Applying(kinds) == pc["worker"] = "apply" /\ at["worker"].data.kind \in kinds

Finish(valid) == Resume("worker", IF valid THEN "complete" ELSE "fail", at["worker"])

Created(d) == [exists |-> TRUE, deleted |-> FALSE, name |-> d.name, port |-> d.port,
               version |-> 1, state |-> "off"]

Adopted(i, w) == [ops EXCEPT ![i].world = w]

\* _apply_queued_world_create: insert the world, or recognize it; the row gets its
\* world in the same transaction.
ApplyCreate ==
    LET i == at["worker"].op
        d == at["worker"].data
        w == d.world
        insert == ~world[w].exists /\ NameFree(w, d.name) /\ PortFree(w, d.port)
        done == world[w] = Created(d)
    IN
    /\ Applying({"create"})
    /\ IF insert THEN Commit(i, w, Created(d)) ELSE UNCHANGED <<world, commits>>
    /\ ops' = IF insert \/ done THEN Adopted(i, w) ELSE ops
    /\ Finish(insert \/ done)
    /\ UNCHANGED <<issued, audits, claims, data, files, edits, previews, counters>>

\* A world that this request, or one like it, has deleted.
DeletedBefore(d) == world[d.world].deleted /\ world[d.world].version = d.version + 1

\* _apply_queued_world_delete
ApplyDelete ==
    LET d == at["worker"].data
        w == d.world
        valid == Live(w) /\ world[w].state = "off" /\ world[w].version = d.version
    IN
    /\ Applying({"delete"})
    /\ IF valid
       THEN Commit(at["worker"].op, w,
                   [world[w] EXCEPT !.deleted = TRUE, !.version = @ + 1])
       ELSE UNCHANGED <<world, commits>>
    /\ Finish(valid \/ DeletedBefore(d))
    /\ UNCHANGED <<rows, files, edits, previews, counters>>

\* Mutated form: the values are compared, the version is not.
ConfiguredAnyVersion(d) == world[d.world].port = d.port

\* A world that has the values and the version this request would leave.
ConfiguredBefore(d) ==
    world[d.world].version = d.version + 1 /\ world[d.world].port = d.port

\* Mutated form: the state was checked by the route.
ConfigurableAnyState(d) ==
    world[d.world].version = d.version /\ PortFree(d.world, d.port)

Configurable(d) ==
    /\ world[d.world].version = d.version
    /\ world[d.world].state = "off"
    /\ PortFree(d.world, d.port)

\* _apply_queued_runtime_config
ApplyConfig ==
    LET d == at["worker"].data
        w == d.world
        done == Live(w) /\ ConfiguredBefore(d)
        valid == Live(w) /\ ~ConfiguredBefore(d) /\ Configurable(d)
    IN
    /\ Applying({"config"})
    /\ IF valid
       THEN Commit(at["worker"].op, w, [world[w] EXCEPT !.port = d.port, !.version = @ + 1])
       ELSE UNCHANGED <<world, commits>>
    /\ Finish(done \/ valid)
    /\ UNCHANGED <<rows, files, edits, previews, counters>>

\* Mutated form: an edit that was made already is a conflict.
FileEditedNever(d) == FALSE

\* A missing source beside a target passes for a move that was made before, a
\* target that equals its source for a copy.
FileEdited(d) ==
    LET source == files[d.name][d.from]
        target == files[d.name][d.to]
    IN  target # None /\ source = IF d.kind = "copy" THEN target ELSE None

\* Mutated form: the target was looked at by the route.
EditableOver(d) == files[d.name][d.from] # None

Editable(d) == files[d.name][d.from] # None /\ files[d.name][d.to] = None

\* _apply_queued_file_edit: look,
ExamineFileEdit ==
    LET d == at["worker"].data IN
    /\ Applying(FileEdits)
    /\ IF ~FileEdited(d) /\ Editable(d)
       THEN Resume("worker", IF d.kind = "copy" THEN "stage" ELSE "replace",
                   [at["worker"] EXCEPT !.since = touches])
       ELSE Finish(FileEdited(d))
    /\ UNCHANGED <<rows, stored, previews, counters>>

\* copy beside the target,
StageCopy ==
    LET d == at["worker"].data
        source == files[d.name][d.from]
    IN
    /\ pc["worker"] = "stage"
    /\ Resume("worker", IF source = None THEN "fail" ELSE "replace",
              [at["worker"] EXCEPT !.staged = source])
    /\ UNCHANGED <<rows, stored, previews, counters>>

\* What renaming the file leaves in the directory.
Moved(d) == [files[d.name] EXCEPT ![d.to] = files[d.name][d.from], ![d.from] = None]

\* and rename, which takes the place of whatever the target holds by now.
ReplaceTarget ==
    LET d == at["worker"].data
        valid == d.kind = "copy" \/ files[d.name][d.from] # None
    IN
    /\ pc["worker"] = "replace"
    /\ files' = IF ~valid THEN files
                ELSE [files EXCEPT ![d.name] =
                        IF d.kind = "copy" THEN [@ EXCEPT ![d.to] = at["worker"].staged]
                                           ELSE Moved(d)]
    /\ edits' = IF valid THEN edits \cup {[op |-> at["worker"].op, life |-> crashes,
                                            since |-> at["worker"].since]}
                         ELSE edits
    /\ Finish(valid)
    /\ UNCHANGED <<rows, world, commits, previews, counters>>

\* The row's end; the dispatcher goes on with its pass.
End(t) ==
    LET next == IF t \in Clients \/ data[at[t].op].kind \notin Queued THEN "idle" ELSE "pass" IN
    \/ pc[t] = "complete" /\ SetStatus(t, "Completed", next)
    \/ pc[t] = "fail" /\ SetStatus(t, "Failed", next)

\* The manager dies, but for the middle of a start or stop, and is started again.
ManagerCrash ==
    /\ crashes < MaxCrashes
    /\ at["worker"].data.kind \notin {"start", "stop"}
    /\ crashes' = crashes + 1
    /\ pc' = [t \in Threads |-> "idle"]
    /\ at' = [t \in Threads |-> NoArgs]
    /\ previews' = [c \in Clients |-> NoData]
    /\ UNCHANGED <<rows, stored, touches>>

-----------------------------------------------------------------------------

Metadata(c) ==
    \/ RequestDelete(c)
    \/ \E w \in Worlds :
          \/ Preview(c, w) \/ RequestStart(c, w) \/ RequestStop(c, w)
          \/ \E p \in Ports : RequestConfig(c, w, p)
          \/ \E n \in Names : RequestRename(c, w, n)
          \/ \E n \in Names, p \in Ports : RequestCreate(c, w, n, p)

Files(c) ==
    \E w \in Worlds, p \in Paths :
        \/ \E x \in Contents : RequestUpload(c, w, p, x)
        \/ \E kind \in FileEdits, to \in Paths : RequestFileEdit(c, w, kind, p, to)
        \/ DeleteFile(w, p)

Client(c) == Submit(c) \/ RunRename(c) \/ Rename(c) \/ End(c) \/ WriteUpload(c)

Dispatcher ==
    \/ \E i \in 1 .. MaxOps : BeginRuntime(i)
    \/ EndRuntime \/ Scan \/ Take \/ EndPass
    \/ ApplyCreate \/ ApplyDelete \/ ApplyConfig
    \/ ExamineFileEdit \/ StageCopy \/ ReplaceTarget
    \/ End("worker")

Next ==
    \/ \E c \in Clients : Metadata(c) \/ Files(c) \/ Client(c)
    \/ Dispatcher \/ ManagerCrash

Spec == Init /\ [][Next]_vars

\* The dispatcher's thread and the threads of accepted requests keep running.
FairSpec == Spec /\ WF_vars(Dispatcher) /\ \A c \in Clients : WF_vars(Client(c))

-----------------------------------------------------------------------------
(* Properties.                                                             *)

Status(i) == ops[i].status

RowData == [kind : DOMAIN TypeOf \cup {None}, world : Worlds \cup {None},
            name : Names \cup {None}, port : Ports \cup {None}, version : Nat,
            from : Paths \cup {None}, to : Paths \cup {None}]

WorldRow == [exists : BOOLEAN, deleted : BOOLEAN, name : Names \cup {None},
             port : Ports \cup {None}, version : Nat, state : {"off", "running"}]

\* Type invariant, with the two uniqueness indexes over live worlds.
TypeOK ==
    /\ Ops!TypeOK
    /\ data \in [1 .. MaxOps -> RowData]
    /\ world \in [Worlds -> WorldRow]
    /\ \A w \in Worlds : Live(w) => NameFree(w, world[w].name) /\ PortFree(w, world[w].port)
    /\ commits \subseteq [op : 0 .. MaxOps, world : Worlds, row : WorldRow]
    /\ files \in [Names -> [Paths -> Contents \cup {None}]]
    /\ edits \subseteq [op : 1 .. MaxOps, life : 0 .. MaxCrashes, since : 0 .. touches]
    /\ previews \in [Clients -> RowData]
    /\ pc \in [Threads -> {"idle", "submit", "upload", "rename", "write", "runtime", "pass",
                           "apply", "stage", "replace", "complete", "fail"}]

CommitsOf(i) == {c \in commits : c.op = i}

\* Edits of a world's row are never lost: its versions are the edits committed, in
\* an unbroken line, and each was made upon the version its editor had read
\* (document 9 section 4, metadata_version).  So a request is never granted twice,
\* however often crashes make the dispatcher apply it.
NoLostUpdate ==
    \A c \in commits :
        /\ \A e \in commits : e.world = c.world /\ e.row.version = c.row.version => e = c
        /\ c.row.version \in 1 .. world[c.world].version
        /\ c.op # 0 => c.row.version = data[c.op].version + 1
        /\ c.row.version > 1 =>
              \E e \in commits : e.world = c.world /\ e.row.version = c.row.version - 1

\* What a request asks of its world's row.
Grants(row, d) ==
    CASE d.kind = "create" -> row.name = d.name /\ row.port = d.port
      [] d.kind = "delete" -> row.deleted
      [] d.kind = "config" -> row.port = d.port
      [] d.kind = "rename" -> row.name = d.name

\* A request reported as completed was granted, at the version after the one it
\* was made upon.  A manager that took up an interrupted row again may find its
\* change made by a request of the same content, or by none when it changes nothing.
CompletedIsGranted ==
    \A i \in Rows :
        Status(i) = "Completed" /\ data[i].kind \in {"create", "delete", "config", "rename"}
        => \E c \in commits : /\ c.world = data[i].world
                              /\ c.row.version = data[i].version + 1
                              /\ Grants(c.row, data[i])

\* A request whose change was committed is reported as failed only when a rename
\* came between the crash and its second application: renames are the one edit
\* that does not wait for the world's other rows (dispatch_queued_world_mutations).
FailedOnlyIfRenamed ==
    \A i \in Rows : \A c \in CommitsOf(i) :
        Status(i) = "Failed" =>
            \E e \in commits : /\ e.world = c.world /\ e.row.version > c.row.version
                               /\ e.op # 0 /\ data[e.op].kind = "rename"

\* The outcome a request's row reports is what became of the world, although the
\* dispatcher applies interrupted requests a second time.
AnswersAreTrue == CompletedIsGranted /\ FailedOnlyIfRenamed

\* A start or stop of the world is being carried out.
RuntimeBusy(w) == pc["worker"] = "runtime" /\ at["worker"].data.world = w

\* A world's port, and whether it exists, change only while it is off and idle,
\* and a deleted world never changes again, although routes look at the state long
\* before the dispatcher acts (document 6 section 4).
OnlyOffWorldsChange ==
    [][\A w \in Worlds :
          world[w].exists /\ world'[w] # world[w] =>
              /\ ~world[w].deleted
              /\ world'[w].port # world[w].port \/ world'[w].deleted
                    => world[w].state = "off" /\ ~RuntimeBusy(w)]_vars

EditsOf(i) == {e \in edits : e.op = i}

Copies == {e \in edits : data[e.op].kind = "copy"}

\* Moving files adds none to the directories: there are never more than at first, were
\* written by clients or made by copies,
NoFileAdded ==
    Cardinality(FilesIn(files)) <= Cardinality(FilesIn(FirstFiles)) + touches + Cardinality(Copies)

\* and no edit loses one, but in place of one a client has just written.
NoFileLost == Cardinality(FilesIn(FirstFiles)) <= Cardinality(FilesIn(files)) + touches

\* A file edit that was made and then, after a crash, applied again is reported as
\* failed or made twice only when a client wrote or deleted files since it looked
\* at them, or another row edited the same directory (_apply_queued_file_edit is
\* to recognize its own work).
EditsAreRecognized ==
    \A i \in Rows : \A e \in EditsOf(i) :
        Status(i) = "Failed" \/ (\E o \in EditsOf(i) : o.life > e.life) =>
            \/ touches > e.since
            \/ \E o \in edits : o.op # i /\ data[o.op].name = data[i].name

\* A file edit takes effect once, and takes nothing with it, although an interrupted
\* row is applied again and clients write the same files meanwhile.
FilesSurviveRetries == NoFileAdded /\ NoFileLost /\ EditsAreRecognized

\* A file edit replaces a file only when a client wrote it after the edit looked at
\* its target: the dispatcher looks again, since the route looked long before, but
\* its look and its rename are two steps.
ReplacesOnlyLateUploads ==
    [][LET d == at["worker"].data IN
          edits' # edits /\ files[d.name][d.to] # None
          => touches > at["worker"].since]_vars

Ended(i) == Status(i) \in Ops!Terminal

\* The row of a rename that died with its thread; nothing ever ends it.
Stranded(j) ==
    /\ data[j].kind = "rename" /\ Status(j) = "Running"
    /\ \A c \in Clients : at[c].op # j

\* Every queued mutation ends, unless the row of an interrupted rename holds its
\* world.
QueuedMutationsEnd ==
    \A i \in 1 .. MaxOps :
        (i <= issued /\ data[i].kind \in Queued)
        ~> (Ended(i) \/ \E j \in Rows : Stranded(j) /\ data[j].world = data[i].world)
=============================================================================
