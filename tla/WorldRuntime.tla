------------------------------ MODULE WorldRuntime ------------------------------
(***************************************************************************)
(* The threads of the manager that start, stop, kill and supervise game    *)
(* servers (app/services/worlds.py, runtime.py, reconciliation.py and the  *)
(* threads of app/__init__.py), composed with the operation engine and the *)
(* world state machine.                                                    *)
(*                                                                         *)
(* One step of a thread is one SQL transaction or one call of the process  *)
(* adapter; everything else may happen between two of them.  A manager     *)
(* crash loses the threads and the registry of server processes, and keeps *)
(* the database and the servers, which run in sessions of their own.       *)
(***************************************************************************)
EXTENDS Naturals, FiniteSets

CONSTANTS Worlds,       \* world ids
          None,         \* SQL NULL
          Clients,      \* HTTP request threads
          Pollers,      \* the supervisor thread, and requests for a supervisor tick
          Faults,       \* what the environment may do, see FaultKinds
          MaxOps,       \* bound on operation rows
          MaxRequests,  \* bound on the rows that clients create
          MaxCrashes    \* bound on manager crashes

FaultKinds == {"gate",       \* a launch precondition other than the EULA fails
               "eula",       \* eula.txt is edited back to false
               "spawn",      \* the server cannot be spawned
               "session",    \* its runtime session cannot be written
               "timeout",    \* it is not ready within the deadline
               "exit",       \* it exits on its own
               "terminate"}  \* it outlives the deadline of a forced kill

ASSUME RuntimeAssumption ==
    /\ None \notin Worlds
    /\ Faults \subseteq FaultKinds
    /\ MaxOps \in Nat \ {0} /\ MaxRequests \in 0 .. MaxOps /\ MaxCrashes \in Nat
    /\ Clients \cap Pollers = {}
    /\ {"worker", "boot"} \cap (Clients \cup Pollers) = {}

Threads == {"worker", "boot"} \cup Clients \cup Pollers

VARIABLES ops, issued, audits, claims,  \* the operation engine
          state,     \* world_instances.state
          accepted,  \* the worlds whose EULA acceptance is on file and audited
          session,   \* the latest runtime session of each world: "open" or why it ended
          proc,      \* the latest server process of each world
          stray,     \* the worlds with a live server besides the latest one
          attached,  \* the live registry: the worlds whose process has a handle
          pc, at,    \* where each thread is, and its local variables
          crashes    \* manager crashes so far

rows == <<ops, issued, audits, claims>>
servers == <<session, proc, stray, attached>>
vars == <<rows, state, accepted, servers, pc, at, crashes>>

OpRequest(type, w) ==
    [type |-> type, world |-> w, key |-> None, subject |-> None,
     initial |-> "Queued", bypass |-> type = "CrashDetected"]

Ops == INSTANCE OperationService WITH
           Keys <- {}, Subjects <- {},
           Requests <- {OpRequest(type, w) : w \in Worlds,
                          type \in {"Start", "Stop", "Kill", "ConfigEdit", "CrashDetected"}}

Life == INSTANCE WorldLifecycle WITH
            before <- [w \in Worlds |-> None], deleted <- {}

Live == {"booting", "serving"}
EndReasons == {"graceful_stop", "forced_stop", "crashed", "reconciled_missing"}

\* The arguments of a thread at rest.  Pollers rest at "idle" or, when a tick was
\* aborted, "abort"; boot at "down", "abort" or, once it has succeeded, "up".
NoArgs == [world |-> None, op |-> 0, reason |-> None, todo |-> {}]
Resting == {"idle", "abort", "down", "up"}

Init ==
    /\ Ops!Init
    /\ Life!Init
    /\ accepted \in SUBSET Worlds
    /\ session = [w \in Worlds |-> "none"]
    /\ proc = [w \in Worlds |-> "none"]
    /\ stray = {} /\ attached = {}
    /\ pc = [t \in Threads |-> IF t = "boot" THEN "up" ELSE "idle"]
    /\ at = [t \in Threads |-> NoArgs]
    /\ crashes = 0

Up == pc["boot"] = "up"

\* Thread t goes on at p, with local variables a.
Resume(t, p, a) ==
    /\ pc' = [pc EXCEPT ![t] = p]
    /\ at' = [at EXCEPT ![t] = IF p \in Resting THEN NoArgs ELSE a]

Goto(t, p) == Resume(t, p, at[t])

-----------------------------------------------------------------------------
(* The transactions that only write a world's state or an operation's      *)
(* status.  Each is named after the point of the code it stands at, and    *)
(* says where its thread goes on when the write is made and when it raises.*)

Write(to, next, refused) == [to |-> to, next |-> next, refused |-> refused]

\* The calls of _set_world_state.
WorldWrites ==
    [answer_eula  |-> Write("eula_required", "idle", "idle"),
     require_eula |-> Write("eula_required", "raise", "raise"),
     error        |-> Write("error", "raise", "raise"),
     queue        |-> Write("queued", "launch", "raise"),
     launch       |-> Write("starting", "spawn", "raise"),
     confirm      |-> Write("running", "complete", "raise"),
     time_out     |-> Write("error", "timed_out", "raise"),
     stopping     |-> Write("stopping", "halt", "raise"),
     off          |-> Write("off", "complete", "raise"),
     lift_eula    |-> Write("off", "complete", "raise"),
     crash        |-> Write("crashed", "record", "abort"),
     reattach     |-> Write("running", "scan", "abort")]

\* Mutated form: the row of a start says that it is being validated.
BeginStartValidating == Write("Validating", "recheck", "idle")

\* The first transition of start; only its checkpoint says "validating".
BeginStart == Write("Running", "recheck", "idle")

\* The calls of OperationService.transition.  "raise" is what becomes of an
\* exception: the handler, or else the dispatcher, fails the row if it is open.
StatusWrites ==
    [validate    |-> BeginStart,
     cancel      |-> Write("Cancelled", "idle", "idle"),
     fail_eula   |-> Write("Failed", "require_eula", "idle"),
     fail_start  |-> Write("Failed", "error", "idle"),
     timed_out   |-> Write("TimedOut", "idle", "idle"),
     run         |-> Write("Running", "stopping", "idle"),
     complete    |-> Write("Completed", "idle", "raise"),
     raise       |-> Write("Failed", "idle", "idle"),
     edit_run    |-> Write("Running", "accept", "idle"),
     observe     |-> Write("Running", "observed", "abort"),
     observed    |-> Write("Completed", "scan", "abort"),
     interrupted |-> Write("Failed", "scan", "abort")]

Intent(p) == IF p = "lift_eula" THEN "eula_acceptance" ELSE "ordinary"

SetWorldState(t) ==
    /\ pc[t] \in DOMAIN WorldWrites
    /\ LET w == at[t].world
           s == WorldWrites[pc[t]]
       IN  IF Life!Permitted(w, s.to, Intent(pc[t]))
           THEN state' = [state EXCEPT ![w] = s.to] /\ Goto(t, s.next)
           ELSE UNCHANGED state /\ Goto(t, s.refused)
    /\ UNCHANGED <<rows, accepted, servers, crashes>>

SetStatus(t) ==
    /\ pc[t] \in DOMAIN StatusWrites
    /\ LET i == at[t].op
           s == StatusWrites[pc[t]]
       IN  IF Ops!Transitionable(i)
           THEN Ops!Transition(i, s.to) /\ Goto(t, s.next)
           ELSE UNCHANGED rows /\ Goto(t, s.refused)
    /\ UNCHANGED <<state, accepted, servers, crashes>>

-----------------------------------------------------------------------------
(* Clients: the enqueue_* services and accept_eula.                        *)

\* enqueue_start and start refuse a world in one of these states.
Occupied == {"starting", "running", "stopping"}

\* validate_launch.  A server that listens holds its port against another one.
Preconditions(w) ==
    IF proc[w] = "serving" THEN {"reject"}
    ELSE IF "gate" \in Faults THEN {"pass", "reject"} ELSE {"pass"}

\* _validate_launch wants the EULA accepted on file and in the audit log first.
Gate(w) == IF w \in accepted THEN Preconditions(w) ELSE {"eula"}

\* create_with_replay called by thread t, which goes on at next with the new row.
Submit(t, type, bound, next) ==
    LET r == OpRequest(type, at[t].world) IN
    IF issued < bound /\ Ops!Repeated(r) = {} /\ Ops!Admissible(r)
    THEN Ops!Create(r) /\ Resume(t, next, [at[t] EXCEPT !.op = issued + 1])
    ELSE UNCHANGED rows /\ Goto(t, "idle")

\* enqueue_start looks at the world and at the gate before it creates the row.
RequestStart(c, w) ==
    /\ Up /\ pc[c] = "idle" /\ issued < MaxRequests
    /\ state[w] \notin Occupied
    /\ \E outcome \in Gate(w) :
          /\ outcome # "reject"
          /\ Resume(c, IF outcome = "eula" THEN "answer_eula" ELSE "enqueue",
                    [NoArgs EXCEPT !.world = w])
    /\ UNCHANGED <<rows, state, accepted, servers, crashes>>

EnqueueStart(c) ==
    /\ pc[c] = "enqueue"
    /\ Submit(c, "Start", MaxRequests, "idle")
    /\ UNCHANGED <<state, accepted, servers, crashes>>

\* enqueue_stop and enqueue_kill only look whether the world exists.
RequestEnd(w, type) ==
    /\ Up /\ issued < MaxRequests
    /\ Ops!Create(OpRequest(type, w))
    /\ UNCHANGED <<state, accepted, servers, pc, at, crashes>>

RequestAcceptance(c, w) ==
    /\ Up /\ pc[c] = "idle" /\ issued < MaxRequests
    /\ state[w] = "eula_required"
    /\ Resume(c, "edit", [NoArgs EXCEPT !.world = w])
    /\ UNCHANGED <<rows, state, accepted, servers, crashes>>

EnqueueAcceptance(c) ==
    /\ pc[c] = "edit"
    /\ Submit(c, "ConfigEdit", MaxRequests, "edit_run")
    /\ UNCHANGED <<state, accepted, servers, crashes>>

\* The audit record and eula.txt, before the world is set off.
AcceptEula(c) ==
    /\ pc[c] = "accept"
    /\ accepted' = accepted \cup {at[c].world}
    /\ Goto(c, "lift_eula")
    /\ UNCHANGED <<rows, state, servers, crashes>>

-----------------------------------------------------------------------------
(* The operation dispatcher: the one thread that runs starts, stops, kills. *)

\* The queued row the dispatcher looks at first for its world.
Oldest(i) ==
    \A j \in 1 .. i - 1 : ~(/\ ops[j].world = ops[i].world
                            /\ ops[j].type \in Ops!RuntimeTypes
                            /\ ops[j].status = "Queued")

Dispatch(i) ==
    /\ Up /\ pc["worker"] = "idle"
    /\ ops[i].type \in Ops!RuntimeTypes /\ Oldest(i)
    /\ Ops!Claim(i)
    /\ Resume("worker", IF ops[i].type = "Start" THEN "check" ELSE "run",
              [NoArgs EXCEPT !.world = ops[i].world, !.op = i])
    /\ UNCHANGED <<state, accepted, servers, crashes>>

\* Mutated form: a failed precondition returns before the row is failed.
AfterGateReturns(first, outcome) ==
    CASE outcome = "pass"   -> IF first THEN "validate" ELSE "queue"
      [] outcome = "eula"   -> IF first THEN "require_eula" ELSE "fail_eula"
      [] outcome = "reject" -> IF first THEN "raise" ELSE "idle"

\* Where start goes on after its first or second look at the gate.
AfterGate(first, outcome) ==
    CASE outcome = "pass"   -> IF first THEN "validate" ELSE "queue"
      [] outcome = "eula"   -> IF first THEN "require_eula" ELSE "fail_eula"
      [] outcome = "reject" -> IF first THEN "raise" ELSE "fail_start"

\* start looks at the world and the gate twice: before and after its row runs.
CheckLaunch ==
    LET w == at["worker"].world
        first == pc["worker"] = "check"
    IN
    /\ pc["worker"] \in {"check", "recheck"}
    /\ IF state[w] \in Occupied
       THEN Goto("worker", IF first THEN "raise" ELSE "cancel")
       ELSE \E outcome \in Gate(w) : Goto("worker", AfterGate(first, outcome))
    /\ UNCHANGED <<rows, state, accepted, servers, crashes>>

\* The adapter spawns the server and registers it in place of the earlier one.
Spawn ==
    LET w == at["worker"].world IN
    /\ pc["worker"] = "spawn"
    /\ \/ /\ "spawn" \in Faults
          /\ Goto("worker", "fail_start")
          /\ UNCHANGED servers
       \/ /\ proc' = [proc EXCEPT ![w] = "booting"]
          /\ stray' = IF proc[w] \in Live THEN stray \cup {w} ELSE stray
          /\ attached' = attached \cup {w}
          /\ Goto("worker", "open_session")
          /\ UNCHANGED session
    /\ UNCHANGED <<rows, state, accepted, crashes>>

\* At most one open session per world (ux_runtime_sessions_open).
OpenSession ==
    LET w == at["worker"].world IN
    /\ pc["worker"] = "open_session"
    /\ \/ /\ session[w] = "open" \/ "session" \in Faults
          /\ Goto("worker", "fail_start")
          /\ UNCHANGED session
       \/ /\ session[w] # "open"
          /\ session' = [session EXCEPT ![w] = "open"]
          /\ Goto("worker", "await")
    /\ UNCHANGED <<rows, state, accepted, proc, stray, attached, crashes>>

\* Mutated form: terminate sends its signal and does not wait for the exit.
OutcomeUnawaited(w) == {"dead", proc[w]}

\* terminate with a forced kill: the server is gone, or outlives the deadline.
Outcome(w) == {"dead"} \cup IF "terminate" \in Faults THEN {proc[w]} ELSE {}

\* _await_readiness: the server serves, has exited, or the deadline has passed
\* and it is torn down.
AwaitReadiness ==
    LET w == at["worker"].world IN
    /\ pc["worker"] = "await"
    /\ \/ /\ proc[w] = "serving"
          /\ Goto("worker", "confirm")
          /\ UNCHANGED <<proc, attached>>
       \/ /\ proc[w] = "dead"
          /\ Resume("worker", "close", [at["worker"] EXCEPT !.reason = "crashed"])
          /\ UNCHANGED <<proc, attached>>
       \/ /\ proc[w] \in Live /\ "timeout" \in Faults
          /\ \E p \in Outcome(w) : proc' = [proc EXCEPT ![w] = p]
          /\ attached' = attached \ {w}
          /\ Resume("worker", "close", [at["worker"] EXCEPT !.reason = "crashed"])
    /\ UNCHANGED <<rows, state, accepted, session, stray, crashes>>

\* Mutated form: the process of a handle is not probed.
ReachableWhenRegistered(w) == w \in attached

\* _resolve_handle finds a server.
Reachable(w) == w \in attached /\ proc[w] \in Live

\* The ladder of stop (RCON, stdin, terminate), or the forced kill.  A stop counts
\* as graceful when there is nothing to stop or the server exits in time.
Halt ==
    LET w == at["worker"].world
        stop == ops[at["worker"].op].type = "Stop"
        Done(reason) ==
            Resume("worker", "close", [at["worker"] EXCEPT !.reason = reason])
    IN
    /\ pc["worker"] = "halt"
    /\ \/ /\ ~Reachable(w)
          /\ Done(IF stop THEN "graceful_stop" ELSE "forced_stop")
          /\ UNCHANGED proc
       \/ /\ Reachable(w) /\ stop
          /\ proc' = [proc EXCEPT ![w] = "dead"]
          /\ Done("graceful_stop")
       \/ /\ Reachable(w)
          /\ \E p \in Outcome(w) : proc' = [proc EXCEPT ![w] = p]
          /\ Done("forced_stop")
    /\ UNCHANGED <<rows, state, accepted, session, stray, attached, crashes>>

-----------------------------------------------------------------------------
(* Closing sessions, and the supervisor's poll_running.                    *)

OpenSessions == {w \in Worlds : session[w] = "open"}

\* _close_session closes whatever session of the world is open.
CloseSession(t) ==
    LET w == at[t].world IN
    /\ pc[t] = "close"
    /\ session' = [session EXCEPT ![w] = IF @ = "open" THEN at[t].reason ELSE @]
    /\ Goto(t, CASE t = "boot"                     -> "resolve"
                 [] t \in Pollers                  -> "crash"
                 [] t = "worker"                   ->
                        IF ops[at[t].op].type = "Start" THEN "time_out" ELSE "off")
    /\ UNCHANGED <<rows, state, accepted, proc, stray, attached, crashes>>

PollStart(p) ==
    /\ Up /\ pc[p] \in {"idle", "abort"} /\ OpenSessions # {}
    /\ Resume(p, "scan", [NoArgs EXCEPT !.todo = OpenSessions])
    /\ UNCHANGED <<rows, state, accepted, servers, crashes>>

\* The sessions are those read at the start of the tick, the servers those of now.
Poll(p) ==
    /\ pc[p] = "scan"
    /\ IF at[p].todo = {} THEN Goto(p, "idle")
       ELSE \E w \in at[p].todo :
              Resume(p, IF Reachable(w) THEN "scan" ELSE "close",
                     [world |-> w, op |-> 0, reason |-> "crashed",
                      todo |-> at[p].todo \ {w}])
    /\ UNCHANGED <<rows, state, accepted, servers, crashes>>

\* _record_crash, for a poller or for boot.
RecordCrash(t) ==
    /\ pc[t] = "record"
    /\ Submit(t, "CrashDetected", MaxOps, "observe")
    /\ UNCHANGED <<state, accepted, servers, crashes>>

-----------------------------------------------------------------------------
(* Boot: reconcile, before the other threads are started.                  *)

\* Mutated form: only the sessions of running worlds are looked at.
BootStartRunning ==
    /\ pc["boot"] \in {"down", "abort"}
    /\ Resume("boot", "scan",
              [NoArgs EXCEPT !.todo = {w \in OpenSessions : state[w] = "running"}])
    /\ UNCHANGED <<rows, state, accepted, servers, crashes>>

BootStart ==
    /\ pc["boot"] \in {"down", "abort"}
    /\ Resume("boot", "scan", [NoArgs EXCEPT !.todo = OpenSessions])
    /\ UNCHANGED <<rows, state, accepted, servers, crashes>>

\* A session whose server is found by its launch fingerprint is attached again.
Reattach ==
    /\ pc["boot"] = "scan"
    /\ \E w \in at["boot"].todo :
          LET a == [world |-> w, op |-> 0, reason |-> "reconciled_missing",
                    todo |-> at["boot"].todo \ {w}] IN
          IF proc[w] \in Live
          THEN attached' = attached \cup {w} /\ Resume("boot", "reattach", a)
          ELSE UNCHANGED attached /\ Resume("boot", "close", a)
    /\ UNCHANGED <<rows, state, accepted, session, proc, stray, crashes>>

\* Mutated form: only the rows that are still being validated.
ValidatingStarts == {i \in 1 .. issued : ops[i].type = "Start" /\ ops[i].status = "Validating"}

RunningStarts == {i \in 1 .. issued : ops[i].type = "Start" /\ ops[i].status = "Running"}

\* A world whose server is gone crashed, unless it was still being started.
ResolveMissing ==
    LET w == at["boot"].world
        S == {i \in RunningStarts : ops[i].world = w}
    IN
    /\ pc["boot"] = "resolve"
    /\ IF S = {} THEN Goto("boot", "crash")
       ELSE \E i \in S : Resume("boot", "interrupt", [at["boot"] EXCEPT !.op = i])
    /\ UNCHANGED <<rows, state, accepted, servers, crashes>>

\* Then the starts that never opened a session, or whose session is closed.
NextInterruptedStart ==
    LET S == {i \in RunningStarts : session[ops[i].world] # "open"} IN
    /\ pc["boot"] = "scan" /\ at["boot"].todo = {}
    /\ IF S = {} THEN Goto("boot", "up")
       ELSE \E i \in S : Resume("boot", "interrupt",
                                [NoArgs EXCEPT !.world = ops[i].world, !.op = i])
    /\ UNCHANGED <<rows, state, accepted, servers, crashes>>

\* The state _fail_interrupted_start puts a world in, and those it leaves alone;
\* the others, and a refused transition, make it raise.
Interrupted == [starting |-> "error", running |-> "crashed",
                stopping |-> "crashed", queued |-> "off"]
Settled == {"off", "error", "crashed"}

FailInterruptedStart ==
    LET w == at["boot"].world
        s == state[w]
        Writable == s \in DOMAIN Interrupted
                    /\ Life!Permitted(w, Interrupted[s], "ordinary")
    IN
    /\ pc["boot"] = "interrupt"
    /\ \/ /\ Writable
          /\ state' = [state EXCEPT ![w] = Interrupted[s]]
          /\ Goto("boot", "interrupted")
       \/ /\ ~Writable
          /\ Goto("boot", IF s \in Settled THEN "interrupted" ELSE "abort")
          /\ UNCHANGED state
    /\ UNCHANGED <<rows, accepted, servers, crashes>>

-----------------------------------------------------------------------------
(* The environment: servers, files and the life of the manager process.    *)

Bind(w) ==
    /\ proc[w] = "booting"
    /\ proc' = [proc EXCEPT ![w] = "serving"]
    /\ UNCHANGED <<rows, state, accepted, session, stray, attached, pc, at, crashes>>

Exit(w) ==
    /\ "exit" \in Faults /\ proc[w] \in Live
    /\ proc' = [proc EXCEPT ![w] = "dead"]
    /\ UNCHANGED <<rows, state, accepted, session, stray, attached, pc, at, crashes>>

RevokeEula(w) ==
    /\ "eula" \in Faults /\ w \in accepted
    /\ accepted' = accepted \ {w}
    /\ UNCHANGED <<rows, state, servers, pc, at, crashes>>

\* The manager dies; the next one starts with an empty registry and no threads.
ManagerCrash ==
    /\ crashes < MaxCrashes /\ pc["boot"] # "down"
    /\ crashes' = crashes + 1
    /\ attached' = {}
    /\ pc' = [t \in Threads |-> IF t = "boot" THEN "down" ELSE "idle"]
    /\ at' = [t \in Threads |-> NoArgs]
    /\ UNCHANGED <<rows, state, accepted, session, proc, stray>>

-----------------------------------------------------------------------------

Store(t) == SetWorldState(t) \/ SetStatus(t) \/ CloseSession(t)

Request ==
    \E w \in Worlds :
        \/ \E c \in Clients : RequestStart(c, w) \/ RequestAcceptance(c, w)
        \/ \E type \in {"Stop", "Kill"} : RequestEnd(w, type)

Client(c) == EnqueueStart(c) \/ EnqueueAcceptance(c) \/ AcceptEula(c) \/ Store(c)

Dispatcher ==
    \/ \E i \in 1 .. MaxOps : Dispatch(i)
    \/ CheckLaunch \/ Spawn \/ OpenSession \/ AwaitReadiness \/ Halt
    \/ Store("worker")

Poller(p) == PollStart(p) \/ Poll(p) \/ RecordCrash(p) \/ Store(p)

Boot ==
    \/ BootStart \/ Reattach \/ ResolveMissing \/ RecordCrash("boot")
    \/ NextInterruptedStart \/ FailInterruptedStart \/ Store("boot")

Environment == ManagerCrash \/ \E w \in Worlds : Bind(w) \/ Exit(w) \/ RevokeEula(w)

Next ==
    \/ Request \/ Dispatcher \/ Boot \/ Environment
    \/ \E c \in Clients : Client(c)
    \/ \E p \in Pollers : Poller(p)

Spec == Init /\ [][Next]_vars

\* Every thread of the manager keeps running; clients and the environment need
\* not ask for, or do, anything.
Fairness ==
    /\ WF_vars(Dispatcher) /\ WF_vars(Boot)
    /\ \A c \in Clients : WF_vars(Client(c))
    /\ \A p \in Pollers : WF_vars(Poller(p))

FairSpec == Spec /\ Fairness

-----------------------------------------------------------------------------
(* Properties.                                                             *)

Points == DOMAIN WorldWrites \cup DOMAIN StatusWrites \cup Resting \cup
          {"enqueue", "edit", "accept", "check", "recheck", "spawn", "open_session",
           "await", "halt", "close", "scan", "record", "resolve", "interrupt"}

\* Type invariant.
TypeOK ==
    /\ Ops!TypeOK /\ Life!TypeOK
    /\ accepted \subseteq Worlds /\ stray \subseteq Worlds /\ attached \subseteq Worlds
    /\ session \in [Worlds -> {"none", "open"} \cup EndReasons]
    /\ proc \in [Worlds -> Live \cup {"none", "dead"}]
    /\ pc \in [Threads -> Points]
    /\ at \in [Threads -> [world : Worlds \cup {None}, op : 0 .. MaxOps,
                           reason : EndReasons \cup {None}, todo : SUBSET Worlds]]
    /\ crashes \in 0 .. MaxCrashes

\* The points of start between STARTING and RUNNING, and those of stop and kill
\* between STOPPING and OFF.
Launching == {"spawn", "open_session", "await", "confirm"}
Halting == {"halt", "close", "off"}

Halts(i) == ops[i].type \in {"Stop", "Kill"}

\* While the dispatcher launches or halts a server, the world stays in the state it
\* set: no client, supervisor tick or boot changes it in between, although none of
\* them looks at the row that is running (start, stop, kill against poll_running).
DispatcherOwnsWorld ==
    LET w == at["worker"].world IN
    /\ pc["worker"] \in Launching => state[w] = "starting"
    /\ pc["worker"] \in Halting /\ Halts(at["worker"].op) => state[w] = "stopping"

\* A world never has two live servers, whatever servers, clients, supervisor and
\* manager crashes do: the worlds whose server was lost track of are never started
\* again (start's two checks, the lifecycle table, _fail_interrupted_start).
SingleServer == stray = {}

\* A server nobody can reach any more: a tick that had found an earlier server of the
\* world gone closed this one's session, and the manager was restarted since (reconcile
\* looks at the open sessions only).  It listens, so its port keeps the world off.
Lost(w) ==
    crashes > 0 /\ w \notin attached /\ session[w] = "crashed" /\ proc[w] = "serving"

\* A world that is off, on its way to a start or waiting for its EULA has no open session,
\* and no live server but a lost one: Document 6 section 2.3 has stopping -> off once
\* shutdown is confirmed, and a stop that finds no handle takes that for an exit.
OffIsDown ==
    \A w \in Worlds : state[w] \in {"off", "queued", "eula_required"} =>
        session[w] # "open" /\ (proc[w] \in Live => Lost(w))

\* While no crash of the manager has happened, every row that is running is the row
\* of exactly one thread that is still working on it; so none is forgotten.
RunningRowsAreOwned ==
    crashes = 0 =>
        \A i \in 1 .. issued : ops[i].status = "Running" =>
            Cardinality({t \in Threads : at[t].op = i}) = 1

\* After a restart, a start that is still running is being worked on by the
\* dispatcher, or its session was found alive (reconcile).
InterruptedStartsResolved ==
    Up => \A i \in 1 .. issued :
              ops[i].type = "Start" /\ ops[i].status = "Running"
              => at["worker"].op = i \/ (crashes > 0 /\ ops[i].world \in attached)

\* No thread of the manager loses a row, nor does a boot lose a start.
RowsAreOwned == RunningRowsAreOwned /\ InterruptedStartsResolved

\* A live server with an open session can be reached through the registry whenever
\* the manager is up, so stop, kill and the supervisor find it; and before any crash
\* of the manager this holds of every live server (spawn, reconcile, close_handle).
SessionsAreAttached ==
    Up => \A w \in Worlds :
              proc[w] \in Live /\ (session[w] = "open" \/ crashes = 0) => w \in attached

\* No thread of the manager loses a server, nor does a boot lose one it could find.
ServersAreKnown == SingleServer /\ SessionsAreAttached

\* A request that the queue has accepted is carried out or fails in the end: every
\* queued start, stop or kill becomes terminal unless the manager crashes.
RequestsEnd ==
    \A i \in 1 .. MaxOps :
        (ops[i].status = "Queued") ~> (ops[i].status \in Ops!Terminal \/ crashes > 0)

\* The supervisor, or the next boot, closes the session of every server that died.
DeadSessionsClose ==
    \A w \in Worlds : (session[w] = "open" /\ proc[w] = "dead") ~> (session[w] # "open")

-----------------------------------------------------------------------------
(* Statements of the documents that the code does not meet.                *)

\* Document 6 section 2.3: "running -> crashed (unexpected exit, no Stop in
\* flight)", so a world is never marked crashed while its server runs.
CrashMeansExit ==
    [][\A w \in Worlds : (state[w] = "running" /\ state'[w] = "crashed") =>
          proc[w] \notin Live]_vars
=============================================================================
