------------------------------ MODULE Schedules ------------------------------
(***************************************************************************)
(* SchedulerService: its tick against schedules that clients edit, against *)
(* the other users of the operation engine, against failing transactions   *)
(* and against outages of the manager.  Time is counted in units that      *)
(* divide a day; every timestamp the code compares is such an instant.     *)
(***************************************************************************)
EXTENDS Integers, FiniteSetsExt

CONSTANTS Worlds,      \* worlds
          Ids,         \* schedule ids
          Settings,    \* the settings clients give schedules
          DirectTypes, \* the operations others start
          None,        \* no world: a global schedule
          Day,         \* units of a day
          MaxTime,     \* bound on the clock
          MaxOps,      \* bound on operation rows
          MaxDirect,   \* bound on the operations others start
          MaxEvents    \* bound on edits, ticks that fail and outages together

Time == 0 .. MaxTime

\* interval_spec and time_of_day: "days" counts for every_n_days only, "at" for the
\* kinds of the calendar only.
Plans == [kind : {"daily", "weekly", "monthly", "every_n_days"}, days : Nat \ {0},
          at : 0 .. Day - 1]

ASSUME ScheduleAssumption ==
    /\ {Day, MaxTime, MaxOps} \subseteq Nat \ {0}
    /\ {MaxDirect, MaxEvents} \subseteq Nat
    /\ \A x \in Settings : /\ DOMAIN x = {"world", "type", "plan", "enabled"}
                           /\ x.world \in Worlds \cup {None}
                           /\ x.type \in {"backup", "cleanup", "maintenance"}
                           /\ x.plan \in Plans /\ x.enabled \in BOOLEAN
    /\ DirectTypes \subseteq {"Backup", "Restore", "Cleanup", "DeleteWorld"}

ASSUME NoneAssumption == None \notin Worlds \cup Ids \cup (Ids \X Time)

VARIABLES ops, issued, audits, claims,  \* the operations table
          sched,    \* the schedules table
          missed,   \* missed_run_records
          gone,     \* the worlds that are deleted
          held,     \* the rows of others whose thread is alive
          pc,       \* where the scheduler is, or "down" with the manager
          tick,     \* the time of the tick and the schedules it has yet to look at
          cur,      \* the run it is about
          now,      \* the clock
          watched,  \* the instants a tick has been completed for
          events    \* edits, failed ticks and outages so far

rows == <<ops, issued, audits, claims>>
work == <<gone, held>>
scan == <<pc, tick, cur>>
clock == <<now, watched>>
vars == <<rows, sched, missed, work, scan, clock, events>>

\* _operation_type_for
TypeOf(type) == IF type = "backup" THEN "Backup" ELSE "Cleanup"

RunRequest(x) ==
    [type |-> TypeOf(x.row.type), world |-> x.row.world, key |-> <<x.id, x.due>>,
     subject |-> None, initial |-> "Queued", bypass |-> FALSE]

DirectRequest(type, w) ==
    [type |-> type, world |-> w, key |-> None, subject |-> None,
     initial |-> IF type = "DeleteWorld" THEN "Queued" ELSE "Running", bypass |-> FALSE]

Ops == INSTANCE OperationService WITH
           Keys <- Ids \X Time, Subjects <- {},
           Requests <- {DirectRequest(t, w) : t \in DirectTypes, w \in Worlds}

Unborn == [exists |-> FALSE, deleted |-> FALSE, world |-> None, type |-> "backup",
           plan |-> [kind |-> "daily", days |-> 1, at |-> 0], enabled |-> FALSE,
           version |-> 0, changed |-> 0]

NoTick == [now |-> 0, todo |-> {}]
NoRun == [id |-> None, row |-> Unborn, due |-> 0]

Init ==
    /\ Ops!Init
    /\ sched = [s \in Ids |-> Unborn]
    /\ missed = {} /\ gone = {} /\ held = {}
    /\ pc = "idle" /\ tick = NoTick /\ cur = NoRun
    /\ now = 0 /\ watched = {}
    /\ events = 0

-----------------------------------------------------------------------------
(* What is due.                                                            *)

\* The rows _enabled_schedules and _schedule_for_dispatch find.
Enabled(row) == row.exists /\ row.enabled /\ ~row.deleted

\* Mutated form: today's time of day is taken, whether or not it has come.
ExpectedToday(row, t) == (t \div Day) * Day + row.plan.at

\* _expected_run_at: the newest run that is due at t, or 0.  All kinds of the
\* calendar fire every day.
Expected(row, t) ==
    LET period == row.plan.days * Day
        elapsed == t - row.changed
        candidate == t - ((t - row.plan.at) % Day)
    IN  IF row.plan.kind = "every_n_days"
        THEN IF elapsed < period THEN 0 ELSE row.changed + (elapsed \div period) * period
        ELSE IF candidate <= row.changed THEN 0 ELSE candidate

\* _has_recorded
Recorded(s, e) == \E m \in missed : m.id = s /\ m.at = e

\* _has_run_operation
HasRow(s, e) == \E i \in Ops!OpId : ops[i].status # "Absent" /\ ops[i].key = <<s, e>>

\* Mutated form: only the missed runs are looked up.
KnownIfMissed(s, e) == Recorded(s, e)

Known(s, e) == Recorded(s, e) \/ HasRow(s, e)

\* _has_schedule_conflict
Contended(w) ==
    \E i \in Ops!InFlightOps : /\ ops[i].world = w
                               /\ ops[i].type \in {"Backup", "Restore", "Cleanup"}

-----------------------------------------------------------------------------
(* The scheduler's thread.                                                 *)

Event == events < MaxEvents /\ events' = events + 1

Step(label, tk, run) == pc' = label /\ tick' = tk /\ cur' = run

StartTick ==
    /\ pc = "idle"
    /\ Step("scan", [now |-> now,
                     todo |-> {[id |-> s, row |-> sched[s], due |-> 0] :
                                 s \in {q \in Ids : Enabled(sched[q])}}], NoRun)
    /\ UNCHANGED <<rows, sched, missed, work, clock, events>>

\* The next schedule of the list, in any order: a run that is due and neither
\* queued nor recorded yet is looked at again.
Examine(x) ==
    LET e == Expected(x.row, tick.now)
        rest == [tick EXCEPT !.todo = @ \ {x}]
    IN
    /\ pc = "scan"
    /\ IF e = 0 \/ Known(x.id, e) THEN Step("scan", rest, NoRun)
                                 ELSE Step("reread", rest, [x EXCEPT !.due = e])
    /\ UNCHANGED <<rows, sched, missed, work, clock, events>>

\* Mutated form: the row is read again, but only to see whether it is enabled.
StillEnabled(run) == Enabled(sched[run.id])

\* _schedule_for_dispatch: the schedule still expects the run.
StillDue(run) ==
    Enabled(sched[run.id]) /\ Expected(sched[run.id], tick.now) = run.due

Reread ==
    /\ pc = "reread"
    /\ IF StillDue(cur) THEN Step("conflict", tick, [cur EXCEPT !.row = sched[cur.id]])
                        ELSE Step("scan", tick, NoRun)
    /\ UNCHANGED <<rows, sched, missed, work, clock, events>>

CheckConflict ==
    /\ pc = "conflict"
    /\ Step(IF Contended(cur.row.world) THEN "record" ELSE "create", tick, cur)
    /\ UNCHANGED <<rows, sched, missed, work, clock, events>>

\* The engine's own policy may still refuse the run.
Dispatch ==
    LET r == RunRequest(cur) IN
    /\ pc = "create"
    /\ IF Ops!Admissible(r)
       THEN Ops!Create(r) /\ Step("scan", tick, NoRun)
       ELSE UNCHANGED rows /\ Step("record", tick, cur)
    /\ UNCHANGED <<sched, missed, work, clock, events>>

\* _record_missed
RecordMissed ==
    /\ pc = "record"
    /\ missed' = IF Recorded(cur.id, cur.due) THEN missed
                 ELSE missed \cup {[id |-> cur.id, at |-> cur.due, resolution |-> "pending"]}
    /\ Step("scan", tick, NoRun)
    /\ UNCHANGED <<rows, sched, work, clock, events>>

\* A transaction fails, for instance because another thread has one open on the shared
\* writer, or a publication after it does: the exception ends the tick.
AbortTick ==
    /\ pc \in {"scan", "create", "record"} /\ Event
    /\ Step("idle", NoTick, NoRun)
    /\ UNCHANGED <<rows, sched, missed, work, clock>>

EndTick ==
    /\ pc = "scan" /\ tick.todo = {}
    /\ watched' = watched \cup {tick.now}
    /\ Step("idle", NoTick, NoRun)
    /\ UNCHANGED <<rows, sched, missed, work, now, events>>

-----------------------------------------------------------------------------
(* Clients edit schedules.  An edit commits only upon the version it was   *)
(* made for, which its transaction compares, so it is one step.            *)

Given(row, x) == [row EXCEPT !.world = x.world, !.type = x.type, !.plan = x.plan,
                             !.enabled = x.enabled, !.version = @ + 1, !.changed = now]

\* create_schedule
CreateSchedule(s, x) ==
    /\ pc # "down" /\ ~sched[s].exists
    /\ x.world \notin gone
    /\ sched' = [sched EXCEPT ![s] = Given([@ EXCEPT !.exists = TRUE], x)]
    /\ UNCHANGED <<rows, missed, work, scan, clock, events>>

Edit(s) ==
    /\ pc # "down" /\ sched[s].exists /\ ~sched[s].deleted
    /\ Event
    /\ UNCHANGED <<rows, missed, work, scan, clock>>

\* update_schedule; a world is looked up only when the edit names it.
UpdateSchedule(s, x) ==
    /\ Edit(s)
    /\ x.world \in gone => x.world = sched[s].world
    /\ sched' = [sched EXCEPT ![s] = Given(@, x)]

\* delete_schedule leaves last_changed_at alone.
DeleteSchedule(s) ==
    /\ Edit(s)
    /\ sched' = [sched EXCEPT ![s].deleted = TRUE, ![s].enabled = FALSE,
                              ![s].version = @ + 1]

\* resolve_missed_run
Resolve(m, resolution) ==
    /\ pc # "down" /\ m.resolution = "pending"
    /\ Event
    /\ missed' = (missed \ {m}) \cup {[m EXCEPT !.resolution = resolution]}
    /\ UNCHANGED <<rows, sched, work, scan, clock>>

-----------------------------------------------------------------------------
(* Everything else that uses the engine, and the manager.                  *)

\* A backup, restore or cleanup runs in the thread that asked for it, a deletion
\* waits for the dispatcher.
BeginDirect(type, w) ==
    /\ pc # "down" /\ w \notin gone /\ issued < MaxOps
    /\ Ops!Admissible(DirectRequest(type, w))
    /\ Cardinality({i \in Ops!OpId : ops[i].status # "Absent" /\ ops[i].key = None}) < MaxDirect
    /\ Ops!Create(DirectRequest(type, w))
    /\ held' = held \cup {issued + 1}
    /\ UNCHANGED <<sched, missed, gone, scan, clock, events>>

\* Nobody takes the rows of schedules: the dispatcher knows starts, stops, kills
\* and the mutations of worlds.
EndDirect(i, st) ==
    /\ pc # "down" /\ i \in held
    /\ held' = held \ {i}
    /\ IF Ops!Transitionable(i) THEN Ops!Transition(i, st) ELSE UNCHANGED rows
    /\ gone' = IF /\ ops[i].type = "DeleteWorld" /\ st = "Completed"
                  /\ Ops!Transitionable(i)
               THEN gone \cup {ops[i].world} ELSE gone
    /\ UNCHANGED <<sched, missed, scan, clock, events>>

\* The manager goes down; the dispatcher will take up the deletions.
Crash ==
    /\ pc # "down" /\ Event
    /\ held' = {i \in held : ops[i].type = "DeleteWorld"}
    /\ Step("down", NoTick, NoRun)
    /\ UNCHANGED <<rows, sched, missed, gone, clock>>

Boot ==
    /\ pc = "down"
    /\ Step("idle", NoTick, NoRun)
    /\ UNCHANGED <<rows, sched, missed, work, clock, events>>

\* A tick takes much less than a unit and comes every 30 seconds, so while the manager
\* is up each instant is over only after a tick for it.
Advance ==
    /\ now < MaxTime
    /\ pc = "down" \/ (pc = "idle" /\ now \in watched)
    /\ now' = now + 1
    /\ UNCHANGED <<rows, sched, missed, work, scan, watched, events>>

Scheduler ==
    \/ StartTick \/ Reread \/ CheckConflict \/ Dispatch \/ RecordMissed
    \/ AbortTick \/ EndTick
    \/ \E x \in tick.todo : Examine(x)

Users ==
    \/ \E s \in Ids, x \in Settings : CreateSchedule(s, x) \/ UpdateSchedule(s, x)
    \/ \E s \in Ids : DeleteSchedule(s)
    \/ \E m \in missed, resolution \in {"resolved", "ignored"} : Resolve(m, resolution)
    \/ \E type \in DirectTypes, w \in Worlds : BeginDirect(type, w)
    \/ \E i \in held, st \in {"Completed", "Failed"} : EndDirect(i, st)

Next == Scheduler \/ Users \/ Crash \/ Boot \/ Advance

Spec == Init /\ [][Next]_vars

-----------------------------------------------------------------------------
(* Properties.                                                             *)

Run == [id : Ids \cup {None}, due : Time,
        row : [exists : BOOLEAN, deleted : BOOLEAN, world : Worlds \cup {None},
               type : {"backup", "cleanup", "maintenance"}, plan : Plans,
               enabled : BOOLEAN, version : Nat, changed : Time]]

\* Type invariant.  No run is recorded before it is due, and a deleted schedule is off.
TypeOK ==
    /\ Ops!TypeOK
    /\ \A s \in Ids : [id |-> s, row |-> sched[s], due |-> 0] \in Run
    /\ \A s \in Ids : sched[s].deleted => sched[s].exists /\ ~sched[s].enabled
    /\ missed \subseteq [id : Ids, at : 1 .. now,
                         resolution : {"pending", "resolved", "ignored"}]
    /\ gone \subseteq Worlds /\ held \subseteq 1 .. issued
    /\ pc \in {"idle", "scan", "reread", "conflict", "create", "record", "down"}
    /\ tick.now \in Time /\ tick.todo \subseteq Run
    /\ cur \in Run
    /\ now \in Time /\ watched \subseteq 0 .. now

\* The runs a plan calls for after its last change: every "days" days from the change
\* on, or at a time of day.
Occurrences(row) ==
    {t \in Time : /\ t > row.changed
                  /\ IF row.plan.kind = "every_n_days"
                     THEN (t - row.changed) % (row.plan.days * Day) = 0
                     ELSE t % Day = row.plan.at}

\* A run is queued once or recorded as missed once and never both, whatever ticks,
\* edits, failures and restarts come in between: a missed run is never replayed
\* (document 8 section 4).
OneOutcome ==
    \A s \in Ids, e \in Time :
        Cardinality({i \in Ops!OpId : ops[i].status # "Absent" /\ ops[i].key = <<s, e>>})
        + Cardinality({m \in missed : m.id = s /\ m.at = e}) <= 1

\* Once a tick is over, the newest run of every enabled schedule that was due is queued
\* or recorded, although the tick works on rows it has read before and gives up at the
\* first failing transaction (document 8 section 4).
RunsAreHandled ==
    \A s \in Ids, t \in watched :
        LET due == {e \in Occurrences(sched[s]) : e <= t}
        IN  Enabled(sched[s]) /\ due # {} => Known(s, Max(due))

\* The scheduler neither forgets the newest run nor does one twice.
RunsAreDecidedOnce == OneOutcome /\ RunsAreHandled

\* What a tick queues or records was due by the settings the schedule has, unless an
\* edit has come in the instant since the tick read them again.
OnlyDueRuns ==
    [][\A s \in Ids, e \in Time :
          ~Known(s, e) /\ Known(s, e)' /\ cur.row.version = sched[s].version
          => /\ Enabled(sched[s]) /\ e \in Occurrences(sched[s]) /\ e <= now
             /\ \A later \in Occurrences(sched[s]) : later <= e \/ later > now]_vars
=============================================================================
