---------------------------- MODULE WorldLifecycle ----------------------------
(***************************************************************************)
(* The world state machine of app/domain/lifecycle.py.  Every change of a  *)
(* world's state that goes through transition_world is a Transition step,  *)
(* its deletion a Tombstone step; a refused one raises and changes nothing.*)
(***************************************************************************)
CONSTANTS Worlds,  \* world ids
          None     \* no pre_backup_state

VARIABLES state,    \* the state of each world
          before,   \* pre_backup_state
          deleted   \* the worlds with a deletion time

vars == <<state, before, deleted>>

States == {"off", "queued", "starting", "running", "stopping", "backing_up",
           "restoring", "crashed", "error", "eula_required"}

Intents == {"ordinary", "crash_acknowledgement", "error_acknowledgement",
            "eula_acceptance"}

\* Mutated form: a crash is accepted while the server is started or stopped.
SuccessorsCrash ==
    [off           |-> {"queued", "backing_up", "restoring", "eula_required"},
     queued        |-> {"off", "starting"},
     starting      |-> {"running", "error", "crashed"},
     running       |-> {"stopping", "backing_up", "crashed"},
     stopping      |-> {"off", "crashed"},
     restoring     |-> {"off", "error"},
     backing_up    |-> {"off", "running", "error"},
     crashed       |-> {"off"},
     error         |-> {"off"},
     eula_required |-> {"off"}]

\* The table of ordinary successors.
Successors ==
    [off           |-> {"queued", "backing_up", "restoring", "eula_required"},
     queued        |-> {"off", "starting"},
     starting      |-> {"running", "error"},
     running       |-> {"stopping", "backing_up", "crashed"},
     stopping      |-> {"off"},
     restoring     |-> {"off", "error"},
     backing_up    |-> {"off", "running", "error"},
     crashed       |-> {"off"},
     error         |-> {"off"},
     eula_required |-> {"off"}]

\* Three states are left for off only with the operator's explicit intent.
ExitIntent == [s \in States |->
    CASE s = "crashed"       -> "crash_acknowledgement"
      [] s = "error"         -> "error_acknowledgement"
      [] s = "eula_required" -> "eula_acceptance"
      [] OTHER               -> "ordinary"]

Init ==
    /\ state = [w \in Worlds |-> "off"]
    /\ before = [w \in Worlds |-> None]
    /\ deleted = {}

-----------------------------------------------------------------------------
\* A backup ends in the state it found the world in, or in error.
BackupExit(w, new) ==
    (state[w] = "backing_up" /\ new # "backing_up") => new \in {before[w], "error"}

\* transition_world accepts the new state and the intent.
Permitted(w, new, intent) ==
    /\ w \notin deleted
    /\ new = state[w] \/ new \in Successors[state[w]]
    /\ intent = IF new = "off" THEN ExitIntent[state[w]] ELSE "ordinary"
    /\ BackupExit(w, new)

Transition(w, new, intent) ==
    /\ Permitted(w, new, intent)
    /\ state' = [state EXCEPT ![w] = new]
    /\ before' = [before EXCEPT ![w] =
                     IF new # "backing_up" THEN None
                     ELSE IF state[w] = "backing_up" THEN @ ELSE state[w]]
    /\ UNCHANGED deleted

\* Only an off world can be deleted, once.
Deletable(w) == w \notin deleted /\ state[w] = "off"

Tombstone(w) ==
    /\ Deletable(w)
    /\ deleted' = deleted \cup {w}
    /\ UNCHANGED <<state, before>>

Next ==
    \E w \in Worlds :
        \/ \E new \in States, intent \in Intents : Transition(w, new, intent)
        \/ Tombstone(w)

Spec == Init /\ [][Next]_vars

-----------------------------------------------------------------------------
\* What validate_world_instance demands of every world the lifecycle produces: a
\* backup remembers an off or running world, and a deleted world is off.
TypeOK ==
    /\ state \in [Worlds -> States]
    /\ before \in [Worlds -> {"off", "running", None}]
    /\ \A w \in Worlds : /\ state[w] = "backing_up" => before[w] \in {"off", "running"}
                         /\ state[w] # "backing_up" => before[w] = None
    /\ deleted \subseteq {w \in Worlds : state[w] = "off"}

\* The states in which the world's server may be up, a backup counting as the
\* state it interrupted.
Up(w) ==
    \/ state[w] \in {"starting", "running", "stopping"}
    \/ state[w] = "backing_up" /\ before[w] = "running"

\* A server is given up only by stopping it or by a failure: no sequence of backups
\* and other legal transitions takes a world from running to off behind its back,
\* and none brings one up except a start (transition_world with the table).
ServersAreStopped ==
    [][\A w \in Worlds :
          /\ Up(w) /\ ~Up(w)' => state[w] = "stopping" \/ state'[w] \in {"crashed", "error"}
          /\ ~Up(w) /\ Up(w)' => state[w] = "queued" /\ state'[w] = "starting"]_vars
=============================================================================
