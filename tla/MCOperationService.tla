-------------------------- MODULE MCOperationService --------------------------
(* Small instances of the operation engine for TLC.                        *)
EXTENDS OperationService

CONSTANTS w1, k1, s1

\* The callers of create_with_replay, by the arguments they pass.
Call(type, world, key, subject, initial, bypass) ==
    [type |-> type, world |-> world, key |-> key, subject |-> subject,
     initial |-> initial, bypass |-> bypass]

\* enqueue_start, enqueue_stop, enqueue_kill
RuntimeCalls == {Call(type, w1, k1, None, "Queued", FALSE) : type \in RuntimeTypes}
\* SchedulerService.tick
ScheduleCalls == {Call(type, w1, k1, None, "Queued", FALSE) : type \in {"Backup", "Cleanup"}}
\* a restore request, and the compensating one of a failed restart
RestoreCalls == {Call("Restore", w1, None, None, "Queued", b) : b \in BOOLEAN}
\* dispatch_sync
SyncCalls == {Call("Sync", w1, None, s1, "Running", TRUE)}
\* enqueue_world_mutation; accept_eula and _record_crash pass what a deletion passes
MutationCalls == {Call("DeleteWorld", w1, k1, None, "Queued", TRUE),
                  Call("CreateWorld", None, k1, None, "Queued", FALSE)}
\* edits of the configuration
EditCalls == {Call("ConfigEdit", w1, None, None, "Queued", FALSE)}

OneWorld == {w1}
OneKey == {k1}
OneSubject == {s1}

AllCalls == RuntimeCalls \cup ScheduleCalls \cup RestoreCalls \cup SyncCalls
                \cup MutationCalls \cup EditCalls
=============================================================================
