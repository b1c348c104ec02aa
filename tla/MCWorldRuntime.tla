---------------------------- MODULE MCWorldRuntime ----------------------------
(* Small instances of the world runtime for TLC.                           *)
EXTENDS WorldRuntime, TLC

CONSTANTS w1, c1, c2, p1, p2

\* Room for the record of every crash: when the clients' rows have run out, a world has an
\* open session and the one of a start in flight, and each poller may find either gone.
ASSUME RoomForCrashes ==
    MaxOps >= MaxRequests + 2 * Cardinality(Worlds) * Cardinality(Pollers)

\* Every server that is killed dies within the deadline.
KillsSettle == FaultKinds \ {"terminate"}

\* Threads of a kind differ in nothing; for the runs without temporal properties.
Interchangeable == Permutations({c1, c2}) \cup Permutations({p1, p2})
=============================================================================
