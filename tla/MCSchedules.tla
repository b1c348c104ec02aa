----------------------------- MODULE MCSchedules -----------------------------
(* A small instance of Schedules: days of two units.                         *)
EXTENDS Schedules, TLC

CONSTANTS w1, s1, s2

MCWorlds == {w1}
MCIds == {s1, s2}

Daily == [kind |-> "daily", days |-> 1, at |-> 1]
Periodic == [kind |-> "every_n_days", days |-> 1, at |-> 0]

MCSettings ==
    {[world |-> w1, type |-> "backup", plan |-> Daily, enabled |-> TRUE]}
    \cup {[world |-> None, type |-> "cleanup", plan |-> Periodic, enabled |-> b] : b \in BOOLEAN}

\* Schedules differ only in what clients make them.
Interchangeable == Permutations(MCIds)
=============================================================================
