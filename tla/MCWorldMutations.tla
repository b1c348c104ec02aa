--------------------------- MODULE MCWorldMutations ---------------------------
(* Small instances of WorldMutations: one world exists, one may be created.     *)
EXTENDS WorldMutations, TLC

CONSTANTS w1, w2, n1, n2, p1, p2, f1, f2, x1, c1, c2

MCWorlds == {w1, w2}
MCNames == {n1, n2}
MCPorts == {p1, p2}
MCPaths == {f1, f2}
MCContents == {x1}
MCFirstWorlds == w1 :> [name |-> n1, port |-> p1]

\* One file in the directory of the first world.
MCFirstFiles == [n \in MCNames |-> [f \in MCPaths |->
                     IF n = n1 /\ f = f1 THEN x1 ELSE None]]

MetadataKinds == {"create", "delete", "config", "rename", "start", "stop"}
FileKinds == {"move", "copy", "rename", "delete"}

\* Clients differ in nothing; for the runs without temporal properties.
Interchangeable == Permutations({c1, c2})
=============================================================================
