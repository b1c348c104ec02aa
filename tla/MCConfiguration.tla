--------------------------- MODULE MCConfiguration ---------------------------
(* Small instances of Configuration: a Java runtime and settings of the manager *)
(* that exist, a template, a role and another runtime that may be created, and  *)
(* a world that has no settings of its own yet; or one template.                *)
EXTENDS Configuration, TLC

CONSTANTS c1, c2, j1, j2, t1, r1, g1, w1, n1, n2

MCKind == j1 :> "runtime" @@ j2 :> "runtime" @@ t1 :> "template" @@ r1 :> "role"
          @@ g1 :> "global" @@ w1 :> "world"
MCFirstRows == j1 :> n1 @@ g1 :> None

MCTemplate == t1 :> "template"
MCFirstTemplate == t1 :> n1

Interchangeable == Permutations({c1, c2})
=============================================================================
