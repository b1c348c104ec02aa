------------------------ MODULE WorldMutationsProofs ------------------------
(***************************************************************************)
(* Theorems about the requests that change worlds and their files, for any *)
(* worlds, clients, contents and bounds.                                   *)
(***************************************************************************)
EXTENDS WorldMutations, Integers, WellFoundedInduction, FiniteSetTheorems, TLAPS

-----------------------------------------------------------------------------
(* The rows of requests.                                                   *)

\* What a request of each kind carries.
Asks(d) ==
    /\ d \in RowData /\ d.kind \in DOMAIN TypeOf /\ d.world \in Worlds
    /\ d.kind \in {"create", "rename"} => d.name \in Names
    /\ d.kind \in {"create", "config"} => d.port \in Ports
    /\ d.kind = "create" => d.version = 0
    /\ d.kind \in FileEdits => d.name \in Names /\ d.from \in Paths /\ d.to \in Paths

Versioned == {"delete", "config", "rename"}

\* But for a creation, a request is about a world its client has seen live.
Seen(d) ==
    d.kind # "create" =>
        /\ world[d.world].exists
        /\ d.kind \in Versioned =>
              /\ d.version <= world[d.world].version
              /\ world[d.world].deleted => d.version < world[d.world].version

\* The world the engine's row names: a creation's is drawn, but not named before it exists.
Named(d) == IF d.kind = "create" /\ ~world[d.world].exists THEN None ELSE d.world

RowsOK ==
    /\ Ops!TypeOK
    /\ data \in [1 .. MaxOps -> RowData]
    /\ \A i \in Rows :
          /\ Asks(data[i]) /\ Seen(data[i])
          /\ ops[i].type = TypeOf[data[i].kind] /\ ops[i].world = Named(data[i])

\* Nobody else has drawn the world.
Fresh(t, w) ==
    /\ ~world[w].exists
    /\ \A i \in Rows : data[i].world # w
    /\ \A s \in Threads \ {t} : at[s].data.world # w

\* No two creations draw the same world.
DrawnOnce ==
    /\ \A i, j \in Rows :
          data[i].kind = "create" /\ data[j].kind = "create" /\ data[i].world = data[j].world
          => i = j
    /\ \A t \in Clients :
          pc[t] = "submit" /\ at[t].data.kind = "create" => Fresh(t, at[t].data.world)

-----------------------------------------------------------------------------
(* The worlds and the changes made to them.                                *)

WorldsOK ==
    /\ world \in [Worlds -> WorldRow]
    /\ \A w \in Worlds : /\ world[w].exists => /\ world[w].name \in Names
                                               /\ world[w].port \in Ports
                         /\ ~world[w].exists => world[w] = Unborn
    /\ \A w \in Worlds : Live(w) => NameFree(w, world[w].name) /\ PortFree(w, world[w].port)

Altering == {"create", "delete", "config", "rename"}

\* A world is as its last change left it, but for its state.
Latest(c) ==
    LET row == world[c.world] IN
    /\ c.row.version = row.version /\ c.row.name = row.name /\ c.row.port = row.port
    /\ c.row.deleted = row.deleted

\* The changes of a world are numbered from one, without gaps;
Numbered(c) ==
    /\ world[c.world].exists /\ c.row.exists
    /\ c.row.version \in 1 .. world[c.world].version
    /\ c.row.version > 1 =>
          \E e \in commits : e.world = c.world /\ e.row.version = c.row.version - 1

\* each but the first of those that exist at first has been asked for by its row.
Asked(c) ==
    c.op # 0 =>
       LET d == data[c.op] IN
       /\ c.op \in Rows /\ d.kind \in Altering
       /\ c.world = d.world /\ c.row.version = d.version + 1 /\ Grants(c.row, d)
       /\ d.kind = "create" => c.row = Created(d)
       /\ d.kind = "config" => ~c.row.deleted

HistoryOK ==
    /\ commits \subseteq [op : 0 .. MaxOps, world : Worlds, row : WorldRow]
    /\ \A w \in Worlds : world[w].exists => \E c \in commits : c.world = w /\ Latest(c)
    /\ \A c \in commits : Numbered(c) /\ Asked(c)
    /\ \A c, e \in commits : c.world = e.world /\ c.row.version = e.row.version => c = e

-----------------------------------------------------------------------------
(* The threads.                                                            *)

\* The points at which a thread has a row in hand.
InHand == {"rename", "write", "runtime", "apply", "stage", "replace", "complete", "fail"}

PointsOf(t) == IF t \in Clients
               THEN {"idle", "submit", "upload", "rename", "write", "complete", "fail"}
               ELSE {"idle", "runtime", "pass", "apply", "stage", "replace", "complete", "fail"}

\* The local variables of a thread go with its point.
FitsAs(t, p, a) ==
    /\ p \in PointsOf(t)
    /\ p = "idle" => a = NoArgs
    /\ p = "submit" => Asks(a.data) /\ Seen(a.data)
    /\ p = "upload" => a.data.name \in Names /\ a.data.to \in Paths /\ a.staged \in Contents
                       /\ a.data.world = None
    /\ p \in InHand => a.op \in Rows /\ a.data = data[a.op]
    /\ t \in Clients /\ p \in InHand => a.data.kind = "rename"
    /\ t = "worker" /\ p \in InHand => a.data.kind # "rename"
    /\ p = "runtime" => a.data.kind \in {"start", "stop"}
    /\ p = "apply" => a.data.kind \in Queued
    /\ p \in {"stage", "replace"} => a.data.kind \in FileEdits
    /\ p = "stage" => a.data.kind = "copy"
    /\ p = "replace" /\ a.data.kind = "copy" => a.staged \in Contents
    /\ t = "worker" /\ p = "pass" => a.data.kind \in Queued \cup {None}

Fits(t) == FitsAs(t, pc[t], at[t])

Args == [op : 0 .. MaxOps, data : RowData, todo : SUBSET (1 .. MaxOps),
         resumed : SUBSET (1 .. MaxOps), staged : Contents \cup {None}, since : Nat]

ThreadsOK ==
    /\ pc \in [Threads -> {"idle", "submit", "upload", "rename", "write", "runtime", "pass",
                           "apply", "stage", "replace", "complete", "fail"}]
    /\ at \in [Threads -> Args]
    /\ \A t \in Threads : Fits(t)

\* A preview is of a world its client has seen live.
PreviewsOK ==
    /\ previews \in [Clients -> RowData]
    /\ \A c \in Clients : previews[c] # NoData =>
          previews[c].kind = "delete" /\ Asks(previews[c]) /\ Seen(previews[c])

RestOK ==
    /\ files \in [Names -> [Paths -> Contents \cup {None}]]
    /\ edits \subseteq [op : 1 .. MaxOps, life : 0 .. MaxCrashes, since : 0 .. touches]
    /\ PreviewsOK
    /\ touches \in Nat /\ crashes \in 0 .. MaxCrashes
    /\ at["worker"].since <= touches

-----------------------------------------------------------------------------
(* Who works on which row.                                                 *)

\* A row in hand is running, but for that of a rename about to run; the rows a pass has
\* left to look at are still to be applied.
HoldsAs(t, p, a) ==
    /\ p \in InHand => ops[a.op].status = IF p = "rename" THEN "Queued" ELSE "Running"
    /\ t = "worker" =>
          \A i \in a.todo :
             /\ i \in Rows /\ data[i].kind \in Queued
             /\ ops[i].status \in {"Queued", "Running"}
             /\ i \in a.resumed => ops[i].status = "Running"
             /\ p \in InHand => i # a.op

Held ==
    /\ \A t \in Threads : HoldsAs(t, pc[t], at[t])
    /\ \A s, t \in Clients : pc[s] \in InHand /\ pc[t] \in InHand /\ at[s].op = at[t].op => s = t

\* But for renames, one row of a world runs at a time.
OneRuns ==
    \A i, j \in Rows :
        /\ ops[i].status = "Running" /\ ops[j].status = "Running"
        /\ data[i].kind # "rename" /\ data[j].kind # "rename"
        /\ ops[i].world = ops[j].world /\ ops[i].world # None
        => i = j

RenamedSince(c) ==
    \E e \in commits : /\ e.world = c.world /\ e.row.version > c.row.version
                       /\ e.op # 0 /\ data[e.op].kind = "rename"

Granted(i) ==
    \E c \in commits : /\ c.world = data[i].world
                       /\ c.row.version = data[i].version + 1
                       /\ Grants(c.row, data[i])

\* What a thread is about to report of its row is true.
TellsAs(t, p, a) ==
    /\ p = "write" => CommitsOf(a.op) = {}
    /\ p = "complete" /\ a.data.kind \in Altering => Granted(a.op)
    /\ p = "fail" => \A c \in CommitsOf(a.op) : RenamedSince(c)

\* What a row has changed, as far as it has come.
RowTells(i) ==
    /\ ops[i].status = "Queued" => CommitsOf(i) = {}
    /\ \A c \in CommitsOf(i) :
          /\ data[i].kind # "rename" /\ ops[i].status = "Running" =>
                world[c.world] = c.row \/ RenamedSince(c)
          /\ ops[i].status = "Failed" => RenamedSince(c)
    /\ ops[i].status = "Completed" /\ data[i].kind \in Altering => Granted(i)

Truthful == (\A i \in Rows : RowTells(i)) /\ \A t \in Threads : TellsAs(t, pc[t], at[t])

\* The target the dispatcher has found free stays so until a client writes.
Vacant ==
    LET a == at["worker"] IN
    pc["worker"] \in {"stage", "replace"} /\ a.since = touches => files[a.data.name][a.data.to] = None

-----------------------------------------------------------------------------
(* What a step may do to the tables.                                       *)

Counting == audits' \in [Ops!OpId -> Nat] /\ claims' \in [Ops!OpId -> Nat]

\* create_with_replay inserts the row of a client's request.
Opens(c) ==
    /\ pc[c] = "submit" /\ Ops!Create(OpRequest(at[c].data))
    /\ data' = [data EXCEPT ![issued + 1] = at[c].data]
    /\ UNCHANGED <<world, commits>>

\* A row is claimed, a rename runs, or a thread ends its row.
Turns(i, st) ==
    /\ i \in Rows /\ ops' = [ops EXCEPT ![i].status = st]
    /\ \/ /\ st = "Running" /\ ops[i].status = "Queued"
          /\ data[i].kind = "rename" \/ Ops!Claimable(i)
       \/ /\ st \in {"Completed", "Failed"} /\ ops[i].status = "Running"
          /\ \E t \in Threads : /\ at[t].op = i
                                /\ pc[t] = IF st = "Completed" THEN "complete" ELSE "fail"
    /\ UNCHANGED <<issued, data, world, commits>>

\* The dispatcher starts or stops the world of a row.
Switches(i, s) ==
    LET w == data[i].world IN
    /\ i \in Rows /\ data[i].kind \in {"start", "stop"} /\ ops[i].status = "Running"
    /\ Live(w) /\ s \in {"off", "running"}
    /\ world' = [world EXCEPT ![w].state = s]
    /\ UNCHANGED <<ops, issued, data, commits>>

\* The world as a request leaves it.
Edited(d) ==
    CASE d.kind = "rename" -> Renamed(d.world, d.name)
      [] d.kind = "delete" -> [world[d.world] EXCEPT !.deleted = TRUE, !.version = @ + 1]
      [] d.kind = "config" -> [world[d.world] EXCEPT !.port = d.port, !.version = @ + 1]

\* A deletion, a configuration or a rename is carried out.
Changes(i) ==
    LET d == data[i]  w == d.world IN
    /\ i \in Rows /\ d.kind \in Versioned /\ ops[i].status = "Running"
    /\ world[w].version = d.version
    /\ d.kind \in {"delete", "config"} => Live(w) /\ world[w].state = "off"
    /\ d.kind = "rename" => NameFree(w, d.name) /\ \E c \in Clients : pc[c] = "write" /\ at[c].op = i
    /\ d.kind = "config" => PortFree(w, d.port)
    /\ Commit(i, w, Edited(d))
    /\ UNCHANGED <<ops, issued, data>>

\* A creation is carried out, and its row gets the world.
Creates(i) ==
    LET d == data[i]  w == d.world IN
    /\ i \in Rows /\ d.kind = "create" /\ ops[i].status = "Running"
    /\ ~world[w].exists /\ NameFree(w, d.name) /\ PortFree(w, d.port)
    /\ Commit(i, w, Created(d)) /\ ops' = Adopted(i, w)
    /\ UNCHANGED <<issued, data>>

TablesSame == UNCHANGED <<ops, issued, data, world, commits>>

\* What is done to row i.
RowStep(i) ==
    \/ \E st \in {"Running", "Completed", "Failed"} : Turns(i, st)
    \/ \E s \in {"off", "running"} : Switches(i, s)
    \/ Changes(i)
    \/ Creates(i)

TablesStep ==
    Counting /\ (TablesSame \/ (\E c \in Clients : Opens(c)) \/ \E i \in Rows : RowStep(i))

\* Worlds are not forgotten, and their versions grow with every change but of their state.
WorldsGrow ==
    \A w \in Worlds :
        /\ world[w].exists => world'[w].exists
        /\ world[w].version <= world'[w].version
        /\ world'[w].deleted /\ world[w].version = world'[w].version => world[w].deleted

RowsGrow ==
    /\ issued' \in Nat /\ issued <= issued'
    /\ \A i \in Rows : data'[i] = data[i]

-----------------------------------------------------------------------------
(* The operation rows.                                                     *)

\* The kinds of requests, and the types of their rows.
LEMMA KindTypes ==
    /\ DOMAIN TypeOf = {"create", "delete", "config", "rename", "move", "copy", "start", "stop"}
    /\ TypeOf["create"] = "CreateWorld" /\ TypeOf["delete"] = "DeleteWorld"
    /\ \A k \in {"config", "rename", "move", "copy"} : TypeOf[k] = "ConfigEdit"
    /\ TypeOf["start"] = "Start" /\ TypeOf["stop"] = "Stop"
BY DEF TypeOf

\* What a request asks the engine for.
LEMMA RequestFields ==
    ASSUME NEW d \in RowData, Asks(d)
    PROVE  LET r == OpRequest(d) IN
           /\ r.type = TypeOf[d.kind] /\ r.key = None /\ r.subject = None /\ r.initial = "Queued"
           /\ r.world = IF d.kind = "create" THEN None ELSE d.world
           /\ r.bypass \in BOOLEAN
           /\ r.type \in {"CreateWorld", "DeleteWorld", "ConfigEdit", "Start", "Stop"}
<1>1. d.kind \in DOMAIN TypeOf
  BY DEF Asks
<1>2. TypeOf[d.kind] \in {"CreateWorld", "DeleteWorld", "ConfigEdit", "Start", "Stop"}
  BY <1>1, KindTypes
<1>3. OpRequest(d).bypass = (TypeOf[d.kind] \in {"ConfigEdit", "DeleteWorld"})
  BY DEF OpRequest
<1>4. OpRequest(d).bypass \in BOOLEAN
  BY <1>3
<1>5. QED
  BY <1>2, <1>4 DEF OpRequest

\* The numbers of rows.
LEMMA RowNumbers ==
    ASSUME RowsOK
    PROVE  /\ MaxOps \in Nat \ {0} /\ issued \in 0 .. MaxOps
           /\ Rows \subseteq Ops!OpId /\ Ops!OpId = 1 .. MaxOps /\ issued + 1 \notin Rows
           /\ \A i \in Ops!OpId : ops[i].status # "Absent" <=> i \in Rows
<1>1. MaxOps \in Nat \ {0} /\ issued \in 0 .. MaxOps
  BY MutationAssumption DEF RowsOK, Ops!TypeOK
<1>2. Rows \subseteq Ops!OpId /\ Ops!OpId = 1 .. MaxOps /\ issued + 1 \notin Rows
  BY <1>1 DEF Ops!OpId, Rows
<1>3. \A i \in Ops!OpId : ops[i].status = "Absent" <=> i > issued
  BY DEF RowsOK, Ops!TypeOK
<1>4. QED
  BY <1>1, <1>2, <1>3 DEF Rows

\* The fields of a row.
LEMMA RowFields ==
    ASSUME RowsOK, NEW i \in Ops!OpId
    PROVE  /\ ops[i] \in Ops!Row
           /\ ops[i].status \in Ops!InFlight \cup Ops!Terminal \cup {"Absent"}
<1>1. ops[i] \in Ops!Row
  BY DEF RowsOK, Ops!TypeOK
<1>2. QED
  BY <1>1 DEF Ops!Row

\* A row that is given another status, or its world.
LEMMA Restatus ==
    ASSUME NEW x \in Ops!Row, NEW st \in Ops!InFlight \cup Ops!Terminal
    PROVE  /\ [x EXCEPT !.status = st] \in Ops!Row
           /\ [x EXCEPT !.status = st].status = st
           /\ [x EXCEPT !.status = st].type = x.type
           /\ [x EXCEPT !.status = st].world = x.world
BY DEF Ops!Row

\* A row that gets its world (update_fields of apply_create) stays a row and keeps the rest.
LEMMA Adoption ==
    ASSUME NEW x \in Ops!Row, NEW w \in Worlds
    PROVE  /\ [x EXCEPT !.world = w] \in Ops!Row
           /\ [x EXCEPT !.world = w].world = w
           /\ [x EXCEPT !.world = w].type = x.type
           /\ [x EXCEPT !.world = w].status = x.status
BY DEF Ops!Row

\* What ends or begins the work on a row does to the table.
LEMMA TurnRows ==
    ASSUME RowsOK, NEW i \in Rows, NEW st \in {"Running", "Completed", "Failed"}, Turns(i, st)
    PROVE  /\ ops' \in [Ops!OpId -> Ops!Row] /\ issued' = issued
           /\ ops'[i].type = ops[i].type /\ ops'[i].world = ops[i].world
           /\ ops'[i].status = st
           /\ \A j \in Ops!OpId \ {i} : ops'[j] = ops[j]
<1>1. i \in Ops!OpId /\ ops \in [Ops!OpId -> Ops!Row]
  BY RowNumbers DEF RowsOK, Ops!TypeOK
<1>2. st \in Ops!InFlight \cup Ops!Terminal
  BY DEF Ops!InFlight, Ops!Terminal
<1> DEFINE row == [ops[i] EXCEPT !.status = st]
<1>3. ops' = [ops EXCEPT ![i] = row] /\ issued' = issued
  BY <1>1 DEF Turns
<1>4. /\ row \in Ops!Row /\ row.status = st /\ row.type = ops[i].type
      /\ row.world = ops[i].world
  BY <1>1, <1>2, Restatus, RowFields
<1> HIDE DEF row
<1>5. QED
  BY <1>1, <1>3, <1>4

\* What creating a world does to the table of rows.
LEMMA CreateRows ==
    ASSUME RowsOK, NEW i \in Rows, Creates(i)
    PROVE  /\ ops' \in [Ops!OpId -> Ops!Row] /\ issued' = issued
           /\ ops'[i].type = ops[i].type /\ ops'[i].world = data[i].world
           /\ ops'[i].status = ops[i].status
           /\ \A j \in Ops!OpId \ {i} : ops'[j] = ops[j]
<1>1. i \in Ops!OpId /\ ops \in [Ops!OpId -> Ops!Row] /\ data[i].world \in Worlds
  BY RowNumbers DEF RowsOK, Ops!TypeOK, Asks
<1> DEFINE row == [ops[i] EXCEPT !.world = data[i].world]
<1>3. ops' = [ops EXCEPT ![i] = row] /\ issued' = issued
  BY <1>1 DEF Creates, Adopted
<1>4. /\ row \in Ops!Row /\ row.status = ops[i].status /\ row.type = ops[i].type
      /\ row.world = data[i].world
  BY <1>1, Adoption, RowFields
<1> HIDE DEF row
<1>5. QED
  BY <1>1, <1>3, <1>4

\* What create_with_replay does to the table.
LEMMA OpenRows ==
    ASSUME RowsOK, NEW c \in Clients, Opens(c), at[c].data \in RowData, Asks(at[c].data)
    PROVE  LET n == issued + 1  d == at[c].data IN
           /\ n \in Ops!OpId /\ issued' = n
           /\ ops' \in [Ops!OpId -> Ops!Row]
           /\ ops'[n].type = TypeOf[d.kind]
           /\ ops'[n].world = IF d.kind = "create" THEN None ELSE d.world
           /\ ops'[n].status = "Queued"
           /\ \A j \in Ops!OpId \ {n} : ops'[j] = ops[j] /\ data'[j] = data[j]
           /\ data' \in [1 .. MaxOps -> RowData] /\ data'[n] = d
           /\ Rows' = Rows \cup {n}
<1> DEFINE d == at[c].data
           r == OpRequest(d)
           n == issued + 1
<1>1. /\ r.type = TypeOf[d.kind] /\ r.key = None /\ r.subject = None /\ r.initial = "Queued"
      /\ r.world = IF d.kind = "create" THEN None ELSE d.world
      /\ r.bypass \in BOOLEAN
      /\ r.type \in {"CreateWorld", "DeleteWorld", "ConfigEdit", "Start", "Stop"}
      /\ r.world \in Worlds \cup {None}
  BY RequestFields DEF Asks
<1>2. issued < MaxOps /\ issued' = n
  BY DEF Opens, Ops!Create
<1>3. n \in Ops!OpId /\ Rows' = Rows \cup {n}
  BY <1>2, RowNumbers DEF Rows
<1> HIDE DEF r
<1>4. Ops!Superseded(r) = {}
  BY <1>1 DEF Ops!Superseded
<1>5. ops' = [j \in Ops!OpId |-> IF j = n THEN Ops!NewRow(r) ELSE ops[j]]
  BY <1>4 DEF Opens, Ops!Create, r
<1>6. /\ Ops!NewRow(r) \in Ops!Row /\ Ops!NewRow(r).type = r.type
      /\ Ops!NewRow(r).world = r.world /\ Ops!NewRow(r).status = "Queued"
  BY <1>1 DEF Ops!NewRow, Ops!Row, Ops!Types, Ops!InFlight
<1>7. data \in [1 .. MaxOps -> RowData] /\ data' = [data EXCEPT ![n] = d]
  BY DEF RowsOK, Opens
<1>8. ops \in [Ops!OpId -> Ops!Row]
  BY DEF RowsOK, Ops!TypeOK
<1>9. data' \in [1 .. MaxOps -> RowData] /\ data'[n] = d
      /\ \A j \in Ops!OpId \ {n} : data'[j] = data[j]
  BY <1>3, <1>7, RowNumbers
<1>10. ops' \in [Ops!OpId -> Ops!Row] /\ ops'[n] = Ops!NewRow(r)
       /\ \A j \in Ops!OpId \ {n} : ops'[j] = ops[j]
  BY <1>3, <1>5, <1>6, <1>8
<1>11. QED
  BY <1>1, <1>2, <1>3, <1>6, <1>9, <1>10

-----------------------------------------------------------------------------
(* The worlds.                                                             *)

\* A world with a field changed and its version counted up.
LEMMA NextName ==
    ASSUME NEW x \in WorldRow, NEW n \in Names
    PROVE  LET y == [x EXCEPT !.name = n, !.version = x.version + 1] IN
           /\ y \in WorldRow /\ y.version = x.version + 1 /\ y.state = x.state
           /\ y.exists = x.exists /\ y.name = n /\ y.port = x.port
           /\ y.deleted = x.deleted
<1>1. x.version + 1 \in Nat
  BY DEF WorldRow
<1>2. QED
  BY <1>1 DEF WorldRow

\* Marking a world deleted changes only its version besides.
LEMMA NextDeleted ==
    ASSUME NEW x \in WorldRow
    PROVE  LET y == [x EXCEPT !.deleted = TRUE, !.version = x.version + 1] IN
           /\ y \in WorldRow /\ y.version = x.version + 1 /\ y.state = x.state
           /\ y.exists = x.exists /\ y.name = x.name /\ y.port = x.port
           /\ y.deleted = TRUE
<1>1. x.version + 1 \in Nat
  BY DEF WorldRow
<1>2. QED
  BY <1>1 DEF WorldRow

\* Giving a world a port changes only its version besides.
LEMMA NextPort ==
    ASSUME NEW x \in WorldRow, NEW p \in Ports
    PROVE  LET y == [x EXCEPT !.port = p, !.version = x.version + 1] IN
           /\ y \in WorldRow /\ y.version = x.version + 1 /\ y.state = x.state
           /\ y.exists = x.exists /\ y.name = x.name /\ y.port = p
           /\ y.deleted = x.deleted
<1>1. x.version + 1 \in Nat
  BY DEF WorldRow
<1>2. QED
  BY <1>1 DEF WorldRow

\* What each kind of edit leaves of a world.
LEMMA EditedFields ==
    ASSUME WorldsOK, NEW d \in RowData, Asks(d), d.kind \in Versioned,
           world[d.world].version = d.version
    PROVE  LET new == Edited(d)  old == world[d.world] IN
           /\ new \in WorldRow /\ new.version = d.version + 1 /\ new.state = old.state
           /\ new.exists = old.exists
           /\ new.name = IF d.kind = "rename" THEN d.name ELSE old.name
           /\ new.port = IF d.kind = "config" THEN d.port ELSE old.port
           /\ d.kind = "delete" => new.deleted = TRUE
           /\ d.kind # "delete" => new.deleted = old.deleted
<1> DEFINE old == world[d.world]
<1>1. old \in WorldRow /\ old.version = d.version /\ d.version \in Nat
  BY DEF WorldsOK, Asks, WorldRow
<1>2. d.kind \in {"delete", "config", "rename"}
  BY DEF Versioned
<1>3. d.kind = "rename" => d.name \in Names
  BY DEF Asks
<1>4. d.kind = "config" => d.port \in Ports
  BY DEF Asks
<1> HIDE DEF old
<1>5. CASE d.kind = "rename"
  <2>0. d.name \in Names
    BY <1>3, <1>5
  <2>1. Edited(d) = [old EXCEPT !.name = d.name, !.version = old.version + 1]
    BY <1>5 DEF Edited, Renamed, old
  <2> DEFINE x == [old EXCEPT !.name = d.name, !.version = old.version + 1]
  <2>2. /\ x \in WorldRow /\ x.version = old.version + 1 /\ x.state = old.state
        /\ x.exists = old.exists /\ x.name = d.name /\ x.port = old.port
        /\ x.deleted = old.deleted
    BY <1>1, <2>0, NextName
  <2> HIDE DEF x
  <2>3. Edited(d) = x
    BY <2>1 DEF x
  <2>4. QED
    BY <1>1, <1>5, <2>2, <2>3 DEF old
<1>6. CASE d.kind = "delete"
  <2>1. Edited(d) = [old EXCEPT !.deleted = TRUE, !.version = old.version + 1]
    BY <1>6 DEF Edited, old
  <2>2. /\ Edited(d) \in WorldRow /\ Edited(d).version = d.version + 1
        /\ Edited(d).state = old.state /\ Edited(d).exists = old.exists
        /\ Edited(d).name = old.name
        /\ Edited(d).port = old.port
        /\ Edited(d).deleted = TRUE
    BY <1>1, <2>1, NextDeleted
  <2>3. QED
    BY <1>6, <2>2 DEF old
<1>7. CASE d.kind = "config"
  <2>0. d.port \in Ports
    BY <1>4, <1>7
  <2>1. Edited(d) = [old EXCEPT !.port = d.port, !.version = old.version + 1]
    BY <1>7 DEF Edited, old
  <2> DEFINE x == [old EXCEPT !.port = d.port, !.version = old.version + 1]
  <2>2. /\ x \in WorldRow /\ x.version = old.version + 1 /\ x.state = old.state
        /\ x.exists = old.exists /\ x.name = old.name /\ x.port = d.port
        /\ x.deleted = old.deleted
    BY <1>1, <2>0, NextPort
  <2> HIDE DEF x
  <2>3. Edited(d) = x
    BY <2>1 DEF x
  <2>4. QED
    BY <1>1, <1>7, <2>2, <2>3 DEF old
<1>8. QED
  BY <1>2, <1>5, <1>6, <1>7

\* An edit leaves what was asked for.
LEMMA EditedGrants ==
    ASSUME WorldsOK, NEW d \in RowData, Asks(d), d.kind \in Versioned,
           world[d.world].version = d.version
    PROVE  Grants(Edited(d), d)
<1> DEFINE new == Edited(d)
<1>1. /\ new.name = IF d.kind = "rename" THEN d.name ELSE world[d.world].name
      /\ new.port = IF d.kind = "config" THEN d.port ELSE world[d.world].port
      /\ d.kind = "delete" => new.deleted = TRUE
  BY EditedFields
<1>2. d.kind \in {"delete", "config", "rename"}
  BY DEF Versioned
<1> HIDE DEF new
<1>3. Grants(new, d)
  BY <1>1, <1>2 DEF Grants
<1>4. QED
  BY <1>3 DEF new

\* What a committed change does.
LEMMA Committed ==
    ASSUME world \in [Worlds -> WorldRow], NEW i, NEW w \in Worlds, NEW new \in WorldRow,
           Commit(i, w, new)
    PROVE  /\ world' \in [Worlds -> WorldRow] /\ world'[w] = new
           /\ \A v \in Worlds \ {w} : world'[v] = world[v]
           /\ commits' = commits \cup {[op |-> i, world |-> w, row |-> new]}
BY DEF Commit

\* The world a creation inserts.
LEMMA CreatedFields ==
    ASSUME NEW d \in RowData, Asks(d), d.kind = "create"
    PROVE  LET new == Created(d) IN
           /\ new \in WorldRow /\ new.version = 1 /\ d.version = 0 /\ new.state = "off"
           /\ new.exists = TRUE /\ new.deleted = FALSE /\ new.name = d.name /\ new.port = d.port
           /\ Grants(new, d)
<1>1. d.name \in Names /\ d.port \in Ports /\ d.version = 0
  BY DEF Asks
<1>2. Created(d) = [exists |-> TRUE, deleted |-> FALSE, name |-> d.name, port |-> d.port,
                    version |-> 1, state |-> "off"]
  BY DEF Created
<1>3. Grants(Created(d), d) = (Created(d).name = d.name /\ Created(d).port = d.port)
  BY DEF Grants
<1>4. Created(d).name = d.name /\ Created(d).port = d.port
  BY <1>2
<1>5. Grants(Created(d), d)
  BY <1>3, <1>4
<1>6. /\ Created(d) \in WorldRow /\ Created(d).version = 1 /\ Created(d).state = "off"
      /\ Created(d).exists = TRUE /\ Created(d).deleted = FALSE
  BY <1>1, <1>2 DEF WorldRow
<1>7. QED
  BY <1>1, <1>4, <1>5, <1>6

\* What starting or stopping a world does to it.
LEMMA Switched ==
    ASSUME world \in [Worlds -> WorldRow], NEW w \in Worlds, NEW s \in {"off", "running"},
           world' = [world EXCEPT ![w].state = s]
    PROVE  /\ world' \in [Worlds -> WorldRow]
           /\ \A v \in Worlds \ {w} : world'[v] = world[v]
           /\ world'[w].exists = world[w].exists /\ world'[w].deleted = world[w].deleted
           /\ world'[w].name = world[w].name /\ world'[w].port = world[w].port
           /\ world'[w].version = world[w].version
<1> DEFINE new == [world[w] EXCEPT !.state = s]
<1>1. world' = [world EXCEPT ![w] = new]
  OBVIOUS
<1>2. /\ new \in WorldRow /\ new.exists = world[w].exists /\ new.deleted = world[w].deleted
      /\ new.name = world[w].name /\ new.port = world[w].port
      /\ new.version = world[w].version
  BY DEF WorldRow
<1> HIDE DEF new
<1>3. QED
  BY <1>1, <1>2

\* A world's fields are what they are declared to be.
LEMMA WorldFields ==
    ASSUME WorldsOK, NEW w \in Worlds
    PROVE  /\ world[w].exists \in BOOLEAN /\ world[w].deleted \in BOOLEAN
           /\ world[w].version \in Nat
           /\ ~world[w].exists => world[w].version = 0 /\ world[w].deleted = FALSE
BY DEF WorldsOK, WorldRow, Unborn

\* What a row asks for.
LEMMA RowAsks ==
    ASSUME RowsOK, NEW i \in Rows
    PROVE  data[i] \in RowData /\ Asks(data[i]) /\ Seen(data[i]) /\ data[i].world \in Worlds
BY DEF RowsOK, Asks

\* Every step lets the worlds and the rows grow.
LEMMA GrowStep ==
    ASSUME RowsOK, WorldsOK, TablesStep,
           \A c \in Clients : pc[c] = "submit" => Asks(at[c].data)
    PROVE  WorldsGrow /\ RowsGrow
<1>0. issued \in Nat /\ \A w \in Worlds : world[w].version \in Nat
  <2>1. issued \in Nat
    BY RowNumbers
  <2>2. \A w \in Worlds : world[w].version \in Nat
    BY WorldFields
  <2>3. QED
    BY <2>1, <2>2
<1>1. CASE TablesSame
  BY <1>0, <1>1 DEF TablesSame, WorldsGrow, RowsGrow
<1>2. ASSUME NEW c \in Clients, Opens(c) PROVE WorldsGrow /\ RowsGrow
  <2>1. at[c].data \in RowData /\ Asks(at[c].data)
    BY <1>2 DEF Opens, Asks
  <2>2. issued' = issued + 1 /\ \A j \in Ops!OpId \ {issued + 1} : data'[j] = data[j]
    BY <1>2, <2>1, OpenRows
  <2>3. UNCHANGED world
    BY <1>2 DEF Opens
  <2>4. Rows \subseteq Ops!OpId /\ issued + 1 \notin Rows
    BY RowNumbers
  <2>5. QED
    BY <1>0, <2>2, <2>3, <2>4 DEF WorldsGrow, RowsGrow
<1>3. ASSUME NEW i \in Rows, NEW st \in {"Running", "Completed", "Failed"}, Turns(i, st)
      PROVE  WorldsGrow /\ RowsGrow
  BY <1>0, <1>3 DEF Turns, WorldsGrow, RowsGrow
<1>4. ASSUME NEW i \in Rows, NEW s \in {"off", "running"}, Switches(i, s)
      PROVE  WorldsGrow /\ RowsGrow
  <2> DEFINE w == data[i].world
  <2>1. /\ \A v \in Worlds \ {w} : world'[v] = world[v]
        /\ world'[w].exists = world[w].exists /\ world'[w].deleted = world[w].deleted
        /\ world'[w].version = world[w].version
    BY <1>4, RowAsks, Switched DEF Switches, WorldsOK
  <2>2. issued' = issued /\ data' = data
    BY <1>4 DEF Switches
  <2> HIDE DEF w
  <2>3. QED
    BY <1>0, <2>1, <2>2 DEF WorldsGrow, RowsGrow
<1>5. ASSUME NEW i \in Rows, Changes(i) PROVE WorldsGrow /\ RowsGrow
  <2> DEFINE d == data[i]
             w == d.world
             new == Edited(d)
  <2>1. /\ new \in WorldRow /\ new.version = world[w].version + 1
        /\ new.exists = world[w].exists
    <3>1. d \in RowData /\ Asks(d)
      BY <1>5, RowAsks
    <3>2. d.kind \in Versioned /\ world[w].version = d.version
      BY <1>5 DEF Changes
    <3> HIDE DEF d
    <3>3. QED
      BY <3>1, <3>2, EditedFields
  <2>2. world'[w] = new /\ \A v \in Worlds \ {w} : world'[v] = world[v]
    BY <1>5, <2>1, RowAsks, Committed DEF Changes, WorldsOK
  <2>3. issued' = issued /\ data' = data
    BY <1>5 DEF Changes
  <2> HIDE DEF d, w, new
  <2>4. \A v \in Worlds : world[v].version <= world'[v].version
                          /\ (world'[v].version = world[v].version => world'[v] = world[v])
    BY <1>0, <2>1, <2>2
  <2>5. QED
    BY <1>0, <2>1, <2>2, <2>3, <2>4 DEF WorldsGrow, RowsGrow
<1>6. ASSUME NEW i \in Rows, Creates(i) PROVE WorldsGrow /\ RowsGrow
  <2> DEFINE w == data[i].world
             new == Created(data[i])
  <2>1. /\ new \in WorldRow /\ new.version = 1 /\ new.deleted = FALSE
        /\ ~world[w].exists /\ world[w].version = 0 /\ w \in Worlds
    BY <1>6, RowAsks, CreatedFields, WorldFields DEF Creates
  <2>2. world'[w] = new /\ \A v \in Worlds \ {w} : world'[v] = world[v]
    BY <1>6, <2>1, Committed DEF Creates, WorldsOK
  <2>3. issued' = issued /\ data' = data
    BY <1>6 DEF Creates
  <2> HIDE DEF w, new
  <2>4. \A v \in Worlds : world[v].version <= world'[v].version
                          /\ (world'[v].version = world[v].version => world'[v] = world[v])
    BY <1>0, <2>1, <2>2
  <2>5. QED
    BY <1>0, <2>1, <2>2, <2>3, <2>4 DEF WorldsGrow, RowsGrow
<1>7. QED
  BY <1>1, <1>2, <1>3, <1>4, <1>5, <1>6 DEF TablesStep, RowStep

\* A world that a client has seen stays one.
LEMMA SeenStays ==
    ASSUME NEW d \in RowData, Asks(d), Seen(d), WorldsOK, WorldsOK', WorldsGrow
    PROVE  Seen(d)'
<1> DEFINE w == d.world
<1>1. w \in Worlds /\ d.version \in Nat
  BY DEF Asks, RowData
<1>2. /\ world[w].version \in Nat /\ world'[w].version \in Nat
      /\ world[w].version <= world'[w].version
      /\ world[w].exists => world'[w].exists
      /\ world'[w].deleted /\ world[w].version = world'[w].version => world[w].deleted
  BY <1>1 DEF WorldsOK, WorldsGrow, WorldRow
<1>3. SUFFICES ASSUME d.kind # "create"
               PROVE  /\ world'[w].exists
                      /\ d.kind \in Versioned =>
                            /\ d.version <= world'[w].version
                            /\ world'[w].deleted => d.version < world'[w].version
  BY DEF Seen
<1>4. /\ world[w].exists
      /\ d.kind \in Versioned =>
            /\ d.version <= world[w].version
            /\ world[w].deleted => d.version < world[w].version
  BY <1>3 DEF Seen
<1> HIDE DEF w
<1>5. QED
  BY <1>1, <1>2, <1>4

\* The world of a row stays the same, but for that of a creation.
LEMMA NamedStays ==
    ASSUME NEW d, d.kind # "create" \/ world'[d.world].exists = world[d.world].exists
    PROVE  Named(d)' = Named(d)
BY DEF Named

\* The worlds keep their types and their unique names and ports.
LEMMA WorldsStep ==
    ASSUME RowsOK, WorldsOK, TablesStep
    PROVE  WorldsOK'
<1> DEFINE Distinct(f) == \A v, w \in Worlds :
               v # w /\ f[v].exists /\ ~f[v].deleted /\ f[w].exists /\ ~f[w].deleted
               => f[v].name # f[w].name /\ f[v].port # f[w].port
           Born(f) == \A w \in Worlds :
               /\ f[w].exists => f[w].name \in Names /\ f[w].port \in Ports
               /\ ~f[w].exists => f[w] = Unborn
<1>1. world \in [Worlds -> WorldRow] /\ Distinct(world) /\ Born(world)
  BY DEF WorldsOK, Live, NameFree, PortFree
<1>2. SUFFICES world' \in [Worlds -> WorldRow] /\ Distinct(world') /\ Born(world')
  BY DEF WorldsOK, Live, NameFree, PortFree
<1>3. CASE UNCHANGED world
  BY <1>1, <1>3
<1>4. ASSUME NEW i \in Rows, NEW s \in {"off", "running"}, Switches(i, s)
      PROVE  world' \in [Worlds -> WorldRow] /\ Distinct(world') /\ Born(world')
  <2> DEFINE w == data[i].world
  <2>1. /\ world' \in [Worlds -> WorldRow]
        /\ \A v \in Worlds \ {w} : world'[v] = world[v]
        /\ world'[w].exists = world[w].exists /\ world'[w].deleted = world[w].deleted
        /\ world'[w].name = world[w].name /\ world'[w].port = world[w].port
        /\ world[w].exists
    BY <1>4, RowAsks, Switched DEF Switches, WorldsOK, Live
  <2> HIDE DEF w
  <2>2. \A v \in Worlds : /\ world'[v].exists = world[v].exists
                          /\ world'[v].deleted = world[v].deleted
                          /\ world'[v].name = world[v].name /\ world'[v].port = world[v].port
    BY <2>1
  <2>3. Distinct(world')
    BY <1>1, <2>2
  <2>4. Born(world')
    BY <1>1, <2>1, <2>2
  <2>5. QED
    BY <2>1, <2>3, <2>4
<1>5. ASSUME NEW w \in Worlds, NEW new \in WorldRow,
             world' \in [Worlds -> WorldRow], world'[w] = new,
             \A v \in Worlds \ {w} : world'[v] = world[v],
             new.exists => new.name \in Names /\ new.port \in Ports,
             new.exists,
             \A v \in Worlds \ {w} :
                world[v].exists /\ ~world[v].deleted /\ ~new.deleted
                => new.name # world[v].name /\ new.port # world[v].port
      PROVE  world' \in [Worlds -> WorldRow] /\ Distinct(world') /\ Born(world')
  <2>1. Distinct(world')
    BY <1>1, <1>5
  <2>2. Born(world')
    BY <1>1, <1>5
  <2>3. QED
    BY <1>5, <2>1, <2>2
<1>6. ASSUME NEW i \in Rows, Changes(i)
      PROVE  world' \in [Worlds -> WorldRow] /\ Distinct(world') /\ Born(world')
  <2> DEFINE d == data[i]
             w == d.world
             new == Edited(d)
             old == world[w]
  <2>1. /\ d \in RowData /\ Asks(d) /\ Seen(d) /\ w \in Worlds /\ d.kind \in Versioned
        /\ d.kind # "create" /\ old.version = d.version
    BY <1>6, RowAsks DEF Changes, Versioned
  <2>2. /\ new \in WorldRow /\ new.exists = old.exists
        /\ new.name = IF d.kind = "rename" THEN d.name ELSE old.name
        /\ new.port = IF d.kind = "config" THEN d.port ELSE old.port
        /\ d.kind = "delete" => new.deleted = TRUE
        /\ d.kind # "delete" => new.deleted = old.deleted
    BY <2>1, EditedFields
  <2>3. /\ world' \in [Worlds -> WorldRow] /\ world'[w] = new
        /\ \A v \in Worlds \ {w} : world'[v] = world[v]
    BY <1>6, <2>1, <2>2, Committed DEF Changes, WorldsOK
  <2>4. old.exists /\ old.name \in Names /\ old.port \in Ports
    BY <1>1, <2>1 DEF Seen
  <2>5. /\ d.kind = "rename" => d.name \in Names /\ NameFree(w, d.name)
        /\ d.kind = "config" => d.port \in Ports /\ PortFree(w, d.port)
    BY <1>6, <2>1 DEF Changes, Asks
  <2>6. new.name \in Names /\ new.port \in Ports
    BY <2>2, <2>4, <2>5
  <2>7. ASSUME NEW v \in Worlds \ {w}, world[v].exists, ~world[v].deleted, ~new.deleted
        PROVE  new.name # world[v].name /\ new.port # world[v].port
    <3>1. ~old.deleted
      BY <2>2, <2>7
    <3>2. old.name # world[v].name /\ old.port # world[v].port
      BY <1>1, <2>1, <2>4, <2>7, <3>1
    <3>3. d.kind = "rename" => d.name # world[v].name
      BY <2>5, <2>7 DEF NameFree, Live
    <3>4. d.kind = "config" => d.port # world[v].port
      BY <2>5, <2>7 DEF PortFree, Live
    <3>5. QED
      BY <2>2, <3>2, <3>3, <3>4
  <2> HIDE DEF d, w, new, old
  <2>8. QED
    BY <1>5, <2>1, <2>2, <2>3, <2>4, <2>6, <2>7
<1>7. ASSUME NEW i \in Rows, Creates(i)
      PROVE  world' \in [Worlds -> WorldRow] /\ Distinct(world') /\ Born(world')
  <2> DEFINE d == data[i]
             w == d.world
             new == Created(d)
  <2>1. /\ d \in RowData /\ Asks(d) /\ w \in Worlds /\ d.kind = "create"
        /\ NameFree(w, d.name) /\ PortFree(w, d.port)
        /\ d.name \in Names /\ d.port \in Ports
    BY <1>7, RowAsks DEF Creates, Asks
  <2>2. /\ new \in WorldRow /\ new.exists = TRUE /\ new.deleted = FALSE
        /\ new.name = d.name /\ new.port = d.port
    BY <2>1, CreatedFields
  <2>3. /\ world' \in [Worlds -> WorldRow] /\ world'[w] = new
        /\ \A v \in Worlds \ {w} : world'[v] = world[v]
    BY <1>7, <2>1, <2>2, Committed DEF Creates, WorldsOK
  <2>4. ASSUME NEW v \in Worlds \ {w}, world[v].exists, ~world[v].deleted
        PROVE  new.name # world[v].name /\ new.port # world[v].port
    BY <2>1, <2>2, <2>4 DEF NameFree, PortFree, Live
  <2> HIDE DEF d, w, new
  <2>5. QED
    BY <1>5, <2>1, <2>2, <2>3, <2>4
<1>8. QED
  BY <1>3, <1>4, <1>6, <1>7 DEF TablesStep, RowStep, TablesSame, Opens, Turns

-----------------------------------------------------------------------------
(* The rows stay in order.                                                 *)

Submitting == \A c \in Clients : pc[c] = "submit" => Asks(at[c].data) /\ Seen(at[c].data)

\* What is said of a row.
RowOK(i) ==
    /\ Asks(data[i]) /\ Seen(data[i])
    /\ ops[i].type = TypeOf[data[i].kind] /\ ops[i].world = Named(data[i])

\* The engine's rows fit, each on its own.
LEMMA RowsFit == RowsOK <=> /\ Ops!TypeOK /\ data \in [1 .. MaxOps -> RowData]
                            /\ \A i \in Rows : RowOK(i)
BY DEF RowsOK, RowOK

\* A row that keeps its data stays in order.
LEMMA RowStays ==
    ASSUME RowsOK, WorldsOK, WorldsOK', WorldsGrow, NEW i \in Rows,
           data'[i] = data[i], ops'[i].type = ops[i].type,
           ops'[i].world = Named(data[i])'
    PROVE  RowOK(i)'
<1> DEFINE d == data[i]
<1>1. d \in RowData /\ Asks(d) /\ Seen(d)
  BY RowAsks
<1>2. ops[i].type = TypeOf[d.kind]
  BY DEF RowsOK
<1>3. Seen(d)'
  BY <1>1, SeenStays
<1>4. data'[i] = d /\ ops'[i].world = Named(d)'
  OBVIOUS
<1>5. ASSUME NEW x, x = d, data'[i] = x, Seen(x)', ops'[i].world = Named(x)', Asks(x),
             ops[i].type = TypeOf[x.kind]
      PROVE  RowOK(i)'
  BY <1>5 DEF RowOK, Asks, Named, Seen
<1>6. QED
  BY <1>1, <1>2, <1>3, <1>4, <1>5

\* A step of the tables leaves the rows what the threads, the worlds and the engine need of them:
\* a new row is what its client asks for, and a creation's row names its world once it exists.
LEMMA RowsStep ==
    ASSUME RowsOK, DrawnOnce, WorldsOK, WorldsOK', TablesStep, Submitting
    PROVE  RowsOK'
<1>0. /\ WorldsGrow /\ RowsGrow /\ Counting
      /\ Rows \subseteq Ops!OpId /\ Ops!OpId = 1 .. MaxOps /\ issued \in 0 .. MaxOps
      /\ MaxOps \in Nat \ {0}
  BY GrowStep, RowNumbers DEF Submitting, TablesStep
<1>1. /\ ops \in [Ops!OpId -> Ops!Row] /\ data \in [1 .. MaxOps -> RowData]
      /\ \A i \in Ops!OpId : /\ ops[i].status = "Absent" <=> i > issued
                             /\ ops[i].status \notin {"Created", "Validating"}
      /\ \A i \in Rows : ops[i].world = Named(data[i])
  BY DEF RowsOK, Ops!TypeOK
<1>2. CASE TablesSame
  <2>1. /\ ops' = ops /\ issued' = issued /\ data' = data /\ world' = world
    BY <1>2 DEF TablesSame
  <2>2. Ops!TypeOK'
    BY <1>0, <2>1 DEF RowsOK, Ops!TypeOK, Counting
  <2>3. \A i \in Rows' : RowOK(i)'
    <3>1. Rows' = Rows
      BY <2>1 DEF Rows
    <3>2. \A i \in Rows : RowOK(i)
      BY RowsFit
    <3>3. QED
      BY <2>1, <3>1, <3>2 DEF RowOK, Seen, Named
  <2>4. QED
    BY <1>1, <2>1, <2>2, <2>3 DEF RowsOK, RowOK
<1>3. ASSUME ops' \in [Ops!OpId -> Ops!Row], issued' = issued, data' = data,
             \A i \in Ops!OpId : /\ ops'[i].status = "Absent" <=> i > issued
                                 /\ ops'[i].status \notin {"Created", "Validating"},
             \A i \in Rows : ops'[i].type = ops[i].type,
             \A i \in Rows : ops'[i].world = Named(data[i])'
      PROVE  RowsOK'
  <2>1. Ops!TypeOK'
    BY <1>0, <1>1, <1>3 DEF Ops!TypeOK, Counting
  <2>2. \A i \in Rows : RowOK(i)'
    BY <1>0, <1>3, RowStays
  <2>3. Rows' = Rows
    BY <1>3 DEF Rows
  <2>4. QED
    BY <1>1, <1>3, <2>1, <2>2, <2>3 DEF RowsOK, RowOK
<1>4. ASSUME NEW c \in Clients, Opens(c) PROVE RowsOK'
  <2> DEFINE n == issued + 1
             d == at[c].data
  <2>1. d \in RowData /\ Asks(d) /\ Seen(d)
    BY <1>4 DEF Opens, Asks, Submitting
  <2>2. /\ n \in Ops!OpId /\ issued' = n /\ ops' \in [Ops!OpId -> Ops!Row]
        /\ ops'[n].type = TypeOf[d.kind]
        /\ ops'[n].world = IF d.kind = "create" THEN None ELSE d.world
        /\ ops'[n].status = "Queued"
        /\ \A j \in Ops!OpId \ {n} : ops'[j] = ops[j] /\ data'[j] = data[j]
        /\ data' \in [1 .. MaxOps -> RowData] /\ data'[n] = d
        /\ Rows' = Rows \cup {n}
    BY <1>4, <2>1, OpenRows
  <2>3. world' = world
    BY <1>4 DEF Opens
  <2>4. \A i \in Ops!OpId : /\ ops'[i].status = "Absent" <=> i > n
                            /\ ops'[i].status \notin {"Created", "Validating"}
    <3>1. TAKE i \in Ops!OpId
    <3>2. CASE i = n
      BY <1>0, <2>2, <3>2
    <3>3. CASE i # n
      <4>1. i > issued <=> i > n
        BY <1>0, <2>2, <3>3
      <4>2. QED
        BY <1>1, <2>2, <3>3, <4>1
    <3>4. QED
      BY <3>2, <3>3
  <2>5. Ops!TypeOK'
    BY <1>0, <2>2, <2>4 DEF Ops!TypeOK, Counting
  <2>6. d.kind = "create" => ~world[d.world].exists
    BY <1>4 DEF Opens, DrawnOnce, Fresh
  <2>7. Named(d) = IF d.kind = "create" THEN None ELSE d.world
    BY <2>6 DEF Named
  <2>8. \A i \in Rows : i \in Ops!OpId \ {n}
    BY RowNumbers
  <2>9. ASSUME NEW k, k = n, NEW x, x = d PROVE RowsOK'
    <3>1. /\ data'[k] = x /\ ops'[k].type = TypeOf[x.kind] /\ ops'[k].world = Named(x)
          /\ Asks(x) /\ Seen(x) /\ Rows' = Rows \cup {k}
          /\ \A i \in Rows : ops'[i] = ops[i] /\ data'[i] = data[i]
      BY <2>1, <2>2, <2>7, <2>8, <2>9
    <3>2. Asks(x)' /\ Seen(x)' /\ Named(x)' = Named(x)
      BY <2>3, <3>1 DEF Asks, Seen, Named
    <3>3. RowOK(k)'
      BY <3>1, <3>2 DEF RowOK, Asks, Seen, Named
    <3>4. ASSUME NEW i \in Rows PROVE RowOK(i)'
      <4>1. Named(data[i])' = Named(data[i])
        BY <2>3, <3>1 DEF Named
      <4>2. QED
        BY <1>0, <1>1, <3>1, <4>1, RowStays
    <3>5. \A i \in Rows' : RowOK(i)'
      BY <3>1, <3>3, <3>4
    <3>6. QED
      BY <2>2, <2>5, <3>5 DEF RowsOK, RowOK
  <2>10. QED
    BY <2>9
<1>5. ASSUME NEW i \in Rows, NEW st \in {"Running", "Completed", "Failed"}, Turns(i, st)
      PROVE  RowsOK'
  <2>1. /\ ops' \in [Ops!OpId -> Ops!Row] /\ issued' = issued
        /\ ops'[i].type = ops[i].type /\ ops'[i].world = ops[i].world
        /\ ops'[i].status = st
        /\ \A j \in Ops!OpId \ {i} : ops'[j] = ops[j]
    BY <1>5, TurnRows
  <2>2. data' = data /\ world' = world
    BY <1>5 DEF Turns
  <2>3. \A j \in Rows : ops'[j].type = ops[j].type /\ ops'[j].world = ops[j].world
    BY <1>0, <2>1
  <2>4. \A j \in Rows : ops'[j].world = Named(data[j])'
    BY <1>1, <2>2, <2>3 DEF Named
  <2>5. ops[i].status # "Absent"
    BY RowNumbers
  <2>6. QED
    BY <1>0, <1>1, <1>3, <2>1, <2>2, <2>3, <2>4, <2>5
<1>6. ASSUME NEW i \in Rows, NEW s \in {"off", "running"}, Switches(i, s) PROVE RowsOK'
  <2>1. ops' = ops /\ data' = data /\ issued' = issued
    BY <1>6 DEF Switches
  <2>2. \A v \in Worlds : world'[v].exists = world[v].exists
    BY <1>6, RowAsks, Switched DEF Switches, WorldsOK
  <2>3. \A j \in Rows : data[j].world \in Worlds
    BY RowAsks
  <2>4. \A j \in Rows : ops'[j].world = Named(data[j])'
    BY <1>1, <2>1, <2>2, <2>3 DEF Named
  <2>5. QED
    BY <1>1, <1>3, <2>1, <2>4
<1>7. ASSUME NEW i \in Rows, Changes(i) PROVE RowsOK'
  <2>1. ops' = ops /\ data' = data /\ issued' = issued
    BY <1>7 DEF Changes
  <2> DEFINE d == data[i]
  <2>2. /\ d \in RowData /\ Asks(d) /\ d.world \in Worlds /\ d.kind \in Versioned
        /\ world[d.world].version = d.version
    BY <1>7, RowAsks DEF Changes
  <2>3. Edited(d) \in WorldRow /\ Edited(d).exists = world[d.world].exists
    BY <2>2, EditedFields
  <2>4. \A v \in Worlds : world'[v].exists = world[v].exists
    BY <1>7, <2>2, <2>3, Committed DEF Changes, WorldsOK
  <2>5. \A j \in Rows : data[j].world \in Worlds
    BY RowAsks
  <2>6. \A j \in Rows : ops'[j].world = Named(data[j])'
    BY <1>1, <2>1, <2>4, <2>5 DEF Named
  <2>7. QED
    BY <1>1, <1>3, <2>1, <2>6
<1>8. ASSUME NEW i \in Rows, Creates(i) PROVE RowsOK'
  <2> DEFINE d == data[i]
             w == d.world
  <2>1. /\ d \in RowData /\ Asks(d) /\ w \in Worlds /\ d.kind = "create"
    BY <1>8, RowAsks DEF Creates
  <2>2. Created(d) \in WorldRow /\ Created(d).exists = TRUE
    BY <2>1, CreatedFields
  <2>3. /\ world'[w].exists /\ data' = data
        /\ \A v \in Worlds \ {w} : world'[v] = world[v]
    BY <1>8, <2>1, <2>2, Committed DEF Creates, WorldsOK
  <2>4. /\ ops' \in [Ops!OpId -> Ops!Row] /\ issued' = issued
        /\ ops'[i].type = ops[i].type /\ ops'[i].world = w
        /\ ops'[i].status = ops[i].status
        /\ \A j \in Ops!OpId \ {i} : ops'[j] = ops[j]
    BY <1>8, CreateRows
  <2>5. \A j \in Ops!OpId : ops'[j].status = ops[j].status /\ ops'[j].type = ops[j].type
    BY <2>4
  <2>6. \A j \in Rows : ops'[j].world = Named(data[j])'
    <3>1. TAKE j \in Rows
    <3>2. CASE j = i
      BY <2>1, <2>3, <2>4, <3>2 DEF Named
    <3>3. CASE j # i
      <4>1. data[j].kind = "create" => data[j].world # w
        BY <2>1, <3>3 DEF DrawnOnce
      <4>2. data[j].world \in Worlds /\ j \in Ops!OpId \ {i}
        BY <1>0, <3>3, RowAsks
      <4>3. QED
        BY <1>1, <2>3, <2>4, <4>1, <4>2 DEF Named
    <3>4. QED
      BY <3>2, <3>3
  <2>7. QED
    BY <1>0, <1>1, <1>3, <2>3, <2>4, <2>5, <2>6
<1>9. QED
  BY <1>2, <1>4, <1>5, <1>6, <1>7, <1>8 DEF TablesStep, RowStep

-----------------------------------------------------------------------------
(* One row of a world at a time, and the history.                          *)

\* A row that is claimed is alone with its world, and no two rows create the same world.
LEMMA OneRunsStep ==
    ASSUME RowsOK, DrawnOnce, WorldsOK, TablesStep, Submitting, OneRuns
    PROVE  OneRuns'
<1>0. /\ Rows \subseteq Ops!OpId /\ Ops!OpId = 1 .. MaxOps /\ issued + 1 \notin Rows
      /\ \A i \in Rows : ops[i].world = Named(data[i])
  BY RowNumbers DEF RowsOK
<1>1. CASE ops' = ops /\ issued' = issued /\ data' = data
  BY <1>1 DEF OneRuns, Rows
<1>2. ASSUME NEW c \in Clients, Opens(c) PROVE OneRuns'
  <2> DEFINE n == issued + 1
             d == at[c].data
  <2>1. d \in RowData /\ Asks(d)
    BY <1>2 DEF Opens, Asks, Submitting
  <2>2. /\ ops'[n].status = "Queued"
        /\ \A j \in Ops!OpId \ {n} : ops'[j] = ops[j] /\ data'[j] = data[j]
        /\ Rows' = Rows \cup {n}
    BY <1>2, <2>1, OpenRows
  <2> HIDE DEF n, d
  <2>3. \A i \in Rows' : ops'[i].status = "Running" =>
            i \in Rows /\ ops'[i] = ops[i] /\ data'[i] = data[i]
    BY <1>0, <2>2
  <2>4. QED
    BY <2>3 DEF OneRuns
<1>3. ASSUME NEW i \in Rows, NEW st \in {"Running", "Completed", "Failed"}, Turns(i, st)
      PROVE  OneRuns'
  <2>1. /\ ops'[i].world = ops[i].world /\ ops'[i].status = st
        /\ \A j \in Ops!OpId \ {i} : ops'[j] = ops[j]
        /\ issued' = issued /\ data' = data
    BY <1>3, TurnRows DEF Turns
  <2>2. Rows' = Rows
    BY <2>1 DEF Rows
  <2>3. SUFFICES ASSUME NEW j \in Rows, NEW k \in Rows, j # k,
                        ops'[j].status = "Running", ops'[k].status = "Running",
                        data[j].kind # "rename", data[k].kind # "rename",
                        ops'[j].world = ops'[k].world, ops'[j].world # None
                 PROVE  FALSE
    BY <2>1, <2>2 DEF OneRuns
  <2>4. ops'[j].world = ops[j].world /\ ops'[k].world = ops[k].world
    BY <1>0, <2>1
  <2>5. CASE j # i /\ k # i
    BY <1>0, <2>1, <2>3, <2>5 DEF OneRuns
  <2>6. CASE j = i \/ k = i
    <3>1. PICK m \in Rows : m # i /\ ops[m].status = "Running" /\ ops[m].world = ops[i].world
      BY <1>0, <2>1, <2>3, <2>4, <2>6
    <3>2. st = "Running" /\ data[i].kind # "rename" /\ ops[i].world # None
      BY <2>1, <2>3, <2>4, <2>6
    <3>3. Ops!Claimable(i)
      BY <1>3, <3>2 DEF Turns
    <3>4. QED
      BY <1>0, <3>1, <3>2, <3>3 DEF Ops!Claimable, Ops!Busy, Ops!InFlight
  <2>7. QED
    BY <2>5, <2>6
<1>4. ASSUME NEW i \in Rows, Creates(i) PROVE OneRuns'
  <2> DEFINE w == data[i].world
  <2>1. /\ ops'[i].world = w /\ ops'[i].status = ops[i].status
        /\ \A j \in Ops!OpId \ {i} : ops'[j] = ops[j]
        /\ issued' = issued /\ data' = data /\ ~world[w].exists /\ data[i].kind = "create"
    BY <1>4, CreateRows DEF Creates
  <2>2. Rows' = Rows
    BY <2>1 DEF Rows
  <2>3. ASSUME NEW j \in Rows \ {i} PROVE ops[j].world # w
    <3>1. data[j].kind = "create" => data[j].world # w
      BY <2>1, <2>3 DEF DrawnOnce
    <3>2. data[j].kind # "create" => world[data[j].world].exists
      BY <2>3, RowAsks DEF Seen
    <3>3. w # None
      BY RowAsks, MutationAssumption
    <3>4. QED
      BY <1>0, <2>1, <3>1, <3>2, <3>3 DEF Named
  <2> HIDE DEF w
  <2>4. QED
    BY <1>0, <2>1, <2>2, <2>3 DEF OneRuns
<1>5. QED
  BY <1>1, <1>2, <1>3, <1>4 DEF TablesStep, RowStep, TablesSame, Switches, Changes

\* Two worlds that differ in nothing but their state have the same last change.
LEMMA LatestStays ==
    ASSUME NEW c, Latest(c),
           world'[c.world].version = world[c.world].version,
           world'[c.world].name = world[c.world].name,
           world'[c.world].port = world[c.world].port,
           world'[c.world].deleted = world[c.world].deleted
    PROVE  Latest(c)'
BY DEF Latest

\* A change stays numbered and asked for.
LEMMA ChangeStays ==
    ASSUME RowsOK, HistoryOK, WorldsOK, WorldsOK', WorldsGrow, RowsGrow, commits \subseteq commits',
           NEW c \in commits
    PROVE  Numbered(c)' /\ Asked(c)'
<1>1. /\ Numbered(c) /\ Asked(c) /\ c.world \in Worlds
      /\ c.row.version \in Nat
  BY DEF HistoryOK, WorldRow
<1>2. /\ world[c.world].version \in Nat /\ world'[c.world].version \in Nat
      /\ world[c.world].version <= world'[c.world].version
      /\ world[c.world].exists => world'[c.world].exists
  BY <1>1 DEF WorldsOK, WorldsGrow, WorldRow
<1>3. Numbered(c)'
  BY <1>1, <1>2 DEF Numbered
<1>4. ASSUME c.op # 0 PROVE Asked(c)'
  <2>1. c.op \in Rows /\ c.op \in Rows' /\ data'[c.op] = data[c.op]
    BY <1>1, <1>4, RowNumbers DEF Asked, RowsGrow, Rows
  <2>2. QED
    BY <1>1, <2>1 DEF Asked, Grants, Created
<1>5. QED
  BY <1>3, <1>4 DEF Asked

\* The history stays in order.
LEMMA HistoryStep ==
    ASSUME RowsOK, WorldsOK, WorldsOK', TablesStep, Submitting, HistoryOK
    PROVE  HistoryOK'
<1>0. /\ WorldsGrow /\ RowsGrow
      /\ commits \subseteq [op : 0 .. MaxOps, world : Worlds, row : WorldRow]
  BY GrowStep DEF Submitting, HistoryOK
<1>1. ASSUME UNCHANGED commits,
             \A w \in Worlds : /\ world'[w].exists = world[w].exists
                               /\ world'[w].version = world[w].version
                               /\ world'[w].name = world[w].name
                               /\ world'[w].port = world[w].port
                               /\ world'[w].deleted = world[w].deleted
      PROVE  HistoryOK'
  <2>1. \A c \in commits : Numbered(c)' /\ Asked(c)'
    BY <1>0, <1>1, ChangeStays
  <2>2. \A c \in commits : Latest(c) => Latest(c)'
    BY <1>0, <1>1, LatestStays
  <2>3. QED
    BY <1>0, <1>1, <2>1, <2>2 DEF HistoryOK
<1>2. ASSUME NEW i \in Rows, NEW w, NEW new \in WorldRow, w = data[i].world,
             Commit(i, w, new), UNCHANGED <<issued, data>>,
             data[i].kind \in Altering, Grants(new, data[i]), new.exists,
             new.version = world[w].version + 1, new.version = data[i].version + 1,
             data[i].kind = "create" => new = Created(data[i]) /\ ~world[w].exists,
             data[i].kind = "config" => ~new.deleted,
             data[i].kind # "create" => world[w].exists
      PROVE  HistoryOK'
  <2> DEFINE x == [op |-> i, world |-> w, row |-> new]
  <2>1. w \in Worlds /\ i \in 1 .. MaxOps /\ data[i].version \in Nat
    BY <1>2, RowAsks, RowNumbers DEF RowData
  <2>2. /\ world' \in [Worlds -> WorldRow] /\ world'[w] = new
        /\ \A v \in Worlds \ {w} : world'[v] = world[v]
        /\ commits' = commits \cup {x}
    <3>1. world \in [Worlds -> WorldRow] /\ w \in Worlds /\ new \in WorldRow
      BY <1>2, <2>1 DEF WorldsOK
    <3>2. Commit(i, w, new)
      BY <1>2
    <3> HIDE DEF x
    <3>3. x = [op |-> i, world |-> w, row |-> new]
      BY DEF x
    <3>4. QED
      BY <3>1, <3>2, <3>3, Committed
  <2>3. x.op = i /\ x.world = w /\ x.row = new
        /\ x \in [op : 0 .. MaxOps, world : Worlds, row : WorldRow]
    BY <2>1, RowNumbers
  <2> HIDE DEF x
  <2>4. \A c \in commits : /\ Numbered(c)' /\ Asked(c)' /\ Numbered(c) /\ c.world \in Worlds
                           /\ c.row.version \in Nat
    BY <1>0, <2>2, ChangeStays DEF HistoryOK, WorldRow
  <2>5. world[w].version \in Nat /\ (~world[w].exists => world[w].version = 0)
    BY <2>1, WorldFields
  <2>6. \A c \in commits : c.world = w => c.row.version <= world[w].version
    BY <2>4, <2>5 DEF Numbered
  <2>7. Latest(x)'
    BY <2>2, <2>3 DEF Latest
  <2>8. Numbered(x)'
    <3>1. new.version > 1 =>
              \E e \in commits : e.world = w /\ e.row.version = new.version - 1
      <4>1. HAVE new.version > 1
      <4>2. world[w].exists
        BY <1>2, <2>5, <4>1
      <4>3. PICK e \in commits : e.world = w /\ Latest(e)
        BY <2>1, <4>2 DEF HistoryOK
      <4>4. e.row.version = world[w].version
        BY <4>3 DEF Latest
      <4>5. QED
        BY <1>2, <2>5, <4>3, <4>4
    <3>2. new.version \in 1 .. new.version
      BY <1>2, <2>5
    <3>3. QED
      BY <1>2, <2>2, <2>3, <3>1, <3>2 DEF Numbered
  <2>9. Asked(x)'
    <3>1. Rows' = Rows /\ data' = data
      BY <1>2 DEF Rows
    <3>2. ASSUME NEW d, d = data[i] PROVE Asked(x)'
      <4>1. /\ Grants(new, d)' /\ d.kind \in Altering /\ w = d.world
            /\ new.version = d.version + 1 /\ (d.kind = "create" => new = Created(d)')
            /\ d.kind = "config" => ~new.deleted
        BY <1>2, <3>2 DEF Grants, Created
      <4>2. data'[x.op] = d /\ x.op \in Rows'
        BY <2>3, <3>1, <3>2
      <4>3. QED
        BY <2>3, <4>1, <4>2 DEF Asked
    <3>3. QED
      BY <3>2
  <2>10. \A v \in Worlds : world'[v].exists => \E c \in commits' : c.world = v /\ Latest(c)'
    <3>1. SUFFICES ASSUME NEW v \in Worlds \ {w}, world[v].exists
                   PROVE  \E c \in commits' : c.world = v /\ Latest(c)'
      BY <2>2, <2>3, <2>7
    <3>2. PICK c \in commits : c.world = v /\ Latest(c)
      BY <3>1 DEF HistoryOK
    <3>3. Latest(c)'
      BY <2>2, <3>1, <3>2, LatestStays
    <3>4. QED
      BY <2>2, <3>2, <3>3
  <2>11. \A c, e \in commits' : c.world = e.world /\ c.row.version = e.row.version => c = e
    <3>1. \A c, e \in commits : c.world = e.world /\ c.row.version = e.row.version => c = e
      BY DEF HistoryOK
    <3>2. \A c \in commits : ~(c.world = x.world /\ c.row.version = x.row.version)
      BY <1>2, <2>3, <2>4, <2>5, <2>6
    <3>3. QED
      BY <2>2, <3>1, <3>2
  <2>12. \A c \in commits' : Numbered(c)' /\ Asked(c)'
    BY <2>2, <2>4, <2>8, <2>9
  <2>13. commits' \subseteq [op : 0 .. MaxOps, world : Worlds, row : WorldRow]
    BY <1>0, <2>2, <2>3
  <2>14. QED
    BY <2>10, <2>11, <2>12, <2>13 DEF HistoryOK
<1>3. CASE UNCHANGED <<world, commits>>
  BY <1>1, <1>3
<1>4. ASSUME NEW i \in Rows, NEW s \in {"off", "running"}, Switches(i, s) PROVE HistoryOK'
  <2> DEFINE w == data[i].world
  <2>1. /\ \A v \in Worlds \ {w} : world'[v] = world[v]
        /\ world'[w].exists = world[w].exists /\ world'[w].deleted = world[w].deleted
        /\ world'[w].name = world[w].name /\ world'[w].port = world[w].port
        /\ world'[w].version = world[w].version
    BY <1>4, RowAsks, Switched DEF Switches, WorldsOK
  <2>2. UNCHANGED commits
    BY <1>4 DEF Switches
  <2> HIDE DEF w
  <2>3. QED
    BY <1>1, <2>1, <2>2
<1>5. ASSUME NEW i \in Rows, Changes(i) PROVE HistoryOK'
  <2> DEFINE d == data[i]
             w == d.world
             new == Edited(d)
  <2>1. /\ d \in RowData /\ Asks(d) /\ Seen(d) /\ d.kind \in Versioned
        /\ world[w].version = d.version /\ d.kind \in Altering /\ d.kind # "create"
        /\ Commit(i, w, new) /\ UNCHANGED <<issued, data>>
        /\ d.kind = "config" => Live(w)
    BY <1>5, RowAsks DEF Changes, Versioned, Altering
  <2>2. /\ new \in WorldRow /\ new.version = d.version + 1
        /\ new.exists = world[w].exists
        /\ d.kind # "delete" => new.deleted = world[w].deleted
    BY <2>1, EditedFields
  <2>3. Grants(new, d)
    BY <2>1, EditedGrants
  <2>4. world[w].exists /\ (d.kind = "config" => ~new.deleted)
    BY <2>1, <2>2 DEF Seen, Live
  <2> HIDE DEF new
  <2>5. QED
    BY <1>2, <2>1, <2>2, <2>3, <2>4
<1>6. ASSUME NEW i \in Rows, Creates(i) PROVE HistoryOK'
  <2> DEFINE d == data[i]
             w == d.world
             new == Created(d)
  <2>1. /\ d \in RowData /\ Asks(d) /\ d.kind = "create" /\ d.kind \in Altering
        /\ ~world[w].exists /\ w \in Worlds
        /\ Commit(i, w, new) /\ UNCHANGED <<issued, data>>
    BY <1>6, RowAsks DEF Creates, Altering
  <2>2. /\ new \in WorldRow /\ new.version = 1 /\ d.version = 0
        /\ new.exists = TRUE
    BY <2>1, CreatedFields
  <2>3. Grants(new, d)
    BY <2>1, CreatedFields
  <2>4. world[w].version = 0
    BY <2>1, WorldFields
  <2>5. new = Created(data[i])
    OBVIOUS
  <2> HIDE DEF new
  <2>6. QED
    BY <1>2, <2>1, <2>2, <2>3, <2>4, <2>5
<1>7. QED
  BY <1>3, <1>4, <1>5, <1>6 DEF TablesStep, RowStep, TablesSame, Opens, Turns

-----------------------------------------------------------------------------
(* What the rows have changed.                                             *)

\* The rows of the changes in the history.
LEMMA ChangeRows ==
    ASSUME HistoryOK, NEW c \in commits
    PROVE  /\ c.op = 0 \/ c.op \in Rows
           /\ c.world \in Worlds /\ c.row \in WorldRow /\ c.row.version \in Nat
           /\ c.op # 0 => /\ data[c.op].kind \in Altering /\ c.world = data[c.op].world
                          /\ c.row.version = data[c.op].version + 1
           /\ world[c.world].exists /\ c.row.version \in 1 .. world[c.world].version
<1>1. c.world \in Worlds /\ c.row \in WorldRow /\ Numbered(c) /\ Asked(c)
  BY DEF HistoryOK
<1>2. c.row.version \in Nat
  BY <1>1 DEF WorldRow
<1>3. QED
  BY <1>1, <1>2 DEF Numbered, Asked

\* A rename that came after a change stays one.
LEMMA RenamedStays ==
    ASSUME HistoryOK, RowsGrow, commits \subseteq commits', NEW c, RenamedSince(c)
    PROVE  RenamedSince(c)'
<1>1. PICK e \in commits : /\ e.world = c.world /\ e.row.version > c.row.version
                           /\ e.op # 0 /\ data[e.op].kind = "rename"
  BY DEF RenamedSince
<1>2. e.op \in Rows
  BY <1>1, ChangeRows
<1>3. QED
  BY <1>1, <1>2 DEF RowsGrow, RenamedSince

\* What was granted stays granted.
LEMMA GrantedStays ==
    ASSUME RowsGrow, commits \subseteq commits', NEW i \in Rows, Granted(i)
    PROVE  Granted(i)'
<1>1. PICK c \in commits : /\ c.world = data[i].world
                           /\ c.row.version = data[i].version + 1
                           /\ Grants(c.row, data[i])
  BY DEF Granted
<1>2. data'[i] = data[i] /\ c \in commits'
  BY DEF RowsGrow
<1>3. ASSUME NEW d, d = data[i] PROVE Granted(i)'
  <2>1. Grants(c.row, d)' /\ c.world = d.world /\ c.row.version = d.version + 1
    BY <1>1, <1>3 DEF Grants
  <2>2. data'[i] = d
    BY <1>2, <1>3
  <2>3. (\E e \in commits : e.world = data[i].world /\ e.row.version = data[i].version + 1
                            /\ Grants(e.row, data[i]))'
    BY <1>2, <2>1, <2>2 DEF Grants
  <2>4. QED
    BY <2>3 DEF Granted
<1>4. QED
  BY <1>3

\* A row whose status and changes, with the world they were made to, stay the same.
LEMMA RowTellsOn ==
    ASSUME HistoryOK, RowsGrow, commits \subseteq commits', NEW i \in Rows, RowTells(i),
           ops'[i].status = ops[i].status, CommitsOf(i)' = CommitsOf(i),
           \A c \in CommitsOf(i) :
              data[i].kind # "rename" /\ ops[i].status = "Running" /\ world[c.world] = c.row
              => world'[c.world] = c.row \/ RenamedSince(c)'
    PROVE  RowTells(i)'
<1>1. data'[i] = data[i]
  BY DEF RowsGrow
<1>2. CommitsOf(i) \subseteq commits
  BY DEF CommitsOf
<1>3. \A c \in CommitsOf(i) : RenamedSince(c) => RenamedSince(c)'
  BY <1>2, RenamedStays
<1>4. Granted(i) => Granted(i)'
  BY GrantedStays
<1>5. QED
  BY <1>1, <1>3, <1>4 DEF RowTells

\* What is reported of a row is true of it.
LEMMA RowTellsStep ==
    ASSUME RowsOK, DrawnOnce, WorldsOK, HistoryOK, TablesStep, Submitting, OneRuns, Truthful,
           \A t \in Threads : Fits(t)
    PROVE  \A i \in Rows' : RowTells(i)'
<1>0. /\ WorldsGrow /\ RowsGrow
      /\ Rows \subseteq Ops!OpId /\ Ops!OpId = 1 .. MaxOps /\ issued + 1 \notin Rows
      /\ \A i \in Rows : RowTells(i) /\ ops[i].world = Named(data[i])
  BY GrowStep, RowNumbers DEF Submitting, Truthful, RowsOK
<1>1. CASE TablesSame
  <2>1. Rows' = Rows
    BY <1>1 DEF TablesSame, Rows
  <2>2. QED
    BY <1>0, <1>1, <2>1, RowTellsOn DEF TablesSame, CommitsOf
<1>2. ASSUME NEW c \in Clients, Opens(c) PROVE \A i \in Rows' : RowTells(i)'
  <2> DEFINE n == issued + 1
             d == at[c].data
  <2>1. d \in RowData /\ Asks(d)
    BY <1>2 DEF Opens, Asks, Submitting
  <2>2. /\ ops'[n].status = "Queued"
        /\ \A j \in Ops!OpId \ {n} : ops'[j] = ops[j]
        /\ Rows' = Rows \cup {n} /\ n # 0
    BY <1>2, <2>1, OpenRows, RowNumbers
  <2>3. commits' = commits /\ world' = world
    BY <1>2 DEF Opens
  <2> HIDE DEF d
  <2>4. ASSUME NEW k, k = n PROVE RowTells(k)'
    <3>1. \A e \in commits : e.op # k
      BY <1>0, <2>2, <2>4, ChangeRows
    <3>2. QED
      BY <2>2, <2>3, <2>4, <3>1 DEF RowTells, CommitsOf
  <2>5. ASSUME NEW k \in Rows PROVE RowTells(k)'
    BY <1>0, <2>2, <2>3, RowTellsOn DEF CommitsOf
  <2>6. QED
    BY <2>2, <2>4, <2>5
<1>3. ASSUME NEW i \in Rows, NEW st \in {"Running", "Completed", "Failed"}, Turns(i, st)
      PROVE  \A j \in Rows' : RowTells(j)'
  <2>1. /\ ops'[i].status = st
        /\ \A j \in Ops!OpId \ {i} : ops'[j] = ops[j]
        /\ issued' = issued /\ data' = data /\ commits' = commits /\ world' = world
    BY <1>3, TurnRows DEF Turns
  <2>2. Rows' = Rows
    BY <2>1 DEF Rows
  <2>3. \A j \in Rows \ {i} : RowTells(j)'
    BY <1>0, <2>1, RowTellsOn DEF CommitsOf
  <2>4. CASE st = "Running"
    <3>1. CommitsOf(i) = {}
      BY <1>0, <1>3, <2>4 DEF Turns, RowTells
    <3>2. QED
      BY <2>1, <2>2, <2>3, <2>4, <3>1 DEF RowTells, CommitsOf
  <2>5. CASE st = "Completed"
    <3>1. PICK t \in Threads : at[t].op = i /\ pc[t] = "complete"
      BY <1>3, <2>5 DEF Turns
    <3>2. at[t].data = data[i]
      BY <3>1 DEF Fits, FitsAs, InHand
    <3>3. data[i].kind \in Altering => Granted(i)'
      BY <1>0, <2>1, <3>1, <3>2, GrantedStays DEF Truthful, TellsAs
    <3>4. QED
      BY <2>1, <2>2, <2>3, <2>5, <3>3 DEF RowTells
  <2>6. CASE st = "Failed"
    <3>1. PICK t \in Threads : at[t].op = i /\ pc[t] = "fail"
      BY <1>3, <2>6 DEF Turns
    <3>2. \A c \in CommitsOf(i) : RenamedSince(c)
      BY <3>1 DEF Truthful, TellsAs
    <3>3. \A c \in CommitsOf(i) : RenamedSince(c)'
      BY <1>0, <2>1, <3>2, RenamedStays
    <3>4. QED
      BY <2>1, <2>2, <2>3, <2>6, <3>3 DEF RowTells, CommitsOf
  <2>7. QED
    BY <2>4, <2>5, <2>6
<1>4. ASSUME NEW i \in Rows, ops[i].status = "Running", data[i].kind # "rename",
             world[data[i].world].exists,
             NEW j \in Rows \ {i}, ops[j].status = "Running", data[j].kind # "rename",
             NEW c \in CommitsOf(j), c.op # 0
      PROVE  c.world # data[i].world
  <2>1. c \in commits /\ c.op = j
    BY DEF CommitsOf
  <2>2. c.world = data[j].world /\ world[c.world].exists
    BY <1>4, <2>1, ChangeRows
  <2>3. ops[i].world = data[i].world /\ ops[j].world = c.world
    BY <1>0, <1>4, <2>2 DEF Named
  <2>4. data[i].world # None
    BY RowAsks, MutationAssumption
  <2>5. QED
    BY <1>4, <2>3, <2>4 DEF OneRuns
<1>5. \A j \in Rows : \A c \in CommitsOf(j) : c.op = j /\ c.op # 0 /\ c \in commits
  BY <1>0 DEF CommitsOf
<1>6. ASSUME NEW i \in Rows, NEW s \in {"off", "running"}, Switches(i, s)
      PROVE  \A j \in Rows' : RowTells(j)'
  <2> DEFINE w == data[i].world
  <2>1. /\ ops' = ops /\ commits' = commits /\ issued' = issued
        /\ world[w].exists /\ ops[i].status = "Running" /\ data[i].kind \in {"start", "stop"}
    BY <1>6 DEF Switches, Live
  <2>2. \A v \in Worlds \ {w} : world'[v] = world[v]
    BY <1>6, RowAsks, Switched DEF Switches, WorldsOK
  <2>3. Rows' = Rows
    BY <2>1 DEF Rows
  <2>4. ASSUME NEW j \in Rows PROVE RowTells(j)'
    <3>1. ASSUME NEW c \in CommitsOf(j), ops[j].status = "Running", data[j].kind # "rename"
          PROVE  world'[c.world] = world[c.world]
      <4>1. c.world \in Worlds /\ data[j].kind \in Altering
        BY <1>5, ChangeRows
      <4>2. j # i
        BY <2>1, <4>1 DEF Altering
      <4>3. c.world # w
        BY <1>4, <1>5, <2>1, <3>1, <4>2
      <4>4. QED
        BY <2>2, <4>1, <4>3
    <3>2. QED
      BY <1>0, <2>1, <3>1, RowTellsOn DEF CommitsOf
  <2>5. QED
    BY <2>3, <2>4
<1>7. ASSUME NEW i \in Rows, Changes(i) PROVE \A j \in Rows' : RowTells(j)'
  <2> DEFINE d == data[i]
             w == d.world
             new == Edited(d)
             x == [op |-> i, world |-> w, row |-> new]
  <2>1. /\ d \in RowData /\ Asks(d) /\ d.kind \in Versioned /\ w \in Worlds
        /\ world[w].version = d.version /\ d.kind # "create" /\ Seen(d)
        /\ ops' = ops /\ issued' = issued /\ ops[i].status = "Running"
        /\ Commit(i, w, new) /\ data' = data
    BY <1>7, RowAsks DEF Changes, Versioned
  <2>2. new \in WorldRow /\ new.version = d.version + 1
    BY <2>1, EditedFields
  <2>3. /\ world'[w] = new /\ \A v \in Worlds \ {w} : world'[v] = world[v]
        /\ commits' = commits \cup {x}
    <3>1. world \in [Worlds -> WorldRow] /\ Commit(i, w, new)
      BY <2>1 DEF WorldsOK
    <3> HIDE DEF d, w, new
    <3>2. QED
      BY <2>1, <2>2, <3>1, Committed
  <2>4. x.op = i /\ x.world = w /\ x.row = new /\ d.version \in Nat /\ world[w].exists
    BY <2>1 DEF Seen, RowData
  <2>5. Rows' = Rows
    BY <2>1 DEF Rows
  <2> HIDE DEF x, new
  <2>6. ASSUME NEW j \in Rows \ {i} PROVE RowTells(j)'
    <3>1. CommitsOf(j)' = CommitsOf(j)
      BY <2>3, <2>4, <2>6 DEF CommitsOf
    <3>2. ASSUME NEW c \in CommitsOf(j), ops[j].status = "Running", data[j].kind # "rename"
          PROVE  world'[c.world] = world[c.world] \/ RenamedSince(c)'
      <4>1. c.world \in Worlds /\ c.row.version \in Nat
            /\ c.row.version <= world[c.world].version
        BY <1>5, ChangeRows
      <4>2. CASE d.kind # "rename"
        <5>1. c.world # w
          BY <1>4, <1>5, <2>1, <2>4, <3>2, <4>2
        <5>2. QED
          BY <2>3, <4>1, <5>1
      <4>3. CASE d.kind = "rename" /\ c.world = w
        <5>1. x \in commits' /\ x.world = c.world /\ x.row.version > c.row.version /\ x.op # 0
          BY <1>0, <2>1, <2>2, <2>3, <2>4, <4>1, <4>3
        <5>2. data'[x.op].kind = "rename"
          BY <2>1, <2>4, <4>3
        <5>3. QED
          BY <5>1, <5>2 DEF RenamedSince
      <4>4. QED
        BY <2>3, <4>1, <4>2, <4>3
    <3>3. QED
      BY <1>0, <2>1, <2>3, <3>1, <3>2, RowTellsOn
  <2>7. RowTells(i)'
    <3>1. \A c \in commits : c.op # i
      <4>1. SUFFICES ASSUME NEW c \in commits, c.op = i PROVE FALSE
        OBVIOUS
      <4>2. i # 0
        BY <1>0
      <4>3. c.world = w /\ c.row.version = d.version + 1 /\ c.row.version <= world[w].version
        BY <4>1, <4>2, ChangeRows
      <4>4. QED
        BY <2>1, <2>4, <4>3
    <3>2. CommitsOf(i)' = {x}
      BY <2>3, <2>4, <3>1 DEF CommitsOf
    <3>3. world'[x.world] = x.row
      BY <2>3, <2>4
    <3>4. QED
      BY <2>1, <3>2, <3>3 DEF RowTells
  <2>8. QED
    BY <2>5, <2>6, <2>7
<1>8. ASSUME NEW i \in Rows, Creates(i) PROVE \A j \in Rows' : RowTells(j)'
  <2> DEFINE d == data[i]
             w == d.world
             new == Created(d)
             x == [op |-> i, world |-> w, row |-> new]
  <2>1. /\ d \in RowData /\ Asks(d) /\ d.kind = "create" /\ w \in Worlds
        /\ ~world[w].exists /\ ops[i].status = "Running"
        /\ Commit(i, w, new) /\ data' = data /\ issued' = issued
    BY <1>8, RowAsks DEF Creates
  <2>2. new \in WorldRow
    BY <2>1, CreatedFields
  <2>3. /\ world'[w] = new /\ \A v \in Worlds \ {w} : world'[v] = world[v]
        /\ commits' = commits \cup {x}
    BY <2>1, <2>2, Committed DEF WorldsOK
  <2>4. x.op = i /\ x.world = w /\ x.row = new
    OBVIOUS
  <2>5. Rows' = Rows
    BY <2>1 DEF Rows
  <2>6. \A j \in Rows : ops'[j].status = ops[j].status
    BY <1>0, <1>8, CreateRows
  <2>7. \A c \in commits : c.world # w /\ c.world \in Worlds
    BY <2>1, ChangeRows
  <2> HIDE DEF x, new
  <2>8. ASSUME NEW j \in Rows \ {i} PROVE RowTells(j)'
    <3>1. CommitsOf(j)' = CommitsOf(j)
      BY <2>3, <2>4, <2>8 DEF CommitsOf
    <3>2. \A c \in CommitsOf(j) : world'[c.world] = world[c.world]
      BY <1>5, <2>3, <2>7
    <3>3. QED
      BY <1>0, <2>3, <2>6, <3>1, <3>2, RowTellsOn
  <2>9. RowTells(i)'
    <3>1. \A c \in commits : c.op # i
      BY <1>0, <2>7, ChangeRows
    <3>2. CommitsOf(i)' = {x}
      BY <2>3, <2>4, <3>1 DEF CommitsOf
    <3>3. world'[x.world] = x.row
      BY <2>3, <2>4
    <3>4. QED
      BY <2>1, <2>6, <3>2, <3>3 DEF RowTells
  <2>10. QED
    BY <2>5, <2>8, <2>9
<1>9. QED
  BY <1>1, <1>2, <1>3, <1>6, <1>7, <1>8 DEF TablesStep, RowStep

-----------------------------------------------------------------------------
(* What a step of a thread does.                                           *)

Placed(t, p, a) == pc' = [pc EXCEPT ![t] = p] /\ at' = [at EXCEPT ![t] = a]

Suits(t, p, a) == FitsAs(t, p, a) /\ HoldsAs(t, p, a) /\ TellsAs(t, p, a)

\* The row is in the hand of the thread, or among those it will come to.
Works(s, i) ==
    \/ pc[s] \in InHand /\ at[s].op = i
    \/ s = "worker" /\ i \in at[s].todo

\* A thread draws a world, or names one that others know.
Draws(t, p, a) ==
    LET w == a.data.world IN
    /\ p = "submit" /\ a.data.kind = "create" => Fresh(t, w)
    /\ \/ p = "submit" /\ a.data.kind = "create"
       \/ w \notin Worlds
       \/ w \in Worlds /\ world[w].exists
       \/ \E i \in Rows : data[i].world = w

Alone(t, p, a) ==
    t \in Clients /\ p \in InHand =>
        \A s \in Clients \ {t} : pc[s] \in InHand => at[s].op # a.op

\* A thread takes its next step; no other thread works on the row it touches.
StepOf(t) ==
    /\ Counting
    /\ \E p \in PointsOf(t), a \in Args :
          /\ Placed(t, p, a) /\ Suits(t, p, a)' /\ Draws(t, p, a) /\ Alone(t, p, a)
          /\ \/ TablesSame
             \/ t \in Clients /\ Opens(t) /\ p # "submit"
             \/ \E i \in Rows : RowStep(i) /\ \A s \in Threads \ {t} : ~Works(s, i)

\* A step of a thread is one of the tables.
LEMMA StepTables ==
    ASSUME NEW t \in Threads, StepOf(t)
    PROVE  TablesStep
BY DEF StepOf, TablesStep

\* A step leaves alone the rows it does not touch.
LEMMA QuietRow ==
    ASSUME RowsOK, Submitting, NEW j \in Rows,
           \/ TablesSame
           \/ \E c \in Clients : Opens(c)
           \/ \E i \in Rows \ {j} : RowStep(i)
    PROVE  ops'[j] = ops[j] /\ CommitsOf(j)' = CommitsOf(j)
<1>0. Rows \subseteq Ops!OpId /\ issued + 1 \notin Rows
  BY RowNumbers
<1>1. CASE TablesSame
  BY <1>1 DEF TablesSame, CommitsOf
<1>2. ASSUME NEW c \in Clients, Opens(c) PROVE ops'[j] = ops[j] /\ CommitsOf(j)' = CommitsOf(j)
  <2>1. at[c].data \in RowData /\ Asks(at[c].data)
    BY <1>2 DEF Opens, Asks, Submitting
  <2>2. \A k \in Ops!OpId \ {issued + 1} : ops'[k] = ops[k]
    BY <1>2, <2>1, OpenRows
  <2>3. commits' = commits
    BY <1>2 DEF Opens
  <2>4. QED
    BY <1>0, <2>2, <2>3 DEF CommitsOf
<1>3. ASSUME NEW i \in Rows \ {j}, RowStep(i)
      PROVE  ops'[j] = ops[j] /\ CommitsOf(j)' = CommitsOf(j)
  <2>1. ops'[j] = ops[j]
    <3>1. ASSUME NEW st \in {"Running", "Completed", "Failed"}, Turns(i, st)
          PROVE  ops'[j] = ops[j]
      BY <1>0, <3>1, TurnRows
    <3>2. CASE Creates(i)
      BY <1>0, <3>2, CreateRows
    <3>3. QED
      BY <1>3, <3>1, <3>2 DEF RowStep, Switches, Changes
  <2>2. commits' = commits \/ \E x : x.op = i /\ commits' = commits \cup {x}
    <3>1. CASE Changes(i) \/ Creates(i)
      <4>1. \E x : x.op = i /\ commits' = commits \cup {x}
        <5>1. PICK w, new : Commit(i, w, new)
          BY <3>1 DEF Changes, Creates
        <5> DEFINE x == [op |-> i, world |-> w, row |-> new]
        <5>2. x.op = i
          OBVIOUS
        <5>3. commits' = commits \cup {x}
          BY <5>1 DEF Commit
        <5> HIDE DEF x
        <5>4. QED
          BY <5>2, <5>3
      <4>2. QED
        BY <4>1
    <3>2. CASE ~(Changes(i) \/ Creates(i))
      BY <1>3, <3>2 DEF RowStep, Turns, Switches
    <3>3. QED
      BY <3>1, <3>2
  <2>3. QED
    BY <2>1, <2>2 DEF CommitsOf
<1>4. QED
  BY <1>1, <1>2, <1>3

\* No step takes a change back.
LEMMA CommitsGrow ==
    ASSUME TablesStep
    PROVE  commits \subseteq commits'
BY DEF TablesStep, RowStep, TablesSame, Opens, Turns, Switches, Changes, Creates, Commit

\* What a thread that does not step holds stays as it is.
LEMMA FitsOn ==
    ASSUME RowsOK, WorldsOK, WorldsOK', RowsGrow, WorldsGrow, NEW t, NEW p, NEW a, FitsAs(t, p, a)
    PROVE  FitsAs(t, p, a)'
<1>1. p = "submit" => Asks(a.data)' /\ Seen(a.data)'
  <2>1. SUFFICES ASSUME p = "submit" PROVE Asks(a.data)' /\ Seen(a.data)'
    OBVIOUS
  <2>2. Asks(a.data) /\ Seen(a.data) /\ a.data \in RowData
    BY <2>1 DEF FitsAs, Asks
  <2>3. Seen(a.data)'
    BY <2>2, SeenStays
  <2>4. QED
    BY <2>2, <2>3 DEF Asks
<1>2. p \in InHand => a.op \in Rows' /\ a.data = data'[a.op]
  BY RowNumbers DEF FitsAs, RowsGrow, Rows
<1>3. QED
  BY <1>1, <1>2 DEF FitsAs

\* A thread keeps the row it has in hand, and the worker the rows it has left to apply,
\* whatever the others do: they turn only rows they work on.
LEMMA HoldsOn ==
    ASSUME RowsOK, Submitting, RowsGrow, NEW t \in Threads,
           HoldsAs(t, pc[t], at[t]), FitsAs(t, pc[t], at[t]),
           \/ TablesSame
           \/ \E c \in Clients : Opens(c)
           \/ \E i \in Rows : RowStep(i) /\ ~Works(t, i),
           NEW p, NEW a, p = pc[t], a = at[t]
    PROVE  HoldsAs(t, p, a)'
<1>1. p \in InHand => a.op \in Rows
  BY DEF FitsAs
<1>2. p \in InHand => ops'[a.op] = ops[a.op]
  BY <1>1, QuietRow DEF Works
<1>3. t = "worker" => \A i \in a.todo : i \in Rows /\ ops'[i] = ops[i] /\ data'[i] = data[i]
  BY QuietRow DEF HoldsAs, Works, RowsGrow
<1>4. Rows \subseteq Rows'
  BY RowNumbers DEF Rows, RowsGrow
<1>5. QED
  BY <1>2, <1>3, <1>4 DEF HoldsAs

\* What a thread knows of its row's change stays true, whatever the others do: changes are never
\* withdrawn, and only the thread that works on a row makes its change.
LEMMA TellsOn ==
    ASSUME RowsOK, HistoryOK, Submitting, RowsGrow, commits \subseteq commits', NEW t \in Threads,
           TellsAs(t, pc[t], at[t]), FitsAs(t, pc[t], at[t]),
           \/ TablesSame
           \/ \E c \in Clients : Opens(c)
           \/ \E i \in Rows : RowStep(i) /\ ~Works(t, i),
           NEW p, NEW a, p = pc[t], a = at[t]
    PROVE  TellsAs(t, p, a)'
<1>1. p \in InHand => a.op \in Rows
  BY DEF FitsAs
<1>2. p \in InHand => CommitsOf(a.op)' = CommitsOf(a.op)
  BY <1>1, QuietRow DEF Works
<1>3. p \in InHand /\ Granted(a.op) => Granted(a.op)'
  BY <1>1, GrantedStays
<1>4. p \in InHand => \A c \in CommitsOf(a.op) : RenamedSince(c) => RenamedSince(c)'
  BY RenamedStays DEF CommitsOf
<1>5. "write" \in InHand /\ "complete" \in InHand /\ "fail" \in InHand
  BY DEF InHand
<1>6. QED
  BY <1>2, <1>3, <1>4, <1>5 DEF TellsAs

\* Only the row that has drawn a world creates it.
LEMMA UnbornStays ==
    ASSUME RowsOK, WorldsOK, TablesStep, NEW w \in Worlds, ~world[w].exists,
           \A i \in Rows : data[i].world # w
    PROVE  ~world'[w].exists
<1>1. CASE world' = world
  BY <1>1
<1>2. ASSUME NEW i \in Rows, NEW s \in {"off", "running"}, Switches(i, s)
      PROVE  ~world'[w].exists
  BY <1>2, RowAsks, Switched DEF Switches, WorldsOK
<1>3. ASSUME NEW i \in Rows, Changes(i) \/ Creates(i) PROVE ~world'[w].exists
  <2>1. PICK new : Commit(i, data[i].world, new)
    BY <1>3 DEF Changes, Creates
  <2>2. QED
    BY <2>1 DEF Commit, WorldsOK
<1>4. QED
  BY <1>1, <1>2, <1>3 DEF TablesStep, RowStep, TablesSame, Opens, Turns

\* The fields of the step's thread and of the others.
LEMMA PlacedFields ==
    ASSUME ThreadsOK, NEW t \in Threads, NEW p, NEW a, Placed(t, p, a)
    PROVE  /\ pc'[t] = p /\ at'[t] = a
           /\ \A s \in Threads \ {t} : pc'[s] = pc[s] /\ at'[s] = at[s]
BY DEF ThreadsOK, Placed

\* A world drawn by a creation is drawn by no other: create_world_request takes a new id.
LEMMA DrawnStep ==
    ASSUME RowsOK, DrawnOnce, WorldsOK, ThreadsOK, Submitting, NEW t \in Threads, StepOf(t)
    PROVE  DrawnOnce'
<1>1. PICK p \in PointsOf(t), a \in Args :
          /\ Placed(t, p, a) /\ Draws(t, p, a) /\ FitsAs(t, p, a)'
          /\ \/ TablesSame
             \/ t \in Clients /\ Opens(t) /\ p # "submit"
             \/ \E i \in Rows : RowStep(i)
  BY DEF StepOf, Suits
<1>2. TablesStep
  BY StepTables
<1>3. /\ pc'[t] = p /\ at'[t] = a
      /\ \A s \in Threads \ {t} : pc'[s] = pc[s] /\ at'[s] = at[s]
  BY <1>1, PlacedFields
<1>4. Clients \subseteq Threads
  BY DEF Threads
<1>5. \/ Rows' = Rows /\ \A i \in Rows : data'[i] = data[i]
      \/ /\ t \in Clients /\ Opens(t) /\ p # "submit"
         /\ \E n : Rows' = Rows \cup {n} /\ data'[n] = at[t].data /\ n \notin Rows
         /\ \A i \in Rows : data'[i] = data[i]
  <2>1. CASE t \in Clients /\ Opens(t) /\ p # "submit"
    <3>1. at[t].data \in RowData /\ Asks(at[t].data)
      BY <2>1 DEF Opens, Asks, Submitting
    <3> DEFINE n == issued + 1
    <3>2. /\ Rows' = Rows \cup {n} /\ data'[n] = at[t].data /\ n \notin Rows
          /\ \A j \in Ops!OpId \ {n} : data'[j] = data[j]
          /\ Rows \subseteq Ops!OpId
      BY <2>1, <3>1, OpenRows, RowNumbers
    <3> HIDE DEF n
    <3>3. QED
      BY <2>1, <3>2
  <2>2. CASE TablesSame \/ \E i \in Rows : RowStep(i)
    BY <2>2 DEF TablesSame, RowStep, Turns, Switches, Changes, Creates, Rows
  <2>3. QED
    BY <1>1, <2>1, <2>2
<1>6. \A i, j \in Rows' :
         data'[i].kind = "create" /\ data'[j].kind = "create" /\ data'[i].world = data'[j].world
         => i = j
  <2>1. \A i, j \in Rows :
           data[i].kind = "create" /\ data[j].kind = "create" /\ data[i].world = data[j].world
           => i = j
    BY DEF DrawnOnce
  <2>2. CASE Rows' = Rows /\ \A i \in Rows : data'[i] = data[i]
    BY <2>1, <2>2
  <2>3. CASE t \in Clients /\ Opens(t)
    <3>1. at[t].data.kind = "create" => \A i \in Rows : data[i].world # at[t].data.world
      BY <2>3 DEF Opens, DrawnOnce, Fresh
    <3>2. QED
      BY <1>5, <2>1, <3>1
  <2>4. QED
    BY <1>5, <2>2, <2>3
<1>7. ASSUME NEW s \in Clients, NEW d, d = at'[s].data, pc'[s] = "submit", d.kind = "create"
      PROVE  Fresh(s, d.world)'
  <2> DEFINE w == d.world
  <2>1. Fresh(s, w)
    <3>1. CASE s = t
      BY <1>1, <1>3, <1>7, <3>1 DEF Draws
    <3>2. CASE s # t
      BY <1>3, <1>4, <1>7, <3>2 DEF DrawnOnce
    <3>3. QED
      BY <3>1, <3>2
  <2>2. w \in Worlds
    <3>1. CASE s = t
      <4>1. p = "submit" /\ d = a.data
        BY <1>3, <1>7, <3>1
      <4>2. QED
        BY <1>1, <4>1 DEF FitsAs, Asks
    <3>2. CASE s # t
      BY <1>3, <1>4, <1>7, <3>2 DEF Submitting, Asks
    <3>3. QED
      BY <3>1, <3>2
  <2>3. ~world'[w].exists
    BY <1>2, <2>1, <2>2, UnbornStays DEF Fresh
  <2>4. \A i \in Rows' : data'[i].world # w
    <3>1. CASE t \in Clients /\ Opens(t) /\ p # "submit"
      BY <1>3, <1>4, <1>5, <1>7, <2>1, <3>1 DEF Fresh
    <3>2. QED
      BY <1>5, <2>1, <3>1 DEF Fresh
  <2>5. \A r \in Threads \ {s} : at'[r].data.world # w
    <3>1. \A r \in Threads \ {s, t} : at'[r].data.world # w
      BY <1>3, <2>1 DEF Fresh
    <3>2. s # t => a.data.world # w
      <4>1. SUFFICES ASSUME s # t PROVE a.data.world # w
        OBVIOUS
      <4>2. at[s].data.world = w
        BY <1>3, <1>4, <1>7, <4>1
      <4>3. QED
        BY <1>1, <1>4, <2>1, <2>2, <4>1, <4>2 DEF Draws, Fresh
    <3>3. QED
      BY <1>3, <3>1, <3>2
  <2> HIDE DEF w
  <2>6. Fresh(s, w)'
    BY <2>3, <2>4, <2>5 DEF Fresh, Threads
  <2>7. QED
    BY <2>6 DEF w
<1>8. QED
  BY <1>6, <1>7 DEF DrawnOnce

\* Every thread stays within what its point allows.
LEMMA ThreadsStep ==
    ASSUME RowsOK, WorldsOK, WorldsOK', HistoryOK, ThreadsOK, Held, Truthful, Submitting,
           NEW t \in Threads, StepOf(t)
    PROVE  /\ ThreadsOK' /\ Held'
           /\ \A s \in Threads : TellsAs(s, pc[s], at[s])'
<1>1. PICK p \in PointsOf(t), a \in Args :
          /\ Placed(t, p, a) /\ Suits(t, p, a)' /\ Alone(t, p, a)
          /\ \/ TablesSame
             \/ t \in Clients /\ Opens(t)
             \/ \E i \in Rows : RowStep(i) /\ \A s \in Threads \ {t} : ~Works(s, i)
  BY DEF StepOf
<1>2. WorldsGrow /\ RowsGrow /\ commits \subseteq commits'
  BY StepTables, GrowStep, CommitsGrow DEF Submitting
<1>3. /\ pc'[t] = p /\ at'[t] = a
      /\ \A s \in Threads \ {t} : pc'[s] = pc[s] /\ at'[s] = at[s]
  BY <1>1, PlacedFields
<1>4. Clients \subseteq Threads /\ "worker" \in Threads
  BY DEF Threads
<1>5. ASSUME NEW s \in Threads PROVE Suits(s, pc[s], at[s])'
  <2>1. CASE s = t
    <3>1. ASSUME NEW x, x = pc', NEW y, y = at' PROVE Suits(s, x[s], y[s])'
      BY <1>1, <1>3, <2>1, <3>1 DEF Suits
    <3>2. QED
      BY <3>1 DEF Suits, FitsAs, HoldsAs, TellsAs
  <2>2. CASE s # t
    <3>1. ASSUME NEW x, x = pc[s], NEW y, y = at[s] PROVE Suits(s, x, y)'
      <4>1. FitsAs(s, x, y) /\ HoldsAs(s, x, y) /\ TellsAs(s, x, y)
        BY <3>1 DEF ThreadsOK, Fits, Held, Truthful
      <4>2. FitsAs(s, x, y)'
        BY <1>2, <4>1, FitsOn
      <4>3. \/ TablesSame
            \/ \E c \in Clients : Opens(c)
            \/ \E i \in Rows : RowStep(i) /\ ~Works(s, i)
        BY <1>1, <2>2
      <4>4. HoldsAs(s, x, y)'
        BY <1>2, <3>1, <4>1, <4>3, HoldsOn
      <4>5. TellsAs(s, x, y)'
        BY <1>2, <3>1, <4>1, <4>3, TellsOn
      <4>6. QED
        BY <4>2, <4>4, <4>5 DEF Suits
    <3>2. QED
      BY <1>3, <2>2, <3>1 DEF Suits, FitsAs, HoldsAs, TellsAs
  <2>3. QED
    BY <2>1, <2>2
<1>6. ThreadsOK'
  <2>1. /\ pc' \in [Threads -> {"idle", "submit", "upload", "rename", "write", "runtime", "pass",
                                "apply", "stage", "replace", "complete", "fail"}]
        /\ at' \in [Threads -> Args]
    BY <1>1 DEF ThreadsOK, Placed, PointsOf
  <2>2. \A s \in Threads : Fits(s)'
    BY <1>5 DEF Suits, Fits
  <2>3. QED
    BY <2>1, <2>2 DEF ThreadsOK, Threads, Args
<1>7. Held'
  <2>1. \A s \in Threads : HoldsAs(s, pc[s], at[s])'
    BY <1>5 DEF Suits
  <2>2. \A s, r \in Clients : pc[s] \in InHand /\ pc[r] \in InHand /\ at[s].op = at[r].op => s = r
    BY DEF Held
  <2>3. \A s, r \in Clients :
           pc'[s] \in InHand /\ pc'[r] \in InHand /\ at'[s].op = at'[r].op => s = r
    BY <1>1, <1>3, <1>4, <2>2 DEF Alone
  <2>4. QED
    BY <2>1, <2>3 DEF Held, Threads, InHand
<1>8. QED
  BY <1>5, <1>6, <1>7 DEF Suits

-----------------------------------------------------------------------------
(* The local variables of a thread.                                        *)

\* The empty request is one.
LEMMA NoDataRow == NoData \in RowData /\ NoData.kind = None /\ NoData.world = None
BY DEF NoData, RowData

\* An idle thread has nothing in its local variables.
LEMMA NoArgsFields ==
    /\ NoArgs \in Args /\ NoArgs.data = NoData /\ NoArgs.todo = {} /\ NoArgs.since = 0
<1>1. 0 \in 0 .. MaxOps
  BY MutationAssumption
<1>2. QED
  BY <1>1, NoDataRow DEF NoArgs, Args

\* The local variables of a client about to submit a request.
LEMMA ArgsOfRequest ==
    ASSUME NEW d \in RowData
    PROVE  LET a == [NoArgs EXCEPT !.data = d] IN
           a \in Args /\ a.data = d /\ a.todo = {} /\ a.since = 0
BY NoArgsFields DEF Args, NoArgs

\* The local variables of a client whose upload is about to write.
LEMMA ArgsOfUpload ==
    ASSUME NEW d \in RowData, NEW x \in Contents
    PROVE  LET a == [NoArgs EXCEPT !.staged = x, !.data = d] IN
           a \in Args /\ a.data = d /\ a.staged = x /\ a.todo = {} /\ a.since = 0
BY NoArgsFields DEF Args, NoArgs

\* The local variables of a thread that has got its row.
LEMMA ArgsOfRow ==
    ASSUME NEW b \in Args, NEW i \in 0 .. MaxOps
    PROVE  LET a == [b EXCEPT !.op = i] IN
           a \in Args /\ a.op = i /\ a.data = b.data /\ a.todo = b.todo /\ a.since = b.since
BY DEF Args

\* The local variables of the worker about to end a start or a stop.
LEMMA ArgsOfRuntime ==
    ASSUME NEW d \in RowData, NEW i \in 0 .. MaxOps
    PROVE  LET a == [NoArgs EXCEPT !.op = i, !.data = d] IN
           a \in Args /\ a.op = i /\ a.data = d /\ a.todo = {} /\ a.since = 0
BY NoArgsFields DEF Args, NoArgs

\* The local variables of the worker at the beginning of a pass.
LEMMA ArgsOfPass ==
    ASSUME NEW S \in SUBSET (1 .. MaxOps), NEW T \in SUBSET (1 .. MaxOps)
    PROVE  LET a == [NoArgs EXCEPT !.todo = S, !.resumed = T] IN
           a \in Args /\ a.todo = S /\ a.resumed = T /\ a.data = NoData /\ a.since = 0
BY NoArgsFields DEF Args, NoArgs

\* The worker notes how many files clients have touched when it examines a row.
LEMMA ArgsSince ==
    ASSUME NEW b \in Args, NEW n \in Nat
    PROVE  LET a == [b EXCEPT !.since = n] IN
           /\ a \in Args /\ a.op = b.op /\ a.data = b.data /\ a.todo = b.todo
           /\ a.resumed = b.resumed /\ a.since = n
BY DEF Args

\* The worker keeps the copy it has staged.
LEMMA ArgsStaged ==
    ASSUME NEW b \in Args, NEW x \in Contents \cup {None}
    PROVE  LET a == [b EXCEPT !.staged = x] IN
           /\ a \in Args /\ a.op = b.op /\ a.data = b.data /\ a.todo = b.todo
           /\ a.resumed = b.resumed /\ a.since = b.since /\ a.staged = x
BY DEF Args

-----------------------------------------------------------------------------
(* Steps of threads: common forms.                                         *)

\* The engine's counters of a step that writes none.
LEMMA CountsSame ==
    ASSUME RowsOK, UNCHANGED <<audits, claims>>
    PROVE  Counting
BY DEF RowsOK, Ops!TypeOK, Counting

\* What is left to show of a step of a thread, when its next point and local variables are known.
LEMMA StepIntro ==
    ASSUME NEW t \in Threads, NEW p \in PointsOf(t), NEW a \in Args, p # "idle",
           Resume(t, p, a), Counting, Suits(t, p, a)', Draws(t, p, a), Alone(t, p, a),
           \/ TablesSame
           \/ t \in Clients /\ Opens(t) /\ p # "submit"
           \/ \E i \in Rows : RowStep(i) /\ \A s \in Threads \ {t} : ~Works(s, i)
    PROVE  StepOf(t)
<1>1. Placed(t, p, a)
  BY DEF Resume, Placed
<1>2. QED
  BY <1>1 DEF StepOf

\* A thread that has nothing more to do.
LEMMA StepIdle ==
    ASSUME NEW t \in Threads, NEW x, Resume(t, "idle", x), Counting,
           \/ TablesSame
           \/ t \in Clients /\ Opens(t)
           \/ \E i \in Rows : RowStep(i) /\ \A s \in Threads \ {t} : ~Works(s, i)
    PROVE  StepOf(t)
<1>1. NoArgs \in Args /\ "idle" \in PointsOf(t)
  BY NoArgsFields DEF PointsOf
<1>2. Placed(t, "idle", NoArgs)
  BY DEF Resume, Placed
<1>3. FitsAs(t, "idle", NoArgs)'
  BY NoArgsFields, NoDataRow DEF FitsAs, PointsOf, InHand
<1>4. HoldsAs(t, "idle", NoArgs)' /\ TellsAs(t, "idle", NoArgs)'
  BY NoArgsFields DEF HoldsAs, TellsAs, InHand
<1>5. Draws(t, "idle", NoArgs) /\ Alone(t, "idle", NoArgs)
  <2>1. None \notin Worlds
    BY MutationAssumption
  <2>2. QED
    BY <2>1, NoArgsFields, NoDataRow DEF Draws, Alone, InHand
<1>6. QED
  BY <1>1, <1>2, <1>3, <1>4, <1>5 DEF StepOf, Suits

\* A route that has accepted a request.
LEMMA StepSubmit ==
    ASSUME RowsOK, NEW c \in Clients, NEW d \in RowData, Asks(d), Seen(d),
           d.kind = "create" => Fresh(c, d.world),
           Resume(c, "submit", [NoArgs EXCEPT !.data = d]), UNCHANGED <<rows, world, commits>>
    PROVE  StepOf(c)
<1> DEFINE a == [NoArgs EXCEPT !.data = d]
<1>1. a \in Args /\ a.data = d
  BY ArgsOfRequest
<1>2. c \in Threads /\ c # "worker" /\ "submit" \in PointsOf(c)
  BY MutationAssumption DEF Threads, PointsOf
<1>3. Resume(c, "submit", a)
  OBVIOUS
<1> HIDE DEF a
<1>4. ASSUME NEW b, b = a PROVE FitsAs(c, "submit", b)'
  <2>1. b.data = d /\ Asks(d)' /\ Seen(d)'
    BY <1>1, <1>4 DEF Asks, Seen
  <2>2. QED
    BY <1>2, <2>1 DEF FitsAs, PointsOf, InHand, Seen
<1>5. ASSUME NEW b, b = a PROVE HoldsAs(c, "submit", b)' /\ TellsAs(c, "submit", b)'
  BY <1>2 DEF HoldsAs, TellsAs, InHand
<1>6. Draws(c, "submit", a) /\ Alone(c, "submit", a)
  BY <1>1 DEF Draws, Alone, InHand, Seen, Asks
<1>7. TablesSame /\ Counting
  BY CountsSame DEF TablesSame, rows
<1>8. ASSUME NEW b, b = a PROVE StepOf(c)
  BY <1>1, <1>2, <1>3, <1>4, <1>5, <1>6, <1>7, <1>8, StepIntro DEF Suits
<1>9. QED
  BY <1>8

-----------------------------------------------------------------------------
(* The routes.                                                             *)

\* A route that accepts the request d.
LEMMA IntendStep ==
    ASSUME RowsOK, NEW c \in Clients, NEW d \in RowData, Intend(c, d),
           d.kind \in DOMAIN TypeOf => Asks(d) /\ Seen(d),
           d.kind = "create" => Fresh(c, d.world)
    PROVE  StepOf(c)
<1>1. d.kind \in DOMAIN TypeOf
  BY MutationAssumption DEF Intend
<1>2. QED
  BY <1>1, StepSubmit DEF Intend, stored

\* A request for a creation is a step of its client.
LEMMA CreateStep ==
    ASSUME RowsOK, NEW c \in Clients, NEW w \in Worlds, NEW n \in Names, NEW p \in Ports,
           RequestCreate(c, w, n, p)
    PROVE  StepOf(c)
<1> DEFINE d == [NoData EXCEPT !.kind = "create", !.world = w, !.name = n, !.port = p]
<1>1. /\ d \in RowData /\ d.kind = "create" /\ d.world = w /\ d.name = n /\ d.port = p
      /\ d.version = 0
  BY KindTypes, NoDataRow DEF NoData, RowData
<1>2. Intend(c, d) /\ Fresh(c, w)
  BY DEF RequestCreate, Fresh
<1> HIDE DEF d
<1>3. Asks(d) /\ Seen(d)
  BY <1>1, KindTypes DEF Asks, Seen, FileEdits
<1>4. QED
  BY <1>1, <1>2, <1>3, IntendStep

\* So is one for another port,
LEMMA ConfigStep ==
    ASSUME RowsOK, WorldsOK, NEW c \in Clients, NEW w \in Worlds, NEW p \in Ports,
           RequestConfig(c, w, p)
    PROVE  StepOf(c)
<1> DEFINE v == world[w].version
           d == [NoData EXCEPT !.kind = "config", !.world = w, !.port = p, !.version = v]
<1>0. v \in Nat
  BY WorldFields
<1>1. Intend(c, d) /\ Live(w) /\ v = world[w].version
  BY DEF RequestConfig
<1> HIDE DEF v
<1>2. /\ d \in RowData /\ d.kind = "config" /\ d.world = w /\ d.port = p /\ d.version = v
  BY <1>0, KindTypes, NoDataRow DEF NoData, RowData
<1> HIDE DEF d
<1>3. Asks(d) /\ Seen(d)
  BY <1>0, <1>1, <1>2, KindTypes DEF Asks, Seen, FileEdits, Live
<1>4. QED
  BY <1>1, <1>2, <1>3, IntendStep

\* one for another name,
LEMMA RenameStep ==
    ASSUME RowsOK, WorldsOK, NEW c \in Clients, NEW w \in Worlds, NEW n \in Names,
           RequestRename(c, w, n)
    PROVE  StepOf(c)
<1> DEFINE v == world[w].version
           d == [NoData EXCEPT !.kind = "rename", !.world = w, !.name = n, !.version = v]
<1>0. v \in Nat
  BY WorldFields
<1>1. Intend(c, d) /\ Live(w) /\ v = world[w].version
  BY DEF RequestRename
<1> HIDE DEF v
<1>2. /\ d \in RowData /\ d.kind = "rename" /\ d.world = w /\ d.name = n /\ d.version = v
  BY <1>0, KindTypes, NoDataRow DEF NoData, RowData
<1> HIDE DEF d
<1>3. Asks(d) /\ Seen(d)
  BY <1>0, <1>1, <1>2, KindTypes DEF Asks, Seen, FileEdits, Live
<1>4. QED
  BY <1>1, <1>2, <1>3, IntendStep

\* one for an edit of files,
LEMMA FileEditStep ==
    ASSUME RowsOK, WorldsOK, NEW c \in Clients, NEW w \in Worlds, NEW kind \in FileEdits,
           NEW from \in Paths, NEW to \in Paths, RequestFileEdit(c, w, kind, from, to)
    PROVE  StepOf(c)
<1> DEFINE n == world[w].name
           d == [NoData EXCEPT !.kind = kind, !.world = w, !.name = n, !.from = from, !.to = to]
<1>1. Intend(c, d) /\ Live(w)
  BY DEF RequestFileEdit, Directory
<1>2. n \in Names
  BY <1>1 DEF WorldsOK, Live
<1> HIDE DEF n
<1>3. /\ d \in RowData /\ d.kind = kind /\ d.world = w /\ d.name = n
      /\ d.from = from /\ d.to = to
  BY <1>2, KindTypes, NoDataRow DEF NoData, RowData, FileEdits
<1> HIDE DEF d
<1>4. Asks(d) /\ Seen(d) /\ d.kind # "create"
  BY <1>1, <1>2, <1>3, KindTypes DEF Asks, Seen, FileEdits, Live, Versioned
<1>5. QED
  BY <1>1, <1>3, <1>4, IntendStep

\* and one for a start or a stop.
LEMMA RuntimeStep ==
    ASSUME RowsOK, WorldsOK, NEW c \in Clients, NEW w \in Worlds,
           RequestStart(c, w) \/ RequestStop(c, w)
    PROVE  StepOf(c)
<1>1. PICK kind \in {"start", "stop"} :
         Live(w) /\ Intend(c, [NoData EXCEPT !.kind = kind, !.world = w])
  BY DEF RequestStart, RequestStop
<1> DEFINE d == [NoData EXCEPT !.kind = kind, !.world = w]
<1>2. d \in RowData /\ d.kind = kind /\ d.world = w /\ Intend(c, d)
  BY <1>1, KindTypes, NoDataRow DEF NoData, RowData
<1> HIDE DEF d
<1>3. Asks(d) /\ Seen(d) /\ d.kind # "create"
  BY <1>1, <1>2, KindTypes DEF Asks, Seen, FileEdits, Live, Versioned
<1>4. QED
  BY <1>2, <1>3, IntendStep

\* A deletion that is refused leaves the tables and the threads alone.
LEMMA DeleteStep ==
    ASSUME RowsOK, RestOK, NEW c \in Clients, RequestDelete(c)
    PROVE  StepOf(c) \/ UNCHANGED <<rows, world, commits, pc, at>>
<1>1. CASE UNCHANGED <<pc, at>>
  BY <1>1 DEF RequestDelete, stored
<1>2. CASE ~UNCHANGED <<pc, at>>
  <2> DEFINE d == previews[c]
  <2>1. d \in RowData /\ Asks(d) /\ Seen(d) /\ d.kind = "delete"
    BY DEF RequestDelete, RestOK, PreviewsOK
  <2>2. Resume(c, "submit", [NoArgs EXCEPT !.data = d]) /\ UNCHANGED <<rows, world, commits>>
    BY <1>2 DEF RequestDelete, stored
  <2> HIDE DEF d
  <2>3. QED
    BY <2>1, <2>2, StepSubmit
<1>3. QED
  BY <1>1, <1>2

\* An upload that has been received waits to be written.
LEMMA UploadStep ==
    ASSUME RowsOK, WorldsOK, NEW c \in Clients, NEW w \in Worlds, NEW path \in Paths,
           NEW x \in Contents, RequestUpload(c, w, path, x)
    PROVE  StepOf(c)
<1> DEFINE n == world[w].name
           d == [NoData EXCEPT !.name = n, !.to = path]
           a == [NoArgs EXCEPT !.staged = x, !.data = d]
<1>1. /\ Resume(c, "upload", a) /\ Live(w) /\ UNCHANGED <<rows, world, commits>>
  BY DEF RequestUpload, Directory, stored
<1>2. n \in Names
  BY <1>1 DEF WorldsOK, Live
<1> HIDE DEF n
<1>3. d \in RowData /\ d.name = n /\ d.to = path /\ d.world = None
  BY <1>2, NoDataRow DEF NoData, RowData
<1> HIDE DEF d
<1>4. a \in Args /\ a.data = d /\ a.staged = x
  BY <1>3, ArgsOfUpload
<1>5. c \in Threads /\ c # "worker" /\ "upload" \in PointsOf(c) /\ None \notin Worlds
  BY MutationAssumption DEF Threads, PointsOf
<1> HIDE DEF a
<1>6. ASSUME NEW b, b = a PROVE Suits(c, "upload", b)'
  BY <1>2, <1>3, <1>4, <1>5, <1>6 DEF Suits, FitsAs, HoldsAs, TellsAs, InHand, PointsOf
<1>7. Draws(c, "upload", a) /\ Alone(c, "upload", a)
  BY <1>3, <1>4, <1>5 DEF Draws, Alone, InHand
<1>8. TablesSame /\ Counting
  BY <1>1, CountsSame DEF TablesSame, rows
<1>9. ASSUME NEW b, b = a PROVE StepOf(c)
  BY <1>1, <1>4, <1>5, <1>6, <1>7, <1>8, <1>9, StepIntro
<1>10. QED
  BY <1>9

\* An upload is written, and its thread is done.
LEMMA WriteUploadStep ==
    ASSUME RowsOK, NEW c \in Clients, WriteUpload(c)
    PROVE  StepOf(c)
<1>1. TablesSame /\ Counting /\ Resume(c, "idle", NoArgs)
  BY CountsSame DEF WriteUpload, TablesSame, rows
<1>2. QED
  BY <1>1, StepIdle DEF Threads

-----------------------------------------------------------------------------
(* The row a thread has in hand.                                           *)

\* What a thread with a row in hand knows of it.
LEMMA RowInHand ==
    ASSUME RowsOK, ThreadsOK, Held, NEW t \in Threads, pc[t] \in InHand
    PROVE  LET i == at[t].op IN
           /\ i \in Rows /\ i \in Ops!OpId /\ at[t].data = data[i] /\ at[t] \in Args
           /\ ops[i].status = IF pc[t] = "rename" THEN "Queued" ELSE "Running"
           /\ t \in Clients => data[i].kind = "rename"
           /\ t = "worker" => data[i].kind # "rename"
<1>1. /\ at[t].op \in Rows /\ at[t].data = data[at[t].op] /\ at[t] \in Args
      /\ t \in Clients => at[t].data.kind = "rename"
      /\ t = "worker" => at[t].data.kind # "rename"
  BY DEF ThreadsOK, Fits, FitsAs
<1>2. ops[at[t].op].status = IF pc[t] = "rename" THEN "Queued" ELSE "Running"
  BY DEF Held, HoldsAs
<1>3. QED
  BY <1>1, <1>2, RowNumbers

\* No other thread works on it.
LEMMA Unshared ==
    ASSUME RowsOK, ThreadsOK, Held, NEW t \in Threads, pc[t] \in InHand, NEW s \in Threads \ {t}
    PROVE  ~Works(s, at[t].op)
<1>1. /\ at[t].op \in Rows
      /\ t \in Clients => data[at[t].op].kind = "rename"
      /\ t = "worker" => data[at[t].op].kind # "rename"
  BY RowInHand
<1>2. pc[s] \in InHand =>
          /\ s \in Clients => data[at[s].op].kind = "rename"
          /\ s = "worker" => data[at[s].op].kind # "rename"
  BY RowInHand
<1>3. s = "worker" => \A i \in at[s].todo : data[i].kind # "rename"
  BY DEF Held, HoldsAs, Queued, FileEdits
<1>4. pc[s] \in InHand /\ s \in Clients /\ t \in Clients => at[s].op # at[t].op
  BY DEF Held
<1>5. QED
  BY <1>1, <1>2, <1>3, <1>4 DEF Works, Threads

\* Nor does a client work on the dispatcher's rows.
LEMMA ClientsApart ==
    ASSUME RowsOK, ThreadsOK, Held, NEW s \in Clients, NEW i \in Rows, data[i].kind # "rename"
    PROVE  ~Works(s, i)
<1>1. s \in Threads /\ s # "worker"
  BY MutationAssumption DEF Threads
<1>2. QED
  BY <1>1, RowInHand DEF Works

\* A thread with a row in hand names the world of that row.
LEMMA DrawsRow ==
    ASSUME NEW t, NEW p, p # "submit", NEW a, NEW i \in Rows, a.data = data[i]
    PROVE  Draws(t, p, a)
BY DEF Draws

\* A thread that keeps its row in hand stays the only one.
LEMMA AloneStays ==
    ASSUME Held, NEW t, NEW p, pc[t] \in InHand, NEW a, a.op = at[t].op
    PROVE  Alone(t, p, a)
BY DEF Held, Alone

\* The points a thread moves to with its row in hand.
LEMMA InHandPoints ==
    /\ \A c \in Clients : {"rename", "write", "complete", "fail", "idle"} \subseteq PointsOf(c)
    /\ {"runtime", "pass", "apply", "stage", "replace", "complete", "fail", "idle"}
          \subseteq PointsOf("worker")
    /\ {"rename", "write", "runtime", "apply", "stage", "replace", "complete", "fail"} = InHand
    /\ Clients \subseteq Threads /\ "worker" \in Threads /\ "worker" \notin Clients
    /\ Threads \ {"worker"} = Clients
BY MutationAssumption DEF PointsOf, InHand, Threads

\* The engine's counters after a transition, a claim, and an insertion.
LEMMA TransitionCounts ==
    ASSUME RowsOK, NEW i \in Ops!OpId, NEW st, Ops!Transition(i, st)
    PROVE  Counting
BY DEF RowsOK, Ops!TypeOK, Ops!Transition, Counting

\* A claim takes no number,
LEMMA ClaimCounts ==
    ASSUME RowsOK, NEW i \in Ops!OpId, Ops!Claim(i)
    PROVE  Counting
BY DEF RowsOK, Ops!TypeOK, Ops!Claim, Counting

\* and a new row takes the next.
LEMMA OpenCounts ==
    ASSUME RowsOK, NEW r, Ops!Create(r)
    PROVE  Counting
<1>1. /\ audits \in [Ops!OpId -> Nat] /\ claims \in [Ops!OpId -> Nat] /\ claims' = claims
      /\ audits' = [j \in Ops!OpId |-> IF j \in Ops!TerminalAudits(r) THEN audits[j] + 1
                                                                     ELSE audits[j]]
  BY DEF RowsOK, Ops!TypeOK, Ops!Create
<1>2. QED
  BY <1>1 DEF Counting

\* A committed change grants its row.
LEMMA GrantedByCommit ==
    ASSUME NEW i \in Rows, NEW d, d = data[i], NEW new, Commit(i, d.world, new), data' = data,
           new.version = d.version + 1, Grants(new, d)
    PROVE  Granted(i)'
<1> DEFINE x == [op |-> i, world |-> d.world, row |-> new]
<1>1. x \in commits' /\ x.world = d.world /\ x.row = new
  BY DEF Commit
<1> HIDE DEF x
<1>2. data'[i] = d /\ Grants(x.row, d)
  BY <1>1
<1>3. QED
  BY <1>1, <1>2 DEF Granted, Grants

-----------------------------------------------------------------------------
(* The clients' rows.                                                      *)

\* enqueue_world_mutation: the row is queued, or the request is refused.
LEMMA SubmitRowStep ==
    ASSUME RowsOK, ThreadsOK, Held, NEW c \in Clients, Submit(c)
    PROVE  StepOf(c)
<1> DEFINE d == at[c].data
           n == issued + 1
           r == OpRequest(d)
           refused == ~(Ops!Repeated(r) = {} /\ Ops!Admissible(r) /\ issued < MaxOps)
<1>0. /\ c \in Threads /\ c # "worker" /\ pc[c] = "submit" /\ at[c] \in Args
      /\ UNCHANGED <<world, commits>>
  BY InHandPoints DEF Submit, ThreadsOK, stored
<1>1. d \in RowData /\ Asks(d) /\ Seen(d)
  BY <1>0 DEF ThreadsOK, Fits, FitsAs, Asks
<1>2. CASE refused
  <2>1. UNCHANGED rows /\ Resume(c, "idle", NoArgs)
    BY <1>2 DEF Submit, Insert
  <2>2. QED
    BY <1>0, <2>1, CountsSame, StepIdle DEF TablesSame, rows
<1>3. CASE ~refused
  <2> DEFINE next == IF d.kind = "rename" THEN "rename" ELSE "idle"
             a == [at[c] EXCEPT !.op = n]
  <2>1. Ops!Create(r) /\ data' = [data EXCEPT ![n] = d] /\ Resume(c, next, a)
    BY <1>3 DEF Submit, Insert
  <2>2. Opens(c) /\ Counting
    BY <1>0, <2>1, OpenCounts DEF Opens
  <2>3. CASE d.kind # "rename"
    BY <1>0, <2>1, <2>2, <2>3, StepIdle
  <2>4. CASE d.kind = "rename"
    <3>1. /\ n \in Ops!OpId /\ ops'[n].status = "Queued" /\ data'[n] = d
          /\ n \in Rows' /\ n \notin Rows /\ n \in 0 .. MaxOps
      BY <1>1, <2>2, OpenRows, RowNumbers
    <3>2. a \in Args /\ a.op = n /\ a.data = d
      BY <1>0, <3>1, ArgsOfRow
    <3>3. Resume(c, "rename", a)
      BY <2>1, <2>4
    <3> HIDE DEF a
    <3>4. ASSUME NEW b, b = a, NEW k, k = n PROVE Suits(c, "rename", b)'
      <4>1. /\ b.op = k /\ b.op \in Rows' /\ b.data = data'[b.op] /\ b.data.kind = "rename"
            /\ ops'[b.op].status = "Queued"
        BY <2>4, <3>1, <3>2, <3>4
      <4>2. QED
        BY <1>0, <4>1, InHandPoints DEF Suits, FitsAs, HoldsAs, TellsAs
    <3>5. Draws(c, "rename", a)
      BY <1>1, <2>4, <3>2 DEF Draws, Seen, Asks
    <3>6. Alone(c, "rename", a)
      BY <3>1, <3>2, InHandPoints, RowInHand DEF Alone
    <3>7. ASSUME NEW b, b = a PROVE StepOf(c)
      BY <1>0, <2>2, <3>1, <3>2, <3>3, <3>4, <3>5, <3>6, <3>7, InHandPoints, StepIntro
    <3>8. QED
      BY <3>7
  <2>5. QED
    BY <2>3, <2>4
<1>4. QED
  BY <1>2, <1>3

\* A thread that moves its row to a status, and goes on.
LEMMA SetStatusStep ==
    ASSUME RowsOK, ThreadsOK, Held, NEW t \in Threads, pc[t] \in InHand,
           NEW st \in {"Running", "Completed", "Failed"}, NEW next,
           SetStatus(t, st, next)
    PROVE  /\ Ops!Transition(at[t].op, st) /\ Resume(t, next, at[t])
           /\ Counting /\ UNCHANGED <<data, stored, previews, counters>>
<1>1. /\ at[t].op \in Ops!OpId
      /\ ops[at[t].op].status = IF pc[t] = "rename" THEN "Queued" ELSE "Running"
  BY RowInHand
<1>2. Ops!Transitionable(at[t].op)
  BY <1>1 DEF Ops!Transitionable, Ops!InFlight
<1>3. QED
  BY <1>1, <1>2, TransitionCounts DEF SetStatus

\* A client sets its own rename running: a step of that client.
LEMMA RunRenameStep ==
    ASSUME RowsOK, ThreadsOK, Held, Truthful, NEW c \in Clients, RunRename(c)
    PROVE  StepOf(c)
<1> DEFINE i == at[c].op
<1>0. c \in Threads /\ c # "worker" /\ pc[c] = "rename" /\ pc[c] \in InHand
  BY InHandPoints DEF RunRename
<1>1. /\ i \in Rows /\ i \in Ops!OpId /\ at[c].data = data[i] /\ at[c] \in Args
      /\ ops[i].status = "Queued" /\ data[i].kind = "rename"
  BY <1>0, RowInHand
<1>2. /\ Ops!Transition(i, "Running") /\ Resume(c, "write", at[c])
      /\ Counting /\ UNCHANGED <<data, stored>>
  BY <1>0, SetStatusStep DEF RunRename
<1>3. Turns(i, "Running")
  BY <1>1, <1>2 DEF Turns, Ops!Transition, stored
<1>4. ops'[i].status = "Running" /\ Rows' = Rows /\ data' = data /\ commits' = commits
  BY <1>1, <1>3, TurnRows DEF Turns, Rows
<1>5. CommitsOf(i) = {}
  BY <1>1 DEF Truthful, RowTells
<1>6. ASSUME NEW b, b = at[c], NEW k, k = i PROVE Suits(c, "write", b)'
  <2>1. /\ b.op = k /\ b.op \in Rows' /\ b.data = data'[b.op] /\ b.data.kind = "rename"
        /\ ops'[b.op].status = "Running" /\ CommitsOf(b.op)' = {}
    BY <1>1, <1>4, <1>5, <1>6 DEF CommitsOf
  <2>2. QED
    BY <1>0, <2>1, InHandPoints DEF Suits, FitsAs, HoldsAs, TellsAs
<1>7. Draws(c, "write", at[c]) /\ Alone(c, "write", at[c])
  BY <1>0, <1>1, DrawsRow, AloneStays
<1>8. RowStep(i) /\ \A s \in Threads \ {c} : ~Works(s, i)
  BY <1>0, <1>3, Unshared DEF RowStep
<1>9. ASSUME NEW b, b = at[c] PROVE StepOf(c)
  BY <1>0, <1>1, <1>2, <1>6, <1>7, <1>8, <1>9, InHandPoints, StepIntro
<1>10. QED
  BY <1>9

\* A rename is written under the version its client has read, or fails.
LEMMA WriteRenameStep ==
    ASSUME RowsOK, WorldsOK, ThreadsOK, Held, Truthful, NEW c \in Clients, Rename(c)
    PROVE  StepOf(c)
<1> DEFINE i == at[c].op
           d == at[c].data
           valid == world[d.world].version = d.version /\ NameFree(d.world, d.name)
<1>0. /\ c \in Threads /\ c # "worker" /\ pc[c] = "write" /\ pc[c] \in InHand
  BY InHandPoints DEF Rename
<1>1. /\ i \in Rows /\ i \in Ops!OpId /\ d = data[i] /\ at[c] \in Args
      /\ ops[i].status = "Running" /\ d.kind = "rename"
      /\ d \in RowData /\ Asks(d) /\ d.world \in Worlds
  BY <1>0, RowInHand, RowAsks
<1>2. UNCHANGED rows /\ Counting /\ CommitsOf(i) = {}
  BY <1>0, CountsSame DEF Rename, rows, Truthful, TellsAs
<1>3. Rows' = Rows /\ data' = data /\ ops' = ops /\ issued' = issued
  BY <1>2 DEF rows, Rows
<1>4. \A p : p # "submit" => Draws(c, p, at[c]) /\ Alone(c, p, at[c])
  BY <1>0, <1>1, DrawsRow, AloneStays
<1>5. \A p \in {"complete", "fail"} : \A b : b = at[c] => FitsAs(c, p, b)' /\ HoldsAs(c, p, b)'
  <2>1. SUFFICES ASSUME NEW p \in {"complete", "fail"}, NEW b, b = at[c]
                 PROVE  FitsAs(c, p, b)' /\ HoldsAs(c, p, b)'
    OBVIOUS
  <2>2. /\ b.op \in Rows' /\ b.data = data'[b.op] /\ b.data.kind = "rename"
        /\ ops'[b.op].status = "Running"
    BY <1>1, <1>3, <2>1
  <2>3. QED
    BY <1>0, <2>2, InHandPoints DEF FitsAs, HoldsAs
<1>6. CASE valid
  <2> DEFINE new == Renamed(d.world, d.name)
  <2>1. Commit(i, d.world, new) /\ Resume(c, "complete", at[c])
    BY <1>6 DEF Rename
  <2>2. Edited(d) = new
    BY <1>1 DEF Edited
  <2>3. Grants(new, d) /\ new.version = d.version + 1
    BY <1>1, <1>6, <2>2, EditedFields, EditedGrants DEF Versioned
  <2>4. Changes(i)
    BY <1>0, <1>1, <1>3, <1>6, <2>1, <2>2 DEF Changes, Versioned
  <2>5. RowStep(i) /\ \A s \in Threads \ {c} : ~Works(s, i)
    BY <1>0, <2>4, Unshared DEF RowStep
  <2> HIDE DEF new
  <2>6. ASSUME NEW k, k = i PROVE Granted(k)'
    BY <1>1, <1>3, <2>1, <2>3, <2>6, GrantedByCommit
  <2>7. ASSUME NEW b, b = at[c] PROVE Suits(c, "complete", b)'
    BY <1>5, <2>6, <2>7 DEF Suits, TellsAs
  <2>8. ASSUME NEW b, b = at[c] PROVE StepOf(c)
    BY <1>0, <1>1, <1>2, <1>4, <2>1, <2>5, <2>7, <2>8, InHandPoints, StepIntro
  <2>9. QED
    BY <2>8
<1>7. CASE ~valid
  <2>1. UNCHANGED <<world, commits>> /\ Resume(c, "fail", at[c])
    BY <1>7 DEF Rename
  <2>2. ASSUME NEW b, b = at[c] PROVE Suits(c, "fail", b)'
    BY <1>2, <1>5, <2>1, <2>2 DEF Suits, TellsAs, CommitsOf
  <2>3. TablesSame
    BY <1>3, <2>1 DEF TablesSame
  <2>4. ASSUME NEW b, b = at[c] PROVE StepOf(c)
    BY <1>0, <1>1, <1>2, <1>4, <2>1, <2>2, <2>3, <2>4, InHandPoints, StepIntro
  <2>5. QED
    BY <2>4
<1>8. QED
  BY <1>6, <1>7

\* A thread ends its row.
LEMMA EndStep ==
    ASSUME RowsOK, ThreadsOK, Held, NEW t \in Threads, End(t)
    PROVE  StepOf(t)
<1> DEFINE i == at[t].op
           next == IF t \in Clients \/ data[i].kind \notin Queued THEN "idle" ELSE "pass"
<1>1. PICK st \in {"Completed", "Failed"} :
         /\ pc[t] = (IF st = "Completed" THEN "complete" ELSE "fail")
         /\ SetStatus(t, st, next)
  BY DEF End
<1>2. pc[t] \in InHand /\ pc[t] # "rename"
  BY <1>1, InHandPoints
<1>3. /\ i \in Rows /\ i \in Ops!OpId /\ at[t].data = data[i] /\ at[t] \in Args
      /\ ops[i].status = "Running"
  BY <1>2, RowInHand
<1> HIDE DEF next
<1>4. /\ Ops!Transition(i, st) /\ Resume(t, next, at[t])
      /\ Counting /\ UNCHANGED <<data, stored>>
  BY <1>1, <1>2, SetStatusStep
<1>5. Turns(i, st)
  BY <1>1, <1>3, <1>4 DEF Turns, Ops!Transition, stored
<1>6. RowStep(i) /\ \A s \in Threads \ {t} : ~Works(s, i)
  BY <1>2, <1>5, Unshared DEF RowStep
<1>7. CASE next = "idle"
  BY <1>3, <1>4, <1>6, <1>7, StepIdle
<1>8. CASE next # "idle"
  <2>1. t = "worker" /\ data[i].kind \in Queued /\ next = "pass" /\ t \notin Clients
    BY <1>8, InHandPoints DEF next
  <2>2. Rows' = Rows /\ data' = data /\ \A j \in Rows \ {i} : ops'[j] = ops[j]
    BY <1>3, <1>5, TurnRows, RowNumbers DEF Turns, Rows
  <2>3. \A j \in at[t].todo :
            /\ j \in Rows \ {i} /\ data[j].kind \in Queued
            /\ ops[j].status \in {"Queued", "Running"}
            /\ j \in at[t].resumed => ops[j].status = "Running"
    BY <1>2, <2>1 DEF Held, HoldsAs
  <2>4. ASSUME NEW b, b = at[t] PROVE Suits(t, "pass", b)'
    <3>1. b.data.kind \in Queued
      BY <1>3, <2>1, <2>4
    <3>2. HoldsAs(t, "pass", b)'
      BY <2>2, <2>3, <2>4, InHandPoints DEF HoldsAs
    <3>3. QED
      BY <2>1, <3>1, <3>2, InHandPoints DEF Suits, FitsAs, TellsAs
  <2>5. Draws(t, "pass", at[t]) /\ Alone(t, "pass", at[t])
    BY <1>3, <2>1, DrawsRow DEF Alone
  <2>6. ASSUME NEW b, b = at[t] PROVE StepOf(t)
    BY <1>3, <1>4, <1>6, <2>1, <2>4, <2>5, <2>6, InHandPoints, StepIntro
  <2>7. QED
    BY <2>6
<1>9. QED
  BY <1>7, <1>8

-----------------------------------------------------------------------------
(* The dispatcher's pass.                                                  *)

\* The oldest row is one of the rows.
LEMMA MinOf ==
    ASSUME NEW S \in SUBSET Nat, S # {}
    PROVE  Min(S) \in S
<1> DEFINE R == {ss \in Nat \X Nat : ss[1] < ss[2]}
<1>1. IsWellFoundedOn(R, Nat)
  BY NatLessThanWellFounded DEF OpToRel
<1> HIDE DEF R
<1>2. PICK x \in S : \A y \in S : ~ (<<y, x>> \in R)
  BY <1>1, WFMin
<1>3. \A y \in S : x <= y
  <2>1. TAKE y \in S
  <2>2. ~(y < x)
    BY <1>2 DEF R
  <2>3. QED
    BY <2>2
<1>4. QED
  BY <1>3 DEF Min

\* What the worker has in its local variables.
LEMMA WorkerFields ==
    ASSUME ThreadsOK
    PROVE  /\ "worker" \in Threads /\ "worker" \notin Clients /\ Threads \ {"worker"} = Clients
           /\ at["worker"] \in Args
           /\ FitsAs("worker", pc["worker"], at["worker"])
BY InHandPoints DEF ThreadsOK, Fits

\* The dispatcher keeps its row in hand.
LEMMA KeepsRow ==
    ASSUME RowsOK, ThreadsOK, Held, pc["worker"] \in InHand,
           UNCHANGED <<issued, data>>, \A j \in Rows : ops'[j].status = ops[j].status,
           NEW p \in {"complete", "fail", "stage", "replace"}, NEW b \in Args,
           b.op = at["worker"].op, b.data = at["worker"].data, b.todo = at["worker"].todo,
           b.resumed = at["worker"].resumed,
           p \in {"stage", "replace"} => b.data.kind \in FileEdits,
           p = "stage" => b.data.kind = "copy",
           p = "replace" /\ b.data.kind = "copy" => b.staged \in Contents
    PROVE  /\ FitsAs("worker", p, b)' /\ HoldsAs("worker", p, b)'
           /\ Draws("worker", p, b) /\ Alone("worker", p, b)
<1>1. "worker" \in Threads /\ "worker" \notin Clients /\ p \in PointsOf("worker") /\ p \in InHand
  BY InHandPoints
<1>2. /\ b.op \in Rows /\ b.data = data[b.op] /\ data[b.op].kind # "rename"
      /\ ops[b.op].status = "Running"
  BY <1>1, InHandPoints, RowInHand, WorkerFields DEF FitsAs, PointsOf
<1>3. Rows' = Rows /\ data' = data
  BY DEF Rows
<1>4. FitsAs("worker", p, b)'
  BY <1>1, <1>2, <1>3 DEF FitsAs, PointsOf, InHand
<1>5. \A i \in b.todo : /\ i \in Rows /\ data[i].kind \in Queued
                        /\ ops[i].status \in {"Queued", "Running"}
                        /\ i \in b.resumed => ops[i].status = "Running"
                        /\ i # b.op
  BY <1>1 DEF Held, HoldsAs
<1>6. HoldsAs("worker", p, b)'
  BY <1>1, <1>2, <1>3, <1>5 DEF HoldsAs
<1>7. QED
  BY <1>1, <1>2, <1>4, <1>6, DrawsRow DEF Alone

\* A claim by the dispatcher.
LEMMA ClaimStep ==
    ASSUME RowsOK, ThreadsOK, Held, NEW i \in Ops!OpId, Ops!Claim(i), data[i].kind # "rename",
           UNCHANGED <<data, world, commits>>
    PROVE  /\ i \in Rows /\ RowStep(i) /\ Counting /\ ops'[i].status = "Running"
           /\ \A j \in Rows \ {i} : ops'[j] = ops[j]
           /\ Rows' = Rows
           /\ \A s \in Threads \ {"worker"} : ~Works(s, i)
<1>1. ops[i].status = "Queued"
  BY DEF Ops!Claim, Ops!Claimable
<1>2. i \in Rows
  BY <1>1, RowNumbers
<1>3. Turns(i, "Running")
  BY <1>1, <1>2 DEF Turns, Ops!Claim
<1>4. /\ ops'[i].status = "Running" /\ \A j \in Ops!OpId \ {i} : ops'[j] = ops[j]
      /\ issued' = issued
  BY <1>2, <1>3, TurnRows
<1>5. Rows \subseteq Ops!OpId /\ Rows' = Rows
  BY <1>4, RowNumbers DEF Rows
<1>6. \A s \in Threads \ {"worker"} : ~Works(s, i)
  BY <1>2, ClientsApart, WorkerFields
<1>7. QED
  BY <1>2, <1>3, <1>4, <1>5, <1>6, ClaimCounts DEF RowStep

\* The worker begins a start or a stop: a step of its own.
LEMMA BeginRuntimeStep ==
    ASSUME RowsOK, ThreadsOK, Held, NEW i \in 1 .. MaxOps, BeginRuntime(i)
    PROVE  StepOf("worker")
<1> DEFINE d == data[i]
           a == [NoArgs EXCEPT !.op = i, !.data = d]
<1>0. i \in Ops!OpId /\ i \in 0 .. MaxOps
  BY DEF Ops!OpId
<1>1. /\ d.kind \in {"start", "stop"} /\ Ops!Claim(i) /\ Resume("worker", "runtime", a)
      /\ UNCHANGED <<data, world, commits>> /\ d \in RowData
  BY DEF BeginRuntime, stored, RowsOK
<1>2. /\ i \in Rows /\ RowStep(i) /\ Counting /\ ops'[i].status = "Running"
      /\ Rows' = Rows /\ \A s \in Threads \ {"worker"} : ~Works(s, i)
  BY <1>0, <1>1, ClaimStep
<1>3. a \in Args /\ a.op = i /\ a.data = d /\ a.todo = {}
  BY <1>0, <1>1, ArgsOfRuntime
<1>4. Draws("worker", "runtime", a) /\ Alone("worker", "runtime", a)
  BY <1>2, <1>3, DrawsRow, WorkerFields DEF Alone
<1> HIDE DEF a
<1>5. ASSUME NEW b, b = a PROVE Suits("worker", "runtime", b)'
  <2>1. /\ b.op = i /\ b.data = data'[b.op] /\ b.op \in Rows' /\ b.data.kind \in {"start", "stop"}
        /\ ops'[b.op].status = "Running" /\ b.todo = {}
    BY <1>1, <1>2, <1>3, <1>5
  <2>2. QED
    BY <2>1, InHandPoints DEF Suits, FitsAs, HoldsAs, TellsAs
<1>6. ASSUME NEW b, b = a PROVE StepOf("worker")
  BY <1>1, <1>2, <1>3, <1>4, <1>5, <1>6, InHandPoints, StepIntro
<1>7. QED
  BY <1>6

\* So is the beginning of a pass, which lists the queued rows and those a crash left running,
LEMMA ScanStep ==
    ASSUME RowsOK, ThreadsOK, Scan
    PROVE  StepOf("worker")
<1> DEFINE S == Outstanding
           T == {i \in Outstanding : ops[i].status = "Running"}
           a == [NoArgs EXCEPT !.todo = S, !.resumed = T]
<1>1. /\ Resume("worker", "pass", a) /\ UNCHANGED rows /\ TablesSame /\ Counting
  BY CountsSame DEF Scan, rows, stored, TablesSame
<1>2. S \in SUBSET (1 .. MaxOps) /\ T \in SUBSET (1 .. MaxOps)
  BY RowNumbers DEF Outstanding
<1> HIDE DEF S, T
<1>3. a \in Args /\ a.todo = S /\ a.resumed = T /\ a.data = NoData
  BY <1>2, ArgsOfPass
<1> HIDE DEF a
<1>4. \A i \in S : /\ i \in Rows /\ data[i].kind \in Queued
                   /\ ops[i].status \in {"Queued", "Running"}
                   /\ i \in T => ops[i].status = "Running"
  BY DEF S, T, Outstanding
<1>5. Rows' = Rows /\ data' = data /\ ops' = ops
  BY <1>1 DEF rows, Rows
<1>6. Draws("worker", "pass", a) /\ Alone("worker", "pass", a)
  BY <1>3, NoDataRow, WorkerFields, MutationAssumption DEF Draws, Alone
<1>7. ASSUME NEW b, b = a PROVE Suits("worker", "pass", b)'
  BY <1>3, <1>4, <1>5, <1>7, NoDataRow, InHandPoints DEF Suits, FitsAs, HoldsAs, TellsAs
<1>8. ASSUME NEW b, b = a PROVE StepOf("worker")
  BY <1>1, <1>3, <1>6, <1>7, <1>8, InHandPoints, StepIntro
<1>9. QED
  BY <1>8

\* its end,
LEMMA EndPassStep ==
    ASSUME RowsOK, EndPass
    PROVE  StepOf("worker")
<1>1. TablesSame /\ Counting /\ Resume("worker", "idle", NoArgs)
  BY CountsSame DEF EndPass, TablesSame, rows, stored
<1>2. QED
  BY <1>1, StepIdle, InHandPoints

\* and taking the next row: a queued one is claimed, one left running is resumed.
LEMMA TakeStep ==
    ASSUME RowsOK, ThreadsOK, Held, Take
    PROVE  StepOf("worker")
<1> DEFINE S == at["worker"].todo
           i == Min(S)
           d == data[i]
           a == Rest(i)
<1>0. pc["worker"] = "pass" /\ S # {} /\ UNCHANGED <<data, world, commits>>
      /\ at["worker"] \in Args /\ S \in SUBSET Nat
  BY WorkerFields DEF Take, stored, Args
<1>1. i \in S
  BY <1>0, MinOf
<1>2. \A j \in S : /\ j \in Rows /\ data[j].kind \in Queued
                   /\ ops[j].status \in {"Queued", "Running"}
                   /\ j \in at["worker"].resumed => ops[j].status = "Running"
  BY WorkerFields DEF Held, HoldsAs
<1>3. /\ i \in Rows /\ i \in Ops!OpId /\ i \in 0 .. MaxOps /\ d.kind \in Queued
      /\ d \in RowData /\ d.kind # "rename"
  BY <1>1, <1>2, RowNumbers, RowAsks DEF Queued, FileEdits
<1>4. /\ \/ /\ i \in at["worker"].resumed /\ Resume("worker", "apply", a)
            /\ UNCHANGED <<ops, issued, audits, claims>>
         \/ Ops!Claim(i) /\ Resume("worker", "apply", a)
         \/ /\ Resume("worker", "pass", a)
            /\ UNCHANGED <<ops, issued, audits, claims>>
  BY DEF Take
<1>5. a = [at["worker"] EXCEPT !.todo = S \ {i}, !.op = i, !.data = d]
  BY DEF Rest
<1> HIDE DEF a
<1>6. a \in Args /\ a.op = i /\ a.data = d /\ a.todo = S \ {i} /\ a.resumed = at["worker"].resumed
  <2> HIDE DEF i, d
  <2>1. S = at["worker"].todo
    OBVIOUS
  <2> HIDE DEF S
  <2>2. ASSUME NEW b \in Args, b = at["worker"] PROVE
          /\ a \in Args /\ a.op = i /\ a.data = d /\ a.todo = S \ {i} /\ a.resumed = b.resumed
    <3>1. S \ {i} \in SUBSET (1 .. MaxOps) /\ S = b.todo
      BY <2>1, <2>2 DEF Args
    <3>2. a = [b EXCEPT !.todo = S \ {i}, !.op = i, !.data = d]
      BY <1>5, <2>2
    <3>3. QED
      BY <1>3, <3>1, <3>2 DEF Args
  <2>3. QED
    BY <1>0, <2>2
<1> HIDE DEF i, S
<1>7. \A p : p # "submit" => Draws("worker", p, a) /\ Alone("worker", p, a)
  BY <1>3, <1>6, DrawsRow, WorkerFields DEF Alone
<1>8. ASSUME Rows' = Rows, data' = data, \A j \in Rows \ {i} : ops'[j] = ops[j],
             NEW p \in {"apply", "pass"}, p = "apply" => ops'[i].status = "Running",
             NEW b, b = a
      PROVE  Suits("worker", p, b)'
  <2>1. b.op = i /\ b.op \in Rows' /\ b.data = data'[b.op] /\ b.data.kind \in Queued
        /\ b.data.kind # "rename"
    BY <1>3, <1>6, <1>8
  <2>2. \A j \in b.todo : /\ j \in Rows' /\ data'[j].kind \in Queued
                          /\ ops'[j].status \in {"Queued", "Running"}
                          /\ j \in b.resumed => ops'[j].status = "Running"
                          /\ j # b.op
    BY <1>2, <1>6, <1>8
  <2>3. p # "complete" /\ p # "fail" /\ p # "write" /\ p \in PointsOf("worker")
        /\ "worker" \notin Clients /\ p # "rename" /\ p # "idle" /\ p # "submit" /\ p # "upload"
        /\ p \notin {"runtime", "stage", "replace"}
    BY <1>8, InHandPoints
  <2>4. FitsAs("worker", p, b)'
    BY <2>1, <2>3 DEF FitsAs, PointsOf
  <2>5. HoldsAs("worker", p, b)'
    BY <1>8, <2>1, <2>2, <2>3, InHandPoints DEF HoldsAs
  <2>6. TellsAs("worker", p, b)'
    BY <2>3 DEF TellsAs
  <2>7. QED
    BY <2>4, <2>5, <2>6 DEF Suits
<1>9. CASE UNCHANGED <<ops, issued, audits, claims>>
  <2>1. TablesSame /\ Counting /\ Rows' = Rows
    BY <1>0, <1>9, CountsSame DEF TablesSame, Rows
  <2>2. PICK p \in {"apply", "pass"} :
            Resume("worker", p, a) /\ (p = "apply" => ops'[i].status = "Running")
    <3>1. CASE i \in at["worker"].resumed /\ Resume("worker", "apply", a)
      BY <1>1, <1>2, <1>9, <3>1
    <3>2. CASE Resume("worker", "pass", a)
      BY <3>2
    <3>3. CASE Ops!Claim(i) /\ Resume("worker", "apply", a)
      <4>1. ops'[i].status = "Running"
        BY <1>0, <1>3, <3>3, ClaimStep
      <4>2. QED
        BY <3>3, <4>1
    <3>4. QED
      BY <1>4, <3>1, <3>2, <3>3
  <2>3. ASSUME NEW b, b = a PROVE StepOf("worker")
    <3>1. Suits("worker", p, b)'
      BY <1>0, <1>8, <1>9, <2>1, <2>2, <2>3
    <3>2. p # "idle" /\ p # "submit" /\ p \in PointsOf("worker")
      BY InHandPoints
    <3>3. QED
      BY <1>6, <1>7, <2>1, <2>2, <2>3, <3>1, <3>2, InHandPoints, StepIntro
  <2>4. QED
    BY <2>3
<1>10. CASE Ops!Claim(i) /\ Resume("worker", "apply", a)
  <2>1. /\ RowStep(i) /\ Counting /\ ops'[i].status = "Running" /\ Rows' = Rows
        /\ \A j \in Rows \ {i} : ops'[j] = ops[j]
        /\ \A s \in Threads \ {"worker"} : ~Works(s, i)
    BY <1>0, <1>3, <1>10, ClaimStep
  <2>2. ASSUME NEW b, b = a PROVE StepOf("worker")
    <3>1. Suits("worker", "apply", b)'
      BY <1>0, <1>8, <2>1, <2>2
    <3>2. QED
      BY <1>3, <1>6, <1>7, <1>10, <2>1, <2>2, <3>1, InHandPoints, StepIntro
  <2>3. QED
    BY <2>2
<1>11. QED
  BY <1>4, <1>9, <1>10

-----------------------------------------------------------------------------
(* The dispatcher applies a row.                                           *)

\* The row the dispatcher has in hand.
LEMMA WorkerRow ==
    ASSUME RowsOK, ThreadsOK, Held, pc["worker"] \in InHand
    PROVE  LET i == at["worker"].op  d == at["worker"].data IN
           /\ i \in Rows /\ i \in Ops!OpId /\ d = data[i] /\ at["worker"] \in Args
           /\ ops[i].status = "Running" /\ d.kind # "rename"
           /\ d \in RowData /\ Asks(d) /\ Seen(d) /\ d.world \in Worlds /\ d.version \in Nat
           /\ \A s \in Threads \ {"worker"} : ~Works(s, i)
<1>1. "worker" \in Threads /\ pc["worker"] # "rename"
  BY WorkerFields DEF FitsAs, PointsOf
<1>2. LET i == at["worker"].op IN
      /\ i \in Rows /\ i \in Ops!OpId /\ at["worker"].data = data[i] /\ at["worker"] \in Args
      /\ ops[i].status = "Running" /\ data[i].kind # "rename"
  BY <1>1, RowInHand
<1>3. data[at["worker"].op] \in RowData /\ data[at["worker"].op].version \in Nat
  BY <1>2, RowAsks DEF RowData
<1>4. QED
  BY <1>1, <1>2, <1>3, RowAsks, Unshared

\* The dispatcher reports that a row is done, or has failed.
LEMMA FinishStep ==
    ASSUME RowsOK, ThreadsOK, Held, pc["worker"] \in InHand, NEW valid \in BOOLEAN,
           Finish(valid), Counting, UNCHANGED <<issued, data>>,
           \A j \in Rows : ops'[j].status = ops[j].status,
           NEW i, i = at["worker"].op,
           valid /\ data[i].kind \in Altering => Granted(i)',
           ~valid => \A c \in CommitsOf(i)' : RenamedSince(c)',
           TablesSame \/ RowStep(i)
    PROVE  StepOf("worker")
<1> DEFINE p == IF valid THEN "complete" ELSE "fail"
           a == at["worker"]
<1>1. /\ "worker" \in Threads /\ p \in PointsOf("worker") /\ p \in {"complete", "fail"}
      /\ p # "idle" /\ Resume("worker", p, a)
  BY InHandPoints DEF Finish
<1>2. /\ i \in Rows /\ a.data = data[i] /\ a \in Args /\ \A s \in Threads \ {"worker"} : ~Works(s, i)
  BY WorkerRow
<1> HIDE DEF p
<1>3. ASSUME NEW b \in Args, b = a
      PROVE  /\ FitsAs("worker", p, b)' /\ HoldsAs("worker", p, b)'
             /\ Draws("worker", p, b) /\ Alone("worker", p, b)
  BY <1>1, <1>3, KeepsRow
<1>4. ASSUME NEW b, b = a PROVE TellsAs("worker", p, b)'
  <2>1. b.op = i /\ b.data.kind = data[i].kind
    BY <1>2, <1>4
  <2>2. CASE valid
    BY <2>1, <2>2 DEF TellsAs, p
  <2>3. CASE ~valid
    BY <2>1, <2>3 DEF TellsAs, p
  <2>4. QED
    BY <2>2, <2>3
<1>5. ASSUME NEW b, b = a PROVE StepOf("worker")
  BY <1>1, <1>2, <1>3, <1>4, <1>5, StepIntro DEF Suits
<1>6. QED
  BY <1>5

\* A row that is none of the four has changed no world.
LEMMA NoCommits ==
    ASSUME HistoryOK, RowsOK, NEW i \in Rows, data[i].kind \notin Altering
    PROVE  CommitsOf(i) = {}
BY ChangeRows, RowNumbers DEF CommitsOf, Rows

\* Ending a start or a stop turns its world on or off, and no field of it that a change sets.
LEMMA EndRuntimeStep ==
    ASSUME RowsOK, WorldsOK, HistoryOK, ThreadsOK, Held, EndRuntime
    PROVE  StepOf("worker")
<1> DEFINE i == at["worker"].op
           w == at["worker"].data.world
           start == at["worker"].data.kind = "start"
           valid == Live(w) /\ world[w].state = IF start THEN "off" ELSE "running"
<1>1. /\ pc["worker"] \in InHand /\ Finish(valid) /\ UNCHANGED <<rows, commits>>
      /\ world' = IF valid
                  THEN [world EXCEPT ![w].state = IF start THEN "running" ELSE "off"]
                  ELSE world
  BY InHandPoints DEF EndRuntime, Finish
<1>2. Counting /\ ops' = ops /\ data' = data /\ issued' = issued /\ commits' = commits
  BY <1>1, CountsSame DEF rows
<1>3. /\ i \in Rows /\ at["worker"].data = data[i] /\ ops[i].status = "Running"
      /\ data[i].kind \in {"start", "stop"}
  BY <1>1, WorkerRow, WorkerFields DEF EndRuntime, FitsAs
<1>4. data[i].kind \notin Altering
  BY <1>3 DEF Altering
<1>5. CommitsOf(i) = {}
  BY <1>3, <1>4, NoCommits
<1>6. valid \in BOOLEAN
  BY DEF Live, WorldsOK, WorldRow
<1>7. TablesSame \/ RowStep(i)
  <2>1. CASE valid
    <3>1. Switches(i, IF start THEN "running" ELSE "off")
      BY <1>1, <1>2, <1>3, <2>1 DEF Switches
    <3>2. QED
      BY <3>1 DEF RowStep
  <2>2. CASE ~valid
    BY <1>1, <1>2, <2>2 DEF TablesSame
  <2>3. QED
    BY <2>1, <2>2
<1> HIDE DEF valid
<1>8. ASSUME NEW k, k = i PROVE StepOf("worker")
  <2>1. CommitsOf(k)' = {}
    BY <1>2, <1>5, <1>8 DEF CommitsOf
  <2>2. QED
    BY <1>1, <1>2, <1>4, <1>6, <1>7, <1>8, <2>1, FinishStep
<1>9. QED
  BY <1>8

\* A world that is as its row asks has been made so by some change.
LEMMA GrantedByWorld ==
    ASSUME HistoryOK, NEW i \in Rows, NEW d, d = data[i], d.world \in Worlds,
           world[d.world].exists, world[d.world].version = d.version + 1,
           \/ /\ d.kind = "create"
              /\ world[d.world].name = d.name /\ world[d.world].port = d.port
           \/ d.kind = "delete" /\ world[d.world].deleted
           \/ d.kind = "config" /\ world[d.world].port = d.port
    PROVE  Granted(i)
<1>1. PICK c \in commits : c.world = d.world /\ Latest(c)
  BY DEF HistoryOK
<1>2. /\ c.row.version = d.version + 1 /\ c.row.name = world[d.world].name
      /\ c.row.port = world[d.world].port /\ c.row.deleted = world[d.world].deleted
  BY <1>1 DEF Latest
<1>3. Grants(c.row, d)
  BY <1>2 DEF Grants
<1>4. QED
  BY <1>1, <1>2, <1>3 DEF Granted

\* A row under way that has changed its world finds it so, unless it was renamed since.
LEMMA ChangedBefore ==
    ASSUME RowsOK, HistoryOK, Truthful, NEW i \in Rows, ops[i].status = "Running",
           data[i].kind # "rename", NEW c \in CommitsOf(i), ~RenamedSince(c)
    PROVE  /\ c \in commits /\ Asked(c) /\ c.op = i /\ c.op # 0
           /\ c.world = data[i].world /\ world[c.world] = c.row
           /\ c.row.version = data[i].version + 1 /\ Grants(c.row, data[i])
           /\ data[i].kind = "create" => c.row = Created(data[i])
           /\ data[i].kind = "config" => ~c.row.deleted
           /\ world[c.world].exists
<1>1. c \in commits /\ c.op = i /\ i # 0
  BY RowNumbers DEF CommitsOf, Rows
<1>2. world[c.world] = c.row
  BY DEF Truthful, RowTells
<1>3. Asked(c) /\ Numbered(c)
  BY <1>1 DEF HistoryOK
<1>4. QED
  BY <1>1, <1>2, <1>3 DEF Asked, Numbered

\* The same of the dispatcher's row.
LEMMA WorkerBefore ==
    ASSUME RowsOK, HistoryOK, ThreadsOK, Held, Truthful, pc["worker"] \in InHand,
           NEW c \in CommitsOf(at["worker"].op), ~RenamedSince(c)
    PROVE  LET d == at["worker"].data IN
           /\ c.world = d.world /\ world[d.world] = c.row
           /\ c.row.version = d.version + 1 /\ Grants(c.row, d)
           /\ d.kind = "create" => c.row = Created(d)
           /\ d.kind = "config" => ~c.row.deleted
           /\ world[d.world].exists
<1>1. ASSUME NEW i, i = at["worker"].op
      PROVE  /\ i \in Rows /\ c \in CommitsOf(i) /\ at["worker"].data = data[i]
             /\ ops[i].status = "Running" /\ data[i].kind # "rename"
  BY <1>1, WorkerRow
<1>2. ASSUME NEW i, i = at["worker"].op, NEW d, d = data[i]
      PROVE  /\ c.world = d.world /\ world[d.world] = c.row
             /\ c.row.version = d.version + 1 /\ Grants(c.row, d)
             /\ d.kind = "create" => c.row = Created(d)
             /\ d.kind = "config" => ~c.row.deleted
             /\ world[d.world].exists
  <2>1. /\ i \in Rows /\ c \in CommitsOf(i) /\ ops[i].status = "Running" /\ data[i].kind # "rename"
    BY <1>1, <1>2
  <2>2. QED
    BY <1>2, <2>1, ChangedBefore
<1>3. QED
  BY <1>1, <1>2

\* Carrying out a creation is a step of the worker: made, refused, or found made before a crash.
LEMMA ApplyCreateStep ==
    ASSUME RowsOK, WorldsOK, HistoryOK, ThreadsOK, Held, Truthful, ApplyCreate
    PROVE  StepOf("worker")
<1> DEFINE i == at["worker"].op
           d == at["worker"].data
           w == d.world
           insert == ~world[w].exists /\ NameFree(w, d.name) /\ PortFree(w, d.port)
           done == world[w] = Created(d)
<1>1. /\ pc["worker"] \in InHand /\ d.kind = "create"
      /\ (IF insert THEN Commit(i, w, Created(d)) ELSE UNCHANGED <<world, commits>>)
      /\ ops' = (IF insert \/ done THEN Adopted(i, w) ELSE ops)
      /\ Finish(insert \/ done) /\ UNCHANGED <<issued, audits, claims, data>>
  BY InHandPoints DEF ApplyCreate, Applying
<1>2. /\ i \in Rows /\ d = data[i] /\ d \in RowData /\ Asks(d) /\ w \in Worlds
      /\ ops[i].status = "Running"
  BY <1>1, WorkerRow
<1>3. Counting
  BY <1>1, CountsSame
<1>4. /\ Created(d) \in WorldRow /\ Created(d).version = 1 /\ d.version = 0
      /\ Created(d).exists = TRUE /\ Created(d).name = d.name /\ Created(d).port = d.port
      /\ Grants(Created(d), d)
  BY <1>1, <1>2, CreatedFields
<1>5. CASE insert
  <2>1. Commit(i, w, Created(d)) /\ ops' = Adopted(i, w) /\ Finish(TRUE)
    BY <1>1, <1>5
  <2>2. Creates(i)
    BY <1>1, <1>2, <1>5, <2>1 DEF Creates
  <2>3. RowStep(i)
    BY <2>2 DEF RowStep
  <2>4. \A j \in Rows : ops'[j].status = ops[j].status
    BY <1>2, <2>2, CreateRows, RowNumbers
  <2> DEFINE new == Created(d)
  <2>5. new.version = d.version + 1 /\ Grants(new, d) /\ Commit(i, w, new)
    BY <1>4, <2>1
  <2> HIDE DEF new
  <2>6. ASSUME NEW k, k = i PROVE Granted(k)'
    BY <1>1, <1>2, <2>5, <2>6, GrantedByCommit
  <2>7. ASSUME NEW k, k = i PROVE StepOf("worker")
    BY <1>1, <1>3, <2>1, <2>3, <2>4, <2>6, <2>7, FinishStep
  <2>8. QED
    BY <2>7
<1>6. CASE ~insert /\ done
  <2>1. UNCHANGED <<world, commits>> /\ ops' = Adopted(i, w) /\ Finish(TRUE)
    BY <1>1, <1>6
  <2>2. world[w].exists /\ world[w].version = d.version + 1
        /\ world[w].name = d.name /\ world[w].port = d.port
    BY <1>4, <1>6
  <2>3. ops[i].world = w
    BY <1>2, <2>2 DEF RowsOK, Named
  <2>4. ops' = ops
    <3>1. i \in Ops!OpId /\ ops \in [Ops!OpId -> Ops!Row] /\ ops[i] \in Ops!Row
      BY <1>2, RowNumbers DEF RowsOK, Ops!TypeOK
    <3>2. [ops[i] EXCEPT !.world = w] = ops[i]
      BY <2>3, <3>1 DEF Ops!Row
    <3> DEFINE row == [ops[i] EXCEPT !.world = w]
    <3>3. ops' = [ops EXCEPT ![i] = row]
      BY <2>1, <3>1 DEF Adopted
    <3>4. row = ops[i]
      BY <3>2
    <3> HIDE DEF row
    <3>5. QED
      BY <3>1, <3>3, <3>4
  <2>5. TablesSame
    BY <1>1, <2>1, <2>4 DEF TablesSame
  <2>6. Granted(i)
    BY <1>1, <1>2, <2>2, GrantedByWorld
  <2>7. ASSUME NEW k, k = i PROVE StepOf("worker")
    <3>1. Granted(k)'
      BY <1>1, <2>1, <2>6, <2>7 DEF Granted, Grants
    <3>2. QED
      BY <1>1, <1>3, <2>1, <2>4, <2>5, <2>7, <3>1, FinishStep
  <2>8. QED
    BY <2>7
<1>7. CASE ~insert /\ ~done
  <2>1. UNCHANGED <<world, commits>> /\ ops' = ops /\ Finish(FALSE)
    BY <1>1, <1>7
  <2>2. TablesSame
    BY <1>1, <2>1 DEF TablesSame
  <2>3. \A c \in CommitsOf(i) : RenamedSince(c)
    <3>1. SUFFICES ASSUME NEW c \in CommitsOf(i), ~RenamedSince(c) PROVE FALSE
      OBVIOUS
    <3>2. world[w] = Created(d)
      BY <1>1, <3>1, WorkerBefore
    <3>3. QED
      BY <1>7, <3>2
  <2>4. ASSUME NEW k, k = i PROVE StepOf("worker")
    <3>1. \A c \in CommitsOf(k)' : RenamedSince(c)'
      BY <1>1, <2>1, <2>3, <2>4 DEF CommitsOf, RenamedSince
    <3>2. QED
      BY <1>1, <1>3, <2>1, <2>2, <2>4, <3>1, FinishStep
  <2>5. QED
    BY <2>4
<1>8. QED
  BY <1>5, <1>6, <1>7

\* So is carrying out a deletion, refused when the world has changed or is not off,
LEMMA ApplyDeleteStep ==
    ASSUME RowsOK, WorldsOK, HistoryOK, ThreadsOK, Held, Truthful, ApplyDelete
    PROVE  StepOf("worker")
<1> DEFINE i == at["worker"].op
           d == at["worker"].data
           w == d.world
           new == [world[w] EXCEPT !.deleted = TRUE, !.version = @ + 1]
           valid == Live(w) /\ world[w].state = "off" /\ world[w].version = d.version
<1>1. /\ pc["worker"] \in InHand /\ d.kind = "delete"
      /\ (IF valid THEN Commit(i, w, new) ELSE UNCHANGED <<world, commits>>)
      /\ Finish(valid \/ DeletedBefore(d)) /\ UNCHANGED rows
  BY InHandPoints DEF ApplyDelete, Applying
<1>2. /\ i \in Rows /\ d = data[i] /\ d \in RowData /\ Asks(d) /\ w \in Worlds
      /\ ops[i].status = "Running"
  BY <1>1, WorkerRow
<1>3. Counting /\ ops' = ops /\ data' = data /\ issued' = issued
  BY <1>1, CountsSame DEF rows
<1>4. Edited(d) = new /\ d.kind \in Versioned /\ d.kind \in Altering
  BY <1>1 DEF Edited, Versioned, Altering
<1>5. CASE valid
  <2>1. Commit(i, w, new) /\ Finish(TRUE)
    BY <1>1, <1>5
  <2>2. Changes(i)
    BY <1>1, <1>2, <1>3, <1>4, <1>5, <2>1 DEF Changes
  <2>3. RowStep(i)
    BY <2>2 DEF RowStep
  <2>4. Grants(new, d) /\ new.version = d.version + 1
    BY <1>2, <1>4, <1>5, EditedFields, EditedGrants
  <2> HIDE DEF new
  <2>5. ASSUME NEW k, k = i PROVE Granted(k)'
    BY <1>2, <1>3, <2>1, <2>4, <2>5, GrantedByCommit
  <2>6. ASSUME NEW k, k = i PROVE StepOf("worker")
    BY <1>1, <1>3, <2>1, <2>3, <2>5, <2>6, FinishStep
  <2>7. QED
    BY <2>6
<1>6. CASE ~valid /\ DeletedBefore(d)
  <2>1. UNCHANGED <<world, commits>> /\ Finish(TRUE)
    BY <1>1, <1>6
  <2>2. TablesSame
    BY <1>3, <2>1 DEF TablesSame
  <2>3. world[w].deleted /\ world[w].version = d.version + 1 /\ world[w].exists
    BY <1>2, <1>6, WorldFields DEF DeletedBefore
  <2>4. Granted(i)
    BY <1>1, <1>2, <2>3, GrantedByWorld
  <2>5. ASSUME NEW k, k = i PROVE StepOf("worker")
    <3>1. Granted(k)'
      BY <1>3, <2>1, <2>4, <2>5 DEF Granted, Grants
    <3>2. QED
      BY <1>1, <1>3, <2>1, <2>2, <2>5, <3>1, FinishStep
  <2>6. QED
    BY <2>5
<1>7. CASE ~valid /\ ~DeletedBefore(d)
  <2>1. UNCHANGED <<world, commits>> /\ Finish(FALSE)
    BY <1>1, <1>7
  <2>2. TablesSame
    BY <1>3, <2>1 DEF TablesSame
  <2>3. \A c \in CommitsOf(i) : RenamedSince(c)
    <3>1. SUFFICES ASSUME NEW c \in CommitsOf(i), ~RenamedSince(c) PROVE FALSE
      OBVIOUS
    <3>2. /\ c.world = w /\ world[w] = c.row /\ c.row.version = d.version + 1
          /\ Grants(c.row, d)
      BY <1>1, <3>1, WorkerBefore
    <3>3. c.row.deleted
      BY <1>1, <3>2 DEF Grants
    <3>4. QED
      BY <1>7, <3>2, <3>3 DEF DeletedBefore
  <2>4. ASSUME NEW k, k = i PROVE StepOf("worker")
    <3>1. \A c \in CommitsOf(k)' : RenamedSince(c)'
      BY <1>3, <2>1, <2>3, <2>4 DEF CommitsOf, RenamedSince
    <3>2. QED
      BY <1>1, <1>3, <2>1, <2>2, <2>4, <3>1, FinishStep
  <2>5. QED
    BY <2>4
<1>8. QED
  BY <1>5, <1>6, <1>7

\* and another port, refused as well when the port is taken.
LEMMA ApplyConfigStep ==
    ASSUME RowsOK, WorldsOK, HistoryOK, ThreadsOK, Held, Truthful, ApplyConfig
    PROVE  StepOf("worker")
<1> DEFINE i == at["worker"].op
           d == at["worker"].data
           w == d.world
           new == [world[w] EXCEPT !.port = d.port, !.version = @ + 1]
           done == Live(w) /\ ConfiguredBefore(d)
           valid == Live(w) /\ ~ConfiguredBefore(d) /\ Configurable(d)
<1>1. /\ pc["worker"] \in InHand /\ d.kind = "config"
      /\ (IF valid THEN Commit(i, w, new) ELSE UNCHANGED <<world, commits>>)
      /\ Finish(done \/ valid) /\ UNCHANGED rows
  BY InHandPoints DEF ApplyConfig, Applying
<1>2. /\ i \in Rows /\ d = data[i] /\ d \in RowData /\ Asks(d) /\ w \in Worlds
      /\ ops[i].status = "Running"
  BY <1>1, WorkerRow
<1>3. Counting /\ ops' = ops /\ data' = data /\ issued' = issued
  BY <1>1, CountsSame DEF rows
<1>4. Edited(d) = new /\ d.kind \in Versioned /\ d.kind \in Altering
  BY <1>1 DEF Edited, Versioned, Altering
<1>5. CASE valid
  <2>1. Commit(i, w, new) /\ Finish(TRUE)
    BY <1>1, <1>5
  <2>2. /\ world[w].version = d.version /\ world[w].state = "off" /\ PortFree(w, d.port)
        /\ Live(w)
    BY <1>5 DEF Configurable
  <2>3. Changes(i)
    BY <1>1, <1>2, <1>3, <1>4, <2>1, <2>2 DEF Changes
  <2>4. RowStep(i)
    BY <2>3 DEF RowStep
  <2>5. Grants(new, d) /\ new.version = d.version + 1
    BY <1>2, <1>4, <2>2, EditedFields, EditedGrants
  <2> HIDE DEF new
  <2>6. ASSUME NEW k, k = i PROVE Granted(k)'
    BY <1>2, <1>3, <2>1, <2>5, <2>6, GrantedByCommit
  <2>7. ASSUME NEW k, k = i PROVE StepOf("worker")
    BY <1>1, <1>3, <2>1, <2>4, <2>6, <2>7, FinishStep
  <2>8. QED
    BY <2>7
<1>6. CASE ~valid /\ done
  <2>1. UNCHANGED <<world, commits>> /\ Finish(TRUE)
    BY <1>1, <1>6
  <2>2. TablesSame
    BY <1>3, <2>1 DEF TablesSame
  <2>3. world[w].port = d.port /\ world[w].version = d.version + 1 /\ world[w].exists
    BY <1>2, <1>6 DEF ConfiguredBefore, Live
  <2>4. Granted(i)
    BY <1>1, <1>2, <2>3, GrantedByWorld
  <2>5. ASSUME NEW k, k = i PROVE StepOf("worker")
    <3>1. Granted(k)'
      BY <1>3, <2>1, <2>4, <2>5 DEF Granted, Grants
    <3>2. QED
      BY <1>1, <1>3, <2>1, <2>2, <2>5, <3>1, FinishStep
  <2>6. QED
    BY <2>5
<1>7. CASE ~valid /\ ~done
  <2>1. UNCHANGED <<world, commits>> /\ Finish(FALSE)
    BY <1>1, <1>7
  <2>2. TablesSame
    BY <1>3, <2>1 DEF TablesSame
  <2>3. \A c \in CommitsOf(i) : RenamedSince(c)
    <3>1. SUFFICES ASSUME NEW c \in CommitsOf(i), ~RenamedSince(c) PROVE FALSE
      OBVIOUS
    <3>2. /\ c.world = w /\ world[w] = c.row /\ c.row.version = d.version + 1
          /\ Grants(c.row, d) /\ ~c.row.deleted /\ world[w].exists
      BY <1>1, <3>1, WorkerBefore
    <3>3. c.row.port = d.port
      BY <1>1, <3>2 DEF Grants
    <3>4. QED
      BY <1>7, <3>2, <3>3 DEF ConfiguredBefore, Live
  <2>4. ASSUME NEW k, k = i PROVE StepOf("worker")
    <3>1. \A c \in CommitsOf(k)' : RenamedSince(c)'
      BY <1>3, <2>1, <2>3, <2>4 DEF CommitsOf, RenamedSince
    <3>2. QED
      BY <1>1, <1>3, <2>1, <2>2, <2>4, <3>1, FinishStep
  <2>5. QED
    BY <2>4
<1>8. QED
  BY <1>5, <1>6, <1>7

\* The dispatcher takes a row of files to its next point.
LEMMA KeepStep ==
    ASSUME RowsOK, HistoryOK, ThreadsOK, Held, pc["worker"] \in InHand,
           UNCHANGED <<rows, world, commits>>, at["worker"].data.kind \in FileEdits,
           NEW p \in {"complete", "fail", "stage", "replace"}, NEW b \in Args,
           Resume("worker", p, b),
           b.op = at["worker"].op, b.data = at["worker"].data, b.todo = at["worker"].todo,
           b.resumed = at["worker"].resumed,
           p = "stage" => b.data.kind = "copy",
           p = "replace" /\ b.data.kind = "copy" => b.staged \in Contents
    PROVE  StepOf("worker")
<1>1. Counting /\ ops' = ops /\ data' = data /\ issued' = issued /\ commits' = commits /\ TablesSame
  BY CountsSame DEF rows, TablesSame
<1>2. b.op \in Rows /\ b.data = data[b.op] /\ data[b.op].kind \in FileEdits
  BY WorkerRow
<1>3. CommitsOf(b.op) = {} /\ b.data.kind \notin Altering
  BY <1>2, NoCommits DEF FileEdits, Altering
<1>4. /\ FitsAs("worker", p, b)' /\ HoldsAs("worker", p, b)'
      /\ Draws("worker", p, b) /\ Alone("worker", p, b)
  BY <1>1, <1>2, KeepsRow
<1>5. CommitsOf(b.op)' = {}
  BY <1>1, <1>3 DEF CommitsOf
<1>6. TellsAs("worker", p, b)'
  BY <1>3, <1>5 DEF TellsAs
<1>7. p # "idle" /\ p \in PointsOf("worker") /\ "worker" \in Threads
  BY InHandPoints
<1>8. QED
  BY <1>1, <1>4, <1>6, <1>7, StepIntro DEF Suits

\* The files that an edit is about.
LEMMA EditFiles ==
    ASSUME RowsOK, ThreadsOK, RestOK, Held, pc["worker"] \in InHand,
           at["worker"].data.kind \in FileEdits
    PROVE  LET d == at["worker"].data IN
           /\ d.name \in Names /\ d.from \in Paths /\ d.to \in Paths
           /\ files[d.name][d.from] \in Contents \cup {None}
           /\ files[d.name][d.to] \in Contents \cup {None}
           /\ at["worker"].op \in 1 .. MaxOps
           /\ at["worker"] \in Args
<1>1. LET d == at["worker"].data IN d.name \in Names /\ d.from \in Paths /\ d.to \in Paths
  BY WorkerRow DEF Asks
<1>2. at["worker"].op \in 1 .. MaxOps /\ at["worker"] \in Args
  BY WorkerRow DEF Ops!OpId
<1>3. QED
  BY <1>1, <1>2 DEF RestOK

\* Whoever examines, stages or replaces has a file edit in hand, and a copy to put in place.
LEMMA FilePoints ==
    ASSUME ThreadsOK, pc["worker"] \in {"stage", "replace"} \/ Applying(FileEdits)
    PROVE  /\ pc["worker"] \in InHand /\ at["worker"].data.kind \in FileEdits
           /\ pc["worker"] = "stage" => at["worker"].data.kind = "copy"
           /\ pc["worker"] = "replace" /\ at["worker"].data.kind = "copy" =>
                 at["worker"].staged \in Contents
BY WorkerFields, InHandPoints DEF FitsAs, Applying

\* Examining a file edit is a step of the worker: it is refused, found done, made, or goes on.
LEMMA ExamineStep ==
    ASSUME RowsOK, HistoryOK, ThreadsOK, RestOK, Held, ExamineFileEdit
    PROVE  StepOf("worker")
<1> DEFINE d == at["worker"].data
           a == [at["worker"] EXCEPT !.since = touches]
<1>1. /\ pc["worker"] \in InHand /\ d.kind \in FileEdits
      /\ UNCHANGED <<rows, world, commits>> /\ at["worker"] \in Args
  BY FilePoints, WorkerFields DEF ExamineFileEdit, stored
<1>2. CASE ~FileEdited(d) /\ Editable(d)
  <2> DEFINE p == IF d.kind = "copy" THEN "stage" ELSE "replace"
  <2>1. Resume("worker", p, a)
    BY <1>2 DEF ExamineFileEdit
  <2>2. /\ a \in Args /\ a.op = at["worker"].op /\ a.data = d /\ a.todo = at["worker"].todo
        /\ a.resumed = at["worker"].resumed
    BY <1>1, ArgsSince DEF RestOK
  <2>3. p \in {"stage", "replace"} /\ (p = "stage" => d.kind = "copy")
        /\ (p = "replace" => d.kind # "copy")
    OBVIOUS
  <2> HIDE DEF a, p
  <2>4. QED
    BY <1>1, <2>1, <2>2, <2>3, KeepStep
<1>3. CASE ~(~FileEdited(d) /\ Editable(d))
  <2>1. PICK p \in {"complete", "fail"} : Resume("worker", p, at["worker"])
    BY <1>3 DEF ExamineFileEdit, Finish
  <2>2. QED
    BY <1>1, <2>1, KeepStep
<1>4. QED
  BY <1>2, <1>3

\* So is staging a copy,
LEMMA StageStep ==
    ASSUME RowsOK, HistoryOK, ThreadsOK, RestOK, Held, StageCopy
    PROVE  StepOf("worker")
<1> DEFINE d == at["worker"].data
           source == files[d.name][d.from]
           p == IF source = None THEN "fail" ELSE "replace"
           a == [at["worker"] EXCEPT !.staged = source]
<1>1. /\ pc["worker"] \in InHand /\ d.kind \in FileEdits
      /\ UNCHANGED <<rows, world, commits>> /\ at["worker"] \in Args
      /\ Resume("worker", p, a)
  BY FilePoints, WorkerFields DEF StageCopy, stored
<1>2. source \in Contents \cup {None}
  BY <1>1, EditFiles
<1>3. p \in {"fail", "replace"} /\ (p = "replace" => source \in Contents)
  BY <1>2
<1> HIDE DEF source, p
<1>4. /\ a \in Args /\ a.op = at["worker"].op /\ a.data = d /\ a.todo = at["worker"].todo
      /\ a.resumed = at["worker"].resumed /\ a.staged = source
  BY <1>1, <1>2, ArgsStaged
<1> HIDE DEF a
<1>5. QED
  BY <1>1, <1>3, <1>4, KeepStep

\* and putting it, or the file moved, in its place.
LEMMA ReplaceStep ==
    ASSUME RowsOK, HistoryOK, ThreadsOK, RestOK, Held, ReplaceTarget
    PROVE  StepOf("worker")
<1>1. PICK p \in {"complete", "fail"} : Resume("worker", p, at["worker"])
  BY DEF ReplaceTarget, Finish
<1>2. /\ pc["worker"] \in InHand /\ at["worker"].data.kind \in FileEdits
      /\ UNCHANGED <<rows, world, commits>> /\ at["worker"] \in Args
  BY FilePoints, WorkerFields DEF ReplaceTarget
<1>3. QED
  BY <1>1, <1>2, KeepStep

-----------------------------------------------------------------------------
(* Every step keeps the rows, the worlds and the threads in order.         *)

Inv ==
    /\ RowsOK /\ DrawnOnce /\ WorldsOK /\ HistoryOK /\ ThreadsOK
    /\ RestOK /\ Held /\ OneRuns /\ Truthful /\ Vacant

\* A step that is none of a thread: a preview, a file deleted.
Still == UNCHANGED <<rows, world, commits, pc, at>>

\* A crash takes the threads with it.
Crashed ==
    /\ UNCHANGED <<rows, world, commits>>
    /\ pc' = [t \in Threads |-> "idle"] /\ at' = [t \in Threads |-> NoArgs]

\* Every action is a step of one thread, a crash, or leaves tables and threads alone.
LEMMA NextStep ==
    ASSUME Inv, [Next]_vars
    PROVE  Still \/ Crashed \/ \E t \in Threads : StepOf(t)
<1> USE DEF Inv
<1>0. "worker" \in Threads /\ Clients \subseteq Threads
  BY InHandPoints
<1>1. CASE UNCHANGED vars
  BY <1>1 DEF vars, Still, stored
<1>2. ASSUME NEW c \in Clients, Metadata(c) PROVE Still \/ StepOf(c)
  <2>1. CASE RequestDelete(c)
    BY <2>1, DeleteStep DEF Still
  <2>2. ASSUME NEW w \in Worlds, Preview(c, w) PROVE Still
    BY <2>2 DEF Preview, Still, stored
  <2>3. ASSUME NEW w \in Worlds, RequestStart(c, w) \/ RequestStop(c, w) PROVE StepOf(c)
    BY <2>3, RuntimeStep
  <2>4. ASSUME NEW w \in Worlds, NEW p \in Ports, RequestConfig(c, w, p) PROVE StepOf(c)
    BY <2>4, ConfigStep
  <2>5. ASSUME NEW w \in Worlds, NEW n \in Names, RequestRename(c, w, n) PROVE StepOf(c)
    BY <2>5, RenameStep
  <2>6. ASSUME NEW w \in Worlds, NEW n \in Names, NEW p \in Ports, RequestCreate(c, w, n, p)
        PROVE  StepOf(c)
    BY <2>6, CreateStep
  <2>7. QED
    BY <1>2, <2>1, <2>2, <2>3, <2>4, <2>5, <2>6 DEF Metadata
<1>3. ASSUME NEW c \in Clients, Files(c) PROVE Still \/ StepOf(c)
  <2>1. ASSUME NEW w \in Worlds, NEW p \in Paths, NEW x \in Contents, RequestUpload(c, w, p, x)
        PROVE  StepOf(c)
    BY <2>1, UploadStep
  <2>2. ASSUME NEW w \in Worlds, NEW p \in Paths, NEW kind \in FileEdits, NEW to \in Paths,
               RequestFileEdit(c, w, kind, p, to)
        PROVE  StepOf(c)
    BY <2>2, FileEditStep
  <2>3. ASSUME NEW w \in Worlds, NEW p \in Paths, DeleteFile(w, p) PROVE Still
    BY <2>3 DEF DeleteFile, Still
  <2>4. QED
    BY <1>3, <2>1, <2>2, <2>3 DEF Files
<1>4. ASSUME NEW c \in Clients, Client(c) PROVE StepOf(c)
  <2>1. CASE Submit(c)
    BY <2>1, SubmitRowStep
  <2>2. CASE RunRename(c)
    BY <2>2, RunRenameStep
  <2>3. CASE Rename(c)
    BY <2>3, WriteRenameStep
  <2>4. CASE End(c)
    BY <1>0, <2>4, EndStep
  <2>5. CASE WriteUpload(c)
    BY <2>5, WriteUploadStep
  <2>6. QED
    BY <1>4, <2>1, <2>2, <2>3, <2>4, <2>5 DEF Client
<1>5. ASSUME Dispatcher PROVE StepOf("worker")
  <2>1. ASSUME NEW i \in 1 .. MaxOps, BeginRuntime(i) PROVE StepOf("worker")
    BY <2>1, BeginRuntimeStep
  <2>2. CASE EndRuntime
    BY <2>2, EndRuntimeStep
  <2>3. CASE Scan
    BY <2>3, ScanStep
  <2>4. CASE Take
    BY <2>4, TakeStep
  <2>5. CASE EndPass
    BY <2>5, EndPassStep
  <2>6. CASE ApplyCreate
    BY <2>6, ApplyCreateStep
  <2>7. CASE ApplyDelete
    BY <2>7, ApplyDeleteStep
  <2>8. CASE ApplyConfig
    BY <2>8, ApplyConfigStep
  <2>9. CASE ExamineFileEdit
    BY <2>9, ExamineStep
  <2>10. CASE StageCopy
    BY <2>10, StageStep
  <2>11. CASE ReplaceTarget
    BY <2>11, ReplaceStep
  <2>12. CASE End("worker")
    BY <1>0, <2>12, EndStep
  <2>13. QED
    BY <1>5, <2>1, <2>2, <2>3, <2>4, <2>5, <2>6, <2>7, <2>8, <2>9, <2>10, <2>11, <2>12
       DEF Dispatcher
<1>6. CASE ManagerCrash
  BY <1>6 DEF ManagerCrash, Crashed, stored
<1>7. QED
  BY <1>0, <1>1, <1>2, <1>3, <1>4, <1>5, <1>6 DEF Next

\* Whoever is about to submit asks for what the worlds it saw allow.
LEMMA Submits ==
    ASSUME ThreadsOK
    PROVE  Submitting
BY InHandPoints DEF Submitting, ThreadsOK, Fits, FitsAs

\* The tables follow the steps of the threads.
LEMMA TablesFollow ==
    ASSUME Inv, [Next]_vars
    PROVE  TablesStep
<1>1. CASE Still \/ Crashed
  <2>1. UNCHANGED <<rows, world, commits>>
    BY <1>1 DEF Still, Crashed
  <2>2. QED
    BY <2>1, CountsSame DEF TablesStep, TablesSame, rows, Inv
<1>2. ASSUME NEW t \in Threads, StepOf(t) PROVE TablesStep
  BY <1>2, StepTables
<1>3. QED
  BY <1>1, <1>2, NextStep

\* The tables' part of the invariant is inductive,
LEMMA TablesKept ==
    ASSUME Inv, [Next]_vars
    PROVE  RowsOK' /\ WorldsOK' /\ HistoryOK' /\ OneRuns' /\ \A i \in Rows' : RowTells(i)'
<1>1. TablesStep /\ Submitting
  BY TablesFollow, Submits DEF Inv
<1>2. WorldsOK'
  BY <1>1, WorldsStep DEF Inv
<1>3. RowsOK'
  BY <1>1, <1>2, RowsStep DEF Inv
<1>4. HistoryOK'
  BY <1>1, <1>2, HistoryStep DEF Inv
<1>5. OneRuns'
  BY <1>1, OneRunsStep DEF Inv
<1>6. \A i \in Rows' : RowTells(i)'
  BY <1>1, RowTellsStep DEF Inv, ThreadsOK
<1>7. QED
  BY <1>2, <1>3, <1>4, <1>5, <1>6

\* and so is the threads'.
LEMMA ThreadsKept ==
    ASSUME Inv, [Next]_vars
    PROVE  DrawnOnce' /\ ThreadsOK' /\ Held' /\ \A t \in Threads : TellsAs(t, pc[t], at[t])'
<1> USE DEF Inv
<1>1. CASE Still
  <2>1. /\ ops' = ops /\ issued' = issued /\ data' = data /\ world' = world /\ commits' = commits
        /\ pc' = pc /\ at' = at
    BY <1>1 DEF Still, rows
  <2>2. DrawnOnce'
    BY <2>1 DEF DrawnOnce, Fresh, Rows
  <2>3. Rows' = Rows
    BY <2>1 DEF Rows
  <2>4. \A t \in Threads : FitsAs(t, pc[t], at[t])'
    <3>1. SUFFICES ASSUME NEW t \in Threads, NEW p, p = pc[t], NEW a, a = at[t]
                   PROVE  FitsAs(t, p, a)'
      BY <2>1
    <3>2. FitsAs(t, p, a)
      BY <3>1 DEF ThreadsOK, Fits
    <3>3. RowsGrow /\ WorldsGrow /\ WorldsOK'
      BY TablesFollow, TablesKept, GrowStep, Submits DEF Submitting
    <3>4. QED
      BY <3>2, <3>3, FitsOn
  <2>5. \A t \in Threads : HoldsAs(t, pc[t], at[t])'
    BY <2>1, <2>3 DEF Held, HoldsAs
  <2>6. \A t \in Threads : TellsAs(t, pc[t], at[t])'
    <3>1. SUFFICES ASSUME NEW t \in Threads, NEW p, p = pc[t], NEW a, a = at[t]
                   PROVE  TellsAs(t, p, a)'
      BY <2>1
    <3>2. TellsAs(t, p, a)
      BY <3>1 DEF Truthful
    <3>3. QED
      BY <2>1, <3>2 DEF TellsAs, CommitsOf, Granted, Grants, RenamedSince
  <2>7. ThreadsOK'
    BY <2>1, <2>4 DEF ThreadsOK, Fits
  <2>8. Held'
    BY <2>1, <2>5 DEF Held
  <2>9. QED
    BY <2>2, <2>6, <2>7, <2>8
<1>2. CASE Crashed
  <2>1. /\ ops' = ops /\ issued' = issued /\ data' = data /\ world' = world /\ commits' = commits
        /\ \A t \in Threads : pc'[t] = "idle" /\ at'[t] = NoArgs
    BY <1>2 DEF Crashed, rows
  <2>2. DrawnOnce'
    BY <2>1, InHandPoints DEF DrawnOnce, Rows
  <2>3. \A t \in Threads : FitsAs(t, pc[t], at[t])'
    BY <2>1, NoArgsFields, NoDataRow DEF FitsAs, PointsOf, InHand
  <2>4. \A t \in Threads : HoldsAs(t, pc[t], at[t])'
    BY <2>1, NoArgsFields DEF HoldsAs, InHand
  <2>5. \A t \in Threads : TellsAs(t, pc[t], at[t])'
    BY <2>1 DEF TellsAs
  <2>6. ThreadsOK'
    <3>1. /\ pc' \in [Threads -> {"idle", "submit", "upload", "rename", "write", "runtime", "pass",
                                  "apply", "stage", "replace", "complete", "fail"}]
          /\ at' \in [Threads -> Args]
      BY <1>2, NoArgsFields DEF Crashed
    <3>2. \A t \in Threads : Fits(t)'
      BY <2>3 DEF Fits
    <3>3. QED
      BY <3>1, <3>2 DEF ThreadsOK
  <2>7. Held'
    BY <2>1, <2>4, InHandPoints DEF Held
  <2>8. QED
    BY <2>2, <2>5, <2>6, <2>7
<1>3. ASSUME NEW t \in Threads, StepOf(t)
      PROVE  DrawnOnce' /\ ThreadsOK' /\ Held' /\ \A s \in Threads : TellsAs(s, pc[s], at[s])'
  <2>1. Submitting /\ WorldsOK'
    BY Submits, TablesKept
  <2>2. DrawnOnce'
    BY <1>3, <2>1, DrawnStep
  <2>3. QED
    BY <1>3, <2>1, <2>2, ThreadsStep
<1>4. QED
  BY <1>1, <1>2, <1>3, NextStep

-----------------------------------------------------------------------------
(* The previews and the files.                                             *)

\* A preview taken stays one of a world that existed: worlds only grow.
LEMMA PreviewsStay ==
    ASSUME Inv, [Next]_vars, UNCHANGED previews
    PROVE  PreviewsOK'
<1>1. WorldsGrow /\ WorldsOK /\ WorldsOK'
  BY TablesFollow, TablesKept, GrowStep, Submits DEF Inv, Submitting
<1>2. ASSUME NEW c \in Clients, previews[c] # NoData
      PROVE  previews[c].kind = "delete" /\ Asks(previews[c])' /\ Seen(previews[c])'
  <2>1. ASSUME NEW d, d = previews[c] PROVE d.kind = "delete" /\ Asks(d)' /\ Seen(d)'
    <3>1. d.kind = "delete" /\ Asks(d) /\ Seen(d) /\ d \in RowData
      BY <1>2, <2>1 DEF Inv, RestOK, PreviewsOK
    <3>2. Seen(d)'
      BY <1>1, <3>1, SeenStays
    <3>3. QED
      BY <3>1, <3>2 DEF Asks
  <2>2. QED
    BY <2>1 DEF Asks, Seen
<1>3. previews' \in [Clients -> RowData]
  BY DEF Inv, RestOK, PreviewsOK
<1>4. QED
  BY <1>2, <1>3 DEF PreviewsOK

\* A step of a client that leaves the files and the previews alone.
LEMMA ClientQuiet ==
    ASSUME Inv, [Next]_vars, NEW c \in Clients, NEW p, NEW a, Resume(c, p, a),
           UNCHANGED <<files, edits, previews, touches, crashes>>
    PROVE  RestOK' /\ Vacant'
<1>1. pc'["worker"] = pc["worker"] /\ at'["worker"] = at["worker"]
  BY InHandPoints DEF Inv, ThreadsOK, Resume
<1>2. RestOK'
  BY <1>1, PreviewsStay DEF Inv, RestOK
<1>3. Vacant'
  BY <1>1 DEF Inv, Vacant
<1>4. QED
  BY <1>2, <1>3

\* A step of the dispatcher that does, and neither stages nor replaces next.
LEMMA WorkerQuiet ==
    ASSUME Inv, [Next]_vars, NEW p, p \notin {"stage", "replace"}, NEW a, a.since <= touches,
           Resume("worker", p, a),
           UNCHANGED <<files, edits, previews, touches, crashes>>
    PROVE  RestOK' /\ Vacant'
<1>1. pc'["worker"] = p /\ (at'["worker"] = a \/ at'["worker"] = NoArgs)
  BY InHandPoints DEF Inv, ThreadsOK, Resume
<1>2. at'["worker"].since <= touches
  BY <1>1, NoArgsFields DEF Inv, RestOK
<1>3. RestOK'
  BY <1>2, PreviewsStay DEF Inv, RestOK
<1>4. Vacant'
  BY <1>1 DEF Vacant
<1>5. QED
  BY <1>3, <1>4

\* A client writes or deletes a file.
LEMMA TouchQuiet ==
    ASSUME Inv, [Next]_vars, files' \in [Names -> [Paths -> Contents \cup {None}]],
           touches' = touches + 1, UNCHANGED <<edits, previews, crashes>>,
           at'["worker"] = at["worker"]
    PROVE  RestOK' /\ Vacant'
<1>1. touches \in Nat /\ at["worker"].since <= touches /\ at["worker"].since \in Nat
  BY WorkerFields DEF Inv, RestOK, Args
<1>2. edits' \subseteq [op : 1 .. MaxOps, life : 0 .. MaxCrashes, since : 0 .. touches']
  <2>1. 0 .. touches \subseteq 0 .. touches'
    BY <1>1
  <2>2. QED
    BY <2>1 DEF Inv, RestOK
<1>3. RestOK'
  BY <1>1, <1>2, PreviewsStay DEF Inv, RestOK
<1>4. at'["worker"].since # touches'
  BY <1>1
<1>5. Vacant'
  BY <1>4 DEF Vacant
<1>6. QED
  BY <1>3, <1>5

\* The step that writes an upload, and the one that deletes a file.
LEMMA ClientFiles ==
    ASSUME Inv, [Next]_vars, NEW c \in Clients, Files(c) \/ WriteUpload(c)
    PROVE  RestOK' /\ Vacant'
<1>0. files \in [Names -> [Paths -> Contents \cup {None}]]
  BY DEF Inv, RestOK
<1>1. CASE WriteUpload(c)
  <2> DEFINE n == at[c].data.name
             to == at[c].data.to
             x == at[c].staged
  <2>1. n \in Names /\ to \in Paths /\ x \in Contents
    BY <1>1, InHandPoints DEF WriteUpload, Inv, ThreadsOK, Fits, FitsAs
  <2>2. files' = [files EXCEPT ![n] = [files[n] EXCEPT ![to] = x]]
    BY <1>1 DEF WriteUpload
  <2> HIDE DEF n, to, x
  <2>3. files' \in [Names -> [Paths -> Contents \cup {None}]]
    <3>1. [files[n] EXCEPT ![to] = x] \in [Paths -> Contents \cup {None}]
      BY <1>0, <2>1
    <3>2. QED
      BY <1>0, <2>1, <2>2, <3>1
  <2>4. at'["worker"] = at["worker"]
    BY <1>1, InHandPoints DEF WriteUpload, Resume, Inv, ThreadsOK
  <2>5. QED
    BY <1>1, <2>3, <2>4, TouchQuiet DEF WriteUpload
<1>2. ASSUME NEW w \in Worlds, NEW p \in Paths, DeleteFile(w, p) PROVE RestOK' /\ Vacant'
  <2> DEFINE n == Directory(w)
  <2>1. n \in Names
    BY <1>2 DEF DeleteFile, Inv, WorldsOK, Directory, Live
  <2>2. files' = [files EXCEPT ![n] = [files[n] EXCEPT ![p] = None]]
    BY <1>2 DEF DeleteFile
  <2> HIDE DEF n
  <2>3. files' \in [Names -> [Paths -> Contents \cup {None}]]
    <3>1. [files[n] EXCEPT ![p] = None] \in [Paths -> Contents \cup {None}]
      BY <1>0, <2>1
    <3>2. QED
      BY <1>0, <2>1, <2>2, <3>1
  <2>4. QED
    BY <1>2, <2>3, TouchQuiet DEF DeleteFile
<1>3. ASSUME NEW w \in Worlds, NEW p \in Paths, NEW x \in Contents, RequestUpload(c, w, p, x)
      PROVE  RestOK' /\ Vacant'
  BY <1>3, ClientQuiet DEF RequestUpload, stored, counters
<1>4. ASSUME NEW w \in Worlds, NEW p \in Paths, NEW kind \in FileEdits, NEW to \in Paths,
             RequestFileEdit(c, w, kind, p, to)
      PROVE  RestOK' /\ Vacant'
  BY <1>4, ClientQuiet DEF RequestFileEdit, Intend, stored, counters
<1>5. QED
  BY <1>1, <1>2, <1>3, <1>4 DEF Files

\* The routes about the worlds, and their previews.
LEMMA ClientWorlds ==
    ASSUME Inv, [Next]_vars, NEW c \in Clients, Metadata(c)
    PROVE  RestOK' /\ Vacant'
<1>0. PreviewsOK /\ RestOK /\ Vacant
  BY DEF Inv, RestOK
<1>1. ASSUME PreviewsOK', UNCHANGED <<files, edits, touches, crashes>>,
             pc'["worker"] = pc["worker"], at'["worker"] = at["worker"]
      PROVE  RestOK' /\ Vacant'
  <2>1. RestOK'
    BY <1>0, <1>1 DEF RestOK
  <2>2. Vacant'
    BY <1>0, <1>1 DEF Vacant
  <2>3. QED
    BY <2>1, <2>2
<1>2. CASE RequestDelete(c)
  <2>1. world' = world /\ previews' = [previews EXCEPT ![c] = NoData]
    BY <1>2 DEF RequestDelete, stored
  <2>2. PreviewsOK'
    BY <1>0, <2>1, NoDataRow DEF PreviewsOK, Asks, Seen
  <2>3. pc'["worker"] = pc["worker"] /\ at'["worker"] = at["worker"]
    BY <1>2, InHandPoints DEF RequestDelete, Resume, Inv, ThreadsOK
  <2>4. QED
    BY <1>1, <1>2, <2>2, <2>3 DEF RequestDelete, stored, counters
<1>3. ASSUME NEW w \in Worlds, Preview(c, w) PROVE RestOK' /\ Vacant'
  <2> DEFINE v == world[w].version
             d == [NoData EXCEPT !.kind = "delete", !.world = w, !.version = v]
  <2>1. v \in Nat /\ Live(w) /\ v = world[w].version
    BY <1>3, WorldFields DEF Preview, Conflicting, Inv
  <2>2. world' = world /\ previews' = [previews EXCEPT ![c] = d]
    BY <1>3 DEF Preview, stored
  <2> HIDE DEF v
  <2>3. d \in RowData /\ d.kind = "delete" /\ d.world = w /\ d.version = v
    BY <2>1, KindTypes, NoDataRow DEF NoData, RowData
  <2> HIDE DEF d
  <2>4. Asks(d) /\ Seen(d)
    BY <2>1, <2>3, KindTypes DEF Asks, Seen, FileEdits, Live
  <2>5. PreviewsOK'
    BY <1>0, <2>2, <2>3, <2>4 DEF PreviewsOK, Asks, Seen
  <2>6. QED
    BY <1>1, <1>3, <2>5 DEF Preview, stored, counters
<1>4. ASSUME NEW d, Intend(c, d) PROVE RestOK' /\ Vacant'
  BY <1>4, ClientQuiet DEF Intend, stored, counters
<1>5. QED
  BY <1>2, <1>3, <1>4
     DEF Metadata, RequestStart, RequestStop, RequestConfig, RequestRename, RequestCreate

\* The client's steps with a row leave files alone and vacate no name.
LEMMA ClientRows ==
    ASSUME Inv, [Next]_vars, NEW c \in Clients,
           Submit(c) \/ RunRename(c) \/ Rename(c) \/ End(c)
    PROVE  RestOK' /\ Vacant'
<1>1. UNCHANGED <<files, edits, previews, touches, crashes>>
  BY DEF Submit, RunRename, Rename, End, SetStatus, stored, counters
<1>2. \E p, a : Resume(c, p, a)
  BY DEF Submit, Insert, RunRename, Rename, End, SetStatus
<1>3. QED
  BY <1>1, <1>2, ClientQuiet

-----------------------------------------------------------------------------
(* The dispatcher's steps on previews and files.                           *)

\* The dispatcher's steps that read and write no file.
LEMMA DispatcherQuiet ==
    ASSUME Inv, [Next]_vars,
           \/ \E i \in 1 .. MaxOps : BeginRuntime(i)
           \/ EndRuntime \/ Scan \/ Take \/ EndPass
           \/ ApplyCreate \/ ApplyDelete \/ ApplyConfig \/ End("worker")
    PROVE  RestOK' /\ Vacant'
<1>0. /\ at["worker"] \in Args /\ at["worker"].since <= touches
      /\ touches \in Nat /\ NoArgs \in Args /\ NoArgs.since = 0
  BY WorkerFields, NoArgsFields DEF Inv, RestOK
<1>1. ASSUME NEW i \in 1 .. MaxOps, BeginRuntime(i) PROVE RestOK' /\ Vacant'
  <2>1. ASSUME NEW a, a = [NoArgs EXCEPT !.op = i, !.data = data[i]] PROVE a.since <= touches
    BY <1>0, <2>1 DEF Args
  <2>2. QED
    BY <1>1, <2>1, WorkerQuiet DEF BeginRuntime, stored, counters
<1>2. CASE EndRuntime
  BY <1>0, <1>2, WorkerQuiet DEF EndRuntime, counters
<1>3. CASE Scan
  <2>1. ASSUME NEW S, NEW T, NEW a, a = [NoArgs EXCEPT !.todo = S, !.resumed = T]
        PROVE  a.since <= touches
    BY <1>0, <2>1 DEF Args
  <2>2. QED
    BY <1>3, <2>1, WorkerQuiet DEF Scan, stored, counters
<1>4. CASE Take
  <2>1. ASSUME NEW i PROVE Rest(i).since <= touches
    BY <1>0 DEF Rest, Args
  <2>2. \E i : \E p \in {"apply", "pass"} : Resume("worker", p, Rest(i))
    BY <1>4 DEF Take
  <2>3. UNCHANGED <<files, edits, previews, touches, crashes>>
    BY <1>4 DEF Take, stored, counters
  <2>4. QED
    BY <2>1, <2>2, <2>3, WorkerQuiet
<1>5. CASE EndPass
  BY <1>0, <1>5, WorkerQuiet DEF EndPass, stored, counters
<1>6. CASE ApplyCreate \/ ApplyDelete \/ ApplyConfig
  <2>1. \E p \in {"complete", "fail"} : Resume("worker", p, at["worker"])
    BY <1>6 DEF ApplyCreate, ApplyDelete, ApplyConfig, Finish
  <2>2. UNCHANGED <<files, edits, previews, touches, crashes>>
    BY <1>6 DEF ApplyCreate, ApplyDelete, ApplyConfig, counters
  <2>3. QED
    BY <1>0, <2>1, <2>2, WorkerQuiet
<1>7. CASE End("worker")
  <2>1. \E p \in {"idle", "pass"} : Resume("worker", p, at["worker"])
    BY <1>7 DEF End, SetStatus
  <2>2. UNCHANGED <<files, edits, previews, touches, crashes>>
    BY <1>7 DEF End, SetStatus, stored, counters
  <2>3. QED
    BY <1>0, <2>1, <2>2, WorkerQuiet
<1>8. QED
  BY <1>1, <1>2, <1>3, <1>4, <1>5, <1>6, <1>7

\* The look at the files: an edit that goes on has found its target free.
LEMMA ExamineQuiet ==
    ASSUME Inv, [Next]_vars, ExamineFileEdit
    PROVE  RestOK' /\ Vacant'
<1> DEFINE d == at["worker"].data
           b == [at["worker"] EXCEPT !.since = touches]
<1>0. /\ at["worker"] \in Args /\ at["worker"].since <= touches /\ touches \in Nat
      /\ UNCHANGED <<files, edits, previews, touches, crashes>>
  BY WorkerFields DEF Inv, RestOK, ExamineFileEdit, stored, counters
<1>1. CASE ~FileEdited(d) /\ Editable(d)
  <2>1. \E p \in {"stage", "replace"} : Resume("worker", p, b)
    BY <1>1 DEF ExamineFileEdit
  <2>2. b.since = touches /\ b.data = d
    BY <1>0, ArgsSince
  <2> HIDE DEF b, d
  <2>3. at'["worker"] = b
    BY <2>1, WorkerFields DEF Resume, Inv, ThreadsOK
  <2>4. at'["worker"].since <= touches'
    BY <1>0, <2>2, <2>3
  <2>5. RestOK'
    BY <1>0, <2>4, PreviewsStay DEF Inv, RestOK
  <2>6. Vacant'
    BY <1>0, <1>1, <2>2, <2>3 DEF Vacant, Editable
  <2>7. QED
    BY <2>5, <2>6
<1>2. CASE ~(~FileEdited(d) /\ Editable(d))
  <2>1. \E p \in {"complete", "fail"} : Resume("worker", p, at["worker"])
    BY <1>2 DEF ExamineFileEdit, Finish
  <2>2. QED
    BY <1>0, <2>1, WorkerQuiet
<1>3. QED
  BY <1>1, <1>2

\* Staging the copy.
LEMMA StageQuiet ==
    ASSUME Inv, [Next]_vars, StageCopy
    PROVE  RestOK' /\ Vacant'
<1>0. /\ pc["worker"] \in InHand /\ at["worker"].data.kind \in FileEdits
      /\ at["worker"] \in Args /\ pc["worker"] = "stage"
      /\ UNCHANGED <<files, edits, previews, touches, crashes>>
  BY FilePoints, WorkerFields DEF Inv, StageCopy, stored, counters
<1>1. PICK x \in Contents \cup {None}, p \in {"fail", "replace"} :
         Resume("worker", p, [at["worker"] EXCEPT !.staged = x])
  BY <1>0, EditFiles DEF StageCopy, Inv
<1>2. ASSUME NEW a, a = [at["worker"] EXCEPT !.staged = x]
      PROVE  a.since = at["worker"].since /\ a.data = at["worker"].data
  BY <1>0, <1>2, ArgsStaged
<1>3. at'["worker"] = [at["worker"] EXCEPT !.staged = x]
  BY <1>1, WorkerFields DEF Resume, Inv, ThreadsOK
<1>4. at'["worker"].since = at["worker"].since /\ at'["worker"].data = at["worker"].data
  BY <1>2, <1>3
<1>5. RestOK'
  BY <1>0, <1>4, PreviewsStay DEF Inv, RestOK
<1>6. Vacant'
  BY <1>0, <1>4 DEF Inv, Vacant
<1>7. QED
  BY <1>5, <1>6

\* The rename that makes an edit.
LEMMA ReplaceQuiet ==
    ASSUME Inv, [Next]_vars, ReplaceTarget
    PROVE  RestOK' /\ Vacant'
<1> DEFINE d == at["worker"].data
           n == d.name
           from == d.from
           to == d.to
           x == at["worker"].staged
           e == [op |-> at["worker"].op, life |-> crashes, since |-> at["worker"].since]
           source == files[n][from]
<1>0. /\ pc["worker"] = "replace" /\ pc["worker"] \in InHand /\ d.kind \in FileEdits
      /\ d.kind = "copy" => x \in Contents
      /\ UNCHANGED <<previews, touches, crashes>>
  BY FilePoints DEF Inv, ReplaceTarget, counters
<1>1. /\ n \in Names /\ from \in Paths /\ to \in Paths /\ source \in Contents \cup {None}
      /\ at["worker"].op \in 1 .. MaxOps /\ at["worker"] \in Args
  BY <1>0, EditFiles DEF Inv
<1>2. files' = files \/ (d.kind = "copy" /\ files' = [files EXCEPT ![n] = [files[n] EXCEPT ![to] = x]])
      \/ files' = [files EXCEPT ![n] = [files[n] EXCEPT ![to] = source, ![from] = None]]
  BY DEF ReplaceTarget, Moved
<1>3. edits' = edits \/ edits' = edits \cup {e}
  BY DEF ReplaceTarget
<1>4. at["worker"].since \in Nat /\ at["worker"].since <= touches
      /\ touches \in Nat /\ crashes \in 0 .. MaxCrashes
  BY <1>1 DEF Inv, RestOK, Args
<1>5. e \in [op : 1 .. MaxOps, life : 0 .. MaxCrashes, since : 0 .. touches]
  BY <1>1, <1>4
<1>6. \E p \in {"complete", "fail"} : Resume("worker", p, at["worker"])
  BY DEF ReplaceTarget, Finish
<1>7. at'["worker"] = at["worker"] /\ pc'["worker"] \in {"complete", "fail"}
  BY <1>6, WorkerFields DEF Resume, Inv, ThreadsOK
<1> HIDE DEF n, from, to, x, e, source, d
<1>8. files' \in [Names -> [Paths -> Contents \cup {None}]]
  <2>0. files \in [Names -> [Paths -> Contents \cup {None}]]
    BY DEF Inv, RestOK
  <2>1. d.kind = "copy" => [files[n] EXCEPT ![to] = x] \in [Paths -> Contents \cup {None}]
    BY <1>0, <1>1, <2>0
  <2>2. [files[n] EXCEPT ![to] = source, ![from] = None] \in [Paths -> Contents \cup {None}]
    BY <1>1, <2>0
  <2>3. QED
    BY <1>1, <1>2, <2>0, <2>1, <2>2
<1>9. edits' \subseteq [op : 1 .. MaxOps, life : 0 .. MaxCrashes, since : 0 .. touches']
  BY <1>0, <1>3, <1>5 DEF Inv, RestOK
<1>10. RestOK'
  BY <1>0, <1>7, <1>8, <1>9, PreviewsStay DEF Inv, RestOK
<1>11. Vacant'
  BY <1>7 DEF Vacant
<1>12. QED
  BY <1>10, <1>11

\* A crash forgets the previews.
LEMMA CrashQuiet ==
    ASSUME Inv, [Next]_vars, ManagerCrash
    PROVE  RestOK' /\ Vacant'
<1>1. /\ pc'["worker"] = "idle" /\ at'["worker"] = NoArgs /\ previews' = [c \in Clients |-> NoData]
      /\ UNCHANGED <<files, edits, touches>> /\ crashes < MaxCrashes /\ crashes' = crashes + 1
  BY InHandPoints DEF ManagerCrash, stored
<1>2. PreviewsOK'
  BY <1>1, NoDataRow DEF PreviewsOK
<1>3. touches \in Nat /\ crashes \in 0 .. MaxCrashes /\ MaxCrashes \in Nat
  BY MutationAssumption DEF Inv, RestOK
<1>4. crashes' \in 0 .. MaxCrashes
  BY <1>1, <1>3
<1>5. at'["worker"].since <= touches'
  BY <1>1, <1>3, NoArgsFields
<1>6. RestOK'
  BY <1>1, <1>2, <1>3, <1>4, <1>5 DEF Inv, RestOK
<1>7. Vacant'
  BY <1>1 DEF Vacant
<1>8. QED
  BY <1>6, <1>7

\* Every step keeps the previews and the files in order.
LEMMA RestKept ==
    ASSUME Inv, [Next]_vars
    PROVE  RestOK' /\ Vacant'
<1>1. CASE UNCHANGED vars
  <2>1. UNCHANGED <<files, edits, previews, touches, crashes, pc, at>>
    BY <1>1 DEF vars, stored, counters
  <2>2. RestOK'
    BY <2>1, PreviewsStay DEF Inv, RestOK
  <2>3. Vacant'
    BY <2>1 DEF Inv, Vacant
  <2>4. QED
    BY <2>2, <2>3
<1>2. ASSUME NEW c \in Clients, Metadata(c) \/ Files(c) \/ Client(c) PROVE RestOK' /\ Vacant'
  BY <1>2, ClientFiles, ClientWorlds, ClientRows DEF Client
<1>3. CASE Dispatcher
  BY <1>3, DispatcherQuiet, ExamineQuiet, StageQuiet, ReplaceQuiet DEF Dispatcher
<1>4. CASE ManagerCrash
  BY <1>4, CrashQuiet
<1>5. QED
  BY <1>1, <1>2, <1>3, <1>4 DEF Next

-----------------------------------------------------------------------------
(* The invariant holds at first, and the properties follow from it.        *)

\* At first there are no rows, and each world is as it was created.
LEMMA InitInv == Init => Inv
<1> SUFFICES ASSUME Init PROVE Inv
  OBVIOUS
<1>0. MaxOps \in Nat \ {0} /\ MaxOps \in Nat /\ 0 \in 0 .. MaxOps /\ MaxCrashes \in Nat
  BY MutationAssumption
<1>1. issued = 0 /\ Rows = {}
  <2>1. issued = 0
    BY DEF Init, Ops!Init
  <2>2. QED
    BY <2>1 DEF Rows
<1>2. Ops!TypeOK
  <2>1. Ops!NoRow \in Ops!Row /\ Ops!NoRow.status = "Absent"
    BY DEF Ops!NoRow, Ops!Row, Ops!Types, Ops!InFlight, Ops!Terminal
  <2>2. /\ ops \in [Ops!OpId -> Ops!Row] /\ audits \in [Ops!OpId -> Nat]
        /\ claims \in [Ops!OpId -> Nat]
    BY <2>1 DEF Init, Ops!Init
  <2>3. \A i \in Ops!OpId : ops[i].status = "Absent" /\ i > issued
    <3>1. \A i \in Ops!OpId : ops[i].status = "Absent"
      BY <2>1 DEF Init, Ops!Init
    <3>2. \A i \in Ops!OpId : i > issued
      BY <1>0, <1>1 DEF Ops!OpId
    <3>3. QED
      BY <3>1, <3>2
  <2>4. QED
    BY <1>0, <1>1, <2>2, <2>3 DEF Ops!TypeOK
<1>3. RowsOK
  <2>1. data \in [1 .. MaxOps -> RowData]
    BY NoDataRow DEF Init
  <2>2. QED
    BY <1>1, <1>2, <2>1 DEF RowsOK
<1>4. /\ pc = [t \in Threads |-> "idle"] /\ at = [t \in Threads |-> NoArgs]
      /\ \A t \in Threads : pc[t] = "idle" /\ at[t] = NoArgs
  BY DEF Init
<1>5. DrawnOnce
  BY <1>1, <1>4, InHandPoints DEF DrawnOnce
<1>6. ASSUME NEW w \in DOMAIN FirstWorlds, NEW x, x = world[w]
      PROVE  /\ w \in Worlds /\ x \in WorldRow /\ x.exists = TRUE /\ x.deleted = FALSE
             /\ x.version = 1 /\ x.state = "off"
             /\ x.name = FirstWorlds[w].name /\ x.port = FirstWorlds[w].port
             /\ x.name \in Names /\ x.port \in Ports
  <2>1. w \in Worlds /\ FirstWorlds[w] \in [name : Names, port : Ports]
    BY MutationAssumption
  <2>2. ASSUME NEW n \in Names, NEW p \in Ports,
               x = [Unborn EXCEPT !.exists = TRUE, !.version = 1, !.name = n, !.port = p]
        PROVE  /\ x \in WorldRow /\ x.exists = TRUE /\ x.deleted = FALSE
               /\ x.version = 1 /\ x.state = "off" /\ x.name = n /\ x.port = p
    BY <2>2 DEF Unborn, WorldRow
  <2>3. x = [Unborn EXCEPT !.exists = TRUE, !.version = 1,
                           !.name = FirstWorlds[w].name, !.port = FirstWorlds[w].port]
    BY <1>6, <2>1 DEF Init
  <2>4. FirstWorlds[w].name \in Names /\ FirstWorlds[w].port \in Ports
    BY <2>1
  <2>5. QED
    BY <2>1, <2>2, <2>3, <2>4
<1>7. ASSUME NEW w \in Worlds, w \notin DOMAIN FirstWorlds
      PROVE  world[w] = Unborn
  BY <1>7 DEF Init
<1>8. Unborn \in WorldRow /\ Unborn.exists = FALSE
  BY DEF Unborn, WorldRow
<1>9. WorldsOK
  <2>1. world \in [Worlds -> WorldRow]
    <3>1. \A w \in Worlds : world[w] \in WorldRow
      BY <1>6, <1>7, <1>8
    <3>2. world = [w \in Worlds |-> world[w]]
      BY DEF Init
    <3>3. QED
      BY <3>1, <3>2
  <2>2. ASSUME NEW w \in Worlds
        PROVE  /\ world[w].exists => world[w].name \in Names /\ world[w].port \in Ports
               /\ ~world[w].exists => world[w] = Unborn
    BY <1>6, <1>7, <1>8
  <2>3. ASSUME NEW w \in Worlds, Live(w), NEW v \in Worlds \ {w}, Live(v)
        PROVE  world[v].name # world[w].name /\ world[v].port # world[w].port
    <3>1. v \in DOMAIN FirstWorlds /\ w \in DOMAIN FirstWorlds
      BY <1>7, <1>8, <2>3 DEF Live
    <3>2. /\ world[v].name = FirstWorlds[v].name /\ world[v].port = FirstWorlds[v].port
          /\ world[w].name = FirstWorlds[w].name /\ world[w].port = FirstWorlds[w].port
      BY <1>6, <3>1
    <3>3. QED
      BY <3>1, <3>2, MutationAssumption
  <2>4. \A w \in Worlds : Live(w) => NameFree(w, world[w].name) /\ PortFree(w, world[w].port)
    BY <2>3 DEF NameFree, PortFree
  <2>5. QED
    BY <2>1, <2>2, <2>4 DEF WorldsOK
<1>10. ASSUME NEW c \in commits
       PROVE  /\ c.op = 0 /\ c.world \in DOMAIN FirstWorlds /\ c.row = world[c.world]
              /\ c = [op |-> 0, world |-> c.world, row |-> world[c.world]]
  <2>1. commits = {[op |-> 0, world |-> w, row |-> world[w]] : w \in DOMAIN FirstWorlds}
    BY DEF Init
  <2>2. PICK w \in DOMAIN FirstWorlds : c = [op |-> 0, world |-> w, row |-> world[w]]
    BY <1>10, <2>1
  <2>3. QED
    BY <2>2
<1>11. HistoryOK
  <2>1. commits \subseteq [op : 0 .. MaxOps, world : Worlds, row : WorldRow]
    <3>1. ASSUME NEW c \in commits PROVE c \in [op : 0 .. MaxOps, world : Worlds, row : WorldRow]
      <4>1. c.world \in Worlds /\ c.row \in WorldRow
        BY <1>6, <1>10
      <4>2. QED
        BY <1>0, <1>10, <4>1
    <3>2. QED
      BY <3>1
  <2>2. ASSUME NEW w \in Worlds, world[w].exists
        PROVE  \E c \in commits : c.world = w /\ Latest(c)
    <3>1. w \in DOMAIN FirstWorlds
      BY <1>7, <1>8, <2>2
    <3>2. [op |-> 0, world |-> w, row |-> world[w]] \in commits
      BY <3>1 DEF Init
    <3>3. QED
      BY <3>2 DEF Latest
  <2>3. ASSUME NEW c \in commits PROVE Numbered(c) /\ Asked(c)
    <3>1. /\ c.op = 0 /\ c.row.exists /\ world[c.world].exists
          /\ c.row.version = 1 /\ world[c.world].version = 1
      BY <1>6, <1>10
    <3>2. QED
      BY <3>1 DEF Numbered, Asked
  <2>4. ASSUME NEW c \in commits, NEW e \in commits, c.world = e.world PROVE c = e
    BY <1>10, <2>4
  <2>5. QED
    BY <2>1, <2>2, <2>3, <2>4 DEF HistoryOK
<1>12. ThreadsOK
  <2>1. \A t \in Threads : FitsAs(t, "idle", NoArgs)
    BY NoArgsFields, NoDataRow DEF FitsAs, PointsOf, InHand
  <2>2. \A t \in Threads : Fits(t)
    BY <1>4, <2>1 DEF Fits
  <2>3. QED
    BY <1>4, <2>2, NoArgsFields DEF ThreadsOK
<1>13. RestOK
  <2>1. PreviewsOK
    BY NoDataRow DEF Init, PreviewsOK
  <2>2. files = FirstFiles /\ edits = {} /\ touches = 0 /\ crashes = 0
    BY DEF Init
  <2>3. at["worker"].since <= touches
    BY <1>4, <2>2, NoArgsFields, InHandPoints
  <2>4. QED
    BY <1>0, <2>1, <2>2, <2>3, MutationAssumption DEF RestOK
<1>14. Held
  <2>1. \A t \in Threads : HoldsAs(t, "idle", NoArgs)
    BY NoArgsFields DEF HoldsAs, InHand
  <2>2. QED
    BY <1>4, <2>1, InHandPoints DEF Held, InHand
<1>15. OneRuns
  BY <1>1 DEF OneRuns
<1>16. Truthful
  BY <1>1, <1>4 DEF Truthful, TellsAs
<1>17. Vacant
  BY <1>4, InHandPoints DEF Vacant
<1>18. QED
  BY <1>3, <1>5, <1>9, <1>11, <1>12, <1>13, <1>14, <1>15, <1>16, <1>17 DEF Inv

\* Every step keeps it.
LEMMA InvStep == Inv /\ [Next]_vars => Inv'
<1> SUFFICES ASSUME Inv, [Next]_vars PROVE Inv'
  OBVIOUS
<1>1. RowsOK' /\ WorldsOK' /\ HistoryOK' /\ OneRuns' /\ \A i \in Rows' : RowTells(i)'
  BY TablesKept
<1>2. DrawnOnce' /\ ThreadsOK' /\ Held' /\ \A t \in Threads : TellsAs(t, pc[t], at[t])'
  BY ThreadsKept
<1>3. RestOK' /\ Vacant'
  BY RestKept
<1>4. Truthful'
  BY <1>1, <1>2 DEF Truthful
<1>5. QED
  BY <1>1, <1>2, <1>3, <1>4 DEF Inv

\* Every state of every run satisfies the invariant.
THEOREM InvHolds == Spec => []Inv
<1>1. QED
  BY InitInv, InvStep, PTL DEF Spec

\* The tables, the threads and the files are well typed, and no two live worlds share
\* a name or a port (the unique indexes of world_instances).
THEOREM MutationTypes == Spec => []TypeOK
<1>1. Inv => TypeOK
  BY DEF Inv, RowsOK, WorldsOK, HistoryOK, ThreadsOK, RestOK, PreviewsOK, TypeOK
<1>2. QED
  BY <1>1, InvHolds, PTL

\* The versions of a world's row are the changes committed, each made upon the version
\* its request had read: no edit is lost and none is granted twice, whatever the crashes
\* (update_versioned and the _apply_queued_* of services/worlds.py).
THEOREM MutationsLoseNoUpdate == Spec => []NoLostUpdate
<1>1. Inv => NoLostUpdate
  <2> SUFFICES ASSUME Inv, NEW c \in commits
               PROVE  /\ \A e \in commits :
                            e.world = c.world /\ e.row.version = c.row.version => e = c
                      /\ c.row.version \in 1 .. world[c.world].version
                      /\ c.op # 0 => c.row.version = data[c.op].version + 1
                      /\ c.row.version > 1 =>
                            \E e \in commits : /\ e.world = c.world
                                               /\ e.row.version = c.row.version - 1
    BY DEF NoLostUpdate
  <2>1. Numbered(c) /\ Asked(c)
    BY DEF Inv, HistoryOK
  <2>2. \A e \in commits : e.world = c.world /\ e.row.version = c.row.version => e = c
    BY DEF Inv, HistoryOK
  <2>3. QED
    BY <2>1, <2>2 DEF Numbered, Asked
<1>2. QED
  BY <1>1, InvHolds, PTL

\* The outcome a request's row reports is what became of its world: one completed was
\* granted, one failed changed nothing that a rename did not follow.
THEOREM MutationsAnswerTruly == Spec => []AnswersAreTrue
<1>1. Inv => AnswersAreTrue
  <2> SUFFICES ASSUME Inv PROVE AnswersAreTrue
    OBVIOUS
  <2>1. CompletedIsGranted
    <3> SUFFICES ASSUME NEW i \in Rows, Status(i) = "Completed", data[i].kind \in Altering
                 PROVE  Granted(i)
      BY DEF CompletedIsGranted, Granted, Altering
    <3>1. QED
      BY DEF Inv, Truthful, RowTells, Status
  <2>2. FailedOnlyIfRenamed
    <3> SUFFICES ASSUME NEW i \in Rows, NEW c \in CommitsOf(i), Status(i) = "Failed"
                 PROVE  RenamedSince(c)
      BY DEF FailedOnlyIfRenamed, RenamedSince
    <3>1. QED
      BY DEF Inv, Truthful, RowTells, Status
  <2>3. QED
    BY <2>1, <2>2 DEF AnswersAreTrue
<1>2. QED
  BY <1>1, InvHolds, PTL

-----------------------------------------------------------------------------
(* What a step never does.                                                 *)

\* The row that changes a world it deletes or configures has it for its own.
LEMMA ChangedAlone ==
    ASSUME Inv, NEW i \in Rows, Changes(i), data[i].kind # "rename"
    PROVE  ~RuntimeBusy(data[i].world)
<1> SUFFICES ASSUME RuntimeBusy(data[i].world) PROVE FALSE
  OBVIOUS
<1> DEFINE w == data[i].world
           j == at["worker"].op
<1>1. /\ pc["worker"] \in InHand /\ pc["worker"] = "runtime" /\ at["worker"].data.world = w
  BY DEF RuntimeBusy, InHand
<1>2. /\ j \in Rows /\ at["worker"].data = data[j] /\ ops[j].status = "Running"
      /\ data[j].kind \in {"start", "stop"}
  BY <1>1, WorkerRow, WorkerFields DEF Inv, FitsAs
<1>3. /\ data[i].kind \in Versioned /\ ops[i].status = "Running"
      /\ w \in Worlds /\ w # None
  BY RowAsks, MutationAssumption DEF Inv, Changes
<1>4. ops[i].world = w /\ ops[j].world = w
  BY <1>1, <1>2, <1>3 DEF Inv, RowsOK, Named, Versioned
<1>5. i = j
  BY <1>2, <1>3, <1>4 DEF Inv, OneRuns
<1>6. QED
  BY <1>2, <1>3, <1>5 DEF Versioned

\* A world's port, and whether it exists, change only while it is off and idle, and a
\* deleted world never changes, although a row acts long after its route looked
\* (document 6 section 4): its row runs alone in its world.
THEOREM OnlyOffWorldsChanged == Spec => OnlyOffWorldsChange
<1>1. ASSUME Inv, [Next]_vars, NEW w \in Worlds, world[w].exists, world'[w] # world[w]
      PROVE  /\ ~world[w].deleted
             /\ world'[w].port # world[w].port \/ world'[w].deleted
                   => world[w].state = "off" /\ ~RuntimeBusy(w)
  <2>0. world \in [Worlds -> WorldRow] /\ WorldsOK /\ RowsOK
    BY <1>1 DEF Inv, WorldsOK
  <2>1. world[w].deleted \in BOOLEAN
    BY <2>0, WorldFields
  <2>2. PICK i \in Rows : RowStep(i)
    BY <1>1, TablesFollow DEF TablesStep, TablesSame, Opens
  <2>3. world' # world
    BY <1>1
  <2>4. ASSUME NEW s \in {"off", "running"}, Switches(i, s)
        PROVE  /\ ~world[w].deleted
               /\ world'[w].port = world[w].port /\ ~world'[w].deleted
    <3> DEFINE v == data[i].world
    <3>1. v \in Worlds /\ world' = [world EXCEPT ![v].state = s] /\ Live(v)
      BY <2>0, <2>4, RowAsks DEF Switches
    <3> HIDE DEF v
    <3>2. /\ \A u \in Worlds \ {v} : world'[u] = world[u]
          /\ world'[v].deleted = world[v].deleted /\ world'[v].port = world[v].port
      BY <2>0, <3>1, Switched
    <3>3. w = v
      BY <1>1, <3>2
    <3>4. QED
      BY <3>1, <3>2, <3>3 DEF Live
  <2>5. CASE Creates(i)
    <3> DEFINE v == data[i].world
    <3>1. v \in Worlds /\ ~world[v].exists /\ Commit(i, v, Created(data[i]))
      BY <2>0, <2>5, RowAsks DEF Creates
    <3>2. Created(data[i]) \in WorldRow
      BY <2>0, <2>5, RowAsks, CreatedFields DEF Creates
    <3>3. \A u \in Worlds \ {v} : world'[u] = world[u]
      BY <2>0, <3>1, <3>2, Committed
    <3>4. QED
      BY <1>1, <3>1, <3>3
  <2>6. CASE Changes(i)
    <3> DEFINE d == data[i]
               v == d.world
               old == world[v]
               new == Edited(d)
    <3>1. /\ d \in RowData /\ Asks(d) /\ Seen(d) /\ v \in Worlds /\ d.kind \in Versioned
          /\ d.kind # "create" /\ old.version = d.version /\ d.version \in Nat
      BY <2>0, <2>6, RowAsks, WorldFields DEF Changes, Versioned
    <3>2. /\ new \in WorldRow
          /\ new.port = IF d.kind = "config" THEN d.port ELSE old.port
          /\ d.kind # "delete" => new.deleted = old.deleted
      BY <2>0, <3>1, EditedFields
    <3>3. Commit(i, v, new)
      BY <2>6 DEF Changes
    <3>4. /\ world'[v] = new
          /\ \A u \in Worlds \ {v} : world'[u] = world[u]
      BY <2>0, <3>1, <3>2, <3>3, Committed
    <3>5. w = v
      BY <1>1, <3>4
    <3>6. ~old.deleted
      BY <3>1 DEF Seen
    <3>7. d.kind # "rename" => old.state = "off"
      BY <2>6, <3>1 DEF Changes, Versioned
    <3>8. d.kind # "rename" => ~RuntimeBusy(v)
      BY <1>1, <2>6, ChangedAlone
    <3> HIDE DEF d, v, old, new
    <3>9. CASE d.kind = "rename"
      BY <3>2, <3>4, <3>5, <3>6, <3>9 DEF old
    <3>10. CASE d.kind # "rename"
      BY <3>5, <3>6, <3>7, <3>8, <3>10 DEF old
    <3>11. QED
      BY <3>9, <3>10
  <2>7. ASSUME NEW st, Turns(i, st) PROVE FALSE
    BY <2>3, <2>7 DEF Turns
  <2>8. QED
    BY <2>2, <2>4, <2>5, <2>6, <2>7 DEF RowStep
<1>2. Inv /\ [Next]_vars =>
        [\A w \in Worlds :
            world[w].exists /\ world'[w] # world[w] =>
                /\ ~world[w].deleted
                /\ world'[w].port # world[w].port \/ world'[w].deleted
                      => world[w].state = "off" /\ ~RuntimeBusy(w)]_vars
  BY <1>1
<1>3. QED
  BY <1>2, InvHolds, PTL DEF Spec, OnlyOffWorldsChange

\* A step that makes an edit is the dispatcher's rename of a file.
LEMMA EditsByReplacing ==
    ASSUME [Next]_vars, edits' # edits
    PROVE  ReplaceTarget
<1>1. ~UNCHANGED edits
  OBVIOUS
<1>2. ~UNCHANGED vars
  BY <1>1 DEF vars, stored
<1>3. ASSUME NEW c \in Clients PROVE ~Metadata(c)
  BY <1>1 DEF Metadata, RequestDelete, Preview, RequestStart, RequestStop, RequestConfig,
              RequestRename, RequestCreate, Intend, stored
<1>4. ASSUME NEW c \in Clients PROVE ~Files(c)
  BY <1>1 DEF Files, RequestUpload, RequestFileEdit, DeleteFile, Intend, stored
<1>5. ASSUME NEW t PROVE ~End(t)
  BY <1>1 DEF End, SetStatus, stored
<1>6. ASSUME NEW c \in Clients PROVE ~Client(c)
  BY <1>1, <1>5 DEF Client, Submit, RunRename, Rename, SetStatus, WriteUpload, stored
<1>7. ~ManagerCrash
  BY <1>1 DEF ManagerCrash, stored
<1>8. ~(ApplyCreate \/ ApplyDelete \/ ApplyConfig \/ EndRuntime)
  BY <1>1 DEF ApplyCreate, ApplyDelete, ApplyConfig, EndRuntime
<1>9. ~(Scan \/ Take \/ EndPass \/ ExamineFileEdit \/ StageCopy)
  BY <1>1 DEF Scan, Take, EndPass, ExamineFileEdit, StageCopy, stored
<1>10. ASSUME NEW i PROVE ~BeginRuntime(i)
  BY <1>1 DEF BeginRuntime, stored
<1>11. QED
  BY <1>2, <1>3, <1>4, <1>5, <1>6, <1>7, <1>8, <1>9, <1>10 DEF Next, Dispatcher

\* A file edit takes the place of a file only when a client wrote it after the edit had
\* looked at its target (_apply_queued_file_edit's look and its rename are two steps).
THEOREM EditsReplaceOnlyLateUploads == Spec => ReplacesOnlyLateUploads
<1>1. ASSUME Inv, [Next]_vars, edits' # edits,
             files[at["worker"].data.name][at["worker"].data.to] # None
      PROVE  touches > at["worker"].since
  <2>1. pc["worker"] = "replace"
    BY <1>1, EditsByReplacing DEF ReplaceTarget
  <2>2. at["worker"].since # touches
    BY <1>1, <2>1 DEF Inv, Vacant
  <2>3. at["worker"].since <= touches /\ touches \in Nat /\ at["worker"].since \in Nat
    BY <1>1, WorkerFields DEF Inv, RestOK, Args
  <2>4. QED
    BY <2>2, <2>3
<1>2. Inv /\ [Next]_vars =>
        [LET d == at["worker"].data IN
         edits' # edits /\ files[d.name][d.to] # None
         => touches > at["worker"].since]_vars
  BY <1>1
<1>3. QED
  BY <1>2, InvHolds, PTL DEF Spec, ReplacesOnlyLateUploads

-----------------------------------------------------------------------------
(* The edits of files.                                                     *)

\* A client has written or deleted a file since the edit looked, or another row has
\* edited its directory.
Excused(e) ==
    touches > e.since \/ \E o \in edits : o.op # e.op /\ data[o.op].name = data[e.op].name

\* The edit is recognized when its row is applied again.
Recognized(e) ==
    /\ FileEdited(data[e.op]) /\ ops[e.op].status # "Failed"
    /\ pc["worker"] \in {"stage", "replace", "fail"} => at["worker"].op # e.op
    /\ \A o \in EditsOf(e.op) : o.life <= e.life

\* An edit of this life has its row at its end.
Past(e) ==
    /\ e.life <= crashes
    /\ e.life = crashes => \/ ops[e.op].status \in {"Completed", "Failed"}
                           \/ pc["worker"] \in {"complete", "fail"} /\ at["worker"].op = e.op

\* What the dispatcher has found of its source stays so until a client writes.
Ready ==
    LET a == at["worker"]
        source == files[a.data.name][a.data.from]
    IN  pc["worker"] \in {"stage", "replace"} /\ a.since = touches =>
            source # None /\ (pc["worker"] = "replace" /\ a.data.kind = "copy" => a.staged = source)

EditsOK ==
    /\ \A e \in edits : /\ e.op \in Rows /\ data[e.op].kind \in FileEdits
                        /\ Past(e) /\ (Excused(e) \/ Recognized(e))
    /\ Ready
    /\ IsFiniteSet(edits) /\ IsFiniteSet(FilesIn(files)) /\ NoFileAdded

\* Rows are kept, and worlds grow.
LEMMA GrowsOn ==
    ASSUME Inv, [Next]_vars
    PROVE  RowsGrow /\ WorldsGrow /\ Rows \subseteq Rows'
<1>1. RowsGrow /\ WorldsGrow
  BY TablesFollow, GrowStep, Submits DEF Inv, Submitting
<1>2. issued \in Nat /\ issued' \in Nat /\ issued <= issued'
  BY <1>1, RowNumbers DEF Inv, RowsGrow
<1>3. Rows \subseteq Rows'
  BY <1>2 DEF Rows
<1>4. QED
  BY <1>1, <1>3

\* A row at its end stays there, and the dispatcher is the one that reports a failure.
LEMMA StatusMoves ==
    ASSUME Inv, [Next]_vars, NEW i \in Rows, data[i].kind # "rename"
    PROVE  /\ ops[i].status \in {"Completed", "Failed"} => ops'[i].status = ops[i].status
           /\ ops'[i].status = "Failed" =>
                 \/ ops[i].status = "Failed"
                 \/ pc["worker"] = "fail" /\ at["worker"].op = i
<1>1. RowsOK /\ Submitting /\ TablesStep
  BY TablesFollow, Submits DEF Inv
<1>2. CASE ops'[i] = ops[i]
  BY <1>2
<1>3. CASE TablesSame \/ (\E c \in Clients : Opens(c)) \/ \E j \in Rows \ {i} : RowStep(j)
  BY <1>1, <1>2, <1>3, QuietRow
<1>4. CASE RowStep(i)
  <2>1. ASSUME NEW st \in {"Running", "Completed", "Failed"}, Turns(i, st)
        PROVE  /\ ops[i].status \in {"Completed", "Failed"} => ops'[i].status = ops[i].status
               /\ ops'[i].status = "Failed" => pc["worker"] = "fail" /\ at["worker"].op = i
    <3>1. ops'[i].status = st
      BY <1>1, <2>1, TurnRows
    <3>2. ops[i].status \notin {"Completed", "Failed"}
      BY <2>1 DEF Turns
    <3>3. ASSUME st = "Failed" PROVE pc["worker"] = "fail" /\ at["worker"].op = i
      <4>1. PICK t \in Threads : at[t].op = i /\ pc[t] = "fail"
        BY <2>1, <3>3 DEF Turns
      <4>2. t \notin Clients
        BY <4>1, RowInHand, InHandPoints DEF Inv
      <4>3. QED
        BY <4>1, <4>2, InHandPoints
    <3>4. QED
      BY <3>1, <3>2, <3>3
  <2>2. ASSUME NEW s, Switches(i, s) PROVE ops'[i] = ops[i]
    BY <2>2 DEF Switches
  <2>3. Changes(i) => ops'[i] = ops[i]
    BY DEF Changes
  <2>4. Creates(i) => ops'[i].status = ops[i].status
    BY <1>1, CreateRows
  <2>5. QED
    BY <1>4, <2>1, <2>2, <2>3, <2>4 DEF RowStep
<1>5. QED
  BY <1>1, <1>3, <1>4 DEF TablesStep

\* What an edit says of its row.
LEMMA EditRows ==
    ASSUME Inv, EditsOK, NEW e \in edits
    PROVE  /\ e.op \in Rows /\ e.op \in 1 .. MaxOps /\ data[e.op].kind \in FileEdits
           /\ data[e.op].kind # "rename" /\ data[e.op].name \in Names
           /\ data[e.op].from \in Paths /\ data[e.op].to \in Paths
           /\ e.life \in Nat /\ e.since \in Nat /\ e.since <= touches /\ touches \in Nat
           /\ crashes \in Nat
<1>1. e \in [op : 1 .. MaxOps, life : 0 .. MaxCrashes, since : 0 .. touches]
  BY DEF Inv, RestOK
<1>2. touches \in Nat /\ crashes \in 0 .. MaxCrashes /\ MaxCrashes \in Nat
  BY MutationAssumption DEF Inv, RestOK
<1>3. /\ e.op \in Rows /\ data[e.op].kind \in FileEdits
  BY DEF EditsOK
<1>4. Asks(data[e.op])
  BY <1>3, RowAsks DEF Inv
<1>5. /\ e.op \in 1 .. MaxOps /\ e.life \in 0 .. MaxCrashes /\ e.since \in 0 .. touches
  BY <1>1
<1>6. QED
  BY <1>2, <1>3, <1>4, <1>5 DEF Asks, FileEdits

\* A row of an edit keeps its request.
LEMMA EditKeeps ==
    ASSUME Inv, EditsOK, [Next]_vars, NEW e \in edits
    PROVE  e.op \in Rows' /\ data'[e.op] = data[e.op]
BY EditRows, GrowsOn DEF RowsGrow

\* An excuse stays one.
LEMMA ExcusedStays ==
    ASSUME Inv, EditsOK, [Next]_vars, edits \subseteq edits', touches' \in Nat, touches <= touches',
           NEW e \in edits, Excused(e)
    PROVE  Excused(e)'
<1>1. CASE touches > e.since
  BY <1>1, EditRows DEF Excused
<1>2. ASSUME NEW o \in edits, o.op # e.op, data[o.op].name = data[e.op].name PROVE Excused(e)'
  BY <1>2, EditKeeps DEF Excused
<1>3. QED
  BY <1>1, <1>2 DEF Excused

\* A step that touches no file, and takes no edited row up again.
LEMMA EditsQuiet ==
    ASSUME Inv, EditsOK, [Next]_vars, UNCHANGED <<files, edits, touches, crashes>>,
           \A i \in Rows :
              /\ data[i].kind \in FileEdits /\ FileEdited(data[i])
              /\ pc["worker"] \in {"stage", "replace", "fail"} => at["worker"].op # i
              /\ pc'["worker"] \in {"stage", "replace", "fail"}
              => at'["worker"].op # i,
           pc["worker"] \in {"complete", "fail"} =>
              \/ ops'[at["worker"].op].status \in {"Completed", "Failed"}
              \/ pc'["worker"] \in {"complete", "fail"} /\ at'["worker"].op = at["worker"].op,
           Ready'
    PROVE  EditsOK'
<1>1. \A e \in edits : e.op \in Rows /\ e.op \in Rows' /\ data'[e.op] = data[e.op]
  BY EditRows, EditKeeps
<1>2. ASSUME NEW e \in edits PROVE Past(e)'
  <2>1. Past(e) /\ data[e.op].kind # "rename" /\ e.op \in Rows
    BY EditRows DEF EditsOK
  <2>2. ops[e.op].status \in {"Completed", "Failed"} => ops'[e.op].status \in {"Completed", "Failed"}
    BY <2>1, StatusMoves
  <2>3. QED
    BY <2>1, <2>2 DEF Past
<1>3. ASSUME NEW e \in edits PROVE Excused(e)' \/ Recognized(e)'
  <2>0. touches \in Nat
    BY EditRows
  <2>1. CASE Excused(e)
    BY <2>0, <2>1, ExcusedStays
  <2>2. CASE Recognized(e)
    <3>1. data'[e.op] = data[e.op] /\ e.op \in Rows
      BY <1>1
    <3>2. FileEdited(data[e.op])'
      BY <2>2, <3>1 DEF Recognized, FileEdited
    <3>3. ops'[e.op].status # "Failed"
      BY <2>2, StatusMoves, EditRows DEF Recognized
    <3>4. pc'["worker"] \in {"stage", "replace", "fail"} => at'["worker"].op # e.op
      BY <2>2, EditRows DEF Recognized
    <3>5. \A o \in EditsOf(e.op)' : o.life <= e.life
      BY <2>2 DEF Recognized, EditsOf
    <3>6. QED
      BY <3>2, <3>3, <3>4, <3>5 DEF Recognized
  <2>3. QED
    BY <2>1, <2>2 DEF EditsOK
<1>4. \A e \in edits' : e.op \in Rows' /\ data'[e.op].kind \in FileEdits
  BY <1>1, EditRows
<1>5. Copies' = Copies
  BY <1>1 DEF Copies
<1>6. IsFiniteSet(edits') /\ IsFiniteSet(FilesIn(files')) /\ NoFileAdded'
  BY <1>5 DEF EditsOK, NoFileAdded
<1>7. QED
  BY <1>2, <1>3, <1>4, <1>6 DEF EditsOK

\* The dispatcher's steps that look at no file.
LEMMA DispatcherEdits ==
    ASSUME Inv, EditsOK, [Next]_vars,
           \/ \E i \in 1 .. MaxOps : BeginRuntime(i)
           \/ EndRuntime \/ Scan \/ Take \/ EndPass
           \/ ApplyCreate \/ ApplyDelete \/ ApplyConfig \/ End("worker")
    PROVE  EditsOK'
<1>0. UNCHANGED <<files, edits, touches, crashes>>
  BY DEF BeginRuntime, EndRuntime, Scan, Take, EndPass, ApplyCreate, ApplyDelete, ApplyConfig,
         End, SetStatus, stored, counters
<1>1. ASSUME NEW p \in {"idle", "runtime", "pass", "apply"}, NEW a, Resume("worker", p, a),
             pc["worker"] \in {"complete", "fail"} =>
                ops'[at["worker"].op].status \in {"Completed", "Failed"}
      PROVE  EditsOK'
  <2>1. pc'["worker"] = p
    BY <1>1, InHandPoints DEF Resume, Inv, ThreadsOK
  <2>2. Ready'
    BY <2>1 DEF Ready
  <2>3. QED
    BY <1>0, <1>1, <2>1, <2>2, EditsQuiet
<1>2. ASSUME pc["worker"] \in InHand, pc["worker"] \notin {"complete", "fail"},
             at["worker"].data.kind \notin FileEdits, NEW p \in {"complete", "fail"},
             Resume("worker", p, at["worker"])
      PROVE  EditsOK'
  <2>1. pc'["worker"] = p /\ at'["worker"] = at["worker"]
    BY <1>2, InHandPoints DEF Resume, Inv, ThreadsOK
  <2>2. at["worker"].data = data[at["worker"].op]
    BY <1>2, WorkerRow DEF Inv
  <2>3. Ready'
    BY <2>1 DEF Ready
  <2>4. QED
    BY <1>0, <1>2, <2>1, <2>2, <2>3, EditsQuiet
<1>3. ASSUME NEW i \in 1 .. MaxOps, BeginRuntime(i) PROVE EditsOK'
  BY <1>1, <1>3 DEF BeginRuntime
<1>4. CASE EndRuntime
  <2>1. /\ pc["worker"] = "runtime" /\ pc["worker"] \in InHand
        /\ at["worker"].data.kind \in {"start", "stop"}
        /\ \E p \in {"complete", "fail"} : Resume("worker", p, at["worker"])
    BY <1>4, WorkerFields DEF EndRuntime, FitsAs, InHand, Inv
  <2>2. QED
    BY <1>2, <2>1 DEF FileEdits
<1>5. CASE Scan
  BY <1>1, <1>5 DEF Scan
<1>6. CASE Take
  <2>1. pc["worker"] = "pass" /\ \E i : \E p \in {"apply", "pass"} : Resume("worker", p, Rest(i))
    BY <1>6 DEF Take
  <2>2. QED
    BY <1>1, <2>1
<1>7. CASE EndPass
  BY <1>1, <1>7 DEF EndPass
<1>8. CASE ApplyCreate \/ ApplyDelete \/ ApplyConfig
  <2>1. /\ pc["worker"] = "apply" /\ pc["worker"] \in InHand
        /\ at["worker"].data.kind \in {"create", "delete", "config"}
        /\ \E p \in {"complete", "fail"} : Resume("worker", p, at["worker"])
    BY <1>8 DEF ApplyCreate, ApplyDelete, ApplyConfig, Applying, Finish, InHand
  <2>2. QED
    BY <1>2, <2>1 DEF FileEdits
<1>9. CASE End("worker")
  <2>1. PICK st \in {"Completed", "Failed"}, p \in {"idle", "pass"} :
           SetStatus("worker", st, p) /\ pc["worker"] \in {"complete", "fail"}
    BY <1>9 DEF End
  <2>2. Ops!Transition(at["worker"].op, st) /\ Resume("worker", p, at["worker"])
    BY <2>1, SetStatusStep, InHandPoints DEF Inv
  <2>3. ops'[at["worker"].op].status = st
    <3>1. at["worker"].op \in Ops!OpId /\ ops \in [Ops!OpId -> Ops!Row]
      BY <2>1, WorkerRow, InHandPoints DEF Inv, RowsOK, Ops!TypeOK
    <3>2. ops[at["worker"].op] \in Ops!Row
      BY <3>1
    <3>3. QED
      BY <2>2, <3>1, <3>2, Restatus DEF Ops!Transition, Ops!InFlight, Ops!Terminal, Ops!Row
  <2>4. QED
    BY <1>1, <2>1, <2>2, <2>3
<1>10. QED
  BY <1>3, <1>4, <1>5, <1>6, <1>7, <1>8, <1>9

\* The look recognizes an edit that has been made, and finds the source of one to make.
LEMMA ExamineEdits ==
    ASSUME Inv, EditsOK, [Next]_vars, ExamineFileEdit
    PROVE  EditsOK'
<1> DEFINE d == at["worker"].data
           i == at["worker"].op
           b == [at["worker"] EXCEPT !.since = touches]
<1>0. /\ pc["worker"] = "apply" /\ pc["worker"] \in InHand /\ d.kind \in FileEdits
      /\ UNCHANGED <<files, edits, touches, crashes>>
      /\ touches \in Nat
  BY FilePoints DEF ExamineFileEdit, Applying, stored, counters, Inv, RestOK
<1>1. d = data[i] /\ at["worker"] \in Args
  BY <1>0, WorkerRow DEF Inv
<1>2. b.op = i /\ b.data = d
  BY <1>0, <1>1, ArgsSince
<1>3. CASE ~FileEdited(d) /\ Editable(d)
  <2>1. Resume("worker", IF d.kind = "copy" THEN "stage" ELSE "replace", b)
    BY <1>3 DEF ExamineFileEdit
  <2>2. pc'["worker"] = IF d.kind = "copy" THEN "stage" ELSE "replace"
    BY <2>1, InHandPoints DEF Resume, Inv, ThreadsOK
  <2>3. at'["worker"] = b
    BY <2>1, InHandPoints DEF Resume, Inv, ThreadsOK
  <2> HIDE DEF b
  <2>4. at'["worker"].op = i /\ at'["worker"].data = d
    BY <1>2, <2>3
  <2>5. files[d.name][d.from] # None
    BY <1>3 DEF Editable
  <2>6. Ready'
    BY <1>0, <2>2, <2>4, <2>5 DEF Ready
  <2>7. QED
    BY <1>0, <1>1, <1>3, <2>4, <2>6, EditsQuiet
<1>4. CASE FileEdited(d)
  <2>1. Resume("worker", "complete", at["worker"])
    BY <1>4 DEF ExamineFileEdit, Finish
  <2>2. pc'["worker"] = "complete"
    BY <2>1, InHandPoints DEF Resume, Inv, ThreadsOK
  <2>3. Ready'
    BY <2>2 DEF Ready
  <2>4. QED
    BY <1>0, <2>2, <2>3, EditsQuiet
<1>5. CASE ~FileEdited(d) /\ ~Editable(d)
  <2>1. Resume("worker", "fail", at["worker"])
    BY <1>5 DEF ExamineFileEdit, Finish
  <2>2. pc'["worker"] = "fail" /\ at'["worker"] = at["worker"]
    BY <2>1, InHandPoints DEF Resume, Inv, ThreadsOK
  <2>3. Ready'
    BY <2>2 DEF Ready
  <2>4. QED
    BY <1>0, <1>1, <1>5, <2>2, <2>3, EditsQuiet
<1>6. QED
  BY <1>3, <1>4, <1>5

\* The copy is staged as its source is.
LEMMA StageEdits ==
    ASSUME Inv, EditsOK, [Next]_vars, StageCopy
    PROVE  EditsOK'
<1> DEFINE d == at["worker"].data
           source == files[d.name][d.from]
           b == [at["worker"] EXCEPT !.staged = source]
           p == IF source = None THEN "fail" ELSE "replace"
<1>0. /\ pc["worker"] = "stage" /\ pc["worker"] \in InHand /\ d.kind \in FileEdits
      /\ UNCHANGED <<files, edits, touches, crashes>> /\ Resume("worker", p, b)
  BY FilePoints DEF StageCopy, stored, counters, Inv
<1>1. at["worker"] \in Args /\ source \in Contents \cup {None}
  BY <1>0, EditFiles DEF Inv
<1>2. b.op = at["worker"].op /\ b.data = d /\ b.staged = source
  BY <1>1, ArgsStaged
<1>3. pc'["worker"] = p /\ at'["worker"] = b
  BY <1>0, InHandPoints DEF Resume, Inv, ThreadsOK
<1>4. at'["worker"].op = at["worker"].op /\ at'["worker"].data = d /\ at'["worker"].staged = source
  BY <1>2, <1>3
<1>5. Ready'
  <2>1. files'[at'["worker"].data.name][at'["worker"].data.from] = source
    BY <1>0, <1>4
  <2>2. pc'["worker"] = "replace" => source # None
    BY <1>3
  <2>3. pc'["worker"] # "stage"
    BY <1>3
  <2> HIDE DEF source, b, p, d
  <2>4. QED
    BY <1>4, <2>1, <2>2, <2>3 DEF Ready
<1>6. QED
  BY <1>0, <1>4, <1>5, EditsQuiet

\* A file written adds one at most, and a file moved none.
LEMMA FileWritten ==
    ASSUME NEW f, IsFiniteSet(FilesIn(f)), NEW n \in Names, NEW p \in Paths,
           NEW g, \A m \in Names \ {n} : g[m] = f[m], \A q \in Paths \ {p} : g[n][q] = f[n][q]
    PROVE  IsFiniteSet(FilesIn(g)) /\ Cardinality(FilesIn(g)) <= Cardinality(FilesIn(f)) + 1
<1> DEFINE S == FilesIn(f) \cup {<<n, p>>}
<1>1. FilesIn(g) \subseteq S
  <2>1. ASSUME NEW y \in Names \X Paths, g[y[1]][y[2]] # None, y # <<n, p>>
        PROVE  f[y[1]][y[2]] # None
    <3>1. y[1] \in Names /\ y[2] \in Paths /\ ~(y[1] = n /\ y[2] = p)
      BY <2>1
    <3>2. y[1] # n => g[y[1]] = f[y[1]]
      BY <3>1
    <3>3. y[1] = n => g[y[1]][y[2]] = f[n][y[2]]
      BY <3>1
    <3>4. QED
      BY <2>1, <3>2, <3>3
  <2>2. QED
    BY <2>1 DEF FilesIn
<1>2. /\ IsFiniteSet(S) /\ Cardinality(FilesIn(f)) \in Nat
      /\ Cardinality(S) = Cardinality(FilesIn(f)) \/ Cardinality(S) = Cardinality(FilesIn(f)) + 1
  BY FS_AddElement, FS_CardinalityType
<1> HIDE DEF S
<1>3. IsFiniteSet(FilesIn(g)) /\ Cardinality(FilesIn(g)) <= Cardinality(S)
  BY <1>1, <1>2, FS_Subset
<1>4. Cardinality(FilesIn(g)) \in Nat /\ Cardinality(S) \in Nat
  BY <1>2, <1>3, FS_CardinalityType
<1>5. QED
  BY <1>2, <1>3, <1>4

\* Moving a file, onto another or to a free path, adds none.
LEMMA FileMoved ==
    ASSUME NEW f \in [Names -> [Paths -> Contents \cup {None}]], NEW n \in Names,
           NEW from \in Paths, NEW to \in Paths, f[n][from] # None, NEW g,
           g = [f EXCEPT ![n] = [f[n] EXCEPT ![to] = f[n][from], ![from] = None]],
           IsFiniteSet(FilesIn(f))
    PROVE  IsFiniteSet(FilesIn(g)) /\ Cardinality(FilesIn(g)) <= Cardinality(FilesIn(f))
<1> DEFINE R == FilesIn(f) \ {<<n, from>>}
           S == R \cup {<<n, to>>}
<1>1. FilesIn(g) \subseteq S
  <2>1. ASSUME NEW y \in Names \X Paths, g[y[1]][y[2]] # None, y # <<n, to>>
        PROVE  f[y[1]][y[2]] # None /\ y # <<n, from>>
    <3>1. y[1] \in Names /\ y[2] \in Paths /\ ~(y[1] = n /\ y[2] = to)
      BY <2>1
    <3>2. y[1] # n => g[y[1]] = f[y[1]]
      BY <3>1
    <3>3. y[1] = n => y[2] # to
      BY <3>1
    <3>4. ASSUME y[1] = n PROVE g[n][y[2]] = IF y[2] = from THEN None ELSE f[n][y[2]]
      BY <3>1, <3>3, <3>4
    <3>5. QED
      BY <2>1, <3>1, <3>2, <3>4
  <2>2. QED
    BY <2>1 DEF FilesIn
<1>2. <<n, from>> \in FilesIn(f)
  BY DEF FilesIn
<1>3. /\ IsFiniteSet(R) /\ Cardinality(R) = Cardinality(FilesIn(f)) - 1
      /\ Cardinality(FilesIn(f)) \in Nat /\ Cardinality(R) \in Nat
  <2>1. IsFiniteSet(R) /\ Cardinality(R) = Cardinality(FilesIn(f)) - 1
    BY <1>2, FS_RemoveElement
  <2>2. QED
    BY <2>1, FS_CardinalityType
<1> HIDE DEF R
<1>4. /\ IsFiniteSet(S)
      /\ Cardinality(S) = Cardinality(R) \/ Cardinality(S) = Cardinality(R) + 1
  BY <1>3, FS_AddElement
<1> HIDE DEF S
<1>5. IsFiniteSet(FilesIn(g)) /\ Cardinality(FilesIn(g)) <= Cardinality(S)
  BY <1>1, <1>4, FS_Subset
<1>6. Cardinality(FilesIn(g)) \in Nat /\ Cardinality(S) \in Nat
  BY <1>4, <1>5, FS_CardinalityType
<1>7. QED
  BY <1>3, <1>4, <1>5, <1>6

\* Writing or removing a file adds at most one.
LEMMA FilesWritten ==
    ASSUME files \in [Names -> [Paths -> Contents \cup {None}]], IsFiniteSet(FilesIn(files)),
           NEW n \in Names, NEW p \in Paths, NEW x \in Contents \cup {None},
           files' = [files EXCEPT ![n] = [files[n] EXCEPT ![p] = x]]
    PROVE  /\ IsFiniteSet(FilesIn(files'))
           /\ Cardinality(FilesIn(files')) <= Cardinality(FilesIn(files)) + 1
<1>1. /\ \A m \in Names \ {n} : files'[m] = files[m]
      /\ \A q \in Paths \ {p} : files'[n][q] = files[n][q]
  OBVIOUS
<1>2. ASSUME NEW g, g = files'
      PROVE  IsFiniteSet(FilesIn(g)) /\ Cardinality(FilesIn(g)) <= Cardinality(FilesIn(files)) + 1
  <2>1. /\ \A m \in Names \ {n} : g[m] = files[m]
        /\ \A q \in Paths \ {p} : g[n][q] = files[n][q]
    BY <1>1, <1>2
  <2>2. QED
    BY <2>1, FileWritten
<1>3. QED
  BY <1>2

\* The sizes NoFileAdded compares are numbers.
LEMMA FileCounts ==
    ASSUME Inv, EditsOK
    PROVE  /\ Cardinality(FilesIn(files)) \in Nat /\ Cardinality(FilesIn(FirstFiles)) \in Nat
           /\ IsFiniteSet(Copies) /\ Cardinality(Copies) \in Nat /\ touches \in Nat
<1>1. IsFiniteSet(Copies)
  BY FS_Subset DEF EditsOK, Copies
<1>2. QED
  BY <1>1, FS_CardinalityType, MutationAssumption DEF EditsOK, Inv, RestOK

\* A client writes one file, and excuses every edit made before.
LEMMA TouchEdits ==
    ASSUME Inv, EditsOK, [Next]_vars, NEW n \in Names, NEW p \in Paths, NEW x \in Contents \cup {None},
           files' = [files EXCEPT ![n] = [files[n] EXCEPT ![p] = x]],
           touches' = touches + 1, UNCHANGED <<edits, crashes>>,
           pc'["worker"] = pc["worker"], at'["worker"] = at["worker"]
    PROVE  EditsOK'
<1>0. touches \in Nat /\ at["worker"].since <= touches /\ at["worker"].since \in Nat
  BY WorkerFields DEF Inv, RestOK, Args
<1>1. \A e \in edits : e.op \in Rows /\ e.op \in Rows' /\ data'[e.op] = data[e.op]
  BY EditRows, EditKeeps
<1>2. ASSUME NEW e \in edits PROVE Past(e)'
  <2>1. Past(e) /\ data[e.op].kind # "rename" /\ e.op \in Rows
    BY EditRows DEF EditsOK
  <2>2. ops[e.op].status \in {"Completed", "Failed"} => ops'[e.op].status \in {"Completed", "Failed"}
    BY <2>1, StatusMoves
  <2>3. QED
    BY <2>1, <2>2 DEF Past
<1>3. ASSUME NEW e \in edits PROVE Excused(e)'
  <2>1. touches' > e.since
    BY <1>0, EditRows
  <2>2. QED
    BY <2>1 DEF Excused
<1>4. \A e \in edits' : e.op \in Rows' /\ data'[e.op].kind \in FileEdits
  BY <1>1, EditRows
<1>5. Ready'
  <2>1. at'["worker"].since # touches'
    BY <1>0
  <2>2. QED
    BY <2>1 DEF Ready
<1>6. Copies' = Copies
  BY <1>1 DEF Copies
<1>7. /\ IsFiniteSet(FilesIn(files'))
      /\ Cardinality(FilesIn(files')) <= Cardinality(FilesIn(files)) + 1
  BY FilesWritten DEF Inv, RestOK, EditsOK
<1>8. Cardinality(FilesIn(files')) \in Nat
  BY <1>7, FS_CardinalityType
<1>9. NoFileAdded'
  <2> DEFINE a == Cardinality(FilesIn(files))
             b == Cardinality(FilesIn(files'))
             k == Cardinality(FilesIn(FirstFiles))
             l == Cardinality(Copies)
  <2>1. a \in Nat /\ b \in Nat /\ k \in Nat /\ l \in Nat /\ touches \in Nat
    BY <1>8, FileCounts
  <2>2. a <= k + touches + l /\ b <= a + 1
    BY <1>7 DEF EditsOK, NoFileAdded
  <2>3. NoFileAdded' <=> b <= k + touches' + l
    BY <1>6 DEF NoFileAdded
  <2> HIDE DEF a, b, k, l
  <2>4. b <= k + (touches + 1) + l
    BY <2>1, <2>2
  <2>5. QED
    BY <2>3, <2>4
<1>10. QED
  BY <1>2, <1>3, <1>4, <1>5, <1>7, <1>9 DEF EditsOK

\* The steps of clients.
LEMMA ClientEdits ==
    ASSUME Inv, EditsOK, [Next]_vars, NEW c \in Clients, Metadata(c) \/ Files(c) \/ Client(c)
    PROVE  EditsOK'
<1>1. ASSUME UNCHANGED <<files, edits, touches, crashes>>,
             pc'["worker"] = pc["worker"], at'["worker"] = at["worker"]
      PROVE  EditsOK'
  <2>1. Ready'
    BY <1>1 DEF EditsOK, Ready
  <2>2. QED
    BY <1>1, <2>1, EditsQuiet
<1>2. ASSUME NEW p, NEW a, Resume(c, p, a)
      PROVE  pc'["worker"] = pc["worker"] /\ at'["worker"] = at["worker"]
  BY <1>2, InHandPoints DEF Resume, Inv, ThreadsOK
<1>3. ASSUME NEW d, Intend(c, d) PROVE EditsOK'
  BY <1>1, <1>2, <1>3 DEF Intend, stored, counters
<1>4. CASE Metadata(c)
  <2>1. CASE RequestDelete(c)
    BY <1>1, <1>2, <2>1 DEF RequestDelete, stored, counters
  <2>2. ASSUME NEW w, Preview(c, w) PROVE EditsOK'
    BY <1>1, <2>2 DEF Preview, stored, counters
  <2>3. QED
    BY <1>3, <1>4, <2>1, <2>2
       DEF Metadata, RequestStart, RequestStop, RequestConfig, RequestRename, RequestCreate
<1>5. CASE Submit(c) \/ RunRename(c) \/ Rename(c) \/ End(c)
  <2>1. UNCHANGED <<files, edits, touches, crashes>>
    BY <1>5 DEF Submit, RunRename, Rename, End, SetStatus, stored, counters
  <2>2. \E p, a : Resume(c, p, a)
    BY <1>5 DEF Submit, Insert, RunRename, Rename, End, SetStatus
  <2>3. QED
    BY <1>1, <1>2, <2>1, <2>2
<1>6. CASE WriteUpload(c)
  <2> DEFINE n == at[c].data.name
             to == at[c].data.to
             x == at[c].staged
  <2>1. n \in Names /\ to \in Paths /\ x \in Contents
    BY <1>6, InHandPoints DEF WriteUpload, Inv, ThreadsOK, Fits, FitsAs
  <2>2. /\ files' = [files EXCEPT ![n] = [files[n] EXCEPT ![to] = x]]
        /\ touches' = touches + 1 /\ UNCHANGED <<edits, crashes>>
        /\ pc'["worker"] = pc["worker"] /\ at'["worker"] = at["worker"]
    BY <1>2, <1>6 DEF WriteUpload
  <2> HIDE DEF n, to, x
  <2>3. QED
    BY <2>1, <2>2, TouchEdits
<1>7. CASE Files(c)
  <2>1. ASSUME NEW w \in Worlds, NEW p \in Paths, DeleteFile(w, p) PROVE EditsOK'
    <3> DEFINE n == Directory(w)
    <3>1. n \in Names
      BY <2>1 DEF DeleteFile, Inv, WorldsOK, Directory, Live
    <3>2. /\ files' = [files EXCEPT ![n] = [files[n] EXCEPT ![p] = None]]
          /\ touches' = touches + 1 /\ UNCHANGED <<edits, crashes, pc, at>>
      BY <2>1 DEF DeleteFile
    <3> HIDE DEF n
    <3>3. QED
      BY <3>1, <3>2, TouchEdits
  <2>2. ASSUME NEW w \in Worlds, NEW p \in Paths, NEW x \in Contents, RequestUpload(c, w, p, x)
        PROVE  EditsOK'
    BY <1>1, <1>2, <2>2 DEF RequestUpload, stored, counters
  <2>3. ASSUME NEW w, NEW kind, NEW p, NEW to, RequestFileEdit(c, w, kind, p, to) PROVE EditsOK'
    BY <1>3, <2>3 DEF RequestFileEdit
  <2>4. QED
    BY <1>7, <2>1, <2>2, <2>3 DEF Files
<1>8. QED
  BY <1>4, <1>5, <1>6, <1>7 DEF Client

\* The rename makes the edit: once in a life of the manager, and so that it is recognized
\* as long as nobody else writes to the directory.
LEMMA ReplaceEdits ==
    ASSUME Inv, EditsOK, [Next]_vars, ReplaceTarget
    PROVE  EditsOK'
<1> DEFINE d == at["worker"].data
           i == at["worker"].op
           n == d.name
           from == d.from
           to == d.to
           x == at["worker"].staged
           since == at["worker"].since
           source == files[n][from]
           new == [op |-> i, life |-> crashes, since |-> since]
           valid == d.kind = "copy" \/ source # None
<1>0. /\ pc["worker"] = "replace" /\ pc["worker"] \in InHand /\ d.kind \in FileEdits
      /\ rows' = rows /\ UNCHANGED <<touches, crashes>>
  BY FilePoints DEF Inv, ReplaceTarget, counters
<1>1. /\ n \in Names /\ from \in Paths /\ to \in Paths /\ source \in Contents \cup {None}
  BY <1>0, EditFiles DEF Inv
<1>2. /\ i \in Rows /\ d = data[i] /\ ops[i].status = "Running" /\ at["worker"] \in Args
  BY <1>0, WorkerRow DEF Inv
<1>3. /\ touches \in Nat /\ since \in Nat /\ since <= touches
  BY <1>2 DEF Inv, RestOK, Args
<1>4. ops' = ops /\ data' = data /\ issued' = issued /\ Rows' = Rows
  BY <1>0 DEF rows, Rows
<1>5. /\ at'["worker"] = at["worker"]
      /\ pc'["worker"] = IF valid THEN "complete" ELSE "fail"
  <2>1. Resume("worker", IF valid THEN "complete" ELSE "fail", at["worker"])
    BY DEF ReplaceTarget, Finish
  <2>2. QED
    BY <2>1, InHandPoints DEF Resume, Inv, ThreadsOK
<1>6. Ready'
  BY <1>5 DEF Ready
<1>7. CASE ~valid
  <2>1. UNCHANGED <<files, edits>> /\ pc'["worker"] = "fail"
    BY <1>5, <1>7 DEF ReplaceTarget
  <2>2. QED
    BY <1>0, <1>5, <1>6, <2>1, EditsQuiet
<1>8. CASE valid
  <2>1. /\ edits' = edits \cup {new} /\ pc'["worker"] = "complete"
        /\ d.kind = "copy" => files' = [files EXCEPT ![n] = [files[n] EXCEPT ![to] = x]]
        /\ d.kind # "copy" =>
              files' = [files EXCEPT ![n] = [files[n] EXCEPT ![to] = source, ![from] = None]]
    BY <1>5, <1>8 DEF ReplaceTarget, Moved
  <2>2. new.op = i /\ new.life = crashes /\ new.since = since
    OBVIOUS
  <2>3. files \in [Names -> [Paths -> Contents \cup {None}]]
    BY DEF Inv, RestOK
  <2>4. since = touches =>
          source # None /\ (d.kind = "copy" => x = source) /\ files[n][to] = None
    BY <1>0 DEF EditsOK, Ready, Inv, Vacant
  <2>5. d.kind # "copy" => source # None
    BY <1>8
  <2>6. ASSUME NEW e \in edits PROVE Past(e) /\ e.life <= crashes
    BY DEF EditsOK, Past
  <2>0. d.kind = "copy" => x \in Contents
    BY <1>0, FilePoints DEF Inv
  <2> HIDE DEF d, i, n, from, to, x, since, source, new, valid
  <2>7. new \notin edits
    <3>1. ASSUME new \in edits PROVE FALSE
      <4>1. Past(new)
        BY <2>6, <3>1
      <4>2. QED
        BY <1>0, <1>2, <2>2, <4>1 DEF Past
    <3>2. QED
      BY <3>1
  <2>8. crashes \in Nat
    BY MutationAssumption DEF Inv, RestOK
  <2>9. ASSUME NEW e, e = new PROVE Past(e)'
    <3>1. e.life = crashes' /\ e.op = at'["worker"].op
      BY <1>0, <1>5, <2>2, <2>9 DEF i
    <3>2. e.life <= crashes'
      BY <1>0, <2>2, <2>8, <2>9
    <3>3. QED
      BY <2>1, <3>1, <3>2 DEF Past
  <2>10. ASSUME NEW e, e = new PROVE Excused(e)' \/ Recognized(e)'
    <3>1. e = new
      BY <2>10
    <3>2. CASE since # touches
      <4>1. touches' > e.since
        BY <1>0, <1>3, <2>2, <3>1, <3>2
      <4>2. QED
        BY <4>1 DEF Excused
    <3>3. CASE since = touches
      <4>1. source # None /\ (d.kind = "copy" => x = source) /\ from # to
        BY <2>4, <3>3 DEF source
      <4>2. /\ files'[n][to] # None
            /\ files'[n][from] = IF d.kind = "copy" THEN files'[n][to] ELSE None
        <5>1. CASE d.kind = "copy"
          <6>1. files'[n][to] = x /\ files'[n][from] = source
            BY <1>1, <2>1, <2>3, <4>1, <5>1 DEF source
          <6>2. QED
            BY <4>1, <5>1, <6>1
        <5>2. CASE d.kind # "copy"
          <6>1. files'[n][to] = source /\ files'[n][from] = None
            BY <1>1, <2>1, <2>3, <4>1, <5>2
          <6>2. QED
            BY <4>1, <5>2, <6>1
        <5>3. QED
          BY <5>1, <5>2
      <4>3. data'[e.op] = d
        BY <1>2, <1>4, <2>2, <3>1
      <4>4. FileEdited(data[e.op])'
        BY <4>2, <4>3 DEF FileEdited, n, from, to
      <4>5. ops'[e.op].status # "Failed"
        BY <1>2, <1>4, <2>2, <3>1
      <4>6. \A o \in EditsOf(e.op)' : o.life <= e.life
        BY <2>1, <2>2, <2>6, <2>8, <3>1 DEF EditsOf
      <4>7. QED
        BY <2>1, <4>4, <4>5, <4>6 DEF Recognized
    <3>4. QED
      BY <3>2, <3>3
  <2>11. ASSUME NEW e \in edits PROVE Past(e)'
    BY <1>0, <1>4, <2>6 DEF Past
  <2>12. ASSUME NEW e \in edits PROVE Excused(e)' \/ Recognized(e)'
    <3>1. CASE Excused(e)
      BY <1>0, <1>3, <2>1, <3>1, ExcusedStays
    <3>2. CASE Recognized(e)
      <4>1. e.op # i
        BY <1>0, <3>2 DEF Recognized, i
      <4>2. CASE data[e.op].name = n
        <5>1. new \in edits' /\ new.op # e.op /\ data'[new.op].name = data'[e.op].name
          BY <1>2, <1>4, <2>1, <2>2, <4>1, <4>2 DEF n
        <5>2. QED
          BY <5>1 DEF Excused
      <4>3. CASE data[e.op].name # n
        <5>1. data[e.op].name \in Names
          BY EditRows
        <5>2. files'[data[e.op].name] = files[data[e.op].name]
          BY <2>1, <2>3, <4>3, <5>1
        <5>3. FileEdited(data[e.op])'
          BY <1>4, <3>2, <5>2 DEF Recognized, FileEdited
        <5>4. EditsOf(e.op)' = EditsOf(e.op)
          BY <2>1, <2>2, <4>1 DEF EditsOf
        <5>5. QED
          BY <1>4, <2>1, <3>2, <5>3, <5>4 DEF Recognized
      <4>4. QED
        BY <4>2, <4>3
    <3>3. QED
      BY <3>1, <3>2 DEF EditsOK
  <2>13. \A e \in edits' : e.op \in Rows' /\ data'[e.op].kind \in FileEdits
    BY <1>0, <1>2, <1>4, <2>1, <2>2, EditRows
  <2>14. IsFiniteSet(edits')
    BY <2>1, FS_AddElement DEF EditsOK
  <2>15. IsFiniteSet(FilesIn(files))
    BY DEF EditsOK
  <2>16. /\ IsFiniteSet(FilesIn(files'))
         /\ d.kind = "copy" => Cardinality(FilesIn(files')) <= Cardinality(FilesIn(files)) + 1
         /\ d.kind # "copy" => Cardinality(FilesIn(files')) <= Cardinality(FilesIn(files))
    <3>1. ASSUME d.kind = "copy"
          PROVE  /\ IsFiniteSet(FilesIn(files'))
                 /\ Cardinality(FilesIn(files')) <= Cardinality(FilesIn(files)) + 1
      BY <1>1, <2>0, <2>1, <2>3, <2>15, <3>1, FilesWritten
    <3>2. ASSUME NEW g, g = files', d.kind # "copy"
          PROVE  IsFiniteSet(FilesIn(g)) /\ Cardinality(FilesIn(g)) <= Cardinality(FilesIn(files))
      BY <1>1, <2>1, <2>3, <2>5, <2>15, <3>2, FileMoved DEF source
    <3>3. QED
      BY <3>1, <3>2
  <2>17. /\ d.kind = "copy" => Cardinality(Copies') = Cardinality(Copies) + 1
         /\ d.kind # "copy" => Cardinality(Copies') = Cardinality(Copies)
    <3>1. data'[new.op].kind = d.kind
      BY <1>2, <1>4, <2>2
    <3>2. d.kind = "copy" => Copies' = Copies \cup {new}
      BY <1>4, <2>1, <3>1 DEF Copies
    <3>3. d.kind # "copy" => Copies' = Copies
      BY <1>4, <2>1, <3>1 DEF Copies
    <3>4. new \notin Copies
      BY <2>7 DEF Copies
    <3>5. ASSUME NEW S, S = Copies \cup {new} PROVE Cardinality(S) = Cardinality(Copies) + 1
      BY <3>4, <3>5, FileCounts, FS_AddElement
    <3>6. QED
      BY <3>2, <3>3, <3>5
  <2>18. NoFileAdded'
    <3> DEFINE a == Cardinality(FilesIn(files))
               b == Cardinality(FilesIn(files'))
               k == Cardinality(FilesIn(FirstFiles))
               l == Cardinality(Copies)
               m == Cardinality(Copies')
    <3>1. a \in Nat /\ b \in Nat /\ k \in Nat /\ l \in Nat
      BY <2>16, FS_CardinalityType, FileCounts
    <3>2. a <= k + touches + l
      BY DEF EditsOK, NoFileAdded
    <3>3. (b <= a + 1 /\ m = l + 1) \/ (b <= a /\ m = l)
      BY <2>16, <2>17
    <3>4. NoFileAdded' <=> b <= k + touches + m
      BY <1>0 DEF NoFileAdded
    <3> HIDE DEF a, b, k, l, m
    <3>5. b <= k + touches + m
      BY <1>3, <3>1, <3>2, <3>3
    <3>6. QED
      BY <3>4, <3>5
  <2>19. QED
    <3>1. \A e \in edits' : Past(e)' /\ (Excused(e)' \/ Recognized(e)')
      BY <2>1, <2>9, <2>10, <2>11, <2>12
    <3>2. QED
      BY <1>6, <2>13, <2>14, <2>16, <2>18, <3>1 DEF EditsOK
<1>9. QED
  BY <1>7, <1>8

\* A crash begins a life in which no edit has been made.
LEMMA CrashEdits ==
    ASSUME Inv, EditsOK, [Next]_vars, ManagerCrash
    PROVE  EditsOK'
<1>1. /\ pc'["worker"] = "idle" /\ crashes' = crashes + 1 /\ crashes \in Nat
      /\ UNCHANGED <<files, edits, touches, ops, data, issued>>
  BY InHandPoints, MutationAssumption DEF ManagerCrash, stored, rows, Inv, RestOK
<1>2. Rows' = Rows
  BY <1>1 DEF Rows
<1>3. ASSUME NEW e \in edits PROVE Past(e)'
  <2>1. e.life <= crashes /\ e.life \in Nat
    BY EditRows DEF EditsOK, Past
  <2>2. e.life <= crashes' /\ e.life # crashes'
    BY <1>1, <2>1
  <2>3. QED
    BY <2>2 DEF Past
<1>4. ASSUME NEW e \in edits PROVE Excused(e)' \/ Recognized(e)'
  <2>1. CASE Excused(e)
    BY <1>1, <2>1 DEF Excused
  <2>2. CASE Recognized(e)
    BY <1>1, <2>2 DEF Recognized, FileEdited, EditsOf
  <2>3. QED
    BY <2>1, <2>2 DEF EditsOK
<1>5. Ready'
  BY <1>1 DEF Ready
<1>6. /\ \A e \in edits' : e.op \in Rows' /\ data'[e.op].kind \in FileEdits
      /\ IsFiniteSet(edits') /\ IsFiniteSet(FilesIn(files')) /\ NoFileAdded'
  BY <1>1, <1>2 DEF EditsOK, NoFileAdded, Copies
<1>7. QED
  BY <1>1, <1>3, <1>4, <1>5, <1>6 DEF EditsOK

\* Every step keeps the edits in order.
LEMMA EditsStep == Inv /\ EditsOK /\ [Next]_vars => EditsOK'
<1> SUFFICES ASSUME Inv, EditsOK, [Next]_vars PROVE EditsOK'
  OBVIOUS
<1>1. CASE UNCHANGED vars
  <2>1. UNCHANGED <<files, edits, touches, crashes, pc, at>>
    BY <1>1 DEF vars, stored, counters
  <2>2. Ready'
    BY <2>1 DEF EditsOK, Ready
  <2>3. QED
    BY <2>1, <2>2, EditsQuiet
<1>2. CASE Dispatcher
  BY <1>2, DispatcherEdits, ExamineEdits, StageEdits, ReplaceEdits DEF Dispatcher
<1>3. QED
  BY <1>1, <1>2, ClientEdits, CrashEdits DEF Next

\* At first no edit has been made.
LEMMA InitEdits == Init => EditsOK
<1> SUFFICES ASSUME Init PROVE EditsOK
  OBVIOUS
<1>1. files = FirstFiles /\ edits = {} /\ touches = 0 /\ pc["worker"] = "idle"
  BY InHandPoints DEF Init
<1>2. Copies = {} /\ Cardinality({}) = 0 /\ IsFiniteSet({})
  BY <1>1, FS_EmptySet DEF Copies
<1>3. IsFiniteSet(FilesIn(files)) /\ Cardinality(FilesIn(FirstFiles)) \in Nat
  BY <1>1, FS_CardinalityType, MutationAssumption
<1>4. NoFileAdded
  BY <1>1, <1>2, <1>3 DEF NoFileAdded
<1>5. Ready
  BY <1>1 DEF Ready
<1>6. QED
  BY <1>1, <1>2, <1>3, <1>4, <1>5 DEF EditsOK

-----------------------------------------------------------------------------
(* No file is lost.                                                        *)

\* The dispatcher takes the place of another file only when a client has put it there
\* since, and the client's write is counted.
Crowded == Cardinality(FilesIn(FirstFiles)) + 1 <= Cardinality(FilesIn(files)) + touches

Spared ==
    LET d == at["worker"].data IN
    /\ NoFileLost
    /\ pc["worker"] \in {"stage", "replace"} =>
          d.from # d.to /\ (files[d.name][d.to] # None => Crowded)

\* The directories g are the directories f, but for a file written.
Written(f, g, n, p, x) ==
    /\ f \in [Names -> [Paths -> Contents \cup {None}]] /\ IsFiniteSet(FilesIn(f))
    /\ n \in Names /\ p \in Paths /\ x \in Contents \cup {None}
    /\ g = [f EXCEPT ![n] = [f[n] EXCEPT ![p] = x]]

\* A write takes one file at most, and adds one where there was none.
LEMMA WriteCounts ==
    ASSUME NEW f, NEW g, NEW n, NEW p, NEW x, Written(f, g, n, p, x)
    PROVE  /\ IsFiniteSet(FilesIn(g)) /\ Cardinality(FilesIn(g)) \in Nat
           /\ Cardinality(FilesIn(f)) \in Nat
           /\ Cardinality(FilesIn(f)) <= Cardinality(FilesIn(g)) + 1
           /\ f[n][p] = None /\ x # None => Cardinality(FilesIn(g)) = Cardinality(FilesIn(f)) + 1
           /\ x # None => Cardinality(FilesIn(f)) <= Cardinality(FilesIn(g))
<1>1. /\ \A m \in Names \ {n} : g[m] = f[m] /\ f[m] = g[m]
      /\ \A q \in Paths \ {p} : g[n][q] = f[n][q] /\ f[n][q] = g[n][q]
      /\ g[n][p] = x /\ n \in Names /\ p \in Paths /\ IsFiniteSet(FilesIn(f))
  BY DEF Written
<1>2. IsFiniteSet(FilesIn(g))
  BY <1>1, FileWritten
<1>3. Cardinality(FilesIn(f)) <= Cardinality(FilesIn(g)) + 1
  BY <1>1, <1>2, FileWritten
<1>4. ASSUME f[n][p] = None, x # None
      PROVE  Cardinality(FilesIn(g)) = Cardinality(FilesIn(f)) + 1
  <2>1. ASSUME NEW y \in Names \X Paths
        PROVE  g[y[1]][y[2]] # None <=> f[y[1]][y[2]] # None \/ y = <<n, p>>
    <3>1. y[1] \in Names /\ y[2] \in Paths /\ (y = <<n, p>> <=> y[1] = n /\ y[2] = p)
      OBVIOUS
    <3>2. y[1] # n => g[y[1]] = f[y[1]]
      BY <1>1, <3>1
    <3>3. y[1] = n /\ y[2] # p => g[y[1]][y[2]] = f[n][y[2]]
      BY <1>1, <3>1
    <3>4. y[1] = n /\ y[2] = p => g[y[1]][y[2]] = x
      BY <1>1
    <3>5. QED
      BY <1>4, <3>1, <3>2, <3>3, <3>4
  <2>2. <<n, p>> \in Names \X Paths
    BY <1>1
  <2>3. FilesIn(g) = FilesIn(f) \cup {<<n, p>>}
    BY <2>1, <2>2 DEF FilesIn
  <2>4. <<n, p>> \notin FilesIn(f)
    BY <1>4 DEF FilesIn
  <2>5. QED
    BY <1>1, <2>3, <2>4, FS_AddElement
<1>5. ASSUME x # None PROVE Cardinality(FilesIn(f)) <= Cardinality(FilesIn(g))
  <2>1. FilesIn(f) \subseteq FilesIn(g)
    <3>1. ASSUME NEW y \in Names \X Paths, f[y[1]][y[2]] # None PROVE g[y[1]][y[2]] # None
      <4>1. y[1] \in Names /\ y[2] \in Paths
        OBVIOUS
      <4>2. y[1] # n => g[y[1]] = f[y[1]]
        BY <1>1, <4>1
      <4>3. y[1] = n /\ y[2] # p => g[y[1]][y[2]] = f[n][y[2]]
        BY <1>1, <4>1
      <4>4. y[1] = n /\ y[2] = p => g[y[1]][y[2]] = x
        BY <1>1
      <4>5. QED
        BY <1>5, <3>1, <4>2, <4>3, <4>4
    <3>2. QED
      BY <3>1 DEF FilesIn
  <2>2. QED
    BY <1>2, <2>1, FS_Subset
<1>6. Cardinality(FilesIn(f)) \in Nat /\ Cardinality(FilesIn(g)) \in Nat
  BY <1>1, <1>2, FS_CardinalityType
<1>7. QED
  BY <1>2, <1>3, <1>4, <1>5, <1>6

\* A move takes the file it replaces, if there is one.
LEMMA MoveCounts ==
    ASSUME NEW f \in [Names -> [Paths -> Contents \cup {None}]], IsFiniteSet(FilesIn(f)),
           NEW n \in Names, NEW from \in Paths, NEW to \in Paths, from # to, f[n][from] # None,
           NEW g, g = [f EXCEPT ![n] = [f[n] EXCEPT ![to] = f[n][from], ![from] = None]]
    PROVE  /\ IsFiniteSet(FilesIn(g)) /\ Cardinality(FilesIn(g)) \in Nat
           /\ Cardinality(FilesIn(f)) \in Nat
           /\ Cardinality(FilesIn(f)) <= Cardinality(FilesIn(g)) + 1
           /\ f[n][to] = None => Cardinality(FilesIn(f)) <= Cardinality(FilesIn(g))
<1> DEFINE R == FilesIn(f) \ {<<n, from>>}
           S == R \cup {<<n, to>>}
<1>1. IsFiniteSet(FilesIn(g))
  <2>1. g = [f EXCEPT ![n] = [f[n] EXCEPT ![to] = f[n][from], ![from] = None]]
    OBVIOUS
  <2>2. QED
    BY <2>1, FileMoved
<1>2. /\ \A m \in Names \ {n} : g[m] = f[m]
      /\ \A q \in Paths \ {from, to} : g[n][q] = f[n][q]
      /\ g[n][to] = f[n][from]
  OBVIOUS
<1>3. S \subseteq FilesIn(g)
  <2>1. ASSUME NEW y \in Names \X Paths, f[y[1]][y[2]] # None, y # <<n, from>>
        PROVE  g[y[1]][y[2]] # None
    <3>1. y[1] \in Names /\ y[2] \in Paths /\ ~(y[1] = n /\ y[2] = from)
      BY <2>1
    <3>2. y[1] # n => g[y[1]] = f[y[1]]
      BY <1>2, <3>1
    <3>3. y[1] = n /\ y[2] # to => g[y[1]][y[2]] = f[n][y[2]]
      BY <1>2, <3>1
    <3>4. y[1] = n /\ y[2] = to => g[y[1]][y[2]] = f[n][from]
      BY <1>2
    <3>5. QED
      BY <2>1, <3>2, <3>3, <3>4
  <2>2. <<n, to>> \in FilesIn(g)
    BY <1>2 DEF FilesIn
  <2>3. QED
    BY <2>1, <2>2 DEF FilesIn
<1>4. /\ IsFiniteSet(R) /\ Cardinality(R) = Cardinality(FilesIn(f)) - 1
  <2>1. <<n, from>> \in FilesIn(f)
    BY DEF FilesIn
  <2>2. QED
    BY <2>1, FS_RemoveElement
<1>5. f[n][to] = None => <<n, to>> \notin R
  BY DEF FilesIn
<1> HIDE DEF R
<1>6. /\ IsFiniteSet(S)
      /\ Cardinality(S) = Cardinality(R) \/ Cardinality(S) = Cardinality(R) + 1
      /\ f[n][to] = None => Cardinality(S) = Cardinality(R) + 1
  BY <1>4, <1>5, FS_AddElement
<1> HIDE DEF S
<1>7. Cardinality(S) <= Cardinality(FilesIn(g))
  BY <1>1, <1>3, FS_Subset
<1>8. /\ Cardinality(S) \in Nat /\ Cardinality(R) \in Nat
      /\ Cardinality(FilesIn(f)) \in Nat /\ Cardinality(FilesIn(g)) \in Nat
  BY <1>1, <1>4, <1>7, FS_CardinalityType, FS_Subset, <1>3
<1>9. QED
  BY <1>1, <1>4, <1>6, <1>7, <1>8

\* A step that leaves files alone keeps what the dispatcher has found, or finds it.
LEMMA SparedQuiet ==
    ASSUME Spared, UNCHANGED <<files, touches>>,
           pc'["worker"] \in {"stage", "replace"} =>
              \/ pc["worker"] \in {"stage", "replace"} /\ at'["worker"].data = at["worker"].data
              \/ Editable(at'["worker"].data)
    PROVE  Spared'
<1>1. NoFileLost' /\ (Crowded' <=> Crowded)
  BY DEF Spared, NoFileLost, Crowded
<1>2. ASSUME NEW d, d = at'["worker"].data, pc'["worker"] \in {"stage", "replace"}
      PROVE  d.from # d.to /\ (files[d.name][d.to] # None => Crowded)
  <2>1. CASE pc["worker"] \in {"stage", "replace"} /\ d = at["worker"].data
    BY <2>1 DEF Spared
  <2>2. CASE Editable(d)
    BY <2>2 DEF Editable
  <2>3. QED
    BY <1>2, <2>1, <2>2
<1>3. QED
  BY <1>1, <1>2 DEF Spared

\* A client's write is counted as it takes a file or fills the dispatcher's target.
LEMMA SparedTouch ==
    ASSUME Inv, EditsOK, Spared,
           NEW n \in Names, NEW p \in Paths, NEW x \in Contents \cup {None},
           files' = [files EXCEPT ![n] = [files[n] EXCEPT ![p] = x]], touches' = touches + 1,
           pc'["worker"] = pc["worker"], at'["worker"] = at["worker"]
    PROVE  Spared'
<1> DEFINE a == Cardinality(FilesIn(files))
           b == Cardinality(FilesIn(files'))
           k == Cardinality(FilesIn(FirstFiles))
<1>0. k \in Nat /\ touches \in Nat
  BY FileCounts
<1>1. files \in [Names -> [Paths -> Contents \cup {None}]] /\ IsFiniteSet(FilesIn(files))
  BY DEF Inv, RestOK, EditsOK
<1>2. /\ a \in Nat /\ b \in Nat /\ a <= b + 1
      /\ files[n][p] = None /\ x # None => b = a + 1
  <2>1. ASSUME NEW f, f = files, NEW g, g = files'
        PROVE  /\ Cardinality(FilesIn(f)) \in Nat /\ Cardinality(FilesIn(g)) \in Nat
               /\ Cardinality(FilesIn(f)) <= Cardinality(FilesIn(g)) + 1
               /\ f[n][p] = None /\ x # None =>
                     Cardinality(FilesIn(g)) = Cardinality(FilesIn(f)) + 1
    <3>1. Written(f, g, n, p, x)
      BY <1>1, <2>1 DEF Written
    <3>2. QED
      BY <3>1, WriteCounts
  <2>2. QED
    BY <2>1
<1>3. /\ NoFileLost <=> k <= a + touches
      /\ NoFileLost' <=> k <= b + (touches + 1)
      /\ Crowded <=> k + 1 <= a + touches
      /\ Crowded' <=> k + 1 <= b + (touches + 1)
  BY DEF NoFileLost, Crowded
<1> HIDE DEF a, b, k
<1>4. k <= a + touches
  BY <1>3 DEF Spared
<1>5. k <= b + (touches + 1)
  BY <1>0, <1>2, <1>4
<1>6. k + 1 <= a + touches => k + 1 <= b + (touches + 1)
  BY <1>0, <1>2
<1>7. files[n][p] = None /\ x # None => k + 1 <= b + (touches + 1)
  BY <1>0, <1>2, <1>4
<1>8. ASSUME NEW d, d = at["worker"].data, pc["worker"] \in {"stage", "replace"}
      PROVE  d.from # d.to /\ (files'[d.name][d.to] # None => Crowded')
  <2>1. d.from # d.to /\ (files[d.name][d.to] # None => Crowded)
    BY <1>8 DEF Spared
  <2>2. d.name \in Names /\ d.to \in Paths
    BY <1>8, FilePoints, EditFiles DEF Inv
  <2>3. \/ files'[d.name][d.to] = files[d.name][d.to]
        \/ d.name = n /\ d.to = p /\ files'[d.name][d.to] = x
    BY <1>1, <2>2
  <2>4. QED
    BY <1>3, <1>6, <1>7, <2>1, <2>3
<1>9. NoFileLost'
  BY <1>3, <1>5
<1>10. QED
  BY <1>8, <1>9 DEF Spared

\* The rename takes a file only in place of one that has been counted.
LEMMA SparedReplace ==
    ASSUME Inv, EditsOK, Spared, ReplaceTarget
    PROVE  Spared'
<1> DEFINE d == at["worker"].data
           x == at["worker"].staged
           n == d.name
           from == d.from
           to == d.to
           a == Cardinality(FilesIn(files))
           k == Cardinality(FilesIn(FirstFiles))
<1>1. pc["worker"] = "replace" /\ touches' = touches
  BY DEF ReplaceTarget, counters
<1>2. pc'["worker"] \notin {"stage", "replace"}
  BY InHandPoints DEF ReplaceTarget, Finish, Resume, Inv, ThreadsOK
<1>3. n \in Names /\ from \in Paths /\ to \in Paths /\ (d.kind = "copy" => x \in Contents)
  BY <1>1, FilePoints, EditFiles DEF Inv
<1>4. files \in [Names -> [Paths -> Contents \cup {None}]] /\ IsFiniteSet(FilesIn(files))
  BY DEF Inv, RestOK, EditsOK
<1>5. from # to /\ (files[n][to] # None => Crowded)
  BY <1>1 DEF Spared
<1>6. k \in Nat /\ touches \in Nat /\ a \in Nat
  BY FileCounts
<1>7. k <= a + touches /\ (Crowded <=> k + 1 <= a + touches)
  BY DEF Spared, NoFileLost, Crowded
<1>8. ASSUME NEW g, g = files' PROVE k <= Cardinality(FilesIn(g)) + touches
  <2> DEFINE b == Cardinality(FilesIn(g))
  <2>1. CASE files' = files
    BY <1>7, <1>8, <2>1
  <2>2. CASE d.kind = "copy" /\ files' = [files EXCEPT ![n] = [files[n] EXCEPT ![to] = x]]
    <3>0. x \in Contents \cup {None} /\ x # None
      BY <1>3, <2>2, MutationAssumption
    <3>1. Written(files, g, n, to, x)
      BY <1>3, <1>4, <1>8, <2>2 DEF Written
    <3>2. b \in Nat /\ a <= b
      BY <3>0, <3>1, WriteCounts
    <3> HIDE DEF a, b, k
    <3>3. QED
      BY <1>6, <1>7, <3>2 DEF b
  <2>3. CASE /\ files[n][from] # None
             /\ files' = [files EXCEPT ![n] = [files[n] EXCEPT ![to] = files[n][from], ![from] = None]]
    <3>1. b \in Nat /\ a <= b + 1 /\ (files[n][to] = None => a <= b)
      BY <1>3, <1>4, <1>5, <1>8, <2>3, MoveCounts
    <3> HIDE DEF a, b, k
    <3>2. a <= b \/ k + 1 <= a + touches
      BY <1>5, <1>7, <3>1
    <3>3. k <= b + touches
      BY <1>6, <1>7, <3>1, <3>2
    <3>4. QED
      BY <3>3 DEF b
  <2>4. QED
    BY <2>1, <2>2, <2>3 DEF ReplaceTarget, Moved
<1>9. NoFileLost'
  BY <1>1, <1>8 DEF NoFileLost
<1>10. QED
  BY <1>2, <1>9 DEF Spared

\* The steps of clients: those that leave files alone leave the dispatcher alone too.
LEMMA SparedClient ==
    ASSUME Inv, EditsOK, Spared, NEW c \in Clients, Metadata(c) \/ Files(c) \/ Client(c)
    PROVE  Spared'
<1>1. ASSUME UNCHANGED <<files, touches>>, pc'["worker"] = pc["worker"],
             at'["worker"] = at["worker"]
      PROVE  Spared'
  BY <1>1, SparedQuiet
<1>2. ASSUME NEW p, NEW a, Resume(c, p, a)
      PROVE  pc'["worker"] = pc["worker"] /\ at'["worker"] = at["worker"]
  BY <1>2, InHandPoints DEF Resume, Inv, ThreadsOK
<1>3. ASSUME NEW d, Intend(c, d) PROVE Spared'
  BY <1>1, <1>2, <1>3 DEF Intend, stored, counters
<1>4. CASE Metadata(c)
  <2>1. CASE RequestDelete(c)
    BY <1>1, <1>2, <2>1 DEF RequestDelete, stored, counters
  <2>2. ASSUME NEW w, Preview(c, w) PROVE Spared'
    BY <1>1, <2>2 DEF Preview, stored, counters
  <2>3. QED
    BY <1>3, <1>4, <2>1, <2>2
       DEF Metadata, RequestStart, RequestStop, RequestConfig, RequestRename, RequestCreate
<1>5. CASE Submit(c) \/ RunRename(c) \/ Rename(c) \/ End(c)
  <2>1. UNCHANGED <<files, touches>>
    BY <1>5 DEF Submit, RunRename, Rename, End, SetStatus, stored, counters
  <2>2. \E p, a : Resume(c, p, a)
    BY <1>5 DEF Submit, Insert, RunRename, Rename, End, SetStatus
  <2>3. QED
    BY <1>1, <1>2, <2>1, <2>2
<1>6. CASE WriteUpload(c)
  <2> DEFINE n == at[c].data.name
             to == at[c].data.to
             x == at[c].staged
  <2>1. n \in Names /\ to \in Paths /\ x \in Contents
    BY <1>6, InHandPoints DEF WriteUpload, Inv, ThreadsOK, Fits, FitsAs
  <2>2. /\ files' = [files EXCEPT ![n] = [files[n] EXCEPT ![to] = x]] /\ touches' = touches + 1
        /\ pc'["worker"] = pc["worker"] /\ at'["worker"] = at["worker"]
    BY <1>2, <1>6 DEF WriteUpload
  <2> HIDE DEF n, to, x
  <2>3. QED
    BY <2>1, <2>2, SparedTouch
<1>7. CASE Files(c)
  <2>1. ASSUME NEW w \in Worlds, NEW p \in Paths, DeleteFile(w, p) PROVE Spared'
    <3> DEFINE n == Directory(w)
    <3>1. n \in Names
      BY <2>1 DEF DeleteFile, Inv, WorldsOK, Directory, Live
    <3>2. /\ files' = [files EXCEPT ![n] = [files[n] EXCEPT ![p] = None]]
          /\ touches' = touches + 1 /\ UNCHANGED <<pc, at>>
      BY <2>1 DEF DeleteFile
    <3> HIDE DEF n
    <3>3. QED
      BY <3>1, <3>2, SparedTouch
  <2>2. ASSUME NEW w \in Worlds, NEW p \in Paths, NEW x \in Contents, RequestUpload(c, w, p, x)
        PROVE  Spared'
    BY <1>1, <1>2, <2>2 DEF RequestUpload, stored, counters
  <2>3. ASSUME NEW w, NEW kind, NEW p, NEW to, RequestFileEdit(c, w, kind, p, to) PROVE Spared'
    BY <1>3, <2>3 DEF RequestFileEdit
  <2>4. QED
    BY <1>7, <2>1, <2>2, <2>3 DEF Files
<1>8. QED
  BY <1>4, <1>5, <1>6, <1>7 DEF Client

\* Every step spares the files of others.
LEMMA SparedStep == Inv /\ EditsOK /\ Spared /\ [Next]_vars => Spared'
<1> SUFFICES ASSUME Inv, EditsOK, Spared, [Next]_vars PROVE Spared'
  OBVIOUS
<1>1. ASSUME UNCHANGED <<files, touches>>, pc'["worker"] = pc["worker"],
             at'["worker"] = at["worker"]
      PROVE  Spared'
  BY <1>1, SparedQuiet
<1>2. ASSUME NEW p, p \notin {"stage", "replace"}, NEW a, Resume("worker", p, a),
             UNCHANGED <<files, touches>>
      PROVE  Spared'
  <2>1. pc'["worker"] = p
    BY <1>2, InHandPoints DEF Resume, Inv, ThreadsOK
  <2>2. QED
    BY <1>2, <2>1, SparedQuiet
<1>3. ASSUME NEW c \in Clients, Metadata(c) \/ Files(c) \/ Client(c) PROVE Spared'
  BY <1>1, <1>3, SparedClient
<1>4. CASE /\ \/ \E i \in 1 .. MaxOps : BeginRuntime(i)
              \/ EndRuntime \/ Scan \/ Take \/ EndPass
              \/ ApplyCreate \/ ApplyDelete \/ ApplyConfig \/ End("worker")
  <2>1. UNCHANGED <<files, touches>>
    BY <1>4 DEF BeginRuntime, EndRuntime, Scan, Take, EndPass, ApplyCreate, ApplyDelete,
                ApplyConfig, End, SetStatus, stored, counters
  <2>2. \E p \in {"idle", "runtime", "pass", "apply", "complete", "fail"} :
         \E a : Resume("worker", p, a)
    <3>1. CASE \E i \in 1 .. MaxOps : BeginRuntime(i)
      BY <3>1 DEF BeginRuntime
    <3>2. CASE EndRuntime
      BY <3>2 DEF EndRuntime
    <3>3. CASE Scan \/ EndPass
      BY <3>3 DEF Scan, EndPass
    <3>4. CASE Take
      BY <3>4 DEF Take
    <3>5. CASE ApplyCreate \/ ApplyDelete \/ ApplyConfig
      BY <3>5 DEF ApplyCreate, ApplyDelete, ApplyConfig, Finish
    <3>6. CASE End("worker")
      BY <3>6 DEF End, SetStatus
    <3>7. QED
      BY <1>4, <3>1, <3>2, <3>3, <3>4, <3>5, <3>6
  <2>3. QED
    BY <1>2, <2>1, <2>2
<1>5. CASE ExamineFileEdit
  <2> DEFINE d == at["worker"].data
             b == [at["worker"] EXCEPT !.since = touches]
  <2>1. UNCHANGED <<files, touches>> /\ touches \in Nat /\ at["worker"] \in Args
    BY <1>5, WorkerFields DEF ExamineFileEdit, stored, counters, Inv, RestOK
  <2>2. b.data = d
    BY <2>1, ArgsSince
  <2>3. CASE ~FileEdited(d) /\ Editable(d)
    <3>1. Resume("worker", IF d.kind = "copy" THEN "stage" ELSE "replace", b)
      BY <1>5, <2>3 DEF ExamineFileEdit
    <3>2. at'["worker"] = b
      BY <3>1, InHandPoints DEF Resume, Inv, ThreadsOK
    <3> HIDE DEF b
    <3>3. at'["worker"].data = d
      BY <2>2, <3>2
    <3>4. ASSUME NEW e, e = at'["worker"].data PROVE Editable(e)
      BY <2>3, <3>3, <3>4
    <3>5. QED
      BY <2>1, <3>4, SparedQuiet
  <2>4. CASE FileEdited(d) \/ ~Editable(d)
    <3>1. \E p \in {"complete", "fail"} : Resume("worker", p, at["worker"])
      BY <1>5, <2>4 DEF ExamineFileEdit, Finish
    <3>2. QED
      BY <1>2, <2>1, <3>1
  <2>5. QED
    BY <2>3, <2>4
<1>6. CASE StageCopy
  <2> DEFINE source == files[at["worker"].data.name][at["worker"].data.from]
             b == [at["worker"] EXCEPT !.staged = source]
             p == IF source = None THEN "fail" ELSE "replace"
  <2>1. /\ pc["worker"] = "stage" /\ pc["worker"] \in InHand
        /\ at["worker"].data.kind \in FileEdits
        /\ UNCHANGED <<files, touches>> /\ Resume("worker", p, b)
    BY <1>6, FilePoints DEF StageCopy, stored, counters, Inv
  <2>2. at["worker"] \in Args /\ source \in Contents \cup {None}
    BY <2>1, EditFiles DEF Inv
  <2>3. b.data = at["worker"].data
    BY <2>2, ArgsStaged
  <2>4. at'["worker"] = b
    BY <2>1, InHandPoints DEF Resume, Inv, ThreadsOK
  <2> HIDE DEF b, p, source
  <2>5. at'["worker"].data = at["worker"].data
    BY <2>3, <2>4
  <2>6. QED
    BY <2>1, <2>5, SparedQuiet
<1>7. CASE ReplaceTarget
  BY <1>7, SparedReplace
<1>8. CASE ManagerCrash
  <2>1. pc'["worker"] = "idle" /\ UNCHANGED <<files, touches>>
    BY <1>8, InHandPoints DEF ManagerCrash, stored
  <2>2. QED
    BY <2>1, SparedQuiet
<1>9. CASE UNCHANGED vars
  BY <1>1, <1>9 DEF vars, stored, counters
<1>10. QED
  BY <1>3, <1>4, <1>5, <1>6, <1>7, <1>8, <1>9 DEF Next, Dispatcher

\* At first all files are there.
LEMMA InitSpared == Init => Spared
<1> SUFFICES ASSUME Init PROVE Spared
  OBVIOUS
<1>1. files = FirstFiles /\ touches = 0 /\ pc["worker"] = "idle"
  BY InHandPoints DEF Init
<1>2. Cardinality(FilesIn(FirstFiles)) \in Nat
  BY FS_CardinalityType, MutationAssumption
<1>3. NoFileLost
  BY <1>1, <1>2 DEF NoFileLost
<1>4. QED
  BY <1>1, <1>3 DEF Spared

\* A file edit takes effect once and takes nothing with it, although an interrupted row is
\* applied again and clients write the same files meanwhile (_apply_queued_file_edit).
THEOREM FilesSurvive == Spec => []FilesSurviveRetries
<1>1. Inv /\ EditsOK /\ Spared => FilesSurviveRetries
  <2> SUFFICES ASSUME Inv, EditsOK, Spared PROVE FilesSurviveRetries
    OBVIOUS
  <2>1. ASSUME NEW i \in Rows, NEW e \in EditsOf(i),
               Status(i) = "Failed" \/ \E o \in EditsOf(i) : o.life > e.life
        PROVE  touches > e.since \/ \E o \in edits : o.op # i /\ data[o.op].name = data[i].name
    <3>1. e \in edits /\ e.op = i
      BY DEF EditsOf
    <3>2. ~Recognized(e)
      <4>1. CASE Status(i) = "Failed"
        BY <3>1, <4>1 DEF Recognized, Status
      <4>2. ASSUME NEW o \in EditsOf(i), o.life > e.life PROVE ~Recognized(e)
        <5>1. o.life \in Nat /\ e.life \in Nat
          BY <3>1, EditRows DEF EditsOf
        <5>2. ~(o.life <= e.life)
          BY <4>2, <5>1
        <5>3. QED
          BY <3>1, <5>2 DEF Recognized
      <4>3. QED
        BY <2>1, <4>1, <4>2
    <3>3. Excused(e)
      BY <3>1, <3>2 DEF EditsOK
    <3>4. QED
      BY <3>1, <3>3 DEF Excused
  <2>2. EditsAreRecognized
    BY <2>1 DEF EditsAreRecognized
  <2>3. NoFileAdded /\ NoFileLost
    BY DEF EditsOK, Spared
  <2>4. QED
    BY <2>2, <2>3 DEF FilesSurviveRetries
<1>2. Init => Inv /\ EditsOK /\ Spared
  BY InitInv, InitEdits, InitSpared
<1>3. Inv /\ EditsOK /\ Spared /\ [Next]_vars => (Inv /\ EditsOK /\ Spared)'
  BY InvStep, EditsStep, SparedStep
<1>4. QED
  BY <1>1, <1>2, <1>3, PTL DEF Spec
=============================================================================
