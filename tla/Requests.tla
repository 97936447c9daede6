------------------------------ MODULE Requests ------------------------------
(***************************************************************************)
(* The API server in front of one tenant's database.                       *)
(*                                                                         *)
(* A request is served by one gunicorn worker.  Its handler loads rows,    *)
(* computes new values in Python from what it loaded and commits; the ORM  *)
(* sends an UPDATE that names the changed columns of each changed row and  *)
(* an INSERT for each new row.  No row is locked unless a handler says so, *)
(* so with Concurrent = TRUE a request commits on top of whatever others   *)
(* committed since it loaded.  With Concurrent = FALSE a request is served *)
(* from its first SELECT to its last COMMIT before another begins, and a   *)
(* handler with one commit is a single step.                               *)
(*                                                                         *)
(* A table is a function from row ids to rows, most often a sequence to    *)
(* which rows are appended.  The modules of the system name the tables.    *)
(***************************************************************************)
EXTENDS Integers, Sequences, FiniteSetsExt

CONSTANTS
    Workers,     \* gunicorn workers
    Concurrent,  \* do requests overlap?
    MaxRows      \* bound: rows of each table, by the table's name

ASSUME RequestsAssumption == Concurrent \in BOOLEAN

VARIABLES
    db,    \* the tables, as committed
    req,   \* per worker: where its request is, what it loaded, what is left to do
    past   \* history no handler sees: what the properties remember

vars == <<db, req, past>>

\* NULL
None == "none"

\* The tables of f, and of g those that f does not name.
Overlay(f, g) == [t \in DOMAIN f \cup DOMAIN g |-> IF t \in DOMAIN f THEN f[t] ELSE g[t]]

\* The sum of one column over some rows of a table.
SumOf(table, column, rows) ==
    SumFunctionOnSet([k \in DOMAIN table |-> table[k][column]], rows)

\* Nobody waits for this worker.
Idle == [at |-> "idle"]

\* A request whose rows are loaded and whose handler runs.
Serving(p) ==
    IF Concurrent THEN req[p].at = "loaded" ELSE \A q \in Workers : req[q] = Idle

\* A request between two commits of one handler.
Resuming(p, stage) == req[p].at = stage

\* The rows as the request loaded them.
Seen(p) == IF Concurrent /\ req[p] # Idle THEN req[p].seen ELSE db

Rows(p, t) == DOMAIN Seen(p)[t]

Row(p, t, k) == Seen(p)[t][k]

Room(t) == Len(db[t]) < MaxRows[t]

-----------------------------------------------------------------------------
(* Flush and commit *)

\* An UPDATE names the columns that differ from the loaded row.
MergeRow(seen, new, stored) ==
    [f \in DOMAIN stored |-> IF new[f] = seen[f] THEN stored[f] ELSE new[f]]

\* Rows that new holds beyond seen are INSERTs.
MergeTable(seen, new, stored) ==
    IF new = seen THEN stored
    ELSE IF DOMAIN new = DOMAIN seen
    THEN [k \in DOMAIN stored |->
            IF k \in DOMAIN seen THEN MergeRow(seen[k], new[k], stored[k]) ELSE stored[k]]
    ELSE [k \in 1..(Len(stored) + Len(new) - Len(seen)) |->
            IF k <= Len(seen) THEN MergeRow(seen[k], new[k], stored[k])
            ELSE IF k <= Len(stored) THEN stored[k]
            ELSE new[k - Len(stored) + Len(seen)]]

Save(seen, new) == [t \in DOMAIN db |-> MergeTable(seen[t], new[t], db[t])]

Write(p, new) == db' = IF Concurrent THEN Save(Seen(p), new) ELSE new

Finish(p) == req' = [req EXCEPT ![p] = Idle]

\* The handler goes on after a commit with something left to do; the rows it
\* looks at next are loaded again.
GoOn(p, stage, todo) ==
    req' = [req EXCEPT ![p] = [at |-> stage, todo |-> todo,
                               seen |-> IF Concurrent THEN db' ELSE <<>>]]

Commit(p, new) ==
    /\ Write(p, new)
    /\ Finish(p)
    /\ UNCHANGED past

CommitThen(p, new, stage, todo) ==
    /\ Write(p, new)
    /\ GoOn(p, stage, todo)
    /\ UNCHANGED past

-----------------------------------------------------------------------------
(* What every handler is made of *)

Insert(s, t, row) == [s EXCEPT ![t] = Append(@, row)]

\* A handler that adds one row.
Create(p, t, row) ==
    /\ Serving(p)
    /\ Room(t)
    /\ Commit(p, Insert(Seen(p), t, row))

\* A row that is filed and looked up, never changed.
File(p, kind) == Create(p, "filed", [kind |-> kind])

\* A handler that refuses a row unless its status is among from, and sets it to to.
Turn(p, t, k, from, to) ==
    /\ Serving(p)
    /\ k \in Rows(p, t)
    /\ Row(p, t, k).status \in from
    /\ Commit(p, [Seen(p) EXCEPT ![t][k].status = to])

\* Of the rows of t, those that F holds of, one is changed to G of it.
Amend(p, t, k, F(_), G(_)) ==
    /\ Serving(p)
    /\ k \in Rows(p, t)
    /\ F(Row(p, t, k))
    /\ Commit(p, [Seen(p) EXCEPT ![t][k] = G(@)])

Load(p) ==
    /\ Concurrent
    /\ req[p] = Idle
    /\ req' = [req EXCEPT ![p] = [at |-> "loaded", seen |-> db]]
    /\ UNCHANGED <<db, past>>

\* The request is refused, or dies and its open transaction is rolled back.
Abandon(p) ==
    /\ req[p] # Idle
    /\ req' = [req EXCEPT ![p] = Idle]
    /\ UNCHANGED <<db, past>>

=============================================================================
