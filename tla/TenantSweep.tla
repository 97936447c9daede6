----------------------------- MODULE TenantSweep -----------------------------
(***************************************************************************)
(* The celery workers' scheduled sweeps over every tenant, and the tenant  *)
(* context of their database sessions.                                     *)
(*                                                                         *)
(* Row-level security shows a tenant's rows only to a transaction that has *)
(* set app.tenant_id.  SET LOCAL lasts until the transaction ends.  In a   *)
(* request the after_begin listener (middleware/tenant_context.py) sets it *)
(* again for the next transaction; outside a request it does nothing, so   *)
(* a sweep has its context until its first commit or rollback and no       *)
(* longer.  Both also expire every loaded object: touching one again is a  *)
(* new SELECT, in a new transaction, under the policy.                     *)
(*                                                                         *)
(* The reorder and cutover sweeps commit once per tenant, after their      *)
(* loop.  The escalation sweep calls escalate_instance, which commits, for *)
(* every overdue approval inside the loop.                                 *)
(***************************************************************************)
EXTENDS Naturals, FiniteSets

CONSTANTS
    Workers,       \* celery worker processes
    Tenants,
    NoTenant,      \* app.tenant_id is not set in the current transaction
    Items,         \* approvals, reorder levels and transfers a sweep acts on
    TenantOf,      \* [Items -> Tenants]
    TaskOf,        \* [Items -> Tasks]
    Actionable,    \* the items a sweep acts on once due: an escalation target is set,
                   \* auto_create_pr is on; the others are passed over
    Failing,       \* the items whose processing may raise
    MaxCrashes     \* bound: how many times a worker process dies

Tasks == {"escalate", "reorder", "cutover"}

ASSUME SweepAssumption ==
    /\ NoTenant \notin Tenants
    /\ TenantOf \in [Items -> Tenants]
    /\ TaskOf \in [Items -> Tasks]
    /\ Actionable \subseteq Items
    /\ Failing \subseteq Items
    /\ MaxCrashes \in Nat

VARIABLES
    row,       \* per item, as committed: "idle", "due", "done"
    run,       \* per worker: the sweep it runs and the state of its session
    crashes    \* bounded count of worker deaths

vars == <<row, run, crashes>>

Asleep == [task    |-> "none",
           left    |-> {},        \* tenants still to visit
           tenant  |-> NoTenant,  \* the tenant being visited, NoTenant between two
           context |-> NoTenant,  \* app.tenant_id of the session's current transaction
           batch   |-> {},        \* the tenant's rows the query returned
           todo    |-> {},        \* those not looked at yet
           dirty   |-> {},        \* changed in the open transaction
           did     |-> {}]        \* history: what the run has committed

Init ==
    /\ row = [i \in Items |-> "idle"]
    /\ run = [w \in Workers |-> Asleep]
    /\ crashes = 0

Set(w, r) == run' = [run EXCEPT ![w] = r]

Complete(S) == row' = [i \in Items |-> IF i \in S THEN "done" ELSE row[i]]

\* A due date passes, stock falls below its reorder point, a cutover date arrives.
BecomesDue(i) ==
    /\ row[i] = "idle"
    /\ row' = [row EXCEPT ![i] = "due"]
    /\ UNCHANGED <<run, crashes>>

\* Beat sends the task: Tenant.query.all(), the tenants table has no policy.
Start(w, t) ==
    /\ run[w].task = "none"
    /\ Set(w, [Asleep EXCEPT !.task = t, !.left = Tenants])
    /\ UNCHANGED <<row, crashes>>

DueRows(t, task) == {i \in Items : TaskOf[i] = task /\ TenantOf[i] = t /\ row[i] = "due"}

\* Mutant: the query does not ask for rows that were not handled yet.
Visit_selectsHandled(w, t) ==
    LET r == run[w]
        rows == {i \in Items : TaskOf[i] = r.task /\ TenantOf[i] = t /\ row[i] # "idle"}
    IN /\ r.task # "none"
       /\ r.tenant = NoTenant
       /\ t \in r.left
       /\ Set(w, [r EXCEPT !.left = @ \ {t}, !.tenant = t, !.context = t,
                           !.batch = rows, !.todo = rows])
       /\ UNCHANGED <<row, crashes>>

\* _as_tenant, then the query for the tenant's due rows.
Visit(w, t) ==
    LET r == run[w]
        rows == DueRows(t, r.task)
    IN /\ r.task # "none"
       /\ r.tenant = NoTenant
       /\ t \in r.left
       /\ Set(w, [r EXCEPT !.left = @ \ {t}, !.tenant = t, !.context = t,
                           !.batch = rows, !.todo = rows])
       /\ UNCHANGED <<row, crashes>>

\* Mutant: passing over an item ends the transaction.
PassOver_commits(w, i) ==
    /\ i \in run[w].todo \ Actionable
    /\ run[w].context = run[w].tenant
    /\ Set(w, [run[w] EXCEPT !.todo = @ \ {i}, !.context = NoTenant])
    /\ UNCHANGED <<row, crashes>>

\* Nothing to do for this one: no auto_escalate or target, no auto_create_pr.
PassOver(w, i) ==
    /\ i \in run[w].todo \ Actionable
    /\ run[w].context = run[w].tenant
    /\ Set(w, [run[w] EXCEPT !.todo = @ \ {i}])
    /\ UNCHANGED <<row, crashes>>

CommitsEach(w) == run[w].task = "escalate"

\* Mutant: the next approval is written without a look at the context.
Handle_anyContext(w, i) ==
    LET r == [run[w] EXCEPT !.todo = @ \ {i}]
    IN /\ i \in run[w].todo \cap Actionable
       /\ Set(w, [r EXCEPT !.did = @ \cup {i}, !.context = NoTenant])
       /\ Complete({i})
       /\ UNCHANGED crashes
\* Mutant: every sweep commits item by item, and keeps its context.
Handle_commitsEach(w, i) ==
    LET r == [run[w] EXCEPT !.todo = @ \ {i}]
    IN /\ i \in run[w].todo \cap Actionable
       /\ run[w].context = run[w].tenant
       /\ Set(w, [r EXCEPT !.did = @ \cup {i}])
       /\ Complete({i})
       /\ UNCHANGED crashes

\* escalate_instance commits, and with it the context is gone; the other
\* sweeps only add the change to the open transaction.
Handle(w, i) ==
    LET r == [run[w] EXCEPT !.todo = @ \ {i}]
    IN /\ i \in run[w].todo \cap Actionable
       /\ run[w].context = run[w].tenant
       /\ IF CommitsEach(w)
          THEN /\ Set(w, [r EXCEPT !.did = @ \cup {i}, !.context = NoTenant])
               /\ Complete({i})
          ELSE /\ Set(w, [r EXCEPT !.dirty = @ \cup {i}])
               /\ UNCHANGED row
       /\ UNCHANGED crashes

\* Mutants: the changes made so far stay in the session; the exception is not
\* caught tenant by tenant and ends the run.
GiveUp_noRollback(w, i) ==
    /\ i \in run[w].todo
    /\ run[w].context # run[w].tenant \/ i \in Failing
    /\ Set(w, [run[w] EXCEPT !.tenant = NoTenant, !.context = NoTenant, !.todo = {}])
    /\ UNCHANGED <<row, crashes>>
GiveUp_endsRun(w, i) ==
    /\ i \in run[w].todo
    /\ run[w].context # run[w].tenant \/ i \in Failing
    /\ Set(w, Asleep)
    /\ UNCHANGED <<row, crashes>>

\* The item raises, or reading it does because the context is gone, and the
\* transaction is rolled back.  In the escalation sweep the handler inside the
\* loop then reads instance.id, which raises again and leaves the loop.  Either
\* way the task goes on with the next tenant.
GiveUp(w, i) ==
    /\ i \in run[w].todo
    /\ run[w].context # run[w].tenant \/ i \in Failing
    /\ Set(w, [run[w] EXCEPT !.tenant = NoTenant, !.context = NoTenant,
                             !.todo = {}, !.dirty = {}])
    /\ UNCHANGED <<row, crashes>>

\* The commit at the end of the tenant's turn.
Leave(w) ==
    LET r == run[w]
    IN /\ r.tenant # NoTenant
       /\ r.todo = {}
       /\ Complete(r.dirty)
       /\ Set(w, [r EXCEPT !.tenant = NoTenant, !.context = NoTenant,
                           !.dirty = {}, !.did = @ \cup r.dirty])
       /\ UNCHANGED crashes

Return(w) ==
    /\ run[w].task # "none"
    /\ run[w].tenant = NoTenant
    /\ run[w].left = {}
    /\ Set(w, Asleep)
    /\ UNCHANGED <<row, crashes>>

\* The worker process dies; its open transaction is rolled back.
Crash(w) ==
    /\ run[w].task # "none"
    /\ crashes < MaxCrashes
    /\ crashes' = crashes + 1
    /\ Set(w, Asleep)
    /\ UNCHANGED row

Process(w) == \E i \in Items : PassOver(w, i) \/ Handle(w, i) \/ GiveUp(w, i)

Next ==
    \/ \E i \in Items : BecomesDue(i)
    \/ \E w \in Workers :
         \/ \E t \in Tasks : Start(w, t)
         \/ \E t \in Tenants : Visit(w, t)
         \/ \E i \in Items : PassOver(w, i) \/ Handle(w, i) \/ GiveUp(w, i)
         \/ Leave(w)
         \/ Return(w)
         \/ Crash(w)

Spec == Init /\ [][Next]_vars

\* Beat keeps sending every task, and a worker that lives goes through its
\* loop; nothing is said of the order of tenants or of rows, which come back
\* from queries without ORDER BY.
Fairness ==
    \A w \in Workers :
        /\ \A t \in Tasks : SF_vars(Start(w, t))
        /\ WF_vars(\E t \in Tenants : Visit(w, t))
        /\ WF_vars(Process(w))
        /\ WF_vars(Leave(w))
        /\ WF_vars(Return(w))

FairSpec == Spec /\ Fairness

-----------------------------------------------------------------------------
(* Properties *)

Sessions == [task    : Tasks \cup {"none"},
             left    : SUBSET Tenants,
             tenant  : Tenants \cup {NoTenant},
             context : Tenants \cup {NoTenant},
             batch   : SUBSET Items,
             todo    : SUBSET Items,
             dirty   : SUBSET Items,
             did     : SUBSET Items]

\* Rows and sessions are well formed: a session only ever holds changes and
\* pending rows of the tenant it is visiting.
TypeOK ==
    /\ row \in [Items -> {"idle", "due", "done"}]
    /\ run \in [Workers -> Sessions]
    /\ crashes \in 0..MaxCrashes
    /\ \A w \in Workers :
         /\ run[w].context \in {run[w].tenant, NoTenant}
         /\ run[w].todo \subseteq run[w].batch
         /\ \A i \in run[w].todo \cup run[w].dirty : TenantOf[i] = run[w].tenant

\* What a step of worker w commits.
Committed(w) == run'[w].did \ run[w].did

\* Row-level security of a worker's session: what a sweep commits, it commits
\* in a transaction that carries the row's own tenant (_as_tenant, policy of 0031).
WritesUnderOwnTenant ==
    [][\A w \in Workers : \A i \in Committed(w) : run[w].context = TenantOf[i]]_vars

\* The reorder and cutover sweeps apply a tenant's due rows all together or,
\* when one of them raises or the worker dies, not at all.
BatchIsWhole ==
    [][\A w \in Workers :
        run[w].task \in {"reorder", "cutover"} =>
            Committed(w) = {} \/ Committed(w) = run[w].batch \cap Actionable]_vars

\* A sweep never ends a tenant's turn empty-handed unless a row of that tenant
\* raised: of the rows it could act on it has committed one at least.
EveryTenantIsServed ==
    [][\A w \in Workers :
        (/\ run[w].tenant # NoTenant
         /\ run'[w].tenant = NoTenant
         /\ run'[w].task = run[w].task
         /\ run[w].batch \cap Actionable # {}
         /\ run[w].batch \cap Failing = {})
            => run'[w].did \cap run[w].batch # {}]_vars

SameTurn(i, j) == TenantOf[i] = TenantOf[j] /\ TaskOf[i] = TaskOf[j]

\* "One tenant's failure must not abort the rest": a due row is dealt with in
\* some later run if no row of the same tenant and sweep raises, whatever the
\* other tenants' rows do.
DueIsHandled ==
    \A i \in Actionable :
        (\A j \in Failing : ~ SameTurn(i, j)) =>
            (row[i] = "due" ~> row[i] = "done")

\* A due row is acted on once: no purchase request raised, no cutover applied
\* and no escalation sent for a row that is already done.  With two workers
\* this is what tasks.py of eqp says an overlap cannot break.
AppliedOnce ==
    [][\A w \in Workers : \A i \in Committed(w) : row[i] = "due"]_vars

\* What escalate_overdue_instances says it does: escalate every overdue
\* instance of the tenant, one instance's failure not aborting the rest.
SweepIsComplete ==
    [][\A w \in Workers :
        (/\ run[w].task = "escalate"
         /\ run[w].tenant # NoTenant
         /\ run'[w].tenant = NoTenant
         /\ run'[w].task = run[w].task)
            => (run[w].batch \cap Actionable) \ Failing \subseteq run'[w].did]_vars
=============================================================================
