--------------------------- MODULE WorkflowEngine ---------------------------
(***************************************************************************)
(* One running approval of the workflow engine (backend/app/workflow): the *)
(* workflow_instances row, its workflow_actions log and the requests that  *)
(* are being served against it.                                            *)
(*                                                                         *)
(* Every HTTP request and every pass of the hourly escalation task works   *)
(* in two database moments: it SELECTs the instance (Begin, SweepBegin)    *)
(* and, after its checks on that snapshot, writes the columns it changed   *)
(* and COMMITs (Approve, Reject, ...).  Postgres runs READ COMMITTED and   *)
(* no row is locked, so other processes may commit in between.  Delegation *)
(* rows are read by a query of their own, later than the instance: the     *)
(* model reads them at the commit, which allows every outcome the code     *)
(* allows.  With Concurrent = FALSE requests are served one at a time, as  *)
(* the test client drives the application.                                 *)
(***************************************************************************)
EXTENDS Naturals, FiniteSets

CONSTANTS
    Users,        \* people of the tenant
    Roles,        \* roles.id
    NoRole,       \* the role of a user that has none
    RoleOf,       \* [Users -> Roles \cup {NoRole}], the token's role_id claim
    Admins,       \* the users whose permissions hold workflow:admin or "*"
    System,       \* SYSTEM_ACTOR_ID, also "nobody" in unused fields
    Workers,      \* gunicorn workers
    Beat,         \* the celery process running escalate_overdue_approvals
    Chains,       \* the step chains of the definitions an instance may run under
    Amounts,      \* amounts the starting module may pass
    NoAmount,     \* amount=None
    NoBound,      \* an unset minimum_amount or maximum_amount
    NoStep,       \* an unset reject_to_step
    Delegates,    \* the users a delegate request may name
    Concurrent,   \* do requests overlap?
    MaxLog        \* bound: no request begins once the log holds this many actions

Processes == Workers \cup {Beat}

Principals == Users \cup Roles

Steps == [num      : Nat,
          approver : Principals,
          min      : Nat \cup {NoBound},
          max      : Nat \cup {NoBound},
          timed    : BOOLEAN,              \* timeout_hours > 0
          auto     : BOOLEAN,              \* auto_escalate
          targets  : SUBSET Principals,    \* escalate_to_user_id, escalate_to_role_id
          rejectTo : Nat \cup {NoStep}]

ASSUME WorkflowAssumption ==
    /\ RoleOf \in [Users -> Roles \cup {NoRole}]
    /\ NoRole \notin Principals
    /\ System \notin Principals
    /\ Beat \notin Workers
    /\ Admins \subseteq Users
    /\ Delegates \subseteq Users
    /\ \A chain \in Chains : \A s \in chain :
         /\ s.num \in Nat
         /\ s.rejectTo \in Nat \cup {NoStep}
         /\ s.approver \in Principals
         /\ s.targets \subseteq Principals
         /\ s.timed \in BOOLEAN
         /\ s.auto \in BOOLEAN
    /\ NoStep \notin Nat
    /\ Concurrent \in BOOLEAN
    /\ MaxLog \in Nat

Terminal == {"approved", "rejected", "cancelled"}
Decisions == {"approve", "reject", "delegate"}
Operations == Decisions \cup {"cancel", "comment", "escalate"}

VARIABLES
    inst,      \* the workflow_instances row
    log,       \* the workflow_actions rows of the instance (no code reads their order)
    req,       \* per process: the operation in flight and the row it read
    granted    \* history: who was delegated to since the current step was entered

vars == <<inst, log, req, granted>>

NoInstance == [status |-> "none", chain |-> {}, amount |-> NoAmount, cur |-> 0,
               due |-> "none", esc |-> FALSE, starter |-> System]
Idle == [op |-> "idle", user |-> System, seen |-> NoInstance]

-----------------------------------------------------------------------------
(* Applicability of steps, services.py 192-223 *)

StepApplies(step, amount) ==
    \/ step.min = NoBound /\ step.max = NoBound
    \/ /\ amount # NoAmount
       /\ step.min # NoBound => amount >= step.min
       /\ step.max # NoBound => amount <= step.max

ApplicableSteps(chain, amount) == {s \in chain : StepApplies(s, amount)}

StepsAt(i, number) == {s \in ApplicableSteps(i.chain, i.amount) : s.num = number}

Route(chain, amount) == {s.num : s \in ApplicableSteps(chain, amount)}

\* Mutants: the step after the next one; a step whose amount range is ignored.
NumbersAfter_skipsOne(i, number) == {n \in Route(i.chain, i.amount) : n > number + 1}
NumbersAfter_anyAmount(i, number) == {n \in {s.num : s \in i.chain} : n > number}

NumbersAfter(i, number) == {n \in Route(i.chain, i.amount) : n > number}

Earliest(S) == CHOOSE m \in S : \A n \in S : m <= n

-----------------------------------------------------------------------------
(* Entering a step and writing the row back *)

\* _compute_step_due_at: "fresh" is a timestamp no row holds yet.
StepDueAt(i, number) == IF \E s \in StepsAt(i, number) : s.timed THEN "fresh" ELSE "none"

\* Mutant: the escalation of the previous step is not cleared.
EnterStep_keepsEscalation(i, number) ==
    [i EXCEPT !.cur = number, !.due = StepDueAt(i, number)]

EnterStep(i, number) ==
    [i EXCEPT !.cur = number, !.due = StepDueAt(i, number), !.esc = FALSE]

\* The ORM's UPDATE names only the columns whose value differs from the one
\* the request loaded; every other column keeps what the database holds now.
Column(seen, new, stored) == IF new = seen THEN stored ELSE new

Save(seen, new) ==
    [inst EXCEPT !.status = Column(seen.status, new.status, @),
                 !.cur    = Column(seen.cur, new.cur, @),
                 !.due    = IF new.due = "fresh" THEN "running"
                            ELSE Column(seen.due, new.due, @),
                 !.esc    = Column(seen.esc, new.esc, @)]

Action(type, number, actor, to) ==
    [type |-> type, step |-> number, actor |-> actor, to |-> to]

-----------------------------------------------------------------------------
(* Who may act, _find_actionable_step_for_user *)

Matches(principal, u) == principal \in {u, RoleOf[u]}

DelegatedTo(number) == {a.to : a \in {b \in log : b.type = "delegate" /\ b.step = number}}

NamedSteps(i, u) == {s \in StepsAt(i, i.cur) : Matches(s.approver, u)}

TargetSteps(i, u) ==
    {s \in StepsAt(i, i.cur) : \E p \in s.targets : Matches(p, u)}

\* Mutant: delegations are not filtered by step number.
ActionableSteps_anyDelegation(i, u) ==
    IF \E a \in log : a.type = "delegate" /\ a.to = u THEN StepsAt(i, i.cur)
    ELSE IF NamedSteps(i, u) # {} THEN NamedSteps(i, u)
    ELSE IF i.esc THEN TargetSteps(i, u) ELSE {}

\* The steps the search may return: the rows of one step_number come back in
\* no defined order, so any of them may be the first that matches.
ActionableSteps(i, u) ==
    IF u \in DelegatedTo(i.cur) THEN StepsAt(i, i.cur)
    ELSE IF NamedSteps(i, u) # {} THEN NamedSteps(i, u)
    ELSE IF i.esc THEN TargetSteps(i, u) ELSE {}

HasEscalationTarget(i) == \E s \in StepsAt(i, i.cur) : s.targets # {}

CanEscalate(i, u) ==
    u \in Admins \/ u = i.starter \/ ActionableSteps(i, u) # {}

-----------------------------------------------------------------------------
(* Initial state, start, and the two kinds of read *)

Init ==
    /\ inst = NoInstance
    /\ log = {}
    /\ req = [p \in Processes |-> Idle]
    /\ granted = {}

\* start_workflow_instance: the INSERT is one commit, nobody can see the row before it.
Start(u, chain, amount) ==
    /\ inst.status = "none"
    /\ LET i == [NoInstance EXCEPT !.status = "pending", !.chain = chain,
                                   !.amount = amount, !.starter = u]
           first == Earliest(NumbersAfter(i, 0))
       IN /\ NumbersAfter(i, 0) # {}
          /\ inst' = [i EXCEPT !.cur = first,
                               !.due = IF StepDueAt(i, first) = "fresh" THEN "running" ELSE "none"]
    /\ UNCHANGED <<log, req, granted>>

MayBegin(p) ==
    /\ req[p] = Idle
    /\ Concurrent \/ \A q \in Processes : req[q] = Idle

\* Mutant: the status check is missing.
Begin_anyStatus(w, u, op) ==
    /\ MayBegin(w)
    /\ Cardinality(log) < MaxLog
    /\ inst.status # "none"
    /\ req' = [req EXCEPT ![w] = [op |-> op, user |-> u, seen |-> inst]]
    /\ UNCHANGED <<inst, log, granted>>

\* A request loads the row.  A decision on a row that is not pending is
\* refused with a 400 and changes nothing, so it is not begun here.
Begin(w, u, op) ==
    /\ MayBegin(w)
    /\ Cardinality(log) < MaxLog
    /\ inst.status = "pending" \/ (op = "comment" /\ inst.status # "none")
    /\ req' = [req EXCEPT ![w] = [op |-> op, user |-> u, seen |-> inst]]
    /\ UNCHANGED <<inst, log, granted>>

\* escalate_overdue_instances selects overdue rows and skips those whose
\* step has no auto_escalate or no target.
Overdue(i) ==
    /\ i.status = "pending"
    /\ ~ i.esc
    /\ i.due = "expired"

\* Mutant: the query selects the rows already escalated.
SweepBegin_escalatedOnly ==
    /\ MayBegin(Beat)
    /\ inst.status = "pending" /\ inst.due = "expired" /\ inst.esc
    /\ req' = [req EXCEPT ![Beat] = [op |-> "escalate", user |-> System, seen |-> inst]]
    /\ UNCHANGED <<inst, log, granted>>

SweepBegin ==
    /\ MayBegin(Beat)
    /\ Overdue(inst)
    /\ \E s \in StepsAt(inst, inst.cur) : s.auto
    /\ HasEscalationTarget(inst)
    /\ req' = [req EXCEPT ![Beat] = [op |-> "escalate", user |-> System, seen |-> inst]]
    /\ UNCHANGED <<inst, log, granted>>

\* A refused request (403, 400) and one that dies before its commit: the
\* transaction is rolled back.
Abandon(p) ==
    /\ req[p] # Idle
    /\ req' = [req EXCEPT ![p] = Idle]
    /\ UNCHANGED <<inst, log, granted>>

\* The new row and the new action become visible together, and the process is free.
Commit(p, new, action, grants) ==
    /\ inst' = Save(req[p].seen, new)
    /\ log' = log \cup {action}
    /\ granted' = grants
    /\ req' = [req EXCEPT ![p] = Idle]

-----------------------------------------------------------------------------
(* The handlers, from their checks to their commit *)

\* _step_already_actioned_by looks for any approve at the step's number,
\* whoever gave it and for whichever step of a parallel group.
AlreadyApproved(step, actions) ==
    \E a \in actions : a.type = "approve" /\ a.step = step.num

AfterApproval(i, actions) ==
    IF \E s \in StepsAt(i, i.cur) : ~ AlreadyApproved(s, actions) THEN i
    ELSE IF NumbersAfter(i, i.cur) = {}
         THEN [i EXCEPT !.status = "approved", !.due = "none"]
         ELSE EnterStep(i, Earliest(NumbersAfter(i, i.cur)))

\* Mutants: the approval is recorded at, or advances from, the step the row is
\* at by now instead of the one the request read.
Approve_recordsAtStored(w) ==
    LET seen   == req[w].seen
        action == Action("approve", inst.cur, req[w].user, System)
        new    == AfterApproval(seen, log \cup {action})
    IN /\ req[w].op = "approve"
       /\ ActionableSteps(seen, req[w].user) # {}
       /\ Commit(w, new, action, granted)
Approve_advancesStored(w) ==
    LET seen   == req[w].seen
        action == Action("approve", seen.cur, req[w].user, System)
        new    == AfterApproval([seen EXCEPT !.cur = inst.cur],
                                log \cup {action, [action EXCEPT !.step = inst.cur]})
    IN /\ req[w].op = "approve"
       /\ ActionableSteps(seen, req[w].user) # {}
       /\ Commit(w, new, action, granted)

Approve(w) ==
    LET seen   == req[w].seen
        action == Action("approve", seen.cur, req[w].user, System)
        new    == AfterApproval(seen, log \cup {action})
    IN /\ req[w].op = "approve"
       /\ ActionableSteps(seen, req[w].user) # {}
       /\ Commit(w, new, action, IF new.cur # seen.cur THEN {} ELSE granted)

\* Mutants: an unset reject_to_step is not told apart; a rejection ends the
\* approval and sends it back.
AfterRejection_alwaysBack(i, step) == EnterStep(i, step.rejectTo)
AfterRejection_endsToo(i, step) ==
    IF step.rejectTo # NoStep
    THEN [EnterStep(i, step.rejectTo) EXCEPT !.status = "rejected"]
    ELSE [i EXCEPT !.status = "rejected", !.due = "none"]

AfterRejection(i, step) ==
    IF step.rejectTo # NoStep
    THEN EnterStep(i, step.rejectTo)
    ELSE [i EXCEPT !.status = "rejected", !.due = "none"]

Reject(w) ==
    LET seen == req[w].seen
    IN /\ req[w].op = "reject"
       /\ \E step \in ActionableSteps(seen, req[w].user) :
            Commit(w, AfterRejection(seen, step),
                   Action("reject", step.num, req[w].user, System),
                   IF step.rejectTo # NoStep THEN {} ELSE granted)

\* Delegating leaves the row, and so its due date, alone.
Delegate(w, to) ==
    LET seen == req[w].seen
    IN /\ req[w].op = "delegate"
       /\ ActionableSteps(seen, req[w].user) # {}
       /\ Commit(w, seen, Action("delegate", seen.cur, req[w].user, to), granted \cup {to})

\* Anyone who may call the route may cancel: no check of who the actor is.
Cancel(w) ==
    LET seen == req[w].seen
    IN /\ req[w].op = "cancel"
       /\ Commit(w, [seen EXCEPT !.status = "cancelled", !.due = "none"],
                 Action("cancel", seen.cur, req[w].user, System), granted)

Comment(w) ==
    LET seen == req[w].seen
    IN /\ req[w].op = "comment"
       /\ Commit(w, seen, Action("comment", seen.cur, req[w].user, System), granted)

\* Mutant: the check for an earlier escalation is missing.
Escalate_again(p) ==
    LET seen == req[p].seen
    IN /\ req[p].op = "escalate"
       /\ p # Beat => CanEscalate(seen, req[p].user)
       /\ HasEscalationTarget(seen)
       /\ Commit(p, [seen EXCEPT !.esc = TRUE],
                 Action("escalate", seen.cur, req[p].user, System), granted)

\* escalate_instance; the route asks can_user_escalate first, the scheduler does not.
Escalate(p) ==
    LET seen == req[p].seen
    IN /\ req[p].op = "escalate"
       /\ p # Beat => CanEscalate(seen, req[p].user)
       /\ ~ seen.esc
       /\ HasEscalationTarget(seen)
       /\ Commit(p, [seen EXCEPT !.esc = TRUE],
                 Action("escalate", seen.cur, req[p].user, System), granted)

\* Real time reaches the timestamp in step_due_at.
DueDatePasses ==
    /\ inst.due = "running"
    /\ inst' = [inst EXCEPT !.due = "expired"]
    /\ UNCHANGED <<log, req, granted>>

Next ==
    \/ \E u \in Users, chain \in Chains, amount \in Amounts \cup {NoAmount} : Start(u, chain, amount)
    \/ \E w \in Workers, u \in Users, op \in Operations : Begin(w, u, op)
    \/ \E w \in Workers :
         \/ Approve(w)
         \/ Reject(w)
         \/ \E to \in Delegates : Delegate(w, to)
         \/ Cancel(w)
         \/ Comment(w)
    \/ \E p \in Processes : Escalate(p) \/ Abandon(p)
    \/ SweepBegin
    \/ DueDatePasses

\* Only the scheduler is relied on: celery beat starts the task every hour,
\* and a pass that keeps being started is not for ever cut off before its commit.
Fairness == WF_vars(SweepBegin) /\ SF_vars(Escalate(Beat))

Spec == Init /\ [][Next]_vars

FairSpec == Spec /\ Fairness

-----------------------------------------------------------------------------
(* Properties *)

Dues == {"none", "running", "expired"}

Instances == [status  : {"none", "pending"} \cup Terminal,
              chain   : Chains \cup {{}},
              amount  : Amounts \cup {NoAmount},
              cur     : Nat,
              due     : Dues,
              esc     : BOOLEAN,
              starter : Users \cup {System}]

Actions == [type  : Operations,
            step  : Nat,
            actor : Users \cup {System},
            to    : Users \cup {System}]

Requests == [op : Operations \cup {"idle"}, user : Users \cup {System}, seen : Instances]

\* The row, the log and every request in flight are well formed.
TypeOK ==
    /\ inst \in Instances
    /\ log \subseteq Actions
    /\ req \in [Processes -> Requests]
    /\ granted \subseteq Users

\* reject_to_step is meant to name an earlier step (models.py); the API
\* does not check it.
RejectsGoBack(chain) ==
    \A s \in chain : s.rejectTo # NoStep => s.rejectTo <= s.num

ApprovedAt(number) == \E a \in log : a.type = "approve" /\ a.step = number

\* An approval never gets past a step number nobody approved at: approve_step
\* with its amount-based skipping, through every return for rework, and
\* whatever requests overlap.
NoStepSkipped ==
    RejectsGoBack(inst.chain) =>
        \A n \in Route(inst.chain, inst.amount) \ {0} :
            (n < inst.cur \/ inst.status = "approved") => ApprovedAt(n)

Named(number, u) ==
    \E s \in ApplicableSteps(inst.chain, inst.amount) :
        s.num = number /\ Matches(s.approver, u)

Targeted(number, u) ==
    \E s \in ApplicableSteps(inst.chain, inst.amount) :
        s.num = number /\ \E p \in s.targets : Matches(p, u)

\* Nobody decides at a step who is not its approver, someone it was delegated
\* to, or its escalation target (_find_actionable_step_for_user), even when
\* the row the request read has since moved on.
NoOutsiderDecides ==
    \A a \in log : a.type \in Decisions =>
        \/ Named(a.step, a.actor)
        \/ a.actor \in DelegatedTo(a.step)
        \/ Targeted(a.step, a.actor)

\* Every step a rejection may return this instance to applies to its amount.
\* The API does not check this either.
ReworkStaysOnRoute(i) ==
    \A s \in ApplicableSteps(i.chain, i.amount) :
        s.rejectTo # NoStep => s.rejectTo \in Route(i.chain, i.amount)

\* There is always somebody who may approve a pending instance at the step it
\* waits at: start and advance only ever enter a step that applies to its
\* amount, and rework does if the definition's reject_to_step lets it.
NeverStuck ==
    (inst.status = "pending" /\ ReworkStaysOnRoute(inst)) =>
        \E u \in Users : ActionableSteps(inst, u) # {}

\* An overdue step with auto_escalate and a target does not stay unattended:
\* it is escalated, moves on or ends (escalate_overdue_approvals).
OverdueIsAttended ==
    (/\ Overdue(inst)
     /\ \E s \in StepsAt(inst, inst.cur) : s.auto
     /\ HasEscalationTarget(inst)) ~> ~ Overdue(inst)

\* The properties below hold while requests do not overlap.

\* A decision is final: no later request changes an approved, rejected or
\* cancelled instance ("Cannot cancel an instance that is already ...").
TerminalIsFinal ==
    [][inst.status \in Terminal => inst'.status = inst.status]_vars

EscalatedAt(number) == \E a \in log : a.type = "escalate" /\ a.step = number

\* The grant an escalation gives ends when the instance moves to another step:
\* escalated_at is only ever set for the step the instance is at, and whoever
\* decided as an escalation target decided after that step was escalated.
EscalationIsOfTheStep ==
    /\ inst.esc => EscalatedAt(inst.cur)
    /\ \A a \in log : a.type \in Decisions =>
         \/ Named(a.step, a.actor)
         \/ a.actor \in DelegatedTo(a.step)
         \/ Targeted(a.step, a.actor) /\ EscalatedAt(a.step)

\* A step is escalated at most once while the instance is at it, by hand and
\* by the scheduler together (escalate_instance, test_escalating_twice).
EscalatedOnce ==
    [][\A a \in log' \ log : a.type = "escalate" => ~ inst.esc /\ inst'.esc]_vars

\* The abstract contract this engine implements.
Contract == INSTANCE ApprovalContract
    WITH phase <- inst.status, route <- Route(inst.chain, inst.amount), at <- inst.cur

ImplementsContract == Contract!Spec

\* What docs/WORKFLOW_ENGINE.md says of parallel groups: an instance leaves a
\* step number only once every applicable step there has an approve by someone
\* entitled to give it for that step.
ParallelGroupsComplete ==
    \A s \in ApplicableSteps(inst.chain, inst.amount) :
        (s.num < inst.cur \/ inst.status = "approved") =>
            \E a \in log :
                /\ a.type = "approve"
                /\ a.step = s.num
                /\ \/ Matches(s.approver, a.actor)
                   \/ a.actor \in DelegatedTo(s.num)
                   \/ \E p \in s.targets : Matches(p, a.actor)

\* What docs/WORKFLOW_ENGINE.md says of delegation: it is scoped to the step's
\* current pass.  Whoever decides by delegation got it since the step was entered.
DelegationEndsWithThePass ==
    [][\A a \in log' \ log : a.type \in Decisions =>
        \/ Named(a.step, a.actor)
        \/ a.actor \in granted
        \/ Targeted(a.step, a.actor)]_vars
=============================================================================
