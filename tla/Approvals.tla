------------------------------ MODULE Approvals ------------------------------
(***************************************************************************)
(* Workflow definitions, and the records of other modules whose effect     *)
(* waits for an approval: contract amendments, budget revisions, permits   *)
(* to work.                                                                *)
(*                                                                         *)
(* How an approval runs through its steps is WorkflowEngine; here an       *)
(* approval is pending until the engine approves, rejects or cancels it,   *)
(* which is the contract WorkflowEngine is checked to keep                 *)
(* (ApprovalContract).                                                     *)
(***************************************************************************)
EXTENDS Requests

CONSTANT Chains  \* step chains a definition may have

\* kind stands for <<module_name, entity_type>>.
WorkflowDefinition(kind, n, chain) ==
    [status |-> "inactive", kind |-> kind, version |-> n, chain |-> chain]

\* chain, which no handler reads again, is the chain the approval began under.
WorkflowInstance(kind, k, d, chain) ==
    [status |-> "pending", kind |-> kind, of |-> k, definition |-> d, chain |-> chain]

ApprovalTables == [definition |-> <<>>, approval |-> <<>>]

CreateWorkflowDefinition(p, kind, chain) ==
    LET n == Cardinality({d \in Rows(p, "definition") : Row(p, "definition", d).kind = kind}) + 1
    IN Create(p, "definition", WorkflowDefinition(kind, n, chain))

IsDefinitionEditable(s, d) ==
    /\ s.definition[d].status = "inactive"
    /\ \A i \in DOMAIN s.approval : s.approval[i].definition # d

UpdateWorkflowDefinition(p, d, chain) ==
    Amend(p, "definition", d, LAMBDA f : IsDefinitionEditable(Seen(p), d),
          LAMBDA f : [f EXCEPT !.chain = chain])

\* The others of the kind are deactivated by the same commit.
ActivateWorkflowDefinition(p, d) ==
    /\ Serving(p)
    /\ d \in Rows(p, "definition")
    /\ Commit(p, [Seen(p) EXCEPT !.definition =
         [f \in DOMAIN @ |->
            IF f = d THEN [@[f] EXCEPT !.status = "active"]
            ELSE IF @[f].kind = @[d].kind THEN [@[f] EXCEPT !.status = "inactive"]
            ELSE @[f]]])

DeactivateWorkflowDefinition(p, d) ==
    Amend(p, "definition", d, LAMBDA f : TRUE, LAMBDA f : [f EXCEPT !.status = "inactive"])

DefinitionRoutes(p, kind) ==
    \/ \E chain \in Chains : CreateWorkflowDefinition(p, kind, chain)
    \/ \E d \in 1..MaxRows.definition :
         \/ ActivateWorkflowDefinition(p, d)
         \/ DeactivateWorkflowDefinition(p, d)
         \/ \E chain \in Chains : UpdateWorkflowDefinition(p, d, chain)

GetActiveWorkflow(s, kind) ==
    {d \in DOMAIN s.definition : s.definition[d].kind = kind /\ s.definition[d].status = "active"}

\* The rows of a governed record and of its approval are one commit.
StartWorkflowInstance(s, kind, k, d) ==
    [s EXCEPT !.approval = Append(@, WorkflowInstance(kind, k, d, s.definition[d].chain))]

\* A handler adds a record to table t.  Governed, it waits; ungoverned, it is
\* approved at once and Effect follows in the same commit.
Propose(p, t, kind, row, Effect(_)) ==
    LET s == Seen(p)
        waiting == Insert(s, t, [row EXCEPT !.status = "pending"])
    IN /\ Serving(p)
       /\ Room(t) /\ Room("approval")
       /\ \/ /\ GetActiveWorkflow(s, kind) = {}
             /\ Commit(p, Effect(Insert(s, t, row)))
          \/ \E d \in GetActiveWorkflow(s, kind) :
               Commit(p, StartWorkflowInstance(waiting, kind, Len(waiting[t]), d))

ApprovalsOf(s, kind, k) == {i \in DOMAIN s.approval : s.approval[i].kind = kind /\ s.approval[i].of = k}

\* The newest approval of the record, if it has one, has this status.
LatestApprovalIs(s, kind, k, statuses) ==
    LET all == ApprovalsOf(s, kind, k)
    IN all # {} /\ s.approval[Max(all)].status \in statuses

\* Mutant: finalizing twice takes effect twice.
MayFinalize_again(row) == row.status \in {"pending", "approved"}

MayFinalize(row) == row.status = "pending"

\* The pending record takes effect once the engine has approved it; after a
\* rejection it is marked rejected, and the request is refused all the same.
Finalize(p, t, kind, k, Effect(_)) ==
    LET s == Seen(p)
    IN /\ Serving(p)
       /\ k \in DOMAIN s[t]
       /\ MayFinalize(s[t][k])
       /\ ~ LatestApprovalIs(s, kind, k, {"pending"})
       /\ Commit(p, IF LatestApprovalIs(s, kind, k, {"rejected", "cancelled"})
                    THEN [s EXCEPT ![t][k].status = "rejected"]
                    ELSE Effect([s EXCEPT ![t][k].status = "approved"]))

\* What WorkflowEngine does to an approval, seen from outside.
EngineDecides(p) ==
    \E i \in 1..MaxRows.approval, to \in {"approved", "rejected", "cancelled"} :
        Turn(p, "approval", i, {"pending"}, to)

\* The workflow side of records of a kind.
ApprovalNext(p, kind) == DefinitionRoutes(p, kind) \/ EngineDecides(p)

-----------------------------------------------------------------------------
(* Properties *)

ApprovalsTypeOK ==
    /\ \A d \in DOMAIN db.definition : db.definition[d].status \in {"active", "inactive"}
    /\ \A i \in DOMAIN db.approval :
         /\ db.approval[i].status \in {"pending", "approved", "rejected", "cancelled"}
         /\ db.approval[i].definition \in DOMAIN db.definition

\* One version of a workflow is live at a time, and the chain an approval ran
\* under is never rewritten (activate_workflow_definition, is_definition_editable).
\* Holds while requests do not overlap.
DefinitionsStand ==
    /\ \A d \in DOMAIN db.definition : Cardinality(GetActiveWorkflow(db, db.definition[d].kind)) <= 1
    /\ \A i \in DOMAIN db.approval : db.approval[i].chain = db.definition[db.approval[i].definition].chain

\* A record that an approval governs is in a status of effect only if that
\* approval ended in approval, whoever asked for it to be finalized.
GovernedWait(t, kind, effect) ==
    \A k \in DOMAIN db[t] :
        db[t][k].status \in effect =>
            ApprovalsOf(db, kind, k) = {} \/ LatestApprovalIs(db, kind, k, {"approved"})
=============================================================================
