------------------------------- MODULE Safety -------------------------------
(***************************************************************************)
(* Quality (modules/qms) and safety (modules/hse): hold points, reports    *)
(* and the corrective actions that must be verified before they close,     *)
(* permits to work.                                                        *)
(*                                                                         *)
(* Near misses, talks, protective equipment, audits, monitoring, waste     *)
(* disposal and emergency plans are filed.                                 *)
(***************************************************************************)
EXTENDS Approvals

ITPHoldPoint == [status |-> "pending"]

MaterialApproval == [status |-> "submitted"]

LabResult == [outcome |-> None]

\* A non-conformance report.
NCR == [status |-> "open", disposition |-> None]

\* ncr is 0 for an action that belongs to no report.
CorrectiveAction(ncr) == [status |-> "open", ncr |-> ncr]

\* A punch list or snag list item.
PunchListItem == [status |-> "open"]

RiskAssessment == [status |-> "active"]

PermitToWork(status, risk) == [status |-> status, risk |-> risk]

Incident(action) == [status |-> "open", action |-> action]

ToolboxTalk == [signed |-> FALSE]

SafetyTables ==
    [holdpoint |-> <<>>, material |-> <<>>, lab |-> <<>>, ncr |-> <<>>, action |-> <<>>, punch |-> <<>>,
     risk |-> <<>>, permit |-> <<>>, incident |-> <<>>, talk |-> <<>>]

HsePapers ==
    {"near_miss", "toolbox_talk_attendee", "ppe_record", "safety_audit", "environmental_monitoring",
     "waste_disposal", "emergency_response_plan"}

QmsPapers == {"inspection_test_plan"}

-----------------------------------------------------------------------------
(* Quality *)

RecordHoldPointResult(p, k, passed) ==
    Turn(p, "holdpoint", k, {"pending", "failed"}, IF passed THEN "passed" ELSE "failed")

ApproveConcession(p, k) == Turn(p, "holdpoint", k, {"pending", "failed"}, "concession_approved")

DecideMaterialApproval(p, k, decision) == Turn(p, "material", k, {"submitted"}, decision)

\* Any number of times.
RecordLabResultOutcome(p, k, outcome) ==
    Amend(p, "lab", k, LAMBDA r : TRUE, LAMBDA r : [r EXCEPT !.outcome = outcome])

\* In any status.
SetDisposition(p, k, disposition) ==
    Amend(p, "ncr", k, LAMBDA n : TRUE, LAMBDA n : [n EXCEPT !.disposition = disposition])

ActionsOf(s, k) == {a \in DOMAIN s.action : s.action[a].ncr = k}

\* Mutant: a completed action is good enough.
MayCloseNcr_completed(s, k) == \E a \in ActionsOf(s, k) : s.action[a].status # "open"

\* One verified action is enough, whatever the others are.
MayCloseNcr(s, k) == \E a \in ActionsOf(s, k) : s.action[a].status = "verified"

CloseNcr(p, k) == MayCloseNcr(Seen(p), k) /\ Turn(p, "ncr", k, {"open"}, "closed")

CompleteCorrectiveAction(p, a) == Turn(p, "action", a, {"open"}, "completed")

\* By whoever holds qms:approve, the person who completed it included.
VerifyCorrectiveAction(p, a) == Turn(p, "action", a, {"completed"}, "verified")

QmsRoutes(p) ==
    \/ Create(p, "holdpoint", ITPHoldPoint)
    \/ Create(p, "material", MaterialApproval)
    \/ Create(p, "lab", LabResult)
    \/ Create(p, "punch", PunchListItem)
    \/ \E k \in 1..MaxRows.holdpoint :
         \/ \E passed \in BOOLEAN : RecordHoldPointResult(p, k, passed)
         \/ ApproveConcession(p, k)
    \/ \E k \in 1..MaxRows.material, d \in {"approved", "rejected"} : DecideMaterialApproval(p, k, d)
    \/ \E k \in 1..MaxRows.lab, out \in {"pass", "fail"} : RecordLabResultOutcome(p, k, out)
    \/ \E k \in 1..MaxRows.punch : Turn(p, "punch", k, {"open"}, "closed")

NcrRoutes(p) ==
    \/ Create(p, "ncr", NCR)
    \/ \E k \in {0} \union Rows(p, "ncr") : Create(p, "action", CorrectiveAction(k))
    \/ \E k \in 1..MaxRows.ncr :
         \/ SetDisposition(p, k, "rework")
         \/ CloseNcr(p, k)
    \/ \E a \in 1..MaxRows.action : CompleteCorrectiveAction(p, a) \/ VerifyCorrectiveAction(p, a)

-----------------------------------------------------------------------------
(* Safety *)

\* valid_until goes by.
RiskAssessmentExpires(p, k) == Turn(p, "risk", k, {"active"}, "expired")

PermitKind == "permit_to_work"

\* A permit may name no risk assessment.  Governed by a workflow, it waits as a draft.
IssuePermitToWork(p, risk) ==
    LET s == Seen(p)
    IN /\ Serving(p)
       /\ Room("permit") /\ Room("approval")
       /\ risk # 0 => s.risk[risk].status = "active"
       /\ \/ /\ GetActiveWorkflow(s, PermitKind) = {}
             /\ Commit(p, Insert(s, "permit", PermitToWork("approved", risk)))
          \/ \E d \in GetActiveWorkflow(s, PermitKind) :
               Commit(p, StartWorkflowInstance(Insert(s, "permit", PermitToWork("draft", risk)),
                                               PermitKind, Len(s.permit) + 1, d))

\* A permit whose approval was rejected stays a draft.
FinalizePermitApproval(p, k) ==
    /\ ~ LatestApprovalIs(Seen(p), PermitKind, k, {"pending", "rejected", "cancelled"})
    /\ Turn(p, "permit", k, {"draft"}, "approved")

\* The risk assessment is not looked at again.
ActivatePermit(p, k) == Turn(p, "permit", k, {"approved"}, "active")

ClosePermit(p, k) == Turn(p, "permit", k, {"active"}, "closed")

\* The incident and its corrective action are one commit.
RecordIncident(p) ==
    LET s == Seen(p)
    IN /\ Serving(p) /\ Room("incident") /\ Room("action")
       /\ Commit(p, [s EXCEPT !.action = Append(@, CorrectiveAction(0)),
                              !.incident = Append(@, Incident(Len(s.action) + 1))])

CloseIncident(p, k) ==
    /\ k \in Rows(p, "incident")
    /\ Row(p, "action", Row(p, "incident", k).action).status = "verified"
    /\ Turn(p, "incident", k, {"open"}, "closed")

PermitRoutes(p) ==
    \/ Create(p, "risk", RiskAssessment)
    \/ \E k \in 1..MaxRows.risk : RiskAssessmentExpires(p, k)
    \/ \E risk \in {0} \union Rows(p, "risk") : IssuePermitToWork(p, risk)
    \/ \E k \in 1..MaxRows.permit : FinalizePermitApproval(p, k) \/ ActivatePermit(p, k) \/ ClosePermit(p, k)

IncidentRoutes(p) ==
    \/ RecordIncident(p)
    \/ \E k \in 1..MaxRows.incident : CloseIncident(p, k)
    \/ Create(p, "talk", ToolboxTalk)
    \/ \E k \in 1..MaxRows.talk : Amend(p, "talk", k, LAMBDA t : TRUE, LAMBDA t : [t EXCEPT !.signed = TRUE])

FileForSafety(p) == \E kind \in HsePapers \union QmsPapers : File(p, kind)

CorrectiveNext(p) == NcrRoutes(p) \/ IncidentRoutes(p)

PermitNext(p) == PermitRoutes(p) \/ ApprovalNext(p, PermitKind)

-----------------------------------------------------------------------------
(* Properties *)

SafetyTypeOK ==
    /\ \A k \in DOMAIN db.holdpoint :
         db.holdpoint[k].status \in {"pending", "passed", "failed", "concession_approved"}
    /\ \A k \in DOMAIN db.permit : db.permit[k].status \in {"draft", "approved", "active", "closed"}
    /\ \A a \in DOMAIN db.action : db.action[a].status \in {"open", "completed", "verified"}

\* Nothing that went wrong is closed before its correction is verified: a report by
\* one of its actions, an incident by the action it was born with (close_ncr,
\* close_incident).
ClosedWhenVerified ==
    /\ \A k \in DOMAIN db.ncr :
         db.ncr[k].status = "closed" => \E a \in ActionsOf(db, k) : db.action[a].status = "verified"
    /\ \A k \in DOMAIN db.incident :
         db.incident[k].status = "closed" => db.action[db.incident[k].action].status = "verified"
=============================================================================
