----------------------------- MODULE Office_proofs -----------------------------
(***************************************************************************)
(* What is proved about access, money and pay where people and papers are  *)
(* moved.  A behaviour exercises one part of the system; the first half    *)
(* says which tables the handlers of a part write, so that each invariant  *)
(* is looked for only where its tables are written.                        *)
(***************************************************************************)
EXTENDS Office, Requests_proofs

-----------------------------------------------------------------------------
(* What each part writes *)

\* A commit keeps what it does not change.
LEMMA CommitKeeps ==
    ASSUME ~ Concurrent, NEW p, NEW names, NEW new, DOMAIN new = DOMAIN db,
           \A t \in DOMAIN db \ names : new[t] = db[t], Commit(p, new)
    PROVE  Keeps(names)
  BY CommitTouches DEF Touches, Keeps

\* A row is added to one of these tables.
LEMMA CreateKeeps ==
    ASSUME ~ Concurrent, NEW names, NEW t \in names, NEW p, NEW row, Create(p, t, row)
    PROVE  Keeps(names)
  BY CreateTouches DEF Touches, Keeps

\* A row of one of these tables gets another status.
LEMMA TurnKeeps ==
    ASSUME ~ Concurrent, NEW names, NEW t \in names, NEW p, NEW k, NEW from, NEW to, Turn(p, t, k, from, to)
    PROVE  Keeps(names)
  BY TurnTouches DEF Touches, Keeps

\* A request dies between two commits.
LEMMA AbandonKeeps == ASSUME NEW names, NEW p, Abandon(p) PROVE Keeps(names)
  BY DEF Abandon, Keeps

\* Employees and attendance.
LEMMA StaffKeeps ==
    ASSUME ~ Concurrent, NEW p, StaffNext(p)
    PROVE  Keeps({"employee", "attendance"})
<1>1. PICK names : names = {"employee", "attendance"}
  OBVIOUS
<1>2. ASSUME EmployeeRoutes(p) PROVE Keeps(names)
  BY <1>1, <1>2, SerialRows, TurnKeeps
  DEF EmployeeRoutes, UpdateEmployee, AssignProject, TransferProject, TerminateEmployee, ReactivateEmployee,
      Amend, Commit, Keeps
<1>3. ASSUME NEW crew, NEW day, RecordAttendanceBulk(p, crew, day) PROVE Keeps(names)
  BY <1>1, <1>3, SerialRows DEF RecordAttendanceBulk, Commit, Keeps
<1>4. ASSUME NEW k, NEW in, NEW out, CorrectAttendance(p, k, in, out) PROVE Keeps(names)
  BY <1>1, <1>4, SerialRows DEF CorrectAttendance, Amend, Commit, Keeps
<1>5. QED
  BY <1>1, <1>2, <1>3, <1>4, CreateKeeps DEF StaffNext, AttendanceRoutes, MarkAbsent, RecordAttendance

\* Leave and personal records.
LEMMA LeaveKeeps ==
    ASSUME ~ Concurrent, NEW p, LeaveNext(p)
    PROVE  Keeps({"leave", "entitlement", "record"})
<1>1. PICK names : names = {"leave", "entitlement", "record"}
  OBVIOUS
<1>2. ASSUME NEW w, NEW d, SetLeaveEntitlement(p, w, d) PROVE Keeps(names)
  BY <1>1, <1>2, SerialRows, CreateKeeps DEF SetLeaveEntitlement, Amend, Commit, Keeps
<1>3. QED
  BY <1>1, <1>2, CreateKeeps, TurnKeeps
  DEF LeaveNext, LeaveRoutes, RecordRoutes, CreateLeaveRequest, DecideLeaveRequest, CancelLeaveRequest

\* Timesheets and payroll.
LEMMA PayrollKeeps ==
    ASSUME ~ Concurrent, NEW p, PayrollNext(p)
    PROVE  Keeps({"timesheet", "payroll", "payline", "rule"})
<1>1. PICK names : names = {"timesheet", "payroll", "payline", "rule"}
  OBVIOUS
<1>2. ASSUME NEW k, NEW hours, NEW rate, UpdateTimesheet(p, k, hours, rate) PROVE Keeps(names)
  BY <1>1, <1>2, SerialRows DEF UpdateTimesheet, Amend, Commit, Keeps
<1>3. ASSUME NEW from, NEW to, GeneratePayrollRun(p, from, to) PROVE Keeps(names)
  BY <1>1, <1>3, SerialRows DEF GeneratePayrollRun, Commit, Keeps
<1>4. QED
  BY <1>1, <1>2, <1>3, CreateKeeps, TurnKeeps
  DEF PayrollNext, TimesheetRoutes, PayrollRoutes, GenerateTimesheet, ApproveTimesheet, RejectTimesheet,
      ReturnTimesheet, ResubmitTimesheet, LockTimesheet, FinalizePayrollRun

\* The way from a lead to a contract.
LEMMA AwardKeeps ==
    ASSUME ~ Concurrent, NEW p, AwardNext(p)
    PROVE  Keeps({"lead", "opportunity", "competitor", "winloss", "tender", "contract"})
<1>1. PICK names : names = {"lead", "opportunity", "competitor", "winloss", "tender", "contract"}
  OBVIOUS
<1>2. ASSUME NEW k, ConvertLeadToOpportunity(p, k) PROVE Keeps(names)
  BY <1>1, <1>2, SerialRows DEF ConvertLeadToOpportunity, Commit, Keeps
<1>3. ASSUME NEW k, NEW to, TransitionStage(p, k, to) PROVE Keeps(names)
  BY <1>1, <1>3, SerialRows DEF TransitionStage, Amend, Commit, Keeps
<1>4. ASSUME NEW k, NEW d, RecordBidNoBidDecision(p, k, d) PROVE Keeps(names)
  BY <1>1, <1>4, SerialRows DEF RecordBidNoBidDecision, Amend, Commit, Keeps
<1>5. ASSUME NEW k, NEW out, NEW c, RecordWinLoss(p, k, out, c) PROVE Keeps(names)
  BY <1>1, <1>5, SerialRows DEF RecordWinLoss, WithWinLoss, Commit, Keeps
<1>6. ASSUME NEW t, NEW o, NEW value, NEW original, CreateContractOnAward(p, t, o, value, original)
      PROVE  Keeps(names)
  BY <1>1, <1>6, SerialRows DEF CreateContractOnAward, Insert, CommitThen, Keeps
<1>7. ASSUME LinkContract(p) \/ MarkWon(p) PROVE Keeps(names)
  BY <1>1, <1>7, SerialRows DEF LinkContract, MarkWon, CommitThen, Commit, Keeps
<1>8. QED
  BY <1>1, <1>2, <1>3, <1>4, <1>5, <1>6, <1>7, CreateKeeps, AbandonKeeps
  DEF AwardNext, BdcRoutes, CreateTender, AwardRoutes

\* Tenders, their steps and what blocks them.
LEMMA TenderKeeps ==
    ASSUME ~ Concurrent, NEW p, TenderNext(p)
    PROVE  Keeps({"tender", "step", "blocker", "submission", "winloss", "competitor"})
<1>1. PICK names : names = {"tender", "step", "blocker", "submission", "winloss", "competitor"}
  OBVIOUS
<1>2. ASSUME NEW t, NEW n, InitiateApprovalWorkflow(p, t, n) PROVE Keeps(names)
  BY <1>1, <1>2, SerialRows DEF InitiateApprovalWorkflow, Commit, Keeps
<1>3. ASSUME NEW t, ReopenForRevision(p, t) PROVE Keeps(names)
  BY <1>1, <1>3, SerialRows DEF ReopenForRevision, Commit, Keeps
<1>4. ASSUME NEW t, RecordSubmission(p, t) PROVE Keeps(names)
  BY <1>1, <1>4, SerialRows DEF RecordSubmission, Commit, Keeps
<1>5. ASSUME NEW t, NEW out, NEW c, RecordTenderOutcome(p, t, out, c) PROVE Keeps(names)
  BY <1>1, <1>5, SerialRows DEF RecordTenderOutcome, CommitThen, Keeps
<1>6. ASSUME RecordTenderOutcome2(p) PROVE Keeps(names)
  BY <1>1, <1>6, SerialRows DEF RecordTenderOutcome2, WithWinLoss, Commit, Keeps
<1>7. QED
  BY <1>1, <1>2, <1>3, <1>4, <1>5, <1>6, CreateKeeps, TurnKeeps, AbandonKeeps
  DEF TenderNext, TenderApprovalRoutes, CreateTender, TenderRoutes, DecideApprovalStep

\* Estimates and the budget that is made of them.
LEMMA EstimateKeeps ==
    ASSUME ~ Concurrent, NEW p, EstimateRoutes(p)
    PROVE  Keeps({"estimate", "boq", "cbs", "cbsline"})
<1>1. PICK names : names = {"estimate", "boq", "cbs", "cbsline"}
  OBVIOUS
<1>2. ASSUME NEW v, SubmitEstimateVersion(p, v) PROVE Keeps(names)
  BY <1>1, <1>2, SerialRows DEF SubmitEstimateVersion, Commit, Keeps
<1>3. ASSUME NEW v, GenerateCbsFromEstimate(p, v) PROVE Keeps(names)
  BY <1>1, <1>3, SerialRows DEF GenerateCbsFromEstimate, Commit, Keeps
<1>4. ASSUME NEW k, NEW cost, SaveRateAnalysis(p, k, cost) PROVE Keeps(names)
  BY <1>1, <1>4, SerialRows DEF SaveRateAnalysis, Amend, Commit, Keeps
<1>5. QED
  BY <1>1, <1>2, <1>3, <1>4, CreateKeeps DEF EstimateRoutes, CreateEstimateVersion

\* What was read by machine.
LEMMA AssistantKeeps ==
    ASSUME ~ Concurrent, NEW p, AssistantRoutes(p)
    PROVE  Keeps({"extraction", "boq"})
<1>1. PICK names : names = {"extraction", "boq"}
  OBVIOUS
<1>2. ASSUME NEW k, NEW c, ReviewExtraction(p, k, c) PROVE Keeps(names)
  BY <1>1, <1>2, SerialRows DEF ReviewExtraction, Amend, Commit, Keeps
<1>3. ASSUME NEW k, NEW v, CommitExtractionToBoq(p, k, v) PROVE Keeps(names)
  BY <1>1, <1>3, SerialRows DEF CommitExtractionToBoq, Commit, Keeps
<1>4. QED
  BY <1>1, <1>2, <1>3, CreateKeeps, TurnKeeps DEF AssistantRoutes, RejectExtraction

\* Workflow definitions and the approvals under them.
LEMMA ApprovalKeeps ==
    ASSUME ~ Concurrent, NEW p, NEW kind, ApprovalNext(p, kind)
    PROVE  Keeps({"definition", "approval"})
<1>1. PICK names : names = {"definition", "approval"}
  OBVIOUS
<1>2. ASSUME NEW d, NEW chain, UpdateWorkflowDefinition(p, d, chain) PROVE Keeps(names)
  BY <1>1, <1>2, SerialRows DEF UpdateWorkflowDefinition, Amend, Commit, Keeps
<1>3. ASSUME NEW d, ActivateWorkflowDefinition(p, d) PROVE Keeps(names)
  BY <1>1, <1>3, SerialRows DEF ActivateWorkflowDefinition, Commit, Keeps
<1>4. ASSUME NEW d, DeactivateWorkflowDefinition(p, d) PROVE Keeps(names)
  BY <1>1, <1>4, SerialRows DEF DeactivateWorkflowDefinition, Amend, Commit, Keeps
<1>5. QED
  BY <1>1, <1>2, <1>3, <1>4, CreateKeeps, TurnKeeps
  DEF ApprovalNext, DefinitionRoutes, CreateWorkflowDefinition, EngineDecides

\* What keeps some tables keeps fewer.
LEMMA KeepsFewer ==
    ASSUME NEW names, Keeps(names), NEW more, names \subseteq more
    PROVE  Keeps(more)
  BY DEF Keeps

\* The budget and its revisions.
LEMMA BaselineKeeps ==
    ASSUME ~ Concurrent, NEW p, BaselineNext(p)
    PROVE  Keeps({"cbs", "cbsline", "revision", "approval", "definition"})
<1>1. PICK names : names = {"cbs", "cbsline", "revision", "approval", "definition"}
  OBVIOUS
<1>2. ASSUME NEW l, NEW to, CreateBudgetRevision(p, l, to) PROVE Keeps(names)
  BY <1>1, <1>2, SerialRows DEF CreateBudgetRevision, Propose, Insert, StartWorkflowInstance, Commit, Keeps
<1>3. ASSUME NEW k, FinalizeBudgetRevision(p, k) PROVE Keeps(names)
  BY <1>1, <1>3, SerialRows DEF FinalizeBudgetRevision, Finalize, Commit, Keeps
<1>4. ASSUME ApprovalNext(p, BudgetKind) PROVE Keeps(names)
  BY <1>1, <1>4, ApprovalKeeps, KeepsFewer
<1>5. QED
  BY <1>1, <1>2, <1>3, <1>4, TurnKeeps DEF BaselineNext, BudgetRoutes, ApproveCbs

\* Contracts and their amendments.
LEMMA AmendmentKeeps ==
    ASSUME ~ Concurrent, NEW p, AmendmentNext(p)
    PROVE  Keeps({"amendment", "contract", "approval", "definition"})
<1>1. PICK names : names = {"amendment", "contract", "approval", "definition"}
  OBVIOUS
<1>2. ASSUME NEW s, NEW c, NEW type, NEW delta
      PROVE  /\ DOMAIN ApplyAmendmentEffects(s, c, type, delta) = DOMAIN s
             /\ \A t \in DOMAIN s \ names : ApplyAmendmentEffects(s, c, type, delta)[t] = s[t]
  <2>1. \/ ApplyAmendmentEffects(s, c, type, delta) = s
        \/ \E date : ApplyAmendmentEffects(s, c, type, delta) = [s EXCEPT !["contract"][c]["completion"] = date]
        \/ ApplyAmendmentEffects(s, c, type, delta) = [s EXCEPT !["contract"][c]["value"] = @ + delta]
    BY DEF ApplyAmendmentEffects
  <2>2. QED
    BY <1>1, <2>1
<1>3. ASSUME NEW c, NEW type, NEW delta, RecordAmendment(p, c, type, delta) PROVE Keeps(names)
  <2>1. PICK s : s = Insert(db, "amendment", ContractAmendment(c, type, delta))
    OBVIOUS
  <2>2. DOMAIN s = DOMAIN db /\ \A t \in DOMAIN db \ names : s[t] = db[t]
    BY <1>1, <2>1 DEF Insert
  <2>3. CASE db' = ApplyAmendmentEffects(s, c, type, delta)
    BY <1>2, <2>2, <2>3 DEF Keeps
  <2>4. CASE \E row, k, d : db' = StartWorkflowInstance(Insert(db, "amendment", row), AmendmentKind, k, d)
    BY <1>1, <2>4 DEF StartWorkflowInstance, Insert, Keeps
  <2>5. QED
    BY <1>3, <2>1, <2>3, <2>4, SerialRows DEF RecordAmendment, Propose, Commit
<1>4. ASSUME NEW k, FinalizeAmendment(p, k) PROVE Keeps(names)
  <2>1. PICK s : s = [db EXCEPT !["amendment"][k].status = "approved"]
    OBVIOUS
  <2>2. DOMAIN s = DOMAIN db /\ \A t \in DOMAIN db \ names : s[t] = db[t]
    BY <1>1, <2>1
  <2>3. CASE \E c, type, delta : db' = ApplyAmendmentEffects(s, c, type, delta)
    BY <1>2, <2>2, <2>3 DEF Keeps
  <2>4. CASE db' = [db EXCEPT !["amendment"][k].status = "rejected"]
    BY <1>1, <2>4 DEF Keeps
  <2>5. QED
    BY <1>4, <2>1, <2>3, <2>4, SerialRows DEF FinalizeAmendment, Finalize, Commit
<1>5. ASSUME ApprovalNext(p, AmendmentKind) PROVE Keeps(names)
  BY <1>1, <1>5, ApprovalKeeps, KeepsFewer
<1>6. QED
  BY <1>3, <1>4, <1>5, <1>1 DEF AmendmentNext, AmendmentRoutes

\* Retention and advances.
LEMMA RetentionKeeps ==
    ASSUME ~ Concurrent, NEW p, RetentionRoutes(p)
    PROVE  Keeps({"advance", "retention"})
<1>1. PICK names : names = {"advance", "retention"}
  OBVIOUS
<1>2. ASSUME NEW k, NEW amount, ApplyRetentionToCertificate(p, k, amount) PROVE Keeps(names)
  BY <1>1, <1>2, SerialRows DEF ApplyRetentionToCertificate, Amend, Commit, Keeps
<1>3. ASSUME NEW k, NEW stage, ReleaseRetention(p, k, stage) PROVE Keeps(names)
  BY <1>1, <1>3, SerialRows DEF ReleaseRetention, Amend, Commit, Keeps
<1>4. ASSUME NEW k, NEW amount, ApplyAdvanceRecoupment(p, k, amount) PROVE Keeps(names)
  BY <1>1, <1>4, SerialRows DEF ApplyAdvanceRecoupment, Amend, Commit, Keeps
<1>5. QED
  BY <1>1, <1>2, <1>3, <1>4, CreateKeeps DEF RetentionRoutes

\* Progress certificates and variations.
LEMMA BillingKeeps ==
    ASSUME ~ Concurrent, NEW p, BilRoutes(p)
    PROVE  Keeps({"certificate", "variation", "certline", "tracking"})
<1>1. PICK names : names = {"certificate", "variation", "certline", "tracking"}
  OBVIOUS
<1>2. ASSUME NEW cert, NEW quantity, NEW vo, NEW n, AddCertificateLine(p, cert, quantity, vo, n) PROVE Keeps(names)
  BY <1>1, <1>2, SerialRows DEF AddCertificateLine, Insert, Commit, Keeps
<1>3. ASSUME NEW cert, ApplyCertificateRetention(p, cert) PROVE Keeps(names)
  BY <1>1, <1>3, SerialRows DEF ApplyCertificateRetention, Amend, Commit, Keeps
<1>4. ASSUME NEW cert, SubmitCertificate(p, cert) \/ ApproveCertificate(p, cert) PROVE Keeps(names)
  BY <1>1, <1>4, SerialRows DEF SubmitCertificate, ApproveCertificate, CommitThen, Keeps
<1>5. ASSUME BeginTracking(p) \/ CertifyTracking(p) PROVE Keeps(names)
  BY <1>1, <1>5, SerialRows DEF BeginTracking, CertifyTracking, Insert, Commit, Keeps
<1>6. QED
  BY <1>1, <1>2, <1>3, <1>4, <1>5, CreateKeeps, TurnKeeps, AbandonKeeps
  DEF BilRoutes, DecideVariationOrder, RecordCertificatePayment

\* People outside the company: their accounts.
LEMMA PortalKeeps ==
    ASSUME ~ Concurrent, NEW p, PortalNext(p) \/ DsarRoutes(p)
    PROVE  Keeps({"portaluser", "portalsession", "portaltoken", "dsar"})
<1>1. PICK names : names = {"portaluser", "portalsession", "portaltoken", "dsar"}
  OBVIOUS
<1>2. ASSUME NEW kind, NEW e, CreatePortalUser(p, kind, e) PROVE Keeps(names)
  BY <1>1, <1>2, SerialRows DEF CreatePortalUser, Insert, CommitThen, Keeps
<1>3. ASSUME IndexPortalUser(p) PROVE Keeps(names)
  BY <1>1, <1>3, SerialRows DEF IndexPortalUser, Commit, Keeps
<1>4. ASSUME NEW u, PortalLogin(p, u) PROVE Keeps(names)
  BY <1>1, <1>4, SerialRows DEF PortalLogin, WithPortalSession, Insert, Commit, Keeps
<1>5. ASSUME NEW k, PortalRefresh(p, k) PROVE Keeps(names)
  BY <1>1, <1>5, SerialRows DEF PortalRefresh, Insert, Commit, Keeps
<1>6. ASSUME NEW k, ChangePortalPassword(p, k) PROVE Keeps(names)
  BY <1>1, <1>6, SerialRows DEF ChangePortalPassword, WithPortalSession, Insert, Commit, Keeps
<1>7. ASSUME NEW t, ResetPortalPassword(p, t) PROVE Keeps(names)
  BY <1>1, <1>7, SerialRows DEF ResetPortalPassword, Commit, Keeps
<1>8. ASSUME NEW k, NEW u, EraseRecords(p, k, u) PROVE Keeps(names)
  BY <1>1, <1>8, SerialRows DEF EraseRecords, Commit, Keeps
<1>9. ASSUME NEW k, VerifyPublicRequest(p, k) PROVE Keeps(names)
  BY <1>1, <1>9, SerialRows DEF VerifyPublicRequest, Amend, Commit, Keeps
<1>10. ASSUME PortalTokenExpires PROVE Keeps(names)
  BY <1>1, <1>10 DEF PortalTokenExpires, Keeps
<1>11. ASSUME PortalNext(p) PROVE Keeps(names)
  BY <1>1, <1>2, <1>3, <1>4, <1>5, <1>6, <1>7, <1>8, <1>10, <1>11, CreateKeeps, TurnKeeps, AbandonKeeps
  DEF PortalNext, PortalAuthRoutes, ErasureRoutes, PortalLogout, RequestPortalPasswordReset
<1>12. ASSUME DsarRoutes(p) PROVE Keeps(names)
  BY <1>1, <1>8, <1>9, <1>12, CreateKeeps, TurnKeeps
  DEF DsarRoutes, SubmitPublicRequest, UpdateDsarRequest, ExportSubjectData
<1>13. QED
  BY <1>1, <1>11, <1>12

\* What clients see and decide.
LEMMA ClientKeeps ==
    ASSUME ~ Concurrent, NEW p, ClientNext(p)
    PROVE  Keeps({"assignment", "clientrequest", "variation", "clientaction", "certificate", "tracking"})
<1>1. PICK names : names = {"assignment", "clientrequest", "variation", "clientaction", "certificate", "tracking"}
  OBVIOUS
<1>2. ASSUME NEW u, NEW project, NEW v, NEW d, ApproveVariationAsClient(p, u, project, v, d) PROVE Keeps(names)
  BY <1>1, <1>2, SerialRows DEF ApproveVariationAsClient, Insert, Commit, Keeps
<1>3. ASSUME NEW u, NEW project, NEW cert, NEW d, ApproveCertificateAsClient(p, u, project, cert, d) PROVE Keeps(names)
  BY <1>1, <1>3, SerialRows DEF ApproveCertificateAsClient, CommitThen, Keeps
<1>4. ASSUME CertifyForClient(p) \/ RecordClientAction(p) \/ TellClient(p) PROVE Keeps(names)
  BY <1>1, <1>4, SerialRows
  DEF CertifyForClient, RecordClientAction, TellClient, Insert, CommitThen, Commit, Keeps
<1>5. ASSUME NEW k, ResolveClientRequest(p, k) PROVE Keeps(names)
  BY <1>1, <1>5, SerialRows DEF ResolveClientRequest, CommitThen, Keeps
<1>6. QED
  BY <1>1, <1>2, <1>3, <1>4, <1>5, CreateKeeps, TurnKeeps, AbandonKeeps
  DEF ClientNext, ClientRoutes, AssignClientProject, SubmitClientRequest, DecideVariationOrder

\* Subcontracts, their certificates and claims.
LEMMA SubcontractKeeps ==
    ASSUME ~ Concurrent, NEW p, SubcontractNext(p) \/ ClaimRoutes(p)
    PROVE  Keeps({"agreement", "sheet", "backcharge", "subretention", "compliance", "subcert", "subclaim"})
<1>1. PICK names : names = {"agreement", "sheet", "backcharge", "subretention", "compliance", "subcert", "subclaim"}
  OBVIOUS
<1>2. ASSUME NEW a, NEW sheets, NEW charges, NEW waiver, IssueSubcontractCertificate(p, a, sheets, charges, waiver)
      PROVE  Keeps(names)
  BY <1>1, <1>2, SerialRows DEF IssueSubcontractCertificate, WithRetention, Commit, Keeps
<1>3. ASSUME NEW k, DocumentExpires(p, k) PROVE Keeps(names)
  BY <1>1, <1>3, SerialRows DEF DocumentExpires, Amend, Commit, Keeps
<1>4. ASSUME NEW k, NEW stage, ReleaseSubcontractRetention(p, k, stage) PROVE Keeps(names)
  BY <1>1, <1>4, SerialRows DEF ReleaseSubcontractRetention, Amend, Commit, Keeps
<1>5. ASSUME SubcontractNext(p) PROVE Keeps(names)
  BY <1>1, <1>2, <1>3, <1>5, CreateKeeps, TurnKeeps
  DEF SubcontractNext, AgreementRoutes, CertificationRoutes, SetRetention, VerifyMeasurementSheet
<1>6. ASSUME ClaimRoutes(p) PROVE Keeps(names)
  BY <1>1, <1>4, <1>6, CreateKeeps, TurnKeeps DEF ClaimRoutes, SetRetention, ReviewClaim
<1>7. QED
  BY <1>1, <1>5, <1>6

\* Work done, issues and the fleet.
LEMMA WorkKeeps ==
    ASSUME ~ Concurrent, NEW p, WorkRoutes(p) \/ FleetRoutes(p)
    PROVE  Keeps({"workdone", "issue", "machine", "maintenance", "downtime", "move"})
<1>1. PICK names : names = {"workdone", "issue", "machine", "maintenance", "downtime", "move"}
  OBVIOUS
<1>2. ASSUME NEW k, IssueFallsDue(p, k) PROVE Keeps(names)
  BY <1>1, <1>2, SerialRows DEF IssueFallsDue, Amend, Commit, Keeps
<1>3. ASSUME EscalateOverdueIssues(p) PROVE Keeps(names)
  BY <1>1, <1>3, SerialRows DEF EscalateOverdueIssues, Commit, Keeps
<1>4. ASSUME NEW k, NEW today, ApproveTransfer(p, k, today) PROVE Keeps(names)
  BY <1>1, <1>4, SerialRows DEF ApproveTransfer, WithCutover, Commit, Keeps
<1>5. ASSUME NEW k, CutoverDayComes(p, k) PROVE Keeps(names)
  BY <1>1, <1>5, SerialRows DEF CutoverDayComes, Amend, Commit, Keeps
<1>6. ASSUME ApplyTransferCutover(p) PROVE Keeps(names)
  BY <1>1, <1>6, SerialRows DEF ApplyTransferCutover, WithCutover, Commit, Keeps
<1>7. ASSUME WorkRoutes(p) PROVE Keeps(names)
  BY <1>1, <1>2, <1>3, <1>7, CreateKeeps DEF WorkRoutes, RecordWorkCompleted
<1>8. ASSUME FleetRoutes(p) PROVE Keeps(names)
  BY <1>1, <1>4, <1>5, <1>6, <1>8, CreateKeeps, TurnKeeps DEF FleetRoutes, RequestTransfer
<1>9. QED
  BY <1>1, <1>7, <1>8

\* Quality.
LEMMA QualityKeeps ==
    ASSUME ~ Concurrent, NEW p, QmsRoutes(p)
    PROVE  Keeps({"holdpoint", "material", "lab", "punch"})
<1>1. PICK names : names = {"holdpoint", "material", "lab", "punch"}
  OBVIOUS
<1>2. ASSUME NEW k, NEW out, RecordLabResultOutcome(p, k, out) PROVE Keeps(names)
  BY <1>1, <1>2, SerialRows DEF RecordLabResultOutcome, Amend, Commit, Keeps
<1>3. QED
  BY <1>1, <1>2, CreateKeeps, TurnKeeps
  DEF QmsRoutes, RecordHoldPointResult, ApproveConcession, DecideMaterialApproval

\* What went wrong and what was done about it.
LEMMA CorrectiveKeeps ==
    ASSUME ~ Concurrent, NEW p, CorrectiveNext(p)
    PROVE  Keeps({"ncr", "action", "incident", "talk"})
<1>1. PICK names : names = {"ncr", "action", "incident", "talk"}
  OBVIOUS
<1>2. ASSUME NEW k, NEW d, SetDisposition(p, k, d) PROVE Keeps(names)
  BY <1>1, <1>2, SerialRows DEF SetDisposition, Amend, Commit, Keeps
<1>3. ASSUME RecordIncident(p) PROVE Keeps(names)
  BY <1>1, <1>3, SerialRows DEF RecordIncident, Commit, Keeps
<1>4. ASSUME NcrRoutes(p) PROVE Keeps(names)
  BY <1>1, <1>2, <1>4, CreateKeeps, TurnKeeps
  DEF NcrRoutes, CloseNcr, CompleteCorrectiveAction, VerifyCorrectiveAction
<1>5. ASSUME NEW k, Amend(p, "talk", k, LAMBDA t : TRUE, LAMBDA t : [t EXCEPT !.signed = TRUE]) PROVE Keeps(names)
  BY <1>1, <1>5, SerialRows DEF Amend, Commit, Keeps
<1>6. ASSUME IncidentRoutes(p) PROVE Keeps(names)
  BY <1>1, <1>3, <1>5, <1>6, CreateKeeps, TurnKeeps DEF IncidentRoutes, CloseIncident
<1>7. QED
  BY <1>1, <1>4, <1>6 DEF CorrectiveNext

\* Permits to work.
LEMMA PermitKeeps ==
    ASSUME ~ Concurrent, NEW p, PermitNext(p)
    PROVE  Keeps({"risk", "permit", "approval", "definition"})
<1>1. PICK names : names = {"risk", "permit", "approval", "definition"}
  OBVIOUS
<1>2. ASSUME NEW risk, IssuePermitToWork(p, risk) PROVE Keeps(names)
  BY <1>1, <1>2, SerialRows DEF IssuePermitToWork, Insert, StartWorkflowInstance, Commit, Keeps
<1>3. ASSUME ApprovalNext(p, PermitKind) PROVE Keeps(names)
  BY <1>1, <1>3, ApprovalKeeps, KeepsFewer
<1>4. QED
  BY <1>1, <1>2, <1>3, CreateKeeps, TurnKeeps
  DEF PermitNext, PermitRoutes, RiskAssessmentExpires, FinalizePermitApproval, ActivatePermit, ClosePermit

\* Survey, quarry and assets.
LEMMA SurveyKeeps ==
    ASSUME ~ Concurrent, NEW p, SurveyRoutes(p)
    PROVE  Keeps({"surface", "volume", "asbuilt"})
<1>1. PICK names : names = {"surface", "volume", "asbuilt"}
  OBVIOUS
<1>2. ASSUME NEW k, ApproveDesignSurface(p, k) PROVE Keeps(names)
  BY <1>1, <1>2, SerialRows DEF ApproveDesignSurface, Amend, Commit, Keeps
<1>3. ASSUME NEW k, SubmitForBilling(p, k) PROVE Keeps(names)
  BY <1>1, <1>3, SerialRows DEF SubmitForBilling, Amend, Commit, Keeps
<1>4. ASSUME NEW k, LockAsBuilt(p, k) PROVE Keeps(names)
  BY <1>1, <1>4, SerialRows DEF LockAsBuilt, Amend, Commit, Keeps
<1>5. ASSUME NEW k, NEW data, UpdateAsBuilt(p, k, data) PROVE Keeps(names)
  BY <1>1, <1>5, SerialRows DEF UpdateAsBuilt, Amend, Commit, Keeps
<1>6. QED
  BY <1>1, <1>2, <1>3, <1>4, <1>5, CreateKeeps DEF SurveyRoutes, CalculateEarthworksVolume

\* Explosives, blasts and stockpiles; assets, their schedules and defects.
LEMMA QuarryKeeps ==
    ASSUME ~ Concurrent, NEW p, QuarryRoutes(p) \/ AssetRoutes(p)
    PROVE  Keeps({"explosive", "correction", "drilling", "blast", "stockpile", "asset", "schedule", "dlp", "defect"})
<1>1. PICK names : names = {"explosive", "correction", "drilling", "blast", "stockpile", "asset", "schedule", "dlp", "defect"}
  OBVIOUS
<1>2. ASSUME NEW k, NEW notified, MarkBlastComplete(p, k, notified) PROVE Keeps(names)
  BY <1>1, <1>2, SerialRows DEF MarkBlastComplete, Amend, Commit, Keeps
<1>3. ASSUME NEW k, NEW q, ReconcileStockpile(p, k, q) PROVE Keeps(names)
  BY <1>1, <1>3, SerialRows DEF ReconcileStockpile, Amend, Commit, Keeps
<1>4. ASSUME NEW k, NEW name, UpdateAssetAttributes(p, k, name) PROVE Keeps(names)
  BY <1>1, <1>4, SerialRows DEF UpdateAssetAttributes, Amend, Commit, Keeps
<1>5. ASSUME NEW k, CompleteMaintenanceTask(p, k) PROVE Keeps(names)
  BY <1>1, <1>5, SerialRows DEF CompleteMaintenanceTask, Amend, Commit, Keeps
<1>6. ASSUME NEW d, ReleaseDlpRetention(p, d) PROVE Keeps(names)
  BY <1>1, <1>6, SerialRows DEF ReleaseDlpRetention, Amend, Commit, Keeps
<1>7. ASSUME QuarryRoutes(p) PROVE Keeps(names)
  BY <1>1, <1>2, <1>3, <1>7, CreateKeeps DEF QuarryRoutes
<1>8. ASSUME AssetRoutes(p) PROVE Keeps(names)
  BY <1>1, <1>4, <1>5, <1>6, <1>8, CreateKeeps, TurnKeeps DEF AssetRoutes, ResolveDefect, VerifyDefect
<1>9. QED
  BY <1>1, <1>7, <1>8

\* Documents and what they are attached to.
LEMMA DocumentKeeps ==
    ASSUME ~ Concurrent, NEW p, DocumentNext(p)
    PROVE  Keeps({"document", "attachment"})
<1>1. PICK names : names = {"document", "attachment"}
  OBVIOUS
<1>2. ASSUME NEW org, CreatePortalUpload(p, org) PROVE Keeps(names)
  BY <1>1, <1>2, SerialRows DEF CreatePortalUpload, Insert, CommitThen, Keeps
<1>3. ASSUME StampOwner(p) \/ DiscardOversize(p) PROVE Keeps(names)
  BY <1>1, <1>3, SerialRows DEF StampOwner, DiscardOversize, Deleted, Commit, Keeps
<1>4. ASSUME NEW d, ConfirmUpload(p, d) \/ ConfirmPortalUpload(p, d) PROVE Keeps(names)
  BY <1>1, <1>4, SerialRows DEF ConfirmUpload, ConfirmPortalUpload, Confirmed, Commit, CommitThen, Keeps
<1>5. ASSUME NEW d, DeleteDocument(p, d) PROVE Keeps(names)
  BY <1>1, <1>5, SerialRows DEF DeleteDocument, Deleted, Commit, Keeps
<1>6. ASSUME NEW d, NEW size, ObjectArrives(d, size) PROVE Keeps(names)
  BY <1>1, <1>6 DEF ObjectArrives, Keeps
<1>7. QED
  BY <1>1, <1>2, <1>3, <1>4, <1>5, <1>6, CreateKeeps, AbandonKeeps
  DEF DocumentNext, DocumentRoutes, CreateUploadRequest, DeleteOwned, Attach

\* Notifications and projects.
LEMMA DeskKeeps ==
    ASSUME ~ Concurrent, NEW p, DeskRoutes(p)
    PROVE  Keeps({"notice", "preference", "project"})
<1>1. PICK names : names = {"notice", "preference", "project"}
  OBVIOUS
<1>2. ASSUME NEW u, SomethingHappens(p, u) PROVE Keeps(names)
  BY <1>1, <1>2, SerialRows DEF SomethingHappens, Notify, Insert, Commit, Keeps
<1>3. ASSUME NEW u, MarkAllRead(p, u) PROVE Keeps(names)
  BY <1>1, <1>3, SerialRows DEF MarkAllRead, Commit, Keeps
<1>4. ASSUME NEW u, NEW wanted, SetPreferences(p, u, wanted) PROVE Keeps(names)
  BY <1>1, <1>4, SerialRows DEF SetPreferences, Amend, Commit, Keeps
<1>5. ASSUME NEW k, NEW read, MarkRead(p, k, read) PROVE Keeps(names)
  BY <1>1, <1>5, SerialRows DEF MarkRead, Amend, Commit, Keeps
<1>6. QED
  BY <1>1, <1>2, <1>3, <1>4, <1>5, CreateKeeps, TurnKeeps DEF DeskRoutes, UpdateProject

\* The schedule.
LEMMA ScheduleKeeps ==
    ASSUME ~ Concurrent, NEW p, NetworkRoutes(p) \/ ControlNext(p)
    PROVE  Keeps({"activity", "dependency", "baseline", "delay"})
<1>1. PICK names : names = {"activity", "dependency", "baseline", "delay"}
  OBVIOUS
<1>2. ASSUME RecalculateSchedule(p) PROVE Keeps(names)
  BY <1>1, <1>2, SerialRows DEF RecalculateSchedule, Commit, Keeps
<1>3. ASSUME NEW mark, CreateBaseline(p, mark) PROVE Keeps(names)
  BY <1>1, <1>3, SerialRows DEF CreateBaseline, Commit, Keeps
<1>4. ASSUME NEW k, MarkBaselineCurrent(p, k) PROVE Keeps(names)
  BY <1>1, <1>4, SerialRows DEF MarkBaselineCurrent, Commit, Keeps
<1>5. QED
  BY <1>1, <1>2, <1>3, <1>4, CreateKeeps
  DEF NetworkRoutes, ControlNext, CreateActivity, AddDependency, BaselineRoutes, RecordDelayEvent

\* What is filed.
LEMMA FilingKeeps ==
    ASSUME ~ Concurrent, NEW p, FilingNext(p) \/ RevenueRoutes(p)
    PROVE  Keeps({"filed", "evm", "revenue"})
<1>1. PICK names : names = {"filed", "evm", "revenue"}
  OBVIOUS
<1>2. ASSUME NEW kind, File(p, kind) PROVE Keeps(names)
  BY <1>1, <1>2, CreateKeeps DEF File
<1>3. ASSUME FileForPlan(p) PROVE Keeps(names)
  BY <1>1, <1>2, <1>3, CreateKeeps DEF FileForPlan, GenerateForecast
<1>4. ASSUME FilingNext(p) PROVE Keeps(names)
  BY <1>2, <1>3, <1>4
  DEF FilingNext, FileForBid, FileForAssistant, FileForContract, FileForSubcontract, FileAtSite, FileForSafety,
      FileForSurvey
<1>5. ASSUME RevenueRoutes(p) PROVE Keeps(names)
  BY <1>1, <1>5, CreateKeeps DEF RevenueRoutes, RecognizeRevenue
<1>6. QED
  BY <1>1, <1>4, <1>5

\* Members, roles, sessions, the subscription.
AccountNext(p) == MembershipNext(p) \/ RoleNext(p) \/ TenantNext(p) \/ SessionNext(p)

\* Their handlers, those that say who the members are and which sessions hold first.
AccessRoutes(p) ==
    \/ \E k, token : AcceptInvitation(p, k, token)
    \/ \E e \in Emails : SignupTenant(p, e) \/ Login(p, e)
    \/ \E u : SuspendUser(p, u) \/ ReactivateUser(p, u) \/ RemoveUser(p, u)
    \/ \E u, r : ChangeUserRole(p, u, r)
    \/ \E k : Refresh(p, k) \/ Logout(p, k) \/ ChangePassword(p, k)
    \/ \E t : ResetPassword(p, t)

\* The others leave both alone.
LEMMA AccountWriters ==
    ASSUME ~ Concurrent, NEW p, AccountNext(p)
    PROVE  \/ AccessRoutes(p)
           \/ Keeps({"tenant", "role", "subscription", "invite", "resettoken", "office", "platformadmin"})
<1>1. PICK names : names = {"tenant", "role", "subscription", "invite", "resettoken", "office", "platformadmin"}
  OBVIOUS
<1>2. ASSUME NEW plan, ChangePlan(p, plan) \/ ApplyPaystackWebhookEvent(p, plan) \/ GrantSubscription(p, plan)
      PROVE  Keeps(names)
  BY <1>1, <1>2, SerialRows
  DEF ChangePlan, ApplyPaystackWebhookEvent, GrantSubscription, Amend, Commit, Keeps
<1>3. ASSUME ExtendTrial(p) PROVE Keeps(names)
  BY <1>1, <1>3, SerialRows DEF ExtendTrial, Amend, Commit, Keeps
<1>4. ASSUME NEW e, NEW r, CreateInvitation(p, e, r) PROVE Keeps(names)
  BY <1>1, <1>4, CreateKeeps DEF CreateInvitation
<1>5. ASSUME NEW k, ResendInvitation(p, k) PROVE Keeps(names)
  BY <1>1, <1>5, SerialRows DEF ResendInvitation, Amend, Commit, Keeps
<1>6. ASSUME NEW r, NEW name, NEW all, NEW callerHasAll, UpdateRole(p, r, name, all, callerHasAll) PROVE Keeps(names)
  BY <1>1, <1>6, SerialRows DEF UpdateRole, Amend, Commit, Keeps
<1>7. ASSUME NEW e, RequestPasswordReset(p, e) PROVE Keeps(names)
  BY <1>1, <1>7, CreateKeeps DEF RequestPasswordReset
<1>8. ASSUME NEW b, SetSuspension(p, b) PROVE Keeps(names)
  BY <1>1, <1>8, SerialRows DEF SetSuspension, Amend, Commit, Keeps
<1>9. ASSUME TimePasses PROVE Keeps(names)
  BY <1>1, <1>9 DEF TimePasses, Keeps
<1>10. CASE MembershipNext(p)
  BY <1>1, <1>2, <1>4, <1>5, <1>9, <1>10, TurnKeeps
  DEF MembershipNext, MemberRoutes, InvitationRoutes, CancelInvitation, JoinRoutes, AccessRoutes
<1>11. CASE RoleNext(p)
  BY <1>1, <1>4, <1>6, <1>11, CreateKeeps, TurnKeeps
  DEF RoleNext, RoleRoutes, CreateRole, DeleteRole, JoinRoutes, AccessRoutes
<1>12. CASE TenantNext(p)
  BY <1>1, <1>2, <1>3, <1>8, <1>9, <1>12, CreateKeeps
  DEF TenantNext, CreateCompany, BillingRoutes, PlatformRoutes, CreatePlatformAdmin
<1>13. CASE SessionNext(p)
  BY <1>1, <1>7, <1>8, <1>9, <1>13 DEF SessionNext, AuthRoutes, AccessRoutes
<1>14. QED
  BY <1>1, <1>10, <1>11, <1>12, <1>13 DEF AccountNext

\* What any of them may write.
LEMMA AccountsKeep ==
    ASSUME ~ Concurrent, NEW p, AccountNext(p)
    PROVE  Keeps({"tenant", "role", "user", "index", "subscription", "session", "invite", "resettoken", "office",
                  "platformadmin"})
<1>1. PICK names : names = {"tenant", "role", "user", "index", "subscription", "session", "invite", "resettoken",
                            "office", "platformadmin"}
  OBVIOUS
<1>2. ASSUME NEW k, NEW token, AcceptInvitation(p, k, token) PROVE Keeps(names)
  BY <1>1, <1>2, SerialRows DEF AcceptInvitation, Commit, Keeps
<1>3. ASSUME NEW e, SignupTenant(p, e) PROVE Keeps(names)
  BY <1>1, <1>3, SerialRows DEF SignupTenant, Amend, Commit, Keeps
<1>4. ASSUME NEW e, Login(p, e) PROVE Keeps(names)
  BY <1>1, <1>4, SerialRows DEF Login, Commit, Keeps
<1>5. ASSUME NEW u, SuspendUser(p, u) \/ ReactivateUser(p, u) PROVE Keeps(names)
  BY <1>1, <1>5, SerialRows DEF SuspendUser, ReactivateUser, Amend, Commit, Keeps
<1>6. ASSUME NEW u, RemoveUser(p, u) PROVE Keeps(names)
  BY <1>1, <1>6, SerialRows DEF RemoveUser, Commit, Keeps
<1>7. ASSUME NEW u, NEW r, ChangeUserRole(p, u, r) PROVE Keeps(names)
  BY <1>1, <1>7, SerialRows DEF ChangeUserRole, Amend, Commit, Keeps
<1>8. ASSUME NEW k, Refresh(p, k) PROVE Keeps(names)
  BY <1>1, <1>8, SerialRows DEF Refresh, RefreshAs, Commit, Keeps
<1>9. ASSUME NEW k, ChangePassword(p, k) PROVE Keeps(names)
  BY <1>1, <1>9, SerialRows DEF ChangePassword, Amend, Commit, Keeps
<1>10. ASSUME NEW t, ResetPassword(p, t) PROVE Keeps(names)
  BY <1>1, <1>10, SerialRows DEF ResetPassword, Commit, Keeps
<1>11. ASSUME NEW k, Logout(p, k) PROVE Keeps(names)
  BY <1>1, <1>11, TurnKeeps DEF Logout
<1>12. CASE AccessRoutes(p)
  BY <1>1, <1>2, <1>3, <1>4, <1>5, <1>6, <1>7, <1>8, <1>9, <1>10, <1>11, <1>12 DEF AccessRoutes
<1>13. CASE Keeps({"tenant", "role", "subscription", "invite", "resettoken", "office", "platformadmin"})
  BY <1>1, <1>13, KeepsFewer
<1>14. QED
  BY <1>1, <1>12, <1>13, AccountWriters

-----------------------------------------------------------------------------
(* Members and their sessions *)

\* R holds the addresses and roles of those there are.
UserRows(R) ==
    [status : {"active", "suspended", "removed"}, email : R, role : R, password : Nat, changedAt : Nat]

SessionRows == [status : {"live", "revoked"}, user : Nat, pwd_ts : Nat, under : Nat]

\* The three tables are well formed: a password is never older than its change, and
\* a claim never younger than the password of its user.
MembersTyped ==
    /\ {"user", "index", "session"} \subseteq DOMAIN db
    /\ \E R : db.user \in Seq(UserRows(R))
    /\ \A u \in DOMAIN db.user : db.user[u].changedAt <= db.user[u].password
    /\ db.index \in [Emails -> [user : DOMAIN db.user \cup {Nobody, Elsewhere}]]
    /\ db.session \in Seq(SessionRows)
    /\ \A k \in DOMAIN db.session :
         /\ db.session[k].user \in DOMAIN db.user
         /\ db.session[k].pwd_ts <= db.user[db.session[k].user].password

MembersSound == MembersTyped /\ IndexNamesMembers /\ SessionsEndWithPassword

\* Steps that leave the three tables as they are.
LEMMA MembersLeftAlone ==
    ASSUME MembersSound, NEW names, Keeps(names), names \cap {"user", "index", "session"} = {}
    PROVE  MembersSound'
<1>1. db'["user"] = db["user"] /\ db'["index"] = db["index"] /\ db'["session"] = db["session"] /\ DOMAIN db' = DOMAIN db
  BY DEF Keeps, MembersSound, MembersTyped
<1>2. MembersTyped'
  BY <1>1 DEF MembersSound, MembersTyped
<1>3. IndexNamesMembers'
  BY <1>1 DEF MembersSound, IndexNamesMembers, Members
<1>4. SessionsEndWithPassword'
  BY <1>1 DEF MembersSound, SessionsEndWithPassword, ClaimHolds
<1>5. QED
  BY <1>2, <1>3, <1>4 DEF MembersSound

\* A member's row is changed, its address and password left: unless it was removed and
\* is again, its status is what it was or nobody else uses the address.
LEMMA MemberChanged ==
    ASSUME MembersSound, Keeps({"user"}), NEW u \in DOMAIN db.user, NEW m, db'["user"] = [db["user"] EXCEPT ![u] = m],
           \E R : m \in UserRows(R),
           m.email = db.user[u].email, m.password = db.user[u].password, m.changedAt = db.user[u].changedAt,
           m.status = db.user[u].status \/ (m.status # "removed" /\ EmailFree(db, u))
    PROVE  MembersSound'
<1>1. /\ db'["index"] = db["index"] /\ db'["session"] = db["session"] /\ DOMAIN db' = DOMAIN db
      /\ {"user", "index", "session"} \subseteq DOMAIN db
  BY DEF Keeps, MembersSound, MembersTyped
<1>2. PICK R : db["user"] \in Seq(UserRows(R)) /\ m \in UserRows(R)
  <2>1. PICK R1 : db["user"] \in Seq(UserRows(R1))
    BY DEF MembersSound, MembersTyped
  <2>2. PICK R2 : m \in UserRows(R2)
    OBVIOUS
  <2>3. PICK R : R = R1 \cup R2
    OBVIOUS
  <2>4. UserRows(R1) \subseteq UserRows(R) /\ UserRows(R2) \subseteq UserRows(R)
    BY <2>3 DEF UserRows
  <2>5. db["user"] \in Seq(UserRows(R)) /\ m \in UserRows(R)
    BY <2>1, <2>2, <2>4
  <2>6. QED
    BY <2>5
<1>3. /\ db'["user"] \in Seq(UserRows(R)) /\ DOMAIN db'["user"] = DOMAIN db["user"]
      /\ db'["user"][u] = m /\ \A x \in DOMAIN db["user"] \ {u} : db'["user"][x] = db["user"][x]
  BY <1>2, TableUpdate
<1>4. \A x \in DOMAIN db["user"] :
        /\ db'["user"][x].email = db["user"][x].email
        /\ db'["user"][x].password = db["user"][x].password
        /\ db'["user"][x].changedAt = db["user"][x].changedAt
  BY <1>3
<1>5. MembersTyped'
  <2>1. /\ \A x \in DOMAIN db'["user"] : db'["user"][x].changedAt <= db'["user"][x].password
        /\ \A k \in DOMAIN db'["session"] :
             /\ db'["session"][k].user \in DOMAIN db'["user"]
             /\ db'["session"][k].pwd_ts <= db'["user"][db'["session"][k].user].password
    BY <1>1, <1>3, <1>4 DEF MembersSound, MembersTyped
  <2>2. db'["index"] \in [Emails -> [user : DOMAIN db'["user"] \cup {Nobody, Elsewhere}]]
    BY <1>1, <1>3 DEF MembersSound, MembersTyped
  <2>3. db'["session"] \in Seq(SessionRows)
    BY <1>1 DEF MembersSound, MembersTyped
  <2>4. \E S : db'["user"] \in Seq(UserRows(S))
    BY <1>3
  <2>5. QED
    BY <1>1, <2>1, <2>2, <2>3, <2>4 DEF MembersTyped
<1>6. IndexNamesMembers'
  <2>1. ASSUME NEW x \in DOMAIN db["user"]
        PROVE  x \in Members(db') <=> (IF x = u THEN m.status # "removed" ELSE x \in Members(db))
    BY <1>3, <2>1 DEF Members
  <2>2. Members(db) \subseteq Members(db') /\ Members(db') \subseteq Members(db) \cup {u}
    BY <1>3, <2>1 DEF Members
  <2>3. ASSUME NEW x \in Members(db'), NEW y \in Members(db'), db'["user"][x].email = db'["user"][y].email PROVE x = y
    <3>1. db["user"][x].email = db["user"][y].email
      BY <1>3, <1>4, <2>3 DEF Members
    <3>2. CASE x \in Members(db) /\ y \in Members(db)
      BY <3>1, <3>2 DEF MembersSound, IndexNamesMembers
    <3>3. CASE u \notin Members(db)
      <4>1. EmailFree(db, u) \/ u \notin Members(db')
        BY <1>3, <3>3 DEF Members
      <4>2. QED
        BY <2>2, <2>3, <3>1, <3>2, <4>1 DEF EmailFree
    <3>4. CASE u \in Members(db)
      <4>1. x \in Members(db) /\ y \in Members(db)
        BY <2>2, <3>4
      <4>2. QED
        BY <3>2, <4>1
    <3>5. QED
      BY <3>3, <3>4
  <2>4. ASSUME NEW e \in Emails, db'["index"][e].user \in DOMAIN db'["user"]
        PROVE  db'["index"][e].user \in Members(db') /\ db'["user"][db'["index"][e].user].email = e
    <3>1. PICK x \in DOMAIN db["user"] : x = db["index"][e].user
      BY <1>1, <1>3, <2>4
    <3>2. x \in Members(db) /\ db["user"][x].email = e
      BY <3>1 DEF MembersSound, IndexNamesMembers
    <3>3. QED
      BY <1>1, <1>4, <2>2, <3>1, <3>2
  <2>5. QED
    BY <2>3, <2>4 DEF IndexNamesMembers
<1>7. SessionsEndWithPassword'
  BY <1>1, <1>4 DEF MembersSound, MembersTyped, SessionsEndWithPassword, ClaimHolds
<1>8. QED
  BY <1>5, <1>6, <1>7 DEF MembersSound

\* Suspending, bringing back, giving another role.
LEMMA MembersAfterChange ==
    ASSUME ~ Concurrent, MembersSound, NEW p, NEW u, NEW r,
           SuspendUser(p, u) \/ ReactivateUser(p, u) \/ ChangeUserRole(p, u, r)
    PROVE  MembersSound'
<1>1. PICK R : db["user"] \in Seq(UserRows(R))
  BY DEF MembersSound, MembersTyped
<1>2. /\ u \in DOMAIN db["user"] /\ Keeps({"user"})
      /\ \/ EmailFree(db, u) /\ db' = [db EXCEPT !["user"][u] = [@ EXCEPT !.status = "suspended"]]
         \/ EmailFree(db, u) /\ db' = [db EXCEPT !["user"][u] = [@ EXCEPT !.status = "active"]]
         \/ db' = [db EXCEPT !["user"][u] = [@ EXCEPT !.role = r]]
  BY SerialRows DEF SuspendUser, ReactivateUser, ChangeUserRole, Amend, Rows, Row, Commit, Keeps
<1>3. db["user"][u] \in UserRows(R) /\ "user" \in DOMAIN db
  BY <1>1, <1>2 DEF MembersSound, MembersTyped
<1>4. PICK m : /\ \/ m = [db["user"][u] EXCEPT !.status = "suspended"] /\ EmailFree(db, u)
                  \/ m = [db["user"][u] EXCEPT !.status = "active"] /\ EmailFree(db, u)
                  \/ m = [db["user"][u] EXCEPT !.role = r]
               /\ db'["user"] = [db["user"] EXCEPT ![u] = m]
  BY <1>2, <1>3
<1>5. /\ m.email = db["user"][u].email /\ m.password = db["user"][u].password
      /\ m.changedAt = db["user"][u].changedAt
      /\ m.status = db["user"][u].status \/ (m.status # "removed" /\ EmailFree(db, u))
  BY <1>3, <1>4 DEF UserRows
<1>6. m \in UserRows(R \cup {r})
  BY <1>3, <1>4 DEF UserRows
<1>7. QED
  BY ONLY MembersSound, <1>2, <1>4, <1>5, <1>6, MemberChanged

\* Removing a member takes it from the index.
LEMMA MembersAfterRemoval ==
    ASSUME ~ Concurrent, MembersSound, NEW p, NEW u, RemoveUser(p, u)
    PROVE  MembersSound'
<1>1. PICK R : db["user"] \in Seq(UserRows(R))
  BY DEF MembersSound, MembersTyped
<1>2. PICK left : left = [e \in Emails |-> IF db.index[e].user = u THEN [user |-> Nobody] ELSE db.index[e]]
  OBVIOUS
<1>3. PICK m : m = [db["user"][u] EXCEPT !.status = "removed"]
  OBVIOUS
<1>4. /\ u \in DOMAIN db["user"] /\ {"user", "index", "session"} \subseteq DOMAIN db
      /\ db'["user"] = [db["user"] EXCEPT ![u] = m] /\ DOMAIN db' = DOMAIN db
      /\ db'["index"] = left
      /\ db'["session"] = db["session"]
  <2>1. /\ Commit(p, [db EXCEPT !.user[u].status = "removed", !.index = left])
        /\ u \in DOMAIN db["user"]
    BY <1>2, SerialRows DEF RemoveUser, Rows
  <2>2. {"user", "index", "session"} \subseteq DOMAIN db
    BY DEF MembersSound, MembersTyped
  <2>3. db' = [db EXCEPT !.user[u].status = "removed", !.index = left]
    BY ONLY ~ Concurrent, <2>1, SerialRows DEF Commit
  <2>4. QED
    BY <1>3, <2>1, <2>2, <2>3
<1>5. /\ m \in UserRows(R) /\ m.email = db["user"][u].email /\ m.password = db["user"][u].password
      /\ m.changedAt = db["user"][u].changedAt /\ m.status = "removed"
  <2>1. db["user"][u] \in UserRows(R)
    BY <1>1, <1>4, TableRows
  <2>2. QED
    BY <1>3, <2>1 DEF UserRows
<1>6. /\ db'["user"] \in Seq(UserRows(R)) /\ DOMAIN db'["user"] = DOMAIN db["user"]
      /\ db'["user"][u] = m /\ \A x \in DOMAIN db["user"] \ {u} : db'["user"][x] = db["user"][x]
  BY <1>1, <1>2, <1>4, <1>5, TableUpdate
<1>7. \A x \in DOMAIN db["user"] :
        /\ db'["user"][x].email = db["user"][x].email
        /\ db'["user"][x].password = db["user"][x].password
        /\ db'["user"][x].changedAt = db["user"][x].changedAt
  BY <1>5, <1>6
<1>8. MembersTyped'
  <2>1. /\ \A x \in DOMAIN db'["user"] : db'["user"][x].changedAt <= db'["user"][x].password
        /\ \A k \in DOMAIN db'["session"] :
             /\ db'["session"][k].user \in DOMAIN db'["user"]
             /\ db'["session"][k].pwd_ts <= db'["user"][db'["session"][k].user].password
    BY <1>4, <1>6, <1>7 DEF MembersSound, MembersTyped
  <2>2. db'["index"] \in [Emails -> [user : DOMAIN db'["user"] \cup {Nobody, Elsewhere}]]
    <3>1. \A e \in Emails : db["index"][e] \in [user : DOMAIN db["user"] \cup {Nobody, Elsewhere}]
      BY DEF MembersSound, MembersTyped
    <3>2. \A e \in Emails : db'["index"][e] \in [user : DOMAIN db["user"] \cup {Nobody, Elsewhere}]
      BY <1>2, <1>4, <3>1
    <3>3. QED
      BY <1>2, <1>4, <1>6, <3>2
  <2>3. db'["session"] \in Seq(SessionRows)
    BY <1>4 DEF MembersSound, MembersTyped
  <2>4. QED
    BY <1>4, <1>6, <2>1, <2>2, <2>3 DEF MembersTyped
<1>9. IndexNamesMembers'
  <2>1. Members(db') = Members(db) \ {u}
    BY <1>5, <1>6 DEF Members
  <2>2. ASSUME NEW x \in Members(db'), NEW y \in Members(db'), db'["user"][x].email = db'["user"][y].email PROVE x = y
    <3>1. x \in Members(db) /\ y \in Members(db) /\ x \in DOMAIN db["user"] /\ y \in DOMAIN db["user"]
      BY <2>1 DEF Members
    <3>2. QED
      BY <1>7, <2>2, <3>1 DEF MembersSound, IndexNamesMembers
  <2>3. ASSUME NEW e \in Emails, db'["index"][e].user \in DOMAIN db'["user"]
        PROVE  db'["index"][e].user \in Members(db') /\ db'["user"][db'["index"][e].user].email = e
    <3>1. Nobody \notin DOMAIN db["user"]
      BY <1>1, TableRows DEF Nobody
    <3>2. db["index"][e].user # u /\ db'["index"][e] = db["index"][e]
      BY <1>2, <1>4, <1>6, <2>3, <3>1
    <3>3. QED
      BY <1>6, <1>7, <2>1, <2>3, <3>2 DEF MembersSound, IndexNamesMembers
  <2>4. QED
    BY <2>2, <2>3 DEF IndexNamesMembers
<1>10. SessionsEndWithPassword'
  BY <1>4, <1>7 DEF MembersSound, MembersTyped, SessionsEndWithPassword, ClaimHolds
<1>11. QED
  BY <1>8, <1>9, <1>10 DEF MembersSound

\* Another company takes a free address.
LEMMA MembersAfterSignup ==
    ASSUME ~ Concurrent, MembersSound, NEW p, NEW e \in Emails, SignupTenant(p, e)
    PROVE  MembersSound'
<1>1. /\ {"user", "index", "session"} \subseteq DOMAIN db /\ DOMAIN db' = DOMAIN db
      /\ db'["user"] = db["user"] /\ db'["session"] = db["session"]
      /\ db'["index"] = [db["index"] EXCEPT ![e] = [user |-> Elsewhere]]
  BY SerialRows DEF SignupTenant, Amend, Commit, MembersSound, MembersTyped
<1>2. PICK R : db["user"] \in Seq(UserRows(R))
  BY DEF MembersSound, MembersTyped
<1>3. Elsewhere \notin DOMAIN db["user"]
  BY <1>2, TableRows DEF Elsewhere
<1>4. /\ db["index"] \in [Emails -> [user : DOMAIN db["user"] \cup {Nobody, Elsewhere}]]
      /\ db'["index"] \in [Emails -> [user : DOMAIN db["user"] \cup {Nobody, Elsewhere}]]
      /\ db'["index"][e].user = Elsewhere
      /\ \A f \in Emails \ {e} : db'["index"][f] = db["index"][f]
  BY <1>1 DEF MembersSound, MembersTyped
<1>5. MembersTyped'
  BY <1>1, <1>4 DEF MembersSound, MembersTyped
<1>6. IndexNamesMembers'
  BY <1>1, <1>3, <1>4 DEF MembersSound, IndexNamesMembers, Members
<1>7. SessionsEndWithPassword'
  BY <1>1 DEF MembersSound, SessionsEndWithPassword, ClaimHolds
<1>8. QED
  BY <1>5, <1>6, <1>7 DEF MembersSound

\* Sessions are marked and at most one begins, under the password its member has and
\* with the claim that says so.
LEMMA SessionBegins ==
    ASSUME MembersSound, DOMAIN db' = DOMAIN db, db'["user"] = db["user"], db'["index"] = db["index"],
           NEW kept \in Seq(SessionRows), DOMAIN kept = DOMAIN db["session"],
           \A k \in DOMAIN kept : /\ kept[k].user = db["session"][k].user
                                 /\ kept[k].pwd_ts = db["session"][k].pwd_ts
                                 /\ kept[k].under = db["session"][k].under,
           \/ db'["session"] = kept
           \/ \E u \in DOMAIN db["user"] :
                 db'["session"] = Append(kept, Session(u, db["user"][u].changedAt, db["user"][u].password))
    PROVE  MembersSound'
<1>1. PICK R : db["user"] \in Seq(UserRows(R))
  BY DEF MembersSound, MembersTyped
<1>2. ASSUME NEW u \in DOMAIN db["user"]
      PROVE  /\ Session(u, db["user"][u].changedAt, db["user"][u].password) \in SessionRows
             /\ db["user"][u].changedAt <= db["user"][u].password
  <2>1. db["user"][u] \in UserRows(R) /\ u \in Nat
    BY <1>1, TableRows
  <2>2. QED
    <3>1. db["user"][u].changedAt <= db["user"][u].password
      BY DEF MembersSound, MembersTyped
    <3>2. db["user"][u].changedAt \in Nat /\ db["user"][u].password \in Nat
      BY <2>1 DEF UserRows
    <3>3. QED
      BY ONLY <2>1, <3>1, <3>2 DEF Session, SessionRows
<1> DEFINE Kept(k) == /\ k \in DOMAIN db["session"]
                      /\ db'["session"][k].user = db["session"][k].user
                      /\ db'["session"][k].pwd_ts = db["session"][k].pwd_ts
                      /\ db'["session"][k].under = db["session"][k].under
           Begun(k) == \E u \in DOMAIN db["user"] :
                         /\ db'["session"][k].user = u
                         /\ db'["session"][k].pwd_ts = db["user"][u].changedAt
                         /\ db'["session"][k].under = db["user"][u].password
<1>3. db'["session"] \in Seq(SessionRows) /\ \A k \in DOMAIN db'["session"] : Kept(k) \/ Begun(k)
  <2>1. CASE db'["session"] = kept
    BY <2>1
  <2>2. CASE \E u \in DOMAIN db["user"] :
               db'["session"] = Append(kept, Session(u, db["user"][u].changedAt, db["user"][u].password))
    <3>1. PICK u \in DOMAIN db["user"], new \in SessionRows :
            /\ new = Session(u, db["user"][u].changedAt, db["user"][u].password)
            /\ db'["session"] = Append(kept, new)
      BY <1>2, <2>2
    <3>2. /\ Append(kept, new) \in Seq(SessionRows)
          /\ DOMAIN Append(kept, new) = DOMAIN kept \cup {Len(kept) + 1}
          /\ Append(kept, new)[Len(kept) + 1] = new
          /\ \A k \in DOMAIN kept : Append(kept, new)[k] = kept[k]
      BY TableInsert
    <3>3. new.user = u /\ new.pwd_ts = db["user"][u].changedAt /\ new.under = db["user"][u].password
      BY <3>1 DEF Session
    <3>4. Begun(Len(kept) + 1)
      BY <3>1, <3>2, <3>3
    <3>5. \A k \in DOMAIN kept : Kept(k)
      BY <3>1, <3>2
    <3> HIDE DEF Kept, Begun
    <3>6. QED
      BY <3>1, <3>2, <3>4, <3>5
  <2>3. QED
    BY <2>1, <2>2
<1>4. MembersTyped'
  <2>1. \A k \in DOMAIN db'["session"] :
          /\ db'["session"][k].user \in DOMAIN db'["user"]
          /\ db'["session"][k].pwd_ts <= db'["user"][db'["session"][k].user].password
    BY <1>2, <1>3 DEF MembersSound, MembersTyped, Session
  <2>2. QED
    BY <1>3, <2>1 DEF MembersSound, MembersTyped
<1>5. IndexNamesMembers'
  BY DEF MembersSound, IndexNamesMembers, Members
<1>6. SessionsEndWithPassword'
  BY <1>2, <1>3 DEF MembersSound, SessionsEndWithPassword, ClaimHolds, Session
<1>7. QED
  BY <1>4, <1>5, <1>6 DEF MembersSound

\* A session is ended.
LEMMA SessionRevoked ==
    ASSUME NEW sessions \in Seq(SessionRows), NEW k \in DOMAIN sessions,
           NEW m, m = [sessions[k] EXCEPT !.status = "revoked"]
    PROVE  /\ [sessions EXCEPT ![k] = m] \in Seq(SessionRows)
           /\ DOMAIN [sessions EXCEPT ![k] = m] = DOMAIN sessions
           /\ \A x \in DOMAIN sessions : /\ [sessions EXCEPT ![k] = m][x].user = sessions[x].user
                                         /\ [sessions EXCEPT ![k] = m][x].pwd_ts = sessions[x].pwd_ts
                                         /\ [sessions EXCEPT ![k] = m][x].under = sessions[x].under
<1>1. sessions[k] \in SessionRows
  BY TableRows
<1>2. m \in SessionRows /\ m.user = sessions[k].user /\ m.pwd_ts = sessions[k].pwd_ts
      /\ m.under = sessions[k].under
  BY <1>1 DEF SessionRows
<1>3. /\ [sessions EXCEPT ![k] = m] \in Seq(SessionRows) /\ DOMAIN [sessions EXCEPT ![k] = m] = DOMAIN sessions
      /\ [sessions EXCEPT ![k] = m][k] = m
      /\ \A x \in DOMAIN sessions \ {k} : [sessions EXCEPT ![k] = m][x] = sessions[x]
  BY <1>2, TableUpdate
<1>4. QED
  BY <1>2, <1>3

\* Login, refresh, logout.
LEMMA MembersAfterSession ==
    ASSUME ~ Concurrent, MembersSound, NEW p,
           (\E e : Login(p, e)) \/ (\E k : Refresh(p, k) \/ Logout(p, k))
    PROVE  MembersSound'
<1>1. /\ {"user", "index", "session"} \subseteq DOMAIN db /\ db["session"] \in Seq(SessionRows)
  BY DEF MembersSound, MembersTyped
<1>2. ASSUME NEW e, Login(p, e) PROVE MembersSound'
  <2>1. PICK u : u = db["index"][e].user
    OBVIOUS
  <2>2. /\ u \in DOMAIN db["user"]
        /\ db' = [db EXCEPT !.session = NewSession(db, u, db["user"][u].password)]
    BY <1>2, <2>1, SerialRows DEF Login, Commit
  <2>3. /\ DOMAIN db' = DOMAIN db /\ db'["user"] = db["user"] /\ db'["index"] = db["index"]
        /\ db'["session"] = Append(db["session"], Session(u, db["user"][u].changedAt, db["user"][u].password))
    BY <1>1, <2>2 DEF NewSession
  <2>4. QED
    BY <1>1, <2>2, <2>3, SessionBegins
<1>3. ASSUME NEW k, Refresh(p, k) PROVE MembersSound'
  <2>1. PICK kept : kept = [db["session"] EXCEPT ![k].status = "revoked"]
    OBVIOUS
  <2>2. PICK u : u = db["session"][k].user
    OBVIOUS
  <2>3. /\ k \in DOMAIN db["session"] /\ ClaimHolds(db, k) /\ DOMAIN db' = DOMAIN db
        /\ db'["user"] = db["user"] /\ db'["index"] = db["index"]
        /\ db'["session"] = Append(kept, Session(u, db["user"][u].changedAt, db["session"][k].under))
    <3>1. PICK s : s = [db EXCEPT !.session[k].status = "revoked"]
      OBVIOUS
    <3>2. DOMAIN s = DOMAIN db /\ s["session"] = kept /\ s["user"] = db["user"] /\ s["index"] = db["index"]
      BY <1>1, <2>1, <3>1
    <3>3. k \in DOMAIN db["session"] /\ ClaimHolds(db, k) /\ Commit(p, [s EXCEPT !.session = NewSession(s, u, db["session"][k].under)])
      BY <1>3, <2>2, <3>1, SerialRows DEF Refresh, RefreshAs, Rows
    <3>4. db' = [s EXCEPT !.session = NewSession(s, u, db["session"][k].under)]
      BY ONLY ~ Concurrent, <3>3, SerialRows DEF Commit
    <3>5. QED
      BY <1>1, <3>2, <3>3, <3>4 DEF NewSession
  <2>4. u \in DOMAIN db["user"] /\ db["session"][k].under = db["user"][u].password
    BY <2>2, <2>3 DEF MembersSound, MembersTyped, SessionsEndWithPassword
  <2>5. /\ kept \in Seq(SessionRows) /\ DOMAIN kept = DOMAIN db["session"]
        /\ \A x \in DOMAIN kept : /\ kept[x].user = db["session"][x].user
                                  /\ kept[x].pwd_ts = db["session"][x].pwd_ts
                                  /\ kept[x].under = db["session"][x].under
    <3>1. PICK m : m = [db["session"][k] EXCEPT !.status = "revoked"]
      OBVIOUS
    <3>2. kept = [db["session"] EXCEPT ![k] = m]
      BY <2>1, <3>1
    <3>3. k \in DOMAIN db["session"]
      BY <2>3
    <3>4. QED
      BY ONLY <1>1, <3>1, <3>2, <3>3, SessionRevoked
  <2>6. QED
    BY ONLY MembersSound, <2>3, <2>4, <2>5, SessionBegins
<1>4. ASSUME NEW k, Logout(p, k) PROVE MembersSound'
  <2>1. PICK kept : kept = [db["session"] EXCEPT ![k].status = "revoked"]
    OBVIOUS
  <2>2. /\ k \in DOMAIN db["session"] /\ db' = [db EXCEPT !["session"][k].status = "revoked"]
    <3>1. Turn(p, "session", k, {"live"}, "revoked")
      BY <1>4 DEF Logout
    <3>2. QED
      BY ONLY ~ Concurrent, <3>1, SerialRows DEF Turn, Rows, Commit
  <2>3. /\ DOMAIN db' = DOMAIN db /\ db'["user"] = db["user"] /\ db'["index"] = db["index"]
        /\ db'["session"] = kept
    BY <1>1, <2>1, <2>2
  <2>4. /\ kept \in Seq(SessionRows) /\ DOMAIN kept = DOMAIN db["session"]
        /\ \A x \in DOMAIN kept : /\ kept[x].user = db["session"][x].user
                                  /\ kept[x].pwd_ts = db["session"][x].pwd_ts
                                  /\ kept[x].under = db["session"][x].under
    <3>1. PICK m : m = [db["session"][k] EXCEPT !.status = "revoked"]
      OBVIOUS
    <3>2. kept = [db["session"] EXCEPT ![k] = m]
      BY <2>1, <3>1
    <3>3. k \in DOMAIN db["session"]
      BY <2>2
    <3>4. QED
      BY ONLY <1>1, <3>1, <3>2, <3>3, SessionRevoked
  <2>5. QED
    BY ONLY MembersSound, <2>3, <2>4, SessionBegins
<1>5. QED
  BY <1>2, <1>3, <1>4

\* A new password ends the sessions there are.
LEMMA MembersAfterPassword ==
    ASSUME ~ Concurrent, MembersSound, NEW p, NEW k, ResetPassword(p, k) \/ ChangePassword(p, k)
    PROVE  MembersSound'
<1>1. PICK R : db["user"] \in Seq(UserRows(R))
  BY DEF MembersSound, MembersTyped
<1>2. /\ {"user", "index", "session"} \subseteq DOMAIN db
      /\ db["session"] \in Seq(SessionRows)
  BY DEF MembersSound, MembersTyped
<1>3. PICK u : /\ DOMAIN db' = DOMAIN db /\ db'["index"] = db["index"] /\ db'["session"] = db["session"]
               /\ db'["user"] = [db["user"] EXCEPT ![u] = WithNewPassword(@)]
  <2>1. CASE ResetPassword(p, k)
    <3>1. PICK u : u = db["resettoken"][k].user
      OBVIOUS
    <3>2. db' = [db EXCEPT !.user[u] = WithNewPassword(@), !.resettoken[k].status = "used"]
      BY <2>1, <3>1, SerialRows, Zenon DEF ResetPassword, Commit
    <3>3. QED
      BY <1>2, <3>2
  <2>2. CASE ChangePassword(p, k)
    <3>1. PICK u : u = db["session"][k].user
      OBVIOUS
    <3>2. db' = [db EXCEPT !["user"][u] = WithNewPassword(@)]
      BY <2>2, <3>1, SerialRows DEF ChangePassword, Amend, Row, Commit
    <3>3. QED
      BY <1>2, <3>2
  <2>3. QED
    BY <2>1, <2>2
<1>4. CASE u \notin DOMAIN db["user"]
  <2>1. db'["user"] = db["user"]
    <3>1. db["user"] \in [1..Len(db["user"]) -> UserRows(R)]
      BY <1>1, LenProperties
    <3>2. QED
      BY <1>3, <1>4, <3>1
  <2>2. QED
    BY <1>2, <1>3, <2>1, SessionBegins
<1>5. CASE u \in DOMAIN db["user"]
  <2>1. PICK m : m = WithNewPassword(db["user"][u])
    OBVIOUS
  <2>2. db["user"][u] \in UserRows(R)
    BY <1>1, <1>5, TableRows
  <2>3. /\ m \in UserRows(R) /\ m.email = db["user"][u].email /\ m.status = db["user"][u].status
        /\ m.password = db["user"][u].password + 1 /\ m.changedAt = m.password
        /\ db["user"][u].password \in Nat
    <3>1. PICK n \in Nat : n = db["user"][u].password
      BY <2>2 DEF UserRows
    <3>2. m = [db["user"][u] EXCEPT !.password = n + 1, !.changedAt = n + 1]
      BY <2>1, <3>1 DEF WithNewPassword
    <3>3. n + 1 \in Nat
      OBVIOUS
    <3>4. QED
      BY ONLY <2>2, <3>1, <3>2, <3>3 DEF UserRows
  <2>4. /\ db'["user"] \in Seq(UserRows(R)) /\ DOMAIN db'["user"] = DOMAIN db["user"]
        /\ db'["user"][u] = m /\ \A x \in DOMAIN db["user"] \ {u} : db'["user"][x] = db["user"][x]
    <3>1. db'["user"] = [db["user"] EXCEPT ![u] = m]
      BY <1>3, <2>1
    <3>2. QED
      BY <1>1, <1>5, <2>3, <3>1, TableUpdate
  <2>5. MembersTyped'
    <3>1. ASSUME NEW x \in DOMAIN db'["session"]
          PROVE  /\ db'["session"][x].user \in DOMAIN db'["user"]
                 /\ db'["session"][x].pwd_ts <= db'["user"][db'["session"][x].user].password
      <4>1. db["session"][x] \in SessionRows
        BY <1>2, <1>3, <3>1, TableRows
      <4>2. db["session"][x].pwd_ts \in Nat
        BY <4>1 DEF SessionRows
      <4>3. /\ db["session"][x].user \in DOMAIN db["user"]
            /\ db["session"][x].pwd_ts <= db["user"][db["session"][x].user].password
        BY <1>3, <3>1 DEF MembersSound, MembersTyped
      <4>4. QED
        BY <1>3, <2>3, <2>4, <4>2, <4>3
    <3>2. \A x \in DOMAIN db'["user"] : db'["user"][x].changedAt <= db'["user"][x].password
      <4>1. \A x \in DOMAIN db["user"] : db["user"][x].changedAt <= db["user"][x].password
        BY DEF MembersSound, MembersTyped
      <4>2. m.changedAt <= m.password
        BY <2>3
      <4>3. QED
        BY <2>4, <4>1, <4>2
    <3>3. \E S : db'["user"] \in Seq(UserRows(S))
      BY <2>4
    <3>4. QED
      BY <1>2, <1>3, <2>4, <3>1, <3>2, <3>3 DEF MembersSound, MembersTyped
  <2>6. IndexNamesMembers'
    <3>1. Members(db') = Members(db)
      BY <2>3, <2>4 DEF Members
    <3>2. \A x \in DOMAIN db["user"] : db'["user"][x].email = db["user"][x].email
      BY <2>3, <2>4
    <3>3. Members(db) \subseteq DOMAIN db["user"]
      BY DEF Members
    <3>4. QED
      BY <1>3, <2>4, <3>1, <3>2, <3>3 DEF MembersSound, IndexNamesMembers
  <2>7. SessionsEndWithPassword'
    <3> SUFFICES ASSUME NEW x \in DOMAIN db["session"], ClaimHolds(db', x)
                 PROVE  db["session"][x].under = db'["user"][db["session"][x].user].password
      BY <1>3 DEF SessionsEndWithPassword
    <3>1. /\ db["session"][x].user \in DOMAIN db["user"]
          /\ db["session"][x].pwd_ts <= db["user"][db["session"][x].user].password
      BY DEF MembersSound, MembersTyped
    <3>2. db["session"][x].user # u
      BY <1>3, <2>3, <2>4, <3>1 DEF ClaimHolds
    <3>3. QED
      BY <1>3, <2>4, <3>1, <3>2 DEF MembersSound, SessionsEndWithPassword, ClaimHolds
  <2>8. QED
    BY <2>5, <2>6, <2>7 DEF MembersSound
<1>6. QED
  BY <1>4, <1>5

\* Somebody who was invited joins.
LEMMA MembersAfterInvitation ==
    ASSUME ~ Concurrent, MembersSound, NEW p, NEW k, NEW token, AcceptInvitation(p, k, token)
    PROVE  MembersSound'
<1>1. PICK e : e = db["invite"][k].email
  OBVIOUS
<1>2. PICK m : m = User(e, db["invite"][k].role)
  OBVIOUS
<1>3. PICK u : u = Len(db["user"]) + 1
  OBVIOUS
<1>4. PICK R : db["user"] \in Seq(UserRows(R)) /\ m \in UserRows(R)
  <2>1. PICK R1 : db["user"] \in Seq(UserRows(R1))
    BY DEF MembersSound, MembersTyped
  <2>2. PICK R : R = R1 \cup {e, db["invite"][k].role}
    OBVIOUS
  <2>3. UserRows(R1) \subseteq UserRows(R) /\ m \in UserRows(R)
    BY <1>2, <2>2 DEF UserRows, User
  <2>4. QED
    BY <2>1, <2>3
<1>5. /\ m.email = e /\ m.status = "active" /\ m.password = 1 /\ m.changedAt = 0
  BY <1>2 DEF User
<1>6. /\ Append(db["user"], m) \in Seq(UserRows(R))
      /\ DOMAIN Append(db["user"], m) = DOMAIN db["user"] \cup {u}
      /\ Append(db["user"], m)[u] = m
      /\ \A x \in DOMAIN db["user"] : Append(db["user"], m)[x] = db["user"][x]
      /\ u \notin DOMAIN db["user"] /\ u \in Nat
  BY <1>3, <1>4, TableInsert, TableRows
<1>7. PICK new : new = Session(u, 0, 1)
  OBVIOUS
<1>8. /\ {"user", "index", "session"} \subseteq DOMAIN db /\ DOMAIN db' = DOMAIN db
      /\ db'["user"] = Append(db["user"], m)
      /\ db'["index"] = [db["index"] EXCEPT ![e] = [@ EXCEPT !.user = u]]
      /\ db'["session"] = Append(db["session"], new)
      /\ db["index"][e].user = Nobody
      /\ \A x \in Members(db) : db["user"][x].email # e
  <2>1. PICK s : s = [db EXCEPT !.user = Append(@, m), !.index[e].user = u, !.invite[k].status = "accepted"]
    OBVIOUS
  <2>2. {"user", "index", "session"} \subseteq DOMAIN db
    BY DEF MembersSound, MembersTyped
  <2>3. /\ DOMAIN s = DOMAIN db /\ s["user"] = Append(db["user"], m) /\ s["session"] = db["session"]
        /\ s["index"] = [db["index"] EXCEPT ![e] = [@ EXCEPT !.user = u]]
    BY <2>1, <2>2
  <2>4. /\ Commit(p, [s EXCEPT !.session = NewSession(s, u, 1)])
        /\ db["index"][e].user = Nobody
        /\ \A x \in Members(db) : db["user"][x].email # e
    BY <1>1, <1>2, <1>3, <2>1, SerialRows DEF AcceptInvitation
  <2>5. db' = [s EXCEPT !.session = NewSession(s, u, 1)]
    BY ONLY ~ Concurrent, <2>4, SerialRows DEF Commit
  <2>6. s["user"][u].changedAt = 0
    BY <1>5, <1>6, <2>3
  <2>7. QED
    BY <1>7, <2>2, <2>3, <2>4, <2>5, <2>6 DEF NewSession
<1>9. /\ db'["session"] \in Seq(SessionRows) /\ db["session"] \in Seq(SessionRows)
      /\ DOMAIN db'["session"] = DOMAIN db["session"] \cup {Len(db["session"]) + 1}
      /\ db'["session"][Len(db["session"]) + 1] = new
      /\ \A x \in DOMAIN db["session"] : db'["session"][x] = db["session"][x]
  <2>1. db["session"] \in Seq(SessionRows)
    BY DEF MembersSound, MembersTyped
  <2>2. new \in SessionRows
    BY <1>6, <1>7 DEF Session, SessionRows
  <2>3. QED
    BY <1>8, <2>1, <2>2, TableInsert
<1>10. new.user = u /\ new.pwd_ts = 0 /\ new.under = 1
  BY <1>7 DEF Session
<1>11. MembersTyped'
  <2>1. \A x \in DOMAIN db'["user"] : db'["user"][x].changedAt <= db'["user"][x].password
    <3>1. \A x \in DOMAIN db["user"] : db["user"][x].changedAt <= db["user"][x].password
      BY DEF MembersSound, MembersTyped
    <3>2. QED
      BY <1>5, <1>6, <1>8, <3>1
  <2>2. \A x \in DOMAIN db'["session"] :
          /\ db'["session"][x].user \in DOMAIN db'["user"]
          /\ db'["session"][x].pwd_ts <= db'["user"][db'["session"][x].user].password
    <3>1. \A x \in DOMAIN db["session"] :
            /\ db["session"][x].user \in DOMAIN db["user"]
            /\ db["session"][x].pwd_ts <= db["user"][db["session"][x].user].password
      BY DEF MembersSound, MembersTyped
    <3>2. QED
      BY <1>5, <1>6, <1>8, <1>9, <1>10, <3>1
  <2>3. db'["index"] \in [Emails -> [user : DOMAIN db'["user"] \cup {Nobody, Elsewhere}]]
    <3>1. db["index"] \in [Emails -> [user : DOMAIN db["user"] \cup {Nobody, Elsewhere}]]
      BY DEF MembersSound, MembersTyped
    <3>2. PICK S : S = [user : DOMAIN db'["user"] \cup {Nobody, Elsewhere}]
      OBVIOUS
    <3>3. DOMAIN db["user"] \subseteq DOMAIN db'["user"] /\ u \in DOMAIN db'["user"]
      BY <1>6, <1>8
    <3>4. db["index"] \in [Emails -> S]
      BY ONLY <3>1, <3>2, <3>3
    <3>5. \A x : x \in S => [x EXCEPT !.user = u] \in S
      BY ONLY <3>2, <3>3
    <3>6. db'["index"] = [db["index"] EXCEPT ![e] = [@ EXCEPT !.user = u]]
      BY <1>8
    <3>7. db'["index"] \in [Emails -> S]
      BY ONLY <3>4, <3>5, <3>6
    <3>8. QED
      BY <3>2, <3>7
  <2>4. \E A : db'["user"] \in Seq(UserRows(A))
    BY <1>6, <1>8
  <2>5. QED
    BY <1>8, <1>9, <2>1, <2>2, <2>3, <2>4 DEF MembersTyped
<1>12. IndexNamesMembers'
  <2>1. Members(db') = Members(db) \cup {u} /\ Members(db) \subseteq DOMAIN db["user"]
    BY <1>5, <1>6, <1>8 DEF Members
  <2>2. ASSUME NEW x \in Members(db'), NEW y \in Members(db'), db'["user"][x].email = db'["user"][y].email PROVE x = y
    <3>1. CASE x \in Members(db) /\ y \in Members(db)
      BY <1>6, <1>8, <2>1, <2>2, <3>1 DEF MembersSound, IndexNamesMembers
    <3>2. QED
      BY <1>5, <1>6, <1>8, <2>1, <2>2, <3>1
  <2>3. ASSUME NEW f \in Emails, db'["index"][f].user \in DOMAIN db'["user"]
        PROVE  db'["index"][f].user \in Members(db') /\ db'["user"][db'["index"][f].user].email = f
    <3>1. db["index"] \in [Emails -> [user : DOMAIN db["user"] \cup {Nobody, Elsewhere}]]
      BY DEF MembersSound, MembersTyped
    <3>2. CASE f = e
      <4>1. db'["index"][f].user = u
        BY <1>8, <3>1, <3>2
      <4>2. QED
        BY <1>5, <1>6, <1>8, <2>1, <3>2, <4>1
    <3>3. CASE f # e
      <4>1. db'["index"][f] = db["index"][f]
        BY <1>8, <3>1, <3>3
      <4>2. db["index"][f].user \in DOMAIN db["user"] \cup {Nobody, Elsewhere} /\ u \notin {Nobody, Elsewhere}
        <5>1. Len(db["user"]) \in Nat
          BY <1>4, TableRows
        <5>2. QED
          BY <1>3, <3>1, <5>1 DEF Nobody, Elsewhere
      <4>3. db["index"][f].user \in DOMAIN db["user"]
        BY <1>6, <1>8, <2>3, <4>1, <4>2
      <4>4. QED
        BY <1>6, <1>8, <2>1, <4>1, <4>3 DEF MembersSound, IndexNamesMembers
    <3>4. QED
      BY <3>2, <3>3
  <2>4. QED
    BY <2>2, <2>3 DEF IndexNamesMembers
<1>13. SessionsEndWithPassword'
  <2> SUFFICES ASSUME NEW x \in DOMAIN db'["session"], ClaimHolds(db', x)
               PROVE  db'["session"][x].under = db'["user"][db'["session"][x].user].password
    BY DEF SessionsEndWithPassword
  <2>1. CASE x \in DOMAIN db["session"]
    <3>1. db["session"][x].user \in DOMAIN db["user"]
      BY <2>1 DEF MembersSound, MembersTyped
    <3>2. /\ db'["session"][x] = db["session"][x]
          /\ db'["user"][db["session"][x].user] = db["user"][db["session"][x].user]
      BY <1>6, <1>8, <1>9, <2>1, <3>1
    <3>3. ClaimHolds(db, x)
      BY <3>2 DEF ClaimHolds
    <3>4. QED
      BY <2>1, <3>2, <3>3 DEF MembersSound, SessionsEndWithPassword
  <2>2. CASE x = Len(db["session"]) + 1
    BY <1>5, <1>6, <1>8, <1>9, <1>10, <2>2
  <2>3. QED
    BY <1>9, <2>1, <2>2
<1>14. QED
  BY <1>11, <1>12, <1>13 DEF MembersSound

\* Whatever handler serves a request about accounts.
LEMMA MembersStaySound ==
    ASSUME ~ Concurrent, MembersSound, NEW p, AccountNext(p)
    PROVE  MembersSound'
<1>1. CASE AccessRoutes(p)
  <2>1. ASSUME NEW k, NEW token, AcceptInvitation(p, k, token) PROVE MembersSound'
    BY <2>1, MembersAfterInvitation
  <2>2. ASSUME NEW e \in Emails, SignupTenant(p, e) PROVE MembersSound'
    BY <2>2, MembersAfterSignup
  <2>3. ASSUME NEW u, NEW r, SuspendUser(p, u) \/ ReactivateUser(p, u) \/ ChangeUserRole(p, u, r) PROVE MembersSound'
    BY <2>3, MembersAfterChange
  <2>4. ASSUME NEW u, RemoveUser(p, u) PROVE MembersSound'
    BY <2>4, MembersAfterRemoval
  <2>5. ASSUME (\E e : Login(p, e)) \/ (\E k : Refresh(p, k) \/ Logout(p, k)) PROVE MembersSound'
    BY <2>5, MembersAfterSession
  <2>6. ASSUME NEW k, ResetPassword(p, k) \/ ChangePassword(p, k) PROVE MembersSound'
    BY <2>6, MembersAfterPassword
  <2>7. QED
    BY ONLY <1>1, <2>1, <2>2, <2>3, <2>4, <2>5, <2>6 DEF AccessRoutes
<1>2. CASE Keeps({"tenant", "role", "subscription", "invite", "resettoken", "office", "platformadmin"})
  BY <1>2, MembersLeftAlone
<1>3. QED
  BY <1>1, <1>2, AccountWriters

-----------------------------------------------------------------------------
(* Portal users and their sessions *)

\* E holds the kinds and addresses of those there are.
PortalUserRows(E) ==
    [kind : E, email : E, password : Nat, changedAt : Nat, active : BOOLEAN, indexed : BOOLEAN]

PortalSessionRows == [status : {"live", "revoked"}, user : Nat, pwd_ts : Nat, under : Nat]

\* No claim is younger than the last change of password; one as young is of an
\* active user and the password it was begun under is the present one.
PortalRowsSound(users, sessions) ==
    /\ \E E : users \in Seq(PortalUserRows(E))
    /\ sessions \in Seq(PortalSessionRows)
    /\ \A k \in DOMAIN sessions :
         /\ sessions[k].user \in DOMAIN users
         /\ sessions[k].pwd_ts <= users[sessions[k].user].changedAt
         /\ sessions[k].pwd_ts = users[sessions[k].user].changedAt =>
               /\ users[sessions[k].user].active
               /\ sessions[k].under = users[sessions[k].user].password
    /\ \A u \in DOMAIN users : users[u].email = NoOne => users[u].password = 0 /\ ~ users[u].active

PortalsSound ==
    /\ {"portaluser", "portalsession"} \subseteq DOMAIN db
    /\ PortalRowsSound(db["portaluser"], db["portalsession"])

\* It is what the property says of the portals.
LEMMA PortalsSoundSays == ASSUME PortalsSound PROVE PortalAccessEnds
  BY DEF PortalsSound, PortalRowsSound, PortalAccessEnds, PortalClaimHolds

\* A session begins that is its user's by the rules.
LEMMA PortalSessionBegins ==
    ASSUME NEW users, NEW sessions, PortalRowsSound(users, sessions), NEW u \in DOMAIN users, users[u].active
    PROVE  PortalRowsSound(users, Append(sessions, PortalSession(u, users[u].changedAt, users[u].password)))
<1>1. PICK E : users \in Seq(PortalUserRows(E))
  BY DEF PortalRowsSound
<1>2. PICK new : new = PortalSession(u, users[u].changedAt, users[u].password)
  OBVIOUS
<1>3. users[u] \in PortalUserRows(E) /\ u \in Nat
  BY <1>1, TableRows
<1>4. users[u].changedAt \in Nat /\ users[u].password \in Nat
  BY <1>3 DEF PortalUserRows
<1>5. /\ new \in PortalSessionRows /\ new.user = u /\ new.pwd_ts = users[u].changedAt
      /\ new.under = users[u].password
  BY ONLY <1>2, <1>3, <1>4 DEF PortalSession, PortalSessionRows
<1>6. PICK more : more = Append(sessions, new)
  OBVIOUS
<1>7. sessions \in Seq(PortalSessionRows)
  BY DEF PortalRowsSound
<1>8. /\ more \in Seq(PortalSessionRows)
      /\ DOMAIN more = DOMAIN sessions \cup {Len(sessions) + 1}
      /\ more[Len(sessions) + 1] = new
      /\ \A k \in DOMAIN sessions : more[k] = sessions[k]
  BY ONLY <1>5, <1>6, <1>7, TableInsert
<1>9. ASSUME NEW k \in DOMAIN more
      PROVE  /\ more[k].user \in DOMAIN users
             /\ more[k].pwd_ts <= users[more[k].user].changedAt
             /\ more[k].pwd_ts = users[more[k].user].changedAt =>
                   users[more[k].user].active /\ more[k].under = users[more[k].user].password
  <2>1. CASE k \in DOMAIN sessions
    BY <1>8, <2>1 DEF PortalRowsSound
  <2>2. CASE k = Len(sessions) + 1
    BY <1>4, <1>5, <1>8, <2>2
  <2>3. QED
    BY <1>8, <2>1, <2>2
<1>10. PortalRowsSound(users, more)
  BY <1>8, <1>9 DEF PortalRowsSound
<1>11. QED
  BY <1>2, <1>6, <1>10

\* A session is ended.
LEMMA PortalSessionEnds ==
    ASSUME NEW users, NEW sessions, PortalRowsSound(users, sessions), NEW k \in DOMAIN sessions,
           NEW m, m = [sessions[k] EXCEPT !.status = "revoked"]
    PROVE  /\ PortalRowsSound(users, [sessions EXCEPT ![k] = m])
           /\ DOMAIN [sessions EXCEPT ![k] = m] = DOMAIN sessions
<1>1. sessions \in Seq(PortalSessionRows)
  BY DEF PortalRowsSound
<1>2. sessions[k] \in PortalSessionRows
  BY <1>1, TableRows
<1>3. m \in PortalSessionRows /\ m.user = sessions[k].user /\ m.pwd_ts = sessions[k].pwd_ts
      /\ m.under = sessions[k].under
  BY <1>2 DEF PortalSessionRows
<1>4. PICK kept : kept = [sessions EXCEPT ![k] = m]
  OBVIOUS
<1>5. /\ kept \in Seq(PortalSessionRows) /\ DOMAIN kept = DOMAIN sessions
      /\ kept[k] = m /\ \A x \in DOMAIN sessions \ {k} : kept[x] = sessions[x]
  BY ONLY <1>1, <1>3, <1>4, TableUpdate
<1>6. \A x \in DOMAIN sessions : /\ kept[x].user = sessions[x].user /\ kept[x].pwd_ts = sessions[x].pwd_ts
                                 /\ kept[x].under = sessions[x].under
  BY <1>3, <1>5
<1>7. PortalRowsSound(users, kept)
  BY <1>5, <1>6 DEF PortalRowsSound
<1>8. QED
  BY <1>4, <1>5, <1>7

\* A user is changed: the sessions end, or are kept by a user as active as before.
LEMMA PortalUserChanges ==
    ASSUME NEW users, NEW sessions, PortalRowsSound(users, sessions), NEW u \in DOMAIN users,
           NEW m, \E E : m \in PortalUserRows(E), m.email = NoOne => m.password = 0 /\ ~ m.active,
           \/ m.changedAt = users[u].changedAt + 1
           \/ /\ m.changedAt = users[u].changedAt
              /\ m.password = users[u].password
              /\ m.active = users[u].active
    PROVE  PortalRowsSound([users EXCEPT ![u] = m], sessions)
<1>1. PICK E : users \in Seq(PortalUserRows(E)) /\ m \in PortalUserRows(E)
  <2>1. PICK E1 : users \in Seq(PortalUserRows(E1))
    BY DEF PortalRowsSound
  <2>2. PICK E2 : m \in PortalUserRows(E2)
    OBVIOUS
  <2>3. PICK E : E = E1 \cup E2
    OBVIOUS
  <2>4. PortalUserRows(E1) \subseteq PortalUserRows(E) /\ PortalUserRows(E2) \subseteq PortalUserRows(E)
    BY <2>3 DEF PortalUserRows
  <2>5. users \in Seq(PortalUserRows(E)) /\ m \in PortalUserRows(E)
    BY <2>1, <2>2, <2>4
  <2>6. QED
    BY <2>5
<1>2. PICK new : new = [users EXCEPT ![u] = m]
  OBVIOUS
<1>3. /\ new \in Seq(PortalUserRows(E)) /\ DOMAIN new = DOMAIN users
      /\ new[u] = m /\ \A x \in DOMAIN users \ {u} : new[x] = users[x]
  BY ONLY <1>1, <1>2, u \in DOMAIN users, TableUpdate
<1>4. sessions \in Seq(PortalSessionRows)
  BY DEF PortalRowsSound
<1>5. ASSUME NEW k \in DOMAIN sessions
      PROVE  /\ sessions[k].user \in DOMAIN new
             /\ sessions[k].pwd_ts <= new[sessions[k].user].changedAt
             /\ sessions[k].pwd_ts = new[sessions[k].user].changedAt =>
                   new[sessions[k].user].active /\ sessions[k].under = new[sessions[k].user].password
  <2>1. PICK w : w = sessions[k].user
    OBVIOUS
  <2>2. /\ w \in DOMAIN users /\ sessions[k].pwd_ts <= users[w].changedAt
        /\ sessions[k].pwd_ts = users[w].changedAt => users[w].active /\ sessions[k].under = users[w].password
    BY <2>1 DEF PortalRowsSound
  <2>3. sessions[k].pwd_ts \in Nat /\ users[w].changedAt \in Nat
    <3>1. sessions[k] \in PortalSessionRows /\ users[w] \in PortalUserRows(E)
      BY <1>1, <1>4, <2>2, TableRows
    <3>2. QED
      BY <3>1 DEF PortalSessionRows, PortalUserRows
  <2>4. CASE w # u
    BY <1>3, <2>1, <2>2, <2>4
  <2>5. CASE w = u
    BY <1>3, <2>1, <2>2, <2>3, <2>5
  <2>6. QED
    BY <2>4, <2>5
<1>6. \A x \in DOMAIN new : new[x].email = NoOne => new[x].password = 0 /\ ~ new[x].active
  BY <1>3 DEF PortalRowsSound
<1>7. PortalRowsSound(new, sessions)
  BY <1>3, <1>4, <1>5, <1>6 DEF PortalRowsSound
<1>8. QED
  BY <1>2, <1>7

\* Somebody is given an account.
LEMMA PortalUserIsMade ==
    ASSUME NEW users, NEW sessions, PortalRowsSound(users, sessions), NEW kind, NEW e \in PortalEmails
    PROVE  PortalRowsSound(Append(users, PortalUser(kind, e)), sessions)
<1>1. PICK m : m = PortalUser(kind, e)
  OBVIOUS
<1>2. PICK E : users \in Seq(PortalUserRows(E)) /\ m \in PortalUserRows(E)
  <2>1. PICK E1 : users \in Seq(PortalUserRows(E1))
    BY DEF PortalRowsSound
  <2>2. PICK E : E = E1 \cup {kind, e}
    OBVIOUS
  <2>3. PortalUserRows(E1) \subseteq PortalUserRows(E) /\ m \in PortalUserRows(E)
    BY <1>1, <2>2 DEF PortalUserRows, PortalUser
  <2>4. QED
    BY <2>1, <2>3
<1>3. m.email # NoOne
  BY <1>1, PortalsAssumption DEF PortalUser
<1>4. PICK new : new = Append(users, m)
  OBVIOUS
<1>5. /\ new \in Seq(PortalUserRows(E)) /\ DOMAIN new = DOMAIN users \cup {Len(users) + 1}
      /\ new[Len(users) + 1] = m /\ \A x \in DOMAIN users : new[x] = users[x]
  BY ONLY <1>2, <1>4, TableInsert
<1>6. PortalRowsSound(new, sessions)
  BY <1>3, <1>5 DEF PortalRowsSound
<1>7. QED
  BY <1>1, <1>4, <1>6

\* Steps that leave both tables as they are.
LEMMA PortalsLeftAlone ==
    ASSUME PortalsSound, NEW names, Keeps(names), names \cap {"portaluser", "portalsession"} = {}
    PROVE  PortalsSound'
<1>1. /\ db'["portaluser"] = db["portaluser"] /\ db'["portalsession"] = db["portalsession"]
      /\ DOMAIN db' = DOMAIN db
  BY DEF Keeps, PortalsSound
<1>2. PortalRowsSound(db["portaluser"], db["portalsession"])
  BY DEF PortalsSound
<1>3. PortalRowsSound(db'["portaluser"], db'["portalsession"])
  BY ONLY <1>1, <1>2
<1>4. QED
  BY <1>1, <1>3 DEF PortalsSound

\* What the rows of the two tables are, the state is.
LEMMA PortalsSoundAgain ==
    ASSUME PortalsSound, NEW users, NEW sessions, PortalRowsSound(users, sessions), DOMAIN db' = DOMAIN db,
           db'["portaluser"] = users, db'["portalsession"] = sessions
    PROVE  PortalsSound'
<1>1. PortalRowsSound(db'["portaluser"], db'["portalsession"])
  BY ONLY PortalRowsSound(users, sessions), db'["portaluser"] = users, db'["portalsession"] = sessions
<1>2. QED
  BY <1>1 DEF PortalsSound

\* The handlers that write them.
PortalWrites(p) ==
    \/ \E kind : \E e \in PortalEmails : CreatePortalUser(p, kind, e)
    \/ IndexPortalUser(p)
    \/ \E u : PortalLogin(p, u)
    \/ \E k : PortalRefresh(p, k) \/ PortalLogout(p, k) \/ ChangePortalPassword(p, k) \/ ResetPortalPassword(p, k)
    \/ \E k, u : EraseRecords(p, k, u)

\* The others leave them alone.
LEMMA PortalWriters ==
    ASSUME ~ Concurrent, NEW p, PortalNext(p) \/ DsarRoutes(p)
    PROVE  PortalWrites(p) \/ Keeps({"portaltoken", "dsar"})
<1>1. PICK names : names = {"portaltoken", "dsar"}
  OBVIOUS
<1>2. ASSUME NEW k, VerifyPublicRequest(p, k) PROVE Keeps(names)
  BY <1>1, <1>2, SerialRows DEF VerifyPublicRequest, Amend, Commit, Keeps
<1>3. ASSUME PortalTokenExpires PROVE Keeps(names)
  BY <1>1, <1>3 DEF PortalTokenExpires, Keeps
<1>4. CASE PortalAuthRoutes(p)
  <2>1. ASSUME NEW u, RequestPortalPasswordReset(p, u) PROVE Keeps(names)
    BY <1>1, <2>1, CreateKeeps DEF RequestPortalPasswordReset
  <2>2. Abandon(p) => Keeps(names)
    BY AbandonKeeps
  <2>3. ASSUME NEW kind, NEW e \in PortalEmails, CreatePortalUser(p, kind, e) PROVE PortalWrites(p)
    BY <2>3 DEF PortalWrites
  <2>4. ASSUME NEW k, \/ PortalLogin(p, k) \/ PortalRefresh(p, k) \/ PortalLogout(p, k)
                      \/ ChangePortalPassword(p, k) \/ ResetPortalPassword(p, k)
        PROVE  PortalWrites(p)
    BY <2>4 DEF PortalWrites
  <2>5. IndexPortalUser(p) => PortalWrites(p)
    BY DEF PortalWrites
  <2>6. QED
    BY ONLY <1>1, <1>4, <2>1, <2>2, <2>3, <2>4, <2>5 DEF PortalAuthRoutes
<1>5. CASE ErasureRoutes(p)
  BY <1>1, <1>5, CreateKeeps DEF ErasureRoutes, PortalWrites
<1>6. CASE DsarRoutes(p)
  BY <1>1, <1>2, <1>6, CreateKeeps, TurnKeeps
  DEF DsarRoutes, SubmitPublicRequest, UpdateDsarRequest, ExportSubjectData, PortalWrites
<1>7. QED
  BY <1>1, <1>3, <1>4, <1>5, <1>6 DEF PortalNext

\* Creating an account, and entering it in the index.
LEMMA PortalsAfterCreation ==
    ASSUME ~ Concurrent, PortalsSound, NEW p,
           (\E kind : \E e \in PortalEmails : CreatePortalUser(p, kind, e)) \/ IndexPortalUser(p)
    PROVE  PortalsSound'
<1>1. PortalRowsSound(db["portaluser"], db["portalsession"]) /\ {"portaluser", "portalsession"} \subseteq DOMAIN db
  BY DEF PortalsSound
<1>2. ASSUME NEW kind, NEW e \in PortalEmails, CreatePortalUser(p, kind, e) PROVE PortalsSound'
  <2>1. db' = [db EXCEPT !["portaluser"] = Append(@, PortalUser(kind, e))]
    BY <1>2, SerialRows DEF CreatePortalUser, CommitThen, Insert
  <2>2. /\ DOMAIN db' = DOMAIN db /\ db'["portaluser"] = Append(db["portaluser"], PortalUser(kind, e))
        /\ db'["portalsession"] = db["portalsession"]
    BY <1>1, <2>1
  <2>3. PortalRowsSound(Append(db["portaluser"], PortalUser(kind, e)), db["portalsession"])
    BY ONLY <1>1, e \in PortalEmails, PortalUserIsMade
  <2>4. QED
    BY <2>2, <2>3, PortalsSoundAgain
<1>3. CASE IndexPortalUser(p)
  <2>1. PICK u : u = req[p].todo[1]
    OBVIOUS
  <2>2. db' = [db EXCEPT !.portaluser[u].indexed = TRUE]
    BY <1>3, <2>1, SerialRows DEF IndexPortalUser, Commit
  <2>3. PICK m : m = [db["portaluser"][u] EXCEPT !.indexed = TRUE]
    OBVIOUS
  <2>4. /\ DOMAIN db' = DOMAIN db /\ db'["portaluser"] = [db["portaluser"] EXCEPT ![u] = m]
        /\ db'["portalsession"] = db["portalsession"]
    BY <1>1, <2>2, <2>3
  <2>5. PICK E : db["portaluser"] \in Seq(PortalUserRows(E))
    BY <1>1 DEF PortalRowsSound
  <2>6. CASE u \in DOMAIN db["portaluser"]
    <3>1. db["portaluser"][u] \in PortalUserRows(E)
      BY <2>5, <2>6, TableRows
    <3>2. /\ m \in PortalUserRows(E) /\ m.email = db["portaluser"][u].email
          /\ m.changedAt = db["portaluser"][u].changedAt /\ m.password = db["portaluser"][u].password
          /\ m.active = db["portaluser"][u].active
      BY ONLY <2>3, <3>1 DEF PortalUserRows
    <3>3. m.email = NoOne => m.password = 0 /\ ~ m.active
      BY <1>1, <2>6, <3>2 DEF PortalRowsSound
    <3>4. PortalRowsSound([db["portaluser"] EXCEPT ![u] = m], db["portalsession"])
      BY ONLY <1>1, <2>6, <3>2, <3>3, PortalUserChanges
    <3>5. QED
      BY <2>4, <3>4, PortalsSoundAgain
  <2>7. CASE u \notin DOMAIN db["portaluser"]
    <3>1. db["portaluser"] \in [1..Len(db["portaluser"]) -> PortalUserRows(E)]
      BY <2>5, LenProperties
    <3>2. db'["portaluser"] = db["portaluser"]
      BY <2>4, <2>7, <3>1
    <3>3. QED
      BY <1>1, <2>4, <3>2, PortalsSoundAgain
  <2>8. QED
    BY <2>6, <2>7
<1>4. QED
  BY <1>2, <1>3

\* Login, refresh, logout.
LEMMA PortalsAfterSession ==
    ASSUME ~ Concurrent, PortalsSound, NEW p, NEW k, PortalLogin(p, k) \/ PortalRefresh(p, k) \/ PortalLogout(p, k)
    PROVE  PortalsSound'
<1>1. PortalRowsSound(db["portaluser"], db["portalsession"]) /\ {"portaluser", "portalsession"} \subseteq DOMAIN db
  BY DEF PortalsSound
<1>2. CASE PortalLogin(p, k)
  <2>1. PICK new : new = PortalSession(k, db["portaluser"][k].changedAt, db["portaluser"][k].password)
    OBVIOUS
  <2>2. /\ k \in DOMAIN db["portaluser"] /\ db["portaluser"][k].active
        /\ db' = [db EXCEPT !["portalsession"] = Append(@, new)]
    BY <1>2, <2>1, SerialRows DEF PortalLogin, Rows, Row, WithPortalSession, Insert, Commit
  <2>3. /\ DOMAIN db' = DOMAIN db /\ db'["portaluser"] = db["portaluser"]
        /\ db'["portalsession"] = Append(db["portalsession"], new)
    BY <1>1, <2>2
  <2>4. PortalRowsSound(db["portaluser"], Append(db["portalsession"], new))
    BY ONLY <1>1, <2>1, <2>2, PortalSessionBegins
  <2>5. QED
    BY <2>3, <2>4, PortalsSoundAgain
<1>3. PICK m : m = [db["portalsession"][k] EXCEPT !.status = "revoked"]
  OBVIOUS
<1>4. PICK kept : kept = [db["portalsession"] EXCEPT ![k] = m]
  OBVIOUS
<1>5. ASSUME k \in DOMAIN db["portalsession"] PROVE PortalRowsSound(db["portaluser"], kept)
  BY ONLY <1>1, <1>3, <1>4, <1>5, PortalSessionEnds
<1>6. CASE PortalRefresh(p, k)
  <2>1. PICK old : old = db["portalsession"][k]
    OBVIOUS
  <2>2. /\ k \in DOMAIN db["portalsession"] /\ PortalClaimHolds(db, k)
        /\ db' = [[db EXCEPT !.portalsession[k].status = "revoked"] EXCEPT
                    !["portalsession"] = Append(@, PortalSession(old.user, old.pwd_ts, old.under))]
    BY <1>6, <2>1, SerialRows DEF PortalRefresh, Insert, Commit
  <2>3. PICK u : u = old.user
    OBVIOUS
  <2>4. /\ u \in DOMAIN db["portaluser"] /\ db["portaluser"][u].active
        /\ old.pwd_ts = db["portaluser"][u].changedAt /\ old.under = db["portaluser"][u].password
    BY <1>1, <2>1, <2>2, <2>3 DEF PortalRowsSound, PortalClaimHolds
  <2>5. PICK new : new = PortalSession(u, db["portaluser"][u].changedAt, db["portaluser"][u].password)
    OBVIOUS
  <2>6. /\ DOMAIN db' = DOMAIN db /\ db'["portaluser"] = db["portaluser"]
        /\ db'["portalsession"] = Append(kept, new)
    BY <1>1, <1>3, <1>4, <2>2, <2>3, <2>4, <2>5
  <2>7. PortalRowsSound(db["portaluser"], kept)
    BY <1>5, <2>2
  <2>8. PortalRowsSound(db["portaluser"], Append(kept, new))
    BY ONLY <2>4, <2>5, <2>7, PortalSessionBegins
  <2>9. QED
    BY <2>6, <2>8, PortalsSoundAgain
<1>7. CASE PortalLogout(p, k)
  <2>1. k \in DOMAIN db["portalsession"] /\ db' = [db EXCEPT !["portalsession"][k].status = "revoked"]
    BY <1>7, SerialRows DEF PortalLogout, Turn, Rows, Commit
  <2>2. /\ DOMAIN db' = DOMAIN db /\ db'["portaluser"] = db["portaluser"] /\ db'["portalsession"] = kept
    BY <1>1, <1>3, <1>4, <2>1
  <2>3. QED
    BY <1>5, <2>1, <2>2, PortalsSoundAgain
<1>8. QED
  BY <1>2, <1>6, <1>7

\* A new password, or none any more.
LEMMA PortalsAfterPassword ==
    ASSUME ~ Concurrent, PortalsSound, NEW p, NEW k,
           ResetPortalPassword(p, k) \/ ChangePortalPassword(p, k) \/ \E u : EraseRecords(p, k, u)
    PROVE  PortalsSound'
<1>1. PortalRowsSound(db["portaluser"], db["portalsession"]) /\ {"portaluser", "portalsession"} \subseteq DOMAIN db
  BY DEF PortalsSound
<1>2. PICK E : db["portaluser"] \in Seq(PortalUserRows(E))
  BY <1>1 DEF PortalRowsSound
<1>3. ASSUME NEW u \in DOMAIN db["portaluser"], NEW m
      PROVE  /\ m = WithNewPortalPassword(db["portaluser"][u]) /\ db["portaluser"][u].active =>
                  /\ PortalRowsSound([db["portaluser"] EXCEPT ![u] = m], db["portalsession"])
                  /\ m.active
             /\ m = ErasePortalUser(db["portaluser"][u]) =>
                  PortalRowsSound([db["portaluser"] EXCEPT ![u] = m], db["portalsession"])
  <2>1. db["portaluser"][u] \in PortalUserRows(E)
    BY <1>2, TableRows
  <2>2. PICK n \in Nat, c \in Nat : n = db["portaluser"][u].password /\ c = db["portaluser"][u].changedAt
    BY <2>1 DEF PortalUserRows
  <2>3. n + 1 \in Nat /\ c + 1 \in Nat
    OBVIOUS
  <2>4. CASE m = WithNewPortalPassword(db["portaluser"][u]) /\ db["portaluser"][u].active
    <3>1. m = [db["portaluser"][u] EXCEPT !.password = n + 1, !.changedAt = c + 1]
      BY <2>2, <2>4 DEF WithNewPortalPassword
    <3>2. /\ m \in PortalUserRows(E) /\ m.email = db["portaluser"][u].email
          /\ m.changedAt = c + 1 /\ m.active = db["portaluser"][u].active
      BY ONLY <2>1, <2>2, <2>3, <3>1 DEF PortalUserRows
    <3>3. m.email # NoOne
      BY <1>1, <2>4, <3>2 DEF PortalRowsSound
    <3>4. PortalRowsSound([db["portaluser"] EXCEPT ![u] = m], db["portalsession"])
      BY ONLY <1>1, u \in DOMAIN db["portaluser"], <2>2, <3>2, <3>3, PortalUserChanges
    <3>5. m # ErasePortalUser(db["portaluser"][u])
      BY <3>3, <2>1 DEF ErasePortalUser, PortalUserRows
    <3>6. QED
      BY <2>4, <3>2, <3>4, <3>5
  <2>5. CASE m = ErasePortalUser(db["portaluser"][u])
    <3>1. m = [db["portaluser"][u] EXCEPT !.email = NoOne, !.password = 0, !.active = FALSE, !.indexed = FALSE,
                                          !.changedAt = c + 1]
      BY <2>2, <2>5 DEF ErasePortalUser
    <3>2. /\ m \in PortalUserRows(E \cup {NoOne}) /\ m.password = 0 /\ m.active = FALSE
          /\ m.changedAt = c + 1
      BY ONLY <2>1, <2>2, <2>3, <3>1 DEF PortalUserRows
    <3>3. PortalRowsSound([db["portaluser"] EXCEPT ![u] = m], db["portalsession"])
      BY ONLY <1>1, u \in DOMAIN db["portaluser"], <2>2, <3>2, PortalUserChanges
    <3>4. QED
      BY <2>4, <3>3
  <2>6. QED
    BY <2>4, <2>5
<1>4. CASE ResetPortalPassword(p, k)
  <2>1. PICK u : u = db["portaltoken"][k].user
    OBVIOUS
  <2>2. /\ db["portaluser"][u].active
        /\ db' = [db EXCEPT !.portaluser[u] = WithNewPortalPassword(@), !.portaltoken[k].status = "used"]
    BY <1>4, <2>1, SerialRows DEF ResetPortalPassword, Commit
  <2>3. PICK m : m = WithNewPortalPassword(db["portaluser"][u])
    OBVIOUS
  <2>4. /\ DOMAIN db' = DOMAIN db /\ db'["portaluser"] = [db["portaluser"] EXCEPT ![u] = m]
        /\ db'["portalsession"] = db["portalsession"]
    BY <1>1, <2>2, <2>3
  <2>5. CASE u \in DOMAIN db["portaluser"]
    BY <1>3, <2>2, <2>3, <2>4, <2>5, PortalsSoundAgain
  <2>6. CASE u \notin DOMAIN db["portaluser"]
    <3>1. db["portaluser"] \in [1..Len(db["portaluser"]) -> PortalUserRows(E)]
      BY <1>2, LenProperties
    <3>2. db'["portaluser"] = db["portaluser"]
      BY <2>4, <2>6, <3>1
    <3>3. QED
      BY <1>1, <2>4, <3>2, PortalsSoundAgain
  <2>7. QED
    BY <2>5, <2>6
<1>5. CASE ChangePortalPassword(p, k)
  <2>1. PICK u : u = db["portalsession"][k].user
    OBVIOUS
  <2>2. PICK s : s = [db EXCEPT !.portaluser[u] = WithNewPortalPassword(@), !.portaltoken = Void(@, u)]
    OBVIOUS
  <2>3. /\ k \in DOMAIN db["portalsession"] /\ PortalClaimHolds(db, k)
        /\ Commit(p, WithPortalSession(s, u))
    BY <1>5, <2>1, <2>2, SerialRows DEF ChangePortalPassword
  <2>4. PICK m : m = WithNewPortalPassword(db["portaluser"][u])
    OBVIOUS
  <2>5. PICK users : users = [db["portaluser"] EXCEPT ![u] = m]
    OBVIOUS
  <2>6. DOMAIN s = DOMAIN db /\ s["portaluser"] = users /\ s["portalsession"] = db["portalsession"]
    BY <1>1, <2>2, <2>4, <2>5
  <2>7. u \in DOMAIN db["portaluser"] /\ db["portaluser"][u].active
    BY <1>1, <2>1, <2>3 DEF PortalRowsSound, PortalClaimHolds
  <2>8. PortalRowsSound(users, db["portalsession"]) /\ m.active
    BY <1>3, <2>4, <2>5, <2>7
  <2>9. u \in DOMAIN users /\ users[u] = m
    BY <2>5, <2>7
  <2>10. PICK new : new = PortalSession(u, users[u].changedAt, users[u].password)
    OBVIOUS
  <2>11. PortalRowsSound(users, Append(db["portalsession"], new))
    BY ONLY <2>8, <2>9, <2>10, PortalSessionBegins
  <2>12. db' = [s EXCEPT !["portalsession"] = Append(@, PortalSession(u, s.portaluser[u].changedAt, s.portaluser[u].password))]
    BY ONLY ~ Concurrent, <2>3, SerialRows DEF Commit, WithPortalSession, Insert
  <2>13. /\ DOMAIN db' = DOMAIN db /\ db'["portaluser"] = users
         /\ db'["portalsession"] = Append(db["portalsession"], new)
    BY <1>1, <2>6, <2>10, <2>12
  <2>14. QED
    BY <2>11, <2>13, PortalsSoundAgain
<1>6. ASSUME NEW u, EraseRecords(p, k, u) PROVE PortalsSound'
  <2>1. PICK m : m = ErasePortalUser(db["portaluser"][u])
    OBVIOUS
  <2>2. u \in DOMAIN db["portaluser"]
    BY <1>6, SerialRows DEF EraseRecords
  <2>3. /\ DOMAIN db' = DOMAIN db /\ db'["portaluser"] = [db["portaluser"] EXCEPT ![u] = m]
        /\ db'["portalsession"] = db["portalsession"]
    <3>1. PICK s : s = [db EXCEPT !.dsar[k].status = "in_progress", !.portaluser[u] = ErasePortalUser(@),
                                  !.portaltoken = IF db.portaluser[u].kind = "clp" THEN @ ELSE Void(@, u)]
      OBVIOUS
    <3>2. DOMAIN s = DOMAIN db /\ s["portaluser"] = [db["portaluser"] EXCEPT ![u] = m] /\ s["portalsession"] = db["portalsession"]
      BY <1>1, <2>1, <3>1
    <3>3. Commit(p, s)
      <4>1. Seen(p) = db
        BY SerialRows
      <4>2. s = [Seen(p) EXCEPT !.dsar[k].status = "in_progress", !.portaluser[u] = ErasePortalUser(@),
                                !.portaltoken = IF Seen(p).portaluser[u].kind = "clp" THEN @ ELSE Void(@, u)]
        BY ONLY <3>1, <4>1
      <4>3. QED
        BY ONLY <1>6, <4>2, Zenon DEF EraseRecords
    <3>4. db' = s
      BY ONLY ~ Concurrent, <3>3, SerialRows DEF Commit
    <3>5. QED
      BY <3>2, <3>4
  <2>4. QED
    BY <1>3, <2>1, <2>2, <2>3, PortalsSoundAgain
<1>7. QED
  BY <1>4, <1>5, <1>6

\* Whatever handler serves somebody from outside, or a request to be forgotten.
LEMMA PortalsStaySound ==
    ASSUME ~ Concurrent, PortalsSound, NEW p, PortalNext(p) \/ DsarRoutes(p)
    PROVE  PortalsSound'
<1>1. CASE PortalWrites(p)
  <2>1. ASSUME (\E kind : \E e \in PortalEmails : CreatePortalUser(p, kind, e)) \/ IndexPortalUser(p) PROVE PortalsSound'
    BY <2>1, PortalsAfterCreation
  <2>2. ASSUME NEW k, PortalLogin(p, k) \/ PortalRefresh(p, k) \/ PortalLogout(p, k) PROVE PortalsSound'
    BY <2>2, PortalsAfterSession
  <2>3. ASSUME NEW k, ResetPortalPassword(p, k) \/ ChangePortalPassword(p, k) \/ \E u : EraseRecords(p, k, u)
        PROVE  PortalsSound'
    BY <2>3, PortalsAfterPassword
  <2>4. QED
    BY ONLY <1>1, <2>1, <2>2, <2>3 DEF PortalWrites
<1>2. CASE Keeps({"portaltoken", "dsar"})
  BY <1>2, PortalsLeftAlone
<1>3. QED
  BY <1>1, <1>2, PortalWriters

-----------------------------------------------------------------------------
(* Batches from field devices *)

\* Of some of the numbers up to one there is a greatest.
LEMMA GreatestOfSome ==
    ASSUME NEW n \in Nat, NEW s \in SUBSET (1..n), s # {}
    PROVE  Max(s) \in s /\ \A y \in s : Max(s) >= y
<1> DEFINE HasMax(m) == \A r \in SUBSET (1..m) : r # {} => \E x \in r : \A y \in r : x >= y
           N == {m \in Nat : HasMax(m)}
<1>1. 0 \in N
  <2>1. 1..0 = {}
    OBVIOUS
  <2>2. QED
    BY <2>1
<1>2. ASSUME NEW m \in Nat, m \in N PROVE m + 1 \in N
  <2> SUFFICES ASSUME NEW r \in SUBSET (1..(m + 1)), r # {} PROVE \E x \in r : \A y \in r : x >= y
    OBVIOUS
  <2>1. CASE m + 1 \in r
    BY <2>1
  <2>2. CASE m + 1 \notin r
    <3>1. r \in SUBSET (1..m)
      BY <2>2
    <3>2. QED
      BY <1>2, <3>1
  <2>3. QED
    BY <2>1, <2>2
<1>3. n \in N
  <2> HIDE DEF N
  <2>1. Nat \subseteq N
    BY <1>1, <1>2, NatSetInduction
  <2>2. QED
    BY <2>1
<1>4. \E x \in s : \A y \in s : x >= y
  BY <1>3
<1>5. QED
  BY <1>4 DEF Max

\* The states after some of the entries of a batch have been taken in.
IsTaking(g, s0, batch) ==
    g = [s \in SUBSET DOMAIN batch |-> IF s = {} THEN s0 ELSE Accept(g[s \ {Max(s)}], batch[Max(s)])]

\* There are such states, whatever the batch.
LEMMA TakingExists ==
    ASSUME NEW n \in Nat, NEW batch, DOMAIN batch = 1..n, NEW s0
    PROVE  \E g : IsTaking(g, s0, batch)
<1> DEFINE D == 1..n
           Next1(g, s) == IF s = {} THEN s0 ELSE Accept(g[s \ {Max(s)}], batch[Max(s)])
           UpTo(g, m) == \A s \in SUBSET D : Cardinality(s) <= m => g[s] = Next1(g, s)
           N == {m \in Nat : \E g : UpTo(g, m)}
<1>1. IsFiniteSet(D)
  BY FS_Interval
<1>2. ASSUME NEW s \in SUBSET D
      PROVE  /\ IsFiniteSet(s) /\ Cardinality(s) \in Nat
             /\ s # {} => /\ s \ {Max(s)} \in SUBSET D
                          /\ Cardinality(s) # 0
                          /\ Cardinality(s \ {Max(s)}) = Cardinality(s) - 1
  <2>1. IsFiniteSet(s) /\ Cardinality(s) \in Nat
    BY <1>1, FS_Subset, FS_CardinalityType
  <2>2. ASSUME s # {} PROVE Max(s) \in s
    BY <2>2, GreatestOfSome
  <2>3. s # {} => Cardinality(s) # 0
    BY <2>1, FS_EmptySet
  <2>4. ASSUME s # {} PROVE Cardinality(s \ {Max(s)}) = Cardinality(s) - 1
    BY <2>1, <2>2, <2>4, FS_RemoveElement
  <2>5. QED
    BY <2>1, <2>3, <2>4
<1>3. 0 \in N
  <2> DEFINE g == [s \in SUBSET D |-> s0]
  <2>1. ASSUME NEW s \in SUBSET D, Cardinality(s) <= 0 PROVE s = {}
    <3>1. Cardinality(s) \in Nat /\ (s # {} => Cardinality(s) # 0)
      BY <1>2
    <3>2. QED
      BY <2>1, <3>1
  <2>2. UpTo(g, 0)
    BY <2>1
  <2>3. QED
    BY <2>2
<1>4. ASSUME NEW m \in Nat, m \in N PROVE m + 1 \in N
  <2>1. PICK g : UpTo(g, m)
    BY <1>4
  <2> DEFINE h == [s \in SUBSET D |-> IF Cardinality(s) <= m THEN g[s] ELSE Next1(g, s)]
  <2>2. ASSUME NEW s \in SUBSET D, Cardinality(s) <= m + 1
        PROVE  h[s] = Next1(h, s)
    <3>1. h[s] = Next1(g, s)
      BY <2>1
    <3>2. CASE s = {}
      BY <3>1, <3>2
    <3>3. CASE s # {}
      <4> DEFINE r == s \ {Max(s)}
      <4>0. r \in SUBSET D /\ Cardinality(r) = Cardinality(s) - 1 /\ Cardinality(s) \in Nat
        BY <1>2, <3>3
      <4>1. r \in SUBSET D /\ Cardinality(r) <= m
        BY <2>2, <4>0
      <4>2. h[r] = g[r]
        BY <4>1
      <4>3. QED
        BY <3>1, <3>3, <4>2
    <3>4. QED
      BY <3>2, <3>3
  <2>3. \E k : UpTo(k, m + 1)
    <3>1. UpTo(h, m + 1)
      BY <2>2
    <3> HIDE DEF h, UpTo
    <3>2. QED
      BY <3>1
  <2>4. QED
    <3> HIDE DEF UpTo
    <3>1. m + 1 \in Nat
      OBVIOUS
    <3>2. QED
      BY <2>3, <3>1
<1>5. Nat \subseteq N
  <2> HIDE DEF N
  <2>1. QED
    BY <1>3, <1>4, NatSetInduction
<1>6. Cardinality(D) \in Nat
  BY <1>1, FS_CardinalityType
<1>7. PICK g : UpTo(g, Cardinality(D))
  BY <1>5, <1>6
<1>8. ASSUME NEW s \in SUBSET D PROVE g[s] = Next1(g, s)
  <2>1. Cardinality(s) <= Cardinality(D)
    BY <1>1, FS_Subset
  <2>2. QED
    BY <1>7, <2>1
<1> DEFINE h == [s \in SUBSET D |-> g[s]]
<1>9. ASSUME NEW s \in SUBSET D PROVE h[s] = Next1(h, s)
  <2>1. CASE s = {}
    BY <1>8, <2>1
  <2>2. CASE s # {}
    <3>1. s \ {Max(s)} \in SUBSET D
      OBVIOUS
    <3>2. QED
      BY <1>8, <2>2, <3>1
  <2>3. QED
    BY <2>1, <2>2
<1>10. IsTaking(h, s0, batch)
  BY <1>9 DEF IsTaking
<1>11. QED
  BY <1>10

\* What the server makes of a batch is the last of them.
LEMMA BatchIsTaken ==
    ASSUME NEW n \in Nat, NEW batch, DOMAIN batch = 1..n, NEW s0
    PROVE  \E g : IsTaking(g, s0, batch) /\ FoldLeft(Accept, s0, batch) = g[DOMAIN batch]
<1> DEFINE g == CHOOSE f : IsTaking(f, s0, batch)
<1>1. IsTaking(g, s0, batch)
  BY TakingExists
<1>2. FoldLeft(Accept, s0, batch) = g[DOMAIN batch]
  BY DEF FoldLeft, MapThenFoldSet, IsTaking
<1>3. QED
  BY <1>1, <1>2

\* What the server may have after some of a batch.
MayHave(s) ==
    /\ DOMAIN s = DOMAIN db
    /\ \A t \in DOMAIN db \ {"diary", "sync", "conflict", "report"} : s[t] = db[t]

\* A batch writes no more than that.
LEMMA BatchKeeps ==
    ASSUME NEW n \in Nat, NEW batch, DOMAIN batch = 1..n
    PROVE  MayHave(FoldLeft(Accept, db, batch))
<1>1. PICK g : IsTaking(g, db, batch) /\ FoldLeft(Accept, db, batch) = g[DOMAIN batch]
  BY BatchIsTaken
<1>2. ASSUME NEW s, MayHave(s), NEW r PROVE MayHave(Accept(s, r))
  BY <1>2 DEF MayHave, Accept, Applied, Insert
<1> DEFINE N == {m \in Nat : \A s \in SUBSET (1..n) : Cardinality(s) = m => MayHave(g[s])}
<1>3. IsFiniteSet(1..n)
  BY FS_Interval
<1>4. ASSUME NEW s \in SUBSET (1..n)
      PROVE  /\ IsFiniteSet(s) /\ Cardinality(s) \in Nat
             /\ g[s] = IF s = {} THEN db ELSE Accept(g[s \ {Max(s)}], batch[Max(s)])
  <2>1. IsFiniteSet(s) /\ Cardinality(s) \in Nat
    BY <1>3, FS_Subset, FS_CardinalityType
  <2>2. QED
    BY <1>1, <2>1 DEF IsTaking
<1>5. 0 \in N
  <2>1. ASSUME NEW s \in SUBSET (1..n), Cardinality(s) = 0 PROVE MayHave(g[s])
    <3>1. s = {}
      BY <1>4, <2>1, FS_EmptySet
    <3>2. MayHave(db)
      BY DEF MayHave
    <3>3. QED
      BY <1>4, <3>1, <3>2
  <2>2. QED
    BY <2>1
<1>6. ASSUME NEW m \in Nat, m \in N PROVE m + 1 \in N
  <2>1. ASSUME NEW s \in SUBSET (1..n), Cardinality(s) = m + 1 PROVE MayHave(g[s])
    <3>1. s # {} /\ IsFiniteSet(s)
      <4>1. IsFiniteSet(s)
        BY <1>4
      <4>2. m + 1 # 0
        OBVIOUS
      <4>3. QED
        BY ONLY <2>1, <4>1, <4>2, FS_EmptySet
    <3>2. Max(s) \in s
      BY <3>1, GreatestOfSome
    <3>3. Cardinality(s \ {Max(s)}) = m
      <4>1. Cardinality(s \ {Max(s)}) = Cardinality(s) - 1
        BY ONLY <3>1, <3>2, FS_RemoveElement
      <4>2. (m + 1) - 1 = m
        OBVIOUS
      <4>3. QED
        BY ONLY <2>1, <4>1, <4>2
    <3>4. MayHave(g[s \ {Max(s)}])
      BY <1>6, <3>3
    <3>5. g[s] = Accept(g[s \ {Max(s)}], batch[Max(s)])
      BY <1>4, <3>1
    <3>6. QED
      BY <1>2, <3>4, <3>5
  <2>2. QED
    BY <2>1
<1>7. Cardinality(1..n) \in N
  <2>1. Nat \subseteq N
    <3> HIDE DEF N
    <3>1. QED
      BY <1>5, <1>6, NatSetInduction
  <2>2. Cardinality(1..n) \in Nat
    BY <1>3, FS_CardinalityType
  <2>3. QED
    BY <2>1, <2>2
<1>8. QED
  BY <1>1, <1>7

\* The site's diaries and what devices send.
LEMMA FieldKeeps ==
    ASSUME ~ Concurrent, NEW p, FieldNext(p)
    PROVE  Keeps({"diary", "sync", "conflict", "report", "fieldasset"})
<1>1. PICK names : names = {"diary", "sync", "conflict", "report", "fieldasset"}
  OBVIOUS
<1>2. ASSUME NEW k, NEW text, UpdateDiary(p, k, text) \/ CountersignDiary(p, k) PROVE Keeps(names)
  BY <1>1, <1>2, SerialRows DEF UpdateDiary, CountersignDiary, Amend, Commit, Keeps
<1>3. ASSUME NEW r, NEW q, SubmitSyncBatch(p, <<r, q>>) PROVE Keeps(names)
  <2>1. PICK batch : batch = <<r, q>>
    OBVIOUS
  <2>2. DOMAIN batch = 1..2
    BY <2>1
  <2>3. db' = FoldLeft(Accept, db, batch)
    BY <1>3, <2>1, SerialRows DEF SubmitSyncBatch, Commit
  <2>4. QED
    BY <1>1, <2>2, <2>3, BatchKeeps DEF MayHave, Keeps
<1>4. CASE DiaryRoutes(p)
  <2>1. ASSUME NEW day, CreateDiary(p, day) PROVE Keeps(names)
    BY <1>1, <2>1, CreateKeeps DEF CreateDiary
  <2>2. ASSUME NEW k, SignDiary(p, k) PROVE Keeps(names)
    BY <1>1, <2>2, TurnKeeps DEF SignDiary
  <2>3. QED
    BY ONLY <1>1, <1>2, <1>4, <2>1, <2>2 DEF DiaryRoutes
<1>5. CASE SyncRoutes(p)
  <2>1. ASSUME NEW k, ResolveConflict(p, k) PROVE Keeps(names)
    BY <1>1, <2>1, TurnKeeps DEF ResolveConflict
  <2>2. ASSUME Create(p, "fieldasset", [kind |-> "asset"]) PROVE Keeps(names)
    BY <1>1, <2>2, CreateKeeps
  <2>3. QED
    BY ONLY <1>1, <1>3, <1>5, <2>1, <2>2 DEF SyncRoutes
<1>6. QED
  BY <1>1, <1>4, <1>5 DEF FieldNext

-----------------------------------------------------------------------------
(* The device *)

\* Entries are queued in order; a sync's chunk and what is left of its entries are
\* sequences of them, and so is what is under way.
DeviceTyped ==
    /\ "queue" \in DOMAIN phone /\ \E R : phone["queue"] \in Seq(R)
    /\ DOMAIN run = Syncs
    /\ \A t \in Syncs :
         run[t].at \in {"marking", "sent", "served", "answered", "marked", "failing"} =>
            run[t].chunk \in Seq(Nat) /\ run[t].left \in Seq(Nat)
    /\ \A batch \in late : \E n \in Nat : DOMAIN batch = 1..n

\* The entries that are pending are such a sequence.
LEMMA PendingEntriesAreInOrder ==
    ASSUME DeviceTyped
    PROVE  PendingEntries \in Seq(Nat) /\ PendingEntries \in Seq(DOMAIN phone["queue"])
<1>1. PICK R : phone["queue"] \in Seq(R)
  BY DEF DeviceTyped
<1>2. PICK n \in Nat : DOMAIN phone["queue"] = 1..n
  BY <1>1, TableRows
<1>3. PICK pending : pending = {k \in DOMAIN phone.queue : phone.queue[k].status = "pending"}
  OBVIOUS
<1>4. pending \in SUBSET (1..n)
  BY <1>2, <1>3
<1>5. /\ Cardinality(pending) \in Nat
      /\ \A i \in 1..Cardinality(pending) : \E k \in pending : Cardinality({j \in pending : j < k}) = i - 1
  BY <1>4, EveryPlaceIsTaken
<1> DEFINE Entry(i) == CHOOSE k \in pending : Cardinality({j \in pending : j < k}) = i - 1
<1>6. \A i \in 1..Cardinality(pending) : Entry(i) \in pending
  BY <1>5
<1>7. PendingEntries = [i \in 1..Cardinality(pending) |-> Entry(i)]
  BY <1>3 DEF PendingEntries
<1> HIDE DEF Entry
<1>8. PICK c \in Nat : c = Cardinality(pending)
  BY <1>5
<1>9. \A i \in 1..c : Entry(i) \in pending
  BY ONLY <1>6, <1>8
<1>10. PendingEntries = [i \in 1..c |-> Entry(i)]
  BY <1>7, <1>8
<1>11. ASSUME NEW S, pending \subseteq S PROVE PendingEntries \in Seq(S)
  <2>1. [i \in 1..c |-> Entry(i)] \in [1..c -> S]
    BY ONLY <1>9, <1>11
  <2>2. \A f, d : d \in Nat /\ f \in [1..d -> S] => f \in Seq(S)
    OBVIOUS
  <2>3. QED
    BY ONLY <1>8, <1>10, <2>1, <2>2
<1>12. pending \subseteq Nat /\ pending \subseteq DOMAIN phone["queue"]
  BY <1>3, <1>4
<1>13. QED
  BY <1>11, <1>12

\* A sync that goes on has a chunk of what was left, or is over.
LEMMA NextChunkIsOfEntries ==
    ASSUME NEW t, NEW left \in Seq(Nat), NEW r, r = NextChunk(t, left)
    PROVE  r.at \in {"marking", "sent", "served", "answered", "marked", "failing"} =>
              r.chunk \in Seq(Nat) /\ r.left \in Seq(Nat)
<1>1. CASE left = <<>>
  BY <1>1 DEF NextChunk, Over, Asleep
<1>2. CASE left # <<>>
  <2>1. PICK n : n = Min({BatchSize, Len(left)})
    OBVIOUS
  <2>2. Len(left) \in Nat /\ \A i \in 1..Len(left) : left[i] \in Nat
    BY TableRows
  <2>3. n \in Nat /\ n <= Len(left)
    BY <2>1, <2>2, FieldSyncAssumption DEF Min
  <2>4. SubSeq(left, 1, n) \in Seq(Nat)
    <3>1. 1 \in Int /\ n \in Int /\ \A i \in 1..n : left[i] \in Nat
      BY <2>2, <2>3
    <3>2. QED
      BY <3>1, SubSeqProperties
  <2>5. SubSeq(left, n + 1, Len(left)) \in Seq(Nat)
    <3>1. n + 1 \in Int /\ Len(left) \in Int /\ \A i \in (n + 1)..Len(left) : left[i] \in Nat
      BY <2>2, <2>3
    <3>2. QED
      BY <3>1, SubSeqProperties
  <2>6. r = [at |-> "marking", chunk |-> SubSeq(left, 1, n), n |-> 1, left |-> SubSeq(left, n + 1, Len(left))]
    BY <1>2, <2>1 DEF NextChunk
  <2>7. QED
    BY <2>4, <2>5, <2>6
<1>3. QED
  BY <1>1, <1>2

\* One sync is elsewhere.
LEMMA DeviceAfterStep ==
    ASSUME DeviceTyped, NEW t \in Syncs, NEW r, run' = [run EXCEPT ![t] = r],
           r.at \in {"marking", "sent", "served", "answered", "marked", "failing"} =>
              r.chunk \in Seq(Nat) /\ r.left \in Seq(Nat),
           "queue" \in DOMAIN phone' /\ \E R : phone'["queue"] \in Seq(R),
           \A batch \in late' : \E n \in Nat : DOMAIN batch = 1..n
    PROVE  DeviceTyped'
<1>1. DOMAIN run' = Syncs /\ run'[t] = r /\ \A s \in Syncs \ {t} : run'[s] = run[s]
  BY DEF DeviceTyped
<1>2. \A s \in Syncs : run'[s].at \in {"marking", "sent", "served", "answered", "marked", "failing"} =>
            run'[s].chunk \in Seq(Nat) /\ run'[s].left \in Seq(Nat)
  BY <1>1 DEF DeviceTyped
<1>3. QED
  BY <1>1, <1>2 DEF DeviceTyped

\* An entry is marked.
LEMMA QueueAfterMark ==
    ASSUME DeviceTyped, NEW k, NEW status, Mark(k, status)
    PROVE  "queue" \in DOMAIN phone' /\ \E R : phone'["queue"] \in Seq(R)
<1>1. PICK R : phone["queue"] \in Seq(R)
  BY DEF DeviceTyped
<1>2. PICK m : m = [phone["queue"][k] EXCEPT !.status = status]
  OBVIOUS
<1>3. "queue" \in DOMAIN phone' /\ phone'["queue"] = [phone["queue"] EXCEPT ![k] = m]
  BY <1>2 DEF Mark, DeviceTyped
<1>4. PICK S : S = R \cup {m}
  OBVIOUS
<1>5. phone["queue"] \in Seq(S) /\ m \in S
  BY <1>1, <1>4
<1>6. phone["queue"] \in [1..Len(phone["queue"]) -> S]
  BY <1>5, LenProperties
<1>7. phone'["queue"] \in Seq(S)
  <2>1. CASE k \in DOMAIN phone["queue"]
    BY ONLY <1>3, <1>5, <2>1, TableUpdate
  <2>2. CASE k \notin DOMAIN phone["queue"]
    <3>1. phone'["queue"] = phone["queue"]
      BY <1>3, <1>6, <2>2
    <3>2. QED
      BY <1>5, <3>1
  <2>3. QED
    BY <2>1, <2>2
<1>8. QED
  BY <1>3, <1>7

\* What is sent of a chunk is as long.
LEMMA RecordsAreAsMany ==
    ASSUME NEW chunk \in Seq(Nat)
    PROVE  \E n \in Nat : DOMAIN RecordsOf(chunk) = 1..n
  BY TableRows DEF RecordsOf

\* Every step of the device, and of the network under it, keeps it so.
LEMMA DeviceStaysTyped ==
    ASSUME DeviceTyped, NEW p, DeviceNext(p)
    PROVE  DeviceTyped'
<1> DEFINE Kept == "queue" \in DOMAIN phone /\ \E R : phone["queue"] \in Seq(R)
           Flying == \A batch \in late : \E n \in Nat : DOMAIN batch = 1..n
           InHands == {"marking", "sent", "served", "answered", "marked", "failing"}
           Fine(r) == r.at \in InHands => r.chunk \in Seq(Nat) /\ r.left \in Seq(Nat)
<1>1. Kept /\ Flying /\ \A t \in Syncs : Fine(run[t])
  BY DEF DeviceTyped
<1>2. ASSUME NEW t \in Syncs, NEW r, Go(t, r), Fine(r), Kept', Flying' PROVE DeviceTyped'
  BY <1>2, DeviceAfterStep DEF Go
<1>3. ASSUME UNCHANGED phone PROVE Kept'
  BY <1>1, <1>3
<1>4. ASSUME UNCHANGED late PROVE Flying'
  BY <1>1, <1>4
<1>5. ASSUME NEW k, NEW status, Mark(k, status) PROVE Kept'
  BY <1>5, QueueAfterMark
<1>6. "save" \in Syncs /\ "button" \in Syncs
  BY DEF Syncs
<1>7. Fine(Asleep) /\ \A t : Fine(Over(t))
  BY DEF Asleep, Over
<1>8. \A t, left : left \in Seq(Nat) => Fine(NextChunk(t, left))
  BY NextChunkIsOfEntries
<1>9. ASSUME NEW r, Fine(r), r.at \in InHands
      PROVE  /\ \A a : Fine([r EXCEPT !.at = a])
             /\ \A a, n : Fine([r EXCEPT !.at = a, !.n = n])
             /\ \A n : Fine([r EXCEPT !.n = n])
  BY <1>9
<1> HIDE DEF Kept, Flying, Fine
<1>10. ASSUME NEW r, HandleSave(r) PROVE DeviceTyped'
  <2>1. Kept'
    BY <1>1, <1>10 DEF HandleSave, Kept
  <2>2. Fine([at |-> "saved", record |-> r])
    BY DEF Fine
  <2>3. QED
    BY <1>2, <1>4, <1>6, <1>10, <2>1, <2>2 DEF HandleSave
<1>11. CASE InsertSyncQueueEntry
  <2>1. PICK R : phone["queue"] \in Seq(R) /\ "queue" \in DOMAIN phone
    BY <1>1 DEF Kept
  <2>2. PICK m : m = LocalSyncQueueEntry(run["save"].record)
    OBVIOUS
  <2>3. phone'["queue"] = Append(phone["queue"], m) /\ "queue" \in DOMAIN phone'
    BY <1>11, <2>1, <2>2 DEF InsertSyncQueueEntry
  <2>4. phone["queue"] \in Seq(R \cup {m}) /\ m \in R \cup {m}
    BY <2>1
  <2>5. Append(phone["queue"], m) \in Seq(R \cup {m})
    BY ONLY <2>4, TableInsert
  <2>6. Kept'
    BY <2>3, <2>5 DEF Kept
  <2>7. Fine([at |-> "begin"])
    BY DEF Fine
  <2>8. QED
    BY <1>2, <1>4, <1>6, <1>11, <2>6, <2>7 DEF InsertSyncQueueEntry
<1>12. CASE HandleManualSync
  <2>1. Fine([at |-> "begin"])
    BY DEF Fine
  <2>2. QED
    BY <1>2, <1>3, <1>4, <1>6, <1>12, <2>1 DEF HandleManualSync
<1>13. ASSUME NEW t \in Syncs, NEW online, RunSync(t, online) PROVE DeviceTyped'
  <2>1. Fine(NextChunk(t, PendingEntries))
    BY <1>8, PendingEntriesAreInOrder
  <2>2. QED
    BY <1>2, <1>3, <1>4, <1>7, <1>13, <2>1 DEF RunSync
<1>14. ASSUME NEW t \in Syncs, MarkSyncing(t) PROVE DeviceTyped'
  <2>1. run[t].at \in InHands /\ Fine(run[t])
    BY <1>1, <1>14 DEF MarkSyncing
  <2>2. PICK r : Go(t, r) /\ Fine(r)
    <3>1. CASE run[t].n < Len(run[t].chunk)
      BY <1>9, <1>14, <2>1, <3>1 DEF MarkSyncing
    <3>2. CASE ~ run[t].n < Len(run[t].chunk)
      BY <1>9, <1>14, <2>1, <3>2 DEF MarkSyncing
    <3>3. QED
      BY <3>1, <3>2
  <2>3. Kept' /\ Flying'
    BY <1>4, <1>5, <1>14 DEF MarkSyncing
  <2>4. QED
    BY <1>2, <2>2, <2>3
<1>15. ASSUME NEW t \in Syncs, Deliver(p, t) \/ GetAnswer(t) PROVE DeviceTyped'
  <2>1. run[t].at \in InHands /\ Fine(run[t])
    BY <1>1, <1>15 DEF Deliver, GetAnswer
  <2>2. PICK r : Go(t, r) /\ Fine(r)
    BY <1>9, <1>15, <2>1 DEF Deliver, GetAnswer
  <2>3. Kept' /\ Flying'
    BY <1>3, <1>4, <1>15 DEF Deliver, GetAnswer
  <2>4. QED
    BY <1>2, <2>2, <2>3
<1>16. ASSUME NEW t \in Syncs, NEW underWay, Fail(t, underWay) PROVE DeviceTyped'
  <2>1. run[t].at \in InHands /\ Fine(run[t])
    BY <1>1, <1>16 DEF Fail
  <2>2. PICK r : Go(t, r) /\ Fine(r)
    BY <1>9, <1>16, <2>1 DEF Fail
  <2>3. run[t].chunk \in Seq(Nat)
    BY <2>1 DEF Fine
  <2>4. Kept'
    BY <1>3, <1>16 DEF Fail
  <2>5. late' \subseteq late \cup {RecordsOf(run[t].chunk)}
    BY <1>16 DEF Fail
  <2>6. Flying'
    BY <1>1, <2>3, <2>5, RecordsAreAsMany DEF Flying
  <2>7. QED
    BY <1>2, <2>2, <2>4, <2>6
<1>17. ASSUME NEW t \in Syncs, PutBack(t) PROVE DeviceTyped'
  <2>1. run[t].at \in InHands /\ Fine(run[t])
    BY <1>1, <1>17 DEF PutBack
  <2>2. run[t].chunk \in Seq(Nat) /\ run[t].left \in Seq(Nat)
    BY <2>1 DEF Fine
  <2>3. PICK r : Go(t, r) /\ Fine(r)
    <3>1. CASE Len(run[t].chunk) > 1
      <4>1. run[t].chunk # <<>>
        BY <3>1
      <4>2. Tail(run[t].chunk) \in Seq(Nat)
        BY ONLY <2>2, <4>1, HeadTailProperties
      <4>3. Fine([run[t] EXCEPT !.chunk = Tail(run[t].chunk)])
        BY <2>2, <4>2 DEF Fine
      <4>4. QED
        BY <1>17, <3>1, <4>3 DEF PutBack
    <3>2. CASE ~ Len(run[t].chunk) > 1
      BY <1>8, <1>17, <2>2, <3>2 DEF PutBack
    <3>3. QED
      BY <3>1, <3>2
  <2>4. Kept' /\ Flying'
    BY <1>4, <1>5, <1>17 DEF PutBack
  <2>5. QED
    BY <1>2, <2>3, <2>4
<1>18. ASSUME NEW t \in Syncs, run[t].at \in InHands PROVE Fine(NextResult(t))
  <2>1. Fine(run[t])
    BY <1>1
  <2>2. run[t].left \in Seq(Nat)
    BY <1>18, <2>1 DEF Fine
  <2>3. QED
    BY <1>8, <1>9, <1>18, <2>1, <2>2 DEF NextResult
<1>19. ASSUME NEW t \in Syncs, TakeResult(t) PROVE DeviceTyped'
  <2>1. run[t].at \in InHands /\ Fine(run[t])
    BY <1>1, <1>19 DEF TakeResult
  <2>2. Fine(NextResult(t)) /\ Fine([run[t] EXCEPT !.at = "marked"])
    BY <1>9, <1>18, <2>1
  <2>3. PICK k, status, r : Mark(k, status) /\ Go(t, r) /\ (r = NextResult(t) \/ r = [run[t] EXCEPT !.at = "marked"])
    BY <1>19 DEF TakeResult
  <2>4. Kept' /\ Flying'
    BY <1>4, <1>5, <1>19, <2>3 DEF TakeResult
  <2>5. QED
    BY <1>2, <2>2, <2>3, <2>4
<1>20. ASSUME NEW t \in Syncs, MarkDiarySynced(t) PROVE DeviceTyped'
  <2>1. run[t].at \in InHands
    BY <1>20 DEF MarkDiarySynced
  <2>2. Fine(NextResult(t))
    BY <1>18, <2>1
  <2>3. Kept'
    BY <1>1, <1>20 DEF MarkDiarySynced, Kept
  <2>4. QED
    BY <1>2, <1>4, <1>20, <2>2, <2>3 DEF MarkDiarySynced
<1>21. ASSUME NEW batch, DeliverLate(p, batch) PROVE DeviceTyped'
  <2>1. phone' = phone /\ run' = run /\ lost' = lost /\ late' = late \ {batch}
    BY <1>21 DEF DeliverLate
  <2>2. QED
    BY ONLY DeviceTyped, <2>1 DEF DeviceTyped
<1>22. CASE RefreshConflicts
  <2>1. Kept'
    BY <1>1, <1>22 DEF RefreshConflicts, Kept
  <2>2. QED
    BY <1>2, <1>4, <1>6, <1>7, <1>22, <2>1 DEF RefreshConflicts
<1>23. ASSUME NEW next \in {Asleep, [at |-> "stuck"]}, MissConflicts(next) PROVE DeviceTyped'
  <2>1. Fine(next)
    <3>1. Fine([at |-> "stuck"])
      BY DEF Fine
    <3>2. QED
      BY <1>7, <1>23, <3>1
  <2>2. QED
    BY <1>2, <1>3, <1>4, <1>6, <1>23, <2>1 DEF MissConflicts
<1>24. CASE Kill
  <2>1. PICK flying : /\ flying \subseteq {RecordsOf(run[t].chunk) : t \in {s \in Syncs : run[s].at = "sent"}}
                      /\ late' = late \cup flying
    BY <1>24 DEF Kill
  <2>2. ASSUME NEW t \in Syncs, run[t].at = "sent" PROVE run[t].chunk \in Seq(Nat)
    BY <1>1, <2>2 DEF Fine
  <2>3. \A batch \in late' : \E n \in Nat : DOMAIN batch = 1..n
    BY <1>1, <2>1, <2>2, RecordsAreAsMany DEF Flying
  <2>4. phone' = phone /\ run' = [t \in Syncs |-> Asleep]
    BY <1>24 DEF Kill
  <2>5. QED
    BY <2>3, <2>4 DEF DeviceTyped, Asleep
<1>25. ASSUME UNCHANGED fieldVars PROVE DeviceTyped'
  BY <1>25 DEF fieldVars, DeviceTyped
<1>26. QED
  BY <1>10, <1>11, <1>12, <1>13, <1>14, <1>15, <1>16, <1>17, <1>19, <1>20, <1>21, <1>22, <1>23, <1>24, <1>25
  DEF DeviceNext

\* Which tables a step of the device writes: those that the server's part of it does.
LEMMA DeviceKeeps ==
    ASSUME ~ Concurrent, DeviceTyped, NEW p, DeviceNext(p)
    PROVE  Keeps({"diary", "sync", "conflict", "report"})
<1>1. PICK names : names = {"diary", "sync", "conflict", "report"}
  OBVIOUS
<1>2. ASSUME UNCHANGED vars PROVE Keeps(names)
  BY <1>2 DEF vars, Keeps
<1>3. ASSUME NEW n \in Nat, NEW batch, DOMAIN batch = 1..n, SubmitSyncBatch(p, batch) PROVE Keeps(names)
  <2>1. db' = FoldLeft(Accept, db, batch)
    BY <1>3, SerialRows DEF SubmitSyncBatch, Commit
  <2>2. QED
    BY <1>1, <1>3, <2>1, BatchKeeps DEF MayHave, Keeps
<1>4. ASSUME NEW r, HandleSave(r) PROVE Keeps(names)
  BY <1>2, <1>4 DEF HandleSave
<1>5. ASSUME NEW t \in Syncs, NEW online, RunSync(t, online) PROVE Keeps(names)
  BY <1>2, <1>5 DEF RunSync
<1>6. ASSUME NEW t \in Syncs, MarkSyncing(t) \/ PutBack(t) \/ GetAnswer(t) \/ TakeResult(t) \/ MarkDiarySynced(t)
      PROVE  Keeps(names)
  BY <1>2, <1>6 DEF MarkSyncing, PutBack, GetAnswer, TakeResult, MarkDiarySynced
<1>7. ASSUME NEW t \in Syncs, Deliver(p, t) PROVE Keeps(names)
  <2>1. run[t].chunk \in Seq(Nat)
    BY <1>7 DEF Deliver, DeviceTyped
  <2>2. PICK n \in Nat : DOMAIN RecordsOf(run[t].chunk) = 1..n
    BY <2>1, RecordsAreAsMany
  <2>3. QED
    BY <1>3, <1>7, <2>2 DEF Deliver
<1>8. ASSUME NEW t \in Syncs, NEW underWay, Fail(t, underWay) PROVE Keeps(names)
  BY <1>2, <1>8 DEF Fail
<1>9. ASSUME NEW batch, DeliverLate(p, batch) PROVE Keeps(names)
  <2>1. PICK n \in Nat : DOMAIN batch = 1..n
    BY <1>9 DEF DeliverLate, DeviceTyped
  <2>2. SubmitSyncBatch(p, batch) \/ UNCHANGED vars
    BY <1>9 DEF DeliverLate
  <2>3. QED
    BY <1>2, <1>3, <2>1, <2>2
<1>10. ASSUME NEW next, MissConflicts(next) PROVE Keeps(names)
  BY <1>2, <1>10 DEF MissConflicts
<1>11. ASSUME InsertSyncQueueEntry \/ HandleManualSync \/ RefreshConflicts \/ Kill PROVE Keeps(names)
  BY <1>2, <1>11 DEF InsertSyncQueueEntry, HandleManualSync, RefreshConflicts, Kill
<1>12. ASSUME NEW k, ResolveConflict(p, k) PROVE Keeps(names)
  BY <1>1, <1>12, TurnKeeps DEF ResolveConflict
<1>13. Keeps(names)
  BY <1>4, <1>5, <1>6, <1>7, <1>8, <1>9, <1>10, <1>11, <1>12 DEF DeviceNext
<1>14. QED
  BY <1>1, <1>13

-----------------------------------------------------------------------------
(* What a request of a part writes *)

\* By part.
PartTables ==
    [staff |-> {"employee", "attendance"},
     leave |-> {"leave", "entitlement", "record"},
     payroll |-> {"timesheet", "payroll", "payline", "rule"},
     members |-> {"tenant", "role", "user", "index", "subscription", "session", "invite", "resettoken", "office",
                  "platformadmin"},
     roles |-> {"tenant", "role", "user", "index", "subscription", "session", "invite", "resettoken", "office",
                "platformadmin"},
     sessions |-> {"tenant", "role", "user", "index", "subscription", "session", "invite", "resettoken", "office",
                   "platformadmin"},
     tenant |-> {"tenant", "role", "user", "index", "subscription", "session", "invite", "resettoken", "office",
                 "platformadmin"},
     award |-> {"lead", "opportunity", "competitor", "winloss", "tender", "contract"},
     tenders |-> {"tender", "step", "blocker", "submission", "winloss", "competitor"},
     estimates |-> {"estimate", "boq", "cbs", "cbsline"},
     assistant |-> {"extraction", "boq"},
     baseline |-> {"cbs", "cbsline", "revision", "approval", "definition"},
     amendments |-> {"amendment", "contract", "approval", "definition"},
     retention |-> {"advance", "retention"},
     billing |-> {"certificate", "variation", "certline", "tracking"},
     revenue |-> {"filed", "evm", "revenue"},
     filing |-> {"filed", "evm", "revenue"},
     portals |-> {"portaluser", "portalsession", "portaltoken", "dsar"},
     subjects |-> {"portaluser", "portalsession", "portaltoken", "dsar"},
     clients |-> {"assignment", "clientrequest", "variation", "clientaction", "certificate", "tracking"},
     subcontracts |-> {"agreement", "sheet", "backcharge", "subretention", "compliance", "subcert", "subclaim"},
     claims |-> {"agreement", "sheet", "backcharge", "subretention", "compliance", "subcert", "subclaim"},
     field |-> {"diary", "sync", "conflict", "report", "fieldasset"},
     work |-> {"workdone", "issue", "machine", "maintenance", "downtime", "move"},
     fleet |-> {"workdone", "issue", "machine", "maintenance", "downtime", "move"},
     quality |-> {"holdpoint", "material", "lab", "punch"},
     corrective |-> {"ncr", "action", "incident", "talk"},
     permits |-> {"risk", "permit", "approval", "definition"},
     survey |-> {"surface", "volume", "asbuilt"},
     quarry |-> {"explosive", "correction", "drilling", "blast", "stockpile", "asset", "schedule", "dlp", "defect"},
     assets |-> {"explosive", "correction", "drilling", "blast", "stockpile", "asset", "schedule", "dlp", "defect"},
     documents |-> {"document", "attachment"},
     desk |-> {"notice", "preference", "project"},
     network |-> {"activity", "dependency", "baseline", "delay"},
     controls |-> {"activity", "dependency", "baseline", "delay"}]

\* The route of a part keeps the rest.
LEMMA PartKeeps ==
    ASSUME ~ Concurrent, RequestNext
    PROVE  part \in DOMAIN PartTables /\ Keeps(PartTables[part])
<1> DEFINE Good == part \in DOMAIN PartTables /\ Keeps(PartTables[part])
<1>1. PICK q :
         \/ part = "staff" /\ StaffNext(q)
         \/ part = "leave" /\ LeaveNext(q)
         \/ part = "payroll" /\ PayrollNext(q)
         \/ part = "members" /\ MembershipNext(q)
         \/ part = "roles" /\ RoleNext(q)
         \/ part = "sessions" /\ SessionNext(q)
         \/ part = "tenant" /\ TenantNext(q)
         \/ part = "award" /\ AwardNext(q)
         \/ part = "tenders" /\ TenderNext(q)
         \/ part = "estimates" /\ EstimateRoutes(q)
         \/ part = "assistant" /\ AssistantRoutes(q)
         \/ part = "baseline" /\ BaselineNext(q)
         \/ part = "amendments" /\ AmendmentNext(q)
         \/ part = "retention" /\ RetentionRoutes(q)
         \/ part = "billing" /\ BilRoutes(q)
         \/ part = "revenue" /\ RevenueRoutes(q)
         \/ part = "portals" /\ PortalNext(q)
         \/ part = "subjects" /\ DsarRoutes(q)
         \/ part = "clients" /\ ClientNext(q)
         \/ part = "subcontracts" /\ SubcontractNext(q)
         \/ part = "claims" /\ ClaimRoutes(q)
         \/ part = "field" /\ FieldNext(q)
         \/ part = "work" /\ WorkRoutes(q)
         \/ part = "fleet" /\ FleetRoutes(q)
         \/ part = "quality" /\ QmsRoutes(q)
         \/ part = "corrective" /\ CorrectiveNext(q)
         \/ part = "permits" /\ PermitNext(q)
         \/ part = "survey" /\ SurveyRoutes(q)
         \/ part = "quarry" /\ QuarryRoutes(q)
         \/ part = "assets" /\ AssetRoutes(q)
         \/ part = "documents" /\ DocumentNext(q)
         \/ part = "desk" /\ DeskRoutes(q)
         \/ part = "network" /\ NetworkRoutes(q)
         \/ part = "controls" /\ ControlNext(q)
         \/ part = "filing" /\ FilingNext(q)
  BY Zenon DEF RequestNext
<1> HIDE DEF Good
<1>2. ASSUME part = "staff" /\ StaffNext(q)
      PROVE  Good
  <2>1. PICK names : names = {"employee", "attendance"}
    OBVIOUS
  <2>2. Keeps(names)
    BY <1>2, <2>1, StaffKeeps
  <2>3. part \in DOMAIN PartTables /\ PartTables[part] = names
    BY <1>2, <2>1 DEF PartTables
  <2>4. QED
    BY ONLY <2>2, <2>3 DEF Good
<1>3. ASSUME part = "leave" /\ LeaveNext(q)
      PROVE  Good
  <2>1. PICK names : names = {"leave", "entitlement", "record"}
    OBVIOUS
  <2>2. Keeps(names)
    BY <1>3, <2>1, LeaveKeeps
  <2>3. part \in DOMAIN PartTables /\ PartTables[part] = names
    BY <1>3, <2>1 DEF PartTables
  <2>4. QED
    BY ONLY <2>2, <2>3 DEF Good
<1>4. ASSUME part = "payroll" /\ PayrollNext(q)
      PROVE  Good
  <2>1. PICK names : names = {"timesheet", "payroll", "payline", "rule"}
    OBVIOUS
  <2>2. Keeps(names)
    BY <1>4, <2>1, PayrollKeeps
  <2>3. part \in DOMAIN PartTables /\ PartTables[part] = names
    BY <1>4, <2>1 DEF PartTables
  <2>4. QED
    BY ONLY <2>2, <2>3 DEF Good
<1>5. ASSUME \/ part = "members" /\ MembershipNext(q)
             \/ part = "roles" /\ RoleNext(q)
             \/ part = "sessions" /\ SessionNext(q)
             \/ part = "tenant" /\ TenantNext(q)
      PROVE  Good
  <2>1. PICK names : names = {"tenant", "role", "user", "index", "subscription", "session", "invite", "resettoken",
                           "office", "platformadmin"}
    OBVIOUS
  <2>2. Keeps(names)
    BY <1>5, <2>1, AccountsKeep DEF AccountNext
  <2>3. part \in DOMAIN PartTables /\ PartTables[part] = names
    BY <1>5, <2>1 DEF PartTables
  <2>4. QED
    BY ONLY <2>2, <2>3 DEF Good
<1>6. ASSUME part = "award" /\ AwardNext(q)
      PROVE  Good
  <2>1. PICK names : names = {"lead", "opportunity", "competitor", "winloss", "tender", "contract"}
    OBVIOUS
  <2>2. Keeps(names)
    BY <1>6, <2>1, AwardKeeps
  <2>3. part \in DOMAIN PartTables /\ PartTables[part] = names
    BY <1>6, <2>1 DEF PartTables
  <2>4. QED
    BY ONLY <2>2, <2>3 DEF Good
<1>7. ASSUME part = "tenders" /\ TenderNext(q)
      PROVE  Good
  <2>1. PICK names : names = {"tender", "step", "blocker", "submission", "winloss", "competitor"}
    OBVIOUS
  <2>2. Keeps(names)
    BY <1>7, <2>1, TenderKeeps
  <2>3. part \in DOMAIN PartTables /\ PartTables[part] = names
    BY <1>7, <2>1 DEF PartTables
  <2>4. QED
    BY ONLY <2>2, <2>3 DEF Good
<1>8. ASSUME part = "estimates" /\ EstimateRoutes(q)
      PROVE  Good
  <2>1. PICK names : names = {"estimate", "boq", "cbs", "cbsline"}
    OBVIOUS
  <2>2. Keeps(names)
    BY <1>8, <2>1, EstimateKeeps
  <2>3. part \in DOMAIN PartTables /\ PartTables[part] = names
    BY <1>8, <2>1 DEF PartTables
  <2>4. QED
    BY ONLY <2>2, <2>3 DEF Good
<1>9. ASSUME part = "assistant" /\ AssistantRoutes(q)
      PROVE  Good
  <2>1. PICK names : names = {"extraction", "boq"}
    OBVIOUS
  <2>2. Keeps(names)
    BY <1>9, <2>1, AssistantKeeps
  <2>3. part \in DOMAIN PartTables /\ PartTables[part] = names
    BY <1>9, <2>1 DEF PartTables
  <2>4. QED
    BY ONLY <2>2, <2>3 DEF Good
<1>10. ASSUME part = "baseline" /\ BaselineNext(q)
      PROVE  Good
  <2>1. PICK names : names = {"cbs", "cbsline", "revision", "approval", "definition"}
    OBVIOUS
  <2>2. Keeps(names)
    BY <1>10, <2>1, BaselineKeeps
  <2>3. part \in DOMAIN PartTables /\ PartTables[part] = names
    BY <1>10, <2>1 DEF PartTables
  <2>4. QED
    BY ONLY <2>2, <2>3 DEF Good
<1>11. ASSUME part = "amendments" /\ AmendmentNext(q)
      PROVE  Good
  <2>1. PICK names : names = {"amendment", "contract", "approval", "definition"}
    OBVIOUS
  <2>2. Keeps(names)
    BY <1>11, <2>1, AmendmentKeeps
  <2>3. part \in DOMAIN PartTables /\ PartTables[part] = names
    BY <1>11, <2>1 DEF PartTables
  <2>4. QED
    BY ONLY <2>2, <2>3 DEF Good
<1>12. ASSUME part = "retention" /\ RetentionRoutes(q)
      PROVE  Good
  <2>1. PICK names : names = {"advance", "retention"}
    OBVIOUS
  <2>2. Keeps(names)
    BY <1>12, <2>1, RetentionKeeps
  <2>3. part \in DOMAIN PartTables /\ PartTables[part] = names
    BY <1>12, <2>1 DEF PartTables
  <2>4. QED
    BY ONLY <2>2, <2>3 DEF Good
<1>13. ASSUME part = "billing" /\ BilRoutes(q)
      PROVE  Good
  <2>1. PICK names : names = {"certificate", "variation", "certline", "tracking"}
    OBVIOUS
  <2>2. Keeps(names)
    BY <1>13, <2>1, BillingKeeps
  <2>3. part \in DOMAIN PartTables /\ PartTables[part] = names
    BY <1>13, <2>1 DEF PartTables
  <2>4. QED
    BY ONLY <2>2, <2>3 DEF Good
<1>14. ASSUME \/ part = "revenue" /\ RevenueRoutes(q)
              \/ part = "filing" /\ FilingNext(q)
      PROVE  Good
  <2>1. PICK names : names = {"filed", "evm", "revenue"}
    OBVIOUS
  <2>2. Keeps(names)
    BY <1>14, <2>1, FilingKeeps
  <2>3. part \in DOMAIN PartTables /\ PartTables[part] = names
    BY <1>14, <2>1 DEF PartTables
  <2>4. QED
    BY ONLY <2>2, <2>3 DEF Good
<1>15. ASSUME \/ part = "portals" /\ PortalNext(q)
              \/ part = "subjects" /\ DsarRoutes(q)
      PROVE  Good
  <2>1. PICK names : names = {"portaluser", "portalsession", "portaltoken", "dsar"}
    OBVIOUS
  <2>2. Keeps(names)
    BY <1>15, <2>1, PortalKeeps
  <2>3. part \in DOMAIN PartTables /\ PartTables[part] = names
    BY <1>15, <2>1 DEF PartTables
  <2>4. QED
    BY ONLY <2>2, <2>3 DEF Good
<1>16. ASSUME part = "clients" /\ ClientNext(q)
      PROVE  Good
  <2>1. PICK names : names = {"assignment", "clientrequest", "variation", "clientaction", "certificate", "tracking"}
    OBVIOUS
  <2>2. Keeps(names)
    BY <1>16, <2>1, ClientKeeps
  <2>3. part \in DOMAIN PartTables /\ PartTables[part] = names
    BY <1>16, <2>1 DEF PartTables
  <2>4. QED
    BY ONLY <2>2, <2>3 DEF Good
<1>17. ASSUME \/ part = "subcontracts" /\ SubcontractNext(q)
              \/ part = "claims" /\ ClaimRoutes(q)
      PROVE  Good
  <2>1. PICK names : names = {"agreement", "sheet", "backcharge", "subretention", "compliance", "subcert", "subclaim"}
    OBVIOUS
  <2>2. Keeps(names)
    BY <1>17, <2>1, SubcontractKeeps
  <2>3. part \in DOMAIN PartTables /\ PartTables[part] = names
    BY <1>17, <2>1 DEF PartTables
  <2>4. QED
    BY ONLY <2>2, <2>3 DEF Good
<1>18. ASSUME part = "field" /\ FieldNext(q)
      PROVE  Good
  <2>1. PICK names : names = {"diary", "sync", "conflict", "report", "fieldasset"}
    OBVIOUS
  <2>2. Keeps(names)
    BY <1>18, <2>1, FieldKeeps
  <2>3. part \in DOMAIN PartTables /\ PartTables[part] = names
    BY <1>18, <2>1 DEF PartTables
  <2>4. QED
    BY ONLY <2>2, <2>3 DEF Good
<1>19. ASSUME \/ part = "work" /\ WorkRoutes(q)
              \/ part = "fleet" /\ FleetRoutes(q)
      PROVE  Good
  <2>1. PICK names : names = {"workdone", "issue", "machine", "maintenance", "downtime", "move"}
    OBVIOUS
  <2>2. Keeps(names)
    BY <1>19, <2>1, WorkKeeps
  <2>3. part \in DOMAIN PartTables /\ PartTables[part] = names
    BY <1>19, <2>1 DEF PartTables
  <2>4. QED
    BY ONLY <2>2, <2>3 DEF Good
<1>20. ASSUME part = "quality" /\ QmsRoutes(q)
      PROVE  Good
  <2>1. PICK names : names = {"holdpoint", "material", "lab", "punch"}
    OBVIOUS
  <2>2. Keeps(names)
    BY <1>20, <2>1, QualityKeeps
  <2>3. part \in DOMAIN PartTables /\ PartTables[part] = names
    BY <1>20, <2>1 DEF PartTables
  <2>4. QED
    BY ONLY <2>2, <2>3 DEF Good
<1>21. ASSUME part = "corrective" /\ CorrectiveNext(q)
      PROVE  Good
  <2>1. PICK names : names = {"ncr", "action", "incident", "talk"}
    OBVIOUS
  <2>2. Keeps(names)
    BY <1>21, <2>1, CorrectiveKeeps
  <2>3. part \in DOMAIN PartTables /\ PartTables[part] = names
    BY <1>21, <2>1 DEF PartTables
  <2>4. QED
    BY ONLY <2>2, <2>3 DEF Good
<1>22. ASSUME part = "permits" /\ PermitNext(q)
      PROVE  Good
  <2>1. PICK names : names = {"risk", "permit", "approval", "definition"}
    OBVIOUS
  <2>2. Keeps(names)
    BY <1>22, <2>1, PermitKeeps
  <2>3. part \in DOMAIN PartTables /\ PartTables[part] = names
    BY <1>22, <2>1 DEF PartTables
  <2>4. QED
    BY ONLY <2>2, <2>3 DEF Good
<1>23. ASSUME part = "survey" /\ SurveyRoutes(q)
      PROVE  Good
  <2>1. PICK names : names = {"surface", "volume", "asbuilt"}
    OBVIOUS
  <2>2. Keeps(names)
    BY <1>23, <2>1, SurveyKeeps
  <2>3. part \in DOMAIN PartTables /\ PartTables[part] = names
    BY <1>23, <2>1 DEF PartTables
  <2>4. QED
    BY ONLY <2>2, <2>3 DEF Good
<1>24. ASSUME \/ part = "quarry" /\ QuarryRoutes(q)
              \/ part = "assets" /\ AssetRoutes(q)
      PROVE  Good
  <2>1. PICK names : names = {"explosive", "correction", "drilling", "blast", "stockpile", "asset", "schedule", "dlp",
                           "defect"}
    OBVIOUS
  <2>2. Keeps(names)
    BY <1>24, <2>1, QuarryKeeps
  <2>3. part \in DOMAIN PartTables /\ PartTables[part] = names
    BY <1>24, <2>1 DEF PartTables
  <2>4. QED
    BY ONLY <2>2, <2>3 DEF Good
<1>25. ASSUME part = "documents" /\ DocumentNext(q)
      PROVE  Good
  <2>1. PICK names : names = {"document", "attachment"}
    OBVIOUS
  <2>2. Keeps(names)
    BY <1>25, <2>1, DocumentKeeps
  <2>3. part \in DOMAIN PartTables /\ PartTables[part] = names
    BY <1>25, <2>1 DEF PartTables
  <2>4. QED
    BY ONLY <2>2, <2>3 DEF Good
<1>26. ASSUME part = "desk" /\ DeskRoutes(q)
      PROVE  Good
  <2>1. PICK names : names = {"notice", "preference", "project"}
    OBVIOUS
  <2>2. Keeps(names)
    BY <1>26, <2>1, DeskKeeps
  <2>3. part \in DOMAIN PartTables /\ PartTables[part] = names
    BY <1>26, <2>1 DEF PartTables
  <2>4. QED
    BY ONLY <2>2, <2>3 DEF Good
<1>27. ASSUME \/ part = "network" /\ NetworkRoutes(q)
              \/ part = "controls" /\ ControlNext(q)
      PROVE  Good
  <2>1. PICK names : names = {"activity", "dependency", "baseline", "delay"}
    OBVIOUS
  <2>2. Keeps(names)
    BY <1>27, <2>1, ScheduleKeeps
  <2>3. part \in DOMAIN PartTables /\ PartTables[part] = names
    BY <1>27, <2>1 DEF PartTables
  <2>4. QED
    BY ONLY <2>2, <2>3 DEF Good
<1>28. Good
  BY ONLY <1>1, <1>2, <1>3, <1>4, <1>5, <1>6, <1>7, <1>8, <1>9, <1>10, <1>11, <1>12, <1>13, <1>14,
     <1>15, <1>16, <1>17, <1>18, <1>19, <1>20, <1>21, <1>22, <1>23, <1>24, <1>25, <1>26, <1>27
<1>29. QED
  BY <1>28 DEF Good

-----------------------------------------------------------------------------
(* Access *)

\* Only accounts, portals and data subject requests write who may come in.
LEMMA OthersLetNobodyIn ==
    ASSUME ~ Concurrent, RequestNext
    PROVE  \/ \E q : AccountNext(q) \/ PortalNext(q) \/ DsarRoutes(q)
           \/ \E names : /\ Keeps(names)
                         /\ names \cap {"user", "index", "session"} = {}
                         /\ names \cap {"portaluser", "portalsession"} = {}
<1>1. part \in DOMAIN PartTables /\ Keeps(PartTables[part])
  BY PartKeeps
<1>2. CASE part \in {"members", "roles", "sessions", "tenant", "portals", "subjects"}
  BY <1>2 DEF RequestNext, AccountNext
<1>3. CASE part \notin {"members", "roles", "sessions", "tenant", "portals", "subjects"}
  <2>1. \A t \in {"user", "index", "session", "portaluser", "portalsession"} : t \notin PartTables[part]
    BY <1>1, <1>3 DEF PartTables
  <2>2. QED
    BY <1>1, <2>1
<1>4. QED
  BY <1>2, <1>3

\* What a step finds of access, it leaves.
AccessSound == MembersSound /\ PortalsSound /\ DeviceTyped

\* What every request but a sync does to who may come in: nothing, or what the
\* accounts, the portals and the requests of data subjects do.
LEMMA AccessSoundAfterRequest ==
    ASSUME ~ Concurrent, AccessSound, RequestNext
    PROVE  AccessSound'
<1>1. DeviceTyped'
  <2>1. UNCHANGED fieldVars
    BY DEF RequestNext
  <2>2. QED
    BY <2>1 DEF AccessSound, DeviceTyped, fieldVars
<1>2. ASSUME NEW q, AccountNext(q) PROVE MembersSound' /\ PortalsSound'
  <2>1. MembersSound'
    BY <1>2, MembersStaySound DEF AccessSound
  <2>2. PICK names : names = {"tenant", "role", "user", "index", "subscription", "session", "invite", "resettoken",
                              "office", "platformadmin"}
    OBVIOUS
  <2>3. Keeps(names)
    BY <1>2, <2>2, AccountsKeep
  <2>4. names \cap {"portaluser", "portalsession"} = {}
    BY <2>2
  <2>5. QED
    BY <2>1, <2>3, <2>4, PortalsLeftAlone DEF AccessSound
<1>3. ASSUME NEW q, PortalNext(q) \/ DsarRoutes(q) PROVE MembersSound' /\ PortalsSound'
  <2>1. PortalsSound'
    BY <1>3, PortalsStaySound DEF AccessSound
  <2>2. PICK names : names = {"portaluser", "portalsession", "portaltoken", "dsar"}
    OBVIOUS
  <2>3. Keeps(names)
    BY <1>3, <2>2, PortalKeeps
  <2>4. names \cap {"user", "index", "session"} = {}
    BY <2>2
  <2>5. QED
    BY <2>1, <2>3, <2>4, MembersLeftAlone DEF AccessSound
<1>4. ASSUME NEW names, Keeps(names), names \cap {"user", "index", "session"} = {},
             names \cap {"portaluser", "portalsession"} = {}
      PROVE  MembersSound' /\ PortalsSound'
  BY <1>4, MembersLeftAlone, PortalsLeftAlone DEF AccessSound
<1>5. QED
  BY <1>1, <1>2, <1>3, <1>4, OthersLetNobodyIn DEF AccessSound

\* The invariant of the accounts and portals is kept by every step.
LEMMA AccessStaysSound ==
    ASSUME ~ Concurrent, AccessSound, [Next]_<<part, vars, fieldVars>>
    PROVE  AccessSound'
<1>1. CASE RequestNext
  BY <1>1, AccessSoundAfterRequest
<1>2. ASSUME NEW names, Keeps(names), names \cap {"user", "index", "session", "portaluser", "portalsession"} = {},
             DeviceTyped'
      PROVE  AccessSound'
  BY <1>2, MembersLeftAlone, PortalsLeftAlone DEF AccessSound
<1>3. ASSUME NEW p, DeviceNext(p) PROVE AccessSound'
  <2>1. PICK names : names = {"diary", "sync", "conflict", "report"}
    OBVIOUS
  <2>2. Keeps(names) /\ DeviceTyped'
    BY <1>3, <2>1, DeviceKeeps, DeviceStaysTyped DEF AccessSound
  <2>3. names \cap {"user", "index", "session", "portaluser", "portalsession"} = {}
    BY <2>1
  <2>4. QED
    BY <1>2, <2>2, <2>3
<1>4. CASE UNCHANGED <<part, vars, fieldVars>>
  <2>1. Keeps({}) /\ DeviceTyped'
    BY <1>4 DEF vars, fieldVars, Keeps, AccessSound, DeviceTyped
  <2>2. QED
    BY <1>2, <2>1
<1>5. QED
  BY <1>1, <1>3, <1>4 DEF Next

-----------------------------------------------------------------------------
(* What the tenant starts with *)

\* A table of two compositions is that of the first which has it.
LEMMA OverlaidTables ==
    ASSUME NEW f, NEW g
    PROVE  /\ DOMAIN Overlay(f, g) = DOMAIN f \cup DOMAIN g
           /\ \A t \in DOMAIN f : Overlay(f, g)[t] = f[t]
           /\ \A t \in DOMAIN g \ DOMAIN f : Overlay(f, g)[t] = g[t]
  BY DEF Overlay

\* What a part prepares is no member's and nothing paid; a client it may have, and a
\* certificate that was sent to them.
LEMMA PreparedTables ==
    ASSUME NEW p, NEW f, f = Prepared(p)
    PROVE  /\ DOMAIN f \cap {"user", "index", "session", "portalsession"} = {}
           /\ \/ "portaluser" \notin DOMAIN f
              \/ f["portaluser"] = <<[PortalUser("clp", "c") EXCEPT !.indexed = TRUE]>>
           /\ DOMAIN f \cap {"surface", "volume", "agreement", "sheet", "subcert", "backcharge", "subretention",
                             "retention", "advance"} = {}
           /\ \/ DOMAIN f \cap {"certificate", "certline", "variation"} = {}
              \/ /\ {"certificate", "certline", "variation"} \subseteq DOMAIN f
                 /\ f["certificate"] = Submitted["certificate"]
                 /\ f["certline"] = Submitted["certline"]
                 /\ f["variation"] = Submitted["variation"]
<1>1. CASE p \in {"clients", "revenue", "subjects"}
  <2>1. f = Overlay(Submitted, Awarded)
    BY <1>1 DEF Prepared
  <2>2. /\ DOMAIN Submitted = {"tender", "contract", "certificate", "certline", "tracking", "variation", "portaluser"}
        /\ Submitted["portaluser"] = <<[PortalUser("clp", "c") EXCEPT !.indexed = TRUE]>>
    BY DEF Submitted
  <2>3. DOMAIN Awarded = {"lead", "opportunity", "tender", "submission", "contract"}
    BY DEF Awarded
  <2>4. /\ DOMAIN f = DOMAIN Submitted \cup DOMAIN Awarded
        /\ \A t \in DOMAIN Submitted : f[t] = Submitted[t]
    <3>1. PICK s, a : s = Submitted /\ a = Awarded
      OBVIOUS
    <3>2. f = Overlay(s, a)
      BY <2>1, <3>1
    <3>3. DOMAIN f = DOMAIN s \cup DOMAIN a /\ \A t \in DOMAIN s : f[t] = s[t]
      BY ONLY <3>2, OverlaidTables
    <3>4. QED
      BY ONLY <3>1, <3>3
  <2>5. QED
    BY <2>2, <2>3, <2>4
<1>2. CASE p \notin {"clients", "revenue", "subjects"}
  <2>1. DOMAIN f \subseteq {"lead", "opportunity", "tender", "submission", "contract", "estimate", "boq", "cbs",
                            "cbsline", "activity", "dependency"}
    <3>1. CASE p \in {"amendments", "retention", "billing"}
      <4>1. f = Awarded \/ f = Overlay(TwoContracts, Awarded)
        BY <1>2, <3>1 DEF Prepared
      <4>2. PICK two, a : two = TwoContracts /\ a = Awarded
        OBVIOUS
      <4>3. DOMAIN two = {"tender", "contract"}
            /\ DOMAIN a = {"lead", "opportunity", "tender", "submission", "contract"}
        BY <4>2 DEF TwoContracts, Awarded
      <4>4. DOMAIN f \subseteq DOMAIN two \cup DOMAIN a
        BY ONLY <4>1, <4>2, OverlaidTables
      <4>5. QED
        BY ONLY <4>3, <4>4
    <3>2. CASE p \in {"tenders", "estimates"}
      BY <1>2, <3>2 DEF Prepared, Bid
    <3>3. CASE p = "assistant"
      BY <1>2, <3>3 DEF Prepared, Bid, Overlay
    <3>4. CASE p = "baseline"
      BY <1>2, <3>4 DEF Prepared, Bid, Overlay, Estimated
    <3>5. CASE p = "controls"
      BY <1>2, <3>5 DEF Prepared
    <3>6. CASE p \notin {"amendments", "retention", "billing", "tenders", "estimates", "assistant", "baseline", "controls"}
      <4>1. f = <<>>
        BY <1>2, <3>6, Zenon DEF Prepared
      <4>2. QED
        BY <4>1
    <3>7. QED
      BY <3>1, <3>2, <3>3, <3>4, <3>5, <3>6
  <2>2. QED
    BY <2>1
<1>3. QED
  BY <1>1, <1>2


\* No part but the accounts' makes members, none but the portals' makes their users.
LEMMA FirstTables ==
    ASSUME Init
    PROVE  /\ {"user", "index", "session", "portaluser", "portalsession"} \subseteq DOMAIN db
           /\ \A t \in {"user", "index", "session"} : db[t] = AccountTables[t]
           /\ db["portalsession"] = <<>>
           /\ \/ db["portaluser"] = <<>>
              \/ db["portaluser"] = <<[PortalUser("clp", "c") EXCEPT !.indexed = TRUE]>>
<1> DEFINE m8 == Overlay(SubcontractTables, Overlay(SiteTables, Overlay(SafetyTables, Overlay(SurveyTables,
                     Overlay(PaperTables, Overlay(ScheduleTables, [filed |-> <<>>]))))))
           m7 == Overlay(PortalTables, m8)
           m6 == Overlay(ContractTables, m7)
           m5 == Overlay(AssistantTables, m6)
           m4 == Overlay(BiddingTables, m5)
           m3 == Overlay(ApprovalTables, m4)
           m2 == Overlay(AccountTables, m3)
           m1 == Overlay(WorkforceTables, m2)
           names == {"user", "index", "session"}
           outside == {"portaluser", "portalsession"}
<1>1. db = Overlay(Prepared(part), m1)
  BY DEF Init, OfficeTables
<1> HIDE DEF m8
<1>2. outside \subseteq DOMAIN m7 /\ \A t \in outside : m7[t] = <<>>
  BY DEF Overlay, PortalTables
<1> HIDE DEF m7
<1>3. outside \subseteq DOMAIN m6 /\ \A t \in outside : m6[t] = <<>>
  BY <1>2 DEF Overlay, ContractTables
<1> HIDE DEF m6
<1>4. outside \subseteq DOMAIN m5 /\ \A t \in outside : m5[t] = <<>>
  BY <1>3 DEF Overlay, AssistantTables
<1> HIDE DEF m5
<1>5. outside \subseteq DOMAIN m4 /\ \A t \in outside : m4[t] = <<>>
  BY <1>4 DEF Overlay, BiddingTables
<1> HIDE DEF m4
<1>6. outside \subseteq DOMAIN m3 /\ \A t \in outside : m3[t] = <<>>
  BY <1>5 DEF Overlay, ApprovalTables
<1> HIDE DEF m3
<1>7. /\ names \cup outside \subseteq DOMAIN m2
      /\ \A t \in outside : m2[t] = <<>>
      /\ \A t \in names : m2[t] = AccountTables[t]
  <2>1. DOMAIN AccountTables = {"tenant", "role", "user", "index", "subscription", "session", "invite", "resettoken",
                                "office", "platformadmin"}
    BY DEF AccountTables
  <2>2. QED
    BY <1>6, <2>1 DEF Overlay
<1> HIDE DEF m2
<1>8. /\ names \cup outside \subseteq DOMAIN m1
      /\ \A t \in outside : m1[t] = <<>>
      /\ \A t \in names : m1[t] = AccountTables[t]
  <2>1. DOMAIN WorkforceTables = {"employee", "casual", "attendance", "timesheet", "leave", "entitlement", "record",
                                  "rule", "payroll", "payline"}
    BY DEF WorkforceTables
  <2>2. QED
    BY <1>7, <2>1 DEF Overlay
<1> HIDE DEF m1
<1>9. PICK f : f = Prepared(part)
  OBVIOUS
<1>10. /\ DOMAIN f \cap {"user", "index", "session", "portalsession"} = {}
       /\ \/ "portaluser" \notin DOMAIN f
          \/ f["portaluser"] = <<[PortalUser("clp", "c") EXCEPT !.indexed = TRUE]>>
  BY <1>9, PreparedTables
<1>11. db = [t \in DOMAIN f \cup DOMAIN m1 |-> IF t \in DOMAIN f THEN f[t] ELSE m1[t]]
  BY <1>1, <1>9 DEF Overlay
<1>12. QED
  BY ONLY <1>8, <1>10, <1>11

\* A table of one row, and a table of none.
LEMMA SmallTables ==
    ASSUME NEW R
    PROVE  /\ <<>> \in Seq(R) /\ DOMAIN <<>> = {}
           /\ \A r \in R : <<r>> \in Seq(R) /\ DOMAIN <<r>> = {1} /\ <<r>>[1] = r
  OBVIOUS

\* It holds where the program starts.
LEMMA FirstAccess ==
    ASSUME Init
    PROVE  AccessSound
<1>1. MembersSound
  <2>1. PICK u : u = User(Founder, 1)
    OBVIOUS
  <2>2. /\ u.status = "active" /\ u.email = Founder /\ u.password = 1 /\ u.changedAt = 0
        /\ u \in UserRows({Founder, 1})
    BY <2>1 DEF User, UserRows
  <2>3. PICK s : s = Session(1, 0, 1)
    OBVIOUS
  <2>4. s \in SessionRows /\ s.user = 1 /\ s.pwd_ts = 0 /\ s.under = 1
    BY <2>3 DEF Session, SessionRows
  <2>5. /\ {"user", "index", "session"} \subseteq DOMAIN db
        /\ db["user"] = <<u>> /\ db["session"] = <<s>>
        /\ db["index"] = [e \in Emails |-> [user |-> IF e = Founder THEN 1 ELSE Nobody]]
    BY <2>1, <2>3, FirstTables DEF AccountTables
  <2>6. /\ db["user"] \in Seq(UserRows({Founder, 1})) /\ DOMAIN db["user"] = {1} /\ db["user"][1] = u
        /\ db["session"] \in Seq(SessionRows) /\ DOMAIN db["session"] = {1} /\ db["session"][1] = s
    BY <2>2, <2>4, <2>5, SmallTables
  <2>7. db["index"] \in [Emails -> [user : DOMAIN db["user"] \cup {Nobody, Elsewhere}]]
    BY <2>5, <2>6
  <2>8. MembersTyped
    <3>1. \E R : db["user"] \in Seq(UserRows(R))
      BY ONLY <2>6
    <3>2. \A x \in DOMAIN db["user"] : db["user"][x].changedAt <= db["user"][x].password
      BY ONLY <2>2, <2>6
    <3>3. \A k \in DOMAIN db["session"] :
             /\ db["session"][k].user \in DOMAIN db["user"]
             /\ db["session"][k].pwd_ts <= db["user"][db["session"][k].user].password
      BY ONLY <2>2, <2>4, <2>6
    <3>4. {"user", "index", "session"} \subseteq DOMAIN db /\ db["session"] \in Seq(SessionRows)
      BY ONLY <2>5, <2>6
    <3>5. QED
      BY ONLY <2>7, <3>1, <3>2, <3>3, <3>4 DEF MembersTyped
  <2>9. IndexNamesMembers
    <3>1. Nobody # 1
      BY DEF Nobody
    <3>2. Members(db) = {1}
      BY <2>2, <2>6 DEF Members
    <3>3. \A e \in Emails : db["index"][e].user = 1 => e = Founder
      BY <2>5, <3>1
    <3>4. QED
      BY <2>2, <2>6, <3>2, <3>3 DEF IndexNamesMembers
  <2>10. SessionsEndWithPassword
    BY <2>2, <2>4, <2>6 DEF SessionsEndWithPassword, ClaimHolds
  <2>11. QED
    BY <2>8, <2>9, <2>10 DEF MembersSound
<1>2. PortalsSound
  <2>1. PICK u : u = [PortalUser("clp", "c") EXCEPT !.indexed = TRUE]
    OBVIOUS
  <2>2. u \in PortalUserRows({"clp", "c"}) /\ u.email # NoOne
    BY <2>1 DEF PortalUser, PortalUserRows, NoOne
  <2>3. /\ {"portaluser", "portalsession"} \subseteq DOMAIN db
        /\ db["portalsession"] = <<>> /\ (db["portaluser"] = <<>> \/ db["portaluser"] = <<u>>)
    BY <2>1, FirstTables
  <2>4. db["portalsession"] \in Seq(PortalSessionRows) /\ DOMAIN db["portalsession"] = {}
    BY ONLY <2>3, SmallTables
  <2>5. PICK R : R = PortalUserRows({"clp", "c"})
    OBVIOUS
  <2>6. /\ <<>> \in Seq(R) /\ DOMAIN <<>> = {}
        /\ <<u>> \in Seq(R) /\ DOMAIN <<u>> = {1} /\ <<u>>[1] = u
    BY ONLY <2>2, <2>5, SmallTables
  <2>7. db["portaluser"] \in Seq(R) /\ \A k \in DOMAIN db["portaluser"] : db["portaluser"][k] = u
    BY ONLY <2>3, <2>6
  <2>8. PortalRowsSound(db["portaluser"], db["portalsession"])
    <3>1. \E E : db["portaluser"] \in Seq(PortalUserRows(E))
      BY ONLY <2>5, <2>7
    <3>2. QED
      BY <2>2, <2>4, <2>7, <3>1 DEF PortalRowsSound
  <2>9. QED
    BY <2>3, <2>8 DEF PortalsSound
<1>3. DeviceTyped
  <2>1. /\ phone = [diary |-> [r \in DeviceRecords |-> "none"], queue |-> <<>>, conflicts |-> {}]
        /\ run = [t \in Syncs |-> Asleep] /\ late = {}
    BY DEF Init, FieldInit
  <2>2. "queue" \in DOMAIN phone /\ phone["queue"] \in Seq({})
    BY <2>1, SmallTables
  <2>3. QED
    BY <2>1, <2>2 DEF DeviceTyped, Asleep
<1>4. QED
  BY <1>1, <1>2, <1>3 DEF AccessSound

\* Access ends when it should: the index leads to present members only and to one
\* each; a session whose claim is still accepted was begun under the present password,
\* for members (remove_user, change_password, reset_password, refresh) as for portal
\* users, whose erasure leaves neither a password nor an accepted session.
THEOREM AccessEndsWhenItShould == ~ Concurrent => (Spec => []AccessEnds)
<1> SUFFICES ASSUME ~ Concurrent PROVE Spec => []AccessEnds
  OBVIOUS
<1>1. Init => AccessSound
  BY FirstAccess
<1>2. AccessSound /\ [Next]_<<part, vars, fieldVars>> => AccessSound'
  BY AccessStaysSound
<1>3. AccessSound => AccessEnds
  BY PortalsSoundSays DEF AccessSound, MembersSound, AccessEnds
<1>4. QED
  BY <1>1, <1>2, <1>3, PTL DEF Spec

-----------------------------------------------------------------------------
(* Sums over parts of a table *)

\* The sum over two sets apart is that over the one and that over the other.
LEMMA SumOfApart ==
    ASSUME NEW t, NEW c, NEW S, IsFiniteSet(S), NEW R, IsFiniteSet(R), S \cap R = {},
           S \cup R \subseteq DOMAIN t, \A k \in S \cup R : t[k][c] \in Int
    PROVE  SumOf(t, c, S \cup R) = SumOf(t, c, S) + SumOf(t, c, R)
<1> DEFINE G == {s \in SUBSET R : SumOf(t, c, S \cup s) = SumOf(t, c, S) + SumOf(t, c, s)}
<1>1. {} \in G
  <2>1. S \cup {} = S /\ SumOf(t, c, {}) = 0
    BY SumOfNoRows
  <2>2. SumOf(t, c, S) \in Int
    BY SumOfIsInteger
  <2>3. QED
    BY <2>1, <2>2
<1>2. ASSUME NEW s \in SUBSET R, s # {}, s \ {Pick(s)} \in G PROVE s \in G
  <2>1. PICK y : y = Pick(s)
    OBVIOUS
  <2>2. PICK r : r = s \ {y}
    OBVIOUS
  <2>3. y \in s /\ y \notin r /\ s = r \cup {y} /\ y \notin S \cup r /\ S \cup s = (S \cup r) \cup {y}
    BY <1>2, <2>1, <2>2, PickIsIn
  <2>4. IsFiniteSet(s) /\ IsFiniteSet(r) /\ IsFiniteSet(S \cup r)
    BY <2>2, FS_Subset, FS_Union
  <2>5. SumOf(t, c, s) = SumOf(t, c, r) + t[y][c]
    BY <2>3, <2>4, SumOfOneMore
  <2>6. SumOf(t, c, S \cup s) = SumOf(t, c, S \cup r) + t[y][c]
    <3>1. PICK u : u = S \cup r
      OBVIOUS
    <3>2. PICK v : v = S \cup s
      OBVIOUS
    <3>3. IsFiniteSet(u) /\ u \subseteq DOMAIN t /\ v \subseteq DOMAIN t /\ y \notin u /\ v = u \cup {y}
          /\ (\A k \in u : t[k][c] \in Int) /\ t[y][c] \in Int
      BY <2>3, <2>4, <3>1, <3>2
    <3>4. SumOf(t, c, v) = SumOf(t, c, u) + t[y][c]
      BY ONLY <3>3, SumOfOneMore
    <3>5. QED
      BY <3>1, <3>2, <3>4
  <2>7. SumOf(t, c, S \cup r) = SumOf(t, c, S) + SumOf(t, c, r)
    BY <1>2, <2>1, <2>2
  <2>8. SumOf(t, c, S) \in Int /\ SumOf(t, c, r) \in Int /\ t[y][c] \in Int
    <3>1. SumOf(t, c, S) \in Int
      BY SumOfIsInteger
    <3>2. SumOf(t, c, r) \in Int
      BY <2>3, <2>4, SumOfIsInteger
    <3>3. QED
      BY <2>3, <3>1, <3>2
  <2>9. QED
    BY <2>5, <2>6, <2>7, <2>8
<1> HIDE DEF G
<1>3. R \in G
  BY <1>1, <1>2, PartInduction
<1>4. QED
  BY <1>3 DEF G

\* Where nothing is negative, the sum over fewer rows is no more.
LEMMA SumOfFewer ==
    ASSUME NEW t, NEW c, NEW S, IsFiniteSet(S), S \subseteq DOMAIN t, \A k \in S : t[k][c] \in Nat,
           NEW R, R \subseteq S
    PROVE  SumOf(t, c, R) <= SumOf(t, c, S)
<1>1. PICK T : T = S \ R
  OBVIOUS
<1>2. IsFiniteSet(R) /\ IsFiniteSet(T) /\ R \cap T = {} /\ S = R \cup T
  BY <1>1, FS_Subset
<1>3. SumOf(t, c, S) = SumOf(t, c, R) + SumOf(t, c, T)
  BY <1>2, SumOfApart
<1>4. SumOf(t, c, R) \in Int /\ SumOf(t, c, T) \in Int
  BY <1>2, SumOfIsInteger
<1>5. SumOf(t, c, T) >= 0
  <2> DEFINE f == [k \in DOMAIN t |-> t[k][c]]
             g == [k \in DOMAIN t |-> 0]
  <2>1. \A k \in T : g[k] \in Int /\ f[k] \in Int /\ g[k] <= f[k] /\ g[k] = 0
    BY <1>2
  <2> HIDE DEF f, g
  <2>2. SumFunctionOnSet(g, T) <= SumFunctionOnSet(f, T) /\ SumFunctionOnSet(g, T) = 0
    BY <1>2, <2>1, SumsCompare, SumOfZeros
  <2>3. SumOf(t, c, T) = SumFunctionOnSet(f, T)
    BY DEF SumOf, f
  <2>4. QED
    BY <1>4, <2>2, <2>3
<1>6. QED
  BY <1>3, <1>4, <1>5

\* A function on one argument more.
LEMMA SumOfExtended ==
    ASSUME NEW f, IsFiniteSet(DOMAIN f), \A x \in DOMAIN f : f[x] \in Int,
           NEW g, NEW y, y \notin DOMAIN f, DOMAIN g = DOMAIN f \cup {y}, g[y] \in Int,
           \A x \in DOMAIN f : g[x] = f[x]
    PROVE  SumFunction(g) = SumFunction(f) + g[y]
<1>1. SumFunction(f) = SumFunctionOnSet(f, DOMAIN f) /\ SumFunction(g) = SumFunctionOnSet(g, DOMAIN g)
  BY DEF SumFunction, SumFunctionOnSet, FoldFunction
<1>2. PICK D : D = DOMAIN g
  OBVIOUS
<1>3. IsFiniteSet(D) /\ y \in D /\ (\A x \in D : g[x] \in Int) /\ D \ {y} = DOMAIN f
  BY <1>2, FS_AddElement
<1>4. SumFunctionOnSet(g, D) = g[y] + SumFunctionOnSet(g, D \ {y})
  BY ONLY <1>3, SumWithout
<1>5. SumFunctionOnSet(g, DOMAIN f) = SumFunctionOnSet(f, DOMAIN f)
  BY SumsOfEqualValues
<1>6. SumFunctionOnSet(f, DOMAIN f) \in Int
  BY SumIsInteger
<1>7. SumFunctionOnSet(g, D) = g[y] + SumFunctionOnSet(f, DOMAIN f)
  BY ONLY <1>3, <1>4, <1>5
<1>8. QED
  BY ONLY <1>1, <1>2, <1>6, <1>7, g[y] \in Int

-----------------------------------------------------------------------------
(* What one handler writes *)

\* One row of one table gets another status.
LEMMA StatusTurned ==
    ASSUME ~ Concurrent, NEW p, NEW t, t \in DOMAIN db, NEW k, NEW from, NEW to, Turn(p, t, k, from, to)
    PROVE  /\ DOMAIN db' = DOMAIN db
           /\ db'[t] = [db[t] EXCEPT ![k] = [db[t][k] EXCEPT !.status = to]]
           /\ \A u \in DOMAIN db \ {t} : db'[u] = db[u]
           /\ k \in DOMAIN db[t] /\ db[t][k].status \in from
<1>1. /\ db' = [db EXCEPT ![t][k].status = to]
      /\ k \in DOMAIN db[t] /\ db[t][k].status \in from
  BY SerialRows DEF Turn, Rows, Row, Commit
<1>2. QED
  BY ONLY <1>1, t \in DOMAIN db

\* One row is added to one table.
LEMMA RowCreated ==
    ASSUME ~ Concurrent, NEW p, NEW t, t \in DOMAIN db, NEW row, Create(p, t, row)
    PROVE  /\ DOMAIN db' = DOMAIN db /\ db'[t] = Append(db[t], row)
           /\ \A u \in DOMAIN db \ {t} : db'[u] = db[u]
<1>1. db' = [db EXCEPT ![t] = Append(@, row)]
  BY CreateTouches, Zenon
<1>2. QED
  BY ONLY <1>1, t \in DOMAIN db

\* The same of a row that has got a name.
LEMMA RowTurned ==
    ASSUME ~ Concurrent, NEW p, NEW t, t \in DOMAIN db, NEW k, NEW from, NEW to, Turn(p, t, k, from, to),
           NEW m, m = [db[t][k] EXCEPT !.status = to]
    PROVE  /\ DOMAIN db' = DOMAIN db /\ db'[t] = [db[t] EXCEPT ![k] = m]
           /\ \A u \in DOMAIN db \ {t} : db'[u] = db[u]
           /\ k \in DOMAIN db[t] /\ db[t][k].status \in from
<1>1. /\ db' = [db EXCEPT ![t][k].status = to]
      /\ k \in DOMAIN db[t] /\ db[t][k].status \in from
  BY SerialRows DEF Turn, Rows, Row, Commit
<1>2. QED
  BY ONLY <1>1, t \in DOMAIN db, m = [db[t][k] EXCEPT !.status = to]

\* A row of another table, or none of them, is written.
LEMMA ElsewhereWritten ==
    ASSUME NEW names, Keeps(names), NEW others, names \cap others = {}
    PROVE  DOMAIN db' = DOMAIN db /\ \A t \in others \cap DOMAIN db : db'[t] = db[t]
  BY DEF Keeps


-----------------------------------------------------------------------------
(* Volumes that are billed *)

SurfaceRows == [approved : BOOLEAN]

VolumeRows == [status : {"official", "preliminary"}, surface : Nat, billed : BOOLEAN]

\* An official volume names a surface that is approved by now, and no other is billed.
SurveyRowsSound(surfaces, volumes) ==
    /\ surfaces \in Seq(SurfaceRows)
    /\ volumes \in Seq(VolumeRows)
    /\ \A k \in DOMAIN volumes :
         /\ volumes[k].surface \in {0} \cup DOMAIN surfaces
         /\ volumes[k].billed => volumes[k].status = "official"
         /\ volumes[k].status = "official" =>
              volumes[k].surface # 0 /\ surfaces[volumes[k].surface].approved

SurveySound == {"surface", "volume"} \subseteq DOMAIN db /\ SurveyRowsSound(db["surface"], db["volume"])

\* The survey's invariant implies the property.
LEMMA SurveySoundSays == ASSUME SurveySound PROVE BilledWasApproved
  BY DEF SurveySound, SurveyRowsSound, BilledWasApproved

\* It is about two tables: where they are sound after a step, it holds again.
LEMMA SurveySoundAgain ==
    ASSUME SurveySound, NEW surfaces, NEW volumes, SurveyRowsSound(surfaces, volumes), DOMAIN db' = DOMAIN db,
           db'["surface"] = surfaces, db'["volume"] = volumes
    PROVE  SurveySound'
<1>1. SurveyRowsSound(db'["surface"], db'["volume"])
  BY ONLY SurveyRowsSound(surfaces, volumes), db'["surface"] = surfaces, db'["volume"] = volumes
<1>2. {"surface", "volume"} \subseteq DOMAIN db'
  BY DEF SurveySound
<1>3. QED
  BY <1>1, <1>2 DEF SurveySound

\* A step that writes neither of them keeps it.
LEMMA SurveyLeftAlone ==
    ASSUME SurveySound, NEW names, Keeps(names), names \cap {"surface", "volume"} = {}
    PROVE  SurveySound'
<1>1. db'["surface"] = db["surface"] /\ db'["volume"] = db["volume"] /\ DOMAIN db' = DOMAIN db
  BY DEF Keeps, SurveySound
<1>2. QED
  BY <1>1, SurveySoundAgain DEF SurveySound

\* A surface is named.
LEMMA SurveyAfterSurface ==
    ASSUME NEW surfaces, NEW volumes, SurveyRowsSound(surfaces, volumes), NEW row \in SurfaceRows
    PROVE  SurveyRowsSound(Append(surfaces, row), volumes)
<1>1. PICK new : new = Append(surfaces, row)
  OBVIOUS
<1>2. surfaces \in Seq(SurfaceRows) /\ 0 \notin DOMAIN surfaces
  BY TableRows DEF SurveyRowsSound
<1>3. /\ new \in Seq(SurfaceRows) /\ DOMAIN surfaces \subseteq DOMAIN new
      /\ \A k \in DOMAIN surfaces : new[k] = surfaces[k]
  BY <1>1, <1>2, TableInsert
<1>4. QED
  BY <1>1, <1>3 DEF SurveyRowsSound

\* A surface is approved.
LEMMA SurveyAfterApproval ==
    ASSUME NEW surfaces, NEW volumes, SurveyRowsSound(surfaces, volumes), NEW k \in DOMAIN surfaces,
           NEW row \in SurfaceRows, row.approved
    PROVE  SurveyRowsSound([surfaces EXCEPT ![k] = row], volumes)
<1>1. PICK new : new = [surfaces EXCEPT ![k] = row]
  OBVIOUS
<1>2. surfaces \in Seq(SurfaceRows)
  BY DEF SurveyRowsSound
<1>3. /\ new \in Seq(SurfaceRows) /\ DOMAIN surfaces = DOMAIN new
      /\ new[k] = row /\ \A x \in DOMAIN surfaces \ {k} : new[x] = surfaces[x]
  BY <1>1, <1>2, TableUpdate
<1>4. \A x \in DOMAIN surfaces : surfaces[x].approved => new[x].approved
  BY <1>3
<1>5. 0 \notin DOMAIN surfaces
  BY <1>2, TableRows
<1>6. QED
  BY <1>1, <1>3, <1>4, <1>5 DEF SurveyRowsSound

\* A volume is calculated.
LEMMA SurveyAfterVolume ==
    ASSUME NEW surfaces, NEW volumes, SurveyRowsSound(surfaces, volumes), NEW row \in VolumeRows,
           row.surface \in {0} \cup DOMAIN surfaces, ~ row.billed,
           row.status = "official" => row.surface # 0 /\ surfaces[row.surface].approved
    PROVE  SurveyRowsSound(surfaces, Append(volumes, row))
<1>1. PICK new : new = Append(volumes, row)
  OBVIOUS
<1>2. volumes \in Seq(VolumeRows)
  BY DEF SurveyRowsSound
<1>3. /\ new \in Seq(VolumeRows) /\ DOMAIN new = DOMAIN volumes \cup {Len(volumes) + 1}
      /\ new[Len(volumes) + 1] = row /\ \A k \in DOMAIN volumes : new[k] = volumes[k]
  BY <1>1, <1>2, TableInsert
<1>4. QED
  BY <1>1, <1>3 DEF SurveyRowsSound

\* An official volume is billed.
LEMMA SurveyAfterBilling ==
    ASSUME NEW surfaces, NEW volumes, SurveyRowsSound(surfaces, volumes), NEW k \in DOMAIN volumes,
           volumes[k].status = "official", NEW row, row = [volumes[k] EXCEPT !.billed = TRUE]
    PROVE  SurveyRowsSound(surfaces, [volumes EXCEPT ![k] = row])
<1>1. PICK new : new = [volumes EXCEPT ![k] = row]
  OBVIOUS
<1>2. volumes \in Seq(VolumeRows)
  BY DEF SurveyRowsSound
<1>3. volumes[k] \in VolumeRows
  BY <1>2, TableRows
<1>4. /\ row \in VolumeRows /\ row.status = volumes[k].status /\ row.surface = volumes[k].surface
  BY <1>3 DEF VolumeRows
<1>5. /\ new \in Seq(VolumeRows) /\ DOMAIN volumes = DOMAIN new
      /\ new[k] = row /\ \A x \in DOMAIN volumes \ {k} : new[x] = volumes[x]
  BY <1>1, <1>2, <1>4, TableUpdate
<1>6. QED
  BY <1>1, <1>4, <1>5 DEF SurveyRowsSound

\* Every route of the survey keeps it.
LEMMA SurveyStaysSound ==
    ASSUME ~ Concurrent, SurveySound, NEW p, SurveyRoutes(p)
    PROVE  SurveySound'
<1>1. PICK surfaces, volumes : surfaces = db["surface"] /\ volumes = db["volume"]
  OBVIOUS
<1>2. /\ {"surface", "volume"} \subseteq DOMAIN db /\ SurveyRowsSound(surfaces, volumes)
      /\ surfaces \in Seq(SurfaceRows) /\ volumes \in Seq(VolumeRows)
  BY <1>1 DEF SurveySound, SurveyRowsSound
<1>3. CASE Create(p, "surface", DesignSurface)
  <2>1. DOMAIN db' = DOMAIN db /\ db'["surface"] = Append(surfaces, DesignSurface) /\ db'["volume"] = volumes
    BY <1>1, <1>2, <1>3, RowCreated
  <2>2. SurveyRowsSound(Append(surfaces, DesignSurface), volumes)
    BY <1>2, SurveyAfterSurface DEF DesignSurface, SurfaceRows
  <2>3. QED
    BY <2>1, <2>2, SurveySoundAgain
<1>4. ASSUME NEW k, ApproveDesignSurface(p, k) PROVE SurveySound'
  <2>1. PICK row : row = [surfaces[k] EXCEPT !.approved = TRUE]
    OBVIOUS
  <2>2. k \in DOMAIN surfaces /\ db' = [db EXCEPT !["surface"] = [surfaces EXCEPT ![k] = row]]
    BY <1>1, <1>4, <2>1, SerialRows DEF ApproveDesignSurface, Amend, Rows, Commit
  <2>3. surfaces[k] \in SurfaceRows
    BY <1>2, <2>2, TableRows
  <2>4. row \in SurfaceRows /\ row.approved
    BY <2>1, <2>3 DEF SurfaceRows
  <2>5. SurveyRowsSound([surfaces EXCEPT ![k] = row], volumes)
    BY <1>2, <2>2, <2>4, SurveyAfterApproval
  <2>6. DOMAIN db' = DOMAIN db /\ db'["surface"] = [surfaces EXCEPT ![k] = row] /\ db'["volume"] = volumes
    BY ONLY <1>1, <1>2, <2>2
  <2>7. QED
    BY <2>5, <2>6, SurveySoundAgain
<1>5. ASSUME NEW k \in {0} \cup Rows(p, "surface"), CalculateEarthworksVolume(p, k) PROVE SurveySound'
  <2>1. PICK row : row = EarthworksVolume(k, IF k # 0 /\ Row(p, "surface", k).approved THEN "official"
                                             ELSE "preliminary")
    OBVIOUS
  <2>2. k \in {0} \cup DOMAIN surfaces /\ (k # 0 => Row(p, "surface", k) = surfaces[k])
    BY <1>1, <1>5, SerialRows DEF Rows, Row
  <2>3. k \in Nat
    BY <1>2, <2>2, TableRows
  <2>4. /\ row \in VolumeRows /\ row.surface = k /\ ~ row.billed
        /\ row.status = "official" => k # 0 /\ surfaces[k].approved
    BY <2>1, <2>2, <2>3 DEF EarthworksVolume, VolumeRows
  <2>5. SurveyRowsSound(surfaces, Append(volumes, row))
    BY <1>2, <2>2, <2>4, SurveyAfterVolume
  <2>6. Create(p, "volume", row)
    BY <1>5, <2>1 DEF CalculateEarthworksVolume
  <2>7. DOMAIN db' = DOMAIN db /\ db'["volume"] = Append(volumes, row) /\ db'["surface"] = surfaces
    BY <1>1, <1>2, <2>6, RowCreated
  <2>8. QED
    BY <2>5, <2>7, SurveySoundAgain
<1>6. ASSUME NEW k, SubmitForBilling(p, k) PROVE SurveySound'
  <2>1. PICK row : row = [volumes[k] EXCEPT !.billed = TRUE]
    OBVIOUS
  <2>2. /\ k \in DOMAIN volumes /\ volumes[k].status = "official"
        /\ db' = [db EXCEPT !["volume"] = [volumes EXCEPT ![k] = row]]
    BY <1>1, <1>6, <2>1, SerialRows DEF SubmitForBilling, Amend, Rows, Row, Commit
  <2>3. SurveyRowsSound(surfaces, [volumes EXCEPT ![k] = row])
    BY <1>2, <2>1, <2>2, SurveyAfterBilling
  <2>4. DOMAIN db' = DOMAIN db /\ db'["volume"] = [volumes EXCEPT ![k] = row] /\ db'["surface"] = surfaces
    BY ONLY <1>1, <1>2, <2>2
  <2>5. QED
    BY <2>3, <2>4, SurveySoundAgain
<1>7. CASE Keeps({"asbuilt"})
  BY <1>7, SurveyLeftAlone
<1>8. CASE Create(p, "asbuilt", AsBuiltRecord)
  BY <1>7, <1>8, CreateKeeps
<1>9. ASSUME NEW k, LockAsBuilt(p, k) PROVE SurveySound'
  BY <1>7, <1>9, SerialRows DEF LockAsBuilt, Amend, Commit, Keeps
<1>10. ASSUME NEW k, NEW data, UpdateAsBuilt(p, k, data) PROVE SurveySound'
  BY <1>7, <1>10, SerialRows DEF UpdateAsBuilt, Amend, Commit, Keeps
<1>11. QED
  BY <1>3, <1>4, <1>5, <1>6, <1>8, <1>9, <1>10 DEF SurveyRoutes

-----------------------------------------------------------------------------
(* What is billed to the client *)

IsTable(t) == \E R : t \in Seq(R)

\* A table with a row more.
LEMMA TableGrows ==
    ASSUME NEW t, IsTable(t), NEW row
    PROVE  /\ IsTable(Append(t, row)) /\ Len(t) + 1 \notin DOMAIN t
           /\ DOMAIN Append(t, row) = DOMAIN t \cup {Len(t) + 1} /\ Append(t, row)[Len(t) + 1] = row
           /\ \A k \in DOMAIN t : Append(t, row)[k] = t[k]
<1>1. PICK R : t \in Seq(R)
  BY DEF IsTable
<1>2. PICK S : S = R \cup {row}
  OBVIOUS
<1>3. t \in Seq(S) /\ row \in S
  BY <1>1, <1>2
<1>4. /\ Append(t, row) \in Seq(S) /\ DOMAIN Append(t, row) = DOMAIN t \cup {Len(t) + 1}
      /\ Append(t, row)[Len(t) + 1] = row /\ \A k \in DOMAIN t : Append(t, row)[k] = t[k]
  BY ONLY <1>3, TableInsert
<1>5. Len(t) + 1 \notin DOMAIN t
  BY ONLY <1>3, TableRows
<1>6. IsTable(Append(t, row))
  BY ONLY <1>4, Zenon DEF IsTable
<1>7. QED
  BY ONLY <1>4, <1>5, <1>6

\* A table with a row changed.
LEMMA TableChanges ==
    ASSUME NEW t, IsTable(t), NEW y \in DOMAIN t, NEW row, NEW new, new = [t EXCEPT ![y] = row]
    PROVE  /\ IsTable(new) /\ DOMAIN new = DOMAIN t /\ new[y] = row
           /\ \A k \in DOMAIN t \ {y} : new[k] = t[k]
<1>1. PICK R : t \in Seq(R)
  BY DEF IsTable
<1>2. PICK S : S = R \cup {row}
  OBVIOUS
<1>3. t \in Seq(S) /\ row \in S
  BY <1>1, <1>2
<1>4. [t EXCEPT ![y] = row] \in Seq(S)
  BY ONLY <1>3, y \in DOMAIN t, TableUpdate
<1>5. QED
  BY ONLY <1>4, y \in DOMAIN t, new = [t EXCEPT ![y] = row] DEF IsTable

\* A table has finitely many rows, and none numbered 0.
LEMMA TableIsFinite == ASSUME NEW t, IsTable(t) PROVE IsFiniteSet(DOMAIN t) /\ 0 \notin DOMAIN t
  BY TableRows DEF IsTable

LinesOn(lines, certificates) == {l \in DOMAIN lines : lines[l].certificate \in certificates}

\* As BilledOn, of the lines alone.
BilledBy(lines, certificates) == SumOf(lines, "quantity", LinesOn(lines, certificates))

Counted(certificates) == {c \in DOMAIN certificates : certificates[c].status # "rejected"}

Approved(variations) == {v \in DOMAIN variations : variations[v].status = "approved"}

\* As ApprovedVariation, of the variations alone.
AgreedBy(variations) == SumOf(variations, "quantity", Approved(variations))

LinesTyped(certificates, lines) ==
    /\ IsTable(lines)
    /\ \A l \in DOMAIN lines : lines[l].certificate \in DOMAIN certificates /\ lines[l].quantity \in Nat

VariationsTyped(variations) ==
    /\ IsTable(variations)
    /\ \A v \in DOMAIN variations :
         {"status", "quantity"} \subseteq DOMAIN variations[v] /\ variations[v].quantity \in Nat

\* The gross of a certificate is that of its lines, and all lines of those that were
\* not rejected are within what is agreed.
BilledRowsSound(certificates, lines, variations) ==
    /\ IsTable(certificates)
    /\ LinesTyped(certificates, lines)
    /\ VariationsTyped(variations)
    /\ \A c \in DOMAIN certificates :
         /\ {"status", "gross", "retention", "net"} \subseteq DOMAIN certificates[c]
         /\ certificates[c].gross = BilledBy(lines, {c})
    /\ BilledBy(lines, Counted(certificates)) <= Contracted + AgreedBy(variations)

\* What is billed on some certificates is a sum of finitely many naturals.
LEMMA BilledIsWhole ==
    ASSUME NEW certificates, NEW lines, LinesTyped(certificates, lines), NEW S
    PROVE  /\ IsFiniteSet(LinesOn(lines, S)) /\ LinesOn(lines, S) \subseteq DOMAIN lines
           /\ \A l \in LinesOn(lines, S) : lines[l]["quantity"] \in Nat
           /\ BilledBy(lines, S) \in Int
<1>1. IsFiniteSet(LinesOn(lines, S)) /\ LinesOn(lines, S) \subseteq DOMAIN lines
  BY TableIsFinite, FS_Subset DEF LinesTyped, LinesOn
<1>2. \A l \in LinesOn(lines, S) : lines[l]["quantity"] \in Nat
  BY DEF LinesTyped, LinesOn
<1>3. PICK Q : Q = LinesOn(lines, S)
  OBVIOUS
<1>4. IsFiniteSet(Q) /\ Q \in SUBSET DOMAIN lines /\ \A l \in Q : lines[l]["quantity"] \in Int
  BY <1>1, <1>2, <1>3
<1>5. SumOf(lines, "quantity", Q) \in Int
  BY ONLY <1>4, SumOfIsInteger
<1>6. QED
  BY <1>1, <1>2, <1>3, <1>5 DEF BilledBy

\* So is what approved variations add.
LEMMA AgreedIsWhole ==
    ASSUME NEW variations, VariationsTyped(variations)
    PROVE  /\ IsFiniteSet(Approved(variations)) /\ Approved(variations) \subseteq DOMAIN variations
           /\ \A v \in Approved(variations) : variations[v]["quantity"] \in Nat
           /\ AgreedBy(variations) \in Int
<1>1. IsFiniteSet(Approved(variations)) /\ Approved(variations) \subseteq DOMAIN variations
  BY TableIsFinite, FS_Subset DEF VariationsTyped, Approved
<1>2. \A v \in Approved(variations) : variations[v]["quantity"] \in Nat
  BY DEF VariationsTyped, Approved
<1>3. PICK Q : Q = Approved(variations)
  OBVIOUS
<1>4. IsFiniteSet(Q) /\ Q \in SUBSET DOMAIN variations /\ \A v \in Q : variations[v]["quantity"] \in Int
  BY <1>1, <1>2, <1>3
<1>5. SumOf(variations, "quantity", Q) \in Int
  BY ONLY <1>4, SumOfIsInteger
<1>6. QED
  BY <1>1, <1>2, <1>3, <1>5 DEF AgreedBy

\* Fewer certificates count: no more is billed.
LEMMA FewerCount ==
    ASSUME NEW certificates, NEW lines, LinesTyped(certificates, lines), NEW S, NEW R,
           LinesOn(lines, R) \subseteq LinesOn(lines, S)
    PROVE  BilledBy(lines, R) <= BilledBy(lines, S)
<1>1. PICK Q : Q = LinesOn(lines, S)
  OBVIOUS
<1>2. IsFiniteSet(Q) /\ Q \subseteq DOMAIN lines /\ \A l \in Q : lines[l]["quantity"] \in Nat
  BY <1>1, BilledIsWhole
<1>3. PICK T : T = LinesOn(lines, R)
  OBVIOUS
<1>4. T \subseteq Q
  BY <1>1, <1>3
<1>5. SumOf(lines, "quantity", T) <= SumOf(lines, "quantity", Q)
  BY ONLY <1>2, <1>4, SumOfFewer
<1>6. QED
  BY <1>1, <1>3, <1>5 DEF BilledBy

\* A certificate gets another status or another retention; it counts only if it did.
LEMMA BilledAfterCertificate ==
    ASSUME NEW certificates, NEW lines, NEW variations, BilledRowsSound(certificates, lines, variations),
           NEW c \in DOMAIN certificates, NEW row, DOMAIN row = DOMAIN certificates[c],
           row.gross = certificates[c].gross,
           row.status # "rejected" => certificates[c].status # "rejected"
    PROVE  BilledRowsSound([certificates EXCEPT ![c] = row], lines, variations)
<1>1. PICK new : new = [certificates EXCEPT ![c] = row]
  OBVIOUS
<1>2. /\ IsTable(new) /\ DOMAIN new = DOMAIN certificates /\ new[c] = row
      /\ \A k \in DOMAIN certificates \ {c} : new[k] = certificates[k]
  <2>1. IsTable(certificates)
    BY DEF BilledRowsSound
  <2>2. QED
    BY ONLY <1>1, <2>1, c \in DOMAIN certificates, TableChanges
<1>3. LinesTyped(certificates, lines) /\ LinesTyped(new, lines)
  BY <1>2 DEF BilledRowsSound, LinesTyped
<1>4. Counted(new) \subseteq Counted(certificates)
  BY <1>2 DEF Counted
<1>5. LinesOn(lines, Counted(new)) \subseteq LinesOn(lines, Counted(certificates))
  BY <1>4 DEF LinesOn
<1>6. BilledBy(lines, Counted(new)) <= BilledBy(lines, Counted(certificates))
  BY <1>3, <1>5, FewerCount
<1>7. BilledBy(lines, Counted(new)) \in Int /\ BilledBy(lines, Counted(certificates)) \in Int
  BY <1>3, BilledIsWhole
<1>8. Contracted \in Int /\ AgreedBy(variations) \in Int
  BY AgreedIsWhole, ContractsAssumption DEF BilledRowsSound
<1>9. BilledBy(lines, Counted(new)) <= Contracted + AgreedBy(variations)
  BY <1>6, <1>7, <1>8 DEF BilledRowsSound
<1>10. \A k \in DOMAIN new :
          /\ {"status", "gross", "retention", "net"} \subseteq DOMAIN new[k]
          /\ new[k].gross = BilledBy(lines, {k})
  BY <1>2 DEF BilledRowsSound
<1>11. BilledRowsSound(new, lines, variations)
  BY <1>2, <1>3, <1>9, <1>10 DEF BilledRowsSound
<1>12. QED
  BY <1>1, <1>11

\* A certificate is begun.
LEMMA BilledAfterDraft ==
    ASSUME NEW certificates, NEW lines, NEW variations, BilledRowsSound(certificates, lines, variations),
           NEW row, {"status", "gross", "retention", "net"} \subseteq DOMAIN row, row.gross = 0
    PROVE  BilledRowsSound(Append(certificates, row), lines, variations)
<1>1. PICK new : new = Append(certificates, row)
  OBVIOUS
<1>2. PICK y : y = Len(certificates) + 1
  OBVIOUS
<1>3. /\ IsTable(new) /\ y \notin DOMAIN certificates
      /\ DOMAIN new = DOMAIN certificates \cup {y} /\ new[y] = row
      /\ \A k \in DOMAIN certificates : new[k] = certificates[k]
  <2>1. IsTable(certificates)
    BY DEF BilledRowsSound
  <2>2. QED
    BY ONLY <1>1, <1>2, <2>1, TableGrows
<1>4. LinesTyped(certificates, lines) /\ LinesTyped(new, lines)
  BY <1>3 DEF BilledRowsSound, LinesTyped
<1>5. LinesOn(lines, Counted(new)) = LinesOn(lines, Counted(certificates))
  BY <1>3, <1>4 DEF LinesOn, LinesTyped, Counted
<1>6. BilledBy(lines, Counted(new)) = BilledBy(lines, Counted(certificates))
  BY <1>5 DEF BilledBy
<1>7. LinesOn(lines, {y}) = {}
  BY <1>3, <1>4 DEF LinesOn, LinesTyped
<1>8. BilledBy(lines, {y}) = 0
  BY <1>7, SumOfNoRows DEF BilledBy
<1>9. \A k \in DOMAIN new :
          /\ {"status", "gross", "retention", "net"} \subseteq DOMAIN new[k]
          /\ new[k].gross = BilledBy(lines, {k})
  BY <1>3, <1>8 DEF BilledRowsSound
<1>10. BilledRowsSound(new, lines, variations)
  BY <1>3, <1>4, <1>6, <1>9 DEF BilledRowsSound
<1>11. QED
  BY <1>1, <1>10

\* Variations are added or decided; what was approved stays approved.
LEMMA BilledAfterVariations ==
    ASSUME NEW certificates, NEW lines, NEW variations, BilledRowsSound(certificates, lines, variations),
           NEW new, VariationsTyped(new), Approved(variations) \subseteq Approved(new),
           \A v \in Approved(variations) : new[v].quantity = variations[v].quantity
    PROVE  BilledRowsSound(certificates, lines, new)
<1>1. PICK A, B : A = Approved(variations) /\ B = Approved(new)
  OBVIOUS
<1>2. VariationsTyped(variations)
  BY DEF BilledRowsSound
<1>3. /\ IsFiniteSet(A) /\ A \subseteq DOMAIN variations
      /\ IsFiniteSet(B) /\ B \subseteq DOMAIN new /\ (\A v \in B : new[v]["quantity"] \in Nat)
      /\ AgreedBy(variations) \in Int /\ AgreedBy(new) \in Int
  BY <1>1, <1>2, AgreedIsWhole
<1>4. A \subseteq B /\ A \subseteq DOMAIN new /\ \A v \in A : new[v]["quantity"] = variations[v]["quantity"]
  BY <1>1, <1>3
<1>5. SumOf(new, "quantity", A) <= SumOf(new, "quantity", B)
  BY ONLY <1>3, <1>4, SumOfFewer
<1>6. SumOf(new, "quantity", A) = SumOf(variations, "quantity", A)
  BY ONLY <1>3, <1>4, SumOfSameRows
<1>7. AgreedBy(variations) <= AgreedBy(new)
  BY <1>1, <1>5, <1>6 DEF AgreedBy
<1>8. BilledBy(lines, Counted(certificates)) \in Int /\ Contracted \in Int
  BY BilledIsWhole, ContractsAssumption DEF BilledRowsSound
<1>9. QED
  BY <1>3, <1>7, <1>8 DEF BilledRowsSound

\* One line more counts for its certificate, and for all that count if that one does.
LEMMA BilledWithLine ==
    ASSUME NEW certificates, NEW lines, LinesTyped(certificates, lines), NEW row, row.quantity \in Nat, NEW S
    PROVE  BilledBy(Append(lines, row), S)
             = BilledBy(lines, S) + (IF row.certificate \in S THEN row.quantity ELSE 0)
<1>0. PICK new : new = Append(lines, row)
  OBVIOUS
<1>1. PICK y : y = Len(lines) + 1
  OBVIOUS
<1>2. /\ y \notin DOMAIN lines /\ DOMAIN new = DOMAIN lines \cup {y} /\ new[y] = row
      /\ \A l \in DOMAIN lines : new[l] = lines[l]
  <2>1. IsTable(lines)
    BY DEF LinesTyped
  <2>2. QED
    BY ONLY <1>0, <1>1, <2>1, TableGrows
<1>3. PICK A, B : A = LinesOn(lines, S) /\ B = LinesOn(new, S)
  OBVIOUS
<1>4. /\ IsFiniteSet(A) /\ A \subseteq DOMAIN lines /\ (\A l \in A : lines[l]["quantity"] \in Int)
      /\ BilledBy(lines, S) \in Int
  BY <1>3, BilledIsWhole
<1>5. \A l \in A : new[l]["quantity"] = lines[l]["quantity"]
  BY <1>2, <1>4
<1>6. B \subseteq DOMAIN new /\ y \notin A
  BY <1>2, <1>3, <1>4 DEF LinesOn
<1>7. CASE row.certificate \in S
  <2>1. B = A \cup {y}
    BY <1>2, <1>3, <1>7 DEF LinesOn
  <2>2. new[y]["quantity"] \in Int /\ new[y]["quantity"] = row.quantity
    BY <1>2
  <2>3. SumOf(new, "quantity", B) = SumOf(lines, "quantity", A) + new[y]["quantity"]
    BY ONLY <1>4, <1>5, <1>6, <2>1, <2>2, SumOfOneMore
  <2>4. QED
    BY <1>0, <1>3, <1>7, <2>2, <2>3 DEF BilledBy
<1>8. CASE row.certificate \notin S
  <2>1. B = A
    BY <1>2, <1>3, <1>8 DEF LinesOn
  <2>2. A \subseteq DOMAIN new
    BY <1>6, <2>1
  <2>3. SumOf(new, "quantity", A) = SumOf(lines, "quantity", A)
    BY ONLY <1>4, <1>5, <2>2, SumOfSameRows
  <2>4. QED
    BY <1>0, <1>3, <1>4, <1>8, <2>1, <2>3 DEF BilledBy
<1>9. QED
  BY <1>7, <1>8

\* A line is added to a certificate that counts.
LEMMA BilledAfterLine ==
    ASSUME NEW certificates, NEW lines, NEW variations, BilledRowsSound(certificates, lines, variations),
           NEW c \in DOMAIN certificates, certificates[c].status # "rejected",
           NEW line, line.certificate = c, line.quantity \in Nat,
           BilledBy(lines, Counted(certificates)) + line.quantity <= Contracted + AgreedBy(variations),
           NEW row, DOMAIN row = DOMAIN certificates[c], row.status = certificates[c].status,
           row.gross = BilledBy(Append(lines, line), {c})
    PROVE  BilledRowsSound([certificates EXCEPT ![c] = row], Append(lines, line), variations)
<1>1. PICK new, all : new = [certificates EXCEPT ![c] = row] /\ all = Append(lines, line)
  OBVIOUS
<1>2. IsTable(certificates) /\ LinesTyped(certificates, lines)
  BY DEF BilledRowsSound
<1>3. /\ IsTable(new) /\ DOMAIN new = DOMAIN certificates /\ new[c] = row
      /\ \A k \in DOMAIN certificates \ {c} : new[k] = certificates[k]
  BY ONLY <1>1, <1>2, c \in DOMAIN certificates, TableChanges
<1>4. LinesTyped(new, all)
  <2>1. /\ IsTable(all) /\ DOMAIN all = DOMAIN lines \cup {Len(lines) + 1} /\ all[Len(lines) + 1] = line
        /\ \A l \in DOMAIN lines : all[l] = lines[l]
    <3>1. IsTable(lines)
      BY <1>2 DEF LinesTyped
    <3>2. QED
      BY ONLY <1>1, <3>1, TableGrows
  <2>2. QED
    BY <1>2, <1>3, <2>1 DEF LinesTyped
<1>5. Counted(new) = Counted(certificates) /\ c \in Counted(certificates)
  BY <1>3 DEF Counted
<1>6. \A S : BilledBy(all, S) = BilledBy(lines, S) + (IF c \in S THEN line.quantity ELSE 0)
  <2>1. line.certificate = c /\ line.quantity \in Nat
    OBVIOUS
  <2>2. ASSUME NEW S
        PROVE  BilledBy(all, S) = BilledBy(lines, S) + (IF line.certificate \in S THEN line.quantity ELSE 0)
    <3>1. BilledBy(Append(lines, line), S)
            = BilledBy(lines, S) + (IF line.certificate \in S THEN line.quantity ELSE 0)
      BY ONLY <1>2, <2>1, BilledWithLine, Zenon
    <3>2. QED
      BY ONLY <1>1, <3>1
  <2>3. QED
    BY <2>1, <2>2
<1>7. BilledBy(all, Counted(new)) <= Contracted + AgreedBy(variations)
  BY <1>5, <1>6
<1>8. ASSUME NEW k \in DOMAIN new
      PROVE  /\ {"status", "gross", "retention", "net"} \subseteq DOMAIN new[k]
             /\ new[k].gross = BilledBy(all, {k})
  <2>1. CASE k = c
    BY <1>1, <1>3, <2>1 DEF BilledRowsSound
  <2>2. CASE k # c
    <3>1. BilledBy(all, {k}) = BilledBy(lines, {k})
      <4>1. BilledBy(lines, {k}) \in Int
        BY <1>2, BilledIsWhole
      <4>2. QED
        BY <1>6, <2>2, <4>1
    <3>2. QED
      BY <1>3, <1>8, <2>2, <3>1 DEF BilledRowsSound
  <2>3. QED
    BY <2>1, <2>2
<1>9. BilledRowsSound(new, all, variations)
  BY <1>3, <1>4, <1>7, <1>8 DEF BilledRowsSound
<1>10. QED
  BY <1>1, <1>9

BilledSound ==
    /\ {"certificate", "certline", "variation"} \subseteq DOMAIN db
    /\ BilledRowsSound(db["certificate"], db["certline"], db["variation"])

\* Where the three tables are sound after a step, the invariant holds again.
LEMMA BilledSoundAgain ==
    ASSUME BilledSound, NEW certificates, NEW lines, NEW variations,
           BilledRowsSound(certificates, lines, variations), DOMAIN db' = DOMAIN db,
           db'["certificate"] = certificates, db'["certline"] = lines, db'["variation"] = variations
    PROVE  BilledSound'
<1>1. BilledRowsSound(db'["certificate"], db'["certline"], db'["variation"])
  BY ONLY BilledRowsSound(certificates, lines, variations),
     db'["certificate"] = certificates, db'["certline"] = lines, db'["variation"] = variations
<1>2. {"certificate", "certline", "variation"} \subseteq DOMAIN db'
  BY DEF BilledSound
<1>3. QED
  BY <1>1, <1>2 DEF BilledSound

\* A step that writes none of the three tables keeps it.
LEMMA BilledLeftAlone ==
    ASSUME BilledSound, NEW names, Keeps(names), names \cap {"certificate", "certline", "variation"} = {}
    PROVE  BilledSound'
<1>1. /\ db'["certificate"] = db["certificate"] /\ db'["certline"] = db["certline"]
      /\ db'["variation"] = db["variation"] /\ DOMAIN db' = DOMAIN db
  BY DEF Keeps, BilledSound
<1>2. QED
  BY <1>1, BilledSoundAgain DEF BilledSound

\* The certificate of a row that is written with the same gross.
LEMMA BilledAfterStatus ==
    ASSUME BilledSound, NEW c \in DOMAIN db["certificate"], NEW row, DOMAIN row = DOMAIN db["certificate"][c],
           row.gross = db["certificate"][c].gross,
           row.status # "rejected" => db["certificate"][c].status # "rejected",
           DOMAIN db' = DOMAIN db, db'["certificate"] = [db["certificate"] EXCEPT ![c] = row],
           db'["certline"] = db["certline"], db'["variation"] = db["variation"]
    PROVE  BilledSound'
<1>1. PICK certificates, lines, variations :
        certificates = db["certificate"] /\ lines = db["certline"] /\ variations = db["variation"]
  OBVIOUS
<1>2. BilledRowsSound(certificates, lines, variations)
  BY <1>1 DEF BilledSound
<1>3. /\ c \in DOMAIN certificates /\ DOMAIN row = DOMAIN certificates[c] /\ row.gross = certificates[c].gross
      /\ row.status # "rejected" => certificates[c].status # "rejected"
  BY <1>1
<1>4. BilledRowsSound([certificates EXCEPT ![c] = row], lines, variations)
  BY ONLY <1>2, <1>3, BilledAfterCertificate
<1>5. /\ DOMAIN db' = DOMAIN db /\ db'["certificate"] = [certificates EXCEPT ![c] = row]
      /\ db'["certline"] = lines /\ db'["variation"] = variations
  BY <1>1
<1>6. QED
  BY <1>4, <1>5, BilledSoundAgain

\* A variation that was pending is decided.
LEMMA BilledAfterDecision ==
    ASSUME BilledSound, NEW v \in DOMAIN db["variation"], db["variation"][v].status = "pending", NEW to,
           NEW row, row = [db["variation"][v] EXCEPT !.status = to],
           DOMAIN db' = DOMAIN db, db'["variation"] = [db["variation"] EXCEPT ![v] = row],
           db'["certificate"] = db["certificate"], db'["certline"] = db["certline"]
    PROVE  BilledSound'
<1>1. PICK certificates, lines, variations :
        certificates = db["certificate"] /\ lines = db["certline"] /\ variations = db["variation"]
  OBVIOUS
<1>2. BilledRowsSound(certificates, lines, variations) /\ VariationsTyped(variations)
  BY <1>1 DEF BilledSound, BilledRowsSound
<1>3. v \in DOMAIN variations /\ variations[v].status = "pending" /\ row = [variations[v] EXCEPT !.status = to]
  BY <1>1
<1>4. PICK new : new = [variations EXCEPT ![v] = row]
  OBVIOUS
<1>5. IsTable(variations)
  BY <1>2 DEF VariationsTyped
<1>6. /\ IsTable(new) /\ DOMAIN new = DOMAIN variations /\ new[v] = row
      /\ \A k \in DOMAIN variations \ {v} : new[k] = variations[k]
  BY ONLY <1>3, <1>4, <1>5, TableChanges
<1>7. /\ {"status", "quantity"} \subseteq DOMAIN row /\ row.quantity = variations[v].quantity
      /\ row.quantity \in Nat
  BY <1>2, <1>3 DEF VariationsTyped
<1>8. VariationsTyped(new)
  BY <1>2, <1>6, <1>7 DEF VariationsTyped
<1>9. /\ Approved(variations) \subseteq Approved(new)
      /\ \A x \in Approved(variations) : new[x].quantity = variations[x].quantity
  BY <1>3, <1>6 DEF Approved
<1>10. BilledRowsSound(certificates, lines, new)
  BY ONLY <1>2, <1>8, <1>9, BilledAfterVariations
<1>11. /\ DOMAIN db' = DOMAIN db /\ db'["variation"] = new /\ db'["certificate"] = certificates
       /\ db'["certline"] = lines
  BY <1>1, <1>4
<1>12. QED
  BY <1>10, <1>11, BilledSoundAgain

\* add_certificate_line
LEMMA BilledAfterAddition ==
    ASSUME ~ Concurrent, BilledSound, NEW p, NEW cert, NEW quantity \in Nat, NEW vo,
           NEW contracted \in 0..Contracted, AddCertificateLine(p, cert, quantity, vo, contracted)
    PROVE  BilledSound'
<1>1. PICK certificates, lines, variations :
        certificates = db["certificate"] /\ lines = db["certline"] /\ variations = db["variation"]
  OBVIOUS
<1>2. PICK line : line = CertificateLine(cert, quantity, vo)
  OBVIOUS
<1>3. PICK all : all = Append(lines, line)
  OBVIOUS
<1>4. PICK row : row = [certificates[cert] EXCEPT !.gross = BilledBy(all, {cert})]
  OBVIOUS
<1>5. BilledRowsSound(certificates, lines, variations) /\ {"certificate", "certline", "variation"} \subseteq DOMAIN db
  BY <1>1 DEF BilledSound
<1>6. cert \in DOMAIN certificates /\ MayBill(db, cert, quantity, vo, contracted)
  BY <1>1, SerialRows DEF AddCertificateLine
<1>7. CumulativeBilled(db) = BilledBy(lines, Counted(certificates)) /\ ApprovedVariation(db) = AgreedBy(variations)
  BY <1>1 DEF CumulativeBilled, BilledOn, BilledBy, LinesOn, Counted, ApprovedVariation, AgreedBy, Approved
<1>8. /\ certificates[cert].status = "draft"
      /\ BilledBy(lines, Counted(certificates)) + quantity <= Contracted + AgreedBy(variations)
  <2>1. /\ certificates[cert].status = "draft"
        /\ BilledBy(lines, Counted(certificates)) + quantity <= contracted + AgreedBy(variations)
    BY <1>1, <1>6, <1>7 DEF MayBill
  <2>2. PICK billed, agreed : billed = BilledBy(lines, Counted(certificates)) /\ agreed = AgreedBy(variations)
    OBVIOUS
  <2>3. billed \in Int /\ agreed \in Int
    BY <1>5, <2>2, BilledIsWhole, AgreedIsWhole DEF BilledRowsSound
  <2>4. billed + quantity <= Contracted + agreed
    BY ONLY <2>1, <2>2, <2>3, quantity \in Nat, contracted \in 0..Contracted, ContractsAssumption
  <2>5. QED
    BY <2>1, <2>2, <2>4
<1>9. line.certificate = cert /\ line.quantity = quantity
  BY <1>2 DEF CertificateLine
<1>10. /\ DOMAIN row = DOMAIN certificates[cert] /\ row.status = certificates[cert].status
       /\ row.gross = BilledBy(all, {cert})
  BY <1>4, <1>5, <1>6 DEF BilledRowsSound
<1>11. BilledRowsSound([certificates EXCEPT ![cert] = row], all, variations)
  <2>1. /\ certificates[cert].status # "rejected" /\ line.quantity \in Nat
        /\ BilledBy(lines, Counted(certificates)) + line.quantity <= Contracted + AgreedBy(variations)
        /\ row.gross = BilledBy(Append(lines, line), {cert})
    BY <1>3, <1>8, <1>9, <1>10
  <2>2. QED
    BY ONLY <1>3, <1>5, <1>6, <1>9, <1>10, <2>1, BilledAfterLine
<1>12. PICK new : new = Insert(db, "certline", line)
  OBVIOUS
<1>13. /\ DOMAIN new = DOMAIN db /\ new["certline"] = all /\ new["certificate"] = certificates
       /\ new["variation"] = variations
  BY <1>1, <1>3, <1>5, <1>12 DEF Insert
<1>14. BilledOn(new, {cert}) = BilledBy(all, {cert})
  BY <1>13 DEF BilledOn, BilledBy, LinesOn
<1>15. db' = [new EXCEPT !["certificate"] = [certificates EXCEPT ![cert] = row]]
  <2>1. db' = [new EXCEPT !.certificate[cert].gross = BilledOn(new, {cert})]
    BY <1>2, <1>12, SerialRows DEF AddCertificateLine, Commit
  <2>2. QED
    BY ONLY <1>4, <1>13, <1>14, <2>1
<1>16. /\ DOMAIN db' = DOMAIN db /\ db'["certificate"] = [certificates EXCEPT ![cert] = row]
       /\ db'["certline"] = all /\ db'["variation"] = variations
  BY ONLY <1>5, <1>13, <1>15
<1>17. QED
  BY <1>11, <1>16, BilledSoundAgain

\* Another table is written: the rest of what BilRoutes and ClientNext do.
LEMMA BilledAfterOther ==
    ASSUME BilledSound, Keeps({"tracking", "assignment", "clientrequest", "clientaction"})
    PROVE  BilledSound'
<1>1. PICK names : names = {"tracking", "assignment", "clientrequest", "clientaction"}
  OBVIOUS
<1>2. names \cap {"certificate", "certline", "variation"} = {} /\ Keeps(names)
  BY <1>1
<1>3. QED
  BY <1>2, BilledLeftAlone

\* decide_variation_order
LEMMA BilledAfterVerdict ==
    ASSUME ~ Concurrent, BilledSound, NEW p, NEW v, NEW d, DecideVariationOrder(p, v, d)
    PROVE  BilledSound'
<1>1. PICK row : row = [db["variation"][v] EXCEPT !.status = d]
  OBVIOUS
<1>2. "variation" \in DOMAIN db /\ "certificate" \in DOMAIN db /\ "certline" \in DOMAIN db
  BY DEF BilledSound
<1>3. /\ v \in DOMAIN db["variation"] /\ db["variation"][v].status = "pending"
      /\ db' = [db EXCEPT !.variation[v].status = d]
  BY SerialRows DEF DecideVariationOrder, Turn, Rows, Row, Commit
<1>4. /\ DOMAIN db' = DOMAIN db /\ db'["variation"] = [db["variation"] EXCEPT ![v] = row]
      /\ db'["certificate"] = db["certificate"] /\ db'["certline"] = db["certline"]
  BY ONLY <1>1, <1>2, <1>3
<1>5. BilledSound /\ v \in DOMAIN db["variation"] /\ db["variation"][v].status = "pending"
  BY <1>3
<1>6. QED
  BY ONLY <1>1, <1>4, <1>5, BilledAfterDecision

\* A certificate moves from one status that counts to another.
LEMMA BilledAfterMove ==
    ASSUME BilledSound, NEW c \in DOMAIN db["certificate"], NEW to,
           db["certificate"][c].status # "rejected",
           db' = [db EXCEPT !.certificate[c].status = to]
    PROVE  BilledSound'
<1>1. PICK row : row = [db["certificate"][c] EXCEPT !.status = to]
  OBVIOUS
<1>2. {"certificate", "certline", "variation"} \subseteq DOMAIN db
  BY DEF BilledSound
<1>3. {"status", "gross"} \subseteq DOMAIN db["certificate"][c]
  BY DEF BilledSound, BilledRowsSound
<1>4. /\ DOMAIN db' = DOMAIN db /\ db'["certificate"] = [db["certificate"] EXCEPT ![c] = row]
      /\ db'["certline"] = db["certline"] /\ db'["variation"] = db["variation"]
  BY ONLY <1>1, <1>2, db' = [db EXCEPT !.certificate[c].status = to]
<1>5. DOMAIN row = DOMAIN db["certificate"][c] /\ row.gross = db["certificate"][c].gross
  BY <1>1, <1>3
<1>6. QED
  BY <1>4, <1>5, BilledAfterStatus

\* Every route of the billing keeps it.
LEMMA BilledAfterRoutes ==
    ASSUME ~ Concurrent, BilledSound, NEW p, BilRoutes(p)
    PROVE  BilledSound'
<1>1. PICK names : names = {"tracking", "assignment", "clientrequest", "clientaction"}
  OBVIOUS
<1>2. {"certificate", "certline", "variation"} \subseteq DOMAIN db
  BY DEF BilledSound
<1>3. CASE Keeps(names)
  BY <1>1, <1>3, BilledAfterOther
<1>4. ASSUME NEW c, NEW project, Create(p, "certificate", ProgressCertificate(c, project)) PROVE BilledSound'
  <2>1. PICK row : row = ProgressCertificate(c, project)
    OBVIOUS
  <2>2. /\ DOMAIN db' = DOMAIN db /\ db'["certificate"] = Append(db["certificate"], row)
        /\ \A u \in DOMAIN db \ {"certificate"} : db'[u] = db[u]
    BY <1>2, <1>4, <2>1, RowCreated
  <2>3. {"status", "gross", "retention", "net"} \subseteq DOMAIN row /\ row.gross = 0
    BY <2>1 DEF ProgressCertificate
  <2>4. PICK certificates, lines, variations :
          certificates = db["certificate"] /\ lines = db["certline"] /\ variations = db["variation"]
    OBVIOUS
  <2>5. BilledRowsSound(certificates, lines, variations)
    BY <2>4 DEF BilledSound
  <2>6. BilledRowsSound(Append(certificates, row), lines, variations)
    BY ONLY <2>3, <2>5, BilledAfterDraft
  <2>7. /\ db'["certificate"] = Append(certificates, row) /\ db'["certline"] = lines
        /\ db'["variation"] = variations
    BY <1>2, <2>2, <2>4
  <2>8. QED
    BY <2>2, <2>6, <2>7, BilledSoundAgain
<1>5. ASSUME NEW c, Create(p, "variation", VariationOrder(c, 1)) PROVE BilledSound'
  <2>1. PICK row : row = VariationOrder(c, 1)
    OBVIOUS
  <2>2. /\ DOMAIN db' = DOMAIN db /\ db'["variation"] = Append(db["variation"], row)
        /\ \A u \in DOMAIN db \ {"variation"} : db'[u] = db[u]
    BY <1>2, <1>5, <2>1, RowCreated
  <2>3. {"status", "quantity"} \subseteq DOMAIN row /\ row.quantity \in Nat
    BY <2>1 DEF VariationOrder
  <2>4. PICK certificates, lines, variations :
          certificates = db["certificate"] /\ lines = db["certline"] /\ variations = db["variation"]
    OBVIOUS
  <2>5. BilledRowsSound(certificates, lines, variations) /\ VariationsTyped(variations) /\ IsTable(variations)
    BY <2>4 DEF BilledSound, BilledRowsSound, VariationsTyped
  <2>6. PICK new : new = Append(variations, row)
    OBVIOUS
  <2>7. /\ IsTable(new) /\ DOMAIN new = DOMAIN variations \cup {Len(variations) + 1}
        /\ new[Len(variations) + 1] = row /\ \A k \in DOMAIN variations : new[k] = variations[k]
    BY ONLY <2>5, <2>6, TableGrows
  <2>8. VariationsTyped(new)
    BY <2>3, <2>5, <2>7 DEF VariationsTyped
  <2>9. /\ Approved(variations) \subseteq Approved(new)
        /\ \A x \in Approved(variations) : new[x].quantity = variations[x].quantity
    BY <2>7 DEF Approved
  <2>10. BilledRowsSound(certificates, lines, new)
    BY ONLY <2>5, <2>8, <2>9, BilledAfterVariations
  <2>11. /\ db'["variation"] = new /\ db'["certificate"] = certificates /\ db'["certline"] = lines
    BY <1>2, <2>2, <2>4, <2>6
  <2>12. QED
    BY <2>2, <2>10, <2>11, BilledSoundAgain
<1>6. ASSUME NEW cert, NEW quantity \in 1..2, NEW vo, NEW contracted \in 0..Contracted,
             AddCertificateLine(p, cert, quantity, vo, contracted)
      PROVE  BilledSound'
  <2>1. quantity \in Nat
    OBVIOUS
  <2>2. QED
    BY <1>6, <2>1, BilledAfterAddition
<1>7. ASSUME NEW cert, ApplyCertificateRetention(p, cert) PROVE BilledSound'
  <2>1. PICK old : old = db["certificate"][cert]
    OBVIOUS
  <2>2. PICK row : row = [old EXCEPT !.retention = Pct(old.gross), !.net = old.gross - Pct(old.gross)]
    OBVIOUS
  <2>3. /\ cert \in DOMAIN db["certificate"]
        /\ db' = [db EXCEPT !["certificate"] = [db["certificate"] EXCEPT ![cert] = row]]
    BY <1>7, <2>1, <2>2, SerialRows DEF ApplyCertificateRetention, Amend, Rows, Row, Commit
  <2>4. DOMAIN row = DOMAIN old /\ row.gross = old.gross /\ row.status = old.status
    <3>1. {"status", "gross", "retention", "net"} \subseteq DOMAIN old
      BY <2>1, <2>3 DEF BilledSound, BilledRowsSound
    <3>2. QED
      BY ONLY <2>2, <3>1
  <2>5. /\ DOMAIN db' = DOMAIN db /\ db'["certificate"] = [db["certificate"] EXCEPT ![cert] = row]
        /\ db'["certline"] = db["certline"] /\ db'["variation"] = db["variation"]
    BY ONLY <1>2, <2>3
  <2>6. QED
    BY <2>1, <2>3, <2>4, <2>5, BilledAfterStatus
<1>8. ASSUME NEW cert, SubmitCertificate(p, cert) \/ ApproveCertificate(p, cert) PROVE BilledSound'
  <2>1. PICK to : /\ db' = [db EXCEPT !.certificate[cert].status = to]
                  /\ cert \in DOMAIN db["certificate"] /\ db["certificate"][cert].status # "rejected"
    BY <1>8, SerialRows DEF SubmitCertificate, ApproveCertificate, Rows, Row, CommitThen
  <2>2. QED
    BY <2>1, BilledAfterMove
<1>9. CASE BeginTracking(p)
  BY <1>1, <1>3, <1>9, SerialRows DEF BeginTracking, Insert, Commit, Keeps
<1>10. CASE CertifyTracking(p)
  BY <1>1, <1>3, <1>10, SerialRows DEF CertifyTracking, Commit, Keeps
<1>11. ASSUME NEW v, NEW d, DecideVariationOrder(p, v, d) PROVE BilledSound'
  BY <1>11, BilledAfterVerdict
<1>12. ASSUME NEW k, RecordCertificatePayment(p, k) PROVE BilledSound'
  <2>1. Turn(p, "tracking", k, {"submitted", "certified", "overdue"}, "paid")
    BY <1>12 DEF RecordCertificatePayment
  <2>2. "tracking" \in names
    BY <1>1
  <2>3. QED
    BY <1>3, <2>1, <2>2, TurnKeeps
<1>13. CASE Abandon(p)
  BY <1>3, <1>13, AbandonKeeps
<1>14. QED
  BY <1>4, <1>5, <1>6, <1>7, <1>8, <1>9, <1>10, <1>11, <1>12, <1>13 DEF BilRoutes

\* Every route by which clients decide keeps it.
LEMMA BilledAfterClients ==
    ASSUME ~ Concurrent, BilledSound, NEW p, ClientNext(p)
    PROVE  BilledSound'
<1>1. PICK names : names = {"tracking", "assignment", "clientrequest", "clientaction"}
  OBVIOUS
<1>2. {"certificate", "certline", "variation"} \subseteq DOMAIN db
  BY DEF BilledSound
<1>3. CASE Keeps(names)
  BY <1>1, <1>3, BilledAfterOther
<1>4. ASSUME NEW u, NEW project, AssignClientProject(p, u, project) \/ SubmitClientRequest(p, u, project)
      PROVE  BilledSound'
  BY <1>1, <1>3, <1>4, CreateKeeps DEF AssignClientProject, SubmitClientRequest
<1>5. ASSUME NEW u, NEW project, NEW v, NEW d, ApproveVariationAsClient(p, u, project, v, d) PROVE BilledSound'
  <2>1. PICK action : action = ClientApprovalAction(u, "variation", v, d)
    OBVIOUS
  <2>2. PICK row : row = [db["variation"][v] EXCEPT !.status = d]
    OBVIOUS
  <2>3. /\ v \in DOMAIN db["variation"] /\ db["variation"][v].status = "pending"
        /\ db' = Insert([db EXCEPT !.variation[v].status = d], "clientaction", action)
    BY <1>5, <2>1, SerialRows DEF ApproveVariationAsClient, Commit
  <2>4. /\ DOMAIN db' = DOMAIN db /\ db'["variation"] = [db["variation"] EXCEPT ![v] = row]
        /\ db'["certificate"] = db["certificate"] /\ db'["certline"] = db["certline"]
    BY ONLY <1>2, <2>2, <2>3 DEF Insert
  <2>5. QED
    BY <2>2, <2>3, <2>4, BilledAfterDecision
<1>6. ASSUME NEW u, NEW project, NEW cert, NEW d, ApproveCertificateAsClient(p, u, project, cert, d)
      PROVE  BilledSound'
  <2>1. cert \in DOMAIN db["certificate"] /\ db["certificate"][cert].status # "rejected"
    BY <1>6, SerialRows DEF ApproveCertificateAsClient
  <2>2. \/ db' = [db EXCEPT !.certificate[cert].status = "client_approved"]
        \/ db' = [db EXCEPT !.certificate[cert].status = "rejected"]
    BY <1>6, SerialRows DEF ApproveCertificateAsClient, CommitThen
  <2>3. QED
    BY <2>1, <2>2, BilledAfterMove
<1>7. ASSUME NEW k, ResolveClientRequest(p, k) PROVE BilledSound'
  BY <1>1, <1>3, <1>7, SerialRows DEF ResolveClientRequest, CommitThen, Keeps
<1>8. CASE CertifyForClient(p)
  BY <1>1, <1>3, <1>8, SerialRows DEF CertifyForClient, CommitThen, Keeps
<1>9. CASE RecordClientAction(p)
  BY <1>1, <1>3, <1>9, SerialRows DEF RecordClientAction, Insert, Commit, Keeps
<1>10. CASE TellClient(p)
  BY <1>1, <1>3, <1>10, SerialRows DEF TellClient, Commit, Keeps
<1>11. CASE Abandon(p)
  BY <1>3, <1>11, AbandonKeeps
<1>12. ASSUME NEW v, NEW d, DecideVariationOrder(p, v, d) PROVE BilledSound'
  BY <1>12, BilledAfterVerdict
<1>13. QED
  BY <1>4, <1>5, <1>6, <1>7, <1>8, <1>9, <1>10, <1>11, <1>12 DEF ClientNext, ClientRoutes

-----------------------------------------------------------------------------
(* Retention and advances under the contract *)

\* What is withheld stays within the cap, what is recouped within the advance.
RetentionRowsSound(retentions, advances) ==
    /\ IsTable(retentions)
    /\ IsTable(advances)
    /\ \A k \in DOMAIN retentions :
         /\ {"withheld", "released"} \subseteq DOMAIN retentions[k]
         /\ retentions[k].withheld \in Int /\ retentions[k].withheld <= CapAmount
    /\ \A k \in DOMAIN advances :
         /\ {"amount", "recouped"} \subseteq DOMAIN advances[k]
         /\ advances[k].amount \in Int /\ advances[k].recouped \in Int
         /\ advances[k].recouped <= advances[k].amount

RetentionSound ==
    {"retention", "advance"} \subseteq DOMAIN db /\ RetentionRowsSound(db["retention"], db["advance"])

\* Where the two tables are sound after a step, the invariant holds again.
LEMMA RetentionSoundAgain ==
    ASSUME RetentionSound, NEW retentions, NEW advances, RetentionRowsSound(retentions, advances),
           DOMAIN db' = DOMAIN db, db'["retention"] = retentions, db'["advance"] = advances
    PROVE  RetentionSound'
<1>1. RetentionRowsSound(db'["retention"], db'["advance"])
  BY ONLY RetentionRowsSound(retentions, advances), db'["retention"] = retentions, db'["advance"] = advances
<1>2. {"retention", "advance"} \subseteq DOMAIN db'
  BY DEF RetentionSound
<1>3. QED
  BY <1>1, <1>2 DEF RetentionSound

\* A step that writes neither of them keeps it.
LEMMA RetentionLeftAlone ==
    ASSUME RetentionSound, NEW names, Keeps(names), names \cap {"retention", "advance"} = {}
    PROVE  RetentionSound'
<1>1. db'["retention"] = db["retention"] /\ db'["advance"] = db["advance"] /\ DOMAIN db' = DOMAIN db
  BY DEF Keeps, RetentionSound
<1>2. QED
  BY <1>1, RetentionSoundAgain DEF RetentionSound

\* What is left of an amount that may be negative.
LEMMA GreaterOfTwo == ASSUME NEW a \in Int PROVE Max({a, 0}) \in Int /\ (Max({a, 0}) = a \/ Max({a, 0}) = 0)
                                                /\ Max({a, 0}) >= a /\ Max({a, 0}) >= 0
<1>1. \E x \in {a, 0} : \A y \in {a, 0} : x >= y
  BY a >= 0 \/ 0 >= a
<1>2. Max({a, 0}) \in {a, 0} /\ \A y \in {a, 0} : Max({a, 0}) >= y
  BY <1>1 DEF Max
<1>3. QED
  BY <1>2

\* apply_retention_to_certificate
LEMMA WithinCap ==
    ASSUME NEW held \in Int, held <= CapAmount, NEW amount \in Values
    PROVE  /\ held + Least(Pct(amount), Max({CapAmount - held, 0})) \in Int
           /\ held + Least(Pct(amount), Max({CapAmount - held, 0})) <= CapAmount
<1>1. CapAmount \in Int /\ amount \in Int /\ Percentage \in Int
  BY ContractsAssumption
<1>2. Pct(amount) \in Int
  BY <1>1 DEF Pct
<1>3. PICK room, part1 : room = Max({CapAmount - held, 0}) /\ part1 = Pct(amount)
  OBVIOUS
<1>4. room \in Int /\ room = CapAmount - held
  <2>1. PICK a : a = CapAmount - held
    OBVIOUS
  <2>2. a \in Int /\ a >= 0
    BY <1>1, <2>1
  <2>3. Max({a, 0}) \in Int /\ (Max({a, 0}) = a \/ Max({a, 0}) = 0) /\ Max({a, 0}) >= a /\ Max({a, 0}) >= 0
    BY <2>2, GreaterOfTwo
  <2>4. QED
    BY <1>3, <2>1, <2>2, <2>3
<1>5. QED
  BY <1>1, <1>2, <1>3, <1>4 DEF Least

\* apply_advance_recoupment
LEMMA WithinAdvance ==
    ASSUME NEW recouped \in Int, NEW advanced \in Int, recouped <= advanced, NEW amount \in Values
    PROVE  /\ recouped + Least(Pct(amount), advanced - recouped) \in Int
           /\ recouped + Least(Pct(amount), advanced - recouped) <= advanced
<1>1. amount \in Int /\ Percentage \in Int
  BY ContractsAssumption
<1>2. Pct(amount) \in Int
  BY <1>1 DEF Pct
<1>3. QED
  BY <1>2 DEF Least

\* A retention is agreed, or its row changes within the cap.
LEMMA RetentionAfterWrite ==
    ASSUME NEW retentions, NEW advances, RetentionRowsSound(retentions, advances),
           NEW row, {"withheld", "released"} \subseteq DOMAIN row,
           row.withheld \in Int, row.withheld <= CapAmount
    PROVE  /\ RetentionRowsSound(Append(retentions, row), advances)
           /\ \A k \in DOMAIN retentions : RetentionRowsSound([retentions EXCEPT ![k] = row], advances)
<1>1. IsTable(retentions)
  BY DEF RetentionRowsSound
<1>2. RetentionRowsSound(Append(retentions, row), advances)
  <2>1. PICK new : new = Append(retentions, row)
    OBVIOUS
  <2>2. /\ IsTable(new) /\ DOMAIN new = DOMAIN retentions \cup {Len(retentions) + 1}
        /\ new[Len(retentions) + 1] = row /\ \A k \in DOMAIN retentions : new[k] = retentions[k]
    BY ONLY <1>1, <2>1, TableGrows
  <2>3. QED
    BY <2>1, <2>2 DEF RetentionRowsSound
<1>3. ASSUME NEW k \in DOMAIN retentions PROVE RetentionRowsSound([retentions EXCEPT ![k] = row], advances)
  <2>1. PICK new : new = [retentions EXCEPT ![k] = row]
    OBVIOUS
  <2>2. /\ IsTable(new) /\ DOMAIN new = DOMAIN retentions /\ new[k] = row
        /\ \A x \in DOMAIN retentions \ {k} : new[x] = retentions[x]
    BY ONLY <1>1, <1>3, <2>1, TableChanges
  <2>3. QED
    BY <2>1, <2>2 DEF RetentionRowsSound
<1>4. QED
  BY <1>2, <1>3

\* An advance is paid, or more of it is recouped.
LEMMA AdvanceAfterWrite ==
    ASSUME NEW retentions, NEW advances, RetentionRowsSound(retentions, advances),
           NEW row, {"amount", "recouped"} \subseteq DOMAIN row,
           row.amount \in Int, row.recouped \in Int, row.recouped <= row.amount
    PROVE  /\ RetentionRowsSound(retentions, Append(advances, row))
           /\ \A k \in DOMAIN advances : RetentionRowsSound(retentions, [advances EXCEPT ![k] = row])
<1>1. IsTable(advances)
  BY DEF RetentionRowsSound
<1>2. RetentionRowsSound(retentions, Append(advances, row))
  <2>1. PICK new : new = Append(advances, row)
    OBVIOUS
  <2>2. /\ IsTable(new) /\ DOMAIN new = DOMAIN advances \cup {Len(advances) + 1}
        /\ new[Len(advances) + 1] = row /\ \A k \in DOMAIN advances : new[k] = advances[k]
    BY ONLY <1>1, <2>1, TableGrows
  <2>3. QED
    BY <2>1, <2>2 DEF RetentionRowsSound
<1>3. ASSUME NEW k \in DOMAIN advances PROVE RetentionRowsSound(retentions, [advances EXCEPT ![k] = row])
  <2>1. PICK new : new = [advances EXCEPT ![k] = row]
    OBVIOUS
  <2>2. /\ IsTable(new) /\ DOMAIN new = DOMAIN advances /\ new[k] = row
        /\ \A x \in DOMAIN advances \ {k} : new[x] = advances[x]
    BY ONLY <1>1, <1>3, <2>1, TableChanges
  <2>3. QED
    BY <2>1, <2>2 DEF RetentionRowsSound
<1>4. QED
  BY <1>2, <1>3

\* Every route about retention and advances keeps it.
LEMMA RetentionStaysSound ==
    ASSUME ~ Concurrent, RetentionSound, NEW p, RetentionRoutes(p)
    PROVE  RetentionSound'
<1>1. PICK retentions, advances : retentions = db["retention"] /\ advances = db["advance"]
  OBVIOUS
<1>2. RetentionRowsSound(retentions, advances) /\ "retention" \in DOMAIN db /\ "advance" \in DOMAIN db
  BY <1>1 DEF RetentionSound
<1>3. ASSUME NEW c, NEW amount \in Values, Create(p, "advance", AdvancePayment(c, amount)) PROVE RetentionSound'
  <2>1. PICK row : row = AdvancePayment(c, amount)
    OBVIOUS
  <2>2. /\ {"amount", "recouped"} \subseteq DOMAIN row /\ row.amount \in Int /\ row.recouped \in Int
        /\ row.recouped <= row.amount
    BY <2>1, ContractsAssumption DEF AdvancePayment
  <2>3. RetentionRowsSound(retentions, Append(advances, row))
    BY ONLY <1>2, <2>2, AdvanceAfterWrite
  <2>4. DOMAIN db' = DOMAIN db /\ db'["advance"] = Append(advances, row) /\ db'["retention"] = retentions
    BY <1>1, <1>2, <1>3, <2>1, RowCreated
  <2>5. QED
    BY <2>3, <2>4, RetentionSoundAgain
<1>4. ASSUME NEW c, Create(p, "retention", Retention(c)) PROVE RetentionSound'
  <2>1. PICK row : row = Retention(c)
    OBVIOUS
  <2>2. {"withheld", "released"} \subseteq DOMAIN row /\ row.withheld \in Int /\ row.withheld <= CapAmount
    BY <2>1, ContractsAssumption DEF Retention
  <2>3. RetentionRowsSound(Append(retentions, row), advances)
    BY ONLY <1>2, <2>2, RetentionAfterWrite
  <2>4. DOMAIN db' = DOMAIN db /\ db'["retention"] = Append(retentions, row) /\ db'["advance"] = advances
    BY <1>1, <1>2, <1>4, <2>1, RowCreated
  <2>5. QED
    BY <2>3, <2>4, RetentionSoundAgain
<1>5. ASSUME NEW k, NEW row, k \in DOMAIN retentions, {"withheld", "released"} \subseteq DOMAIN row,
             row.withheld \in Int, row.withheld <= CapAmount,
             db' = [db EXCEPT !["retention"] = [retentions EXCEPT ![k] = row]]
      PROVE  RetentionSound'
  <2>1. RetentionRowsSound([retentions EXCEPT ![k] = row], advances)
    BY ONLY <1>2, <1>5, RetentionAfterWrite
  <2>2. /\ DOMAIN db' = DOMAIN db /\ db'["retention"] = [retentions EXCEPT ![k] = row]
        /\ db'["advance"] = advances
    BY ONLY <1>1, <1>2, <1>5
  <2>3. QED
    BY <2>1, <2>2, RetentionSoundAgain
<1>6. ASSUME NEW k, NEW amount \in Values, ApplyRetentionToCertificate(p, k, amount) PROVE RetentionSound'
  <2>1. PICK held : held = retentions[k].withheld
    OBVIOUS
  <2>2. PICK more : more = held + Least(Pct(amount), Max({CapAmount - held, 0}))
    OBVIOUS
  <2>3. PICK row : row = [retentions[k] EXCEPT !.withheld = more]
    OBVIOUS
  <2>4. k \in DOMAIN retentions /\ db' = [db EXCEPT !["retention"] = [retentions EXCEPT ![k] = row]]
    BY <1>1, <1>6, <2>1, <2>2, <2>3, SerialRows DEF ApplyRetentionToCertificate, Amend, Rows, Row, Commit
  <2>5. held \in Int /\ held <= CapAmount /\ {"withheld", "released"} \subseteq DOMAIN retentions[k]
    BY <1>2, <2>1, <2>4 DEF RetentionRowsSound
  <2>6. more \in Int /\ more <= CapAmount
    BY <1>6, <2>2, <2>5, WithinCap
  <2>7. {"withheld", "released"} \subseteq DOMAIN row /\ row.withheld = more
    BY ONLY <2>3, <2>5
  <2>8. QED
    BY <1>5, <2>4, <2>6, <2>7
<1>7. ASSUME NEW k, NEW stage, ReleaseRetention(p, k, stage) PROVE RetentionSound'
  <2>1. PICK row : row = [retentions[k] EXCEPT !.released = stage]
    OBVIOUS
  <2>2. k \in DOMAIN retentions /\ db' = [db EXCEPT !["retention"] = [retentions EXCEPT ![k] = row]]
    BY <1>1, <1>7, <2>1, SerialRows DEF ReleaseRetention, Amend, Rows, Row, Commit
  <2>3. /\ retentions[k].withheld \in Int /\ retentions[k].withheld <= CapAmount
        /\ {"withheld", "released"} \subseteq DOMAIN retentions[k]
    BY <1>2, <2>2 DEF RetentionRowsSound
  <2>4. {"withheld", "released"} \subseteq DOMAIN row /\ row.withheld = retentions[k].withheld
    BY ONLY <2>1, <2>3
  <2>5. QED
    BY <1>5, <2>2, <2>3, <2>4
<1>8. ASSUME NEW k, NEW amount \in Values, ApplyAdvanceRecoupment(p, k, amount) PROVE RetentionSound'
  <2>1. PICK old : old = advances[k]
    OBVIOUS
  <2>2. PICK more : more = old.recouped + Least(Pct(amount), old.amount - old.recouped)
    OBVIOUS
  <2>3. PICK row : row = [old EXCEPT !.recouped = more]
    OBVIOUS
  <2>4. k \in DOMAIN advances /\ db' = [db EXCEPT !["advance"] = [advances EXCEPT ![k] = row]]
    BY <1>1, <1>8, <2>1, <2>2, <2>3, SerialRows DEF ApplyAdvanceRecoupment, Amend, Rows, Row, Commit
  <2>5. /\ {"amount", "recouped"} \subseteq DOMAIN old /\ old.amount \in Int /\ old.recouped \in Int
        /\ old.recouped <= old.amount
    BY <1>2, <2>1, <2>4 DEF RetentionRowsSound
  <2>6. more \in Int /\ more <= old.amount
    BY <1>8, <2>2, <2>5, WithinAdvance
  <2>7. {"amount", "recouped"} \subseteq DOMAIN row /\ row.recouped = more /\ row.amount = old.amount
    BY ONLY <2>3, <2>5
  <2>8. row.amount \in Int /\ row.recouped \in Int /\ row.recouped <= row.amount
    BY <2>5, <2>6, <2>7
  <2>9. RetentionRowsSound(retentions, [advances EXCEPT ![k] = row])
    BY ONLY <1>2, <2>4, <2>7, <2>8, AdvanceAfterWrite
  <2>10. /\ DOMAIN db' = DOMAIN db /\ db'["advance"] = [advances EXCEPT ![k] = row]
         /\ db'["retention"] = retentions
    BY ONLY <1>1, <1>2, <2>4
  <2>11. QED
    BY <2>9, <2>10, RetentionSoundAgain
<1>9. QED
  BY <1>3, <1>4, <1>6, <1>7, <1>8 DEF RetentionRoutes

-----------------------------------------------------------------------------
(* What subcontractors are paid *)

\* A table whose rows are written all at once.
LEMMA TableMapped ==
    ASSUME NEW t, IsTable(t), NEW new, new = [k \in DOMAIN t |-> new[k]]
    PROVE  IsTable(new) /\ DOMAIN new = DOMAIN t
<1>1. PICK n \in Nat : DOMAIN t = 1..n
  BY TableRows DEF IsTable
<1>2. PICK R : R = {new[k] : k \in 1..n}
  OBVIOUS
<1>3. DOMAIN new = 1..n /\ new = [k \in 1..n |-> new[k]] /\ \A k \in 1..n : new[k] \in R
  BY <1>1, <1>2
<1>4. new \in Seq(R)
  BY ONLY <1>3, TableByNumber
<1>5. QED
  BY <1>1, <1>3, <1>4 DEF IsTable

\* Every sheet measures work under an agreement that has a rate.
MeasuredSound(agreements, sheets) ==
    /\ IsTable(agreements)
    /\ IsTable(sheets)
    /\ \A a \in DOMAIN agreements : agreements[a].rate \in Nat /\ agreements[a].pct \in Nat
    /\ \A k \in DOMAIN sheets : sheets[k].agreement \in DOMAIN agreements /\ sheets[k].quantity \in Nat

CertificatesUnder(certificates, a) == {c \in DOMAIN certificates : certificates[c].agreement = a}

\* As CertifiedRetention, of the certificates alone.
RetainedUnder(certificates, a) == SumOf(certificates, "retention", CertificatesUnder(certificates, a))

\* What the certificates took off beside the retention.
TakenOff(certificates) ==
    [c \in DOMAIN certificates |-> certificates[c].gross - certificates[c].retention - certificates[c].net]

Deducted(charges) == {b \in DOMAIN charges : charges[b].deducted # 0}

CertificatesTyped(certificates) ==
    /\ IsTable(certificates)
    /\ \A c \in DOMAIN certificates :
         /\ certificates[c].gross \in Int /\ certificates[c].retention \in Int /\ certificates[c].net \in Int

ChargesTyped(charges) ==
    /\ IsTable(charges)
    /\ \A b \in DOMAIN charges : {"amount", "deducted"} \subseteq DOMAIN charges[b] /\ charges[b].amount \in Int

\* Back charges are deducted once, and an agreement holds what was withheld under it.
WithheldSound(certificates, charges, retentions) ==
    /\ CertificatesTyped(certificates)
    /\ ChargesTyped(charges)
    /\ IsTable(retentions)
    /\ \A r \in DOMAIN retentions :
         /\ {"agreement", "pct", "withheld", "carried", "released"} \subseteq DOMAIN retentions[r]
         /\ retentions[r].withheld \in Int /\ retentions[r].carried \in Int /\ retentions[r].pct \in Nat
         /\ retentions[r].withheld + retentions[r].carried
              = RetainedUnder(certificates, retentions[r].agreement)
    /\ SumFunction(TakenOff(certificates)) = SumOf(charges, "amount", Deducted(charges))

\* What is retained under an agreement is a sum of finitely many integers.
LEMMA RetainedIsWhole ==
    ASSUME NEW certificates, CertificatesTyped(certificates), NEW a
    PROVE  /\ IsFiniteSet(CertificatesUnder(certificates, a))
           /\ CertificatesUnder(certificates, a) \subseteq DOMAIN certificates
           /\ \A c \in CertificatesUnder(certificates, a) : certificates[c]["retention"] \in Int
           /\ RetainedUnder(certificates, a) \in Int
<1>1. PICK Q : Q = CertificatesUnder(certificates, a)
  OBVIOUS
<1>2. IsFiniteSet(DOMAIN certificates)
  BY TableIsFinite DEF CertificatesTyped
<1>3. IsFiniteSet(Q) /\ Q \subseteq DOMAIN certificates
  BY <1>1, <1>2, FS_Subset DEF CertificatesUnder
<1>4. Q \in SUBSET DOMAIN certificates /\ \A c \in Q : certificates[c]["retention"] \in Int
  BY <1>3 DEF CertificatesTyped
<1>5. SumOf(certificates, "retention", Q) \in Int
  BY ONLY <1>3, <1>4, SumOfIsInteger
<1>6. QED
  BY <1>1, <1>3, <1>4, <1>5 DEF RetainedUnder

\* One certificate more retains under its agreement.
LEMMA RetainedWithOne ==
    ASSUME NEW certificates, CertificatesTyped(certificates), NEW row, row.retention \in Int, NEW a
    PROVE  RetainedUnder(Append(certificates, row), a)
             = RetainedUnder(certificates, a) + (IF row.agreement = a THEN row.retention ELSE 0)
<1>0. PICK new : new = Append(certificates, row)
  OBVIOUS
<1>1. PICK y : y = Len(certificates) + 1
  OBVIOUS
<1>2. /\ y \notin DOMAIN certificates /\ DOMAIN new = DOMAIN certificates \cup {y} /\ new[y] = row
      /\ \A c \in DOMAIN certificates : new[c] = certificates[c]
  <2>1. IsTable(certificates)
    BY DEF CertificatesTyped
  <2>2. QED
    BY ONLY <1>0, <1>1, <2>1, TableGrows
<1>3. PICK A, B : A = CertificatesUnder(certificates, a) /\ B = CertificatesUnder(new, a)
  OBVIOUS
<1>4. /\ IsFiniteSet(A) /\ A \subseteq DOMAIN certificates /\ (\A c \in A : certificates[c]["retention"] \in Int)
      /\ RetainedUnder(certificates, a) \in Int
  BY <1>3, RetainedIsWhole
<1>5. \A c \in A : new[c]["retention"] = certificates[c]["retention"]
  BY <1>2, <1>4
<1>6. B \subseteq DOMAIN new /\ y \notin A
  BY <1>2, <1>3, <1>4 DEF CertificatesUnder
<1>7. CASE row.agreement = a
  <2>1. B = A \cup {y}
    BY <1>2, <1>3, <1>7 DEF CertificatesUnder
  <2>2. new[y]["retention"] \in Int /\ new[y]["retention"] = row.retention
    BY <1>2
  <2>3. SumOf(new, "retention", B) = SumOf(certificates, "retention", A) + new[y]["retention"]
    BY ONLY <1>4, <1>5, <1>6, <2>1, <2>2, SumOfOneMore
  <2>4. QED
    BY <1>0, <1>3, <1>7, <2>2, <2>3 DEF RetainedUnder
<1>8. CASE row.agreement # a
  <2>1. B = A
    BY <1>2, <1>3, <1>8 DEF CertificatesUnder
  <2>2. A \subseteq DOMAIN new
    BY <1>6, <2>1
  <2>3. SumOf(new, "retention", A) = SumOf(certificates, "retention", A)
    BY ONLY <1>4, <1>5, <2>2, SumOfSameRows
  <2>4. QED
    BY <1>0, <1>3, <1>4, <1>8, <2>1, <2>3 DEF RetainedUnder
<1>9. QED
  BY <1>7, <1>8

\* One certificate more takes off what it does.
LEMMA TakenOffWithOne ==
    ASSUME NEW certificates, CertificatesTyped(certificates),
           NEW row, row.gross \in Int, row.retention \in Int, row.net \in Int
    PROVE  /\ SumFunction(TakenOff(certificates)) \in Int
           /\ SumFunction(TakenOff(Append(certificates, row)))
                = SumFunction(TakenOff(certificates)) + (row.gross - row.retention - row.net)
<1>0. PICK new : new = Append(certificates, row)
  OBVIOUS
<1>1. PICK y : y = Len(certificates) + 1
  OBVIOUS
<1>2. /\ y \notin DOMAIN certificates /\ DOMAIN new = DOMAIN certificates \cup {y} /\ new[y] = row
      /\ \A c \in DOMAIN certificates : new[c] = certificates[c]
  <2>1. IsTable(certificates)
    BY DEF CertificatesTyped
  <2>2. QED
    BY ONLY <1>0, <1>1, <2>1, TableGrows
<1>3. PICK f, g : f = TakenOff(certificates) /\ g = TakenOff(new)
  OBVIOUS
<1>4. IsFiniteSet(DOMAIN certificates)
  BY TableIsFinite DEF CertificatesTyped
<1>5. /\ DOMAIN f = DOMAIN certificates /\ DOMAIN g = DOMAIN new
      /\ \A x \in DOMAIN f : f[x] \in Int
  BY <1>3 DEF TakenOff, CertificatesTyped
<1>6. /\ g[y] = row.gross - row.retention - row.net
      /\ \A x \in DOMAIN f : g[x] = f[x]
  BY <1>2, <1>3 DEF TakenOff
<1>7. IsFiniteSet(DOMAIN f) /\ y \notin DOMAIN f /\ DOMAIN g = DOMAIN f \cup {y} /\ g[y] \in Int
  BY <1>2, <1>4, <1>5, <1>6
<1>8. SumFunction(g) = SumFunction(f) + g[y]
  BY ONLY <1>5, <1>6, <1>7, SumOfExtended
<1>9. SumFunction(f) \in Int
  <2>1. SumFunctionOnSet(f, DOMAIN f) \in Int
    BY <1>5, <1>7, SumIsInteger
  <2>2. QED
    BY <2>1 DEF SumFunction, SumFunctionOnSet, FoldFunction
<1>10. QED
  BY <1>0, <1>3, <1>6, <1>8, <1>9

\* Of the charges, those in due were not deducted before and are now; no other changes.
DueTaken(charges, due, new) ==
    /\ due \in SUBSET DOMAIN charges
    /\ \A b \in due : charges[b].deducted = 0
    /\ new = [b \in DOMAIN charges |-> new[b]]
    /\ \A b \in DOMAIN charges :
         /\ DOMAIN new[b] = DOMAIN charges[b] /\ new[b].amount = charges[b].amount
         /\ b \in due => new[b].deducted # 0
         /\ b \notin due => new[b].deducted = charges[b].deducted

\* What is deducted of some charges adds up, where it was not before.
LEMMA DeductedOnce ==
    ASSUME NEW charges, ChargesTyped(charges), NEW due, NEW new, DueTaken(charges, due, new)
    PROVE  /\ ChargesTyped(new)
           /\ SumOf(charges, "amount", due) \in Int
           /\ SumOf(charges, "amount", Deducted(charges)) \in Int
           /\ SumOf(new, "amount", Deducted(new))
                = SumOf(charges, "amount", Deducted(charges)) + SumOf(charges, "amount", due)
<1>1. IsTable(charges) /\ IsFiniteSet(DOMAIN charges)
  BY TableIsFinite DEF ChargesTyped
<1>3. IsTable(new) /\ DOMAIN new = DOMAIN charges
  <2>1. new = [b \in DOMAIN charges |-> new[b]]
    BY DEF DueTaken
  <2>2. QED
    BY ONLY <1>1, <2>1, TableMapped
<1>4. \A b \in DOMAIN charges : /\ DOMAIN new[b] = DOMAIN charges[b] /\ new[b].amount = charges[b].amount
                                /\ b \in due => new[b].deducted # 0
                                /\ b \notin due => new[b].deducted = charges[b].deducted
  BY DEF DueTaken
<1>5. ChargesTyped(new)
  BY <1>3, <1>4 DEF ChargesTyped
<1>6. PICK A, B : A = Deducted(charges) /\ B = Deducted(new)
  OBVIOUS
<1>7. A \cap due = {} /\ B = A \cup due /\ A \subseteq DOMAIN charges /\ due \subseteq DOMAIN charges
  BY <1>3, <1>4, <1>6 DEF Deducted, DueTaken
<1>8. IsFiniteSet(A) /\ IsFiniteSet(due) /\ IsFiniteSet(B)
  BY <1>1, <1>7, FS_Subset, FS_Union
<1>9. \A b \in A \cup due : charges[b]["amount"] \in Int
  BY <1>7 DEF ChargesTyped
<1>10. A \in SUBSET DOMAIN charges /\ A \cup due \subseteq DOMAIN charges
  BY <1>7
<1>11. SumOf(charges, "amount", A \cup due) = SumOf(charges, "amount", A) + SumOf(charges, "amount", due)
  BY ONLY <1>7, <1>8, <1>9, <1>10, SumOfApart
<1>12. SumOf(new, "amount", B) = SumOf(charges, "amount", B)
  <2>1. B \subseteq DOMAIN charges /\ B \subseteq DOMAIN new /\ \A b \in B : new[b]["amount"] = charges[b]["amount"]
    BY <1>3, <1>4, <1>7, <1>10
  <2>2. QED
    BY ONLY <1>8, <2>1, SumOfSameRows
<1>13. SumOf(charges, "amount", A) \in Int
  BY <1>8, <1>9, <1>10, SumOfIsInteger
<1>14. SumOf(charges, "amount", due) \in Int
  BY <1>7, <1>8, <1>9, SumOfIsInteger
<1>15. QED
  BY <1>5, <1>6, <1>7, <1>11, <1>12, <1>13, <1>14

\* The rows of an agreement withhold so much more.
MoreHeld(retentions, a, withheld, held) ==
    /\ held = [r \in DOMAIN retentions |-> held[r]]
    /\ \A r \in DOMAIN retentions :
         held[r] = IF retentions[r].agreement = a THEN [retentions[r] EXCEPT !.withheld = @ + withheld]
                   ELSE retentions[r]

\* issue_payment_certificate
LEMMA WithheldAfterCertificate ==
    ASSUME NEW certificates, NEW charges, NEW retentions, WithheldSound(certificates, charges, retentions),
           NEW row, row.gross \in Int, row.retention \in Int, row.net \in Int,
           NEW due, NEW taken, DueTaken(charges, due, taken),
           row.gross - row.retention - row.net = SumOf(charges, "amount", due),
           NEW held, MoreHeld(retentions, row.agreement, row.retention, held)
    PROVE  WithheldSound(Append(certificates, row), taken, held)
<1>1. PICK new : new = Append(certificates, row)
  OBVIOUS
<1>2. CertificatesTyped(certificates) /\ ChargesTyped(charges) /\ IsTable(retentions)
  BY DEF WithheldSound
<1>3. CertificatesTyped(new)
  <2>1. IsTable(certificates)
    BY <1>2 DEF CertificatesTyped
  <2>2. /\ IsTable(new) /\ DOMAIN new = DOMAIN certificates \cup {Len(certificates) + 1}
        /\ new[Len(certificates) + 1] = row /\ \A c \in DOMAIN certificates : new[c] = certificates[c]
    BY ONLY <1>1, <2>1, TableGrows
  <2>3. QED
    BY <1>2, <2>2 DEF CertificatesTyped
<1>4. /\ ChargesTyped(taken)
      /\ SumOf(charges, "amount", due) \in Int /\ SumOf(charges, "amount", Deducted(charges)) \in Int
      /\ SumOf(taken, "amount", Deducted(taken))
           = SumOf(charges, "amount", Deducted(charges)) + SumOf(charges, "amount", due)
  BY <1>2, DeductedOnce
<1>5. /\ SumFunction(TakenOff(certificates)) \in Int
      /\ SumFunction(TakenOff(new)) = SumFunction(TakenOff(certificates)) + (row.gross - row.retention - row.net)
  BY <1>1, <1>2, TakenOffWithOne
<1>6. SumFunction(TakenOff(new)) = SumOf(taken, "amount", Deducted(taken))
  BY <1>4, <1>5 DEF WithheldSound
<1>7. held = [r \in DOMAIN retentions |-> held[r]]
  BY DEF MoreHeld
<1>8. IsTable(held) /\ DOMAIN held = DOMAIN retentions
  BY ONLY <1>2, <1>7, TableMapped
<1>9. ASSUME NEW r \in DOMAIN held
      PROVE  /\ {"agreement", "pct", "withheld", "carried", "released"} \subseteq DOMAIN held[r]
             /\ held[r].withheld \in Int /\ held[r].carried \in Int /\ held[r].pct \in Nat
             /\ held[r].withheld + held[r].carried = RetainedUnder(new, held[r].agreement)
  <2>1. PICK old : old = retentions[r]
    OBVIOUS
  <2>2. PICK a : a = old.agreement
    OBVIOUS
  <2>3. /\ {"agreement", "pct", "withheld", "carried", "released"} \subseteq DOMAIN old
        /\ old.withheld \in Int /\ old.carried \in Int /\ old.pct \in Nat
        /\ old.withheld + old.carried = RetainedUnder(certificates, a)
    BY <1>8, <1>9, <2>1, <2>2 DEF WithheldSound
  <2>4. RetainedUnder(new, a)
          = RetainedUnder(certificates, a) + (IF row.agreement = a THEN row.retention ELSE 0)
    BY <1>1, <1>2, RetainedWithOne
  <2>5. held[r] = IF a = row.agreement THEN [old EXCEPT !.withheld = @ + row.retention] ELSE old
    BY <1>8, <1>9, <2>1, <2>2 DEF MoreHeld
  <2>6. CASE a = row.agreement
    <3>1. /\ DOMAIN held[r] = DOMAIN old /\ held[r].withheld = old.withheld + row.retention
          /\ held[r].carried = old.carried /\ held[r].agreement = a /\ held[r].pct = old.pct
      BY ONLY <2>2, <2>3, <2>5, <2>6
    <3>2. QED
      BY <2>3, <2>4, <2>6, <3>1
  <2>7. CASE a # row.agreement
    <3>1. held[r] = old
      BY <2>5, <2>7
    <3>2. RetainedUnder(certificates, a) \in Int
      BY <2>3
    <3>3. QED
      BY <2>2, <2>3, <2>4, <2>7, <3>1, <3>2
  <2>8. QED
    BY <2>6, <2>7
<1>10. WithheldSound(new, taken, held)
  BY <1>3, <1>4, <1>6, <1>8, <1>9 DEF WithheldSound
<1>11. QED
  BY <1>1, <1>10

\* A charge is made, which no certificate deducted yet.
LEMMA WithheldAfterCharge ==
    ASSUME NEW certificates, NEW charges, NEW retentions, WithheldSound(certificates, charges, retentions),
           NEW row, {"amount", "deducted"} \subseteq DOMAIN row, row.amount \in Int, row.deducted = 0
    PROVE  WithheldSound(certificates, Append(charges, row), retentions)
<1>1. PICK new : new = Append(charges, row)
  OBVIOUS
<1>2. ChargesTyped(charges) /\ IsTable(charges) /\ IsFiniteSet(DOMAIN charges)
  BY TableIsFinite DEF WithheldSound, ChargesTyped
<1>3. /\ IsTable(new) /\ DOMAIN new = DOMAIN charges \cup {Len(charges) + 1} /\ new[Len(charges) + 1] = row
      /\ \A b \in DOMAIN charges : new[b] = charges[b]
  BY ONLY <1>1, <1>2, TableGrows
<1>4. ChargesTyped(new)
  BY <1>2, <1>3 DEF ChargesTyped
<1>5. PICK A : A = Deducted(charges)
  OBVIOUS
<1>6. Deducted(new) = A /\ A \subseteq DOMAIN charges
  BY <1>3, <1>5 DEF Deducted
<1>7. /\ IsFiniteSet(A) /\ A \subseteq DOMAIN charges /\ A \subseteq DOMAIN new
      /\ \A b \in A : new[b]["amount"] = charges[b]["amount"]
  BY <1>2, <1>3, <1>6, FS_Subset
<1>8. SumOf(new, "amount", A) = SumOf(charges, "amount", A)
  BY ONLY <1>7, SumOfSameRows
<1>9. WithheldSound(certificates, new, retentions)
  BY <1>4, <1>5, <1>6, <1>8 DEF WithheldSound
<1>10. QED
  BY <1>1, <1>9

\* A row is set for an agreement that counts what was certified before, or is released.
LEMMA WithheldAfterRow ==
    ASSUME NEW certificates, NEW charges, NEW retentions, WithheldSound(certificates, charges, retentions),
           NEW row, {"agreement", "pct", "withheld", "carried", "released"} \subseteq DOMAIN row,
           row.withheld \in Int, row.carried \in Int, row.pct \in Nat,
           row.withheld + row.carried = RetainedUnder(certificates, row.agreement)
    PROVE  /\ WithheldSound(certificates, charges, Append(retentions, row))
           /\ \A k \in DOMAIN retentions : WithheldSound(certificates, charges, [retentions EXCEPT ![k] = row])
<1>1. IsTable(retentions)
  BY DEF WithheldSound
<1>2. WithheldSound(certificates, charges, Append(retentions, row))
  <2>1. PICK new : new = Append(retentions, row)
    OBVIOUS
  <2>2. /\ IsTable(new) /\ DOMAIN new = DOMAIN retentions \cup {Len(retentions) + 1}
        /\ new[Len(retentions) + 1] = row /\ \A k \in DOMAIN retentions : new[k] = retentions[k]
    BY ONLY <1>1, <2>1, TableGrows
  <2>3. QED
    BY <2>1, <2>2 DEF WithheldSound
<1>3. ASSUME NEW k \in DOMAIN retentions
      PROVE  WithheldSound(certificates, charges, [retentions EXCEPT ![k] = row])
  <2>1. PICK new : new = [retentions EXCEPT ![k] = row]
    OBVIOUS
  <2>2. /\ IsTable(new) /\ DOMAIN new = DOMAIN retentions /\ new[k] = row
        /\ \A x \in DOMAIN retentions \ {k} : new[x] = retentions[x]
    BY ONLY <1>1, <1>3, <2>1, TableChanges
  <2>3. QED
    BY <2>1, <2>2 DEF WithheldSound
<1>4. QED
  BY <1>2, <1>3

SubcontractSound ==
    /\ {"agreement", "sheet", "subcert", "backcharge", "subretention"} \subseteq DOMAIN db
    /\ MeasuredSound(db["agreement"], db["sheet"])
    /\ WithheldSound(db["subcert"], db["backcharge"], db["subretention"])

\* The subcontracts' invariant implies the property.
LEMMA SubcontractSoundSays == ASSUME SubcontractSound PROVE SubcontractMoneyAddsUp
  BY DEF SubcontractSound, WithheldSound, SubcontractMoneyAddsUp, TakenOff, Total, Deducted, CertifiedRetention,
         RetainedUnder, CertificatesUnder

\* It is about five tables: where they are sound after a step, it holds again.
LEMMA SubcontractSoundAgain ==
    ASSUME SubcontractSound, DOMAIN db' = DOMAIN db, MeasuredSound(db'["agreement"], db'["sheet"]),
           WithheldSound(db'["subcert"], db'["backcharge"], db'["subretention"])
    PROVE  SubcontractSound'
  BY DEF SubcontractSound

\* A step that writes none of them keeps it.
LEMMA SubcontractLeftAlone ==
    ASSUME SubcontractSound, NEW names, Keeps(names),
           names \cap {"agreement", "sheet", "subcert", "backcharge", "subretention"} = {}
    PROVE  SubcontractSound'
<1>1. /\ db'["agreement"] = db["agreement"] /\ db'["sheet"] = db["sheet"] /\ DOMAIN db' = DOMAIN db
      /\ db'["subcert"] = db["subcert"] /\ db'["backcharge"] = db["backcharge"]
      /\ db'["subretention"] = db["subretention"]
  BY DEF Keeps, SubcontractSound
<1>2. QED
  BY <1>1, SubcontractSoundAgain DEF SubcontractSound

\* Work is agreed and measured: nothing is paid yet.
LEMMA MeasuredAfterWrite ==
    ASSUME NEW agreements, NEW sheets, MeasuredSound(agreements, sheets)
    PROVE  /\ \A row : row.rate \in Nat /\ row.pct \in Nat => MeasuredSound(Append(agreements, row), sheets)
           /\ \A row : row.agreement \in DOMAIN agreements /\ row.quantity \in Nat =>
                MeasuredSound(agreements, Append(sheets, row))
           /\ \A row, k : k \in DOMAIN sheets /\ row.agreement = sheets[k].agreement
                            /\ row.quantity = sheets[k].quantity =>
                MeasuredSound(agreements, [sheets EXCEPT ![k] = row])
<1>1. IsTable(agreements) /\ IsTable(sheets)
  BY DEF MeasuredSound
<1>2. ASSUME NEW row, row.rate \in Nat, row.pct \in Nat PROVE MeasuredSound(Append(agreements, row), sheets)
  <2>1. PICK new : new = Append(agreements, row)
    OBVIOUS
  <2>2. /\ IsTable(new) /\ DOMAIN new = DOMAIN agreements \cup {Len(agreements) + 1}
        /\ new[Len(agreements) + 1] = row /\ \A k \in DOMAIN agreements : new[k] = agreements[k]
    BY ONLY <1>1, <2>1, TableGrows
  <2>3. QED
    BY <1>2, <2>1, <2>2 DEF MeasuredSound
<1>3. ASSUME NEW row, row.agreement \in DOMAIN agreements, row.quantity \in Nat
      PROVE  MeasuredSound(agreements, Append(sheets, row))
  <2>1. PICK new : new = Append(sheets, row)
    OBVIOUS
  <2>2. /\ IsTable(new) /\ DOMAIN new = DOMAIN sheets \cup {Len(sheets) + 1}
        /\ new[Len(sheets) + 1] = row /\ \A k \in DOMAIN sheets : new[k] = sheets[k]
    BY ONLY <1>1, <2>1, TableGrows
  <2>3. QED
    BY <1>3, <2>1, <2>2 DEF MeasuredSound
<1>4. ASSUME NEW row, NEW k \in DOMAIN sheets, row.agreement = sheets[k].agreement,
             row.quantity = sheets[k].quantity
      PROVE  MeasuredSound(agreements, [sheets EXCEPT ![k] = row])
  <2>1. PICK new : new = [sheets EXCEPT ![k] = row]
    OBVIOUS
  <2>2. /\ IsTable(new) /\ DOMAIN new = DOMAIN sheets /\ new[k] = row
        /\ \A x \in DOMAIN sheets \ {k} : new[x] = sheets[x]
    BY ONLY <1>1, <1>4, <2>1, TableChanges
  <2>3. QED
    BY <1>4, <2>1, <2>2 DEF MeasuredSound
<1>5. QED
  BY <1>2, <1>3, <1>4

\* An agreement, a sheet.
LEMMA SubcontractAfterWork ==
    ASSUME ~ Concurrent, SubcontractSound, NEW p,
           \/ \E rate \in WorkRates, pct \in AgreedPcts :
                Create(p, "agreement", SubcontractAgreement(rate, pct))
           \/ \E a \in Rows(p, "agreement"), quantity \in Measured :
                Create(p, "sheet", MeasurementSheet(a, quantity))
           \/ \E k : VerifyMeasurementSheet(p, k)
    PROVE  SubcontractSound'
<1>1. PICK agreements, sheets : agreements = db["agreement"] /\ sheets = db["sheet"]
  OBVIOUS
<1>2. /\ MeasuredSound(agreements, sheets)
      /\ {"agreement", "sheet", "subcert", "backcharge", "subretention"} \subseteq DOMAIN db
      /\ WithheldSound(db["subcert"], db["backcharge"], db["subretention"])
  BY <1>1 DEF SubcontractSound
<1>3. ASSUME NEW rate \in WorkRates, NEW pct \in AgreedPcts,
             Create(p, "agreement", SubcontractAgreement(rate, pct))
      PROVE  SubcontractSound'
  <2>1. PICK row : row = SubcontractAgreement(rate, pct)
    OBVIOUS
  <2>2. row.rate \in Nat /\ row.pct \in Nat
    BY <2>1, SubcontractsAssumption DEF SubcontractAgreement
  <2>3. /\ DOMAIN db' = DOMAIN db /\ db'["agreement"] = Append(agreements, row)
        /\ \A u \in DOMAIN db \ {"agreement"} : db'[u] = db[u]
    BY <1>1, <1>2, <1>3, <2>1, RowCreated
  <2>4. MeasuredSound(Append(agreements, row), sheets)
    BY ONLY <1>2, <2>2, MeasuredAfterWrite
  <2>5. QED
    BY <1>1, <1>2, <2>3, <2>4, SubcontractSoundAgain
<1>4. ASSUME NEW a \in Rows(p, "agreement"), NEW quantity \in Measured,
             Create(p, "sheet", MeasurementSheet(a, quantity))
      PROVE  SubcontractSound'
  <2>1. PICK row : row = MeasurementSheet(a, quantity)
    OBVIOUS
  <2>2. row.agreement \in DOMAIN agreements /\ row.quantity \in Nat
    BY <1>1, <2>1, SubcontractsAssumption, SerialRows DEF MeasurementSheet, Rows
  <2>3. /\ DOMAIN db' = DOMAIN db /\ db'["sheet"] = Append(sheets, row)
        /\ \A u \in DOMAIN db \ {"sheet"} : db'[u] = db[u]
    BY <1>1, <1>2, <1>4, <2>1, RowCreated
  <2>4. MeasuredSound(agreements, Append(sheets, row))
    BY ONLY <1>2, <2>2, MeasuredAfterWrite
  <2>5. QED
    BY <1>1, <1>2, <2>3, <2>4, SubcontractSoundAgain
<1>5. ASSUME NEW k, VerifyMeasurementSheet(p, k) PROVE SubcontractSound'
  <2>1. PICK row : row = [sheets[k] EXCEPT !.status = "verified"]
    OBVIOUS
  <2>2. k \in DOMAIN sheets /\ db' = [db EXCEPT !.sheet[k].status = "verified"]
    BY <1>1, <1>5, SerialRows DEF VerifyMeasurementSheet, Turn, Rows, Row, Commit
  <2>3. row.agreement = sheets[k].agreement /\ row.quantity = sheets[k].quantity
    BY <2>1
  <2>4. MeasuredSound(agreements, [sheets EXCEPT ![k] = row])
    BY ONLY <1>2, <2>2, <2>3, MeasuredAfterWrite
  <2>5. /\ DOMAIN db' = DOMAIN db /\ db'["sheet"] = [sheets EXCEPT ![k] = row]
        /\ \A u \in DOMAIN db \ {"sheet"} : db'[u] = db[u]
    BY ONLY <1>1, <1>2, <2>1, <2>2
  <2>6. QED
    BY <1>1, <1>2, <2>4, <2>5, SubcontractSoundAgain
<1>6. QED
  BY <1>3, <1>4, <1>5

\* A charge, a row for the retention, a release of it.
LEMMA SubcontractAfterCharge ==
    ASSUME ~ Concurrent, SubcontractSound, NEW p,
           \/ \E a : Create(p, "backcharge", BackCharge(a, 1))
           \/ \E a : \E pct \in RetentionPcts : SetRetention(p, a, pct)
           \/ \E k, stage : ReleaseSubcontractRetention(p, k, stage)
    PROVE  SubcontractSound'
<1>1. PICK certificates, charges, retentions :
        certificates = db["subcert"] /\ charges = db["backcharge"] /\ retentions = db["subretention"]
  OBVIOUS
<1>2. /\ WithheldSound(certificates, charges, retentions)
      /\ {"agreement", "sheet", "subcert", "backcharge", "subretention"} \subseteq DOMAIN db
      /\ MeasuredSound(db["agreement"], db["sheet"])
  BY <1>1 DEF SubcontractSound
<1>3. ASSUME NEW a, Create(p, "backcharge", BackCharge(a, 1)) PROVE SubcontractSound'
  <2>1. PICK row : row = BackCharge(a, 1)
    OBVIOUS
  <2>2. {"amount", "deducted"} \subseteq DOMAIN row /\ row.amount \in Int /\ row.deducted = 0
    BY <2>1 DEF BackCharge
  <2>3. /\ DOMAIN db' = DOMAIN db /\ db'["backcharge"] = Append(charges, row)
        /\ \A u \in DOMAIN db \ {"backcharge"} : db'[u] = db[u]
    BY <1>1, <1>2, <1>3, <2>1, RowCreated
  <2>4. WithheldSound(certificates, Append(charges, row), retentions)
    BY ONLY <1>2, <2>2, WithheldAfterCharge
  <2>5. QED
    BY <1>1, <1>2, <2>3, <2>4, SubcontractSoundAgain
<1>4. ASSUME NEW a, NEW pct \in RetentionPcts, SetRetention(p, a, pct) PROVE SubcontractSound'
  <2>1. PICK carried : carried = RetainedUnder(certificates, a)
    OBVIOUS
  <2>2. PICK row : row = SubcontractRetention(a, pct, carried)
    OBVIOUS
  <2>3. carried = CertifiedRetention(db, a)
    BY <1>1, <2>1 DEF CertifiedRetention, RetainedUnder, CertificatesUnder
  <2>4. Create(p, "subretention", row)
    BY <1>4, <2>2, <2>3, SerialRows DEF SetRetention
  <2>5. /\ DOMAIN db' = DOMAIN db /\ db'["subretention"] = Append(retentions, row)
        /\ \A u \in DOMAIN db \ {"subretention"} : db'[u] = db[u]
    BY <1>1, <1>2, <2>4, RowCreated
  <2>6. CertificatesTyped(certificates)
    BY <1>2 DEF WithheldSound
  <2>7. carried \in Int
    BY <2>1, <2>6, RetainedIsWhole
  <2>8. /\ {"agreement", "pct", "withheld", "carried", "released"} \subseteq DOMAIN row
        /\ row.withheld = 0 /\ row.carried = carried /\ row.agreement = a /\ row.pct \in Nat
    BY <2>2, SubcontractsAssumption DEF SubcontractRetention
  <2>9. /\ row.withheld \in Int /\ row.carried \in Int
        /\ row.withheld + row.carried = RetainedUnder(certificates, row.agreement)
    BY <2>1, <2>7, <2>8
  <2>10. WithheldSound(certificates, charges, Append(retentions, row))
    BY ONLY <1>2, <2>8, <2>9, WithheldAfterRow
  <2>11. QED
    BY <1>1, <1>2, <2>5, <2>10, SubcontractSoundAgain
<1>5. ASSUME NEW k, NEW stage, ReleaseSubcontractRetention(p, k, stage) PROVE SubcontractSound'
  <2>1. PICK old : old = retentions[k]
    OBVIOUS
  <2>2. PICK row : row = [old EXCEPT !.released = stage]
    OBVIOUS
  <2>3. k \in DOMAIN retentions /\ db' = [db EXCEPT !["subretention"] = [retentions EXCEPT ![k] = row]]
    BY <1>1, <1>5, <2>1, <2>2, SerialRows DEF ReleaseSubcontractRetention, Amend, Rows, Row, Commit
  <2>4. /\ {"agreement", "pct", "withheld", "carried", "released"} \subseteq DOMAIN old
        /\ old.withheld \in Int /\ old.carried \in Int /\ old.pct \in Nat
        /\ old.withheld + old.carried = RetainedUnder(certificates, old.agreement)
    BY <1>2, <2>1, <2>3 DEF WithheldSound
  <2>5. /\ DOMAIN row = DOMAIN old
        /\ row.withheld = old.withheld /\ row.carried = old.carried /\ row.agreement = old.agreement
        /\ row.pct = old.pct
    BY ONLY <2>2, <2>4
  <2>6. /\ {"agreement", "pct", "withheld", "carried", "released"} \subseteq DOMAIN row
        /\ row.withheld \in Int /\ row.carried \in Int /\ row.pct \in Nat
        /\ row.withheld + row.carried = RetainedUnder(certificates, row.agreement)
    BY <2>4, <2>5
  <2>7. WithheldSound(certificates, charges, [retentions EXCEPT ![k] = row])
    BY ONLY <1>2, <2>3, <2>6, WithheldAfterRow
  <2>8. /\ DOMAIN db' = DOMAIN db /\ db'["subretention"] = [retentions EXCEPT ![k] = row]
        /\ \A u \in DOMAIN db \ {"subretention"} : db'[u] = db[u]
    BY ONLY <1>1, <1>2, <2>3
  <2>9. QED
    BY <1>1, <1>2, <2>7, <2>8, SubcontractSoundAgain
<1>6. QED
  BY <1>3, <1>4, <1>5

\* What the sheets of a certificate come to is a whole number.
LEMMA GrossIsWhole ==
    ASSUME NEW agreements, NEW sheets, MeasuredSound(agreements, sheets), NEW chosen \in SUBSET DOMAIN sheets
    PROVE  SumFunction([k \in chosen |-> sheets[k].quantity * agreements[sheets[k].agreement].rate]) \in Int
<1> DEFINE f == [k \in chosen |-> sheets[k].quantity * agreements[sheets[k].agreement].rate]
<1>1. IsFiniteSet(chosen)
  BY TableIsFinite, FS_Subset DEF MeasuredSound
<1>2. ASSUME NEW k \in chosen PROVE f[k] \in Int
  <2>1. sheets[k].quantity \in Nat /\ agreements[sheets[k].agreement].rate \in Nat
    BY DEF MeasuredSound
  <2>2. PICK m, n : m = sheets[k].quantity /\ n = agreements[sheets[k].agreement].rate
    OBVIOUS
  <2>3. m * n \in Int
    BY <2>1, <2>2
  <2>4. f[k] = m * n
    BY <2>2
  <2>5. QED
    BY <2>3, <2>4
<1>3. DOMAIN f = chosen
  OBVIOUS
<1> HIDE DEF f
<1>4. SumFunctionOnSet(f, DOMAIN f) \in Int
  BY <1>1, <1>2, <1>3, SumIsInteger
<1>5. SumFunction(f) \in Int
  BY <1>4 DEF SumFunction, SumFunctionOnSet, FoldFunction
<1>6. QED
  BY <1>5 DEF f

Issued(s, cert, a, chosen, asked) ==
    LET gross == SumFunction([k \in chosen |-> s.sheet[k].quantity * s.agreement[s.sheet[k].agreement].rate])
        withheld == (gross * RetentionPct(s, a)) \div 100
        due == Outstanding(s, asked)
    IN WithRetention(
         [s EXCEPT
            !.subcert = Append(@, PaymentCertificate(a, chosen, gross, withheld, Total(s, due))),
            !.backcharge = [b \in DOMAIN @ |-> IF b \in due THEN [@[b] EXCEPT !.deducted = cert] ELSE @[b]]],
         a, withheld)

\* issue_payment_certificate, of the state alone.
LEMMA IssuedAsCommitted ==
    ASSUME ~ Concurrent, NEW p, NEW a, NEW chosen, NEW asked, NEW waiver,
           IssueSubcontractCertificate(p, a, chosen, asked, waiver)
    PROVE  db' = Issued(db, Len(db.subcert) + 1, a, chosen, asked)
<1>1. Commit(p, Issued(Seen(p), Len(db.subcert) + 1, a, chosen, asked))
  BY Zenon DEF IssueSubcontractCertificate, Issued
<1>2. Seen(p) = db
  BY SerialRows
<1>3. Commit(p, Issued(db, Len(db.subcert) + 1, a, chosen, asked))
  BY ONLY <1>1, <1>2
<1>4. QED
  BY <1>3, SerialRows DEF Commit

\* issue_payment_certificate, with or without retention and back charges.
LEMMA SubcontractAfterCertificate ==
    ASSUME ~ Concurrent, SubcontractSound, NEW p, NEW a, NEW chosen \in SUBSET Rows(p, "sheet"),
           NEW asked \in SUBSET Rows(p, "backcharge"), NEW waiver,
           IssueSubcontractCertificate(p, a, chosen, asked, waiver)
    PROVE  SubcontractSound'
<1>1. PICK certificates, charges, retentions :
        certificates = db["subcert"] /\ charges = db["backcharge"] /\ retentions = db["subretention"]
  OBVIOUS
<1>2. /\ WithheldSound(certificates, charges, retentions) /\ MeasuredSound(db["agreement"], db["sheet"])
      /\ {"agreement", "sheet", "subcert", "backcharge", "subretention"} \subseteq DOMAIN db
  BY <1>1 DEF SubcontractSound
<1>3. chosen \in SUBSET DOMAIN db["sheet"] /\ asked \in SUBSET DOMAIN charges
  BY <1>1, SerialRows DEF Rows
<1>4. PICK gross : gross = SumFunction([k \in chosen |->
                             db["sheet"][k].quantity * db["agreement"][db["sheet"][k].agreement].rate])
  OBVIOUS
<1>5. gross \in Int
  BY <1>2, <1>3, <1>4, GrossIsWhole
<1>6. PICK withheld : withheld = (gross * RetentionPct(db, a)) \div 100
  OBVIOUS
<1>7. withheld \in Int
  <2>1. a \in DOMAIN db["agreement"]
    BY SerialRows DEF IssueSubcontractCertificate
  <2>2. db["agreement"][a].pct \in Nat /\ \A r \in DOMAIN retentions : retentions[r].pct \in Nat
    BY <1>2, <2>1 DEF MeasuredSound, WithheldSound
  <2>3. PICK pct : pct = RetentionPct(db, a)
    OBVIOUS
  <2>4. pct \in Int
    <3>1. CASE RetentionOf(db, a) = {}
      BY <2>2, <2>3, <3>1 DEF RetentionPct
    <3>2. CASE RetentionOf(db, a) # {}
      <4>1. PICK k : k = (CHOOSE r \in RetentionOf(db, a) : TRUE)
        OBVIOUS
      <4>2. k \in RetentionOf(db, a)
        BY <3>2, <4>1
      <4>3. k \in DOMAIN retentions
        BY <1>1, <4>2 DEF RetentionOf
      <4>4. pct = retentions[k].pct
        BY <1>1, <2>3, <3>2, <4>1 DEF RetentionPct
      <4>5. QED
        BY <2>2, <4>3, <4>4
    <3>3. QED
      BY <3>1, <3>2
  <2>5. gross * pct \in Int
    BY <1>5, <2>4
  <2>6. QED
    BY <1>6, <2>3, <2>5
<1>8. PICK due : due = {b \in asked : charges[b].deducted = 0}
  OBVIOUS
<1>9. PICK off : off = SumOf(charges, "amount", due)
  OBVIOUS
<1>10. PICK cert : cert = Len(certificates) + 1
  OBVIOUS
<1>11. PICK taken : taken = [b \in DOMAIN charges |->
                               IF b \in due THEN [charges[b] EXCEPT !.deducted = cert] ELSE charges[b]]
  OBVIOUS
<1>12. PICK held : held = [r \in DOMAIN retentions |->
                             IF retentions[r].agreement = a THEN [retentions[r] EXCEPT !.withheld = @ + withheld]
                             ELSE retentions[r]]
  OBVIOUS
<1>13. PICK row : row = PaymentCertificate(a, chosen, gross, withheld, off)
  OBVIOUS
<1>14. due = Outstanding(db, asked) /\ off = Total(db, due)
  BY <1>1, <1>8, <1>9 DEF Outstanding, Total
<1>15. db' = WithRetention([db EXCEPT !.subcert = Append(@, row), !.backcharge = taken], a, withheld)
  <2>1. db' = WithRetention(
                [db EXCEPT
                   !.subcert = Append(@, PaymentCertificate(a, chosen, gross, withheld, Total(db, due))),
                   !.backcharge = [b \in DOMAIN @ |->
                                     IF b \in due THEN [@[b] EXCEPT !.deducted = Len(db.subcert) + 1] ELSE @[b]]],
                a, withheld)
    <3>1. db' = Issued(db, Len(db.subcert) + 1, a, chosen, asked)
      BY IssuedAsCommitted
    <3>2. QED
      BY ONLY <1>4, <1>6, <1>14, <3>1 DEF Issued
  <2>2. taken = [b \in DOMAIN db.backcharge |->
                   IF b \in due THEN [db.backcharge[b] EXCEPT !.deducted = Len(db.subcert) + 1]
                   ELSE db.backcharge[b]]
    BY <1>1, <1>10, <1>11
  <2>3. row = PaymentCertificate(a, chosen, gross, withheld, Total(db, due))
    BY <1>13, <1>14
  <2>4. QED
    BY ONLY <2>1, <2>2, <2>3
<1>16. /\ DOMAIN db' = DOMAIN db /\ db'["subcert"] = Append(certificates, row) /\ db'["backcharge"] = taken
       /\ db'["subretention"] = held
       /\ db'["agreement"] = db["agreement"] /\ db'["sheet"] = db["sheet"]
  <2>1. PICK s : s = [db EXCEPT !.subcert = Append(@, row), !.backcharge = taken]
    OBVIOUS
  <2>2. /\ DOMAIN s = DOMAIN db /\ s["subcert"] = Append(certificates, row) /\ s["backcharge"] = taken
        /\ s["subretention"] = retentions
        /\ s["agreement"] = db["agreement"] /\ s["sheet"] = db["sheet"]
    BY ONLY <1>1, <1>2, <2>1
  <2>3. db' = [s EXCEPT !["subretention"] = held]
    <3>1. held = [r \in DOMAIN s.subretention |->
                    IF s.subretention[r].agreement = a THEN [s.subretention[r] EXCEPT !.withheld = @ + withheld]
                    ELSE s.subretention[r]]
      BY ONLY <1>12, <2>2
    <3>2. db' = WithRetention(s, a, withheld)
      BY ONLY <1>15, <2>1
    <3>3. QED
      BY ONLY <3>1, <3>2 DEF WithRetention
  <2>4. QED
    BY ONLY <1>2, <2>2, <2>3
<1>17. DueTaken(charges, due, taken)
  <2>1. ChargesTyped(charges)
    BY <1>2 DEF WithheldSound
  <2>2. cert # 0
    <3>1. IsTable(certificates)
      BY <1>2 DEF WithheldSound, CertificatesTyped
    <3>2. Len(certificates) \in Nat
      BY <3>1, TableRows DEF IsTable
    <3>3. QED
      BY <1>10, <3>2
  <2>3. QED
    BY ONLY <1>3, <1>8, <1>11, <2>1, <2>2 DEF ChargesTyped, DueTaken
<1>18. off \in Int
  <2>1. ChargesTyped(charges)
    BY <1>2 DEF WithheldSound
  <2>2. QED
    BY <1>9, <1>17, <2>1, DeductedOnce
<1>19. /\ row.gross = gross /\ row.retention = withheld /\ row.net = gross - withheld - off
       /\ row.agreement = a
  BY <1>13 DEF PaymentCertificate
<1>20. /\ row.gross \in Int /\ row.retention \in Int /\ row.net \in Int
       /\ row.gross - row.retention - row.net = off
  BY <1>5, <1>7, <1>18, <1>19
<1>21. MoreHeld(retentions, row.agreement, row.retention, held)
  BY ONLY <1>12, <1>19 DEF MoreHeld
<1>22. WithheldSound(Append(certificates, row), taken, held)
  BY ONLY <1>2, <1>9, <1>17, <1>20, <1>21, WithheldAfterCertificate
<1>23. QED
  BY <1>2, <1>16, <1>22, SubcontractSoundAgain

\* Every route of the subcontracts and of their portal keeps it.
LEMMA SubcontractStaysSound ==
    ASSUME ~ Concurrent, SubcontractSound, NEW p, SubcontractNext(p) \/ ClaimRoutes(p)
    PROVE  SubcontractSound'
<1>1. PICK names : names = {"compliance", "subclaim"}
  OBVIOUS
<1>2. CASE Keeps(names)
  <2>1. names \cap {"agreement", "sheet", "subcert", "backcharge", "subretention"} = {}
    BY <1>1
  <2>2. QED
    BY <1>2, <2>1, SubcontractLeftAlone
<1>3. CASE \/ \E rate \in WorkRates, pct \in AgreedPcts :
                Create(p, "agreement", SubcontractAgreement(rate, pct))
           \/ \E a \in Rows(p, "agreement"), quantity \in Measured :
                Create(p, "sheet", MeasurementSheet(a, quantity))
           \/ \E k : VerifyMeasurementSheet(p, k)
  BY <1>3, SubcontractAfterWork
<1>4. CASE \/ \E a : Create(p, "backcharge", BackCharge(a, 1))
           \/ \E a : \E pct \in RetentionPcts : SetRetention(p, a, pct)
           \/ \E k, stage : ReleaseSubcontractRetention(p, k, stage)
  BY <1>4, SubcontractAfterCharge
<1>5. ASSUME NEW row, Create(p, "compliance", row) \/ Create(p, "subclaim", row) PROVE SubcontractSound'
  BY <1>1, <1>2, <1>5, CreateKeeps
<1>6. ASSUME NEW k, DocumentExpires(p, k) PROVE SubcontractSound'
  BY <1>1, <1>2, <1>6, SerialRows DEF DocumentExpires, Amend, Commit, Keeps
<1>7. ASSUME NEW k, NEW d, ReviewClaim(p, k, d) PROVE SubcontractSound'
  BY <1>1, <1>2, <1>7, TurnKeeps DEF ReviewClaim
<1>8. ASSUME NEW a, NEW chosen \in SUBSET Rows(p, "sheet"), NEW asked \in SUBSET Rows(p, "backcharge"),
             NEW waiver, IssueSubcontractCertificate(p, a, chosen, asked, waiver)
      PROVE  SubcontractSound'
  BY <1>8, SubcontractAfterCertificate
<1>9. CASE AgreementRoutes(p)
  BY <1>3, <1>4, <1>5, <1>9 DEF AgreementRoutes
<1>10. CASE CertificationRoutes(p)
  BY <1>3, <1>6, <1>8, <1>10 DEF CertificationRoutes
<1>11. CASE ClaimRoutes(p)
  BY <1>3, <1>4, <1>5, <1>7, <1>11 DEF ClaimRoutes
<1>12. QED
  BY <1>9, <1>10, <1>11 DEF SubcontractNext

-----------------------------------------------------------------------------
(* Money follows the work agreed *)

MoneySound == SurveySound /\ SubcontractSound /\ BilledSound /\ RetentionSound

\* What the billing's invariants imply: nothing is billed, withheld or recouped beyond
\* what was agreed.
LEMMA BilledSoundSays ==
    ASSUME BilledSound, RetentionSound
    PROVE  BilledWithinContract
<1>1. CumulativeBilled(db) = BilledBy(db["certline"], Counted(db["certificate"]))
  BY DEF CumulativeBilled, BilledOn, BilledBy, LinesOn, Counted
<1>2. ApprovedVariation(db) = AgreedBy(db["variation"])
  BY DEF ApprovedVariation, AgreedBy, Approved
<1>3. CumulativeBilled(db) <= Contracted + ApprovedVariation(db)
  BY <1>1, <1>2 DEF BilledSound, BilledRowsSound
<1>4. ASSUME NEW k \in DOMAIN db.certificate PROVE db.certificate[k].gross = BilledOn(db, {k})
  <2>1. db["certificate"][k].gross = BilledBy(db["certline"], {k})
    BY DEF BilledSound, BilledRowsSound
  <2>2. BilledOn(db, {k}) = BilledBy(db["certline"], {k})
    BY DEF BilledOn, BilledBy, LinesOn
  <2>3. QED
    BY <2>1, <2>2
<1>5. /\ \A k \in DOMAIN db.retention : db.retention[k].withheld <= CapAmount
      /\ \A k \in DOMAIN db.advance : db.advance[k].recouped <= db.advance[k].amount
  BY DEF RetentionSound, RetentionRowsSound
<1>6. QED
  BY <1>3, <1>4, <1>5 DEF BilledWithinContract

\* The invariant implies the property.
LEMMA MoneySoundSays == ASSUME MoneySound PROVE MoneyFollowsAgreement
  BY SurveySoundSays, SubcontractSoundSays, BilledSoundSays DEF MoneySound, MoneyFollowsAgreement

\* A step that writes none of the tables that are about money.
LEMMA MoneyLeftAlone ==
    ASSUME MoneySound, NEW names, Keeps(names),
           names \cap {"surface", "volume", "agreement", "sheet", "subcert", "backcharge", "subretention",
                       "retention", "advance", "certificate", "certline", "variation"} = {}
    PROVE  MoneySound'
  BY SurveyLeftAlone, SubcontractLeftAlone, BilledLeftAlone, RetentionLeftAlone DEF MoneySound

\* Which parts write which of them.
LEMMA WhoWritesMoney ==
    ASSUME NEW part0 \in DOMAIN PartTables
    PROVE  /\ part0 = "survey" \/ PartTables[part0] \cap {"surface", "volume"} = {}
           /\ \/ part0 \in {"subcontracts", "claims"}
              \/ PartTables[part0] \cap {"agreement", "sheet", "subcert", "backcharge", "subretention"} = {}
           /\ \/ part0 \in {"billing", "clients"}
              \/ PartTables[part0] \cap {"certificate", "certline", "variation"} = {}
           /\ part0 = "retention" \/ PartTables[part0] \cap {"retention", "advance"} = {}
  BY DEF PartTables

\* Each part keeps the invariant: it writes its own tables, and of the others' none.
LEMMA MoneySoundAfterRequest ==
    ASSUME ~ Concurrent, MoneySound, RequestNext
    PROVE  MoneySound'
<1>1. part \in DOMAIN PartTables /\ Keeps(PartTables[part])
  BY PartKeeps
<1>2. PICK names : names = PartTables[part]
  OBVIOUS
<1>3. Keeps(names)
  BY <1>1, <1>2
<1>4. /\ part = "survey" \/ names \cap {"surface", "volume"} = {}
      /\ \/ part \in {"subcontracts", "claims"}
         \/ names \cap {"agreement", "sheet", "subcert", "backcharge", "subretention"} = {}
      /\ \/ part \in {"billing", "clients"}
         \/ names \cap {"certificate", "certline", "variation"} = {}
      /\ part = "retention" \/ names \cap {"retention", "advance"} = {}
  BY <1>1, <1>2, WhoWritesMoney
<1>5. SurveySound'
  <2>1. CASE part = "survey"
    <3>1. \E q \in Workers : SurveyRoutes(q)
      BY <2>1 DEF RequestNext
    <3>2. QED
      BY <3>1, SurveyStaysSound DEF MoneySound
  <2>2. CASE part # "survey"
    BY <1>3, <1>4, <2>2, SurveyLeftAlone DEF MoneySound
  <2>3. QED
    BY <2>1, <2>2
<1>6. SubcontractSound'
  <2>1. CASE part \in {"subcontracts", "claims"}
    <3>1. \E q \in Workers : SubcontractNext(q) \/ ClaimRoutes(q)
      BY <2>1 DEF RequestNext
    <3>2. QED
      BY <3>1, SubcontractStaysSound DEF MoneySound
  <2>2. CASE part \notin {"subcontracts", "claims"}
    BY <1>3, <1>4, <2>2, SubcontractLeftAlone DEF MoneySound
  <2>3. QED
    BY <2>1, <2>2
<1>7. BilledSound'
  <2>1. CASE part \in {"billing", "clients"}
    <3>1. \E q \in Workers : BilRoutes(q) \/ ClientNext(q)
      BY <2>1 DEF RequestNext
    <3>2. QED
      BY <3>1, BilledAfterRoutes, BilledAfterClients DEF MoneySound
  <2>2. CASE part \notin {"billing", "clients"}
    BY <1>3, <1>4, <2>2, BilledLeftAlone DEF MoneySound
  <2>3. QED
    BY <2>1, <2>2
<1>8. RetentionSound'
  <2>1. CASE part = "retention"
    <3>1. \E q \in Workers : RetentionRoutes(q)
      BY <2>1 DEF RequestNext
    <3>2. QED
      BY <3>1, RetentionStaysSound DEF MoneySound
  <2>2. CASE part # "retention"
    BY <1>3, <1>4, <2>2, RetentionLeftAlone DEF MoneySound
  <2>3. QED
    BY <2>1, <2>2
<1>9. QED
  BY <1>5, <1>6, <1>7, <1>8 DEF MoneySound

\* So does every step; what the devices do between requests is about other tables.
LEMMA MoneyStaysSound ==
    ASSUME ~ Concurrent, AccessSound, MoneySound, [Next]_<<part, vars, fieldVars>>
    PROVE  MoneySound'
<1>1. CASE RequestNext
  BY <1>1, MoneySoundAfterRequest
<1>2. ASSUME NEW p, DeviceNext(p) PROVE MoneySound'
  <2>1. PICK names : names = {"diary", "sync", "conflict", "report"}
    OBVIOUS
  <2>2. Keeps(names)
    BY <1>2, <2>1, DeviceKeeps DEF AccessSound
  <2>3. names \cap {"surface", "volume", "agreement", "sheet", "subcert", "backcharge", "subretention",
                    "retention", "advance", "certificate", "certline", "variation"} = {}
    BY <2>1
  <2>4. QED
    BY <2>2, <2>3, MoneyLeftAlone
<1>3. CASE UNCHANGED <<part, vars, fieldVars>>
  <2>1. Keeps({})
    BY <1>3 DEF vars, Keeps
  <2>2. QED
    BY <2>1, MoneyLeftAlone
<1>4. QED
  BY <1>1, <1>2, <1>3 DEF Next

\* A table that is empty stays so under others that have it empty or not at all.
LEMMA EmptyUnder ==
    ASSUME NEW names, NEW m, \A t \in names : t \in DOMAIN m /\ m[t] = <<>>,
           NEW f, NEW more, \A t \in more : t \in DOMAIN f, \A t \in DOMAIN f \cap (names \cup more) : f[t] = <<>>
    PROVE  \A t \in names \cup more : t \in DOMAIN Overlay(f, m) /\ Overlay(f, m)[t] = <<>>
<1>1. DOMAIN Overlay(f, m) = DOMAIN f \cup DOMAIN m
  BY DEF Overlay
<1>2. \A t \in DOMAIN f \cup DOMAIN m : Overlay(f, m)[t] = IF t \in DOMAIN f THEN f[t] ELSE m[t]
  BY DEF Overlay
<1>3. QED
  BY <1>1, <1>2

\* The tables where the program starts: empty, but for what the clients' part has
\* prepared.
LEMMA FirstMoneyTables ==
    ASSUME Init
    PROVE  /\ \A t \in {"surface", "volume", "agreement", "sheet", "subcert", "backcharge", "subretention",
                        "retention", "advance"} : t \in DOMAIN db /\ db[t] = <<>>
           /\ {"certificate", "certline", "variation"} \subseteq DOMAIN db
           /\ \/ db["certificate"] = <<>> /\ db["certline"] = <<>> /\ db["variation"] = <<>>
              \/ /\ db["certificate"] = Submitted["certificate"]
                 /\ db["certline"] = Submitted["certline"]
                 /\ db["variation"] = Submitted["variation"]
<1> DEFINE m10 == Overlay(PaperTables, Overlay(ScheduleTables, [filed |-> <<>>]))
           m9 == Overlay(SurveyTables, m10)
           m8 == Overlay(SiteTables, Overlay(SafetyTables, m9))
           m7 == Overlay(SubcontractTables, m8)
           m6 == Overlay(PortalTables, m7)
           m5 == Overlay(ContractTables, m6)
           m4 == Overlay(BiddingTables, Overlay(AssistantTables, m5))
           m3 == Overlay(AccountTables, Overlay(ApprovalTables, m4))
           m2 == Overlay(WorkforceTables, m3)
           surveyed == {"surface", "volume"}
           sublet == {"agreement", "sheet", "subcert", "backcharge", "subretention"}
           billed == {"retention", "advance", "certificate", "certline", "variation"}
           Empty(m, names) == \A t \in names : t \in DOMAIN m /\ m[t] = <<>>
<1>1. db = Overlay(Prepared(part), m2)
  BY DEF Init, OfficeTables
<1> HIDE DEF m10
<1>2. Empty(m9, surveyed)
  BY DEF Overlay, SurveyTables
<1> HIDE DEF m9
<1>3. Empty(m8, surveyed)
  BY <1>2 DEF Overlay, SiteTables, SafetyTables
<1> HIDE DEF m8
<1>4. Empty(m7, surveyed \cup sublet)
  BY <1>3 DEF Overlay, SubcontractTables
<1> HIDE DEF m7
<1>5. Empty(m6, surveyed \cup sublet)
  BY <1>4 DEF Overlay, PortalTables
<1> HIDE DEF m6
<1>6. Empty(m5, surveyed \cup sublet \cup billed)
  BY <1>5 DEF Overlay, ContractTables
<1> HIDE DEF m5
<1>7. Empty(m4, surveyed \cup sublet \cup billed)
  BY <1>6 DEF Overlay, BiddingTables, AssistantTables
<1> HIDE DEF m4
<1>8. Empty(m3, surveyed \cup sublet \cup billed)
  BY <1>7 DEF Overlay, AccountTables, ApprovalTables
<1> HIDE DEF m3
<1>9. Empty(m2, surveyed \cup sublet \cup billed)
  BY <1>8 DEF Overlay, WorkforceTables
<1> HIDE DEF m2
<1>10. PICK f : f = Prepared(part)
  OBVIOUS
<1>11. db = [t \in DOMAIN f \cup DOMAIN m2 |-> IF t \in DOMAIN f THEN f[t] ELSE m2[t]]
  BY <1>1, <1>10 DEF Overlay
<1>12. /\ DOMAIN f \cap {"surface", "volume", "agreement", "sheet", "subcert", "backcharge", "subretention",
                         "retention", "advance"} = {}
       /\ \/ DOMAIN f \cap {"certificate", "certline", "variation"} = {}
          \/ /\ {"certificate", "certline", "variation"} \subseteq DOMAIN f
             /\ f["certificate"] = Submitted["certificate"]
             /\ f["certline"] = Submitted["certline"]
             /\ f["variation"] = Submitted["variation"]
  BY <1>10, PreparedTables
<1>13. QED
  BY ONLY <1>9, <1>11, <1>12

\* The certificates that clients begin with are within the contract.
LEMMA SubmittedIsSound ==
    BilledRowsSound(Submitted["certificate"], Submitted["certline"], Submitted["variation"])
<1>1. PICK one, two : one = SubmittedCertificate(2, ProjectOf[1]) /\ two = SubmittedCertificate(1, None)
  OBVIOUS
<1>2. PICK first, second : first = CertificateLine(1, 1, 0) /\ second = CertificateLine(2, 1, 0)
  OBVIOUS
<1>3. PICK vo : vo = VariationOrder(2, 1)
  OBVIOUS
<1>4. PICK certificates, lines, variations :
        certificates = <<one, two>> /\ lines = <<first, second>> /\ variations = <<vo>>
  OBVIOUS
<1>5. /\ certificates = Submitted["certificate"] /\ lines = Submitted["certline"]
      /\ variations = Submitted["variation"]
  BY <1>1, <1>2, <1>3, <1>4 DEF Submitted
<1>6. /\ \A cert \in {one, two} : /\ {"status", "gross", "retention", "net"} \subseteq DOMAIN cert
                                  /\ cert.status = "submitted" /\ cert.gross = 1
      /\ first.certificate = 1 /\ first.quantity = 1
      /\ second.certificate = 2 /\ second.quantity = 1
      /\ {"status", "quantity"} \subseteq DOMAIN vo /\ vo.status = "pending" /\ vo.quantity = 1
  BY <1>1, <1>2, <1>3 DEF SubmittedCertificate, ProgressCertificate, CertificateLine, VariationOrder
<1>7. /\ IsTable(certificates) /\ DOMAIN certificates = {1, 2}
      /\ certificates[1] = one /\ certificates[2] = two
      /\ IsTable(lines) /\ DOMAIN lines = {1, 2} /\ lines[1] = first /\ lines[2] = second
      /\ IsTable(variations) /\ DOMAIN variations = {1} /\ variations[1] = vo
  <2>1. \A r : <<r>> \in Seq({r}) /\ DOMAIN <<r>> = {1} /\ <<r>>[1] = r
    BY SmallTables
  <2>2. ASSUME NEW r, NEW s, NEW rows, rows = <<r, s>>
        PROVE  IsTable(rows) /\ DOMAIN rows = {1, 2} /\ rows[1] = r /\ rows[2] = s
    <3>1. rows \in Seq({r, s}) /\ DOMAIN rows = {1, 2} /\ rows[1] = r /\ rows[2] = s
      BY ONLY <2>2
    <3>2. QED
      BY <3>1 DEF IsTable
  <2>3. IsTable(certificates) /\ DOMAIN certificates = {1, 2} /\ certificates[1] = one /\ certificates[2] = two
    BY ONLY <1>4, <2>2
  <2>4. IsTable(lines) /\ DOMAIN lines = {1, 2} /\ lines[1] = first /\ lines[2] = second
    BY ONLY <1>4, <2>2
  <2>5. IsTable(variations) /\ DOMAIN variations = {1} /\ variations[1] = vo
    BY <1>4, <2>1 DEF IsTable
  <2>6. QED
    BY ONLY <2>3, <2>4, <2>5
<1>8. LinesTyped(certificates, lines) /\ VariationsTyped(variations)
  BY <1>6, <1>7 DEF LinesTyped, VariationsTyped
<1>9. /\ Counted(certificates) = {1, 2} /\ Approved(variations) = {}
      /\ LinesOn(lines, {1}) = {1} /\ LinesOn(lines, {2}) = {2} /\ LinesOn(lines, {1, 2}) = {1, 2}
  BY <1>6, <1>7 DEF Counted, LinesOn, Approved
<1>10. BilledBy(lines, {1}) = 1 /\ BilledBy(lines, {2}) = 1 /\ BilledBy(lines, {1, 2}) = 2
  <2>1. PICK f : f = [k \in DOMAIN lines |-> lines[k]["quantity"]]
    OBVIOUS
  <2>2. f[1] = 1 /\ f[2] = 1
    BY <1>6, <1>7, <2>1
  <2>3. ASSUME NEW i \in {1, 2} PROVE SumFunctionOnSet(f, {i}) = 1
    <3>1. PICK S : S = {i}
      OBVIOUS
    <3>2. IsFiniteSet(S)
      BY ONLY <3>1, FS_Singleton
    <3>3. f[i] = 1
      BY ONLY <2>2, i \in {1, 2}
    <3>4. i \in S /\ S \ {i} = {} /\ \A x \in S : f[x] \in Int
      BY ONLY <3>1, <3>3
    <3>5. SumFunctionOnSet(f, S) = f[i] + SumFunctionOnSet(f, S \ {i})
      BY ONLY <3>2, <3>4, SumWithout
    <3>6. PICK rest : rest = S \ {i}
      OBVIOUS
    <3>7. rest = {}
      BY ONLY <3>4, <3>6
    <3>8. SumFunctionOnSet(f, rest) = 0
      BY ONLY <3>7, SumOfNothing
    <3>9. SumFunctionOnSet(f, S) = 1
      BY ONLY <3>3, <3>5, <3>6, <3>8
    <3>10. QED
      BY ONLY <3>1, <3>9
  <2>4. SumFunctionOnSet(f, {1, 2}) = 2
    <3>1. PICK S : S = {1, 2}
      OBVIOUS
    <3>2. S \ {1} = {2} /\ 1 \in S
      BY ONLY <3>1
    <3>3. IsFiniteSet(S)
      <4>1. S = {1} \cup {2} /\ IsFiniteSet({1}) /\ IsFiniteSet({2})
        BY ONLY <3>1, FS_Singleton
      <4>2. QED
        BY ONLY <4>1, FS_Union
    <3>4. \A x \in S : f[x] \in Int
      BY ONLY <2>2, <3>1
    <3>5. SumFunctionOnSet(f, S) = f[1] + SumFunctionOnSet(f, S \ {1})
      BY ONLY <3>2, <3>3, <3>4, SumWithout
    <3>6. SumFunctionOnSet(f, {2}) = 1
      BY ONLY <2>3
    <3>7. QED
      BY ONLY <2>2, <3>1, <3>2, <3>5, <3>6
  <2>5. QED
    BY <1>9, <2>1, <2>3, <2>4 DEF BilledBy, SumOf
<1>11. AgreedBy(variations) = 0
  BY <1>9, SumOfNoRows DEF AgreedBy
<1>12. BilledBy(lines, Counted(certificates)) <= Contracted + AgreedBy(variations)
  BY <1>9, <1>10, <1>11, ContractsAssumption, OfficeAssumption
<1>13. \A c \in DOMAIN certificates :
          /\ {"status", "gross", "retention", "net"} \subseteq DOMAIN certificates[c]
          /\ certificates[c].gross = BilledBy(lines, {c})
  BY <1>6, <1>7, <1>10
<1>14. BilledRowsSound(certificates, lines, variations)
  BY <1>7, <1>8, <1>12, <1>13 DEF BilledRowsSound
<1>15. QED
  BY <1>5, <1>14

\* Nothing was billed and nothing is owed.
LEMMA NothingIsSound ==
    ASSUME NEW none, none = <<>>
    PROVE  /\ BilledRowsSound(none, none, none)
           /\ RetentionRowsSound(none, none)
           /\ SurveyRowsSound(none, none)
           /\ MeasuredSound(none, none)
           /\ WithheldSound(none, none, none)
<1>1. IsTable(none) /\ DOMAIN none = {} /\ none \in Seq(SurfaceRows) /\ none \in Seq(VolumeRows)
  BY SmallTables DEF IsTable
<1>2. BilledRowsSound(none, none, none)
  <2>1. LinesOn(none, Counted(none)) = {} /\ Approved(none) = {}
    BY <1>1 DEF LinesOn, Approved
  <2>2. BilledBy(none, Counted(none)) = 0 /\ AgreedBy(none) = 0
    BY <2>1, SumOfNoRows DEF BilledBy, AgreedBy
  <2>3. QED
    BY <1>1, <2>2, ContractsAssumption DEF BilledRowsSound, LinesTyped, VariationsTyped
<1>3. RetentionRowsSound(none, none) /\ SurveyRowsSound(none, none) /\ MeasuredSound(none, none)
  BY <1>1 DEF RetentionRowsSound, SurveyRowsSound, MeasuredSound
<1>4. WithheldSound(none, none, none)
  <2>1. PICK f : f = TakenOff(none)
    OBVIOUS
  <2>2. DOMAIN f = {}
    BY <1>1, <2>1 DEF TakenOff
  <2>3. SumFunctionOnSet(f, {}) = 0
    BY SumOfNothing
  <2>4. SumFunction(f) = 0
    BY <2>2, <2>3 DEF SumFunction, SumFunctionOnSet, FoldFunction
  <2>5. Deducted(none) = {}
    BY <1>1 DEF Deducted
  <2>6. SumOf(none, "amount", Deducted(none)) = 0
    BY <2>5, SumOfNoRows
  <2>7. QED
    BY <1>1, <2>1, <2>4, <2>6 DEF WithheldSound, CertificatesTyped, ChargesTyped
<1>5. QED
  BY <1>2, <1>3, <1>4

\* The invariant holds where the program starts.
LEMMA FirstMoney ==
    ASSUME Init
    PROVE  MoneySound
<1>1. PICK none : none = <<>>
  OBVIOUS
<1>2. /\ BilledRowsSound(none, none, none) /\ RetentionRowsSound(none, none) /\ SurveyRowsSound(none, none)
      /\ MeasuredSound(none, none) /\ WithheldSound(none, none, none)
  BY <1>1, NothingIsSound
<1>3. /\ \A t \in {"surface", "volume", "agreement", "sheet", "subcert", "backcharge", "subretention",
                   "retention", "advance"} : t \in DOMAIN db /\ db[t] = none
      /\ {"certificate", "certline", "variation"} \subseteq DOMAIN db
      /\ \/ db["certificate"] = none /\ db["certline"] = none /\ db["variation"] = none
         \/ /\ db["certificate"] = Submitted["certificate"]
            /\ db["certline"] = Submitted["certline"]
            /\ db["variation"] = Submitted["variation"]
  BY <1>1, FirstMoneyTables
<1>4. /\ db["surface"] = none /\ db["volume"] = none /\ db["agreement"] = none /\ db["sheet"] = none
      /\ db["subcert"] = none /\ db["backcharge"] = none /\ db["subretention"] = none
      /\ db["retention"] = none /\ db["advance"] = none
      /\ {"surface", "volume", "agreement", "sheet", "subcert", "backcharge", "subretention", "retention",
          "advance"} \subseteq DOMAIN db
  BY ONLY <1>3
<1>5. SurveySound
  BY <1>2, <1>4 DEF SurveySound
<1>6. SubcontractSound
  BY <1>2, <1>4 DEF SubcontractSound
<1>7. RetentionSound
  BY <1>2, <1>4 DEF RetentionSound
<1>8. BilledSound
  BY <1>2, <1>3, SubmittedIsSound DEF BilledSound
<1>9. QED
  BY <1>5, <1>6, <1>7, <1>8 DEF MoneySound

\* Money follows the work agreed, over every order of requests and decisions: what all
\* certificates bill is within what was contracted and varied (add_certificate_line),
\* retention and recoupment stay within what was agreed, back charges are deducted once
\* and what an agreement holds is what its certificates withheld
\* (issue_payment_certificate), and a volume that is billed was surveyed against a
\* design that is approved (submit_for_billing).
THEOREM MoneyFollowsWhatWasAgreed == ~ Concurrent => (Spec => []MoneyFollowsAgreement)
<1> SUFFICES ASSUME ~ Concurrent PROVE Spec => []MoneyFollowsAgreement
  OBVIOUS
<1>1. Init => AccessSound /\ MoneySound
  BY FirstAccess, FirstMoney
<1>2. AccessSound /\ MoneySound /\ [Next]_<<part, vars, fieldVars>> => (AccessSound /\ MoneySound)'
  BY AccessStaysSound, MoneyStaysSound
<1>3. MoneySound => MoneyFollowsAgreement
  BY MoneySoundSays
<1>4. QED
  BY <1>1, <1>2, <1>3, PTL DEF Spec

-----------------------------------------------------------------------------
(* Rows inserted one for each of a set *)

\* The value a fold that appends looks up: the tables for all parts of S.
IsInserts(g, rows, base, S) ==
    g = [s \in SUBSET S |-> IF s = {} THEN base ELSE Append(g[s \ {Pick(s)}], rows[Pick(s)])]

\* The recursion defines a function.
LEMMA InsertsExist ==
    ASSUME NEW S, IsFiniteSet(S), NEW rows, NEW base
    PROVE  \E g : IsInserts(g, rows, base, S)
<1> DEFINE After(g, s) == IF s = {} THEN base ELSE Append(g[s \ {Pick(s)}], rows[Pick(s)])
           UpTo(g, n) == \A s \in SUBSET S : Cardinality(s) <= n => g[s] = After(g, s)
           N == {n \in Nat : \E g : UpTo(g, n)}
<1>1. 0 \in N
  <2> DEFINE g == [s \in SUBSET S |-> base]
  <2>1. ASSUME NEW s \in SUBSET S, Cardinality(s) <= 0 PROVE s = {}
    <3> SUFFICES ASSUME s # {} PROVE FALSE
      OBVIOUS
    <3>1. Cardinality(s) \in Nat \ {0}
      BY PartWithout
    <3>2. QED
      BY <3>1, <2>1
  <2>2. UpTo(g, 0)
    BY <2>1
  <2>3. QED
    BY <2>2
<1>2. ASSUME NEW n \in Nat, n \in N PROVE n + 1 \in N
  <2>1. PICK g : UpTo(g, n)
    BY <1>2
  <2> DEFINE h == [s \in SUBSET S |-> IF Cardinality(s) <= n THEN g[s] ELSE After(g, s)]
  <2>2. ASSUME NEW s \in SUBSET S, Cardinality(s) <= n + 1
        PROVE  h[s] = After(h, s)
    <3>1. h[s] = After(g, s)
      BY <2>1
    <3>2. CASE s = {}
      BY <3>1, <3>2
    <3>3. CASE s # {}
      <4> DEFINE r == s \ {Pick(s)}
      <4>0. r \in SUBSET S /\ Cardinality(r) = Cardinality(s) - 1 /\ Cardinality(s) \in Nat
        BY <3>3, PartWithout
      <4>1. r \in SUBSET S /\ Cardinality(r) <= n
        BY <2>2, <4>0
      <4>2. h[r] = g[r]
        BY <4>1
      <4>3. QED
        BY <3>1, <3>3, <4>2
    <3>4. QED
      BY <3>2, <3>3
  <2>3. \E k : UpTo(k, n + 1)
    <3>1. UpTo(h, n + 1)
      BY <2>2
    <3> HIDE DEF h, UpTo
    <3>2. QED
      BY <3>1
  <2>4. QED
    <3> HIDE DEF UpTo
    <3>1. n + 1 \in Nat
      OBVIOUS
    <3>2. QED
      BY <2>3, <3>1
<1>3. Nat \subseteq N
  <2> HIDE DEF N
  <2>1. QED
    BY <1>1, <1>2, NatSetInduction
<1>4. Cardinality(S) \in Nat
  BY FS_CardinalityType
<1>5. PICK g : UpTo(g, Cardinality(S))
  BY <1>3, <1>4
<1>6. ASSUME NEW s \in SUBSET S PROVE g[s] = After(g, s)
  <2>1. Cardinality(s) <= Cardinality(S)
    BY FS_Subset
  <2>2. QED
    BY <1>5, <2>1
<1> DEFINE h == [s \in SUBSET S |-> g[s]]
<1>7. ASSUME NEW s \in SUBSET S PROVE h[s] = After(h, s)
  BY <1>6
<1>8. IsInserts(h, rows, base, S)
  BY <1>7 DEF IsInserts
<1>9. QED
  BY <1>8

\* The table grew by rows of s, whose column c adds up to the sum of f over s.
Inserted(t, base, rows, R, c, f, s) ==
    /\ t \in Seq(R)
    /\ DOMAIN base \subseteq DOMAIN t /\ \A k \in DOMAIN base : t[k] = base[k]
    /\ \A k \in DOMAIN t \ DOMAIN base : \E w \in s : t[k] = rows[w]
    /\ SumOf(t, c, DOMAIN t \ DOMAIN base) = SumFunctionOnSet(f, s)

\* What such a fold returns.
LEMMA RowsAreInserted ==
    ASSUME NEW S, IsFiniteSet(S), NEW rows, NEW R, NEW base \in Seq(R), NEW c, NEW f,
           \A w \in S : rows[w] \in R /\ rows[w][c] \in Int /\ f[w] = rows[w][c],
           NEW g, IsInserts(g, rows, base, S)
    PROVE  Inserted(g[S], base, rows, R, c, f, S)
<1> DEFINE G == {s \in SUBSET S : Inserted(g[s], base, rows, R, c, f, s)}
<1>1. {} \in G
  <2>1. g[{}] = base
    BY DEF IsInserts
  <2>2. SumOf(base, c, {}) = 0 /\ SumFunctionOnSet(f, {}) = 0
    BY SumOfNoRows, SumOfNothing
  <2>3. DOMAIN base \ DOMAIN base = {}
    OBVIOUS
  <2>4. QED
    BY <2>1, <2>2, <2>3 DEF Inserted
<1>2. ASSUME NEW s \in SUBSET S, s # {}, s \ {Pick(s)} \in G PROVE s \in G
  <2>1. PICK x, r, t, new : x = Pick(s) /\ r = s \ {x} /\ t = g[r] /\ new = g[s]
    OBVIOUS
  <2>2. x \in s /\ x \in S /\ r \in SUBSET S /\ r \in G
    BY <1>2, <2>1, PickIsIn, PartWithout
  <2>3. Inserted(t, base, rows, R, c, f, r)
    BY <2>1, <2>2
  <2>4. new = Append(t, rows[x])
    BY <1>2, <2>1 DEF IsInserts
  <2>5. t \in Seq(R) /\ rows[x] \in R
    BY <2>2, <2>3 DEF Inserted
  <2>6. PICK y : y = Len(t) + 1
    OBVIOUS
  <2>7. /\ new \in Seq(R) /\ DOMAIN new = DOMAIN t \cup {y} /\ new[y] = rows[x]
        /\ \A k \in DOMAIN t : new[k] = t[k]
        /\ y \notin DOMAIN t /\ IsFiniteSet(DOMAIN t)
    BY <2>4, <2>5, <2>6, TableInsert, TableRows
  <2>8. PICK old, all : old = DOMAIN t \ DOMAIN base /\ all = DOMAIN new \ DOMAIN base
    OBVIOUS
  <2>9. all = old \cup {y} /\ y \notin old
    BY <2>3, <2>7, <2>8 DEF Inserted
  <2>10. \A k \in all : \E w \in s : new[k] = rows[w]
    <3>1. \A k \in old : \E w \in r : t[k] = rows[w]
      BY <2>3, <2>8 DEF Inserted
    <3>2. \A k \in old : new[k] = t[k]
      BY <2>7, <2>8
    <3>3. x \in s /\ r \subseteq s /\ new[y] = rows[x]
      BY <1>2, <2>1, <2>7, PickIsIn
    <3>4. ASSUME NEW k \in all PROVE \E w \in s : new[k] = rows[w]
      <4>1. CASE k = y
        BY ONLY <3>3, <4>1
      <4>2. CASE k \in old
        BY ONLY <3>1, <3>2, <3>3, <4>2
      <4>3. QED
        BY <2>9, <4>1, <4>2
    <3>5. QED
      BY <3>4
  <2>11. SumOf(new, c, all) = SumOf(t, c, old) + new[y][c]
    <3>1. IsFiniteSet(old) /\ old \subseteq DOMAIN t /\ all \subseteq DOMAIN new
      BY <2>7, <2>8, FS_Subset
    <3>2. \A k \in old : new[k] = t[k] /\ t[k][c] \in Int
      <4>1. \A k \in old : k \in all /\ new[k] = t[k]
        BY <2>7, <2>8, <2>9
      <4>2. QED
        BY <2>10, <4>1
    <3>3. new[y][c] \in Int
      BY <2>2, <2>7
    <3>4. QED
      BY <2>9, <3>1, <3>2, <3>3, SumOfOneMore
  <2>12. SumFunctionOnSet(f, s) = f[x] + SumFunctionOnSet(f, r)
    <3>1. IsFiniteSet(s)
      BY <1>2, PartWithout
    <3>2. QED
      BY <1>2, <2>1, <3>1, SumByPick
  <2>13. SumOf(t, c, old) = SumFunctionOnSet(f, r)
    BY <2>3, <2>8 DEF Inserted
  <2>14. f[x] = new[y][c] /\ f[x] \in Int
    BY <2>2, <2>7
  <2>15. SumFunctionOnSet(f, r) \in Int
    <3>1. IsFiniteSet(r) /\ \A w \in r : f[w] \in Int
      BY <2>2, FS_Subset
    <3>2. QED
      BY <3>1, SumIsInteger
  <2>16. SumOf(new, c, all) = SumFunctionOnSet(f, s)
    BY <2>11, <2>12, <2>13, <2>14, <2>15
  <2>17. DOMAIN base \subseteq DOMAIN new /\ \A k \in DOMAIN base : new[k] = base[k]
    BY <2>3, <2>7 DEF Inserted
  <2>18. Inserted(new, base, rows, R, c, f, s)
    BY <2>7, <2>8, <2>10, <2>16, <2>17 DEF Inserted
  <2>19. QED
    BY <2>1, <2>18
<1> HIDE DEF G
<1>3. S \in G
  BY <1>1, <1>2, PartInduction
<1>4. QED
  BY <1>3 DEF G

\* The lines of a payroll run are rows inserted one for each worker.
LEMMA LinesAreInserted ==
    ASSUME NEW line, IsFiniteSet(DOMAIN line), NEW lines
    PROVE  \E g : IsInserts(g, line, lines, DOMAIN line) /\ WithLines(lines, line) = g[DOMAIN line]
<1> DEFINE G == CHOOSE g : IsInserts(g, line, lines, DOMAIN line)
<1>1. IsInserts(G, line, lines, DOMAIN line)
  BY InsertsExist
<1>2. WithLines(lines, line) = G[DOMAIN line]
  BY DEF WithLines, FoldSet, MapThenFoldSet, IsInserts, Pick
<1>3. QED
  BY <1>1, <1>2

-----------------------------------------------------------------------------
(* Payroll *)

Paid == {"approved", "locked"}

\* The timesheets a run pays a worker, and the lines of a run.
SheetsOf(sheets, number, who) == {k \in DOMAIN sheets : sheets[k].run = number /\ sheets[k].who = who}

LinesOfRun(lines, number) == {l \in DOMAIN lines : lines[l].run = number}

\* A timesheet that a run has taken is approved, and may yet be locked.
SheetSound(sheet, runs) ==
    /\ {"status", "who", "gross", "run"} \subseteq DOMAIN sheet
    /\ sheet.gross \in Int
    /\ sheet.run = 0 \/ (sheet.run \in DOMAIN runs /\ sheet.status \in Paid)

LineSound(line, sheets, runs) ==
    /\ {"run", "who", "gross", "deductions"} \subseteq DOMAIN line
    /\ line.gross \in Int /\ line.deductions \in Int
    /\ line.run \in DOMAIN runs
    /\ line.gross = SumOf(sheets, "gross", SheetsOf(sheets, line.run, line.who))

RunSound(row, lines, r) ==
    /\ {"status", "gross", "deductions"} \subseteq DOMAIN row
    /\ row.gross = SumOf(lines, "gross", LinesOfRun(lines, r))
    /\ row.deductions = SumOf(lines, "deductions", LinesOfRun(lines, r))

PayRowsSound(sheets, lines, runs) ==
    /\ IsTable(sheets) /\ IsTable(lines) /\ IsTable(runs)
    /\ \A k \in DOMAIN sheets : SheetSound(sheets[k], runs)
    /\ \A l \in DOMAIN lines : LineSound(lines[l], sheets, runs)
    /\ \A r \in DOMAIN runs : RunSound(runs[r], lines, r)

RulesTyped(rules) == IsTable(rules) /\ \A k \in DOMAIN rules : "n" \in DOMAIN rules[k] /\ rules[k].n \in Int

PayTables == {"timesheet", "payline", "payroll", "rule"}

PayrollSound ==
    /\ PayTables \subseteq DOMAIN db
    /\ PayRowsSound(db["timesheet"], db["payline"], db["payroll"])
    /\ RulesTyped(db["rule"])

\* The invariant implies the property.
LEMMA PayrollSoundSays == ASSUME PayrollSound PROVE PayrollPaysTimesheetsOnce
<1>1. PICK sheets, lines, runs : sheets = db["timesheet"] /\ lines = db["payline"] /\ runs = db["payroll"]
  OBVIOUS
<1>2. PayRowsSound(sheets, lines, runs)
  BY <1>1 DEF PayrollSound
<1>3. 0 \notin DOMAIN runs
  BY <1>2, TableIsFinite DEF PayRowsSound
<1>4. ASSUME NEW l \in DOMAIN lines, NEW mine,
             mine = {k \in DOMAIN sheets : sheets[k].run = lines[l].run /\ sheets[k].who = lines[l].who}
      PROVE  lines[l].gross = SumOf(sheets, "gross", mine) /\ \A k \in mine : sheets[k].status \in Paid
  <2>1. mine = SheetsOf(sheets, lines[l].run, lines[l].who)
    BY <1>4 DEF SheetsOf
  <2>2. LineSound(lines[l], sheets, runs)
    BY <1>2 DEF PayRowsSound
  <2>3. \A k \in mine : SheetSound(sheets[k], runs) /\ sheets[k].run # 0
    BY <1>2, <1>3, <1>4, <2>2 DEF PayRowsSound, LineSound
  <2>4. QED
    BY <2>1, <2>2, <2>3 DEF LineSound, SheetSound
<1>5. ASSUME NEW r \in DOMAIN runs, NEW its, its = {l \in DOMAIN lines : lines[l].run = r}
      PROVE  runs[r].gross = SumOf(lines, "gross", its) /\ runs[r].deductions = SumOf(lines, "deductions", its)
  <2>1. its = LinesOfRun(lines, r)
    BY <1>5 DEF LinesOfRun
  <2>2. QED
    BY <1>2, <2>1 DEF PayRowsSound, RunSound
<1>6. QED
  BY <1>1, <1>4, <1>5 DEF PayrollPaysTimesheetsOnce, Gross, Paid

\* Where the tables are sound after a step, the invariant holds again.
LEMMA PayrollSoundAgain ==
    ASSUME PayrollSound, NEW sheets, NEW lines, NEW runs, PayRowsSound(sheets, lines, runs), DOMAIN db' = DOMAIN db,
           db'["timesheet"] = sheets, db'["payline"] = lines, db'["payroll"] = runs, RulesTyped(db'["rule"])
    PROVE  PayrollSound'
<1>1. PayRowsSound(db'["timesheet"], db'["payline"], db'["payroll"])
  BY ONLY PayRowsSound(sheets, lines, runs), db'["timesheet"] = sheets, db'["payline"] = lines, db'["payroll"] = runs
<1>2. QED
  BY <1>1 DEF PayrollSound

\* A step that writes none of them keeps it.
LEMMA PayrollLeftAlone ==
    ASSUME PayrollSound, NEW names, Keeps(names), names \cap PayTables = {}
    PROVE  PayrollSound'
<1>1. \A t \in PayTables : t \in DOMAIN db /\ db'[t] = db[t]
  BY DEF Keeps, PayrollSound
<1>2. /\ DOMAIN db' = DOMAIN db /\ db'["timesheet"] = db["timesheet"] /\ db'["payline"] = db["payline"]
      /\ db'["payroll"] = db["payroll"] /\ db'["rule"] = db["rule"]
  BY <1>1 DEF Keeps, PayTables
<1>3. PayRowsSound(db["timesheet"], db["payline"], db["payroll"]) /\ RulesTyped(db["rule"])
  BY DEF PayrollSound
<1>4. QED
  BY <1>2, <1>3, PayrollSoundAgain

\* A timesheet that a run has taken goes on being approved and worth what it was.
SheetKept(row, sheet) ==
    /\ {"status", "who", "gross", "run"} \subseteq DOMAIN row
    /\ row.gross \in Int
    /\ row.run = sheet.run /\ row.who = sheet.who
    /\ row.run # 0 => row.gross = sheet.gross /\ row.status \in Paid

\* Timesheets change or are added, and no run is the worse for it.
LEMMA PayAfterSheets ==
    ASSUME NEW sheets, NEW lines, NEW runs, PayRowsSound(sheets, lines, runs),
           NEW new, IsTable(new), DOMAIN sheets \subseteq DOMAIN new,
           \A k \in DOMAIN sheets : SheetKept(new[k], sheets[k]),
           \A k \in DOMAIN new \ DOMAIN sheets : SheetSound(new[k], runs) /\ new[k].run = 0
    PROVE  PayRowsSound(new, lines, runs)
<1>1. 0 \notin DOMAIN runs /\ IsFiniteSet(DOMAIN sheets)
  BY TableIsFinite DEF PayRowsSound
<1>2. \A k \in DOMAIN new : SheetSound(new[k], runs)
  BY DEF PayRowsSound, SheetSound, SheetKept
<1>3. ASSUME NEW l \in DOMAIN lines PROVE LineSound(lines[l], new, runs)
  <2>1. PICK line : line = lines[l]
    OBVIOUS
  <2>2. LineSound(line, sheets, runs)
    BY <2>1 DEF PayRowsSound
  <2>3. PICK mine : mine = SheetsOf(sheets, line.run, line.who)
    OBVIOUS
  <2>4. line.run # 0
    BY <1>1, <2>2 DEF LineSound
  <2>5. SheetsOf(new, line.run, line.who) = mine
    BY <2>3, <2>4 DEF SheetsOf, SheetKept
  <2>6. /\ mine \subseteq DOMAIN sheets /\ mine \subseteq DOMAIN new
        /\ \A k \in mine : new[k]["gross"] = sheets[k]["gross"]
    BY <2>3, <2>4 DEF SheetsOf, SheetKept
  <2>7. IsFiniteSet(mine)
    BY <1>1, <2>6, FS_Subset
  <2>8. SumOf(new, "gross", mine) = SumOf(sheets, "gross", mine)
    BY ONLY <2>6, <2>7, SumOfSameRows
  <2>9. QED
    BY <2>1, <2>2, <2>3, <2>5, <2>8 DEF LineSound
<1>4. QED
  BY <1>2, <1>3 DEF PayRowsSound

\* A run is finalized.
LEMMA PayAfterStatus ==
    ASSUME NEW sheets, NEW lines, NEW runs, PayRowsSound(sheets, lines, runs), NEW r \in DOMAIN runs,
           NEW row, DOMAIN row = DOMAIN runs[r], row.gross = runs[r].gross, row.deductions = runs[r].deductions
    PROVE  PayRowsSound(sheets, lines, [runs EXCEPT ![r] = row])
<1>1. PICK new : new = [runs EXCEPT ![r] = row]
  OBVIOUS
<1>2. IsTable(runs)
  BY DEF PayRowsSound
<1>3. IsTable(new) /\ DOMAIN new = DOMAIN runs /\ new[r] = row /\ \A k \in DOMAIN runs \ {r} : new[k] = runs[k]
  BY ONLY <1>1, <1>2, r \in DOMAIN runs, TableChanges
<1>4. \A k \in DOMAIN new : RunSound(new[k], lines, k)
  BY <1>3 DEF PayRowsSound, RunSound
<1>5. \A k \in DOMAIN sheets : SheetSound(sheets[k], new)
  BY <1>3 DEF PayRowsSound, SheetSound
<1>6. \A l \in DOMAIN lines : LineSound(lines[l], sheets, new)
  BY <1>3 DEF PayRowsSound, LineSound
<1>7. PayRowsSound(sheets, lines, new)
  BY <1>3, <1>4, <1>5, <1>6 DEF PayRowsSound
<1>8. QED
  BY <1>1, <1>7

\* The timesheets once a run has taken some of them.
TakenBy(sheets, taken, number) ==
    [k \in DOMAIN sheets |-> IF k \in taken THEN [sheets[k] EXCEPT !.run = number] ELSE sheets[k]]

\* A line for each worker they are of, and what the lines add up to.
LinesPay(line, sheets, taken, number) ==
    /\ DOMAIN line = {sheets[k].who : k \in taken}
    /\ \A w \in DOMAIN line :
         /\ {"run", "who", "gross", "deductions"} \subseteq DOMAIN line[w]
         /\ line[w].run = number /\ line[w].who = w
         /\ line[w].gross = SumOf(sheets, "gross", {k \in taken : sheets[k].who = w})
         /\ line[w].gross \in Int /\ line[w].deductions \in Int

TotalsOf(row, line) ==
    /\ {"status", "gross", "deductions"} \subseteq DOMAIN row
    /\ row.gross = SumFunction([w \in DOMAIN line |-> line[w].gross])
    /\ row.deductions = SumFunction([w \in DOMAIN line |-> line[w].deductions])

\* A run takes timesheets that no run has taken: a line for each worker they are of.
LEMMA PayAfterRun ==
    ASSUME NEW sheets, NEW lines, NEW runs, PayRowsSound(sheets, lines, runs),
           NEW taken \in SUBSET DOMAIN sheets, \A k \in taken : sheets[k].run = 0 /\ sheets[k].status \in Paid,
           NEW number, number = Len(runs) + 1,
           NEW new, new = TakenBy(sheets, taken, number), NEW line, LinesPay(line, sheets, taken, number),
           NEW row, TotalsOf(row, line)
    PROVE  PayRowsSound(new, WithLines(lines, line), Append(runs, row))
<1>1. /\ new = [k \in DOMAIN sheets |-> IF k \in taken THEN [sheets[k] EXCEPT !.run = number] ELSE sheets[k]]
      /\ DOMAIN line = {sheets[k].who : k \in taken}
      /\ \A w \in DOMAIN line :
           /\ {"run", "who", "gross", "deductions"} \subseteq DOMAIN line[w]
           /\ line[w].run = number /\ line[w].who = w
           /\ line[w].gross = SumOf(sheets, "gross", {k \in taken : sheets[k].who = w})
           /\ line[w].gross \in Int /\ line[w].deductions \in Int
  BY DEF TakenBy, LinesPay
<1>2. PICK f, d : /\ f = [w \in DOMAIN line |-> line[w].gross]
                  /\ d = [w \in DOMAIN line |-> line[w].deductions]
                  /\ {"status", "gross", "deductions"} \subseteq DOMAIN row
                  /\ row.gross = SumFunction(f) /\ row.deductions = SumFunction(d)
  BY DEF TotalsOf
<1> USE <1>1, <1>2
<1>3. PICK more, all, paid : more = Append(runs, row) /\ all = WithLines(lines, line) /\ paid = DOMAIN line
  OBVIOUS
<1>4. IsTable(sheets) /\ IsTable(lines) /\ IsTable(runs)
  BY DEF PayRowsSound
<1>5. /\ IsTable(more) /\ DOMAIN more = DOMAIN runs \cup {number} /\ number \notin DOMAIN runs
      /\ more[number] = row /\ \A r \in DOMAIN runs : more[r] = runs[r]
  BY ONLY <1>3, <1>4, number = Len(runs) + 1, TableGrows
<1>6. IsFiniteSet(DOMAIN sheets) /\ 0 \notin DOMAIN runs /\ 0 \notin DOMAIN more
  BY <1>4, <1>5, TableIsFinite
<1>7. number # 0
  BY <1>5, <1>6
<1>8. IsFiniteSet(paid)
  <2>1. IsFiniteSet(taken)
    BY <1>6, FS_Subset
  <2>2. PICK whose : whose = [k \in taken |-> sheets[k].who]
    OBVIOUS
  <2>3. whose \in Surjection(taken, paid)
    <3>1. whose \in [taken -> paid] /\ \A w \in paid : \E k \in taken : whose[k] = w
      BY <1>3, <2>2
    <3>2. QED
      BY <3>1 DEF Surjection
  <2>4. QED
    BY ONLY <2>1, <2>3, FS_Surjection
<1>9. /\ IsTable(all) /\ DOMAIN lines \subseteq DOMAIN all /\ \A l \in DOMAIN lines : all[l] = lines[l]
      /\ \A l \in DOMAIN all \ DOMAIN lines : \E w \in paid : all[l] = line[w]
      /\ SumOf(all, "gross", DOMAIN all \ DOMAIN lines) = SumFunctionOnSet(f, paid)
      /\ SumOf(all, "deductions", DOMAIN all \ DOMAIN lines) = SumFunctionOnSet(d, paid)
  <2>1. PICK R : lines \in Seq(R)
    BY <1>4 DEF IsTable
  <2>2. PICK T : T = R \cup {line[w] : w \in paid}
    OBVIOUS
  <2>3. lines \in Seq(T)
    BY <2>1, <2>2
  <2>4. PICK g : IsInserts(g, line, lines, paid) /\ all = g[paid]
    <3>1. IsFiniteSet(DOMAIN line)
      BY <1>3, <1>8
    <3>2. \E g : IsInserts(g, line, lines, DOMAIN line) /\ WithLines(lines, line) = g[DOMAIN line]
      BY ONLY <3>1, LinesAreInserted
    <3>3. QED
      BY ONLY <1>3, <3>2
  <2>5. \A w \in paid : line[w] \in T /\ line[w]["gross"] \in Int /\ f[w] = line[w]["gross"]
    BY <1>3, <2>2
  <2>6. Inserted(g[paid], lines, line, T, "gross", f, paid)
    BY ONLY <1>8, <2>3, <2>4, <2>5, RowsAreInserted
  <2>7. \A w \in paid : line[w] \in T /\ line[w]["deductions"] \in Int /\ d[w] = line[w]["deductions"]
    BY <1>3, <2>2
  <2>8. Inserted(g[paid], lines, line, T, "deductions", d, paid)
    BY ONLY <1>8, <2>3, <2>4, <2>7, RowsAreInserted
  <2>9. QED
    BY ONLY <2>4, <2>6, <2>8 DEF Inserted, IsTable
<1>10. /\ IsTable(new) /\ DOMAIN new = DOMAIN sheets
       /\ \A k \in taken : new[k] = [sheets[k] EXCEPT !.run = number]
       /\ \A k \in DOMAIN sheets \ taken : new[k] = sheets[k]
  <2>1. new = [k \in DOMAIN sheets |-> new[k]]
    OBVIOUS
  <2>2. IsTable(new) /\ DOMAIN new = DOMAIN sheets
    BY ONLY <1>4, <2>1, TableMapped
  <2>3. QED
    BY <2>2
<1>11. ASSUME NEW k \in DOMAIN sheets
      PROVE  /\ {"status", "who", "gross", "run"} \subseteq DOMAIN new[k]
             /\ new[k].who = sheets[k].who /\ new[k].gross = sheets[k].gross /\ new[k].status = sheets[k].status
             /\ new[k].run = IF k \in taken THEN number ELSE sheets[k].run
  <2>1. {"status", "who", "gross", "run"} \subseteq DOMAIN sheets[k]
    BY DEF PayRowsSound, SheetSound
  <2>2. QED
    BY <1>10, <2>1
<1>12. \A k \in DOMAIN new : SheetSound(new[k], more)
  <2>1. \A k \in DOMAIN sheets : SheetSound(sheets[k], runs)
    BY DEF PayRowsSound
  <2>2. QED
    BY <1>5, <1>10, <1>11, <2>1 DEF SheetSound
<1>13. ASSUME NEW l \in DOMAIN lines PROVE LineSound(all[l], new, more)
  <2>1. PICK old : old = lines[l]
    OBVIOUS
  <2>2. LineSound(old, sheets, runs) /\ all[l] = old
    BY <1>9, <2>1 DEF PayRowsSound
  <2>3. old.run \in DOMAIN runs /\ old.run # 0 /\ old.run # number
    BY <1>5, <1>6, <2>2 DEF LineSound
  <2>4. PICK mine : mine = SheetsOf(sheets, old.run, old.who)
    OBVIOUS
  <2>5. SheetsOf(new, old.run, old.who) = mine
    BY <1>10, <1>11, <2>3, <2>4 DEF SheetsOf
  <2>6. mine \subseteq DOMAIN sheets /\ mine \subseteq DOMAIN new /\ \A k \in mine : new[k]["gross"] = sheets[k]["gross"]
    BY <1>10, <1>11, <2>4 DEF SheetsOf
  <2>7. IsFiniteSet(mine)
    BY <1>6, <2>6, FS_Subset
  <2>8. SumOf(new, "gross", mine) = SumOf(sheets, "gross", mine)
    BY ONLY <2>6, <2>7, SumOfSameRows
  <2>9. QED
    BY <1>5, <2>2, <2>3, <2>4, <2>5, <2>8 DEF LineSound
<1>14. ASSUME NEW l \in DOMAIN all \ DOMAIN lines PROVE LineSound(all[l], new, more) /\ all[l].run = number
  <2>1. PICK w \in paid : all[l] = line[w]
    BY <1>9
  <2>2. PICK mine : mine = {k \in taken : sheets[k].who = w}
    OBVIOUS
  <2>3. \A k \in DOMAIN sheets : sheets[k].run # number
    <3>1. \A k \in DOMAIN sheets : SheetSound(sheets[k], runs)
      BY DEF PayRowsSound
    <3>2. QED
      BY <1>5, <1>7, <3>1 DEF SheetSound
  <2>4. SheetsOf(new, number, w) = mine
    BY <1>10, <1>11, <2>2, <2>3 DEF SheetsOf
  <2>5. mine \subseteq DOMAIN sheets /\ mine \subseteq DOMAIN new /\ \A k \in mine : new[k]["gross"] = sheets[k]["gross"]
    BY <1>10, <1>11, <2>2
  <2>6. IsFiniteSet(mine)
    BY <1>6, <2>5, FS_Subset
  <2>7. SumOf(new, "gross", mine) = SumOf(sheets, "gross", mine)
    BY ONLY <2>5, <2>6, SumOfSameRows
  <2>8. /\ {"run", "who", "gross", "deductions"} \subseteq DOMAIN line[w]
        /\ line[w].run = number /\ line[w].who = w /\ line[w].gross = SumOf(sheets, "gross", mine)
        /\ line[w].gross \in Int /\ line[w].deductions \in Int
    BY <1>3, <2>1, <2>2
  <2>9. QED
    BY <1>5, <2>1, <2>4, <2>7, <2>8 DEF LineSound
<1>15. ASSUME NEW r \in DOMAIN runs PROVE RunSound(more[r], all, r)
  <2>1. RunSound(runs[r], lines, r) /\ more[r] = runs[r] /\ r # number
    BY <1>5 DEF PayRowsSound
  <2>2. PICK its : its = LinesOfRun(lines, r)
    OBVIOUS
  <2>3. LinesOfRun(all, r) = its
    BY <1>9, <1>14, <2>1, <2>2 DEF LinesOfRun
  <2>4. IsFiniteSet(its) /\ its \subseteq DOMAIN lines
    BY <1>4, <2>2, TableIsFinite, FS_Subset DEF LinesOfRun
  <2>5. its \subseteq DOMAIN all /\ \A l \in its : all[l] = lines[l]
    BY <1>9, <2>4
  <2>6. SumOf(all, "gross", its) = SumOf(lines, "gross", its)
        /\ SumOf(all, "deductions", its) = SumOf(lines, "deductions", its)
    BY ONLY <2>4, <2>5, SumOfSameRows
  <2>7. QED
    BY <2>1, <2>2, <2>3, <2>6 DEF RunSound
<1>16. RunSound(row, all, number)
  <2>1. \A l \in DOMAIN lines : all[l].run # number
    BY <1>5, <1>9 DEF PayRowsSound, LineSound
  <2>2. LinesOfRun(all, number) = DOMAIN all \ DOMAIN lines
    BY <1>9, <1>14, <2>1 DEF LinesOfRun
  <2>3. DOMAIN f = paid /\ DOMAIN d = paid
    BY <1>3
  <2>4. SumFunction(f) = SumFunctionOnSet(f, paid) /\ SumFunction(d) = SumFunctionOnSet(d, paid)
    BY <2>3 DEF SumFunction
  <2>5. QED
    BY <1>9, <2>2, <2>4 DEF RunSound
<1>17. PayRowsSound(new, all, more)
  BY <1>5, <1>9, <1>10, <1>12, <1>13, <1>14, <1>15, <1>16 DEF PayRowsSound
<1>18. QED
  BY <1>3, <1>17

\* A timesheet is decided or locked: one that a run has taken can only be locked.
LEMMA PayAfterDecision ==
    ASSUME ~ Concurrent, PayrollSound, NEW p, NEW k, NEW from, NEW to, Turn(p, "timesheet", k, from, to),
           from \cap Paid = {} \/ to \in Paid
    PROVE  PayrollSound'
<1>1. PICK sheets, lines, runs : sheets = db["timesheet"] /\ lines = db["payline"] /\ runs = db["payroll"]
  OBVIOUS
<1>2. PayTables \subseteq DOMAIN db /\ PayRowsSound(sheets, lines, runs) /\ RulesTyped(db["rule"]) /\ IsTable(sheets)
  BY <1>1 DEF PayrollSound, PayRowsSound
<1>3. PICK m, new : m = [sheets[k] EXCEPT !.status = to] /\ new = [sheets EXCEPT ![k] = m]
  OBVIOUS
<1>4. /\ DOMAIN db' = DOMAIN db /\ db'["timesheet"] = new
      /\ db'["payline"] = lines /\ db'["payroll"] = runs /\ db'["rule"] = db["rule"]
      /\ k \in DOMAIN sheets /\ sheets[k].status \in from
  <2>1. "timesheet" \in DOMAIN db /\ {"payline", "payroll", "rule"} \subseteq DOMAIN db \ {"timesheet"}
    BY <1>2 DEF PayTables
  <2>2. /\ DOMAIN db' = DOMAIN db
        /\ db'["timesheet"] = [db["timesheet"] EXCEPT ![k] = [db["timesheet"][k] EXCEPT !.status = to]]
        /\ \A u \in DOMAIN db \ {"timesheet"} : db'[u] = db[u]
        /\ k \in DOMAIN db["timesheet"] /\ db["timesheet"][k].status \in from
    BY <2>1, StatusTurned
  <2>3. QED
    BY ONLY <1>1, <1>3, <2>1, <2>2
<1>5. SheetSound(sheets[k], runs)
  BY <1>2, <1>4 DEF PayRowsSound
<1>6. SheetKept(m, sheets[k])
  <2>1. /\ {"status", "who", "gross", "run"} \subseteq DOMAIN m /\ m.status = to
        /\ m.run = sheets[k].run /\ m.who = sheets[k].who /\ m.gross = sheets[k].gross
    BY <1>3, <1>5 DEF SheetSound
  <2>2. sheets[k].run # 0 => to \in Paid
    BY <1>4, <1>5 DEF SheetSound
  <2>3. QED
    BY <1>5, <2>1, <2>2 DEF SheetKept, SheetSound
<1>7. IsTable(new) /\ DOMAIN new = DOMAIN sheets /\ new[k] = m /\ \A x \in DOMAIN sheets \ {k} : new[x] = sheets[x]
  <2>1. IsTable(sheets) /\ k \in DOMAIN sheets /\ new = [sheets EXCEPT ![k] = m]
    BY <1>2, <1>3, <1>4
  <2>2. QED
    BY ONLY <2>1, TableChanges
<1>8. \A x \in DOMAIN sheets : SheetKept(new[x], sheets[x])
  <2>1. \A x \in DOMAIN sheets : SheetSound(sheets[x], runs)
    BY <1>2 DEF PayRowsSound
  <2>2. \A x \in DOMAIN sheets : SheetKept(sheets[x], sheets[x])
    BY <2>1 DEF SheetSound, SheetKept
  <2>3. QED
    BY <1>6, <1>7, <2>2
<1>9. PayRowsSound(new, lines, runs)
  BY <1>2, <1>7, <1>8, PayAfterSheets
<1>10. QED
  BY <1>2, <1>4, <1>9, PayrollSoundAgain

\* Timesheets are generated, decided, corrected and locked.
LEMMA PayAfterTimesheets ==
    ASSUME ~ Concurrent, PayrollSound, NEW p, TimesheetRoutes(p)
    PROVE  PayrollSound'
<1>1. PICK sheets, lines, runs : sheets = db["timesheet"] /\ lines = db["payline"] /\ runs = db["payroll"]
  OBVIOUS
<1>2. PayTables \subseteq DOMAIN db /\ PayRowsSound(sheets, lines, runs) /\ RulesTyped(db["rule"]) /\ IsTable(sheets)
  BY <1>1 DEF PayrollSound, PayRowsSound
<1>3. \A x \in DOMAIN sheets : SheetSound(sheets[x], runs) /\ SheetKept(sheets[x], sheets[x])
  <2>1. \A x \in DOMAIN sheets : SheetSound(sheets[x], runs)
    BY <1>2 DEF PayRowsSound
  <2>2. QED
    BY <2>1 DEF SheetSound, SheetKept
<1>4. ASSUME NEW w, NEW from, NEW to, NEW h \in Hours, NEW r \in Rates, GenerateTimesheet(p, w, from, to, h, r)
      PROVE  PayrollSound'
  <2>1. PICK row, new : row = Timesheet(w, from, to, h, r) /\ new = Append(sheets, row)
    OBVIOUS
  <2>2. Create(p, "timesheet", row)
    BY <1>4, <2>1 DEF GenerateTimesheet
  <2>3. /\ DOMAIN db' = DOMAIN db /\ db'["timesheet"] = new
        /\ db'["payline"] = lines /\ db'["payroll"] = runs /\ db'["rule"] = db["rule"]
    BY <1>1, <1>2, <2>1, <2>2, RowCreated DEF PayTables
  <2>4. h * r \in Int
    BY WorkforceAssumption
  <2>5. SheetSound(row, runs) /\ row.run = 0
    BY <2>1, <2>4 DEF Timesheet, SheetSound
  <2>6. PICK y : y = Len(sheets) + 1
    OBVIOUS
  <2>7. IsTable(new) /\ DOMAIN new = DOMAIN sheets \cup {y} /\ new[y] = row /\ \A x \in DOMAIN sheets : new[x] = sheets[x]
    BY ONLY <1>2, <2>1, <2>6, TableGrows
  <2>8. PayRowsSound(new, lines, runs)
    <3>1. DOMAIN sheets \subseteq DOMAIN new /\ \A x \in DOMAIN sheets : SheetKept(new[x], sheets[x])
      BY <1>3, <2>7
    <3>2. \A x \in DOMAIN new \ DOMAIN sheets : SheetSound(new[x], runs) /\ new[x].run = 0
      BY <2>5, <2>7
    <3>3. QED
      BY <1>2, <2>7, <3>1, <3>2, PayAfterSheets
  <2>9. QED
    BY <1>2, <2>3, <2>8, PayrollSoundAgain
<1>5. ASSUME NEW k, NEW h \in Hours, NEW r \in Rates, UpdateTimesheet(p, k, h, r) PROVE PayrollSound'
  <2>1. PICK m, new : m = [sheets[k] EXCEPT !.hours = h, !.rate = r, !.gross = h * r] /\ new = [sheets EXCEPT ![k] = m]
    OBVIOUS
  <2>2. /\ k \in DOMAIN sheets /\ sheets[k].status \in {"pending_approval", "returned"}
        /\ db' = [db EXCEPT !["timesheet"] = new]
    BY <1>1, <1>5, <2>1, SerialRows DEF UpdateTimesheet, Amend, Rows, Row, Commit
  <2>3. /\ DOMAIN db' = DOMAIN db /\ db'["timesheet"] = new
        /\ db'["payline"] = lines /\ db'["payroll"] = runs /\ db'["rule"] = db["rule"]
    BY ONLY <1>1, <1>2, <2>2 DEF PayTables
  <2>4. h * r \in Int
    BY WorkforceAssumption
  <2>5. SheetSound(sheets[k], runs) /\ sheets[k].run = 0
    BY <1>3, <2>2 DEF SheetSound, Paid
  <2>6. /\ {"status", "who", "gross", "run"} \subseteq DOMAIN m /\ m.gross = h * r
        /\ m.run = sheets[k].run /\ m.who = sheets[k].who
    BY <2>1, <2>5 DEF SheetSound
  <2>7. SheetKept(m, sheets[k])
    BY <2>4, <2>5, <2>6 DEF SheetKept
  <2>8. IsTable(new) /\ DOMAIN new = DOMAIN sheets /\ new[k] = m /\ \A x \in DOMAIN sheets \ {k} : new[x] = sheets[x]
    <3>1. IsTable(sheets) /\ k \in DOMAIN sheets /\ new = [sheets EXCEPT ![k] = m]
      BY <1>2, <2>1, <2>2
    <3>2. QED
      BY ONLY <3>1, TableChanges
  <2>9. PayRowsSound(new, lines, runs)
    BY <1>2, <1>3, <2>7, <2>8, PayAfterSheets
  <2>10. QED
    BY <1>2, <2>3, <2>9, PayrollSoundAgain
<1>6. \A k : ApproveTimesheet(p, k) \/ RejectTimesheet(p, k) \/ ReturnTimesheet(p, k) \/ ResubmitTimesheet(p, k)
             \/ LockTimesheet(p, k) => PayrollSound'
  <2>1. {"pending_approval"} \cap Paid = {} /\ {"returned"} \cap Paid = {} /\ "locked" \in Paid
    BY DEF Paid
  <2>2. QED
    BY <2>1, PayAfterDecision
    DEF ApproveTimesheet, RejectTimesheet, ReturnTimesheet, ResubmitTimesheet, LockTimesheet
<1>7. QED
  BY <1>4, <1>5, <1>6 DEF TimesheetRoutes

\* What the rules deduct is a whole number.
LEMMA DeductedIsWhole ==
    ASSUME NEW s, RulesTyped(s.rule), NEW w, NEW gross \in Int
    PROVE  DeductedFrom(s, w, gross) \in Int
<1>1. PICK rules : rules = s.rule
  OBVIOUS
<1>2. PICK amount : amount = [k \in DOMAIN rules |->
                                IF rules[k].percentage THEN (gross * rules[k].n) \div 100 ELSE rules[k].n]
  OBVIOUS
<1>3. PICK those : those = {k \in DOMAIN rules : w \in Casuals => rules[k].casuals}
  OBVIOUS
<1>4. IsFiniteSet(those)
  <2>1. IsFiniteSet(DOMAIN rules)
    BY <1>1, TableIsFinite DEF RulesTyped
  <2>2. QED
    BY <1>3, <2>1, FS_Subset
<1>5. \A k \in those : amount[k] \in Int
  <2>1. ASSUME NEW k \in DOMAIN rules PROVE amount[k] \in Int
    <3>1. PICK n \in Int : n = rules[k].n
      BY <1>1 DEF RulesTyped
    <3>2. gross * n \in Int
      OBVIOUS
    <3>3. (gross * n) \div 100 \in Int
      BY ONLY <3>2
    <3>4. QED
      BY <1>2, <3>1, <3>3
  <2>2. QED
    BY <1>3, <2>1
<1>6. SumFunctionOnSet(amount, those) \in Int
  BY ONLY <1>4, <1>5, SumIsInteger
<1>7. QED
  BY <1>1, <1>2, <1>3, <1>6 DEF DeductedFrom

\* A payroll run is generated.
LEMMA PayAfterGeneration ==
    ASSUME ~ Concurrent, PayrollSound, NEW p, NEW from, NEW to, GeneratePayrollRun(p, from, to)
    PROVE  PayrollSound'
<1> DEFINE s == Seen(p)
           number == Len(s.payroll) + 1
           taken == Payable(s, from, to)
           paid == {s.timesheet[k].who : k \in taken}
           grossOf(w) == Gross(s, {k \in taken : s.timesheet[k].who = w})
           line == [w \in paid |-> PayrollLine(number, w, grossOf(w), DeductedFrom(s, w, grossOf(w)))]
           f == [w \in paid |-> line[w].gross]
           d == [w \in paid |-> line[w].deductions]
           row == PayrollRun(from, to, SumFunction(f), SumFunction(d))
           new == [k \in DOMAIN s.timesheet |->
                     IF k \in taken THEN [s.timesheet[k] EXCEPT !.run = number] ELSE s.timesheet[k]]
<1>1. Commit(p, [s EXCEPT !.timesheet = [k \in DOMAIN @ |->
                              IF k \in taken THEN [s.timesheet[k] EXCEPT !.run = number] ELSE s.timesheet[k]],
                          !.payline = WithLines(@, line),
                          !.payroll = Append(@, row)])
  BY Zenon DEF GeneratePayrollRun
<1>2. s = db
  BY SerialRows
<1>3. PICK sheets, lines, runs : sheets = db["timesheet"] /\ lines = db["payline"] /\ runs = db["payroll"]
  OBVIOUS
<1>4. PayTables \subseteq DOMAIN db /\ PayRowsSound(sheets, lines, runs) /\ RulesTyped(db["rule"]) /\ IsTable(sheets)
  BY <1>3 DEF PayrollSound, PayRowsSound
<1>5. new = [k \in DOMAIN sheets |-> IF k \in taken THEN [sheets[k] EXCEPT !.run = number] ELSE sheets[k]]
  BY <1>2, <1>3
<1>6. /\ taken \in SUBSET DOMAIN sheets /\ \A k \in taken : sheets[k].run = 0 /\ sheets[k].status \in Paid
      /\ number = Len(runs) + 1
      /\ paid = {sheets[k].who : k \in taken}
  BY <1>2, <1>3 DEF Payable, Paid
<1>7. ASSUME NEW w \in paid
      PROVE  /\ grossOf(w) = SumOf(sheets, "gross", {k \in taken : sheets[k].who = w})
             /\ grossOf(w) \in Int /\ DeductedFrom(s, w, grossOf(w)) \in Int
  <2>1. PICK mine : mine = {k \in taken : sheets[k].who = w}
    OBVIOUS
  <2>2. grossOf(w) = SumOf(sheets, "gross", mine)
    BY <1>2, <1>3, <2>1 DEF Gross
  <2>3. mine \in SUBSET DOMAIN sheets /\ IsFiniteSet(mine)
    BY <1>4, <1>6, <2>1, TableIsFinite, FS_Subset
  <2>4. \A k \in mine : sheets[k]["gross"] \in Int
    BY <1>4, <2>3 DEF PayRowsSound, SheetSound
  <2>5. SumOf(sheets, "gross", mine) \in Int
    BY ONLY <2>3, <2>4, SumOfIsInteger
  <2>6. PICK gross \in Int : gross = grossOf(w)
    BY <2>2, <2>5
  <2>7. RulesTyped(s.rule)
    BY <1>2, <1>4
  <2>8. DeductedFrom(s, w, gross) \in Int
    BY ONLY <2>7, DeductedIsWhole
  <2>9. QED
    BY <2>1, <2>2, <2>6, <2>8
<1>8. ASSUME NEW w \in paid
      PROVE  /\ {"run", "who", "gross", "deductions"} \subseteq DOMAIN line[w]
             /\ line[w].run = number /\ line[w].who = w
             /\ line[w].gross = SumOf(sheets, "gross", {k \in taken : sheets[k].who = w})
             /\ line[w].gross \in Int /\ line[w].deductions \in Int
  <2>1. PICK g, t, r : g = grossOf(w) /\ t = DeductedFrom(s, w, grossOf(w)) /\ r = number
    OBVIOUS
  <2>2. line[w] = PayrollLine(r, w, g, t)
    BY <2>1
  <2>3. g = SumOf(sheets, "gross", {k \in taken : sheets[k].who = w}) /\ g \in Int /\ t \in Int
    BY <1>7, <2>1
  <2> HIDE DEF line, number, grossOf, taken
  <2>4. QED
    BY <2>1, <2>2, <2>3 DEF PayrollLine
<1>9. DOMAIN line = paid /\ f = [w \in DOMAIN line |-> line[w].gross] /\ d = [w \in DOMAIN line |-> line[w].deductions]
  OBVIOUS
<1>10. {"status", "gross", "deductions"} \subseteq DOMAIN row /\ row.gross = SumFunction(f) /\ row.deductions = SumFunction(d)
  <2> HIDE DEF f, d
  <2>1. QED
    BY DEF PayrollRun
<1>11. db' = [db EXCEPT !["timesheet"] = new, !["payline"] = WithLines(lines, line), !["payroll"] = Append(runs, row)]
  <2> HIDE DEF line, row, number, taken
  <2>1. db' = [s EXCEPT !.timesheet = [k \in DOMAIN @ |->
                              IF k \in taken THEN [s.timesheet[k] EXCEPT !.run = number] ELSE s.timesheet[k]],
                        !.payline = WithLines(@, line),
                        !.payroll = Append(@, row)]
    BY <1>1, SerialRows, Zenon DEF Commit
  <2>2. QED
    BY <1>2, <1>3, <1>4, <2>1 DEF PayTables
<1> HIDE DEF s, number, taken, paid, grossOf, line, f, d, row, new
<1>12. PayRowsSound(new, WithLines(lines, line), Append(runs, row))
  <2>1. PayRowsSound(sheets, lines, runs) /\ taken \in SUBSET DOMAIN sheets /\ number = Len(runs) + 1
    BY <1>4, <1>6
  <2>2. \A k \in taken : sheets[k].run = 0 /\ sheets[k].status \in Paid
    BY <1>6
  <2>3. new = TakenBy(sheets, taken, number)
    BY <1>5 DEF TakenBy
  <2>4. LinesPay(line, sheets, taken, number)
    BY <1>6, <1>8, <1>9 DEF LinesPay
  <2>5. TotalsOf(row, line)
    BY <1>9, <1>10 DEF TotalsOf
  <2>6. QED
    BY ONLY <2>1, <2>2, <2>3, <2>4, <2>5, PayAfterRun
<1>13. /\ DOMAIN db' = DOMAIN db /\ db'["timesheet"] = new /\ db'["payline"] = WithLines(lines, line)
       /\ db'["payroll"] = Append(runs, row) /\ db'["rule"] = db["rule"]
  BY ONLY <1>4, <1>11 DEF PayTables
<1>14. QED
  BY <1>4, <1>12, <1>13, PayrollSoundAgain

\* Every request about timesheets and payroll keeps the invariant.
LEMMA PayrollStaysSound ==
    ASSUME ~ Concurrent, PayrollSound, NEW p, PayrollNext(p)
    PROVE  PayrollSound'
<1>1. PICK sheets, lines, runs : sheets = db["timesheet"] /\ lines = db["payline"] /\ runs = db["payroll"]
  OBVIOUS
<1>2. PayTables \subseteq DOMAIN db /\ PayRowsSound(sheets, lines, runs) /\ RulesTyped(db["rule"])
  BY <1>1 DEF PayrollSound
<1>3. ASSUME NEW r, FinalizePayrollRun(p, r) PROVE PayrollSound'
  <2>1. PICK m, new : m = [runs[r] EXCEPT !.status = "finalized"] /\ new = [runs EXCEPT ![r] = m]
    OBVIOUS
  <2>2. Turn(p, "payroll", r, {"draft"}, "finalized")
    BY <1>3 DEF FinalizePayrollRun
  <2>3. "payroll" \in DOMAIN db /\ {"timesheet", "payline", "rule"} \subseteq DOMAIN db \ {"payroll"}
    BY <1>2 DEF PayTables
  <2>4. /\ DOMAIN db' = DOMAIN db
        /\ db'["payroll"] = [db["payroll"] EXCEPT ![r] = [db["payroll"][r] EXCEPT !.status = "finalized"]]
        /\ \A u \in DOMAIN db \ {"payroll"} : db'[u] = db[u]
        /\ r \in DOMAIN db["payroll"] /\ db["payroll"][r].status \in {"draft"}
    BY <2>2, <2>3, StatusTurned
  <2>5. /\ db'["payroll"] = new /\ r \in DOMAIN runs
        /\ db'["timesheet"] = sheets /\ db'["payline"] = lines /\ db'["rule"] = db["rule"]
    BY ONLY <1>1, <2>1, <2>3, <2>4
  <2>6. RunSound(runs[r], lines, r)
    BY <1>2, <2>5 DEF PayRowsSound
  <2>7. DOMAIN m = DOMAIN runs[r] /\ m.gross = runs[r].gross /\ m.deductions = runs[r].deductions
    BY <2>1, <2>6 DEF RunSound
  <2>8. PayRowsSound(sheets, lines, new)
    <3>1. PayRowsSound(sheets, lines, runs) /\ r \in DOMAIN runs
      BY <1>2, <2>5
    <3>2. PayRowsSound(sheets, lines, [runs EXCEPT ![r] = m])
      BY ONLY <2>7, <3>1, PayAfterStatus
    <3>3. QED
      BY ONLY <2>1, <3>2
  <2>9. QED
    BY <1>2, <2>4, <2>5, <2>8, PayrollSoundAgain
<1>4. ASSUME NEW r \in Deductions, Create(p, "rule", StatutoryDeductionRule(r.percentage, r.n, r.casuals))
      PROVE  PayrollSound'
  <2>1. PICK rules, row, new : /\ rules = db["rule"]
                               /\ row = StatutoryDeductionRule(r.percentage, r.n, r.casuals)
                               /\ new = Append(rules, row)
    OBVIOUS
  <2>2. "rule" \in DOMAIN db /\ {"timesheet", "payline", "payroll"} \subseteq DOMAIN db \ {"rule"}
    BY <1>2 DEF PayTables
  <2>3. /\ DOMAIN db' = DOMAIN db /\ db'["rule"] = Append(db["rule"], row)
        /\ \A u \in DOMAIN db \ {"rule"} : db'[u] = db[u]
    BY <1>4, <2>1, <2>2, RowCreated
  <2>4. /\ db'["rule"] = new
        /\ db'["timesheet"] = sheets /\ db'["payline"] = lines /\ db'["payroll"] = runs
    BY ONLY <1>1, <2>1, <2>2, <2>3
  <2>5. "n" \in DOMAIN row /\ row.n \in Int
    BY <2>1, WorkforceAssumption DEF StatutoryDeductionRule
  <2>6. IsTable(rules) /\ \A k \in DOMAIN rules : "n" \in DOMAIN rules[k] /\ rules[k].n \in Int
    BY <1>2, <2>1 DEF RulesTyped
  <2>7. PICK y : y = Len(rules) + 1
    OBVIOUS
  <2>8. IsTable(new) /\ DOMAIN new = DOMAIN rules \cup {y} /\ new[y] = row /\ \A k \in DOMAIN rules : new[k] = rules[k]
    BY ONLY <2>1, <2>6, <2>7, TableGrows
  <2>9. RulesTyped(new)
    BY ONLY <2>5, <2>6, <2>8 DEF RulesTyped
  <2>10. QED
    BY <1>2, <2>3, <2>4, <2>9, PayrollSoundAgain
<1>5. CASE TimesheetRoutes(p)
  BY <1>5, PayAfterTimesheets
<1>6. QED
  BY <1>3, <1>4, <1>5, PayAfterGeneration DEF PayrollNext, PayrollRoutes

\* So does every step; no other part writes these tables.
LEMMA PayrollSoundAlways ==
    ASSUME ~ Concurrent, AccessSound, PayrollSound, [Next]_<<part, vars, fieldVars>>
    PROVE  PayrollSound'
<1>1. CASE RequestNext
  <2>1. CASE part = "payroll"
    <3>1. \E p \in Workers : PayrollNext(p)
      BY <1>1, <2>1 DEF RequestNext
    <3>2. QED
      BY <3>1, PayrollStaysSound
  <2>2. CASE part # "payroll"
    <3>1. PICK names : names = PartTables[part]
      OBVIOUS
    <3>2. part \in DOMAIN PartTables /\ Keeps(names)
      BY <1>1, <3>1, PartKeeps
    <3>3. names \cap PayTables = {}
      BY <2>2, <3>1, <3>2 DEF PartTables, PayTables
    <3>4. QED
      BY <3>2, <3>3, PayrollLeftAlone
  <2>3. QED
    BY <2>1, <2>2
<1>2. ASSUME NEW p, DeviceNext(p) PROVE PayrollSound'
  <2>1. PICK names : names = {"diary", "sync", "conflict", "report"}
    OBVIOUS
  <2>2. Keeps(names)
    BY <1>2, <2>1, DeviceKeeps DEF AccessSound
  <2>3. names \cap PayTables = {}
    BY <2>1 DEF PayTables
  <2>4. QED
    BY <2>2, <2>3, PayrollLeftAlone
<1>3. CASE UNCHANGED <<part, vars, fieldVars>>
  <2>1. db' = db
    BY <1>3 DEF vars
  <2>2. QED
    BY <2>1 DEF PayrollSound
<1>4. QED
  BY <1>1, <1>2, <1>3 DEF Next

\* A part prepares at most contracts of what consents are about, and nothing of payroll.
LEMMA PreparedContracts ==
    ASSUME NEW p, NEW f, f = Prepared(p)
    PROVE  /\ DOMAIN f \cap {"definition", "approval", "amendment", "revision", "permit", "step",
                             "clientaction", "assignment", "timesheet", "payline", "payroll", "rule"} = {}
           /\ \/ "contract" \notin DOMAIN f
              \/ "contract" \in DOMAIN f /\ f["contract"] = Awarded["contract"]
              \/ "contract" \in DOMAIN f /\ f["contract"] = Submitted["contract"]
<1>1. PICK names :
         names = {"lead", "opportunity", "tender", "submission", "certificate", "certline", "tracking",
                  "variation", "portaluser", "estimate", "boq", "cbs", "cbsline", "activity", "dependency"}
  OBVIOUS
<1>2. /\ DOMAIN Awarded \subseteq names \cup {"contract"} /\ "contract" \in DOMAIN Awarded
      /\ DOMAIN TwoContracts \subseteq names \cup {"contract"} /\ "contract" \in DOMAIN TwoContracts
      /\ TwoContracts["contract"] = Submitted["contract"]
      /\ DOMAIN Submitted \subseteq names \cup {"contract"} /\ "contract" \in DOMAIN Submitted
      /\ DOMAIN Bid \subseteq names
  <2>1. TwoContracts["contract"] = Submitted["contract"]
    BY DEF Submitted
  <2>2. QED
    BY <1>1, <2>1 DEF Awarded, Bid, Submitted, TwoContracts
<1>3. CASE p \in {"retention", "billing"}
  <2>1. f = Awarded
    BY <1>3 DEF Prepared
  <2>2. PICK a : a = Awarded
    OBVIOUS
  <2>3. f = a /\ DOMAIN a \subseteq names \cup {"contract"} /\ "contract" \in DOMAIN a
        /\ a["contract"] = Awarded["contract"]
    BY ONLY <1>2, <2>1, <2>2
  <2>4. QED
    BY ONLY <1>1, <2>3
<1>4. CASE p \in {"clients", "revenue", "subjects"}
  <2>1. PICK s, a : s = Submitted /\ a = Awarded
    OBVIOUS
  <2>2. f = Overlay(s, a)
    BY <1>4, <2>1 DEF Prepared
  <2>3. DOMAIN f = DOMAIN s \cup DOMAIN a /\ \A t \in DOMAIN s : f[t] = s[t]
    BY ONLY <2>2, OverlaidTables
  <2>4. /\ DOMAIN f \subseteq names \cup {"contract"} /\ "contract" \in DOMAIN s
        /\ s["contract"] = Submitted["contract"]
    BY ONLY <1>2, <2>1, <2>3
  <2>5. QED
    BY ONLY <1>1, <2>3, <2>4
<1>5. CASE p \in {"tenders", "estimates"}
  BY <1>1, <1>2, <1>5 DEF Prepared
<1>6. CASE p = "assistant"
  <2>1. PICK s, a : s = [estimate |-> <<EstimateVersion(1, 1)>>] /\ a = Bid
    OBVIOUS
  <2>2. f = Overlay(s, a)
    BY <1>6, <2>1 DEF Prepared
  <2>3. DOMAIN f = DOMAIN s \cup DOMAIN a
    BY ONLY <2>2, OverlaidTables
  <2>4. DOMAIN s = {"estimate"}
    BY ONLY <2>1
  <2>5. DOMAIN f \subseteq names
    BY <1>1, <1>2, <2>1, <2>3, <2>4
  <2>6. QED
    BY <1>1, <2>5
<1>7. CASE p = "baseline"
  <2>1. PICK s, a : s = Estimated /\ a = Bid
    OBVIOUS
  <2>2. f = Overlay(s, a)
    BY <1>7, <2>1 DEF Prepared
  <2>3. DOMAIN s = {"estimate", "boq", "cbs", "cbsline"}
    BY <2>1 DEF Estimated
  <2>4. DOMAIN f = DOMAIN s \cup DOMAIN a
    BY ONLY <2>2, OverlaidTables
  <2>5. DOMAIN f \subseteq names
    BY <1>1, <1>2, <2>1, <2>3, <2>4
  <2>6. QED
    BY <1>1, <2>5
<1>8. CASE p = "controls"
  <2>1. DOMAIN f \subseteq names
    BY <1>1, <1>8 DEF Prepared
  <2>2. QED
    BY <1>1, <2>1
<1>9. CASE p \notin {"amendments", "retention", "billing", "clients", "revenue", "subjects", "tenders", "estimates",
                     "assistant", "baseline", "controls"}
  <2>1. f = <<>>
    BY <1>9 DEF Prepared
  <2>2. DOMAIN f = {}
    BY ONLY <2>1
  <2>3. QED
    BY <2>2
<1>10. CASE p = "amendments"
  <2>1. PICK s, a : s = TwoContracts /\ a = Awarded
    OBVIOUS
  <2>2. f = Overlay(s, a)
    BY <1>10, <2>1 DEF Prepared
  <2>3. DOMAIN f = DOMAIN s \cup DOMAIN a /\ \A t \in DOMAIN s : f[t] = s[t]
    BY ONLY <2>2, OverlaidTables
  <2>4. /\ DOMAIN f \subseteq names \cup {"contract"} /\ "contract" \in DOMAIN s
        /\ s["contract"] = Submitted["contract"]
    BY ONLY <1>2, <2>1, <2>3
  <2>5. QED
    BY ONLY <1>1, <2>3, <2>4
<1>11. QED
  BY <1>3, <1>4, <1>5, <1>6, <1>7, <1>8, <1>9, <1>10

\* No part has prepared any of it.
LEMMA FirstPayroll ==
    ASSUME Init
    PROVE  PayrollSound
<1> DEFINE m3 == Overlay(AccountTables, Overlay(ApprovalTables, Overlay(BiddingTables,
                   Overlay(AssistantTables, Overlay(ContractTables, Overlay(PortalTables, Overlay(SubcontractTables,
                     Overlay(SiteTables, Overlay(SafetyTables, Overlay(SurveyTables, Overlay(PaperTables,
                       Overlay(ScheduleTables, [filed |-> <<>>]))))))))))))
           m2 == Overlay(WorkforceTables, m3)
<1>1. db = Overlay(Prepared(part), m2)
  BY DEF Init, OfficeTables
<1> HIDE DEF m3
<1>2. \A t \in PayTables : t \in DOMAIN m2 /\ m2[t] = <<>>
  BY DEF Overlay, WorkforceTables, PayTables
<1> HIDE DEF m2
<1>3. PICK f, none : f = Prepared(part) /\ none = <<>>
  OBVIOUS
<1>4. DOMAIN f \cap PayTables = {}
  BY <1>3, PreparedContracts DEF PayTables
<1>5. \A t \in PayTables : t \in DOMAIN db /\ db[t] = none
  BY <1>1, <1>2, <1>3, <1>4 DEF Overlay
<1>6. IsTable(none) /\ DOMAIN none = {}
  BY <1>3, SmallTables DEF IsTable
<1>7. PayRowsSound(none, none, none) /\ RulesTyped(none)
  BY <1>6 DEF PayRowsSound, RulesTyped
<1>8. QED
  BY <1>5, <1>7 DEF PayrollSound, PayTables

\* A payroll line pays a worker exactly the timesheets of its run, each run adds up
\* and no timesheet is paid twice, over every order of approving, locking, correcting
\* and paying them, periods that overlap included (approve_timesheet, lock_timesheet,
\* update_timesheet, generate_payroll_run).
THEOREM PayrollPaysOnce == ~ Concurrent => (Spec => []PayrollPaysTimesheetsOnce)
<1> SUFFICES ASSUME ~ Concurrent PROVE Spec => []PayrollPaysTimesheetsOnce
  OBVIOUS
<1>1. Init => AccessSound /\ PayrollSound
  BY FirstAccess, FirstPayroll
<1>2. AccessSound /\ PayrollSound /\ [Next]_<<part, vars, fieldVars>> => (AccessSound /\ PayrollSound)'
  BY AccessStaysSound, PayrollSoundAlways
<1>3. PayrollSound => PayrollPaysTimesheetsOnce
  BY PayrollSoundSays
<1>4. QED
  BY <1>1, <1>2, <1>3, PTL DEF Spec
=============================================================================
