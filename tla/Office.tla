-------------------------------- MODULE Office --------------------------------
(***************************************************************************)
(* The modules that move people and papers, composed over one database.  A *)
(* behaviour exercises one part of the system, chosen at the start.        *)
(***************************************************************************)
EXTENDS Workforce, Accounts, Portals, Assistant, Subcontracts, FieldSync, Safety, Survey, Papers, Schedule

CONSTANT Parts  \* the parts that are exercised

\* What is billed where the clients begin (Submitted) may be billed.
ASSUME OfficeAssumption == Contracted >= 2

VARIABLE part

OfficeTables ==
    Overlay(WorkforceTables, Overlay(AccountTables, Overlay(ApprovalTables, Overlay(BiddingTables,
        Overlay(AssistantTables, Overlay(ContractTables, Overlay(PortalTables, Overlay(SubcontractTables,
            Overlay(SiteTables, Overlay(SafetyTables, Overlay(SurveyTables, Overlay(PaperTables,
                Overlay(ScheduleTables, [filed |-> <<>>])))))))))))))

-----------------------------------------------------------------------------
(* Where a part begins: rows its handlers need and other parts make *)

Won == [status |-> "won", contract |-> 1, decision |-> "bid"]

Awarded ==
    [lead |-> <<[Lead EXCEPT !.status = "converted"]>>,
     opportunity |-> <<Won>>,
     tender |-> <<[Tender(1) EXCEPT !.status = "submitted"]>>,
     submission |-> <<[tender |-> 1]>>,
     contract |-> <<Contract(1, 2, 0)>>]

\* The second of two contracts was awarded without a completion date.
TwoContracts ==
    [tender |-> Append(Awarded.tender, Tender(1)),
     contract |-> Append(Awarded.contract, Contract(2, 1, Undated))]

SubmittedCertificate(c, project) ==
    [ProgressCertificate(c, project) EXCEPT !.status = "submitted", !.gross = 1]

\* A certificate of the second contract names the project of the first, and one of
\* the first names none.
Submitted ==
    [tender |-> TwoContracts.tender,
     contract |-> TwoContracts.contract,
     certificate |-> <<SubmittedCertificate(2, ProjectOf[1]), SubmittedCertificate(1, None)>>,
     certline |-> <<CertificateLine(1, 1, 0), CertificateLine(2, 1, 0)>>,
     tracking |-> <<PaymentTracking(1), PaymentTracking(2)>>,
     variation |-> <<VariationOrder(2, 1)>>,
     portaluser |-> <<[PortalUser("clp", "c") EXCEPT !.indexed = TRUE]>>]

Bid ==
    [lead |-> <<[Lead EXCEPT !.status = "converted"]>>,
     opportunity |-> <<[Opportunity EXCEPT !.status = "submitted"]>>,
     tender |-> <<Tender(1)>>]

\* One item was estimated, submitted and made the budget.
Estimated ==
    [estimate |-> <<[EstimateVersion(1, 1) EXCEPT !.status = "submitted"]>>,
     boq |-> <<[BOQItem(1, 1) EXCEPT !.priced = TRUE, !.rate = MarkedUp(1)]>>,
     cbs |-> <<CostBreakdownStructure(1)>>,
     cbsline |-> <<CBSLineItem(1, MarkedUp(1))>>]

Prepared(p) ==
    CASE p = "amendments" -> Overlay(TwoContracts, Awarded)
      [] p \in {"retention", "billing"} -> Awarded
      [] p \in {"clients", "revenue", "subjects"} -> Overlay(Submitted, Awarded)
      [] p \in {"tenders", "estimates"} -> Bid
      [] p = "assistant" -> Overlay([estimate |-> <<EstimateVersion(1, 1)>>], Bid)
      [] p = "baseline" -> Overlay(Estimated, Bid)
      [] p = "controls" ->
           [activity |-> <<Activity(0, 1), Activity(0, 2)>>,
            dependency |-> <<ActivityDependency(1, 2, "FS", 0)>>]
      [] OTHER -> <<>>

FilingNext(p) ==
    \/ FileForBid(p)
    \/ FileForAssistant(p)
    \/ FileForContract(p)
    \/ FileForSubcontract(p)
    \/ FileAtSite(p)
    \/ FileForSafety(p)
    \/ FileForSurvey(p)
    \/ FileForPlan(p)

Init ==
    /\ part \in Parts
    /\ db = Overlay(Prepared(part), OfficeTables)
    /\ past = <<>>
    /\ req = [p \in Workers |-> Idle]
    /\ FieldInit

\* A request of a part whose state is all in the database.
RequestNext ==
    /\ UNCHANGED fieldVars
    /\ \E p \in Workers :
         \/ part = "staff" /\ StaffNext(p)
         \/ part = "leave" /\ LeaveNext(p)
         \/ part = "payroll" /\ PayrollNext(p)
         \/ part = "members" /\ MembershipNext(p)
         \/ part = "roles" /\ RoleNext(p)
         \/ part = "sessions" /\ SessionNext(p)
         \/ part = "tenant" /\ TenantNext(p)
         \/ part = "award" /\ AwardNext(p)
         \/ part = "tenders" /\ TenderNext(p)
         \/ part = "estimates" /\ EstimateRoutes(p)
         \/ part = "assistant" /\ AssistantRoutes(p)
         \/ part = "baseline" /\ BaselineNext(p)
         \/ part = "amendments" /\ AmendmentNext(p)
         \/ part = "retention" /\ RetentionRoutes(p)
         \/ part = "billing" /\ BilRoutes(p)
         \/ part = "revenue" /\ RevenueRoutes(p)
         \/ part = "portals" /\ PortalNext(p)
         \/ part = "subjects" /\ DsarRoutes(p)
         \/ part = "clients" /\ ClientNext(p)
         \/ part = "subcontracts" /\ SubcontractNext(p)
         \/ part = "claims" /\ ClaimRoutes(p)
         \/ part = "field" /\ FieldNext(p)
         \/ part = "work" /\ WorkRoutes(p)
         \/ part = "fleet" /\ FleetRoutes(p)
         \/ part = "quality" /\ QmsRoutes(p)
         \/ part = "corrective" /\ CorrectiveNext(p)
         \/ part = "permits" /\ PermitNext(p)
         \/ part = "survey" /\ SurveyRoutes(p)
         \/ part = "quarry" /\ QuarryRoutes(p)
         \/ part = "assets" /\ AssetRoutes(p)
         \/ part = "documents" /\ DocumentNext(p)
         \/ part = "desk" /\ DeskRoutes(p)
         \/ part = "network" /\ NetworkRoutes(p)
         \/ part = "controls" /\ ControlNext(p)
         \/ part = "filing" /\ FilingNext(p)

Next ==
    /\ UNCHANGED part
    /\ \/ RequestNext
       \/ part = "device" /\ \E p \in Workers : DeviceNext(p)

Spec == Init /\ [][Next]_<<part, vars, fieldVars>>

-----------------------------------------------------------------------------
(* Properties *)

\* Every module's rows are of their type.
TypeOK ==
    /\ WorkforceTypeOK
    /\ AccountsTypeOK
    /\ ApprovalsTypeOK
    /\ BiddingTypeOK
    /\ AssistantTypeOK
    /\ ContractsTypeOK
    /\ PortalsTypeOK
    /\ SubcontractsTypeOK
    /\ SiteTypeOK
    /\ FieldTypeOK
    /\ SafetyTypeOK
    /\ SurveyTypeOK
    /\ PapersTypeOK
    /\ ScheduleTypeOK

\* Access ends when it should, for members and for portal users: no address leads
\* to somebody who was removed, and no session outlives the password it was begun
\* under or the erasure of its user.
AccessEnds ==
    /\ IndexNamesMembers
    /\ SessionsEndWithPassword
    /\ PortalAccessEnds

\* Nothing that somebody must agree to takes effect before they have, and then
\* once: contract amendments and budget revisions under a workflow, permits to
\* work, tender steps in their order, the client's own decisions; the definition
\* they were approved under stands.
ConsentComesFirst ==
    /\ DefinitionsStand
    /\ GovernedWait("amendment", AmendmentKind, {"approved"})
    /\ GovernedWait("revision", BudgetKind, {"approved"})
    /\ GovernedWait("permit", PermitKind, {"approved", "active", "closed"})
    /\ AmendmentsAddUp
    /\ TenderStepsInOrder
    /\ ClientsDecideTheirOwn

\* Money follows the work agreed: no more is billed than was contracted and
\* varied, subcontract certificates add up to what they withhold and deduct, and
\* only approved designs are billed from.
MoneyFollowsAgreement ==
    /\ BilledWithinContract
    /\ SubcontractMoneyAddsUp
    /\ BilledWasApproved

\* What was handed in is accounted for and what was signed off was checked:
\* records from the field, non-conformances and incidents, attached files, what
\* was read out of documents by machine.
SignOffsHold ==
    /\ ClosedWhenVerified
    /\ FieldRecordsAccounted
    /\ AttachmentsKeepTheirDocument
    /\ CommittedAsReviewed
=============================================================================
