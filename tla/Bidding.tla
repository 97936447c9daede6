------------------------------ MODULE Bidding ------------------------------
(***************************************************************************)
(* From a lead to an award: business development (modules/bdc), tenders    *)
(* (modules/tbm), and estimates with the budget baseline generated from    *)
(* them (modules/est).                                                     *)
(*                                                                         *)
(* Contacts, competitors' names, price books, scope annotations, markups   *)
(* and contingencies are filed and looked up, never changed; the tender    *)
(* price is computed from what is filed.                                   *)
(***************************************************************************)
EXTENDS Approvals

CONSTANTS
    UnitRates,  \* component cost of a bill-of-quantities item
    MarkupPct,  \* markup_pct
    StepCounts  \* how many approval steps a tender is given

ASSUME BiddingAssumption == UnitRates \subseteq Nat /\ MarkupPct \in Nat /\ StepCounts \subseteq Nat

Lead == [status |-> "open"]

\* contract is NULL (0) until the award.
Opportunity == [status |-> "identified", contract |-> 0, decision |-> None]

Competitor == [wins |-> 0, losses |-> 0]

WinLossRecord(o, outcome) == [opportunity |-> o, outcome |-> outcome]

Tender(o) == [status |-> "draft", opportunity |-> o, locked |-> FALSE, reopened |-> 0]

ApprovalStep(t, n) == [status |-> "pending", tender |-> t, n |-> n]

\* Checklist items, RFIs and addenda: what blocks a submission while it is open.
Blocker(t, kind, mandatory) == [status |-> "open", tender |-> t, kind |-> kind, mandatory |-> mandatory]

EstimateVersion(t, n) == [status |-> "draft", tender |-> t, n |-> n]

\* rate is the displayed unit rate, of what the item's rate analysis adds up to.
BOQItem(v, quantity) == [estimate |-> v, quantity |-> quantity, priced |-> FALSE, rate |-> 0]

CostBreakdownStructure(v) == [status |-> "draft", estimate |-> v]

CBSLineItem(c, amount) == [cbs |-> c, amount |-> amount]

BudgetRevision(l, from, to) == [status |-> "approved", line |-> l, from |-> from, to |-> to]

BiddingTables ==
    [lead |-> <<>>, opportunity |-> <<>>, competitor |-> <<Competitor>>, winloss |-> <<>>,
     tender |-> <<>>, step |-> <<>>, blocker |-> <<>>, submission |-> <<>>,
     estimate |-> <<>>, boq |-> <<>>, cbs |-> <<>>, cbsline |-> <<>>, revision |-> <<>>]

-----------------------------------------------------------------------------
(* Leads and opportunities *)

ConvertLeadToOpportunity(p, k) ==
    LET s == Seen(p)
    IN /\ Serving(p) /\ Room("opportunity")
       /\ k \in DOMAIN s.lead
       /\ s.lead[k].status = "open"
       /\ Commit(p, [s EXCEPT !.lead[k].status = "converted", !.opportunity = Append(@, Opportunity)])

AllowedTransitions ==
    [identified |-> {"qualified", "lost"}, qualified |-> {"bid_no_bid", "lost"},
     bid_no_bid |-> {"submitted", "lost"}, submitted |-> {"won", "lost"}, won |-> {}, lost |-> {}]

MayMove(o, to) == to \in AllowedTransitions[o.status] /\ (to = "won" => o.contract # 0)

TransitionStage(p, k, to) ==
    Amend(p, "opportunity", k, LAMBDA o : MayMove(o, to), LAMBDA o : [o EXCEPT !.status = to])

\* Bidding is decided in the bid/no-bid stage; a "bid" is followed by a transition.
RecordBidNoBidDecision(p, k, decision) ==
    Amend(p, "opportunity", k, LAMBDA o : o.status = "bid_no_bid",
          LAMBDA o : [o EXCEPT !.decision = decision, !.status = IF decision = "no_bid" THEN "lost" ELSE @])

\* The named competitor won what we lost.  One record per opportunity.
WithWinLoss(s, o, outcome, competitor) ==
    [s EXCEPT !.winloss = Append(@, WinLossRecord(o, outcome)),
              !.competitor = [c \in DOMAIN @ |->
                 IF c # competitor THEN @[c]
                 ELSE IF outcome = "won" THEN [s.competitor[c] EXCEPT !.losses = @ + 1]
                 ELSE [s.competitor[c] EXCEPT !.wins = @ + 1]]]

NotRecorded(o) == Room("winloss") /\ \A w \in DOMAIN db.winloss : db.winloss[w].opportunity # o

RecordWinLoss(p, o, outcome, competitor) ==
    /\ Serving(p) /\ NotRecorded(o)
    /\ o \in Rows(p, "opportunity")
    /\ Commit(p, WithWinLoss(Seen(p), o, outcome, competitor))

Outcomes == {"won", "lost"}

BdcRoutes(p) ==
    \/ Create(p, "lead", Lead)
    \/ \E k \in 1..MaxRows.lead : ConvertLeadToOpportunity(p, k)
    \/ \E k \in 1..MaxRows.opportunity :
         \/ \E to \in DOMAIN AllowedTransitions : TransitionStage(p, k, to)
         \/ \E d \in {"bid", "no_bid"} : RecordBidNoBidDecision(p, k, d)
         \/ \E out \in Outcomes, c \in 0..1 : RecordWinLoss(p, k, out, c)

-----------------------------------------------------------------------------
(* Tenders *)

StepsOf(s, t) == {k \in DOMAIN s.step : s.step[k].tender = t}

\* Steps of an earlier round keep their numbers (uq_tbm_approval_steps_tender_order):
\* a tender that was reopened cannot be put up for approval again.
InitiateApprovalWorkflow(p, t, n) ==
    LET s == Seen(p)
    IN /\ Serving(p)
       /\ t \in DOMAIN s.tender
       /\ ~ s.tender[t].locked
       /\ n > 0 /\ Len(s.step) + n <= MaxRows.step
       /\ StepsOf(db, t) = {}
       /\ Commit(p, [s EXCEPT
            !.step = @ \o [i \in 1..n |-> ApprovalStep(t, i)],
            !.tender[t] = [@ EXCEPT !.locked = TRUE, !.status = "in_approval"]])

ReopenForRevision(p, t) ==
    LET s == Seen(p)
    IN /\ Serving(p)
       /\ t \in DOMAIN s.tender
       /\ s.tender[t].locked
       /\ Commit(p, [s EXCEPT
            !.tender[t].locked = FALSE, !.tender[t].reopened = @ + 1, !.tender[t].status = "in_estimate",
            !.step = [k \in DOMAIN @ |-> IF @[k].tender = t THEN [@[k] EXCEPT !.status = "pending"] ELSE @[k]]])

DecideApprovalStep(p, k, decision) ==
    /\ \A j \in StepsOf(Seen(p), Row(p, "step", k).tender) :
         Row(p, "step", j).n < Row(p, "step", k).n => Row(p, "step", j).status = "approved"
    /\ Turn(p, "step", k, {"pending"}, decision)

\* _outstanding_submission_blockers
CanSubmit(s, t) ==
    /\ \A k \in StepsOf(s, t) : s.step[k].status = "approved"
    /\ \A k \in DOMAIN s.blocker :
         s.blocker[k].tender = t /\ s.blocker[k].mandatory => s.blocker[k].status = "closed"

\* One submission per tender; the estimate need not be locked.
RecordSubmission(p, t) ==
    LET s == Seen(p)
    IN /\ Serving(p)
       /\ t \in DOMAIN s.tender
       /\ CanSubmit(s, t)
       /\ \A k \in DOMAIN s.submission : s.submission[k].tender # t
       /\ Commit(p, [s EXCEPT !.submission = Append(@, [tender |-> t]), !.tender[t].status = "submitted"])

\* The tender's status is committed first; then bdc records the outcome.
RecordTenderOutcome(p, t, outcome, competitor) ==
    /\ Serving(p)
    /\ t \in Rows(p, "tender")
    /\ CommitThen(p, [Seen(p) EXCEPT !.tender[t].status = IF outcome = "won" THEN "awarded" ELSE "lost"],
                  "outcome", <<Row(p, "tender", t).opportunity, outcome, competitor>>)

RecordTenderOutcome2(p) ==
    /\ Resuming(p, "outcome")
    /\ NotRecorded(req[p].todo[1])
    /\ Commit(p, WithWinLoss(Seen(p), req[p].todo[1], req[p].todo[2], req[p].todo[3]))

TenderApprovalRoutes(p) ==
    \/ \E t \in 1..MaxRows.tender :
         \/ \E n \in StepCounts : InitiateApprovalWorkflow(p, t, n)
         \/ ReopenForRevision(p, t)
    \/ \E k \in Rows(p, "step"), d \in {"approved", "rejected"} : DecideApprovalStep(p, k, d)

CreateTender(p) == \E o \in Rows(p, "opportunity") : Create(p, "tender", Tender(o))

TenderRoutes(p) ==
    \/ CreateTender(p)
    \/ \E t \in Rows(p, "tender") :
         \/ \E kind \in {"rfi", "addendum"} : Create(p, "blocker", Blocker(t, kind, TRUE))
         \/ \E mandatory \in BOOLEAN : Create(p, "blocker", Blocker(t, "checklist", mandatory))
         \/ RecordSubmission(p, t)
         \/ \E out \in Outcomes, c \in 0..1 : RecordTenderOutcome(p, t, out, c)
    \/ RecordTenderOutcome2(p)
    \/ Abandon(p)
    \/ \E k \in 1..MaxRows.blocker : Turn(p, "blocker", k, {"open", "closed"}, "closed")

-----------------------------------------------------------------------------
(* Estimates and the budget baseline *)

CreateEstimateVersion(p, t) ==
    LET n == Cardinality({v \in Rows(p, "estimate") : Row(p, "estimate", v).tender = t}) + 1
    IN Create(p, "estimate", EstimateVersion(t, n))

\* Mutant: the version submitted before is left as it was.
SubmitEstimateVersion_keepsOthers(p, v) ==
    /\ Serving(p)
    /\ v \in Rows(p, "estimate")
    /\ Row(p, "estimate", v).status # "submitted"
    /\ Commit(p, [Seen(p) EXCEPT !.estimate[v].status = "submitted"])

\* A superseded version may be submitted again.
SubmitEstimateVersion(p, v) ==
    /\ Serving(p)
    /\ v \in Rows(p, "estimate")
    /\ Row(p, "estimate", v).status # "submitted"
    /\ Commit(p, [Seen(p) EXCEPT !.estimate =
         [k \in DOMAIN @ |->
            IF k = v THEN [@[k] EXCEPT !.status = "submitted"]
            ELSE IF @[k].tender = @[v].tender /\ @[k].status = "submitted"
            THEN [@[k] EXCEPT !.status = "superseded"]
            ELSE @[k]]])

MarkedUp(cost) == cost + (cost * MarkupPct) \div 100

\* The analysis is replaced wholesale, whatever the version's status and
\* whether or not its tender is locked.
SaveRateAnalysis(p, k, cost) ==
    Amend(p, "boq", k, LAMBDA i : TRUE, LAMBDA i : [i EXCEPT !.priced = TRUE, !.rate = MarkedUp(cost)])

Priced(s, v) == {k \in DOMAIN s.boq : s.boq[k].estimate = v /\ s.boq[k].priced}

Amount(s, k) == s.boq[k].rate * s.boq[k].quantity

\* tender_price_summary, its contingencies left out
TenderPrice(s, v) == SumFunction([k \in Priced(s, v) |-> Amount(s, k)])

\* Nothing but the lookup stops two of one version, none of another.
GenerateCbsFromEstimate(p, v) ==
    LET s == Seen(p)
        c == Len(s.cbs) + 1
    IN /\ Serving(p) /\ Room("cbs")
       /\ v \in DOMAIN s.estimate
       /\ s.estimate[v].status = "submitted"
       /\ \A k \in DOMAIN s.cbs : s.cbs[k].estimate # v
       /\ Commit(p, [s EXCEPT
            !.cbs = Append(@, CostBreakdownStructure(v)),
            !.cbsline = FoldSet(LAMBDA k, lines : Append(lines, CBSLineItem(c, Amount(s, k))), @, Priced(s, v))])

ApproveCbs(p, c) == Turn(p, "cbs", c, {"draft"}, "approved")

BudgetKind == "budget_revision"

InBaseline(s, l) == s.cbs[s.cbsline[l].cbs].status = "approved"

CreateBudgetRevision(p, l, to) ==
    /\ l \in Rows(p, "cbsline")
    /\ InBaseline(Seen(p), l)
    /\ Propose(p, "revision", BudgetKind, BudgetRevision(l, Row(p, "cbsline", l).amount, to),
               LAMBDA s : [s EXCEPT !.cbsline[l].amount = to])

FinalizeBudgetRevision(p, k) ==
    Finalize(p, "revision", BudgetKind, k,
             LAMBDA s : [s EXCEPT !.cbsline[s.revision[k].line].amount = s.revision[k].to])

\* What is filed and looked up, never changed.
BdcPapers == {"client", "contact", "consultant", "agency", "proposal"}

TbmPapers == {"scope", "bid_document", "jv_partner"}

PriceBooks == {"cost_library_item", "material_price", "equipment_rate", "labor_rate",
               "vendor_quotation", "markup", "contingency_item"}

EstimateRoutes(p) ==
    \/ \E t \in Rows(p, "tender") : CreateEstimateVersion(p, t)
    \/ \E v \in Rows(p, "estimate") :
         \/ SubmitEstimateVersion(p, v)
         \/ \E q \in {1, 2} : Create(p, "boq", BOQItem(v, q))
         \/ GenerateCbsFromEstimate(p, v)
    \/ \E k \in Rows(p, "boq"), cost \in UnitRates : SaveRateAnalysis(p, k, cost)

BudgetRoutes(p) ==
    \/ \E c \in 1..MaxRows.cbs : ApproveCbs(p, c)
    \/ \E l \in 1..MaxRows.cbsline, to \in UnitRates : CreateBudgetRevision(p, l, to)
    \/ \E k \in 1..MaxRows.revision : FinalizeBudgetRevision(p, k)

FileForBid(p) == \E kind \in BdcPapers \union TbmPapers \union PriceBooks : File(p, kind)

TenderNext(p) == TenderApprovalRoutes(p) \/ TenderRoutes(p)

BaselineNext(p) == BudgetRoutes(p) \/ ApprovalNext(p, BudgetKind)

-----------------------------------------------------------------------------
(* Properties *)

BiddingTypeOK ==
    /\ \A o \in DOMAIN db.opportunity : db.opportunity[o].status \in DOMAIN AllowedTransitions
    /\ \A t \in DOMAIN db.tender :
         db.tender[t].status \in {"draft", "in_approval", "in_estimate", "submitted", "awarded", "lost"}
    /\ \A v, w \in DOMAIN db.estimate :
         v # w /\ db.estimate[v].tender = db.estimate[w].tender /\ db.estimate[v].status = "submitted"
            => db.estimate[w].status # "submitted"

\* A tender's approval is sought step by step: nobody has decided a step while an
\* earlier one is open or rejected, through any number of reopenings.
TenderStepsInOrder ==
    \A k \in DOMAIN db.step :
        db.step[k].status # "pending" =>
            \A j \in StepsOf(db, db.step[k].tender) :
                db.step[j].n < db.step[k].n => db.step[j].status = "approved"
=============================================================================
