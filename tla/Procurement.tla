----------------------------- MODULE Procurement -----------------------------
(***************************************************************************)
(* Procurement (modules/prc, commitments): vendors and their compliance    *)
(* documents, requests for quotation, budget-checked purchase requests,    *)
(* purchase orders with their approval steps, goods receipt notes that     *)
(* move stock, and the three-way invoice match.                            *)
(*                                                                         *)
(* Every unit costs 1.  Amounts differ by more than MATCH_TOLERANCE or not *)
(* at all.  A purchase request spends on the one CBS line that is budgeted.*)
(***************************************************************************)
EXTENDS StockLedger

CONSTANTS
    CbsBudget,   \* budgeted_amount of the CBS line
    OrderLines   \* what purchase orders are created with: sequences of material_item_id set or not

ASSUME ProcurementAssumption ==
    /\ CbsBudget \in Nat
    /\ \A lines \in OrderLines : lines \in Seq(BOOLEAN)

\* bank: banking_details, 0 for those given at registration.
Vendor == [status |-> "active", bank |-> 0]

\* expired: valid_until lies before today.
VendorComplianceDocument(v, expired) == [vendor |-> v, expired |-> expired]

\* late: response_deadline lies before now.
RFQ == [status |-> "open", late |-> FALSE]

RFQInvitation(r, v) == [status |-> "invited", rfq |-> r, vendor |-> v]

RFQQuotation(r, v, price) == [rfq |-> r, vendor |-> v, price |-> price]

\* instance: status of the workflow instance that governs the request.
PurchaseRequest(total) ==
    [status |-> "draft", total |-> total, override |-> FALSE, instance |-> None]

PurchaseOrder(v, value) == [status |-> "draft", vendor |-> v, value |-> value, waiver |-> FALSE]

PurchaseOrderLine(o, tracked, q) == [po |-> o, tracked |-> tracked, qty |-> q, received |-> 0]

POApprovalStep(o, i) == [status |-> "pending", po |-> o, order |-> i]

GoodsReceiptNote(o, w) == [status |-> "draft", po |-> o, at |-> w]

GoodsReceiptLine(g, l, q) == [grn |-> g, line |-> l, qty |-> q]

InvoiceMatch(o, g, n, grnAmount, status) ==
    [status |-> status, po |-> o, grn |-> g, amount |-> n, received |-> grnAmount,
     exception |-> FALSE, released |-> status = "matched"]

VendorPerformanceRecord(v) == [vendor |-> v]

SupplierRating(v) == [vendor |-> v]

ProcurementTables ==
    [vendor |-> <<>>, doc |-> <<>>, rfq |-> <<>>, invitation |-> <<>>, quotation |-> <<>>,
     pr |-> <<>>, po |-> <<>>, poline |-> <<>>, postep |-> <<>>, grn |-> <<>>, grnline |-> <<>>,
     match |-> <<>>, performance |-> <<>>, rating |-> <<>>]

\* Quantity that confirmed notes put in stock.
ProcurementPast == [landed |-> 0]

-----------------------------------------------------------------------------
(* Vendors and requests for quotation *)

CreateVendor(p) == Create(p, "vendor", Vendor)

AddComplianceDocument(p, v, expired) ==
    /\ v \in Rows(p, "vendor")
    /\ Create(p, "doc", VendorComplianceDocument(v, expired))

\* A day passes: no request.
DocumentExpires(k) ==
    /\ k \in DOMAIN db.doc
    /\ ~ db.doc[k].expired
    /\ db' = [db EXCEPT !.doc[k].expired = TRUE]
    /\ UNCHANGED <<req, past>>

CreateRfq(p) == Create(p, "rfq", RFQ)

Invited(s, r, v) == \E k \in DOMAIN s.invitation : s.invitation[k].rfq = r /\ s.invitation[k].vendor = v

Quoted(s, r, v) == {k \in DOMAIN s.quotation : s.quotation[k].rfq = r /\ s.quotation[k].vendor = v}

InviteVendor(p, r, v) ==
    /\ r \in Rows(p, "rfq") /\ v \in Rows(p, "vendor")
    /\ ~ Invited(Seen(p), r, v)
    /\ Create(p, "invitation", RFQInvitation(r, v))

\* uq_prc_rfq_quotations_pair; neither an invitation nor an open RFQ is asked for.
SubmitQuotation(p, r, v, price) ==
    /\ r \in Rows(p, "rfq") /\ v \in Rows(p, "vendor")
    /\ Quoted(db, r, v) = {}
    /\ Create(p, "quotation", RFQQuotation(r, v, price))

\* compare_quotations: the quotations marked as the lowest.
LowestQuotations(s, r) ==
    LET all == {k \in DOMAIN s.quotation : s.quotation[k].rfq = r}
    IN {k \in all : \A j \in all : s.quotation[k].price <= s.quotation[j].price}

AddPerformanceRecord(p, v) == v \in Rows(p, "vendor") /\ Create(p, "performance", VendorPerformanceRecord(v))

AddSupplierRating(p, v) == v \in Rows(p, "vendor") /\ Create(p, "rating", SupplierRating(v))

VendorRoutes(p) ==
    \/ CreateVendor(p)
    \/ \E v \in 1..MaxRows.vendor, expired \in BOOLEAN : AddComplianceDocument(p, v, expired)

RatingRoutes(p) == \E v \in 1..MaxRows.vendor : AddPerformanceRecord(p, v) \/ AddSupplierRating(p, v)

RfqRoutes(p) ==
    \/ CreateRfq(p)
    \/ \E r \in 1..MaxRows.rfq, v \in 1..MaxRows.vendor :
         InviteVendor(p, r, v) \/ \E n \in Quantities : SubmitQuotation(p, r, v, n)

-----------------------------------------------------------------------------
(* Purchase requests *)

CommittedPoStatuses == {"approved", "issued", "closed"}

\* Lines of orders that are approved or beyond; nothing that was requested or invoiced.
Committed(s) ==
    SumOf(s.poline, "qty", {k \in DOMAIN s.poline : s.po[s.poline[k].po].status \in CommittedPoStatuses})

\* get_commitment_summary
Remaining(s) == CbsBudget - Committed(s)

CreatePurchaseRequest(p, total) == Create(p, "pr", PurchaseRequest(total))

\* governed: the tenant has an active definition for purchase requests.
SubmitPurchaseRequest(p, k, override, governed) ==
    LET breaches == Row(p, "pr", k).total > Remaining(Seen(p))
    IN /\ Serving(p)
       /\ k \in Rows(p, "pr")
       /\ Row(p, "pr", k).status = "draft"
       /\ breaches => override
       /\ Commit(p, [Seen(p) EXCEPT
            !.pr[k].status = "submitted",
            !.pr[k].override = breaches,
            !.pr[k].instance = IF governed THEN "pending" ELSE None])

\* The workflow engine reaches an outcome (module WorkflowEngine).
InstanceEnds(k, outcome) ==
    /\ k \in DOMAIN db.pr
    /\ db.pr[k].instance = "pending"
    /\ db' = [db EXCEPT !.pr[k].instance = outcome]
    /\ UNCHANGED <<req, past>>

ApprovePurchaseRequest(p, k) ==
    /\ k \in Rows(p, "pr")
    /\ Row(p, "pr", k).instance \in {None, "approved"}
    /\ Turn(p, "pr", k, {"submitted"}, "approved")

RequestRoutes(p) ==
    \/ \E n \in Quantities : CreatePurchaseRequest(p, n)
    \/ \E k \in 1..MaxRows.pr :
         \/ \E override, governed \in BOOLEAN : SubmitPurchaseRequest(p, k, override, governed)
         \/ ApprovePurchaseRequest(p, k)

-----------------------------------------------------------------------------
(* Purchase orders *)

\* The client says what an order is worth; its lines are not summed up.
CreatePurchaseOrder(p, v, value, lines) ==
    LET s == Seen(p)
        o == Len(s.po) + 1
    IN /\ Serving(p)
       /\ v \in DOMAIN s.vendor
       /\ Room("po")
       /\ Commit(p, [s EXCEPT
            !.po = Append(@, PurchaseOrder(v, value)),
            !.poline = @ \o [i \in DOMAIN lines |-> PurchaseOrderLine(o, lines[i], 1)]])

StepsOf(s, o) == {k \in DOMAIN s.postep : s.postep[k].po = o}

\* thresholds: how many of the steps named apply to the value of the order.
InitiatePoApproval(p, o, applicable) ==
    LET s == Seen(p)
    IN /\ Serving(p)
       /\ o \in DOMAIN s.po
       /\ StepsOf(s, o) = {}
       /\ applicable > 0
       /\ Commit(p, [s EXCEPT
            !.postep = @ \o [i \in 1..applicable |-> POApprovalStep(o, i)],
            !.po[o].status = "pending_approval"])

EarlierApproved(s, k) ==
    \A j \in StepsOf(s, s.postep[k].po) :
        s.postep[j].order < s.postep[k].order => s.postep[j].status = "approved"

\* Mutant: the steps still pending are not counted.
DecidePoApprovalStep_first(p, k, decision) ==
    LET s == Seen(p)
        o == s.postep[k].po
    IN /\ Serving(p)
       /\ k \in DOMAIN s.postep
       /\ s.postep[k].status = "pending"
       /\ EarlierApproved(s, k)
       /\ Commit(p, [s EXCEPT
            !.postep[k].status = decision,
            !.po[o].status = IF decision = "rejected" THEN "cancelled" ELSE "approved"])

\* The count of pending steps runs after this decision is flushed.
DecidePoApprovalStep(p, k, decision) ==
    LET s == Seen(p)
        o == s.postep[k].po
    IN /\ Serving(p)
       /\ k \in DOMAIN s.postep
       /\ s.postep[k].status = "pending"
       /\ EarlierApproved(s, k)
       /\ Commit(p, [s EXCEPT
            !.postep[k].status = decision,
            !.po[o].status =
                IF decision = "rejected" THEN "cancelled"
                ELSE IF \E j \in StepsOf(s, o) \ {k} : s.postep[j].status = "pending" THEN @
                ELSE "approved"])

Expired(s, v) == \E k \in DOMAIN s.doc : s.doc[k].vendor = v /\ s.doc[k].expired

IssuePurchaseOrder(p, o, waiver) ==
    LET s == Seen(p)
        expired == Expired(s, s.po[o].vendor)
    IN /\ Serving(p)
       /\ o \in DOMAIN s.po
       /\ s.po[o].status = "approved"
       /\ expired => waiver
       /\ Commit(p, [s EXCEPT !.po[o].status = "issued",
                              !.po[o].waiver = @ \/ expired])

OrderRoutes(p) ==
    \/ \E v \in 1..MaxRows.vendor, n \in Quantities, ls \in OrderLines : CreatePurchaseOrder(p, v, n, ls)
    \/ \E o \in 1..MaxRows.po :
         \/ \E n \in 0..2 : InitiatePoApproval(p, o, n)
         \/ \E waiver \in BOOLEAN : IssuePurchaseOrder(p, o, waiver)
    \/ \E k \in 1..(2 * MaxRows.po), d \in {"approved", "rejected"} : DecidePoApprovalStep(p, k, d)

-----------------------------------------------------------------------------
(* Goods receipt *)

LinesOf(s, o) == {l \in DOMAIN s.poline : s.poline[l].po = o}

\* The i-th of them.
OrderLine(s, o, i) ==
    CHOOSE l \in LinesOf(s, o) : Cardinality({m \in LinesOf(s, o) : m < l}) = i - 1

NoteLines(s, g) == {k \in DOMAIN s.grnline : s.grnline[k].grn = g}

\* A receipt note of an order in any status; w is None when no warehouse is named.
CreateGrn(p, o, w, q) ==
    LET s == Seen(p)
        g == Len(s.grn) + 1
    IN /\ Serving(p)
       /\ o \in DOMAIN s.po
       /\ Room("grn")
       /\ Commit(p, [s EXCEPT
            !.grn = Append(@, GoodsReceiptNote(o, w)),
            !.grnline = @ \o [i \in 1..Cardinality(LinesOf(s, o)) |->
                GoodsReceiptLine(g, OrderLine(s, o, i), q)]])

TrackedLines(s, g) == {k \in NoteLines(s, g) : s.poline[s.grnline[k].line].tracked}

DrawDown(s, g) ==
    [s EXCEPT !.poline = [l \in DOMAIN @ |->
        [s.poline[l] EXCEPT !.received = @ + SumOf(s.grnline, "qty",
                                           {k \in NoteLines(s, g) : s.grnline[k].line = l})]]]

\* Mutant: a note may be confirmed again.
ConfirmGoodsReceipt_again(p, g) ==
    LET s == Seen(p)
    IN /\ Serving(p)
       /\ g \in DOMAIN s.grn
       /\ NoteLines(s, g) # {}
       /\ TrackedLines(s, g) # {} => s.grn[g].at # None
       /\ CommitThen(p, [DrawDown(s, g) EXCEPT !.grn[g].status = "confirmed"],
                     "receiving", [at |-> s.grn[g].at, lines |-> TrackedLines(s, g)])

\* The note and the drawn-down lines are committed, then every tracked line is
\* received into stock by a transaction of its own.
ConfirmGoodsReceipt(p, g) ==
    LET s == Seen(p)
    IN /\ Serving(p)
       /\ g \in DOMAIN s.grn
       /\ s.grn[g].status # "confirmed"
       /\ NoteLines(s, g) # {}
       /\ TrackedLines(s, g) # {} => s.grn[g].at # None
       /\ CommitThen(p, [DrawDown(s, g) EXCEPT !.grn[g].status = "confirmed"],
                     "receiving", [at |-> s.grn[g].at, lines |-> TrackedLines(s, g)])

ReceiveNoteLine(p, k) ==
    LET s == Seen(p)
        left == req[p].todo.lines \ {k}
        q == s.grnline[k].qty
    IN /\ Resuming(p, "receiving")
       /\ k \in req[p].todo.lines
       /\ Write(p, Land(s, req[p].todo.at, q, TRUE))
       /\ GoOn(p, "receiving", [req[p].todo EXCEPT !.lines = left])
       /\ WithinBounds(db')
       /\ past' = [past EXCEPT !.booked = @ + q, !.landed = @ + q]

AllReceived(p) ==
    /\ Resuming(p, "receiving")
    /\ req[p].todo.lines = {}
    /\ Finish(p)
    /\ UNCHANGED <<db, past>>

GoodsReceiptRoutes(p) ==
    \/ \E o \in 1..MaxRows.po, w \in Warehouses \cup {None}, q \in Quantities : CreateGrn(p, o, w, q)
    \/ \E g \in 1..MaxRows.grn : ConfirmGoodsReceipt(p, g)
    \/ \E k \in 1..(2 * MaxRows.grn) : ReceiveNoteLine(p, k)
    \/ AllReceived(p)

-----------------------------------------------------------------------------
(* Three-way match *)

NoteAmount(s, g) == SumOf(s.grnline, "qty", NoteLines(s, g))

\* g is 0 when no receipt note is named: then two of the three are compared.  Any
\* note will do, of another order or not confirmed.
PerformInvoiceMatch(p, o, g, n) ==
    LET s == Seen(p)
        received == IF g = 0 THEN n ELSE NoteAmount(s, g)
        status == IF n = s.po[o].value /\ n = received THEN "matched" ELSE "discrepancy"
    IN /\ o \in DOMAIN s.po
       /\ g \in DOMAIN s.grn \cup {0}
       /\ Create(p, "match", InvoiceMatch(o, g, n, received, status))

ApproveMatchException(p, k) ==
    Amend(p, "match", k,
          LAMBDA m : m.status = "discrepancy",
          LAMBDA m : [m EXCEPT !.exception = TRUE, !.released = TRUE])

MatchRoutes(p) ==
    \/ \E o \in 1..MaxRows.po, g \in 0..MaxRows.grn, n \in Quantities : PerformInvoiceMatch(p, o, g, n)
    \/ \E k \in 1..MaxRows.match : ApproveMatchException(p, k)

SourcingNext(p) ==
    \/ VendorRoutes(p)
    \/ RatingRoutes(p)
    \/ RfqRoutes(p)
    \/ RequestRoutes(p)
    \/ \E k \in 1..MaxRows.doc : DocumentExpires(k)
    \/ \E k \in 1..MaxRows.pr, o \in {"approved", "rejected", "cancelled"} : InstanceEnds(k, o)

PurchasingNext(p) ==
    \/ VendorRoutes(p)
    \/ OrderRoutes(p)
    \/ GoodsReceiptRoutes(p)
    \/ MatchRoutes(p)

-----------------------------------------------------------------------------
(* Properties *)

ProcurementTypeOK ==
    /\ \A k \in DOMAIN db.pr : db.pr[k].status \in {"draft", "submitted", "approved"}
    /\ \A k \in DOMAIN db.po :
         db.po[k].status \in {"draft", "pending_approval", "approved", "issued", "cancelled"}
    /\ \A k \in DOMAIN db.postep : db.postep[k].status \in {"pending", "approved", "rejected"}
    /\ \A k \in DOMAIN db.grn : db.grn[k].at \in Warehouses \cup {None}
    /\ \A k \in DOMAIN db.match : db.match[k].status \in {"matched", "discrepancy"}

\* An order that is approved or issued has every one of its approval steps
\* approved, and a cancelled one has a rejected step.  Holds while requests do
\* not overlap: each decision looks at the other steps as it loaded them.
PoStatusFollowsSteps ==
    \A o \in DOMAIN db.po :
        LET decided(d) == {k \in StepsOf(db, o) : db.postep[k].status = d}
        IN /\ db.po[o].status \in {"approved", "issued"} =>
                 StepsOf(db, o) # {} /\ decided("approved") = StepsOf(db, o)
           /\ db.po[o].status = "cancelled" <=> decided("rejected") # {}

\* What is drawn down against a purchase order line is what confirmed notes say of
\* it, and stock got no more than confirmed notes brought; a request that died
\* between its commits leaves stock short, never over.
GoodsReceivedAsNoted ==
    LET confirmed == {k \in DOMAIN db.grnline : db.grn[db.grnline[k].grn].status = "confirmed"}
    IN /\ \A l \in DOMAIN db.poline :
            db.poline[l].received =
                SumOf(db.grnline, "qty", {k \in confirmed : db.grnline[k].line = l})
       /\ past.landed <=
            SumOf(db.grnline, "qty", {k \in confirmed : db.poline[db.grnline[k].line].tracked})
=============================================================================
