---------------------------- MODULE VendorPortal ----------------------------
(***************************************************************************)
(* What a vendor's people do through their portal (modules/vnp): quote for *)
(* requests they were invited to, acknowledge orders, upload invoices, and *)
(* ask for new banking details, which the company approves.  Their         *)
(* accounts are in Portals, their files in Papers.                         *)
(*                                                                         *)
(* An invoice may be uploaded for a subcontract certificate instead of an  *)
(* order; both are owned by one vendor and only the order is modelled.     *)
(***************************************************************************)
EXTENDS Procurement

CONSTANT BankDetails  \* proposed_banking_details

ASSUME VendorPortalAssumption == BankDetails \subseteq Nat

\* previous is what the approval replaced.
VendorBankingChangeRequest(v, proposed) ==
    [status |-> "pending", vendor |-> v, proposed |-> proposed, previous |-> 0]

OrderAcknowledgment(o) == [po |-> o]

VendorInvoiceUpload(v, o) == [vendor |-> v, po |-> o]

VendorPortalTables == [bankchange |-> <<>>, acknowledgment |-> <<>>, upload |-> <<>>]

-----------------------------------------------------------------------------
(* Quotations *)

\* response_deadline goes by.
DeadlinePasses(r) ==
    /\ r \in DOMAIN db.rfq
    /\ db' = [db EXCEPT !.rfq[r].late = TRUE]
    /\ UNCHANGED <<req, past>>

\* _rfq_accepts_quotes
AcceptsQuotes(s, r) == s.rfq[r].status = "open" /\ ~ s.rfq[r].late

\* The vendor's own invitation, the request it is for still open.
Invitation(s, k, v) == k \in DOMAIN s.invitation /\ s.invitation[k].vendor = v /\ AcceptsQuotes(s, s.invitation[k].rfq)

SubmitQuoteAsVendor(p, v, k, price) ==
    LET s == Seen(p)
        r == s.invitation[k].rfq
    IN /\ Serving(p) /\ Room("quotation")
       /\ Invitation(s, k, v)
       /\ s.invitation[k].status # "declined"
       /\ Quoted(s, r, v) = {}
       /\ Commit(p, Insert([s EXCEPT !.invitation[k].status = "responded"], "quotation", RFQQuotation(r, v, price)))

\* Also of a quote that the company recorded for the vendor.
ReviseQuoteAsVendor(p, v, k, price) ==
    LET s == Seen(p)
    IN /\ Serving(p)
       /\ Invitation(s, k, v)
       /\ \E q \in Quoted(s, s.invitation[k].rfq, v) : Commit(p, [s EXCEPT !.quotation[q].price = price])

\* The company can still record a quote of a vendor who declined.
DeclineRfqAsVendor(p, v, k) ==
    LET s == Seen(p)
    IN /\ Serving(p)
       /\ Invitation(s, k, v)
       /\ s.invitation[k].status # "declined"
       /\ Quoted(s, s.invitation[k].rfq, v) = {}
       /\ Commit(p, [s EXCEPT !.invitation[k].status = "declined"])

-----------------------------------------------------------------------------
(* Orders, invoices, banking details *)

Owns(s, v, o) == o \in DOMAIN s.po /\ s.po[o].vendor = v

AcknowledgeOrder(p, v, o) ==
    /\ Owns(Seen(p), v, o)
    /\ \A a \in Rows(p, "acknowledgment") : Row(p, "acknowledgment", a).po # o
    /\ Create(p, "acknowledgment", OrderAcknowledgment(o))

UploadVendorInvoice(p, v, o) ==
    /\ Owns(Seen(p), v, o)
    /\ Create(p, "upload", VendorInvoiceUpload(v, o))

SubmitBankingChange(p, v, proposed) == Create(p, "bankchange", VendorBankingChangeRequest(v, proposed))

\* The only handler that writes a vendor's banking details.
ApproveBankingChange(p, k) ==
    LET s == Seen(p)
        v == s.bankchange[k].vendor
    IN /\ Serving(p)
       /\ k \in DOMAIN s.bankchange
       /\ s.bankchange[k].status = "pending"
       /\ Commit(p, [s EXCEPT
            !.bankchange[k] = [@ EXCEPT !.status = "approved", !.previous = s.vendor[v].bank],
            !.vendor[v].bank = s.bankchange[k].proposed])

RejectBankingChange(p, k) == Turn(p, "bankchange", k, {"pending"}, "rejected")

QuoteRoutes(p) ==
    \E v \in Rows(p, "vendor"), k \in 1..MaxRows.invitation :
        \/ DeclineRfqAsVendor(p, v, k)
        \/ \E price \in 1..2 : SubmitQuoteAsVendor(p, v, k, price) \/ ReviseQuoteAsVendor(p, v, k, price)

VendorPortalRoutes(p) ==
    \/ \E v \in Rows(p, "vendor"), o \in 1..MaxRows.po : AcknowledgeOrder(p, v, o) \/ UploadVendorInvoice(p, v, o)
    \/ \E v \in Rows(p, "vendor"), proposed \in BankDetails : SubmitBankingChange(p, v, proposed)
    \/ \E k \in 1..MaxRows.bankchange : ApproveBankingChange(p, k) \/ RejectBankingChange(p, k)

TenderingNext(p) ==
    \/ RfqRoutes(p)
    \/ QuoteRoutes(p)
    \/ \E r \in 1..MaxRows.rfq : DeadlinePasses(r)

VendorPortalNext(p) ==
    \/ \E v \in Rows(p, "vendor"), n \in Quantities, lines \in OrderLines : CreatePurchaseOrder(p, v, n, lines)
    \/ VendorPortalRoutes(p)

-----------------------------------------------------------------------------
(* Properties *)

VendorPortalTypeOK ==
    /\ \A k \in DOMAIN db.bankchange : db.bankchange[k].status \in {"pending", "approved", "rejected"}
    /\ \A k \in DOMAIN db.invitation :
         /\ db.invitation[k].status \in {"invited", "responded", "declined"}
         /\ db.invitation[k].status = "responded" => Quoted(db, db.invitation[k].rfq, db.invitation[k].vendor) # {}

\* The details a vendor is paid under go back, approved change by approved change,
\* to those it registered with: what each approval replaced is what was in force,
\* and nothing that was only asked for is (approve_banking_change).  Holds while
\* requests do not overlap.
BankDetailsAreApproved ==
    \A v \in DOMAIN db.vendor :
        LET approved == {k \in DOMAIN db.bankchange :
                           db.bankchange[k].vendor = v /\ db.bankchange[k].status = "approved"}
        IN db.vendor[v].bank + SumOf(db.bankchange, "previous", approved)
             = SumOf(db.bankchange, "proposed", approved)
=============================================================================
