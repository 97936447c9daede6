----------------------------- MODULE Contracts -----------------------------
(***************************************************************************)
(* Contracts and what is paid under them (modules/ctm) and the progress    *)
(* certificates billed to the client (modules/bil).                        *)
(*                                                                         *)
(* Amounts are whole numbers; a percentage rounds down.  Documents, bonds, *)
(* insurances, guarantees, payment terms and claims are filed.  No handler *)
(* gives a payment a due date, so refresh_overdue_status never finds one   *)
(* and there is no action for it.  A retention is given a cap.             *)
(***************************************************************************)
EXTENDS Bidding

CONSTANTS
    Values,        \* contract_value, certificate_amount, advance amount, price_delta
    CapAmount,     \* cap_amount of a retention
    Percentage,    \* retention percentage, recoupment_pct_per_certificate
    Contracted,    \* the largest contracted_quantity stated with a line
    ProjectOf,     \* of a contract: its project_id, or NULL
    NamedProjects  \* project_id of the certificates that are entered, or NULL

ASSUME ContractsAssumption ==
    Values \subseteq Nat /\ CapAmount \in Nat /\ Percentage \in 0..100 /\ Contracted \in Nat

Least(a, b) == IF a < b THEN a ELSE b

Pct(amount) == (amount * Percentage) \div 100

\* NULL, of a date.  A date is a number of days from the first one agreed.
Undated == -1

\* value and completion change by amendment only; base is the value at the award,
\* original is original_completion_date.
Contract(t, value, original) ==
    [tender |-> t, base |-> value, value |-> value, original |-> original, completion |-> original]

\* delta is days for a "time" amendment, money for a "price" amendment.
ContractAmendment(c, type, delta) == [status |-> "approved", contract |-> c, type |-> type, delta |-> delta]

AdvancePayment(c, amount) == [contract |-> c, amount |-> amount, recouped |-> 0]

\* released counts the stages passed: substantial completion, end of DLP.
Retention(c) == [contract |-> c, withheld |-> 0, released |-> 0]

\* project is a column of its own, NULL or any project, and is not checked against
\* the contract (which may be NULL too; here it is given).
ProgressCertificate(c, project) ==
    [status |-> "draft", contract |-> c, project |-> project, gross |-> 0, retention |-> 0, net |-> 0]

CertificateLine(cert, quantity, vo) == [certificate |-> cert, quantity |-> quantity, vo |-> vo]

VariationOrder(c, quantity) == [status |-> "pending", contract |-> c, quantity |-> quantity]

PaymentTracking(cert) == [status |-> "submitted", certificate |-> cert]

RevenueRecognition(c, billed, recognized) ==
    [contract |-> c, billed |-> billed, recognized |-> recognized, position |-> billed - recognized]

ContractTables ==
    [contract |-> <<>>, amendment |-> <<>>, advance |-> <<>>, retention |-> <<>>,
     certificate |-> <<>>, certline |-> <<>>, variation |-> <<>>, tracking |-> <<>>, revenue |-> <<>>]

CtmPapers == {"contract_document", "payment_term", "performance_bond", "insurance", "guarantee"}

BilPapers == {"claim"}

-----------------------------------------------------------------------------
(* Award and amendments *)

\* One contract per tender (uq_ctm_contracts_tenant_tender).
CreateContractOnAward(p, t, o, value, original) ==
    /\ Serving(p) /\ Room("contract")
    /\ t \in Rows(p, "tender")
    /\ \A c \in DOMAIN db.contract : db.contract[c].tender # t
    /\ CommitThen(p, Insert(Seen(p), "contract", Contract(t, value, original)), "award", <<o, Len(db.contract) + 1>>)

\* The contract stays if bdc refuses it from here on, and the award cannot be
\* asked for again.
LinkContract(p) ==
    LET o == req[p].todo[1]
    IN /\ Resuming(p, "award")
       /\ o \in Rows(p, "opportunity")
       /\ Row(p, "opportunity", o).contract = 0
       /\ CommitThen(p, [Seen(p) EXCEPT !.opportunity[o].contract = req[p].todo[2]], "won", <<o>>)

MarkWon(p) ==
    LET o == req[p].todo[1]
    IN /\ Resuming(p, "won")
       /\ MayMove(Row(p, "opportunity", o), "won")
       /\ Commit(p, [Seen(p) EXCEPT !.opportunity[o].status = "won"])

AmendmentKind == "contract_amendment"

\* A "scope" amendment is its own record; so is a "time" amendment of a contract
\* that has no date to begin with.
ApplyAmendmentEffects(s, c, type, delta) ==
    LET agreed == s.contract[c]
        from == IF agreed.completion # Undated THEN agreed.completion ELSE agreed.original
    IN
    CASE type = "time" /\ from # Undated -> [s EXCEPT !.contract[c].completion = from + delta]
      [] type = "price" -> [s EXCEPT !.contract[c].value = @ + delta]
      [] OTHER          -> s

RecordAmendment(p, c, type, delta) ==
    /\ c \in Rows(p, "contract")
    /\ type = "time" => delta # 0
    /\ Propose(p, "amendment", AmendmentKind, ContractAmendment(c, type, delta),
               LAMBDA s : ApplyAmendmentEffects(s, c, type, delta))

FinalizeAmendment(p, k) ==
    Finalize(p, "amendment", AmendmentKind, k,
             LAMBDA s : ApplyAmendmentEffects(s, s.amendment[k].contract, s.amendment[k].type, s.amendment[k].delta))

-----------------------------------------------------------------------------
(* Retention and advances under the contract *)

ApplyRetentionToCertificate(p, k, amount) ==
    Amend(p, "retention", k, LAMBDA r : TRUE,
          LAMBDA r : [r EXCEPT !.withheld = @ + Least(Pct(amount), Max({CapAmount - @, 0}))])

ReleaseRetention(p, k, stage) ==
    Amend(p, "retention", k, LAMBDA r : r.released = stage - 1, LAMBDA r : [r EXCEPT !.released = stage])

ApplyAdvanceRecoupment(p, k, amount) ==
    Amend(p, "advance", k, LAMBDA a : TRUE,
          LAMBDA a : [a EXCEPT !.recouped = @ + Least(Pct(amount), a.amount - @)])

AwardRoutes(p) ==
    \/ \E t \in Rows(p, "tender"), o \in 1..MaxRows.opportunity, value \in Values, original \in {Undated, 0} :
         CreateContractOnAward(p, t, o, value, original)
    \/ LinkContract(p)
    \/ MarkWon(p)
    \/ Abandon(p)

AwardNext(p) == BdcRoutes(p) \/ CreateTender(p) \/ AwardRoutes(p)

AmendmentRoutes(p) ==
    \/ \E c \in Rows(p, "contract"), type \in {"time", "price", "scope"}, delta \in Values :
         RecordAmendment(p, c, type, delta)
    \/ \E k \in 1..MaxRows.amendment : FinalizeAmendment(p, k)

RetentionRoutes(p) ==
    \/ \E c \in Rows(p, "contract") :
         \/ \E amount \in Values : Create(p, "advance", AdvancePayment(c, amount))
         \/ /\ \A r \in DOMAIN db.retention : db.retention[r].contract # c
            /\ Create(p, "retention", Retention(c))
    \/ \E k \in 1..MaxRows.retention :
         \/ \E amount \in Values : ApplyRetentionToCertificate(p, k, amount)
         \/ \E stage \in 1..2 : ReleaseRetention(p, k, stage)
    \/ \E k \in 1..MaxRows.advance, amount \in Values : ApplyAdvanceRecoupment(p, k, amount)

AmendmentNext(p) == AmendmentRoutes(p) \/ ApprovalNext(p, AmendmentKind)

-----------------------------------------------------------------------------
(* Progress certificates *)

Projects == {ProjectOf[c] : c \in DOMAIN ProjectOf} \ {None}

\* get_approved_variation_quantity
ApprovedVariation(s) ==
    SumOf(s.variation, "quantity", {v \in DOMAIN s.variation : s.variation[v].status = "approved"})

BilledOn(s, certificates) ==
    SumOf(s.certline, "quantity", {l \in DOMAIN s.certline : s.certline[l].certificate \in certificates})

\* Mutant: what is drafted does not count as billed.
CumulativeBilled_submitted(s) ==
    BilledOn(s, {c \in DOMAIN s.certificate : s.certificate[c].status \in {"submitted", "client_approved"}})

\* get_cumulative_billed_quantity; all lines are of one bill-of-quantities item.
CumulativeBilled(s) == BilledOn(s, {c \in DOMAIN s.certificate : s.certificate[c].status # "rejected"})

\* contracted is what the client of the API says was contracted; two lines of one
\* item need not say the same.
MayBill(s, cert, quantity, vo, contracted) ==
    /\ s.certificate[cert].status = "draft"
    /\ vo # 0 => s.variation[vo].status = "approved"
    /\ CumulativeBilled(s) + quantity <= contracted + ApprovedVariation(s)

\* The rate is 1: gross_certified_amount is the sum of the quantities.
AddCertificateLine(p, cert, quantity, vo, contracted) ==
    LET s == Seen(p)
        new == Insert(s, "certline", CertificateLine(cert, quantity, vo))
    IN /\ Serving(p) /\ Room("certline")
       /\ cert \in DOMAIN s.certificate /\ vo \in {0} \union DOMAIN s.variation
       /\ MayBill(s, cert, quantity, vo, contracted)
       /\ Commit(p, [new EXCEPT !.certificate[cert].gross = BilledOn(new, {cert})])

\* In any status, and not again when lines follow.
ApplyCertificateRetention(p, cert) ==
    Amend(p, "certificate", cert, LAMBDA c : TRUE,
          LAMBDA c : [c EXCEPT !.retention = Pct(c.gross), !.net = c.gross - Pct(c.gross)])

SubmitCertificate(p, cert) ==
    /\ Serving(p)
    /\ cert \in Rows(p, "certificate")
    /\ Row(p, "certificate", cert).status = "draft"
    /\ \E l \in Rows(p, "certline") : Row(p, "certline", l).certificate = cert
    /\ CommitThen(p, [Seen(p) EXCEPT !.certificate[cert].status = "submitted"], "track", <<cert>>)

BeginTracking(p) ==
    /\ Resuming(p, "track")
    /\ Commit(p, Insert(Seen(p), "tracking", PaymentTracking(req[p].todo[1])))

TrackingOf(s, cert) == {k \in DOMAIN s.tracking : s.tracking[k].certificate = cert}

ApproveCertificate(p, cert) ==
    /\ Serving(p)
    /\ cert \in Rows(p, "certificate")
    /\ Row(p, "certificate", cert).status = "submitted"
    /\ CommitThen(p, [Seen(p) EXCEPT !.certificate[cert].status = "client_approved"], "certify", <<cert>>)

\* Whatever the tracking said: one that was paid already is certified again.
CertifyTracking(p) ==
    LET s == Seen(p)
    IN /\ Resuming(p, "certify")
       /\ Commit(p, [s EXCEPT !.tracking =
            [k \in DOMAIN @ |-> IF k \in TrackingOf(s, req[p].todo[1]) THEN [@[k] EXCEPT !.status = "certified"]
                                ELSE @[k]]])

DecideVariationOrder(p, v, decision) == Turn(p, "variation", v, {"pending"}, decision)

RecordCertificatePayment(p, k) == Turn(p, "tracking", k, {"submitted", "certified", "overdue"}, "paid")

\* percent of the total; nothing before the end under the completed-contract method.
RecognizeRevenue(p, c, recognized) ==
    LET s == Seen(p)
        billing == {k \in DOMAIN s.certificate :
                      s.certificate[k].contract = c /\ s.certificate[k].status \in {"submitted", "client_approved"}}
    IN Create(p, "revenue", RevenueRecognition(c, SumOf(s.certificate, "gross", billing), recognized))

BilRoutes(p) ==
    \/ \E c \in Rows(p, "contract") :
         \/ \E project \in NamedProjects : Create(p, "certificate", ProgressCertificate(c, project))
         \/ Create(p, "variation", VariationOrder(c, 1))
    \/ \E cert \in 1..MaxRows.certificate :
         \/ \E quantity \in 1..2, vo \in 0..MaxRows.variation, contracted \in 0..Contracted :
              AddCertificateLine(p, cert, quantity, vo, contracted)
         \/ ApplyCertificateRetention(p, cert)
         \/ SubmitCertificate(p, cert)
         \/ ApproveCertificate(p, cert)
    \/ BeginTracking(p)
    \/ CertifyTracking(p)
    \/ \E v \in 1..MaxRows.variation, d \in {"approved", "rejected"} : DecideVariationOrder(p, v, d)
    \/ \E k \in 1..MaxRows.tracking : RecordCertificatePayment(p, k)
    \/ Abandon(p)

RevenueRoutes(p) ==
    \E c \in Rows(p, "contract"), recognized \in {0, Contracted} : RecognizeRevenue(p, c, recognized)

FileForContract(p) == \E kind \in CtmPapers \union BilPapers : File(p, kind)

-----------------------------------------------------------------------------
(* Properties *)

ContractsTypeOK ==
    /\ \A k \in DOMAIN db.amendment : db.amendment[k].status \in {"approved", "pending", "rejected"}
    /\ \A k \in DOMAIN db.certificate :
         db.certificate[k].status \in {"draft", "submitted", "client_approved", "rejected"}
    /\ \A k \in DOMAIN db.tracking : db.tracking[k].status \in {"submitted", "certified", "paid"}
    /\ \A j, k \in DOMAIN db.tracking : db.tracking[j].certificate = db.tracking[k].certificate => j = k

ApprovedDeltas(c, type) ==
    SumOf(db.amendment, "delta", {k \in DOMAIN db.amendment :
            /\ db.amendment[k].contract = c
            /\ db.amendment[k].type = type
            /\ db.amendment[k].status = "approved"})

\* A contract's value and completion date are those of the award plus every
\* approved amendment, each once, whether it took effect at once or on
\* finalization (record_amendment, finalize_amendment).  A contract that was
\* awarded without a date has none, whatever time was approved.
AmendmentsAddUp ==
    \A c \in DOMAIN db.contract :
        LET agreed == db.contract[c]
        IN /\ agreed.value = agreed.base + ApprovedDeltas(c, "price")
           /\ agreed.completion = IF agreed.original = Undated THEN Undated
                                  ELSE agreed.original + ApprovedDeltas(c, "time")

\* No more is billed than was varied on top of the most that anybody said was
\* contracted, over all certificates and any interleaving of drafts, rejections and
\* variation decisions (add_certificate_line, BIL-10).  Retention and recoupment stay within what was
\* agreed.  Holds while requests do not overlap.
BilledWithinContract ==
    /\ CumulativeBilled(db) <= Contracted + ApprovedVariation(db)
    /\ \A k \in DOMAIN db.retention : db.retention[k].withheld <= CapAmount
    /\ \A k \in DOMAIN db.advance : db.advance[k].recouped <= db.advance[k].amount
    /\ \A k \in DOMAIN db.certificate : db.certificate[k].gross = BilledOn(db, {k})
=============================================================================
