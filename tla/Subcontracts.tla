---------------------------- MODULE Subcontracts ----------------------------
(***************************************************************************)
(* Subcontract agreements: measured work, payment certificates with their  *)
(* retention and back charges, claims (modules/sub).                       *)
(*                                                                         *)
(* A scope item is its agreement's rate.  Subcontractors, progress entries *)
(* and performance ratings are filed.                                      *)
(***************************************************************************)
EXTENDS Requests

CONSTANTS
    WorkRates,     \* rate of a scope item
    Measured,      \* quantity of a measurement sheet
    AgreedPcts,    \* retention_percentage of an agreement
    RetentionPcts  \* percentage of its retention row

ASSUME SubcontractsAssumption ==
    /\ WorkRates \subseteq Nat /\ Measured \subseteq Nat
    /\ AgreedPcts \subseteq 0..100 /\ RetentionPcts \subseteq 0..100

SubcontractAgreement(rate, pct) == [rate |-> rate, pct |-> pct]

MeasurementSheet(a, quantity) == [status |-> "draft", agreement |-> a, quantity |-> quantity]

PaymentCertificate(a, sheets, gross, withheld, charges) ==
    [agreement |-> a, sheets |-> sheets, gross |-> gross, retention |-> withheld,
     net |-> gross - withheld - charges]

\* deducted is the certificate that the charge was taken from.
BackCharge(a, amount) == [agreement |-> a, amount |-> amount, deducted |-> 0]

\* released counts the stages passed.  carried is what was certified before the
\* row was there to count it.
SubcontractRetention(a, pct, carried) ==
    [agreement |-> a, pct |-> pct, withheld |-> 0, released |-> 0, carried |-> carried]

SubcontractClaim(a) == [status |-> "submitted", agreement |-> a]

ComplianceDocument == [expired |-> FALSE]

SubcontractTables ==
    [agreement |-> <<>>, sheet |-> <<>>, subcert |-> <<>>, backcharge |-> <<>>,
     subretention |-> <<>>, subclaim |-> <<>>, compliance |-> <<>>]

SubPapers == {"subcontractor", "scope_item", "progress_entry", "performance_rating"}

CertifiedRetention(s, a) ==
    SumOf(s.subcert, "retention", {c \in DOMAIN s.subcert : s.subcert[c].agreement = a})

\* One row per agreement (uq), at any time.
SetRetention(p, a, pct) ==
    /\ a \in Rows(p, "agreement")
    /\ \A r \in DOMAIN db.subretention : db.subretention[r].agreement # a
    /\ Create(p, "subretention", SubcontractRetention(a, pct, CertifiedRetention(Seen(p), a)))

VerifyMeasurementSheet(p, k) == Turn(p, "sheet", k, {"draft"}, "verified")

\* valid_until goes by.
DocumentExpires(p, k) ==
    Amend(p, "compliance", k, LAMBDA d : ~ d.expired, LAMBDA d : [d EXCEPT !.expired = TRUE])

\* Sheets must be verified; that they are the agreement's own, or were certified
\* before, is not asked.
MayCertify(s, sheets, waiver) ==
    /\ sheets # {}
    /\ \A k \in sheets : s.sheet[k].status = "verified"
    /\ waiver \/ \A d \in DOMAIN s.compliance : ~ s.compliance[d].expired

\* Back charges deducted before are left out of the sum, not refused.
Outstanding(s, charges) == {b \in charges : s.backcharge[b].deducted = 0}

Total(s, charges) == SumOf(s.backcharge, "amount", charges)

RetentionOf(s, a) == {r \in DOMAIN s.subretention : s.subretention[r].agreement = a}

\* The row's percentage, once there is a row; before, the agreement's.
RetentionPct(s, a) ==
    IF RetentionOf(s, a) = {} THEN s.agreement[a].pct
    ELSE s.subretention[CHOOSE r \in RetentionOf(s, a) : TRUE].pct

WithRetention(s, a, withheld) ==
    [s EXCEPT !.subretention =
        [r \in DOMAIN @ |-> IF @[r].agreement = a THEN [s.subretention[r] EXCEPT !.withheld = @ + withheld]
                            ELSE @[r]]]

IssueSubcontractCertificate(p, a, sheets, charges, waiver) ==
    LET s == Seen(p)
        cert == Len(db.subcert) + 1
        gross == SumFunction([k \in sheets |-> s.sheet[k].quantity * s.agreement[s.sheet[k].agreement].rate])
        withheld == (gross * RetentionPct(s, a)) \div 100
        due == Outstanding(s, charges)
    IN /\ Serving(p) /\ Room("subcert")
       /\ a \in DOMAIN s.agreement
       /\ MayCertify(s, sheets, waiver)
       /\ Commit(p, WithRetention(
            [s EXCEPT
               !.subcert = Append(@, PaymentCertificate(a, sheets, gross, withheld, Total(s, due))),
               !.backcharge = [b \in DOMAIN @ |-> IF b \in due THEN [@[b] EXCEPT !.deducted = cert] ELSE @[b]]],
            a, withheld))

ReleaseSubcontractRetention(p, k, stage) ==
    Amend(p, "subretention", k, LAMBDA r : r.released = stage - 1, LAMBDA r : [r EXCEPT !.released = stage])

ReviewClaim(p, k, decision) == Turn(p, "subclaim", k, {"submitted", "under_review"}, decision)

AgreementRoutes(p) ==
    \/ \E rate \in WorkRates, pct \in AgreedPcts : Create(p, "agreement", SubcontractAgreement(rate, pct))
    \/ \E a \in Rows(p, "agreement") :
         \/ \E quantity \in Measured : Create(p, "sheet", MeasurementSheet(a, quantity))
         \/ Create(p, "backcharge", BackCharge(a, 1))
         \/ \E pct \in RetentionPcts : SetRetention(p, a, pct)
    \/ Create(p, "compliance", ComplianceDocument)

CertificationRoutes(p) ==
    \/ \E k \in 1..MaxRows.sheet : VerifyMeasurementSheet(p, k)
    \/ \E k \in 1..MaxRows.compliance : DocumentExpires(p, k)
    \/ \E a \in Rows(p, "agreement"), sheets \in SUBSET Rows(p, "sheet"),
          charges \in SUBSET Rows(p, "backcharge"), waiver \in BOOLEAN :
         IssueSubcontractCertificate(p, a, sheets, charges, waiver)

ClaimRoutes(p) ==
    \/ \E rate \in WorkRates, pct \in AgreedPcts : Create(p, "agreement", SubcontractAgreement(rate, pct))
    \/ \E a \in Rows(p, "agreement") :
         (\E pct \in RetentionPcts : SetRetention(p, a, pct)) \/ Create(p, "subclaim", SubcontractClaim(a))
    \/ \E k \in 1..MaxRows.subretention, stage \in 1..2 : ReleaseSubcontractRetention(p, k, stage)
    \/ \E k \in 1..MaxRows.subclaim, d \in {"approved", "rejected", "under_review"} : ReviewClaim(p, k, d)

SubcontractNext(p) == AgreementRoutes(p) \/ CertificationRoutes(p)

FileForSubcontract(p) == \E kind \in SubPapers : File(p, kind)

-----------------------------------------------------------------------------
(* Properties *)

SubcontractsTypeOK ==
    /\ \A k \in DOMAIN db.sheet : db.sheet[k].status \in {"draft", "verified"}
    /\ \A k \in DOMAIN db.subretention : db.subretention[k].released \in 0..2
    /\ \A c \in DOMAIN db.subcert : \A k \in db.subcert[c].sheets : db.sheet[k].status = "verified"

\* A back charge is deducted from one certificate, and the retention an agreement
\* holds is what its certificates withheld since the row was set
\* (issue_payment_certificate).  Holds while requests do not overlap.
SubcontractMoneyAddsUp ==
    /\ SumFunction([c \in DOMAIN db.subcert |-> db.subcert[c].gross - db.subcert[c].retention - db.subcert[c].net])
         = Total(db, {b \in DOMAIN db.backcharge : db.backcharge[b].deducted # 0})
    /\ \A r \in DOMAIN db.subretention :
         db.subretention[r].withheld + db.subretention[r].carried
            = CertifiedRetention(db, db.subretention[r].agreement)
=============================================================================
