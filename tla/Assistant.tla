------------------------------ MODULE Assistant ------------------------------
(***************************************************************************)
(* The assistant (modules/ai): what was read out of a document by machine, *)
(* its review, and its way into an estimate.                               *)
(*                                                                         *)
(* Reading happens outside; a job begins with its outcome, whose           *)
(* confidence scores no handler looks at again.  Reports and the log of    *)
(* queries are filed.                                                      *)
(***************************************************************************)
EXTENDS Bidding

CONSTANT Extracted  \* quantity read out of a document, or put in its place

ASSUME AssistantAssumption == Extracted \subseteq Nat \ {0}

\* corrected is NULL (0) where the review left the quantity alone; record, 0 until
\* the job is committed, is the item it became.
AIDocumentExtractionJob(type, quantity) ==
    [status |-> "extracted", type |-> type, quantity |-> quantity, corrected |-> 0, record |-> 0]

AssistantTables == [extraction |-> <<>>]

AiPapers == {"generated_report", "query_log"}

ReviewExtraction(p, k, corrected) ==
    Amend(p, "extraction", k, LAMBDA j : j.status = "extracted",
          LAMBDA j : [j EXCEPT !.status = "reviewed", !.corrected = corrected])

RejectExtraction(p, k) == Turn(p, "extraction", k, {"extracted", "reviewed"}, "rejected")

\* Corrections override what was extracted.
Reviewed(job) == IF job.corrected = 0 THEN job.quantity ELSE job.corrected

\* The version may be any, a submitted one too.
CommitExtractionToBoq(p, k, v) ==
    LET s == Seen(p)
    IN /\ Serving(p) /\ Room("boq")
       /\ k \in DOMAIN s.extraction /\ v \in DOMAIN s.estimate
       /\ s.extraction[k].status = "reviewed"
       /\ s.extraction[k].type = "boq"
       /\ Commit(p, [s EXCEPT !.boq = Append(@, BOQItem(v, Reviewed(s.extraction[k]))),
                              !.extraction[k].status = "committed",
                              !.extraction[k].record = Len(s.boq) + 1])

AssistantRoutes(p) ==
    \/ \E type \in {"boq", "other"}, q \in Extracted :
         Create(p, "extraction", AIDocumentExtractionJob(type, q))
    \/ \E k \in 1..MaxRows.extraction :
         \/ \E c \in Extracted \union {0} : ReviewExtraction(p, k, c)
         \/ RejectExtraction(p, k)
         \/ \E v \in Rows(p, "estimate") : CommitExtractionToBoq(p, k, v)

FileForAssistant(p) == \E kind \in AiPapers : File(p, kind)

-----------------------------------------------------------------------------
(* Properties *)

AssistantTypeOK ==
    \A k \in DOMAIN db.extraction :
        db.extraction[k].status \in {"extracted", "reviewed", "rejected", "committed"}

\* Machine-read data gets into an estimate once per document and as reviewed: each
\* committed job has an item of its own that states the reviewed quantity, and no
\* other job has one (commit_extraction_to_boq).  Holds while requests do not
\* overlap.
CommittedAsReviewed ==
    LET committed == {k \in DOMAIN db.extraction : db.extraction[k].status = "committed"}
    IN /\ \A k \in DOMAIN db.extraction : db.extraction[k].record # 0 <=> k \in committed
       /\ \A k \in committed : db.boq[db.extraction[k].record].quantity = Reviewed(db.extraction[k])
       /\ \A j, k \in committed : j # k => db.extraction[j].record # db.extraction[k].record
=============================================================================
