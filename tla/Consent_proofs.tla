----------------------------- MODULE Consent_proofs -----------------------------
(***************************************************************************)
(* What is proved about sign-offs and consents: files, corrective actions, *)
(* reviewed extractions, field records; approvals, amendments, tender      *)
(* steps, decisions of clients; and about what the devices capture.  Each  *)
(* has an invariant over its own tables and one lemma per change that its  *)
(* handlers make to them.                                                  *)
(***************************************************************************)
EXTENDS Office_proofs

-----------------------------------------------------------------------------
(* Files that are attached *)

DocumentRows ==
    [status : {"pending", "uploaded", "failed", "deleted"}, owner : Organisations \cup {None},
     object : {"none", "fits", "oversize"}]

AttachmentRows == [org : Organisations, document : Nat]

\* An attached file is its organisation's and uploaded.
PaperRowsSound(documents, attachments) ==
    /\ documents \in Seq(DocumentRows)
    /\ attachments \in Seq(AttachmentRows)
    /\ \A k \in DOMAIN attachments :
         /\ attachments[k].document \in DOMAIN documents
         /\ documents[attachments[k].document].owner = attachments[k].org
         /\ documents[attachments[k].document].status = "uploaded"

\* A request that is about to stamp a file with its owner is alone with it: the file
\* is pending, so nobody has attached it yet.
StampSound ==
    /\ Alone
    /\ \A p \in Workers :
         /\ req[p].at = "stamp" => /\ req[p].todo[1] \in DOMAIN db["document"]
                                   /\ req[p].todo[2] \in Organisations
                                   /\ db["document"][req[p].todo[1]].status = "pending"
         /\ req[p].at = "discard" => req[p].todo[1] \in DOMAIN db["document"]

PapersSound ==
    /\ {"document", "attachment"} \subseteq DOMAIN db
    /\ PaperRowsSound(db["document"], db["attachment"])
    /\ part = "documents" => StampSound

\* The files' invariant implies the property.
LEMMA PapersSoundSays == ASSUME PapersSound PROVE AttachmentsKeepTheirDocument
  BY DEF PapersSound, PaperRowsSound, AttachmentsKeepTheirDocument

\* A step of another part keeps it.
LEMMA PapersLeftAlone ==
    ASSUME PapersSound, part' = part, part # "documents", NEW names, Keeps(names),
           names \cap {"document", "attachment"} = {}
    PROVE  PapersSound'
<1>1. /\ db'["document"] = db["document"] /\ db'["attachment"] = db["attachment"]
      /\ {"document", "attachment"} \subseteq DOMAIN db'
  BY DEF Keeps, PapersSound
<1>2. PaperRowsSound(db'["document"], db'["attachment"])
  BY <1>1 DEF PapersSound
<1>3. QED
  BY <1>1, <1>2 DEF PapersSound

\* A file is registered.
LEMMA PapersAfterDocument ==
    ASSUME NEW documents, NEW attachments, PaperRowsSound(documents, attachments), NEW row \in DocumentRows
    PROVE  PaperRowsSound(Append(documents, row), attachments)
<1>1. PICK new : new = Append(documents, row)
  OBVIOUS
<1>2. documents \in Seq(DocumentRows)
  BY DEF PaperRowsSound
<1>3. /\ new \in Seq(DocumentRows) /\ DOMAIN documents \subseteq DOMAIN new
      /\ \A k \in DOMAIN documents : new[k] = documents[k]
  BY <1>1, <1>2, TableInsert
<1>4. QED
  BY <1>1, <1>3 DEF PaperRowsSound

\* A file changes that nobody has attached, or one that stays whose and what it is.
LEMMA PapersAfterChange ==
    ASSUME NEW documents, NEW attachments, PaperRowsSound(documents, attachments),
           NEW d \in DOMAIN documents, NEW row \in DocumentRows,
           \/ \A k \in DOMAIN attachments : attachments[k].document # d
           \/ row.status = documents[d].status /\ row.owner = documents[d].owner
    PROVE  PaperRowsSound([documents EXCEPT ![d] = row], attachments)
<1>1. PICK new : new = [documents EXCEPT ![d] = row]
  OBVIOUS
<1>2. documents \in Seq(DocumentRows)
  BY DEF PaperRowsSound
<1>3. /\ new \in Seq(DocumentRows) /\ DOMAIN documents = DOMAIN new
      /\ new[d] = row /\ \A x \in DOMAIN documents \ {d} : new[x] = documents[x]
  BY <1>1, <1>2, TableUpdate
<1>4. QED
  BY <1>1, <1>3 DEF PaperRowsSound

\* An organisation attaches a file of its own.
LEMMA PapersAfterAttachment ==
    ASSUME NEW documents, NEW attachments, PaperRowsSound(documents, attachments),
           NEW row \in AttachmentRows, row.document \in DOMAIN documents,
           documents[row.document].owner = row.org, documents[row.document].status = "uploaded"
    PROVE  PaperRowsSound(documents, Append(attachments, row))
<1>1. PICK new : new = Append(attachments, row)
  OBVIOUS
<1>2. attachments \in Seq(AttachmentRows)
  BY DEF PaperRowsSound
<1>3. /\ new \in Seq(AttachmentRows) /\ DOMAIN new = DOMAIN attachments \cup {Len(attachments) + 1}
      /\ new[Len(attachments) + 1] = row /\ \A k \in DOMAIN attachments : new[k] = attachments[k]
  BY <1>1, <1>2, TableInsert
<1>4. QED
  BY <1>1, <1>3 DEF PaperRowsSound

\* A request that is over, or goes on with nothing: the invariant holds where the rows
\* are sound, if pending files stay pending or no request is left to stamp one.
LEMMA PapersSoundAgain ==
    ASSUME PapersSound, part = "documents", part' = part, NEW p \in Workers,
           req' = req \/ req' = [req EXCEPT ![p] = Idle],
           NEW documents, NEW attachments, PaperRowsSound(documents, attachments), DOMAIN db' = DOMAIN db,
           db'["document"] = documents, db'["attachment"] = attachments,
           DOMAIN db["document"] \subseteq DOMAIN documents,
           \/ \A q \in Workers : req[q] = Idle
           \/ req[p] # Idle /\ req' = [req EXCEPT ![p] = Idle]
           \/ \A d \in DOMAIN db["document"] : db["document"][d].status = "pending" => documents[d].status = "pending"
    PROVE  PapersSound'
<1>1. StampSound
  BY DEF PapersSound
<1>2. Alone
  BY <1>1 DEF StampSound
<1>3. Alone' /\ \A q \in Workers : req'[q] = req[q] \/ req'[q] = Idle
  BY <1>2, FinishedOrNot
<1>4. StampSound'
  <2>1. Idle.at = "idle"
    BY DEF Idle
  <2>2. CASE \A q \in Workers : req[q] = Idle
    BY <1>3, <2>1, <2>2 DEF StampSound
  <2>3. CASE req[p] # Idle /\ req' = [req EXCEPT ![p] = Idle]
    <3>1. \A q \in Workers : req'[q] = Idle
      BY <1>2, <2>3 DEF Alone
    <3>2. QED
      BY <1>3, <2>1, <3>1 DEF StampSound
  <2>4. CASE \A d \in DOMAIN db["document"] :
               db["document"][d].status = "pending" => documents[d].status = "pending"
    BY <1>1, <1>3, <2>1, <2>4 DEF StampSound
  <2>5. QED
    BY <2>2, <2>3, <2>4
<1>5. PaperRowsSound(db'["document"], db'["attachment"])
  BY ONLY PaperRowsSound(documents, attachments), db'["document"] = documents, db'["attachment"] = attachments
<1>6. {"document", "attachment"} \subseteq DOMAIN db'
  BY DEF PapersSound
<1>7. QED
  BY <1>4, <1>5, <1>6 DEF PapersSound

\* A request that goes on with one file.
LEMMA PapersGoOn ==
    ASSUME PapersSound, part = "documents", part' = part, NEW p \in Workers, \A q \in Workers : req[q] = Idle,
           NEW stage, NEW d, NEW todo, NEW r, r.at = stage, r.todo = todo, todo[1] = d,
           req' = [req EXCEPT ![p] = r],
           NEW documents, NEW attachments, PaperRowsSound(documents, attachments), DOMAIN db' = DOMAIN db,
           db'["document"] = documents, db'["attachment"] = attachments,
           d \in DOMAIN documents,
           \/ stage = "discard"
           \/ stage = "stamp" /\ documents[d].status = "pending" /\ todo[2] \in Organisations
    PROVE  PapersSound'
<1>1. Alone
  BY DEF PapersSound, StampSound
<1>2. Alone'
  BY <1>1, AloneStaysAlone
<1>3. Idle.at = "idle" /\ req'[p] = r /\ \A q \in Workers \ {p} : req'[q] = Idle
  BY <1>1 DEF Idle, Alone
<1>4. StampSound'
  BY <1>2, <1>3 DEF StampSound
<1>5. PaperRowsSound(db'["document"], db'["attachment"])
  BY ONLY PaperRowsSound(documents, attachments), db'["document"] = documents, db'["attachment"] = attachments
<1>6. {"document", "attachment"} \subseteq DOMAIN db'
  BY DEF PapersSound
<1>7. QED
  BY <1>4, <1>5, <1>6 DEF PapersSound

\* What a confirmation and a deletion write of a file that may be confirmed or deleted.
LEMMA PapersAfterVerdict ==
    ASSUME PapersSound, NEW documents, documents = db["document"], NEW attachments, attachments = db["attachment"],
           NEW d \in DOMAIN documents
    PROVE  /\ MayConfirm(db, d) =>
                /\ DOMAIN Confirmed(db, d) = DOMAIN db
                /\ Confirmed(db, d)["attachment"] = attachments
                /\ PaperRowsSound(Confirmed(db, d)["document"], attachments)
                /\ DOMAIN Confirmed(db, d)["document"] = DOMAIN documents
           /\ DOMAIN Deleted(db, d) = DOMAIN db
           /\ Deleted(db, d)["attachment"] = attachments
           /\ PaperRowsSound(Deleted(db, d)["document"], attachments)
           /\ DOMAIN Deleted(db, d)["document"] = DOMAIN documents
<1>1. PaperRowsSound(documents, attachments) /\ documents \in Seq(DocumentRows)
      /\ {"document", "attachment"} \subseteq DOMAIN db
  BY DEF PapersSound, PaperRowsSound
<1>2. documents[d] \in DocumentRows
  BY <1>1, TableRows
<1>3. ASSUME MayConfirm(db, d)
      PROVE  /\ DOMAIN Confirmed(db, d) = DOMAIN db
             /\ Confirmed(db, d)["attachment"] = attachments
             /\ PaperRowsSound(Confirmed(db, d)["document"], attachments)
             /\ DOMAIN Confirmed(db, d)["document"] = DOMAIN documents
  <2>1. PICK status : status = IF db.document[d].object = "none" THEN "failed" ELSE "uploaded"
    OBVIOUS
  <2>2. PICK row : row = [documents[d] EXCEPT !.status = status]
    OBVIOUS
  <2>3. row \in DocumentRows
    BY <1>2, <2>1, <2>2 DEF DocumentRows
  <2>4. documents[d].status \in {"pending", "failed"}
    BY <1>3 DEF MayConfirm
  <2>5. \A k \in DOMAIN attachments : attachments[k].document # d
    BY <1>1, <2>4 DEF PaperRowsSound
  <2>6. PaperRowsSound([documents EXCEPT ![d] = row], attachments)
    BY <1>1, <2>3, <2>5, PapersAfterChange
  <2>7. Confirmed(db, d) = [db EXCEPT !["document"] = [documents EXCEPT ![d] = row]]
    BY <1>1, <2>1, <2>2 DEF Confirmed
  <2>8. QED
    BY ONLY <1>1, <2>6, <2>7, attachments = db["attachment"]
<1>4. /\ DOMAIN Deleted(db, d) = DOMAIN db
      /\ Deleted(db, d)["attachment"] = attachments
      /\ PaperRowsSound(Deleted(db, d)["document"], attachments)
      /\ DOMAIN Deleted(db, d)["document"] = DOMAIN documents
  <2>1. PICK row : row = IF Attached(db, d) THEN [documents[d] EXCEPT !.object = "none"]
                         ELSE [documents[d] EXCEPT !.status = "deleted", !.object = "none"]
    OBVIOUS
  <2>2. row \in DocumentRows
    BY <1>2, <2>1 DEF DocumentRows
  <2>3. \/ \A k \in DOMAIN attachments : attachments[k].document # d
        \/ row.status = documents[d].status /\ row.owner = documents[d].owner
    BY <1>2, <2>1 DEF Attached, DocumentRows
  <2>4. PaperRowsSound([documents EXCEPT ![d] = row], attachments)
    BY <1>1, <2>2, <2>3, PapersAfterChange
  <2>5. Deleted(db, d) = [db EXCEPT !["document"] = [documents EXCEPT ![d] = row]]
    BY <1>1, <2>1 DEF Deleted
  <2>6. QED
    BY ONLY <1>1, <2>4, <2>5, attachments = db["attachment"]
<1>5. QED
  BY <1>3, <1>4

\* Every handler of documents keeps it, and so does what browsers send to S3.
LEMMA PapersStaySound ==
    ASSUME ~ Concurrent, PapersSound, part = "documents", part' = part, NEW p \in Workers, DocumentNext(p)
    PROVE  PapersSound'
<1>1. PICK documents, attachments : documents = db["document"] /\ attachments = db["attachment"]
  OBVIOUS
<1>2. /\ {"document", "attachment"} \subseteq DOMAIN db /\ PaperRowsSound(documents, attachments)
      /\ documents \in Seq(DocumentRows) /\ attachments \in Seq(AttachmentRows) /\ StampSound
  BY <1>1 DEF PapersSound, PaperRowsSound
<1>3. Serving(p) => \A q \in Workers : req[q] = Idle
  BY SerialRows
<1>4. CASE CreateUploadRequest(p)
  <2>1. Document(None) \in DocumentRows
    BY DEF Document, DocumentRows
  <2>2. PaperRowsSound(Append(documents, Document(None)), attachments)
    BY <1>2, <2>1, PapersAfterDocument
  <2>3. Create(p, "document", Document(None)) /\ Serving(p)
    BY <1>4 DEF CreateUploadRequest, Create
  <2>4. DOMAIN db' = DOMAIN db /\ db'["document"] = Append(documents, Document(None)) /\ db'["attachment"] = attachments
    BY <1>1, <1>2, <2>3, RowCreated
  <2>5. req' = req \/ req' = [req EXCEPT ![p] = Idle]
    BY <2>3, CreateTouches DEF Touches
  <2>6. DOMAIN documents \subseteq DOMAIN Append(documents, Document(None))
    BY <1>2, <2>1, TableInsert
  <2>7. QED
    BY <1>1, <1>3, <2>2, <2>3, <2>4, <2>5, <2>6, PapersSoundAgain
<1>5. ASSUME NEW org \in Organisations, CreatePortalUpload(p, org) PROVE PapersSound'
  <2>1. PICK new : new = Append(documents, Document(None))
    OBVIOUS
  <2>2. Document(None) \in DocumentRows
    BY DEF Document, DocumentRows
  <2>3. PaperRowsSound(new, attachments)
    BY <1>2, <2>1, <2>2, PapersAfterDocument
  <2>4. /\ db' = [db EXCEPT !["document"] = new] /\ Serving(p)
        /\ req' = [req EXCEPT ![p] = [at |-> "stamp", todo |-> <<Len(documents) + 1, org>>,
                                      seen |-> IF Concurrent THEN db' ELSE <<>>]]
    BY <1>1, <1>2, <1>5, <2>1, SerialRows DEF CreatePortalUpload, CommitThen, Insert, GoOn
  <2>5. DOMAIN db' = DOMAIN db /\ db'["document"] = new /\ db'["attachment"] = attachments
    BY ONLY <1>1, <1>2, <2>4
  <2>6. Len(documents) + 1 \in DOMAIN new /\ new[Len(documents) + 1].status = "pending"
    BY <1>2, <2>1, <2>2, TableInsert DEF Document
  <2>7. PICK r : r = [at |-> "stamp", todo |-> <<Len(documents) + 1, org>>,
                      seen |-> IF Concurrent THEN db' ELSE <<>>]
    OBVIOUS
  <2>8. r.at = "stamp" /\ r.todo = <<Len(documents) + 1, org>> /\ req' = [req EXCEPT ![p] = r]
    BY <2>4, <2>7
  <2>9. PICK d, todo : d = Len(documents) + 1 /\ todo = <<d, org>>
    OBVIOUS
  <2>10. r.at = "stamp" /\ r.todo = todo /\ todo[1] = d /\ todo[2] = org
         /\ d \in DOMAIN new /\ new[d].status = "pending"
    BY <2>6, <2>8, <2>9
  <2>11. /\ \A q \in Workers : req[q] = Idle
         /\ "stamp" = "stamp" /\ new[d].status = "pending" /\ todo[2] \in Organisations
    BY <1>3, <2>4, <2>10
  <2>12. PapersSound /\ part = "documents" /\ part' = part /\ p \in Workers
    OBVIOUS
  <2>13. QED
    BY ONLY <2>3, <2>5, <2>8, <2>10, <2>11, <2>12, PapersGoOn
<1>6. CASE StampOwner(p)
  <2>1. PICK d, org : d = req[p].todo[1] /\ org = req[p].todo[2]
    OBVIOUS
  <2>2. req[p].at = "stamp" /\ d \in DOMAIN documents /\ org \in Organisations /\ documents[d].status = "pending"
    BY <1>1, <1>2, <1>6, <2>1 DEF StampOwner, Resuming, StampSound
  <2>3. PICK row : row = [documents[d] EXCEPT !.owner = org]
    OBVIOUS
  <2>4. documents[d] \in DocumentRows
    BY <1>2, <2>2, TableRows
  <2>5. row \in DocumentRows
    BY <2>2, <2>3, <2>4 DEF DocumentRows
  <2>6. \A k \in DOMAIN attachments : attachments[k].document # d
    BY <1>2, <2>2 DEF PaperRowsSound
  <2>7. PaperRowsSound([documents EXCEPT ![d] = row], attachments)
    BY <1>2, <2>2, <2>5, <2>6, PapersAfterChange
  <2>8. db' = [db EXCEPT !["document"] = [documents EXCEPT ![d] = row]] /\ req' = [req EXCEPT ![p] = Idle]
    BY <1>1, <1>2, <1>6, <2>1, <2>3, SerialRows DEF StampOwner, Commit, Finish
  <2>9. DOMAIN db' = DOMAIN db /\ db'["document"] = [documents EXCEPT ![d] = row] /\ db'["attachment"] = attachments
    BY ONLY <1>1, <1>2, <2>8
  <2>10. req[p] # Idle
    BY <2>2 DEF Idle
  <2>11. DOMAIN documents = DOMAIN [documents EXCEPT ![d] = row]
    OBVIOUS
  <2>12. QED
    BY <1>1, <2>7, <2>8, <2>9, <2>10, <2>11, PapersSoundAgain
<1>7. ASSUME NEW d, NEW size \in {"fits", "oversize"}, ObjectArrives(d, size) PROVE PapersSound'
  <2>1. PICK row : row = [documents[d] EXCEPT !.object = size]
    OBVIOUS
  <2>2. d \in DOMAIN documents
    BY <1>1, <1>7 DEF ObjectArrives
  <2>3. documents[d] \in DocumentRows
    BY <1>2, <2>2, TableRows
  <2>4. row \in DocumentRows /\ row.status = documents[d].status /\ row.owner = documents[d].owner
    BY <2>1, <2>3 DEF DocumentRows
  <2>5. PaperRowsSound([documents EXCEPT ![d] = row], attachments)
    BY <1>2, <2>2, <2>4, PapersAfterChange
  <2>6. db' = [db EXCEPT !["document"] = [documents EXCEPT ![d] = row]] /\ req' = req
    BY <1>1, <1>2, <1>7, <2>1 DEF ObjectArrives
  <2>7. DOMAIN db' = DOMAIN db /\ db'["document"] = [documents EXCEPT ![d] = row] /\ db'["attachment"] = attachments
    BY ONLY <1>1, <1>2, <2>6
  <2>8. /\ DOMAIN documents = DOMAIN [documents EXCEPT ![d] = row]
        /\ \A x \in DOMAIN documents : documents[x].status = "pending" => [documents EXCEPT ![d] = row][x].status = "pending"
    BY <2>4
  <2>9. QED
    BY <1>1, <2>5, <2>6, <2>7, <2>8, PapersSoundAgain
<1>8. ASSUME NEW d, NEW new, /\ Serving(p) \/ req[p] # Idle
                             /\ d \in DOMAIN documents /\ Commit(p, new)
                             /\ new = Deleted(db, d) \/ (MayConfirm(db, d) /\ new = Confirmed(db, d))
      PROVE  PapersSound'
  <2>1. db' = new /\ req' = [req EXCEPT ![p] = Idle]
    BY <1>8, SerialRows DEF Commit, Finish
  <2>2. /\ DOMAIN new = DOMAIN db /\ new["attachment"] = attachments /\ PaperRowsSound(new["document"], attachments)
        /\ DOMAIN new["document"] = DOMAIN documents
    BY <1>1, <1>8, PapersAfterVerdict
  <2>3. QED
    BY <1>1, <1>3, <1>8, <2>1, <2>2, PapersSoundAgain
<1>9. ASSUME NEW d, ConfirmUpload(p, d) \/ DeleteDocument(p, d) PROVE PapersSound'
  <2>1. Seen(p) = db
    BY SerialRows
  <2>2. Serving(p) /\ d \in DOMAIN documents
        /\ (Commit(p, Deleted(db, d)) \/ (MayConfirm(db, d) /\ Commit(p, Confirmed(db, d))))
    BY <1>1, <1>9, <2>1 DEF ConfirmUpload, DeleteDocument, MayConfirm, Rows
  <2>3. CASE Commit(p, Deleted(db, d))
    <3>1. PICK new : new = Deleted(db, d)
      OBVIOUS
    <3>2. Commit(p, new)
      BY <2>3, <3>1
    <3>3. QED
      BY ONLY <1>8, <2>2, <3>1, <3>2
  <2>4. CASE MayConfirm(db, d) /\ Commit(p, Confirmed(db, d))
    <3>1. PICK new : new = Confirmed(db, d)
      OBVIOUS
    <3>2. Commit(p, new)
      BY <2>4, <3>1
    <3>3. QED
      BY ONLY <1>8, <2>2, <2>4, <3>1, <3>2
  <2>5. QED
    BY <2>2, <2>3, <2>4
<1>10. CASE DiscardOversize(p)
  <2>1. PICK d : d = req[p].todo[1]
    OBVIOUS
  <2>2. d \in DOMAIN documents /\ req[p] # Idle /\ Commit(p, Deleted(db, d))
    BY <1>1, <1>2, <1>10, <2>1, SerialRows DEF DiscardOversize, Resuming, StampSound, Idle
  <2>3. PICK new : new = Deleted(db, d)
    OBVIOUS
  <2>4. Commit(p, new)
    BY <2>2, <2>3
  <2>5. QED
    BY ONLY <1>8, <2>2, <2>3, <2>4
<1>11. ASSUME NEW d, ConfirmPortalUpload(p, d) PROVE PapersSound'
  <2>1. Seen(p) = db
    BY SerialRows
  <2>2. /\ Serving(p) /\ d \in DOMAIN documents /\ MayConfirm(db, d)
        /\ Commit(p, Confirmed(db, d)) \/ CommitThen(p, Confirmed(db, d), "discard", <<d>>)
    BY <1>1, <1>11, <2>1 DEF ConfirmPortalUpload, MayConfirm
  <2>3. CASE CommitThen(p, Confirmed(db, d), "discard", <<d>>)
    <3>1. PICK new, todo : new = Confirmed(db, d) /\ todo = <<d>>
      OBVIOUS
    <3>2. PICK r : r = [at |-> "discard", todo |-> todo, seen |-> IF Concurrent THEN db' ELSE <<>>]
      OBVIOUS
    <3>3. db' = new /\ req' = [req EXCEPT ![p] = r]
      BY <2>3, <3>1, <3>2, SerialRows DEF CommitThen, GoOn
    <3>4. /\ DOMAIN new = DOMAIN db /\ new["attachment"] = attachments
          /\ PaperRowsSound(new["document"], attachments) /\ DOMAIN new["document"] = DOMAIN documents
      BY <1>1, <2>2, <3>1, PapersAfterVerdict
    <3>5. r.at = "discard" /\ r.todo = todo /\ todo[1] = d
      BY <3>1, <3>2
    <3>6. QED
      BY <1>1, <1>3, <2>2, <3>3, <3>4, <3>5, PapersGoOn
  <2>4. QED
    BY <1>8, <2>2, <2>3
<1>12. ASSUME NEW org \in Organisations, NEW d, Attach(p, org, d) PROVE PapersSound'
  <2>1. PICK row : row = Attachment(org, d)
    OBVIOUS
  <2>2. /\ d \in DOMAIN documents /\ documents[d].owner = org /\ documents[d].status = "uploaded"
        /\ Create(p, "attachment", row) /\ Serving(p)
    BY <1>1, <1>12, <2>1, SerialRows DEF Attach, Rows, MayAttach, Create
  <2>3. d \in Nat
    BY <1>2, <2>2, TableRows
  <2>4. row \in AttachmentRows /\ row.document = d /\ row.org = org
    BY <2>1, <2>3 DEF Attachment, AttachmentRows
  <2>5. PaperRowsSound(documents, Append(attachments, row))
    BY <1>2, <2>2, <2>4, PapersAfterAttachment
  <2>6. DOMAIN db' = DOMAIN db /\ db'["attachment"] = Append(attachments, row) /\ db'["document"] = documents
    BY <1>1, <1>2, <2>2, RowCreated
  <2>7. req' = req \/ req' = [req EXCEPT ![p] = Idle]
    BY <2>2, CreateTouches DEF Touches
  <2>8. QED
    BY <1>1, <1>3, <2>2, <2>5, <2>6, <2>7, PapersSoundAgain
<1>13. CASE Abandon(p)
  <2>1. req[p] # Idle /\ req' = [req EXCEPT ![p] = Idle] /\ db' = db
    BY <1>13 DEF Abandon
  <2>2. QED
    BY <1>1, <1>2, <2>1, PapersSoundAgain
<1>14. ASSUME NEW d, DeleteOwned(p, d) PROVE PapersSound'
  BY <1>9, <1>14 DEF DeleteOwned
<1>15. QED
  BY <1>4, <1>5, <1>6, <1>7, <1>9, <1>10, <1>11, <1>12, <1>13, <1>14 DEF DocumentNext, DocumentRoutes

-----------------------------------------------------------------------------
(* What went wrong and what was done about it *)

ReportRows == [status : {"open", "closed"}, disposition : {None, "rework"}]

ActionRows == [status : {"open", "completed", "verified"}, ncr : Nat]

IncidentRows == [status : {"open", "closed"}, action : Nat]

\* A closed report has a verified action, a closed incident a verified one of its own.
CorrectiveRowsSound(reports, actions, incidents) ==
    /\ reports \in Seq(ReportRows)
    /\ actions \in Seq(ActionRows)
    /\ incidents \in Seq(IncidentRows)
    /\ \A k \in DOMAIN reports :
         reports[k].status = "closed" =>
            \E a \in DOMAIN actions : actions[a].ncr = k /\ actions[a].status = "verified"
    /\ \A k \in DOMAIN incidents :
         /\ incidents[k].action \in DOMAIN actions
         /\ incidents[k].status = "closed" => actions[incidents[k].action].status = "verified"

CorrectiveSound ==
    /\ {"ncr", "action", "incident"} \subseteq DOMAIN db
    /\ CorrectiveRowsSound(db["ncr"], db["action"], db["incident"])

\* The invariant implies the property.
LEMMA CorrectiveSoundSays == ASSUME CorrectiveSound PROVE ClosedWhenVerified
  BY DEF CorrectiveSound, CorrectiveRowsSound, ClosedWhenVerified, ActionsOf

\* Where the three tables are sound after a step, it holds again.
LEMMA CorrectiveSoundAgain ==
    ASSUME CorrectiveSound, NEW reports, NEW actions, NEW incidents,
           CorrectiveRowsSound(reports, actions, incidents), DOMAIN db' = DOMAIN db,
           db'["ncr"] = reports, db'["action"] = actions, db'["incident"] = incidents
    PROVE  CorrectiveSound'
<1>1. CorrectiveRowsSound(db'["ncr"], db'["action"], db'["incident"])
  BY ONLY CorrectiveRowsSound(reports, actions, incidents), db'["ncr"] = reports, db'["action"] = actions,
     db'["incident"] = incidents
<1>2. QED
  BY <1>1 DEF CorrectiveSound

\* A step that writes none of them keeps it.
LEMMA CorrectiveLeftAlone ==
    ASSUME CorrectiveSound, NEW names, Keeps(names), names \cap {"ncr", "action", "incident"} = {}
    PROVE  CorrectiveSound'
<1>1. db'["ncr"] = db["ncr"] /\ db'["action"] = db["action"] /\ db'["incident"] = db["incident"] /\ DOMAIN db' = DOMAIN db
  BY DEF Keeps, CorrectiveSound
<1>2. QED
  BY <1>1, CorrectiveSoundAgain DEF CorrectiveSound

\* A report is made.
LEMMA CorrectiveAfterReport ==
    ASSUME NEW reports, NEW actions, NEW incidents, CorrectiveRowsSound(reports, actions, incidents),
           NEW row \in ReportRows, row.status = "open"
    PROVE  CorrectiveRowsSound(Append(reports, row), actions, incidents)
<1>1. PICK new : new = Append(reports, row)
  OBVIOUS
<1>2. /\ new \in Seq(ReportRows) /\ DOMAIN new = DOMAIN reports \cup {Len(reports) + 1}
      /\ new[Len(reports) + 1] = row /\ \A k \in DOMAIN reports : new[k] = reports[k]
  BY <1>1, TableInsert DEF CorrectiveRowsSound
<1>3. QED
  BY <1>1, <1>2 DEF CorrectiveRowsSound

\* A report is disposed of, or closed once an action of its is verified.
LEMMA CorrectiveAfterReportChanges ==
    ASSUME NEW reports, NEW actions, NEW incidents, CorrectiveRowsSound(reports, actions, incidents),
           NEW k \in DOMAIN reports, NEW row \in ReportRows,
           \/ row.status = reports[k].status
           \/ \E a \in DOMAIN actions : actions[a].ncr = k /\ actions[a].status = "verified"
    PROVE  CorrectiveRowsSound([reports EXCEPT ![k] = row], actions, incidents)
<1>1. PICK new : new = [reports EXCEPT ![k] = row]
  OBVIOUS
<1>2. /\ new \in Seq(ReportRows) /\ DOMAIN new = DOMAIN reports
      /\ new[k] = row /\ \A x \in DOMAIN reports \ {k} : new[x] = reports[x]
  BY <1>1, TableUpdate DEF CorrectiveRowsSound
<1>3. QED
  BY <1>1, <1>2 DEF CorrectiveRowsSound

\* An action is asked for.
LEMMA CorrectiveAfterAction ==
    ASSUME NEW reports, NEW actions, NEW incidents, CorrectiveRowsSound(reports, actions, incidents),
           NEW row \in ActionRows
    PROVE  CorrectiveRowsSound(reports, Append(actions, row), incidents)
<1>1. PICK new : new = Append(actions, row)
  OBVIOUS
<1>2. /\ new \in Seq(ActionRows) /\ DOMAIN actions \subseteq DOMAIN new
      /\ \A k \in DOMAIN actions : new[k] = actions[k]
  BY <1>1, TableInsert DEF CorrectiveRowsSound
<1>3. QED
  BY <1>1, <1>2 DEF CorrectiveRowsSound

\* An action that is not verified yet gets on.
LEMMA CorrectiveAfterActionChanges ==
    ASSUME NEW reports, NEW actions, NEW incidents, CorrectiveRowsSound(reports, actions, incidents),
           NEW a \in DOMAIN actions, actions[a].status # "verified", NEW row \in ActionRows
    PROVE  CorrectiveRowsSound(reports, [actions EXCEPT ![a] = row], incidents)
<1>1. PICK new : new = [actions EXCEPT ![a] = row]
  OBVIOUS
<1>2. /\ new \in Seq(ActionRows) /\ DOMAIN new = DOMAIN actions
      /\ \A x \in DOMAIN actions \ {a} : new[x] = actions[x]
  BY <1>1, TableUpdate DEF CorrectiveRowsSound
<1>3. \A x \in DOMAIN actions : actions[x].status = "verified" => new[x] = actions[x]
  BY <1>2
<1>4. QED
  BY <1>1, <1>2, <1>3 DEF CorrectiveRowsSound

\* An incident is recorded with the action it calls for.
LEMMA CorrectiveAfterIncident ==
    ASSUME NEW reports, NEW actions, NEW incidents, CorrectiveRowsSound(reports, actions, incidents),
           NEW action \in ActionRows, NEW row \in IncidentRows, row.status = "open", row.action = Len(actions) + 1
    PROVE  CorrectiveRowsSound(reports, Append(actions, action), Append(incidents, row))
<1>1. PICK acts, new : acts = Append(actions, action) /\ new = Append(incidents, row)
  OBVIOUS
<1>2. CorrectiveRowsSound(reports, acts, incidents)
  BY <1>1, CorrectiveAfterAction
<1>3. Len(actions) + 1 \in DOMAIN acts
  BY <1>1, TableInsert DEF CorrectiveRowsSound
<1>4. /\ new \in Seq(IncidentRows) /\ DOMAIN new = DOMAIN incidents \cup {Len(incidents) + 1}
      /\ new[Len(incidents) + 1] = row /\ \A k \in DOMAIN incidents : new[k] = incidents[k]
  BY <1>1, TableInsert DEF CorrectiveRowsSound
<1>5. CorrectiveRowsSound(reports, acts, new)
  BY ONLY <1>2, <1>3, <1>4, row.status = "open", row.action = Len(actions) + 1 DEF CorrectiveRowsSound
<1>6. QED
  BY <1>1, <1>5

\* An incident is closed whose action is verified.
LEMMA CorrectiveAfterClosing ==
    ASSUME NEW reports, NEW actions, NEW incidents, CorrectiveRowsSound(reports, actions, incidents),
           NEW k \in DOMAIN incidents, actions[incidents[k].action].status = "verified",
           NEW row, row = [incidents[k] EXCEPT !.status = "closed"]
    PROVE  CorrectiveRowsSound(reports, actions, [incidents EXCEPT ![k] = row])
<1>1. PICK new : new = [incidents EXCEPT ![k] = row]
  OBVIOUS
<1>2. incidents[k] \in IncidentRows
  BY TableRows DEF CorrectiveRowsSound
<1>3. row \in IncidentRows /\ row.action = incidents[k].action
  BY <1>2 DEF IncidentRows
<1>4. /\ new \in Seq(IncidentRows) /\ DOMAIN new = DOMAIN incidents
      /\ new[k] = row /\ \A x \in DOMAIN incidents \ {k} : new[x] = incidents[x]
  BY <1>1, <1>3, TableUpdate DEF CorrectiveRowsSound
<1>5. QED
  BY <1>1, <1>3, <1>4 DEF CorrectiveRowsSound

\* Every route about them keeps it.
LEMMA CorrectiveStaysSound ==
    ASSUME ~ Concurrent, CorrectiveSound, NEW p, CorrectiveNext(p)
    PROVE  CorrectiveSound'
<1>1. PICK reports, actions, incidents :
         reports = db["ncr"] /\ actions = db["action"] /\ incidents = db["incident"]
  OBVIOUS
<1>2. /\ {"ncr", "action", "incident"} \subseteq DOMAIN db /\ CorrectiveRowsSound(reports, actions, incidents)
      /\ reports \in Seq(ReportRows) /\ actions \in Seq(ActionRows) /\ incidents \in Seq(IncidentRows)
  BY <1>1 DEF CorrectiveSound, CorrectiveRowsSound
<1>3. Seen(p) = db
  BY SerialRows
<1>4. CASE Create(p, "ncr", NCR)
  <2>1. CorrectiveRowsSound(Append(reports, NCR), actions, incidents)
    BY <1>2, CorrectiveAfterReport DEF NCR, ReportRows
  <2>2. /\ DOMAIN db' = DOMAIN db /\ db'["ncr"] = Append(reports, NCR)
        /\ db'["action"] = actions /\ db'["incident"] = incidents
    BY <1>1, <1>2, <1>4, RowCreated
  <2>3. QED
    BY <2>1, <2>2, CorrectiveSoundAgain
<1>5. ASSUME NEW k \in {0} \cup Rows(p, "ncr"), Create(p, "action", CorrectiveAction(k)) PROVE CorrectiveSound'
  <2>1. k \in Nat
    BY <1>1, <1>2, <1>3, <1>5, TableRows DEF Rows
  <2>2. CorrectiveRowsSound(reports, Append(actions, CorrectiveAction(k)), incidents)
    BY <1>2, <2>1, CorrectiveAfterAction DEF CorrectiveAction, ActionRows
  <2>3. /\ DOMAIN db' = DOMAIN db /\ db'["action"] = Append(actions, CorrectiveAction(k))
        /\ db'["ncr"] = reports /\ db'["incident"] = incidents
    BY <1>1, <1>2, <1>5, RowCreated
  <2>4. QED
    BY <2>2, <2>3, CorrectiveSoundAgain
<1>6. ASSUME NEW k, SetDisposition(p, k, "rework") PROVE CorrectiveSound'
  <2>1. PICK row : row = [reports[k] EXCEPT !.disposition = "rework"]
    OBVIOUS
  <2>2. k \in DOMAIN reports /\ db' = [db EXCEPT !["ncr"] = [reports EXCEPT ![k] = row]]
    BY <1>1, <1>6, <2>1, SerialRows DEF SetDisposition, Amend, Rows, Commit
  <2>3. reports[k] \in ReportRows
    BY <1>2, <2>2, TableRows
  <2>4. row \in ReportRows /\ row.status = reports[k].status
    BY <2>1, <2>3 DEF ReportRows
  <2>5. CorrectiveRowsSound([reports EXCEPT ![k] = row], actions, incidents)
    BY <1>2, <2>2, <2>4, CorrectiveAfterReportChanges
  <2>6. /\ DOMAIN db' = DOMAIN db /\ db'["ncr"] = [reports EXCEPT ![k] = row]
        /\ db'["action"] = actions /\ db'["incident"] = incidents
    BY ONLY <1>1, <1>2, <2>2
  <2>7. QED
    BY <2>5, <2>6, CorrectiveSoundAgain
<1>7. ASSUME NEW k, CloseNcr(p, k) PROVE CorrectiveSound'
  <2>1. PICK row : row = [reports[k] EXCEPT !.status = "closed"]
    OBVIOUS
  <2>2. Turn(p, "ncr", k, {"open"}, "closed") /\ MayCloseNcr(db, k)
    BY <1>3, <1>7 DEF CloseNcr
  <2>3. /\ DOMAIN db' = DOMAIN db
        /\ db'["ncr"] = [db["ncr"] EXCEPT ![k] = [db["ncr"][k] EXCEPT !.status = "closed"]]
        /\ \A u \in DOMAIN db \ {"ncr"} : db'[u] = db[u]
        /\ k \in DOMAIN db["ncr"] /\ db["ncr"][k].status \in {"open"}
    BY <1>2, <2>2, StatusTurned
  <2>4. /\ DOMAIN db' = DOMAIN db /\ db'["ncr"] = [reports EXCEPT ![k] = row]
        /\ db'["action"] = actions /\ db'["incident"] = incidents /\ k \in DOMAIN reports
    BY ONLY <1>1, <1>2, <2>3, <2>1
  <2>5. reports[k] \in ReportRows
    BY <1>2, <2>4, TableRows
  <2>6. row \in ReportRows
    BY <1>1, <2>1, <2>5 DEF ReportRows
  <2>7. \E a \in DOMAIN actions : actions[a].ncr = k /\ actions[a].status = "verified"
    BY <1>1, <2>2 DEF MayCloseNcr, ActionsOf
  <2>8. CorrectiveRowsSound([reports EXCEPT ![k] = row], actions, incidents)
    BY <1>2, <2>4, <2>6, <2>7, CorrectiveAfterReportChanges
  <2>9. QED
    BY <2>4, <2>8, CorrectiveSoundAgain
<1>8. ASSUME NEW a, CompleteCorrectiveAction(p, a) \/ VerifyCorrectiveAction(p, a) PROVE CorrectiveSound'
  <2>1. PICK from, to : /\ Turn(p, "action", a, from, to) /\ "verified" \notin from
                        /\ to \in {"completed", "verified"}
    BY <1>8 DEF CompleteCorrectiveAction, VerifyCorrectiveAction
  <2>2. PICK row : row = [actions[a] EXCEPT !.status = to]
    OBVIOUS
  <2>3. /\ DOMAIN db' = DOMAIN db
        /\ db'["action"] = [db["action"] EXCEPT ![a] = [db["action"][a] EXCEPT !.status = to]]
        /\ \A u \in DOMAIN db \ {"action"} : db'[u] = db[u]
        /\ a \in DOMAIN db["action"] /\ db["action"][a].status \in from
    BY <1>2, <2>1, StatusTurned
  <2>4. /\ DOMAIN db' = DOMAIN db /\ db'["action"] = [actions EXCEPT ![a] = row]
        /\ db'["ncr"] = reports /\ db'["incident"] = incidents
        /\ a \in DOMAIN actions /\ actions[a].status \in from
    BY ONLY <1>1, <1>2, <2>3, <2>2
  <2>5. actions[a] \in ActionRows
    BY <1>2, <2>4, TableRows
  <2>6. row \in ActionRows
    BY <1>1, <2>1, <2>2, <2>5 DEF ActionRows
  <2>7. CorrectiveRowsSound(reports, [actions EXCEPT ![a] = row], incidents)
    BY <1>2, <2>1, <2>4, <2>6, CorrectiveAfterActionChanges
  <2>8. QED
    BY <2>4, <2>7, CorrectiveSoundAgain
<1>9. CASE RecordIncident(p)
  <2>1. PICK row, action : row = Incident(Len(actions) + 1) /\ action = CorrectiveAction(0)
    OBVIOUS
  <2>2. Len(actions) \in Nat
    BY <1>2, TableRows
  <2>3. action \in ActionRows /\ row \in IncidentRows /\ row.status = "open" /\ row.action = Len(actions) + 1
    BY <2>1, <2>2 DEF Incident, IncidentRows, CorrectiveAction, ActionRows
  <2>4. CorrectiveRowsSound(reports, Append(actions, action), Append(incidents, row))
    BY <1>2, <2>3, CorrectiveAfterIncident
  <2>5. db' = [db EXCEPT !["action"] = Append(actions, action), !["incident"] = Append(incidents, row)]
    BY <1>1, <1>9, <2>1, SerialRows DEF RecordIncident, Commit
  <2>6. /\ DOMAIN db' = DOMAIN db /\ db'["action"] = Append(actions, action)
        /\ db'["incident"] = Append(incidents, row) /\ db'["ncr"] = reports
    BY ONLY <1>1, <1>2, <2>5
  <2>7. QED
    BY <2>4, <2>6, CorrectiveSoundAgain
<1>10. ASSUME NEW k, CloseIncident(p, k) PROVE CorrectiveSound'
  <2>1. PICK row : row = [incidents[k] EXCEPT !.status = "closed"]
    OBVIOUS
  <2>2. /\ Turn(p, "incident", k, {"open"}, "closed")
        /\ actions[incidents[k].action].status = "verified"
    BY <1>1, <1>3, <1>10 DEF CloseIncident, Row
  <2>3. /\ DOMAIN db' = DOMAIN db
        /\ db'["incident"] = [db["incident"] EXCEPT ![k] = [db["incident"][k] EXCEPT !.status = "closed"]]
        /\ \A u \in DOMAIN db \ {"incident"} : db'[u] = db[u]
        /\ k \in DOMAIN db["incident"] /\ db["incident"][k].status \in {"open"}
    BY <1>2, <2>2, StatusTurned
  <2>4. /\ DOMAIN db' = DOMAIN db /\ db'["incident"] = [incidents EXCEPT ![k] = row]
        /\ db'["ncr"] = reports /\ db'["action"] = actions /\ k \in DOMAIN incidents
    BY ONLY <1>1, <1>2, <2>3, <2>1
  <2>5. CorrectiveRowsSound(reports, actions, [incidents EXCEPT ![k] = row])
    BY <1>1, <1>2, <2>1, <2>2, <2>4, CorrectiveAfterClosing
  <2>6. QED
    BY <2>4, <2>5, CorrectiveSoundAgain
<1>11. CASE Keeps({"talk"})
  BY <1>11, CorrectiveLeftAlone
<1>12. CASE Create(p, "talk", ToolboxTalk)
  BY <1>11, <1>12, CreateKeeps
<1>13. ASSUME NEW k, Amend(p, "talk", k, LAMBDA t : TRUE, LAMBDA t : [t EXCEPT !.signed = TRUE]) PROVE CorrectiveSound'
  BY <1>11, <1>13, SerialRows DEF Amend, Commit, Keeps
<1>14. QED
  BY <1>4, <1>5, <1>6, <1>7, <1>8, <1>9, <1>10, <1>12, <1>13 DEF CorrectiveNext, NcrRoutes, IncidentRoutes

-----------------------------------------------------------------------------
(* What was read by machine *)

JobRows ==
    [status : {"extracted", "reviewed", "rejected", "committed"}, type : {"boq", "other"},
     quantity : Nat, corrected : Nat, record : Nat]

\* Each committed job has an item of its own that states the reviewed quantity.
ExtractionRowsSound(jobs, items) ==
    /\ jobs \in Seq(JobRows)
    /\ IsTable(items)
    /\ \A i \in DOMAIN items : "quantity" \in DOMAIN items[i]
    /\ \A k \in DOMAIN jobs :
         /\ jobs[k].record # 0 <=> jobs[k].status = "committed"
         /\ jobs[k].status = "committed" =>
              /\ jobs[k].record \in DOMAIN items
              /\ items[jobs[k].record].quantity = Reviewed(jobs[k])
    /\ \A j, k \in DOMAIN jobs : j # k /\ jobs[j].record = jobs[k].record => jobs[j].record = 0

ExtractionSound ==
    {"extraction", "boq"} \subseteq DOMAIN db /\ ExtractionRowsSound(db["extraction"], db["boq"])

\* The invariant implies the property.
LEMMA ExtractionSoundSays == ASSUME ExtractionSound PROVE CommittedAsReviewed
<1>1. PICK jobs, items : jobs = db["extraction"] /\ items = db["boq"]
  OBVIOUS
<1>2. ExtractionRowsSound(jobs, items)
  BY <1>1 DEF ExtractionSound
<1>3. PICK committed : committed = {k \in DOMAIN jobs : jobs[k].status = "committed"}
  OBVIOUS
<1>4. \A k \in DOMAIN jobs : jobs[k].record # 0 <=> k \in committed
  BY <1>2, <1>3 DEF ExtractionRowsSound
<1>5. \A k \in committed : items[jobs[k].record].quantity = Reviewed(jobs[k])
  BY <1>2, <1>3 DEF ExtractionRowsSound
<1>6. \A j, k \in committed : j # k => jobs[j].record # jobs[k].record
  BY <1>2, <1>3 DEF ExtractionRowsSound
<1>7. QED
  BY <1>1, <1>3, <1>4, <1>5, <1>6 DEF CommittedAsReviewed

\* Where the two tables are sound after a step, it holds again.
LEMMA ExtractionSoundAgain ==
    ASSUME ExtractionSound, NEW jobs, NEW items, ExtractionRowsSound(jobs, items), DOMAIN db' = DOMAIN db,
           db'["extraction"] = jobs, db'["boq"] = items
    PROVE  ExtractionSound'
<1>1. ExtractionRowsSound(db'["extraction"], db'["boq"])
  BY ONLY ExtractionRowsSound(jobs, items), db'["extraction"] = jobs, db'["boq"] = items
<1>2. QED
  BY <1>1 DEF ExtractionSound

\* A step that writes neither keeps it.
LEMMA ExtractionLeftAlone ==
    ASSUME ExtractionSound, NEW names, Keeps(names), names \cap {"extraction", "boq"} = {}
    PROVE  ExtractionSound'
<1>1. db'["extraction"] = db["extraction"] /\ db'["boq"] = db["boq"] /\ DOMAIN db' = DOMAIN db
  BY DEF Keeps, ExtractionSound
<1>2. QED
  BY <1>1, ExtractionSoundAgain DEF ExtractionSound

\* A document was read.
LEMMA ExtractionAfterJob ==
    ASSUME NEW jobs, NEW items, ExtractionRowsSound(jobs, items),
           NEW row \in JobRows, row.status = "extracted", row.record = 0
    PROVE  ExtractionRowsSound(Append(jobs, row), items)
<1>1. PICK new : new = Append(jobs, row)
  OBVIOUS
<1>2. /\ new \in Seq(JobRows) /\ DOMAIN new = DOMAIN jobs \cup {Len(jobs) + 1}
      /\ new[Len(jobs) + 1] = row /\ \A k \in DOMAIN jobs : new[k] = jobs[k]
  BY <1>1, TableInsert DEF ExtractionRowsSound
<1>3. QED
  BY <1>1, <1>2 DEF ExtractionRowsSound

\* A job that is not committed is reviewed or rejected.
LEMMA ExtractionAfterReview ==
    ASSUME NEW jobs, NEW items, ExtractionRowsSound(jobs, items), NEW k \in DOMAIN jobs,
           NEW row \in JobRows, row.record = jobs[k].record,
           jobs[k].status # "committed", row.status # "committed"
    PROVE  ExtractionRowsSound([jobs EXCEPT ![k] = row], items)
<1>1. PICK new : new = [jobs EXCEPT ![k] = row]
  OBVIOUS
<1>2. /\ new \in Seq(JobRows) /\ DOMAIN new = DOMAIN jobs
      /\ new[k] = row /\ \A x \in DOMAIN jobs \ {k} : new[x] = jobs[x]
  BY <1>1, TableUpdate DEF ExtractionRowsSound
<1>3. \A x \in DOMAIN jobs : new[x].record = jobs[x].record
  BY <1>2
<1>4. QED
  BY <1>1, <1>2, <1>3 DEF ExtractionRowsSound

\* An item is estimated by hand.
LEMMA ExtractionAfterItem ==
    ASSUME NEW jobs, NEW items, ExtractionRowsSound(jobs, items), NEW row, "quantity" \in DOMAIN row
    PROVE  ExtractionRowsSound(jobs, Append(items, row))
<1>1. PICK new : new = Append(items, row)
  OBVIOUS
<1>2. /\ IsTable(new) /\ DOMAIN new = DOMAIN items \cup {Len(items) + 1}
      /\ new[Len(items) + 1] = row /\ \A k \in DOMAIN items : new[k] = items[k]
  BY <1>1, TableGrows DEF ExtractionRowsSound
<1>3. QED
  BY <1>1, <1>2 DEF ExtractionRowsSound

\* An item is priced; its quantity stays.
LEMMA ExtractionAfterPrice ==
    ASSUME NEW jobs, NEW items, ExtractionRowsSound(jobs, items), NEW i \in DOMAIN items,
           NEW row, "quantity" \in DOMAIN row, row.quantity = items[i].quantity
    PROVE  ExtractionRowsSound(jobs, [items EXCEPT ![i] = row])
<1>1. PICK new : new = [items EXCEPT ![i] = row]
  OBVIOUS
<1>2. IsTable(items)
  BY DEF ExtractionRowsSound
<1>3. IsTable(new) /\ DOMAIN new = DOMAIN items /\ new[i] = row /\ \A k \in DOMAIN items \ {i} : new[k] = items[k]
  BY ONLY <1>1, <1>2, i \in DOMAIN items, TableChanges
<1>4. \A k \in DOMAIN items : "quantity" \in DOMAIN new[k] /\ new[k].quantity = items[k].quantity
  BY <1>3 DEF ExtractionRowsSound
<1>5. QED
  BY <1>1, <1>3, <1>4 DEF ExtractionRowsSound

\* A reviewed job is committed with its item.
LEMMA ExtractionAfterCommit ==
    ASSUME NEW jobs, NEW items, ExtractionRowsSound(jobs, items), NEW k \in DOMAIN jobs,
           jobs[k].status = "reviewed",
           NEW item, "quantity" \in DOMAIN item, item.quantity = Reviewed(jobs[k]),
           NEW row, row = [jobs[k] EXCEPT !.status = "committed", !.record = Len(items) + 1]
    PROVE  ExtractionRowsSound([jobs EXCEPT ![k] = row], Append(items, item))
<1>1. PICK new, more : new = [jobs EXCEPT ![k] = row] /\ more = Append(items, item)
  OBVIOUS
<1>2. ExtractionRowsSound(jobs, more)
  BY <1>1, ExtractionAfterItem
<1>3. Len(items) + 1 \notin DOMAIN items /\ Len(items) + 1 \in DOMAIN more /\ more[Len(items) + 1] = item
  BY <1>1, TableGrows DEF ExtractionRowsSound
<1>4. Len(items) \in Nat
  BY TableRows DEF ExtractionRowsSound, IsTable
<1>5. jobs[k] \in JobRows
  BY TableRows DEF ExtractionRowsSound
<1>6. row \in JobRows /\ row.status = "committed" /\ row.record = Len(items) + 1 /\ Reviewed(row) = Reviewed(jobs[k])
  <2>1. PICK n \in Nat : n = Len(items) + 1
    BY ONLY <1>4
  <2>2. PICK job : job = jobs[k]
    OBVIOUS
  <2>3. row = [job EXCEPT !.status = "committed", !.record = n] /\ job \in JobRows
    BY ONLY <1>5, <2>1, <2>2, row = [jobs[k] EXCEPT !.status = "committed", !.record = Len(items) + 1]
  <2>4. /\ row \in JobRows /\ row.status = "committed" /\ row.record = n
        /\ row.corrected = job.corrected /\ row.quantity = job.quantity
    BY ONLY <2>3 DEF JobRows
  <2>5. QED
    BY ONLY <2>1, <2>2, <2>4 DEF Reviewed
<1>7. /\ new \in Seq(JobRows) /\ DOMAIN new = DOMAIN jobs
      /\ new[k] = row /\ \A x \in DOMAIN jobs \ {k} : new[x] = jobs[x]
  BY <1>1, <1>6, TableUpdate DEF ExtractionRowsSound
<1>8. \A x \in DOMAIN jobs : jobs[x].record # Len(items) + 1
  BY <1>3, <1>4 DEF ExtractionRowsSound
<1>9. ExtractionRowsSound(new, more)
  <2>1. ASSUME NEW x \in DOMAIN new
        PROVE  /\ new[x].record # 0 <=> new[x].status = "committed"
               /\ new[x].status = "committed" =>
                    new[x].record \in DOMAIN more /\ more[new[x].record].quantity = Reviewed(new[x])
    <3>1. CASE x = k
      <4>1. new[x] = row
        BY ONLY <1>7, <3>1
      <4>2. Len(items) + 1 # 0
        BY ONLY <1>4
      <4>3. QED
        BY ONLY <1>3, <1>6, <4>1, <4>2, item.quantity = Reviewed(jobs[k])
    <3>2. CASE x # k
      <4>1. new[x] = jobs[x] /\ x \in DOMAIN jobs
        BY ONLY <1>7, <2>1, <3>2
      <4>2. QED
        BY ONLY <1>2, <4>1 DEF ExtractionRowsSound
    <3>3. QED
      BY <3>1, <3>2
  <2>2. ASSUME NEW x \in DOMAIN new, NEW y \in DOMAIN new, x # y, new[x].record = new[y].record
        PROVE  new[x].record = 0
    <3>1. CASE x = k \/ y = k
      BY ONLY <1>6, <1>7, <1>8, <2>2, <3>1
    <3>2. CASE x # k /\ y # k
      <4>1. new[x] = jobs[x] /\ x \in DOMAIN jobs /\ new[y] = jobs[y] /\ y \in DOMAIN jobs
        BY ONLY <1>7, <2>2, <3>2
      <4>2. QED
        BY ONLY <1>2, <2>2, <4>1 DEF ExtractionRowsSound
    <3>3. QED
      BY <3>1, <3>2
  <2>3. QED
    BY <1>2, <1>7, <2>1, <2>2 DEF ExtractionRowsSound
<1>10. QED
  BY <1>1, <1>9

\* An item that a handler adds has a quantity, and one that it prices keeps it.
LEMMA ExtractionAfterEstimates ==
    ASSUME ~ Concurrent, ExtractionSound, NEW p, EstimateRoutes(p)
    PROVE  ExtractionSound'
<1>1. PICK jobs, items : jobs = db["extraction"] /\ items = db["boq"]
  OBVIOUS
<1>2. {"extraction", "boq"} \subseteq DOMAIN db /\ ExtractionRowsSound(jobs, items)
  BY <1>1 DEF ExtractionSound
<1>3. PICK names : names = {"estimate", "cbs", "cbsline"}
  OBVIOUS
<1>4. CASE Keeps(names)
  <2>1. names \cap {"extraction", "boq"} = {}
    BY <1>3
  <2>2. QED
    BY <1>4, <2>1, ExtractionLeftAlone
<1>5. ASSUME NEW t, CreateEstimateVersion(p, t) PROVE Keeps(names)
  BY <1>3, <1>5, CreateKeeps DEF CreateEstimateVersion
<1>6. ASSUME NEW v, SubmitEstimateVersion(p, v) PROVE Keeps(names)
  BY <1>3, <1>6, SerialRows DEF SubmitEstimateVersion, Commit, Keeps
<1>7. ASSUME NEW v, GenerateCbsFromEstimate(p, v) PROVE Keeps(names)
  BY <1>3, <1>7, SerialRows DEF GenerateCbsFromEstimate, Commit, Keeps
<1>8. ASSUME NEW v, NEW q, Create(p, "boq", BOQItem(v, q)) PROVE ExtractionSound'
  <2>1. PICK row : row = BOQItem(v, q)
    OBVIOUS
  <2>2. "quantity" \in DOMAIN row
    BY <2>1 DEF BOQItem
  <2>3. ExtractionRowsSound(jobs, Append(items, row))
    BY <1>2, <2>2, ExtractionAfterItem
  <2>4. DOMAIN db' = DOMAIN db /\ db'["boq"] = Append(items, row) /\ db'["extraction"] = jobs
    BY <1>1, <1>2, <1>8, <2>1, RowCreated
  <2>5. QED
    BY <2>3, <2>4, ExtractionSoundAgain
<1>9. ASSUME NEW k, NEW cost, SaveRateAnalysis(p, k, cost) PROVE ExtractionSound'
  <2>1. PICK row : row = [items[k] EXCEPT !.priced = TRUE, !.rate = MarkedUp(cost)]
    OBVIOUS
  <2>2. k \in DOMAIN items /\ db' = [db EXCEPT !["boq"] = [items EXCEPT ![k] = row]]
    BY <1>1, <1>9, <2>1, SerialRows DEF SaveRateAnalysis, Amend, Rows, Commit
  <2>3. "quantity" \in DOMAIN items[k]
    BY <1>2, <2>2 DEF ExtractionRowsSound
  <2>4. "quantity" \in DOMAIN row /\ row.quantity = items[k].quantity
    BY ONLY <2>1, <2>3
  <2>5. ExtractionRowsSound(jobs, [items EXCEPT ![k] = row])
    BY <1>2, <2>2, <2>4, ExtractionAfterPrice
  <2>6. DOMAIN db' = DOMAIN db /\ db'["boq"] = [items EXCEPT ![k] = row] /\ db'["extraction"] = jobs
    BY ONLY <1>1, <1>2, <2>2
  <2>7. QED
    BY <2>5, <2>6, ExtractionSoundAgain
<1>10. QED
  BY <1>4, <1>5, <1>6, <1>7, <1>8, <1>9 DEF EstimateRoutes

\* Every route of the assistant keeps it.
LEMMA ExtractionStaysSound ==
    ASSUME ~ Concurrent, ExtractionSound, NEW p, AssistantRoutes(p)
    PROVE  ExtractionSound'
<1>1. PICK jobs, items : jobs = db["extraction"] /\ items = db["boq"]
  OBVIOUS
<1>2. {"extraction", "boq"} \subseteq DOMAIN db /\ ExtractionRowsSound(jobs, items) /\ jobs \in Seq(JobRows)
  BY <1>1 DEF ExtractionSound, ExtractionRowsSound
<1>3. Extracted \subseteq Nat
  BY AssistantAssumption
<1>4. ASSUME NEW type \in {"boq", "other"}, NEW q \in Extracted,
             Create(p, "extraction", AIDocumentExtractionJob(type, q))
      PROVE  ExtractionSound'
  <2>1. PICK row : row = AIDocumentExtractionJob(type, q)
    OBVIOUS
  <2>2. row \in JobRows /\ row.status = "extracted" /\ row.record = 0
    BY <1>3, <2>1 DEF AIDocumentExtractionJob, JobRows
  <2>3. ExtractionRowsSound(Append(jobs, row), items)
    BY <1>2, <2>2, ExtractionAfterJob
  <2>4. DOMAIN db' = DOMAIN db /\ db'["extraction"] = Append(jobs, row) /\ db'["boq"] = items
    BY <1>1, <1>2, <1>4, <2>1, RowCreated
  <2>5. QED
    BY <2>3, <2>4, ExtractionSoundAgain
<1>5. ASSUME NEW k \in DOMAIN jobs, NEW row \in JobRows, row.record = jobs[k].record,
             jobs[k].status # "committed", row.status # "committed",
             db' = [db EXCEPT !["extraction"] = [jobs EXCEPT ![k] = row]]
      PROVE  ExtractionSound'
  <2>1. ExtractionRowsSound([jobs EXCEPT ![k] = row], items)
    BY <1>2, <1>5, ExtractionAfterReview
  <2>2. DOMAIN db' = DOMAIN db /\ db'["extraction"] = [jobs EXCEPT ![k] = row] /\ db'["boq"] = items
    BY ONLY <1>1, <1>2, <1>5
  <2>3. QED
    BY <2>1, <2>2, ExtractionSoundAgain
<1>6. ASSUME NEW k, NEW c \in Extracted \cup {0}, ReviewExtraction(p, k, c) PROVE ExtractionSound'
  <2>1. PICK row : row = [jobs[k] EXCEPT !.status = "reviewed", !.corrected = c]
    OBVIOUS
  <2>2. /\ k \in DOMAIN jobs /\ jobs[k].status = "extracted"
        /\ db' = [db EXCEPT !["extraction"] = [jobs EXCEPT ![k] = row]]
    BY <1>1, <1>6, <2>1, SerialRows DEF ReviewExtraction, Amend, Rows, Row, Commit
  <2>3. jobs[k] \in JobRows
    BY <1>2, <2>2, TableRows
  <2>4. row \in JobRows /\ row.status = "reviewed" /\ row.record = jobs[k].record
    <3>1. c \in Nat
      BY <1>3, <1>6
    <3>2. QED
      BY ONLY <2>1, <2>3, <3>1 DEF JobRows
  <2>5. QED
    BY <1>5, <2>2, <2>4
<1>7. ASSUME NEW k, RejectExtraction(p, k) PROVE ExtractionSound'
  <2>1. PICK row : row = [jobs[k] EXCEPT !.status = "rejected"]
    OBVIOUS
  <2>2. /\ k \in DOMAIN jobs /\ jobs[k].status \in {"extracted", "reviewed"}
        /\ db' = [db EXCEPT !["extraction"] = [jobs EXCEPT ![k] = row]]
    BY <1>1, <1>7, <2>1, SerialRows DEF RejectExtraction, Turn, Rows, Row, Commit
  <2>3. jobs[k] \in JobRows
    BY <1>2, <2>2, TableRows
  <2>4. row \in JobRows /\ row.status = "rejected" /\ row.record = jobs[k].record
    BY <2>1, <2>3 DEF JobRows
  <2>5. QED
    BY <1>5, <2>2, <2>4
<1>8. ASSUME NEW k, NEW v, CommitExtractionToBoq(p, k, v) PROVE ExtractionSound'
  <2>1. PICK row : row = [jobs[k] EXCEPT !.status = "committed", !.record = Len(items) + 1]
    OBVIOUS
  <2>2. PICK item : item = BOQItem(v, Reviewed(jobs[k]))
    OBVIOUS
  <2>3. "quantity" \in DOMAIN item /\ item.quantity = Reviewed(jobs[k])
    BY <2>2 DEF BOQItem
  <2>4. /\ k \in DOMAIN jobs /\ jobs[k].status = "reviewed"
        /\ db' = [db EXCEPT !["boq"] = Append(items, item), !["extraction"] = [jobs EXCEPT ![k] = row]]
    <3>1. /\ k \in DOMAIN jobs /\ jobs[k].status = "reviewed"
          /\ db' = [db EXCEPT !["boq"] = Append(items, item),
                              !["extraction"][k].status = "committed",
                              !["extraction"][k].record = Len(items) + 1]
      BY <1>1, <1>8, <2>2, SerialRows DEF CommitExtractionToBoq, Commit
    <3>2. QED
      BY ONLY <1>1, <1>2, <2>1, <3>1
  <2>5. ExtractionRowsSound([jobs EXCEPT ![k] = row], Append(items, item))
    BY <1>2, <2>1, <2>3, <2>4, ExtractionAfterCommit
  <2>6. /\ DOMAIN db' = DOMAIN db /\ db'["extraction"] = [jobs EXCEPT ![k] = row]
        /\ db'["boq"] = Append(items, item)
    BY ONLY <1>1, <1>2, <2>4
  <2>7. QED
    BY <2>5, <2>6, ExtractionSoundAgain
<1>9. QED
  BY <1>4, <1>6, <1>7, <1>8 DEF AssistantRoutes

-----------------------------------------------------------------------------
(* What devices captured *)

Reported(entries) ==
    {e \in DOMAIN entries : entries[e].status = "synced" /\ FieldRecords[entries[e].record].type # "diary"}

\* A record has one entry, an entry in conflict one conflict and no other any, what is
\* no diary one report, and a day one diary.
FieldRowsSound(entries, conflicts, reports, diaries) ==
    /\ IsTable(entries) /\ IsTable(conflicts) /\ IsTable(reports) /\ IsTable(diaries)
    /\ \A e \in DOMAIN entries : entries[e].status \in {"synced", "conflict"}
    /\ \A d, e \in DOMAIN entries : entries[d].record = entries[e].record => d = e
    /\ \A k \in DOMAIN conflicts :
         /\ "entry" \in DOMAIN conflicts[k]
         /\ conflicts[k].entry \in DOMAIN entries
         /\ entries[conflicts[k].entry].status = "conflict"
    /\ \A j, k \in DOMAIN conflicts : conflicts[j].entry = conflicts[k].entry => j = k
    /\ \A e \in DOMAIN entries : entries[e].status = "conflict" => \E k \in DOMAIN conflicts : conflicts[k].entry = e
    /\ Len(reports) = Cardinality(Reported(entries))
    /\ \A k \in DOMAIN diaries : "day" \in DOMAIN diaries[k]
    /\ \A j, k \in DOMAIN diaries : diaries[j].day = diaries[k].day => j = k

\* Of the tables s.
RecordsSound(s) ==
    /\ {"sync", "conflict", "report", "diary"} \subseteq DOMAIN s
    /\ FieldRowsSound(s["sync"], s["conflict"], s["report"], s["diary"])

\* A set without two members has at most one.
LEMMA AtMostOne ==
    ASSUME NEW S, \A x, y \in S : x = y
    PROVE  Cardinality(S) \in {0, 1} /\ (S # {} => Cardinality(S) = 1)
<1>1. CASE S = {}
  BY <1>1, FS_EmptySet
<1>2. CASE S # {}
  <2>1. PICK x \in S : TRUE
    BY <1>2
  <2>2. S = {x}
    BY <2>1
  <2>3. Cardinality({x}) = 1
    BY FS_Singleton
  <2>4. QED
    BY <2>2, <2>3
<1>3. QED
  BY <1>1, <1>2

\* The invariant implies the property.
LEMMA RecordsSoundSay == ASSUME RecordsSound(db) PROVE FieldRecordsAccounted
<1>1. PICK entries, conflicts, reports, diaries :
         /\ entries = db["sync"] /\ conflicts = db["conflict"]
         /\ reports = db["report"] /\ diaries = db["diary"]
  OBVIOUS
<1>2. FieldRowsSound(entries, conflicts, reports, diaries)
  BY <1>1 DEF RecordsSound
<1>3. ASSUME NEW r PROVE Cardinality(EntriesOf(db, r)) <= 1
  <2>1. PICK S : S = EntriesOf(db, r)
    OBVIOUS
  <2>2. \A x, y \in S : x = y
    BY <1>1, <1>2, <2>1 DEF FieldRowsSound, EntriesOf
  <2>3. Cardinality(S) \in {0, 1}
    BY ONLY <2>2, AtMostOne
  <2>4. QED
    BY <2>1, <2>3
<1>4. ASSUME NEW e \in DOMAIN entries
      PROVE  Cardinality({k \in DOMAIN conflicts : conflicts[k].entry = e})
                = IF entries[e].status = "conflict" THEN 1 ELSE 0
  <2>1. PICK S : S = {k \in DOMAIN conflicts : conflicts[k].entry = e}
    OBVIOUS
  <2>2. \A x, y \in S : x = y
    BY <1>2, <2>1 DEF FieldRowsSound
  <2>3. S # {} => Cardinality(S) = 1
    BY ONLY <2>2, AtMostOne
  <2>4. S # {} <=> entries[e].status = "conflict"
    BY <1>2, <1>4, <2>1 DEF FieldRowsSound
  <2>5. Cardinality({}) = 0
    BY FS_EmptySet
  <2>6. QED
    BY ONLY <2>1, <2>3, <2>4, <2>5
<1>5. QED
  <2>1. /\ Len(reports) = Cardinality(Reported(entries))
        /\ \A j, k \in DOMAIN diaries : diaries[j].day = diaries[k].day => j = k
    BY <1>2 DEF FieldRowsSound
  <2>2. QED
    BY <1>1, <1>3, <1>4, <2>1 DEF FieldRecordsAccounted, Reported

\* A day gets its diary.
LEMMA FieldAfterDiary ==
    ASSUME NEW entries, NEW conflicts, NEW reports, NEW diaries,
           FieldRowsSound(entries, conflicts, reports, diaries),
           NEW row, "day" \in DOMAIN row, \A k \in DOMAIN diaries : diaries[k].day # row.day
    PROVE  FieldRowsSound(entries, conflicts, reports, Append(diaries, row))
<1>1. PICK new : new = Append(diaries, row)
  OBVIOUS
<1>2. /\ IsTable(new) /\ DOMAIN new = DOMAIN diaries \cup {Len(diaries) + 1}
      /\ new[Len(diaries) + 1] = row /\ \A k \in DOMAIN diaries : new[k] = diaries[k]
  BY <1>1, TableGrows DEF FieldRowsSound
<1>3. QED
  BY <1>1, <1>2 DEF FieldRowsSound

\* A diary is written, signed or countersigned.
LEMMA FieldAfterWriting ==
    ASSUME NEW entries, NEW conflicts, NEW reports, NEW diaries,
           FieldRowsSound(entries, conflicts, reports, diaries),
           NEW k \in DOMAIN diaries, NEW row, "day" \in DOMAIN row, row.day = diaries[k].day
    PROVE  FieldRowsSound(entries, conflicts, reports, [diaries EXCEPT ![k] = row])
<1>1. PICK new : new = [diaries EXCEPT ![k] = row]
  OBVIOUS
<1>2. IsTable(diaries)
  BY DEF FieldRowsSound
<1>3. IsTable(new) /\ DOMAIN new = DOMAIN diaries /\ new[k] = row /\ \A x \in DOMAIN diaries \ {k} : new[x] = diaries[x]
  BY ONLY <1>1, <1>2, k \in DOMAIN diaries, TableChanges
<1>4. \A x \in DOMAIN diaries : "day" \in DOMAIN new[x] /\ new[x].day = diaries[x].day
  BY <1>3 DEF FieldRowsSound
<1>5. QED
  BY <1>1, <1>3, <1>4 DEF FieldRowsSound

\* A conflict is resolved.
LEMMA FieldAfterResolution ==
    ASSUME NEW entries, NEW conflicts, NEW reports, NEW diaries,
           FieldRowsSound(entries, conflicts, reports, diaries),
           NEW k \in DOMAIN conflicts, NEW row, "entry" \in DOMAIN row, row.entry = conflicts[k].entry
    PROVE  FieldRowsSound(entries, [conflicts EXCEPT ![k] = row], reports, diaries)
<1>1. PICK new : new = [conflicts EXCEPT ![k] = row]
  OBVIOUS
<1>2. IsTable(conflicts)
  BY DEF FieldRowsSound
<1>3. /\ IsTable(new) /\ DOMAIN new = DOMAIN conflicts
      /\ new[k] = row /\ \A x \in DOMAIN conflicts \ {k} : new[x] = conflicts[x]
  BY ONLY <1>1, <1>2, k \in DOMAIN conflicts, TableChanges
<1>4. \A x \in DOMAIN conflicts : "entry" \in DOMAIN new[x] /\ new[x].entry = conflicts[x].entry
  BY <1>3 DEF FieldRowsSound
<1>5. QED
  BY <1>1, <1>3, <1>4 DEF FieldRowsSound

\* A record that no entry has yet is taken in: what became of it decides what is
\* written beside its entry.
LEMMA FieldAfterEntry ==
    ASSUME NEW entries, NEW conflicts, NEW reports, NEW diaries,
           FieldRowsSound(entries, conflicts, reports, diaries),
           NEW entry, entry.status = "synced" \/ entry.status = "conflict",
           \A e \in DOMAIN entries : entries[e].record # entry.record,
           NEW conflicts2, NEW reports2,
           \/ /\ entry.status = "synced" /\ FieldRecords[entry.record].type = "diary"
              /\ conflicts2 = conflicts /\ reports2 = reports
           \/ /\ entry.status = "synced" /\ FieldRecords[entry.record].type # "diary"
              /\ conflicts2 = conflicts /\ \E row : reports2 = Append(reports, row)
           \/ /\ entry.status = "conflict" /\ reports2 = reports
              /\ \E row : /\ conflicts2 = Append(conflicts, row)
                          /\ "entry" \in DOMAIN row /\ row.entry = Len(entries) + 1
    PROVE  FieldRowsSound(Append(entries, entry), conflicts2, reports2, diaries)
<1>1. PICK new, n : new = Append(entries, entry) /\ n = Len(entries) + 1
  OBVIOUS
<1>2. /\ IsTable(new) /\ n \notin DOMAIN entries /\ DOMAIN new = DOMAIN entries \cup {n}
      /\ new[n] = entry /\ \A e \in DOMAIN entries : new[e] = entries[e]
  BY <1>1, TableGrows DEF FieldRowsSound
<1>3. IsFiniteSet(Reported(entries)) /\ Cardinality(Reported(entries)) \in Nat /\ n \notin Reported(entries)
  <2>1. IsFiniteSet(DOMAIN entries)
    BY TableIsFinite DEF FieldRowsSound
  <2>2. Reported(entries) \subseteq DOMAIN entries
    BY DEF Reported
  <2>3. QED
    BY <1>2, <2>1, <2>2, FS_Subset, FS_CardinalityType
<1>4. /\ \A e \in DOMAIN new : new[e].status \in {"synced", "conflict"}
      /\ \A d, e \in DOMAIN new : new[d].record = new[e].record => d = e
  BY <1>2 DEF FieldRowsSound
<1>5. CASE /\ entry.status = "synced" /\ FieldRecords[entry.record].type = "diary"
           /\ conflicts2 = conflicts /\ reports2 = reports
  <2>1. Reported(new) = Reported(entries)
    BY <1>2, <1>5 DEF Reported
  <2>2. FieldRowsSound(new, conflicts2, reports2, diaries)
    BY <1>2, <1>4, <1>5, <2>1 DEF FieldRowsSound
  <2>3. QED
    BY <1>1, <2>2
<1>6. CASE /\ entry.status = "synced" /\ FieldRecords[entry.record].type # "diary"
           /\ conflicts2 = conflicts /\ \E row : reports2 = Append(reports, row)
  <2>1. Reported(new) = Reported(entries) \cup {n}
    BY <1>2, <1>6 DEF Reported
  <2>2. Cardinality(Reported(new)) = Cardinality(Reported(entries)) + 1
    BY <1>3, <2>1, FS_AddElement
  <2>3. PICK row : reports2 = Append(reports, row)
    BY <1>6
  <2>4. IsTable(reports2) /\ Len(reports2) = Len(reports) + 1
    <3>1. IsTable(reports)
      BY DEF FieldRowsSound
    <3>2. PICK R : reports \in Seq(R)
      BY <3>1 DEF IsTable
    <3>3. PICK S : S = R \cup {row}
      OBVIOUS
    <3>4. reports \in Seq(S) /\ row \in S
      BY <3>2, <3>3
    <3>5. Append(reports, row) \in Seq(S) /\ Len(Append(reports, row)) = Len(reports) + 1
      BY ONLY <3>4, TableInsert
    <3>6. QED
      BY ONLY <2>3, <3>5 DEF IsTable
  <2>5. FieldRowsSound(new, conflicts2, reports2, diaries)
    BY <1>2, <1>4, <1>6, <2>2, <2>4 DEF FieldRowsSound
  <2>6. QED
    BY <1>1, <2>5
<1>7. CASE /\ entry.status = "conflict" /\ reports2 = reports
           /\ \E row : /\ conflicts2 = Append(conflicts, row)
                       /\ "entry" \in DOMAIN row /\ row.entry = Len(entries) + 1
  <2>1. PICK row : conflicts2 = Append(conflicts, row) /\ "entry" \in DOMAIN row /\ row.entry = n
    BY <1>1, <1>7
  <2>2. PICK m : m = Len(conflicts) + 1
    OBVIOUS
  <2>3. /\ IsTable(conflicts2) /\ DOMAIN conflicts2 = DOMAIN conflicts \cup {m}
        /\ conflicts2[m] = row /\ \A k \in DOMAIN conflicts : conflicts2[k] = conflicts[k]
    BY <2>1, <2>2, TableGrows DEF FieldRowsSound
  <2>4. Reported(new) = Reported(entries)
    BY <1>2, <1>7 DEF Reported
  <2>5. \A k \in DOMAIN conflicts2 :
          /\ "entry" \in DOMAIN conflicts2[k]
          /\ conflicts2[k].entry \in DOMAIN new
          /\ new[conflicts2[k].entry].status = "conflict"
    BY <1>2, <1>7, <2>1, <2>3 DEF FieldRowsSound
  <2>6. \A j, k \in DOMAIN conflicts2 : conflicts2[j].entry = conflicts2[k].entry => j = k
    BY <1>2, <2>1, <2>3 DEF FieldRowsSound
  <2>7. \A e \in DOMAIN new : new[e].status = "conflict" => \E k \in DOMAIN conflicts2 : conflicts2[k].entry = e
    BY <1>2, <2>1, <2>3 DEF FieldRowsSound
  <2>8. FieldRowsSound(new, conflicts2, reports2, diaries)
    BY <1>2, <1>4, <1>7, <2>3, <2>4, <2>5, <2>6, <2>7 DEF FieldRowsSound
  <2>9. QED
    BY <1>1, <2>8
<1>8. QED
  BY <1>5, <1>6, <1>7

\* What the server makes of a record that it has not got.
LEMMA RecordApplied ==
    ASSUME NEW s, RecordsSound(s), NEW r, EntriesOf(s, r) = {}
    PROVE  RecordsSound(Applied(s, r))
<1>1. PICK entries, conflicts, reports, diaries :
         /\ entries = s["sync"] /\ conflicts = s["conflict"]
         /\ reports = s["report"] /\ diaries = s["diary"]
  OBVIOUS
<1>2. {"sync", "conflict", "report", "diary"} \subseteq DOMAIN s /\ FieldRowsSound(entries, conflicts, reports, diaries)
  BY <1>1 DEF RecordsSound
<1>3. \A e \in DOMAIN entries : entries[e].record # r
  BY <1>1 DEF EntriesOf
<1>4. PICK f, a, n : f = FieldRecords[r] /\ a = Applied(s, r) /\ n = Len(entries) + 1
  OBVIOUS
<1> DEFINE Taken(t, row) == [Insert(s, t, row) EXCEPT
               !["sync"] = Append(@, [SyncQueueEntry(r) EXCEPT !.status = "synced", !.server = Len(s[t]) + 1])]
<1>5. \/ f.type = "diary" /\ DiaryOf(s, f.key) = {} /\ a = Taken("diary", DailySiteDiary(f.key))
      \/ f.type # "diary" /\ a = Taken("report", FieldReport(f.type, f.key))
      \/ a = [s EXCEPT !["sync"] = Append(@, [SyncQueueEntry(r) EXCEPT !.status = "conflict"]),
                       !["conflict"] = Append(@, ConflictRecord(n))]
  BY <1>1, <1>4 DEF Applied
<1>6. CASE f.type = "diary" /\ DiaryOf(s, f.key) = {} /\ a = Taken("diary", DailySiteDiary(f.key))
  <2>1. PICK row, entry : /\ row = DailySiteDiary(f.key)
                          /\ entry = [SyncQueueEntry(r) EXCEPT !.status = "synced", !.server = Len(s["diary"]) + 1]
    OBVIOUS
  <2>2. entry.status = "synced" /\ entry.record = r /\ "day" \in DOMAIN row /\ row.day = f.key
    BY <2>1 DEF SyncQueueEntry, DailySiteDiary
  <2>3. \A k \in DOMAIN diaries : diaries[k].day # row.day
    BY <1>1, <1>6, <2>2 DEF DiaryOf
  <2>4. FieldRowsSound(entries, conflicts, reports, Append(diaries, row))
    BY <1>2, <2>2, <2>3, FieldAfterDiary
  <2>5. FieldRowsSound(Append(entries, entry), conflicts, reports, Append(diaries, row))
    BY <1>3, <1>4, <1>6, <2>2, <2>4, FieldAfterEntry
  <2>6. /\ DOMAIN a = DOMAIN s /\ a["sync"] = Append(entries, entry) /\ a["conflict"] = conflicts
        /\ a["report"] = reports /\ a["diary"] = Append(diaries, row)
    BY ONLY <1>1, <1>2, <1>6, <2>1 DEF Insert
  <2>7. QED
    BY <1>2, <1>4, <2>5, <2>6 DEF RecordsSound
<1>7. CASE f.type # "diary" /\ a = Taken("report", FieldReport(f.type, f.key))
  <2>1. PICK row, entry : /\ row = FieldReport(f.type, f.key)
                          /\ entry = [SyncQueueEntry(r) EXCEPT !.status = "synced", !.server = Len(s["report"]) + 1]
    OBVIOUS
  <2>2. entry.status = "synced" /\ entry.record = r
    BY <2>1 DEF SyncQueueEntry
  <2>3. PICK reports2 : reports2 = Append(reports, row)
    OBVIOUS
  <2>4. FieldRowsSound(Append(entries, entry), conflicts, reports2, diaries)
    BY <1>2, <1>3, <1>4, <1>7, <2>2, <2>3, FieldAfterEntry
  <2>5. /\ DOMAIN a = DOMAIN s /\ a["sync"] = Append(entries, entry) /\ a["conflict"] = conflicts
        /\ a["report"] = reports2 /\ a["diary"] = diaries
    BY ONLY <1>1, <1>2, <1>7, <2>1, <2>3 DEF Insert
  <2>6. QED
    BY <1>2, <1>4, <2>4, <2>5 DEF RecordsSound
<1>8. CASE a = [s EXCEPT !["sync"] = Append(@, [SyncQueueEntry(r) EXCEPT !.status = "conflict"]),
                         !["conflict"] = Append(@, ConflictRecord(n))]
  <2>1. PICK row, entry : row = ConflictRecord(n) /\ entry = [SyncQueueEntry(r) EXCEPT !.status = "conflict"]
    OBVIOUS
  <2>2. entry.status = "conflict" /\ entry.record = r /\ "entry" \in DOMAIN row /\ row.entry = Len(entries) + 1
    BY <1>4, <2>1 DEF SyncQueueEntry, ConflictRecord
  <2>3. PICK conflicts2 : conflicts2 = Append(conflicts, row)
    OBVIOUS
  <2>4. FieldRowsSound(Append(entries, entry), conflicts2, reports, diaries)
    BY <1>2, <1>3, <2>2, <2>3, FieldAfterEntry
  <2>5. /\ DOMAIN a = DOMAIN s /\ a["sync"] = Append(entries, entry) /\ a["conflict"] = conflicts2
        /\ a["report"] = reports /\ a["diary"] = diaries
    BY ONLY <1>1, <1>2, <1>8, <2>1, <2>3
  <2>6. QED
    BY <1>2, <1>4, <2>4, <2>5 DEF RecordsSound
<1>9. QED
  BY <1>5, <1>6, <1>7, <1>8

\* A record that is sent again changes nothing.
LEMMA RecordAccepted ==
    ASSUME NEW s, RecordsSound(s), NEW r
    PROVE  RecordsSound(Accept(s, r))
  BY RecordApplied DEF Accept

\* What holds of none of the first n numbers, and of some of them once it holds of
\* those without the greatest, holds of all of them.
LEMMA GreatestInduction ==
    ASSUME NEW n \in Nat, NEW G, {} \in G,
           \A x \in SUBSET (1..n) : x # {} /\ x \ {Max(x)} \in G => x \in G
    PROVE  1..n \in G
<1> DEFINE N == {m \in Nat : \A x \in SUBSET (1..n) : Cardinality(x) = m => x \in G}
<1>1. ASSUME NEW x \in SUBSET (1..n) PROVE IsFiniteSet(x) /\ Cardinality(x) \in Nat
  <2>1. IsFiniteSet(1..n)
    BY FS_Interval
  <2>2. IsFiniteSet(x)
    BY <2>1, FS_Subset
  <2>3. QED
    BY <2>2, FS_CardinalityType
<1>2. 0 \in N
  BY <1>1, FS_EmptySet
<1>3. ASSUME NEW m \in Nat, m \in N PROVE m + 1 \in N
  <2>1. ASSUME NEW x \in SUBSET (1..n), Cardinality(x) = m + 1 PROVE x \in G
    <3>1. x # {} /\ IsFiniteSet(x)
      <4>1. IsFiniteSet(x)
        BY <1>1
      <4>2. m + 1 # 0
        OBVIOUS
      <4>3. QED
        BY ONLY <2>1, <4>1, <4>2, FS_EmptySet
    <3>2. Max(x) \in x
      BY <3>1, GreatestOfSome
    <3>3. Cardinality(x \ {Max(x)}) = m
      <4>1. Cardinality(x \ {Max(x)}) = Cardinality(x) - 1
        BY ONLY <3>1, <3>2, FS_RemoveElement
      <4>2. (m + 1) - 1 = m
        OBVIOUS
      <4>3. QED
        BY ONLY <2>1, <4>1, <4>2
    <3>4. x \ {Max(x)} \in G
      BY <1>3, <3>3
    <3>5. QED
      BY <3>1, <3>4
  <2>2. QED
    BY <2>1
<1>4. Cardinality(1..n) \in N
  <2>1. Nat \subseteq N
    <3> HIDE DEF N
    <3>1. QED
      BY <1>2, <1>3, NatSetInduction
  <2>2. Cardinality(1..n) \in Nat
    BY <1>1
  <2>3. QED
    BY <2>1, <2>2
<1>5. QED
  BY <1>4

\* Whatever a batch holds, the records stay accounted for.
LEMMA BatchAccounted ==
    ASSUME NEW n \in Nat, NEW batch, DOMAIN batch = 1..n, RecordsSound(db)
    PROVE  RecordsSound(FoldLeft(Accept, db, batch))
<1>1. PICK g : IsTaking(g, db, batch) /\ FoldLeft(Accept, db, batch) = g[DOMAIN batch]
  BY BatchIsTaken
<1>2. \A x \in SUBSET (1..n) : g[x] = IF x = {} THEN db ELSE Accept(g[x \ {Max(x)}], batch[Max(x)])
  BY <1>1 DEF IsTaking
<1>3. PICK G : G = {x \in SUBSET (1..n) : RecordsSound(g[x])}
  OBVIOUS
<1>4. {} \in G
  BY <1>2, <1>3
<1>5. ASSUME NEW x \in SUBSET (1..n), x # {}, x \ {Max(x)} \in G PROVE x \in G
  <2>1. RecordsSound(Accept(g[x \ {Max(x)}], batch[Max(x)]))
    BY <1>3, <1>5, RecordAccepted
  <2>2. g[x] = Accept(g[x \ {Max(x)}], batch[Max(x)])
    BY <1>2, <1>5
  <2>3. QED
    BY <1>3, <2>1, <2>2
<1>6. 1..n \in G
  BY ONLY <1>4, <1>5, n \in Nat, GreatestInduction
<1>7. QED
  BY <1>1, <1>3, <1>6

RecordTables == {"sync", "conflict", "report", "diary"}

\* A step that writes none of the four tables keeps the invariant.
LEMMA RecordsLeftAlone ==
    ASSUME RecordsSound(db), NEW names, Keeps(names), names \cap RecordTables = {}
    PROVE  RecordsSound(db')
<1>1. /\ db'["sync"] = db["sync"] /\ db'["conflict"] = db["conflict"] /\ db'["report"] = db["report"]
      /\ db'["diary"] = db["diary"] /\ DOMAIN db' = DOMAIN db
  BY DEF Keeps, RecordsSound, RecordTables
<1>2. QED
  BY <1>1 DEF RecordsSound

\* A batch arrives.
LEMMA RecordsAfterBatch ==
    ASSUME ~ Concurrent, RecordsSound(db), NEW p, NEW n \in Nat, NEW batch, DOMAIN batch = 1..n,
           SubmitSyncBatch(p, batch)
    PROVE  RecordsSound(db')
<1>1. db' = FoldLeft(Accept, db, batch)
  BY SerialRows DEF SubmitSyncBatch, Commit
<1>2. QED
  BY <1>1, BatchAccounted

\* Somebody resolves a conflict.
LEMMA RecordsAfterResolution ==
    ASSUME ~ Concurrent, RecordsSound(db), NEW p, NEW k, ResolveConflict(p, k)
    PROVE  RecordsSound(db')
<1>1. PICK entries, conflicts, reports, diaries :
         /\ entries = db["sync"] /\ conflicts = db["conflict"]
         /\ reports = db["report"] /\ diaries = db["diary"]
  OBVIOUS
<1>2. {"sync", "conflict", "report", "diary"} \subseteq DOMAIN db /\ FieldRowsSound(entries, conflicts, reports, diaries)
  BY <1>1 DEF RecordsSound
<1>3. PICK row : row = [conflicts[k] EXCEPT !.status = "resolved"]
  OBVIOUS
<1>4. k \in DOMAIN conflicts /\ db' = [db EXCEPT !["conflict"] = [conflicts EXCEPT ![k] = row]]
  BY <1>1, <1>3, SerialRows DEF ResolveConflict, Turn, Rows, Row, Commit
<1>5. "entry" \in DOMAIN conflicts[k]
  BY <1>2, <1>4 DEF FieldRowsSound
<1>6. "entry" \in DOMAIN row /\ row.entry = conflicts[k].entry
  BY ONLY <1>3, <1>5
<1>7. FieldRowsSound(entries, [conflicts EXCEPT ![k] = row], reports, diaries)
  BY <1>2, <1>4, <1>6, FieldAfterResolution
<1>8. /\ DOMAIN db' = DOMAIN db /\ db'["sync"] = entries /\ db'["conflict"] = [conflicts EXCEPT ![k] = row]
      /\ db'["report"] = reports /\ db'["diary"] = diaries
  BY ONLY <1>1, <1>2, <1>4
<1>9. QED
  BY <1>2, <1>7, <1>8 DEF RecordsSound

\* The diaries that are written at a desk.
LEMMA RecordsAfterDiaries ==
    ASSUME ~ Concurrent, RecordsSound(db), NEW p, DiaryRoutes(p)
    PROVE  RecordsSound(db')
<1>1. PICK entries, conflicts, reports, diaries :
         /\ entries = db["sync"] /\ conflicts = db["conflict"]
         /\ reports = db["report"] /\ diaries = db["diary"]
  OBVIOUS
<1>2. {"sync", "conflict", "report", "diary"} \subseteq DOMAIN db /\ FieldRowsSound(entries, conflicts, reports, diaries)
  BY <1>1 DEF RecordsSound
<1>3. ASSUME NEW day, CreateDiary(p, day) PROVE RecordsSound(db')
  <2>1. PICK row : row = DailySiteDiary(day)
    OBVIOUS
  <2>2. "day" \in DOMAIN row /\ row.day = day
    BY <2>1 DEF DailySiteDiary
  <2>3. Create(p, "diary", row) /\ \A k \in DOMAIN diaries : diaries[k].day # row.day
    BY <1>1, <1>3, <2>1, <2>2 DEF CreateDiary, DiaryOf
  <2>4. FieldRowsSound(entries, conflicts, reports, Append(diaries, row))
    BY <1>2, <2>2, <2>3, FieldAfterDiary
  <2>5. /\ DOMAIN db' = DOMAIN db /\ db'["sync"] = entries /\ db'["conflict"] = conflicts
        /\ db'["report"] = reports /\ db'["diary"] = Append(diaries, row)
    <3>1. /\ DOMAIN db' = DOMAIN db /\ db'["diary"] = Append(db["diary"], row)
          /\ \A u \in DOMAIN db \ {"diary"} : db'[u] = db[u]
      BY <1>2, <2>3, RowCreated
    <3>2. QED
      BY ONLY <1>1, <1>2, <3>1
  <2>6. QED
    BY <1>2, <2>4, <2>5 DEF RecordsSound
<1>4. ASSUME NEW k \in DOMAIN diaries, NEW row,
             \/ \E text : row = [diaries[k] EXCEPT !.text = text]
             \/ row = [diaries[k] EXCEPT !.status = "signed"]
             \/ row = [diaries[k] EXCEPT !.countersigned = TRUE],
             db' = [db EXCEPT !["diary"] = [diaries EXCEPT ![k] = row]]
      PROVE  RecordsSound(db')
  <2>1. "day" \in DOMAIN diaries[k]
    BY <1>2, <1>4 DEF FieldRowsSound
  <2>2. "day" \in DOMAIN row /\ row.day = diaries[k].day
    BY ONLY <1>4, <2>1
  <2>3. FieldRowsSound(entries, conflicts, reports, [diaries EXCEPT ![k] = row])
    BY <1>2, <1>4, <2>2, FieldAfterWriting
  <2>4. /\ DOMAIN db' = DOMAIN db /\ db'["sync"] = entries /\ db'["conflict"] = conflicts
        /\ db'["report"] = reports /\ db'["diary"] = [diaries EXCEPT ![k] = row]
    BY ONLY <1>1, <1>2, <1>4
  <2>5. QED
    BY <1>2, <2>3, <2>4 DEF RecordsSound
<1>5. ASSUME NEW k, NEW text, UpdateDiary(p, k, text) PROVE RecordsSound(db')
  <2>1. PICK row : row = [diaries[k] EXCEPT !.text = text]
    OBVIOUS
  <2>2. k \in DOMAIN diaries /\ db' = [db EXCEPT !["diary"] = [diaries EXCEPT ![k] = row]]
    BY <1>1, <1>5, <2>1, SerialRows DEF UpdateDiary, Amend, Rows, Commit
  <2>3. QED
    BY <1>4, <2>1, <2>2
<1>6. ASSUME NEW k, SignDiary(p, k) PROVE RecordsSound(db')
  <2>1. PICK row : row = [diaries[k] EXCEPT !.status = "signed"]
    OBVIOUS
  <2>2. k \in DOMAIN diaries /\ db' = [db EXCEPT !["diary"] = [diaries EXCEPT ![k] = row]]
    BY <1>1, <1>6, <2>1, SerialRows DEF SignDiary, Turn, Rows, Row, Commit
  <2>3. QED
    BY <1>4, <2>1, <2>2
<1>7. ASSUME NEW k, CountersignDiary(p, k) PROVE RecordsSound(db')
  <2>1. PICK row : row = [diaries[k] EXCEPT !.countersigned = TRUE]
    OBVIOUS
  <2>2. k \in DOMAIN diaries /\ db' = [db EXCEPT !["diary"] = [diaries EXCEPT ![k] = row]]
    BY <1>1, <1>7, <2>1, SerialRows DEF CountersignDiary, Amend, Rows, Commit
  <2>3. QED
    BY <1>4, <2>1, <2>2
<1>8. QED
  BY <1>3, <1>5, <1>6, <1>7 DEF DiaryRoutes

\* Diaries and batches keep the invariant.
LEMMA RecordsAfterField ==
    ASSUME ~ Concurrent, RecordsSound(db), NEW p, FieldNext(p)
    PROVE  RecordsSound(db')
<1>1. ASSUME NEW r, NEW q, SubmitSyncBatch(p, <<r, q>>) PROVE RecordsSound(db')
  <2>1. PICK batch : batch = <<r, q>>
    OBVIOUS
  <2>2. DOMAIN batch = 1..2 /\ SubmitSyncBatch(p, batch)
    BY <1>1, <2>1
  <2>3. QED
    BY <2>2, RecordsAfterBatch
<1>2. ASSUME Create(p, "fieldasset", [kind |-> "asset"]) PROVE RecordsSound(db')
  <2>1. PICK names : names = {"fieldasset"}
    OBVIOUS
  <2>2. Keeps(names) /\ names \cap RecordTables = {}
    BY <1>2, <2>1, CreateKeeps DEF RecordTables
  <2>3. QED
    BY <2>2, RecordsLeftAlone
<1>3. ASSUME NEW k, ResolveConflict(p, k) PROVE RecordsSound(db')
  BY <1>3, RecordsAfterResolution
<1>4. QED
  BY <1>1, <1>2, <1>3, RecordsAfterDiaries DEF FieldNext, SyncRoutes

\* So do the uploads of a device, on time or late.
LEMMA RecordsAfterDevice ==
    ASSUME ~ Concurrent, DeviceTyped, RecordsSound(db), NEW p, DeviceNext(p)
    PROVE  RecordsSound(db')
<1>1. ASSUME UNCHANGED vars PROVE RecordsSound(db')
  BY <1>1 DEF vars
<1>2. ASSUME NEW r, HandleSave(r) PROVE RecordsSound(db')
  BY <1>1, <1>2 DEF HandleSave
<1>3. ASSUME NEW t \in Syncs, NEW online, RunSync(t, online) PROVE RecordsSound(db')
  BY <1>1, <1>3 DEF RunSync
<1>4. ASSUME NEW t \in Syncs, MarkSyncing(t) \/ PutBack(t) \/ GetAnswer(t) \/ TakeResult(t) \/ MarkDiarySynced(t)
      PROVE  RecordsSound(db')
  BY <1>1, <1>4 DEF MarkSyncing, PutBack, GetAnswer, TakeResult, MarkDiarySynced
<1>5. ASSUME NEW t \in Syncs, Deliver(p, t) PROVE RecordsSound(db')
  <2>1. run[t].chunk \in Seq(Nat)
    BY <1>5 DEF Deliver, DeviceTyped
  <2>2. PICK n \in Nat : DOMAIN RecordsOf(run[t].chunk) = 1..n
    BY <2>1, RecordsAreAsMany
  <2>3. PICK batch : batch = RecordsOf(run[t].chunk)
    OBVIOUS
  <2>4. SubmitSyncBatch(p, batch) /\ DOMAIN batch = 1..n
    BY <1>5, <2>2, <2>3 DEF Deliver
  <2>5. QED
    BY <2>2, <2>4, RecordsAfterBatch
<1>6. ASSUME NEW t \in Syncs, NEW underWay, Fail(t, underWay) PROVE RecordsSound(db')
  BY <1>1, <1>6 DEF Fail
<1>7. ASSUME NEW batch, DeliverLate(p, batch) PROVE RecordsSound(db')
  <2>1. PICK n \in Nat : DOMAIN batch = 1..n
    BY <1>7 DEF DeliverLate, DeviceTyped
  <2>2. SubmitSyncBatch(p, batch) \/ UNCHANGED vars
    BY <1>7 DEF DeliverLate
  <2>3. QED
    BY <1>1, <2>1, <2>2, RecordsAfterBatch
<1>8. ASSUME NEW next, MissConflicts(next) PROVE RecordsSound(db')
  BY <1>1, <1>8 DEF MissConflicts
<1>9. ASSUME InsertSyncQueueEntry \/ HandleManualSync \/ RefreshConflicts \/ Kill PROVE RecordsSound(db')
  BY <1>1, <1>9 DEF InsertSyncQueueEntry, HandleManualSync, RefreshConflicts, Kill
<1>10. ASSUME NEW k, ResolveConflict(p, k) PROVE RecordsSound(db')
  BY <1>10, RecordsAfterResolution
<1>11. QED
  BY <1>2, <1>3, <1>4, <1>5, <1>6, <1>7, <1>8, <1>9, <1>10 DEF DeviceNext

-----------------------------------------------------------------------------
(* Sign-offs hold *)

SignOffsSound == PapersSound /\ CorrectiveSound /\ ExtractionSound /\ RecordsSound(db)

\* The invariant implies the property.
LEMMA SignOffsSoundSays == ASSUME SignOffsSound PROVE SignOffsHold
  BY PapersSoundSays, CorrectiveSoundSays, ExtractionSoundSays, RecordsSoundSay DEF SignOffsSound, SignOffsHold

\* Which parts write what it is about.
LEMMA WhoWritesSignOffs ==
    ASSUME NEW part0 \in DOMAIN PartTables
    PROVE  /\ part0 = "documents" \/ PartTables[part0] \cap {"document", "attachment"} = {}
           /\ part0 = "corrective" \/ PartTables[part0] \cap {"ncr", "action", "incident"} = {}
           /\ part0 \in {"estimates", "assistant"} \/ PartTables[part0] \cap {"extraction", "boq"} = {}
           /\ part0 = "field" \/ PartTables[part0] \cap RecordTables = {}
  BY DEF PartTables, RecordTables

\* Each part keeps the invariant: it writes its own tables, and of the others' none.
LEMMA SignOffsSoundAfterRequest ==
    ASSUME ~ Concurrent, SignOffsSound, part' = part, RequestNext
    PROVE  SignOffsSound'
<1>1. part \in DOMAIN PartTables /\ Keeps(PartTables[part])
  BY PartKeeps
<1>2. PICK names : names = PartTables[part]
  OBVIOUS
<1>3. Keeps(names)
  BY <1>1, <1>2
<1>4. /\ part = "documents" \/ names \cap {"document", "attachment"} = {}
      /\ part = "corrective" \/ names \cap {"ncr", "action", "incident"} = {}
      /\ part \in {"estimates", "assistant"} \/ names \cap {"extraction", "boq"} = {}
      /\ part = "field" \/ names \cap RecordTables = {}
  BY <1>1, <1>2, WhoWritesSignOffs
<1>5. PapersSound'
  <2>1. CASE part = "documents"
    <3>1. \E q \in Workers : DocumentNext(q)
      BY <2>1 DEF RequestNext
    <3>2. QED
      BY <2>1, <3>1, PapersStaySound DEF SignOffsSound
  <2>2. CASE part # "documents"
    BY <1>3, <1>4, <2>2, PapersLeftAlone DEF SignOffsSound
  <2>3. QED
    BY <2>1, <2>2
<1>6. CorrectiveSound'
  <2>1. CASE part = "corrective"
    <3>1. \E q \in Workers : CorrectiveNext(q)
      BY <2>1 DEF RequestNext
    <3>2. QED
      BY <3>1, CorrectiveStaysSound DEF SignOffsSound
  <2>2. CASE part # "corrective"
    BY <1>3, <1>4, <2>2, CorrectiveLeftAlone DEF SignOffsSound
  <2>3. QED
    BY <2>1, <2>2
<1>7. ExtractionSound'
  <2>1. CASE part \in {"estimates", "assistant"}
    <3>1. \E q \in Workers : EstimateRoutes(q) \/ AssistantRoutes(q)
      BY <2>1 DEF RequestNext
    <3>2. QED
      BY <3>1, ExtractionAfterEstimates, ExtractionStaysSound DEF SignOffsSound
  <2>2. CASE part \notin {"estimates", "assistant"}
    BY <1>3, <1>4, <2>2, ExtractionLeftAlone DEF SignOffsSound
  <2>3. QED
    BY <2>1, <2>2
<1>8. RecordsSound(db')
  <2>1. CASE part = "field"
    <3>1. \E q \in Workers : FieldNext(q)
      BY <2>1 DEF RequestNext
    <3>2. QED
      BY <3>1, RecordsAfterField DEF SignOffsSound
  <2>2. CASE part # "field"
    BY <1>3, <1>4, <2>2, RecordsLeftAlone DEF SignOffsSound
  <2>3. QED
    BY <2>1, <2>2
<1>9. QED
  BY <1>5, <1>6, <1>7, <1>8 DEF SignOffsSound, RecordsSound

\* So does every step, what a device uploads between its requests included.
LEMMA SignOffsStaySound ==
    ASSUME ~ Concurrent, AccessSound, SignOffsSound, [Next]_<<part, vars, fieldVars>>
    PROVE  SignOffsSound'
<1>1. CASE part' = part /\ RequestNext
  BY <1>1, SignOffsSoundAfterRequest
<1>2. ASSUME part' = part, part = "device", NEW p, DeviceNext(p) PROVE SignOffsSound'
  <2>1. PICK names : names = {"diary", "sync", "conflict", "report"}
    OBVIOUS
  <2>2. DeviceTyped /\ Keeps(names)
    BY <1>2, <2>1, DeviceKeeps DEF AccessSound
  <2>3. /\ names \cap {"document", "attachment"} = {} /\ names \cap {"ncr", "action", "incident"} = {}
        /\ names \cap {"extraction", "boq"} = {}
    BY <2>1
  <2>4. PapersSound'
    BY <1>2, <2>2, <2>3, PapersLeftAlone DEF SignOffsSound
  <2>5. CorrectiveSound' /\ ExtractionSound'
    BY <2>2, <2>3, CorrectiveLeftAlone, ExtractionLeftAlone DEF SignOffsSound
  <2>6. RecordsSound(db')
    BY <1>2, <2>2, RecordsAfterDevice DEF SignOffsSound
  <2>7. QED
    BY <2>4, <2>5, <2>6 DEF SignOffsSound, RecordsSound
<1>3. CASE UNCHANGED <<part, vars, fieldVars>>
  <2>1. db' = db /\ req' = req /\ part' = part
    BY <1>3 DEF vars
  <2>2. QED
    BY <2>1 DEF SignOffsSound, RecordsSound, PapersSound, StampSound, Alone, CorrectiveSound, ExtractionSound
<1>4. QED
  BY <1>1, <1>2, <1>3 DEF Next

\* Of what the invariant is about, a part prepares at most the item of an estimate.
LEMMA PreparedForSignOffs ==
    ASSUME NEW p, NEW f, f = Prepared(p)
    PROVE  /\ DOMAIN f \cap {"document", "attachment", "ncr", "action", "incident", "extraction",
                             "sync", "conflict", "report", "diary"} = {}
           /\ \/ "boq" \notin DOMAIN f
              \/ "boq" \in DOMAIN f /\ f["boq"] = Estimated["boq"]
<1>1. PICK names :
         names = {"lead", "opportunity", "tender", "submission", "contract", "certificate", "certline", "tracking",
                  "variation", "portaluser", "estimate", "cbs", "cbsline", "activity", "dependency"}
  OBVIOUS
<1>2. /\ DOMAIN Awarded \subseteq names /\ DOMAIN Bid \subseteq names /\ DOMAIN Submitted \subseteq names
      /\ DOMAIN TwoContracts \subseteq names
  BY <1>1 DEF Awarded, Bid, Submitted, TwoContracts
<1>3. CASE p \in {"retention", "billing"}
  BY <1>1, <1>2, <1>3 DEF Prepared
<1>4. CASE p \in {"amendments", "clients", "revenue", "subjects"}
  <2>1. PICK s, a : s = (IF p = "amendments" THEN TwoContracts ELSE Submitted) /\ a = Awarded
    OBVIOUS
  <2>2. f = Overlay(s, a)
    BY <1>4, <2>1 DEF Prepared
  <2>3. DOMAIN f = DOMAIN s \cup DOMAIN a
    BY ONLY <2>2, OverlaidTables
  <2>4. DOMAIN f \subseteq names
    BY <1>2, <2>1, <2>3
  <2>5. QED
    BY <1>1, <2>4
<1>5. CASE p \in {"tenders", "estimates"}
  BY <1>1, <1>2, <1>5 DEF Prepared
<1>6. CASE p = "assistant"
  <2>1. PICK s, a : s = [estimate |-> <<EstimateVersion(1, 1)>>] /\ a = Bid
    OBVIOUS
  <2>2. f = Overlay(s, a)
    BY <1>6, <2>1 DEF Prepared
  <2>3. DOMAIN f = DOMAIN s \cup DOMAIN a
    BY ONLY <2>2, OverlaidTables
  <2>4. DOMAIN s = {"estimate"}
    BY ONLY <2>1
  <2>5. DOMAIN f \subseteq names
    BY <1>1, <1>2, <2>1, <2>3, <2>4
  <2>6. QED
    BY <1>1, <2>5
<1>7. CASE p = "baseline"
  <2>1. PICK s, a : s = Estimated /\ a = Bid
    OBVIOUS
  <2>2. f = Overlay(s, a)
    BY <1>7, <2>1 DEF Prepared
  <2>3. DOMAIN s = {"estimate", "boq", "cbs", "cbsline"}
    BY <2>1 DEF Estimated
  <2>4. DOMAIN f = DOMAIN s \cup DOMAIN a /\ \A t \in DOMAIN s : f[t] = s[t]
    BY ONLY <2>2, OverlaidTables
  <2>5. "boq" \in DOMAIN f /\ f["boq"] = s["boq"]
    BY <2>3, <2>4
  <2>6. DOMAIN f \subseteq names \cup {"boq"}
    BY <1>1, <1>2, <2>1, <2>3, <2>4
  <2>7. QED
    BY <1>1, <2>1, <2>5, <2>6
<1>8. CASE p = "controls"
  <2>1. DOMAIN f \subseteq names
    BY <1>1, <1>8 DEF Prepared
  <2>2. QED
    BY <1>1, <2>1
<1>9. CASE p \notin {"amendments", "retention", "billing", "clients", "revenue", "subjects", "tenders", "estimates",
                     "assistant", "baseline", "controls"}
  <2>1. f = <<>>
    BY <1>9 DEF Prepared
  <2>2. DOMAIN f = {}
    BY ONLY <2>1
  <2>3. QED
    BY <2>2
<1>10. QED
  BY <1>3, <1>4, <1>5, <1>6, <1>7, <1>8, <1>9

\* The tables where the program starts: empty, but for the item that the baseline's
\* part has prepared.
LEMMA FirstSignOffTables ==
    ASSUME Init
    PROVE  /\ \A t \in {"document", "attachment", "ncr", "action", "incident", "extraction",
                        "sync", "conflict", "report", "diary"} : t \in DOMAIN db /\ db[t] = <<>>
           /\ "boq" \in DOMAIN db
           /\ db["boq"] = <<>> \/ db["boq"] = Estimated["boq"]
<1> DEFINE m10 == Overlay(ScheduleTables, [filed |-> <<>>])
           m9 == Overlay(PaperTables, m10)
           m8 == Overlay(SafetyTables, Overlay(SurveyTables, m9))
           m7 == Overlay(SiteTables, m8)
           m6 == Overlay(PortalTables, Overlay(SubcontractTables, m7))
           m5 == Overlay(AssistantTables, Overlay(ContractTables, m6))
           m4 == Overlay(BiddingTables, m5)
           m3 == Overlay(AccountTables, Overlay(ApprovalTables, m4))
           m2 == Overlay(WorkforceTables, m3)
           filed == {"document", "attachment"}
           corrected == filed \cup {"ncr", "action", "incident"}
           captured == corrected \cup {"sync", "conflict", "report", "diary"}
           all == captured \cup {"extraction"}
           Empty(m, names) == \A t \in names : t \in DOMAIN m /\ m[t] = <<>>
<1>1. db = Overlay(Prepared(part), m2)
  BY DEF Init, OfficeTables
<1> HIDE DEF m10
<1>2. Empty(m9, filed)
  BY DEF Overlay, PaperTables
<1> HIDE DEF m9
<1>3. Empty(m8, corrected)
  BY <1>2 DEF Overlay, SafetyTables, SurveyTables
<1> HIDE DEF m8
<1>4. Empty(m7, captured)
  BY <1>3 DEF Overlay, SiteTables
<1> HIDE DEF m7
<1>5. Empty(m6, captured)
  BY <1>4 DEF Overlay, PortalTables, SubcontractTables
<1> HIDE DEF m6
<1>6. Empty(m5, all)
  BY <1>5 DEF Overlay, AssistantTables, ContractTables
<1> HIDE DEF m5
<1>7. Empty(m4, all \cup {"boq"})
  BY <1>6 DEF Overlay, BiddingTables
<1> HIDE DEF m4
<1>8. Empty(m3, all \cup {"boq"})
  BY <1>7 DEF Overlay, AccountTables, ApprovalTables
<1> HIDE DEF m3
<1>9. Empty(m2, all \cup {"boq"})
  BY <1>8 DEF Overlay, WorkforceTables
<1> HIDE DEF m2
<1>10. PICK f : f = Prepared(part)
  OBVIOUS
<1>11. db = [t \in DOMAIN f \cup DOMAIN m2 |-> IF t \in DOMAIN f THEN f[t] ELSE m2[t]]
  BY <1>1, <1>10 DEF Overlay
<1>12. /\ DOMAIN f \cap {"document", "attachment", "ncr", "action", "incident", "extraction",
                         "sync", "conflict", "report", "diary"} = {}
       /\ \/ "boq" \notin DOMAIN f
          \/ "boq" \in DOMAIN f /\ f["boq"] = Estimated["boq"]
  BY <1>10, PreparedForSignOffs
<1>13. QED
  BY ONLY <1>9, <1>11, <1>12

\* Nothing was handed in and nothing was read.
LEMMA NothingSignedOff ==
    ASSUME NEW none, none = <<>>
    PROVE  /\ PaperRowsSound(none, none)
           /\ CorrectiveRowsSound(none, none, none)
           /\ ExtractionRowsSound(none, none)
           /\ FieldRowsSound(none, none, none, none)
<1>1. /\ IsTable(none) /\ DOMAIN none = {} /\ \A R : none \in Seq(R)
      /\ Len(none) = 0
  BY SmallTables DEF IsTable
<1>2. PaperRowsSound(none, none) /\ CorrectiveRowsSound(none, none, none) /\ ExtractionRowsSound(none, none)
  BY <1>1 DEF PaperRowsSound, CorrectiveRowsSound, ExtractionRowsSound
<1>3. Reported(none) = {}
  BY <1>1 DEF Reported
<1>4. Cardinality(Reported(none)) = 0
  BY <1>3, FS_EmptySet
<1>5. FieldRowsSound(none, none, none, none)
  BY <1>1, <1>4 DEF FieldRowsSound
<1>6. QED
  BY <1>2, <1>5

\* The invariant holds where the program starts.
LEMMA FirstSignOffs ==
    ASSUME Init
    PROVE  SignOffsSound
<1>1. PICK none : none = <<>>
  OBVIOUS
<1>2. /\ PaperRowsSound(none, none) /\ CorrectiveRowsSound(none, none, none)
      /\ ExtractionRowsSound(none, none) /\ FieldRowsSound(none, none, none, none)
  BY <1>1, NothingSignedOff
<1>3. /\ \A t \in {"document", "attachment", "ncr", "action", "incident", "extraction",
                   "sync", "conflict", "report", "diary"} : t \in DOMAIN db /\ db[t] = none
      /\ "boq" \in DOMAIN db
      /\ db["boq"] = none \/ db["boq"] = Estimated["boq"]
  BY <1>1, FirstSignOffTables
<1>4. PapersSound
  <2>1. StampSound
    <3>1. req = [p \in Workers |-> Idle] /\ Idle.at = "idle"
      BY DEF Init, Idle
    <3>2. QED
      BY <3>1 DEF StampSound, Alone
  <2>2. QED
    BY <1>2, <1>3, <2>1 DEF PapersSound
<1>5. CorrectiveSound /\ RecordsSound(db)
  BY <1>2, <1>3 DEF CorrectiveSound, RecordsSound
<1>6. ExtractionSound
  <2>1. CASE db["boq"] = none
    BY <1>2, <1>3, <2>1 DEF ExtractionSound
  <2>2. CASE db["boq"] = Estimated["boq"]
    <3>1. PICK item : item = [BOQItem(1, 1) EXCEPT !.priced = TRUE, !.rate = MarkedUp(1)]
      OBVIOUS
    <3>2. PICK items : items = <<item>>
      OBVIOUS
    <3>3. db["boq"] = items
      BY <2>2, <3>1, <3>2 DEF Estimated
    <3>4. "quantity" \in DOMAIN item
      BY <3>1 DEF BOQItem
    <3>5. IsTable(items) /\ DOMAIN items = {1} /\ items[1] = item
      <4>1. \A r : <<r>> \in Seq({r}) /\ DOMAIN <<r>> = {1} /\ <<r>>[1] = r
        BY SmallTables
      <4>2. QED
        BY <3>2, <4>1 DEF IsTable
    <3>6. none \in Seq(JobRows) /\ DOMAIN none = {}
      BY <1>1, SmallTables
    <3>7. ExtractionRowsSound(none, items)
      BY <3>4, <3>5, <3>6 DEF ExtractionRowsSound
    <3>8. QED
      BY <1>3, <3>3, <3>7 DEF ExtractionSound
  <2>3. QED
    BY <1>3, <2>1, <2>2
<1>7. QED
  BY <1>4, <1>5, <1>6 DEF SignOffsSound

\* Sign-offs hold, over every order of requests and of a device's uploads: a closed
\* report and a closed incident have a verified action (close_ncr, close_incident), a
\* record from the field has one entry and what became of it (submit_sync_batch), an
\* attached file is its organisation's and uploaded (resolve_document_attachment), and
\* what was read by machine is committed once, as it was reviewed
\* (commit_extraction_to_boq).
THEOREM SignOffsAreEarned == ~ Concurrent => (Spec => []SignOffsHold)
<1> SUFFICES ASSUME ~ Concurrent PROVE Spec => []SignOffsHold
  OBVIOUS
<1>1. Init => AccessSound /\ SignOffsSound
  BY FirstAccess, FirstSignOffs
<1>2. AccessSound /\ SignOffsSound /\ [Next]_<<part, vars, fieldVars>> => (AccessSound /\ SignOffsSound)'
  BY AccessStaysSound, SignOffsStaySound
<1>3. SignOffsSound => SignOffsHold
  BY SignOffsSoundSays
<1>4. QED
  BY <1>1, <1>2, <1>3, PTL DEF Spec

-----------------------------------------------------------------------------
(* Approvals and what they govern *)

\* One definition of a kind is active, an approval's chain is its definition's, and a
\* record has one approval.
DefinitionRowsSound(definitions, approvals) ==
    /\ IsTable(definitions)
    /\ IsTable(approvals)
    /\ \A d \in DOMAIN definitions : {"status", "kind", "chain"} \subseteq DOMAIN definitions[d]
    /\ \A d, e \in DOMAIN definitions :
         /\ definitions[d].kind = definitions[e].kind
         /\ definitions[d].status = "active" /\ definitions[e].status = "active"
         => d = e
    /\ \A i \in DOMAIN approvals :
         /\ {"status", "kind", "of", "definition", "chain"} \subseteq DOMAIN approvals[i]
         /\ approvals[i].status \in {"pending", "approved", "rejected", "cancelled"}
         /\ approvals[i].definition \in DOMAIN definitions
         /\ approvals[i].chain = definitions[approvals[i].definition].chain
    /\ \A i, j \in DOMAIN approvals :
         approvals[i].kind = approvals[j].kind /\ approvals[i].of = approvals[j].of => i = j

\* An approval names a record that is there, in effect only if it was approved.
GovernedSound(rows, approvals, kind, effect) ==
    /\ IsTable(rows)
    /\ \A k \in DOMAIN rows : "status" \in DOMAIN rows[k]
    /\ \A i \in DOMAIN approvals :
         approvals[i].kind = kind =>
            /\ approvals[i].of \in DOMAIN rows
            /\ rows[approvals[i].of].status \in effect => approvals[i].status = "approved"

\* The tables that approvals govern, the kind of their records and the statuses of effect.
Governed ==
    {[table |-> "amendment", kind |-> AmendmentKind, effect |-> {"approved"}],
     [table |-> "revision", kind |-> BudgetKind, effect |-> {"approved"}],
     [table |-> "permit", kind |-> PermitKind, effect |-> {"approved", "active", "closed"}]}

ConsentTables == {"definition", "approval", "amendment", "revision", "permit"}

ApprovalsSound ==
    /\ ConsentTables \subseteq DOMAIN db
    /\ DefinitionRowsSound(db["definition"], db["approval"])
    /\ \A g \in Governed : GovernedSound(db[g.table], db["approval"], g.kind, g.effect)

\* Each has a table and a kind of its own.
LEMMA GovernedApart ==
    /\ \A g \in Governed : g.table \in {"amendment", "revision", "permit"}
    /\ \A g, h \in Governed : g.kind = h.kind \/ g.table = h.table => g = h
  BY DEF Governed, AmendmentKind, BudgetKind, PermitKind

\* Where a record has one approval at most, that is the latest.
LEMMA LatestIsTheOne ==
    ASSUME NEW s, DefinitionRowsSound(s["definition"], s["approval"]), NEW kind, NEW k,
           NEW i \in DOMAIN s["approval"], s["approval"][i].kind = kind, s["approval"][i].of = k, NEW statuses
    PROVE  LatestApprovalIs(s, kind, k, statuses) <=> s["approval"][i].status \in statuses
<1>1. PICK approvals : approvals = s["approval"]
  OBVIOUS
<1>2. ApprovalsOf(s, kind, k) = {i}
  BY <1>1 DEF ApprovalsOf, DefinitionRowsSound
<1>3. Max({i}) = i
  <2>1. i \in Int
    BY TableRows DEF DefinitionRowsSound, IsTable
  <2>2. QED
    BY <2>1 DEF Max
<1>4. QED
  BY <1>2, <1>3 DEF LatestApprovalIs

\* The invariant implies that records wait.
LEMMA GovernedSoundSays ==
    ASSUME ApprovalsSound, NEW g \in Governed
    PROVE  GovernedWait(g.table, g.kind, g.effect)
<1>1. PICK rows, approvals, kind, effect :
         rows = db[g.table] /\ approvals = db["approval"] /\ kind = g.kind /\ effect = g.effect
  OBVIOUS
<1>2. DefinitionRowsSound(db["definition"], db["approval"]) /\ GovernedSound(rows, approvals, kind, effect)
  BY <1>1 DEF ApprovalsSound
<1>3. ASSUME NEW k \in DOMAIN rows, rows[k].status \in effect, ApprovalsOf(db, kind, k) # {}
      PROVE  LatestApprovalIs(db, kind, k, {"approved"})
  <2>1. PICK i \in DOMAIN approvals : approvals[i].kind = kind /\ approvals[i].of = k
    BY <1>1, <1>3 DEF ApprovalsOf
  <2>2. approvals[i].status \in {"approved"}
    BY <1>2, <1>3, <2>1 DEF GovernedSound
  <2>3. QED
    BY <1>1, <1>2, <2>1, <2>2, LatestIsTheOne
<1>4. QED
  BY <1>1, <1>3 DEF GovernedWait

\* And that definitions stand.
LEMMA DefinitionsSoundSay == ASSUME ApprovalsSound PROVE DefinitionsStand
<1>1. PICK definitions, approvals : definitions = db["definition"] /\ approvals = db["approval"]
  OBVIOUS
<1>2. DefinitionRowsSound(definitions, approvals)
  BY <1>1 DEF ApprovalsSound
<1>3. ASSUME NEW kind PROVE Cardinality(GetActiveWorkflow(db, kind)) <= 1
  <2>1. PICK S : S = GetActiveWorkflow(db, kind)
    OBVIOUS
  <2>2. \A x, y \in S : x = y
    BY <1>1, <1>2, <2>1 DEF DefinitionRowsSound, GetActiveWorkflow
  <2>3. Cardinality(S) \in {0, 1}
    BY ONLY <2>2, AtMostOne
  <2>4. QED
    BY <2>1, <2>3
<1>4. \A i \in DOMAIN approvals : approvals[i].chain = definitions[approvals[i].definition].chain
  BY <1>2 DEF DefinitionRowsSound
<1>5. QED
  BY <1>1, <1>3, <1>4 DEF DefinitionsStand

\* A step that writes none of the five tables keeps the invariant.
LEMMA ApprovalsLeftAlone ==
    ASSUME ApprovalsSound, NEW names, Keeps(names), names \cap ConsentTables = {}
    PROVE  ApprovalsSound'
<1>1. DOMAIN db' = DOMAIN db /\ \A t \in ConsentTables : db'[t] = db[t]
  BY DEF Keeps, ApprovalsSound
<1>2. /\ db'["definition"] = db["definition"] /\ db'["approval"] = db["approval"]
      /\ \A g \in Governed : db'[g.table] = db[g.table]
  BY <1>1, GovernedApart DEF ConsentTables
<1>3. QED
  BY <1>1, <1>2 DEF ApprovalsSound

\* Definitions and approvals change, the governed records do not.
LEMMA ApprovalsSoundAgain ==
    ASSUME ApprovalsSound, NEW definitions, NEW approvals, DefinitionRowsSound(definitions, approvals),
           \A g \in Governed : GovernedSound(db[g.table], approvals, g.kind, g.effect),
           DOMAIN db' = DOMAIN db, db'["definition"] = definitions, db'["approval"] = approvals,
           \A t \in ConsentTables \ {"definition", "approval"} : db'[t] = db[t]
    PROVE  ApprovalsSound'
<1>1. \A g \in Governed : db'[g.table] = db[g.table]
  BY GovernedApart DEF ConsentTables
<1>2. DefinitionRowsSound(db'["definition"], db'["approval"])
  BY ONLY DefinitionRowsSound(definitions, approvals), db'["definition"] = definitions, db'["approval"] = approvals
<1>3. QED
  BY <1>1, <1>2 DEF ApprovalsSound

\* A definition is added, or some change that keep their kind, and their chain where an
\* approval was begun under them.
LEMMA DefinitionsChange ==
    ASSUME NEW definitions, NEW approvals, DefinitionRowsSound(definitions, approvals),
           NEW new, IsTable(new), DOMAIN definitions \subseteq DOMAIN new,
           \A d \in DOMAIN new : {"status", "kind", "chain"} \subseteq DOMAIN new[d],
           \A i \in DOMAIN approvals :
              new[approvals[i].definition].chain = definitions[approvals[i].definition].chain,
           \A d, e \in DOMAIN new :
              /\ new[d].kind = new[e].kind
              /\ new[d].status = "active" /\ new[e].status = "active"
              => d = e
    PROVE  DefinitionRowsSound(new, approvals)
  BY DEF DefinitionRowsSound

\* Approval i with another status; the approvals with one more.
Decided(approvals, i, to) == [approvals EXCEPT ![i] = [approvals[i] EXCEPT !.status = to]]

Begun(approvals, kind, k, d, chain) == Append(approvals, WorkflowInstance(kind, k, d, chain))

\* The engine decides an approval that was pending.
LEMMA ApprovalDecided ==
    ASSUME NEW definitions, NEW approvals, DefinitionRowsSound(definitions, approvals),
           NEW i \in DOMAIN approvals, approvals[i].status = "pending",
           NEW to \in {"approved", "rejected", "cancelled"}
    PROVE  /\ DefinitionRowsSound(definitions, Decided(approvals, i, to))
           /\ \A rows, kind, effect :
                GovernedSound(rows, approvals, kind, effect) =>
                   GovernedSound(rows, Decided(approvals, i, to), kind, effect)
<1>9. PICK row : row = [approvals[i] EXCEPT !.status = to]
  OBVIOUS
<1>10. PICK new : new = [approvals EXCEPT ![i] = row]
  OBVIOUS
<1>11. Decided(approvals, i, to) = new
  BY <1>9, <1>10 DEF Decided
<1>1. IsTable(approvals)
  BY DEF DefinitionRowsSound
<1>2. IsTable(new) /\ DOMAIN new = DOMAIN approvals /\ new[i] = row /\ \A k \in DOMAIN approvals \ {i} : new[k] = approvals[k]
  BY ONLY <1>1, i \in DOMAIN approvals, <1>10, TableChanges
<1>3. {"status", "kind", "of", "definition", "chain"} \subseteq DOMAIN approvals[i]
  BY DEF DefinitionRowsSound
<1>4. /\ {"status", "kind", "of", "definition", "chain"} \subseteq DOMAIN row
      /\ row.status = to /\ row.kind = approvals[i].kind /\ row.of = approvals[i].of
      /\ row.definition = approvals[i].definition /\ row.chain = approvals[i].chain
  BY ONLY <1>3, <1>9
<1>5. \A k \in DOMAIN approvals :
         /\ new[k].kind = approvals[k].kind /\ new[k].of = approvals[k].of
         /\ new[k].definition = approvals[k].definition /\ new[k].chain = approvals[k].chain
         /\ {"status", "kind", "of", "definition", "chain"} \subseteq DOMAIN new[k]
         /\ new[k].status \in {"pending", "approved", "rejected", "cancelled"}
         /\ approvals[k].status = "approved" => new[k].status = "approved"
  BY <1>2, <1>4 DEF DefinitionRowsSound
<1>6. DefinitionRowsSound(definitions, new)
  BY <1>2, <1>5 DEF DefinitionRowsSound
<1>7. ASSUME NEW rows, NEW kind, NEW effect, GovernedSound(rows, approvals, kind, effect)
      PROVE  GovernedSound(rows, new, kind, effect)
  BY <1>2, <1>5, <1>7 DEF GovernedSound
<1>8. QED
  BY <1>6, <1>7, <1>11

OneMore(approvals, new, kind, k, d, chain) ==
    /\ IsTable(new)
    /\ \E y : /\ y \notin DOMAIN approvals /\ DOMAIN new = DOMAIN approvals \cup {y}
              /\ \A i \in DOMAIN approvals : new[i] = approvals[i]
              /\ DOMAIN new[y] = {"status", "kind", "of", "definition", "chain"}
              /\ new[y].status = "pending" /\ new[y].kind = kind /\ new[y].of = k
              /\ new[y].definition = d /\ new[y].chain = chain

\* An approval is added for a record.
LEMMA ApprovalIsAdded ==
    ASSUME NEW approvals, IsTable(approvals), NEW kind, NEW k, NEW d, NEW chain
    PROVE  OneMore(approvals, Begun(approvals, kind, k, d, chain), kind, k, d, chain)
<1>1. PICK y : y = Len(approvals) + 1
  OBVIOUS
<1>2. PICK instance : instance = WorkflowInstance(kind, k, d, chain)
  OBVIOUS
<1>3. PICK new : new = Append(approvals, instance)
  OBVIOUS
<1>4. /\ IsTable(new) /\ y \notin DOMAIN approvals /\ DOMAIN new = DOMAIN approvals \cup {y} /\ new[y] = instance
      /\ \A i \in DOMAIN approvals : new[i] = approvals[i]
  BY ONLY IsTable(approvals), <1>1, <1>3, TableGrows
<1>5. /\ DOMAIN instance = {"status", "kind", "of", "definition", "chain"}
      /\ instance.status = "pending" /\ instance.kind = kind /\ instance.of = k
      /\ instance.definition = d /\ instance.chain = chain
  BY <1>2 DEF WorkflowInstance
<1>6. new = Begun(approvals, kind, k, d, chain)
  BY <1>2, <1>3 DEF Begun
<1>7. OneMore(approvals, new, kind, k, d, chain)
  BY <1>4, <1>5 DEF OneMore
<1>8. QED
  BY <1>6, <1>7

\* An approval begins, of a record that has none.
LEMMA ApprovalBegins ==
    ASSUME NEW definitions, NEW approvals, DefinitionRowsSound(definitions, approvals),
           NEW kind, NEW k, NEW d, d \in DOMAIN definitions,
           \A i \in DOMAIN approvals : approvals[i].kind = kind => approvals[i].of # k,
           NEW chain, chain = definitions[d].chain
    PROVE  DefinitionRowsSound(definitions, Begun(approvals, kind, k, d, chain))
<1>1. IsTable(approvals)
  BY DEF DefinitionRowsSound
<1>2. PICK new : new = Begun(approvals, kind, k, d, chain)
  OBVIOUS
<1>3. OneMore(approvals, new, kind, k, d, chain)
  BY <1>1, <1>2, ApprovalIsAdded
<1>4. DefinitionRowsSound(definitions, new)
  BY <1>3 DEF DefinitionRowsSound, OneMore
<1>5. QED
  BY <1>2, <1>4

\* Definitions change, nothing else does.
LEMMA ApprovalsAfterRewrite ==
    ASSUME ApprovalsSound, NEW new, DefinitionRowsSound(new, db["approval"]), DOMAIN db' = DOMAIN db,
           db'["definition"] = new, \A t \in DOMAIN db \ {"definition"} : db'[t] = db[t]
    PROVE  ApprovalsSound'
<1>1. ConsentTables \subseteq DOMAIN db /\ \A g \in Governed : GovernedSound(db[g.table], db["approval"], g.kind, g.effect)
  BY DEF ApprovalsSound
<1>2. db'["approval"] = db["approval"] /\ \A t \in ConsentTables \ {"definition", "approval"} : db'[t] = db[t]
  BY <1>1 DEF ConsentTables
<1>3. QED
  BY <1>1, <1>2, ApprovalsSoundAgain

\* A definition is changed that is not active afterwards, in its chain only if no approval
\* was begun under it.
LEMMA DefinitionAmended ==
    ASSUME NEW definitions, NEW approvals, DefinitionRowsSound(definitions, approvals),
           NEW d \in DOMAIN definitions, NEW row, {"status", "kind", "chain"} \subseteq DOMAIN row, row.status = "inactive",
           row.chain = definitions[d].chain \/ \A i \in DOMAIN approvals : approvals[i].definition # d,
           NEW new, new = [definitions EXCEPT ![d] = row]
    PROVE  DefinitionRowsSound(new, approvals)
<1>1. IsTable(definitions)
  BY DEF DefinitionRowsSound
<1>2. /\ IsTable(new) /\ DOMAIN new = DOMAIN definitions /\ new[d] = row
      /\ \A x \in DOMAIN definitions \ {d} : new[x] = definitions[x]
  BY ONLY <1>1, d \in DOMAIN definitions, new = [definitions EXCEPT ![d] = row], TableChanges
<1>3. \A x \in DOMAIN new : {"status", "kind", "chain"} \subseteq DOMAIN new[x]
  BY <1>2 DEF DefinitionRowsSound
<1>4. \A i \in DOMAIN approvals : new[approvals[i].definition].chain = definitions[approvals[i].definition].chain
  BY <1>2 DEF DefinitionRowsSound
<1>5. \A x, y \in DOMAIN new :
         new[x].kind = new[y].kind /\ new[x].status = "active" /\ new[y].status = "active" => x = y
  BY <1>2 DEF DefinitionRowsSound
<1>6. DOMAIN definitions \subseteq DOMAIN new /\ DefinitionRowsSound(definitions, approvals)
  BY <1>2
<1>7. QED
  BY ONLY <1>2, <1>3, <1>4, <1>5, <1>6, DefinitionsChange

\* create_workflow_definition, update_workflow_definition, activate_workflow_definition,
\* deactivate_workflow_definition
LEMMA ApprovalsAfterDefinitions ==
    ASSUME ~ Concurrent, ApprovalsSound, NEW p, NEW kind, DefinitionRoutes(p, kind)
    PROVE  ApprovalsSound'
<1>1. PICK definitions, approvals : definitions = db["definition"] /\ approvals = db["approval"]
  OBVIOUS
<1>2. DefinitionRowsSound(definitions, approvals) /\ "definition" \in DOMAIN db
  BY <1>1 DEF ApprovalsSound, ConsentTables
<1>3. IsTable(definitions)
  BY <1>2 DEF DefinitionRowsSound
<1>4. ASSUME NEW new, DefinitionRowsSound(new, approvals), DOMAIN db' = DOMAIN db, db'["definition"] = new,
             \A t \in DOMAIN db \ {"definition"} : db'[t] = db[t]
      PROVE  ApprovalsSound'
  BY <1>1, <1>4, ApprovalsAfterRewrite
<1>5. ASSUME NEW chain, CreateWorkflowDefinition(p, kind, chain) PROVE ApprovalsSound'
  <2>1. PICK n : Create(p, "definition", WorkflowDefinition(kind, n, chain))
    BY <1>5 DEF CreateWorkflowDefinition
  <2>2. PICK row : row = WorkflowDefinition(kind, n, chain)
    OBVIOUS
  <2>3. Create(p, "definition", row)
    BY <2>1, <2>2
  <2>4. /\ DOMAIN db' = DOMAIN db /\ db'["definition"] = Append(db["definition"], row)
        /\ \A u \in DOMAIN db \ {"definition"} : db'[u] = db[u]
    BY <1>2, <2>3, RowCreated
  <2>5. PICK new : new = Append(definitions, row)
    OBVIOUS
  <2>6. PICK y : y = Len(definitions) + 1
    OBVIOUS
  <2>7. /\ IsTable(new) /\ y \notin DOMAIN definitions /\ DOMAIN new = DOMAIN definitions \cup {y}
        /\ new[y] = row /\ \A k \in DOMAIN definitions : new[k] = definitions[k]
    BY ONLY <1>3, <2>5, <2>6, TableGrows
  <2>8. {"status", "kind", "chain"} \subseteq DOMAIN row /\ row.status = "inactive"
    BY <2>2 DEF WorkflowDefinition
  <2>9. \A x \in DOMAIN new : {"status", "kind", "chain"} \subseteq DOMAIN new[x]
    BY <1>2, <2>7, <2>8 DEF DefinitionRowsSound
  <2>10. \A i \in DOMAIN approvals : new[approvals[i].definition].chain = definitions[approvals[i].definition].chain
    BY <1>2, <2>7 DEF DefinitionRowsSound
  <2>11. \A x, z \in DOMAIN new :
           new[x].kind = new[z].kind /\ new[x].status = "active" /\ new[z].status = "active" => x = z
    BY <1>2, <2>7, <2>8 DEF DefinitionRowsSound
  <2>12. DefinitionRowsSound(new, approvals)
    BY <1>2, <2>7, <2>9, <2>10, <2>11, DefinitionsChange
  <2>13. QED
    BY <1>1, <1>4, <2>4, <2>5, <2>12
<1>6. ASSUME NEW d, ActivateWorkflowDefinition(p, d) PROVE ApprovalsSound'
  <2>1. PICK new : new = [f \in DOMAIN definitions |->
                            IF f = d THEN [definitions[f] EXCEPT !.status = "active"]
                            ELSE IF definitions[f].kind = definitions[d].kind
                            THEN [definitions[f] EXCEPT !.status = "inactive"]
                            ELSE definitions[f]]
    OBVIOUS
  <2>2. d \in DOMAIN definitions /\ db' = [db EXCEPT !.definition = new]
    BY <1>1, <1>6, <2>1, SerialRows DEF ActivateWorkflowDefinition, Rows, Commit
  <2>3. /\ DOMAIN db' = DOMAIN db /\ db'["definition"] = new
        /\ \A t \in DOMAIN db \ {"definition"} : db'[t] = db[t]
    BY ONLY <1>2, <2>2
  <2>4. DOMAIN new = DOMAIN definitions /\ new = [f \in DOMAIN definitions |-> new[f]]
    BY <2>1
  <2>5. IsTable(new)
    BY ONLY <1>3, <2>4, TableMapped
  <2>6. \A f \in DOMAIN definitions : {"status", "kind", "chain"} \subseteq DOMAIN definitions[f]
    BY <1>2 DEF DefinitionRowsSound
  <2>7. \A f \in DOMAIN definitions :
          /\ {"status", "kind", "chain"} \subseteq DOMAIN new[f]
          /\ new[f].kind = definitions[f].kind /\ new[f].chain = definitions[f].chain
          /\ new[f].status = "active" =>
               f = d \/ (definitions[f].kind # definitions[d].kind /\ definitions[f].status = "active")
    BY <2>1, <2>6
  <2>8. \A x, z \in DOMAIN new :
           new[x].kind = new[z].kind /\ new[x].status = "active" /\ new[z].status = "active" => x = z
    BY <1>2, <2>2, <2>4, <2>7 DEF DefinitionRowsSound
  <2>9. \A i \in DOMAIN approvals : new[approvals[i].definition].chain = definitions[approvals[i].definition].chain
    BY <1>2, <2>7 DEF DefinitionRowsSound
  <2>10. DefinitionRowsSound(new, approvals)
    BY <1>2, <2>4, <2>5, <2>7, <2>8, <2>9, DefinitionsChange
  <2>11. QED
    BY <1>4, <2>3, <2>10
<1>7. ASSUME NEW d \in DOMAIN definitions, NEW row, {"status", "kind", "chain"} \subseteq DOMAIN row,
             row.status = "inactive",
             row.chain = definitions[d].chain \/ \A i \in DOMAIN approvals : approvals[i].definition # d,
             db' = [db EXCEPT !.definition[d] = row]
      PROVE  ApprovalsSound'
  <2>1. PICK new : new = [definitions EXCEPT ![d] = row]
    OBVIOUS
  <2>2. /\ DOMAIN db' = DOMAIN db /\ db'["definition"] = new
        /\ \A t \in DOMAIN db \ {"definition"} : db'[t] = db[t]
    BY <1>1, <1>2, <1>7, <2>1
  <2>3. DefinitionRowsSound(new, approvals)
    BY <1>2, <1>7, <2>1, DefinitionAmended
  <2>4. QED
    BY <1>4, <2>2, <2>3
<1>8. ASSUME NEW d, DeactivateWorkflowDefinition(p, d) PROVE ApprovalsSound'
  <2>1. PICK row : row = [definitions[d] EXCEPT !.status = "inactive"]
    OBVIOUS
  <2>2. d \in DOMAIN definitions /\ db' = [db EXCEPT !.definition[d] = row]
    BY <1>1, <1>8, <2>1, SerialRows DEF DeactivateWorkflowDefinition, Amend, Rows, Row, Commit
  <2>3. {"status", "kind", "chain"} \subseteq DOMAIN definitions[d]
    BY <1>2, <2>2 DEF DefinitionRowsSound
  <2>4. {"status", "kind", "chain"} \subseteq DOMAIN row /\ row.status = "inactive" /\ row.chain = definitions[d].chain
    BY ONLY <2>1, <2>3
  <2>5. QED
    BY <1>7, <2>2, <2>4
<1>9. ASSUME NEW d, NEW chain, UpdateWorkflowDefinition(p, d, chain) PROVE ApprovalsSound'
  <2>1. PICK row : row = [definitions[d] EXCEPT !.chain = chain]
    OBVIOUS
  <2>2. /\ d \in DOMAIN definitions /\ db' = [db EXCEPT !.definition[d] = row] /\ IsDefinitionEditable(db, d)
    BY <1>1, <1>9, <2>1, SerialRows DEF UpdateWorkflowDefinition, Amend, Rows, Row, Commit
  <2>3. {"status", "kind", "chain"} \subseteq DOMAIN definitions[d]
    BY <1>2, <2>2 DEF DefinitionRowsSound
  <2>4. definitions[d].status = "inactive" /\ \A i \in DOMAIN approvals : approvals[i].definition # d
    BY <1>1, <2>2 DEF IsDefinitionEditable
  <2>5. {"status", "kind", "chain"} \subseteq DOMAIN row /\ row.status = "inactive"
    BY ONLY <2>1, <2>3, <2>4
  <2>6. QED
    BY <1>7, <2>2, <2>4, <2>5
<1>10. QED
  BY <1>5, <1>6, <1>8, <1>9 DEF DefinitionRoutes

\* Of the workflow side, definitions and the engine, every request keeps it.
LEMMA ApprovalsAfterWorkflow ==
    ASSUME ~ Concurrent, ApprovalsSound, NEW p, NEW kind, ApprovalNext(p, kind)
    PROVE  ApprovalsSound'
<1>1. CASE DefinitionRoutes(p, kind)
  BY <1>1, ApprovalsAfterDefinitions
<1>2. ASSUME NEW i, NEW to \in {"approved", "rejected", "cancelled"}, Turn(p, "approval", i, {"pending"}, to)
      PROVE  ApprovalsSound'
  <2>1. PICK definitions, approvals : definitions = db["definition"] /\ approvals = db["approval"]
    OBVIOUS
  <2>2. /\ DefinitionRowsSound(definitions, approvals) /\ "approval" \in DOMAIN db
        /\ \A g \in Governed : GovernedSound(db[g.table], approvals, g.kind, g.effect)
    BY <2>1 DEF ApprovalsSound, ConsentTables
  <2>3. PICK new : new = Decided(approvals, i, to)
    OBVIOUS
  <2>4. /\ DOMAIN db' = DOMAIN db
        /\ db'["approval"] = [db["approval"] EXCEPT ![i] = [db["approval"][i] EXCEPT !.status = to]]
        /\ \A u \in DOMAIN db \ {"approval"} : db'[u] = db[u]
        /\ i \in DOMAIN db["approval"] /\ db["approval"][i].status \in {"pending"}
    BY <1>2, <2>2, StatusTurned
  <2>5. db'["approval"] = new
    BY ONLY <2>1, <2>3, <2>4 DEF Decided
  <2>6. i \in DOMAIN approvals /\ approvals[i].status = "pending"
    BY <2>1, <2>4
  <2>7. /\ DefinitionRowsSound(definitions, new)
        /\ \A rows, k, effect : GovernedSound(rows, approvals, k, effect) => GovernedSound(rows, new, k, effect)
    BY <1>2, <2>2, <2>3, <2>6, ApprovalDecided
  <2>8. \A g \in Governed : GovernedSound(db[g.table], new, g.kind, g.effect)
    BY <2>2, <2>7
  <2>9. ConsentTables \subseteq DOMAIN db
    BY DEF ApprovalsSound
  <2>10. db'["definition"] = definitions /\ \A t \in ConsentTables \ {"definition", "approval"} : db'[t] = db[t]
    BY <2>1, <2>4, <2>9 DEF ConsentTables
  <2>11. QED
    BY <2>4, <2>5, <2>7, <2>8, <2>10, ApprovalsSoundAgain
<1>3. QED
  BY <1>1, <1>2 DEF ApprovalNext, EngineDecides

-----------------------------------------------------------------------------
(* The records that approvals govern *)

\* Of one table and its approvals something changes.
LEMMA GovernedChange ==
    ASSUME ApprovalsSound, NEW g \in Governed, NEW rows, NEW approvals,
           DefinitionRowsSound(db["definition"], approvals), GovernedSound(rows, approvals, g.kind, g.effect),
           \A i \in DOMAIN approvals :
              approvals[i].kind = g.kind \/ (i \in DOMAIN db["approval"] /\ approvals[i] = db["approval"][i]),
           DOMAIN db' = DOMAIN db, db'[g.table] = rows, db'["approval"] = approvals,
           \A t \in ConsentTables \ {g.table, "approval"} : db'[t] = db[t]
    PROVE  ApprovalsSound'
<1>1. g.table \in {"amendment", "revision", "permit"}
  BY GovernedApart
<1>2. db'["definition"] = db["definition"]
  BY <1>1 DEF ConsentTables
<1>3. DefinitionRowsSound(db'["definition"], db'["approval"])
  BY ONLY <1>2, DefinitionRowsSound(db["definition"], approvals), db'["approval"] = approvals
<1>4. ASSUME NEW h \in Governed, h # g PROVE GovernedSound(db'[h.table], db'["approval"], h.kind, h.effect)
  <2>1. h.kind # g.kind /\ h.table # g.table /\ h.table \in {"amendment", "revision", "permit"}
    BY <1>4, GovernedApart
  <2>2. db'[h.table] = db[h.table]
    BY <2>1 DEF ConsentTables
  <2>3. PICK others, old, kind, effect :
          others = db[h.table] /\ old = db["approval"] /\ kind = h.kind /\ effect = h.effect
    OBVIOUS
  <2>4. GovernedSound(others, old, kind, effect)
    BY <2>3 DEF ApprovalsSound
  <2>5. \A i \in DOMAIN approvals : approvals[i].kind = kind => i \in DOMAIN old /\ approvals[i] = old[i]
    BY <2>1, <2>3
  <2>6. GovernedSound(others, approvals, kind, effect)
    BY <2>4, <2>5 DEF GovernedSound
  <2>7. QED
    BY ONLY <2>2, <2>3, <2>6, db'["approval"] = approvals
<1>5. GovernedSound(db'[g.table], db'["approval"], g.kind, g.effect)
  BY ONLY GovernedSound(rows, approvals, g.kind, g.effect), db'[g.table] = rows, db'["approval"] = approvals
<1>6. QED
  BY <1>3, <1>4, <1>5 DEF ApprovalsSound

\* A record is added that nobody has to approve.
LEMMA RecordAdded ==
    ASSUME ApprovalsSound, NEW g \in Governed, NEW row, "status" \in DOMAIN row,
           DOMAIN db' = DOMAIN db, db'[g.table] = Append(db[g.table], row),
           \A t \in ConsentTables \ {g.table} : db'[t] = db[t]
    PROVE  ApprovalsSound'
<1>1. PICK rows, approvals, kind, effect :
         rows = db[g.table] /\ approvals = db["approval"] /\ kind = g.kind /\ effect = g.effect
  OBVIOUS
<1>2. PICK new : new = Append(rows, row)
  OBVIOUS
<1>3. DefinitionRowsSound(db["definition"], approvals) /\ GovernedSound(rows, approvals, kind, effect)
  BY <1>1 DEF ApprovalsSound
<1>4. IsTable(rows)
  BY <1>3 DEF GovernedSound
<1>5. PICK y : y = Len(rows) + 1
  OBVIOUS
<1>6. /\ IsTable(new) /\ y \notin DOMAIN rows /\ DOMAIN new = DOMAIN rows \cup {y} /\ new[y] = row
      /\ \A k \in DOMAIN rows : new[k] = rows[k]
  BY ONLY <1>2, <1>4, <1>5, TableGrows
<1>7. GovernedSound(new, approvals, kind, effect)
  BY <1>3, <1>6 DEF GovernedSound
<1>8. db'[g.table] = new /\ db'["approval"] = approvals
  BY <1>1, <1>2, GovernedApart DEF ConsentTables
<1>9. QED
  BY <1>1, <1>3, <1>7, <1>8, GovernedChange

\* A record is added that waits for its approval.
LEMMA RecordWaits ==
    ASSUME ApprovalsSound, NEW g \in Governed, NEW row, "status" \in DOMAIN row, row.status \notin g.effect,
           NEW d \in DOMAIN db["definition"], DOMAIN db' = DOMAIN db, db'[g.table] = Append(db[g.table], row),
           db'["approval"] = Append(db["approval"],
              WorkflowInstance(g.kind, Len(db[g.table]) + 1, d, db["definition"][d].chain)),
           \A t \in ConsentTables \ {g.table, "approval"} : db'[t] = db[t]
    PROVE  ApprovalsSound'
<1>1. PICK rows, approvals, kind, effect, definitions :
         /\ rows = db[g.table] /\ approvals = db["approval"] /\ kind = g.kind /\ effect = g.effect
         /\ definitions = db["definition"]
  OBVIOUS
<1>2. PICK new : new = Append(rows, row)
  OBVIOUS
<1>3. DefinitionRowsSound(definitions, approvals) /\ GovernedSound(rows, approvals, kind, effect)
  BY <1>1 DEF ApprovalsSound
<1>4. IsTable(rows)
  BY <1>3 DEF GovernedSound
<1>5. PICK y : y = Len(rows) + 1
  OBVIOUS
<1>6. /\ IsTable(new) /\ y \notin DOMAIN rows /\ DOMAIN new = DOMAIN rows \cup {y} /\ new[y] = row
      /\ \A k \in DOMAIN rows : new[k] = rows[k]
  BY ONLY <1>2, <1>4, <1>5, TableGrows
<1>7. \A i \in DOMAIN approvals : approvals[i].kind = kind => approvals[i].of # y
  BY <1>3, <1>6 DEF GovernedSound
<1>8. PICK chain : chain = definitions[d].chain
  OBVIOUS
<1>9. PICK begun : begun = Begun(approvals, kind, y, d, chain)
  OBVIOUS
<1>10. IsTable(approvals) /\ DefinitionRowsSound(definitions, approvals) /\ d \in DOMAIN definitions
  BY <1>1, <1>3 DEF DefinitionRowsSound
<1>11. OneMore(approvals, begun, kind, y, d, chain)
  BY <1>9, <1>10, ApprovalIsAdded
<1>12. DefinitionRowsSound(definitions, begun)
  <2>1. DefinitionRowsSound(definitions, Begun(approvals, kind, y, d, chain))
    BY ONLY <1>7, <1>8, <1>10, ApprovalBegins
  <2>2. QED
    BY <1>9, <2>1
<1>13. row.status \notin effect
  BY <1>1
<1>14. GovernedSound(new, begun, kind, effect)
  BY <1>3, <1>6, <1>13, <1>11 DEF GovernedSound, OneMore
<1>15. \A i \in DOMAIN begun : begun[i].kind = kind \/ (i \in DOMAIN approvals /\ begun[i] = approvals[i])
  BY <1>11 DEF OneMore
<1>16. db'[g.table] = new /\ db'["approval"] = begun
  BY <1>1, <1>2, <1>5, <1>8, <1>9 DEF Begun
<1>17. QED
  BY <1>1, <1>14, <1>15, <1>16, <1>12, GovernedChange

\* A record gets another status, one of effect only if its approval was approved.
LEMMA RecordTurns ==
    ASSUME ApprovalsSound, NEW g \in Governed, NEW k \in DOMAIN db[g.table], NEW row, "status" \in DOMAIN row,
           row.status \in g.effect =>
              \A i \in DOMAIN db["approval"] :
                 db["approval"][i].kind = g.kind /\ db["approval"][i].of = k => db["approval"][i].status = "approved",
           DOMAIN db' = DOMAIN db, db'[g.table] = [db[g.table] EXCEPT ![k] = row],
           \A t \in ConsentTables \ {g.table} : db'[t] = db[t]
    PROVE  ApprovalsSound'
<1>1. PICK rows, approvals, kind, effect :
         rows = db[g.table] /\ approvals = db["approval"] /\ kind = g.kind /\ effect = g.effect
  OBVIOUS
<1>2. PICK new : new = [rows EXCEPT ![k] = row]
  OBVIOUS
<1>3. DefinitionRowsSound(db["definition"], approvals) /\ GovernedSound(rows, approvals, kind, effect)
  BY <1>1 DEF ApprovalsSound
<1>4. IsTable(rows) /\ k \in DOMAIN rows
  BY <1>1, <1>3 DEF GovernedSound
<1>5. /\ IsTable(new) /\ DOMAIN new = DOMAIN rows /\ new[k] = row
      /\ \A x \in DOMAIN rows \ {k} : new[x] = rows[x]
  BY ONLY <1>2, <1>4, TableChanges
<1>6. row.status \in effect =>
         \A i \in DOMAIN approvals : approvals[i].kind = kind /\ approvals[i].of = k => approvals[i].status = "approved"
  BY <1>1
<1>7. GovernedSound(new, approvals, kind, effect)
  BY <1>3, <1>5, <1>6 DEF GovernedSound
<1>8. db'[g.table] = new /\ db'["approval"] = approvals
  BY <1>1, <1>2, GovernedApart DEF ConsentTables
<1>9. QED
  BY <1>1, <1>3, <1>7, <1>8, GovernedChange

\* A record that may be finalized has no approval or an approved one.
LEMMA FinalizedWhenApproved ==
    ASSUME NEW s, DefinitionRowsSound(s["definition"], s["approval"]), NEW kind, NEW k, NEW A, NEW B,
           ~ LatestApprovalIs(s, kind, k, A), ~ LatestApprovalIs(s, kind, k, B),
           A \cup B = {"pending", "rejected", "cancelled"}
    PROVE  \A i \in DOMAIN s["approval"] :
              s["approval"][i].kind = kind /\ s["approval"][i].of = k => s["approval"][i].status = "approved"
<1>1. ASSUME NEW i \in DOMAIN s["approval"], s["approval"][i].kind = kind, s["approval"][i].of = k
      PROVE  s["approval"][i].status = "approved"
  <2>1. s["approval"][i].status \notin A /\ s["approval"][i].status \notin B
    BY <1>1, LatestIsTheOne
  <2>2. s["approval"][i].status \in {"pending", "approved", "rejected", "cancelled"}
    BY DEF DefinitionRowsSound
  <2>3. QED
    BY <2>1, <2>2
<1>2. QED
  BY <1>1

-----------------------------------------------------------------------------
(* Amendments of contracts *)

\* The amendments of a contract and a type that took effect, and what they add up to.
Effective(amendments, c, type) ==
    {k \in DOMAIN amendments :
        /\ amendments[k].contract = c
        /\ amendments[k].type = type
        /\ amendments[k].status = "approved"}

AddedUp(amendments, c, type) == SumOf(amendments, "delta", Effective(amendments, c, type))

AmendmentsTyped(amendments) ==
    /\ IsTable(amendments)
    /\ \A k \in DOMAIN amendments :
         /\ {"status", "contract", "type", "delta"} \subseteq DOMAIN amendments[k]
         /\ amendments[k].delta \in Nat

\* The completion date is the original one and the time since approved, and no date
\* where there was none.
DateHolds(contract, time) ==
    IF contract.original = Undated THEN contract.completion = Undated
    ELSE contract.completion \in Nat /\ contract.completion = contract.original + time

ContractHolds(contract, price, time) ==
    /\ {"base", "value", "original", "completion"} \subseteq DOMAIN contract
    /\ contract.base \in Int
    /\ contract.original \in Int
    /\ contract.value = contract.base + price
    /\ DateHolds(contract, time)

AmendmentRowsSound(contracts, amendments) ==
    /\ IsTable(contracts)
    /\ AmendmentsTyped(amendments)
    /\ \A k \in DOMAIN amendments : amendments[k].contract \in DOMAIN contracts
    /\ \A c \in DOMAIN contracts :
         ContractHolds(contracts[c], AddedUp(amendments, c, "price"), AddedUp(amendments, c, "time"))

AmendmentsSound ==
    /\ {"contract", "amendment"} \subseteq DOMAIN db
    /\ AmendmentRowsSound(db["contract"], db["amendment"])

\* The invariant implies the property.
LEMMA AmendmentsSoundSay == ASSUME AmendmentsSound PROVE AmendmentsAddUp
<1>1. PICK contracts, amendments : contracts = db["contract"] /\ amendments = db["amendment"]
  OBVIOUS
<1>2. AmendmentRowsSound(contracts, amendments)
  BY <1>1 DEF AmendmentsSound
<1>3. \A c, type : ApprovedDeltas(c, type) = AddedUp(amendments, c, type)
  BY <1>1 DEF ApprovedDeltas, AddedUp, Effective
<1>4. QED
  BY <1>1, <1>2, <1>3 DEF AmendmentsAddUp, AmendmentRowsSound, ContractHolds, DateHolds

\* Where the two tables are sound after a step, the invariant holds again.
LEMMA AmendmentsSoundAgain ==
    ASSUME AmendmentsSound, NEW contracts, NEW amendments, AmendmentRowsSound(contracts, amendments),
           DOMAIN db' = DOMAIN db, db'["contract"] = contracts, db'["amendment"] = amendments
    PROVE  AmendmentsSound'
<1>1. AmendmentRowsSound(db'["contract"], db'["amendment"])
  BY ONLY AmendmentRowsSound(contracts, amendments), db'["contract"] = contracts, db'["amendment"] = amendments
<1>2. QED
  BY <1>1 DEF AmendmentsSound

\* A step that writes neither keeps it.
LEMMA AmendmentsLeftAlone ==
    ASSUME AmendmentsSound, NEW names, Keeps(names), names \cap {"contract", "amendment"} = {}
    PROVE  AmendmentsSound'
<1>1. DOMAIN db' = DOMAIN db /\ db'["contract"] = db["contract"] /\ db'["amendment"] = db["amendment"]
  BY DEF Keeps, AmendmentsSound
<1>2. AmendmentRowsSound(db["contract"], db["amendment"])
  BY DEF AmendmentsSound
<1>3. QED
  BY <1>1, <1>2, AmendmentsSoundAgain

\* What some amendments add up to is a sum of finitely many naturals.
LEMMA AddedUpIsWhole ==
    ASSUME NEW amendments, AmendmentsTyped(amendments), NEW c, NEW type
    PROVE  /\ IsFiniteSet(Effective(amendments, c, type))
           /\ Effective(amendments, c, type) \subseteq DOMAIN amendments
           /\ \A k \in Effective(amendments, c, type) : amendments[k]["delta"] \in Int
           /\ AddedUp(amendments, c, type) \in Int
<1>1. PICK S : S = Effective(amendments, c, type)
  OBVIOUS
<1>2. IsTable(amendments) /\ \A k \in DOMAIN amendments : amendments[k]["delta"] \in Int
  BY DEF AmendmentsTyped
<1>3. IsFiniteSet(DOMAIN amendments)
  <2>1. PICK R : amendments \in Seq(R)
    BY <1>2 DEF IsTable
  <2>2. QED
    BY ONLY <2>1, TableRows
<1>4. S \in SUBSET DOMAIN amendments
  BY <1>1 DEF Effective
<1>5. IsFiniteSet(S)
  BY <1>3, <1>4, FS_Subset
<1>6. \A k \in S : amendments[k]["delta"] \in Int
  BY <1>2, <1>4
<1>7. SumOf(amendments, "delta", S) \in Int
  BY ONLY <1>4, <1>5, <1>6, SumOfIsInteger
<1>8. QED
  BY <1>1, <1>4, <1>5, <1>6, <1>7 DEF AddedUp

\* Row k of the amendments is new or changed, and no other.
OnlyRow(amendments, new, k) ==
    /\ AmendmentsTyped(new)
    /\ k \in DOMAIN new /\ DOMAIN new = DOMAIN amendments \cup {k}
    /\ \A x \in DOMAIN amendments \ {k} : new[x] = amendments[x]
    /\ k \in DOMAIN amendments => amendments[k].status # "approved"

\* It has no effect: what there is adds up to the same.
LEMMA AddedUpAsBefore ==
    ASSUME NEW amendments, AmendmentsTyped(amendments), NEW new, NEW k, OnlyRow(amendments, new, k), NEW c, NEW type,
           ~ (new[k].status = "approved" /\ new[k].contract = c /\ new[k].type = type)
    PROVE  AddedUp(new, c, type) = AddedUp(amendments, c, type)
<1>1. PICK S : S = Effective(amendments, c, type)
  OBVIOUS
<1>2. Effective(new, c, type) = S
  BY <1>1 DEF OnlyRow, Effective
<1>3. IsFiniteSet(S) /\ S \subseteq DOMAIN amendments
  BY <1>1, AddedUpIsWhole
<1>4. S \subseteq DOMAIN new /\ \A x \in S : new[x]["delta"] = amendments[x]["delta"]
  BY <1>1, <1>3 DEF OnlyRow, Effective
<1>5. SumOf(new, "delta", S) = SumOf(amendments, "delta", S)
  BY ONLY <1>3, <1>4, SumOfSameRows
<1>6. QED
  BY <1>1, <1>2, <1>5 DEF AddedUp

\* It takes effect: its delta is added.
LEMMA AddedUpWithOne ==
    ASSUME NEW amendments, AmendmentsTyped(amendments), NEW new, NEW k, OnlyRow(amendments, new, k), NEW c, NEW type,
           new[k].status = "approved" /\ new[k].contract = c /\ new[k].type = type
    PROVE  AddedUp(new, c, type) = AddedUp(amendments, c, type) + new[k].delta
<1>1. PICK S : S = Effective(amendments, c, type)
  OBVIOUS
<1>2. PICK R : R = Effective(new, c, type)
  OBVIOUS
<1>3. R = S \cup {k} /\ k \notin S
  BY <1>1, <1>2 DEF OnlyRow, Effective
<1>4. IsFiniteSet(S) /\ S \subseteq DOMAIN amendments /\ \A x \in S : amendments[x]["delta"] \in Int
  BY <1>1, AddedUpIsWhole
<1>5. /\ R \subseteq DOMAIN new /\ new[k]["delta"] \in Int
      /\ \A x \in S : new[x]["delta"] = amendments[x]["delta"]
  BY <1>1, <1>2, <1>3, <1>4 DEF OnlyRow, Effective, AmendmentsTyped
<1>6. SumOf(new, "delta", R) = SumOf(amendments, "delta", S) + new[k]["delta"]
  BY ONLY <1>3, <1>4, <1>5, SumOfOneMore
<1>7. QED
  BY <1>1, <1>2, <1>6 DEF AddedUp

\* What an amendment does to its contract.
DateToExtend(contract) == IF contract.completion # Undated THEN contract.completion ELSE contract.original

Amended(contract, type, delta) ==
    CASE type = "time" /\ DateToExtend(contract) # Undated -> [contract EXCEPT !.completion = DateToExtend(contract) + delta]
      [] type = "price" -> [contract EXCEPT !.value = @ + delta]
      [] OTHER          -> contract

\* An amendment without effect.
LEMMA AmendmentFiled ==
    ASSUME NEW contracts, NEW amendments, AmendmentRowsSound(contracts, amendments),
           NEW new, NEW k, OnlyRow(amendments, new, k), new[k].contract \in DOMAIN contracts, new[k].status # "approved"
    PROVE  AmendmentRowsSound(contracts, new)
<1>1. AmendmentsTyped(amendments)
  BY DEF AmendmentRowsSound
<1>2. \A c, type : AddedUp(new, c, type) = AddedUp(amendments, c, type)
  BY <1>1, AddedUpAsBefore
<1>3. QED
  BY <1>2 DEF AmendmentRowsSound, OnlyRow

\* An amendment takes effect.
LEMMA AmendmentTakesEffect ==
    ASSUME NEW contracts, NEW amendments, AmendmentRowsSound(contracts, amendments),
           NEW new, NEW k, OnlyRow(amendments, new, k), new[k].status = "approved",
           NEW c \in DOMAIN contracts, new[k].contract = c,
           NEW after, after = [contracts EXCEPT ![c] = Amended(contracts[c], new[k].type, new[k].delta)]
    PROVE  AmendmentRowsSound(after, new)
<1>1. AmendmentsTyped(amendments) /\ IsTable(contracts)
  BY DEF AmendmentRowsSound
<1>2. PICK row, type, delta : row = Amended(contracts[c], type, delta) /\ type = new[k].type /\ delta = new[k].delta
  OBVIOUS
<1>3. /\ IsTable(after) /\ DOMAIN after = DOMAIN contracts /\ after[c] = row
      /\ \A x \in DOMAIN contracts \ {c} : after[x] = contracts[x]
  <2>1. after = [contracts EXCEPT ![c] = row]
    BY <1>2
  <2>2. QED
    BY ONLY <1>1, <2>1, c \in DOMAIN contracts, TableChanges
<1>4. \A x \in DOMAIN contracts \ {c} : \A y : AddedUp(new, x, y) = AddedUp(amendments, x, y)
  BY <1>1, AddedUpAsBefore
<1>5. \A y : y # type => AddedUp(new, c, y) = AddedUp(amendments, c, y)
  BY <1>1, <1>2, AddedUpAsBefore
<1>6. AddedUp(new, c, type) = AddedUp(amendments, c, type) + delta
  BY <1>1, <1>2, AddedUpWithOne
<1>7. delta \in Nat /\ \A y : AddedUp(amendments, c, y) \in Int
  BY <1>1, <1>2, AddedUpIsWhole DEF OnlyRow, AmendmentsTyped
<1>8. PICK contract, price, time :
         contract = contracts[c] /\ price = AddedUp(amendments, c, "price") /\ time = AddedUp(amendments, c, "time")
  OBVIOUS
<1>9. ContractHolds(contract, price, time) /\ price \in Int /\ time \in Int
  BY <1>7, <1>8 DEF AmendmentRowsSound
<1>10. ContractHolds(row, AddedUp(new, c, "price"), AddedUp(new, c, "time"))
  <2>1. CASE type = "time"
    <3>1. AddedUp(new, c, "time") = time + delta /\ AddedUp(new, c, "price") = price
      BY <1>5, <1>6, <1>8, <2>1
    <3>2. CASE contract.original = Undated
      <4>1. DateToExtend(contract) = Undated
        BY <1>9, <3>2 DEF ContractHolds, DateHolds, DateToExtend
      <4>2. row = contract
        BY <1>2, <1>8, <2>1, <4>1 DEF Amended
      <4>3. QED
        BY ONLY <1>9, <3>1, <3>2, <4>2 DEF ContractHolds, DateHolds
    <3>3. CASE contract.original # Undated
      <4>1. contract.completion \in Nat /\ contract.completion = contract.original + time
        BY <1>9, <3>3 DEF ContractHolds, DateHolds
      <4>2. DateToExtend(contract) = contract.completion /\ DateToExtend(contract) # Undated
        BY <4>1 DEF DateToExtend, Undated
      <4>3. row = [contract EXCEPT !.completion = contract.completion + delta]
        BY <1>2, <1>8, <2>1, <4>2 DEF Amended
      <4>4. QED
        BY ONLY <1>7, <1>9, <3>1, <3>3, <4>1, <4>3 DEF ContractHolds, DateHolds
    <3>4. QED
      BY <3>2, <3>3
  <2>2. CASE type = "price"
    <3>1. row = [contract EXCEPT !.value = @ + delta]
      BY <1>2, <1>8, <2>2 DEF Amended
    <3>2. AddedUp(new, c, "price") = price + delta /\ AddedUp(new, c, "time") = time
      BY <1>5, <1>6, <1>8, <2>2
    <3>3. QED
      BY ONLY <1>7, <1>9, <3>1, <3>2 DEF ContractHolds, DateHolds
  <2>3. CASE type \notin {"time", "price"}
    <3>1. row = contract
      BY <1>2, <1>8, <2>3 DEF Amended
    <3>2. AddedUp(new, c, "price") = price /\ AddedUp(new, c, "time") = time
      BY <1>5, <1>8, <2>3
    <3>3. QED
      BY ONLY <1>9, <3>1, <3>2
  <2>4. QED
    BY <2>1, <2>2, <2>3
<1>11. \A x \in DOMAIN after : ContractHolds(after[x], AddedUp(new, x, "price"), AddedUp(new, x, "time"))
  <2>1. ASSUME NEW x \in DOMAIN contracts, x # c
        PROVE  ContractHolds(after[x], AddedUp(new, x, "price"), AddedUp(new, x, "time"))
    BY <1>3, <1>4, <2>1 DEF AmendmentRowsSound
  <2>2. QED
    BY <1>3, <1>10, <2>1
<1>12. \A x \in DOMAIN new : new[x].contract \in DOMAIN after
  BY <1>3 DEF AmendmentRowsSound, OnlyRow
<1>13. AmendmentsTyped(new)
  BY DEF OnlyRow
<1>14. QED
  BY <1>3, <1>11, <1>12, <1>13 DEF AmendmentRowsSound

\* A contract is awarded, which nothing amends yet.
LEMMA ContractIsAwarded ==
    ASSUME NEW contracts, NEW amendments, AmendmentRowsSound(contracts, amendments),
           NEW t, NEW value \in Int, NEW original \in Nat \cup {Undated}
    PROVE  AmendmentRowsSound(Append(contracts, Contract(t, value, original)), amendments)
<1>1. PICK row : row = Contract(t, value, original)
  OBVIOUS
<1>2. PICK new : new = Append(contracts, row)
  OBVIOUS
<1>3. PICK y : y = Len(contracts) + 1
  OBVIOUS
<1>4. IsTable(contracts)
  BY DEF AmendmentRowsSound
<1>5. /\ IsTable(new) /\ y \notin DOMAIN contracts /\ DOMAIN new = DOMAIN contracts \cup {y} /\ new[y] = row
      /\ \A x \in DOMAIN contracts : new[x] = contracts[x]
  BY ONLY <1>2, <1>3, <1>4, TableGrows
<1>6. \A type : Effective(amendments, y, type) = {}
  BY <1>5 DEF AmendmentRowsSound, Effective
<1>7. \A type : AddedUp(amendments, y, type) = 0
  BY <1>6, SumOfNoRows DEF AddedUp
<1>8. ContractHolds(row, 0, 0)
  BY <1>1 DEF Contract, ContractHolds, DateHolds, Undated
<1>9. AmendmentRowsSound(new, amendments)
  BY <1>5, <1>7, <1>8 DEF AmendmentRowsSound
<1>10. QED
  BY <1>1, <1>2, <1>9

\* What the effect of an amendment leaves and what it changes.
LEMMA EffectsApplied ==
    ASSUME NEW s, "contract" \in DOMAIN s, NEW contracts, contracts = s["contract"], IsTable(contracts),
           NEW c \in DOMAIN contracts, NEW type, NEW delta
    PROVE  /\ DOMAIN ApplyAmendmentEffects(s, c, type, delta) = DOMAIN s
           /\ ApplyAmendmentEffects(s, c, type, delta)["contract"]
                = [contracts EXCEPT ![c] = Amended(contracts[c], type, delta)]
           /\ \A t \in DOMAIN s \ {"contract"} : ApplyAmendmentEffects(s, c, type, delta)[t] = s[t]
<1>1. PICK row : row = Amended(contracts[c], type, delta)
  OBVIOUS
<1>2. PICK after : after = ApplyAmendmentEffects(s, c, type, delta)
  OBVIOUS
<1>3. CASE type = "time" /\ DateToExtend(contracts[c]) # Undated
  <2>1. PICK date : date = DateToExtend(contracts[c]) + delta
    OBVIOUS
  <2>2. after = [s EXCEPT !["contract"][c]["completion"] = date]
    BY <1>2, <1>3, <2>1 DEF ApplyAmendmentEffects, DateToExtend
  <2>3. row = [contracts[c] EXCEPT !["completion"] = date]
    BY <1>1, <1>3, <2>1 DEF Amended
  <2>4. after = [s EXCEPT !["contract"] = [contracts EXCEPT ![c] = row]]
    BY <2>2, <2>3
  <2>5. QED
    BY <1>1, <1>2, <2>4
<1>4. CASE type = "price"
  <2>1. after = [s EXCEPT !["contract"][c]["value"] = @ + delta]
    BY <1>2, <1>4 DEF ApplyAmendmentEffects
  <2>2. row = [contracts[c] EXCEPT !["value"] = @ + delta]
    BY <1>1, <1>4 DEF Amended
  <2>3. after = [s EXCEPT !["contract"] = [contracts EXCEPT ![c] = row]]
    BY <2>1, <2>2
  <2>4. QED
    BY <1>1, <1>2, <2>3
<1>5. CASE ~ (type = "time" /\ DateToExtend(contracts[c]) # Undated) /\ type # "price"
  <2>1. after = s /\ row = contracts[c]
    BY <1>1, <1>2, <1>5 DEF ApplyAmendmentEffects, Amended, DateToExtend
  <2>2. [contracts EXCEPT ![c] = row] = contracts
    <3>1. PICK R : contracts \in Seq(R)
      BY DEF IsTable
    <3>2. QED
      BY ONLY <2>1, <3>1, c \in DOMAIN contracts, TableRows
  <2>3. QED
    BY <1>1, <1>2, <2>1, <2>2
<1>6. QED
  BY <1>3, <1>4, <1>5


\* record_amendment: at once, or waiting for its approval.
LEMMA AmendmentProposed ==
    ASSUME ~ Concurrent, ApprovalsSound, AmendmentsSound, NEW p, NEW c, NEW type, NEW delta \in Values,
           RecordAmendment(p, c, type, delta)
    PROVE  ApprovalsSound' /\ AmendmentsSound'
<1>1. PICK contracts, amendments, approvals, definitions :
         /\ contracts = db["contract"] /\ amendments = db["amendment"]
         /\ approvals = db["approval"] /\ definitions = db["definition"]
  OBVIOUS
<1>2. /\ AmendmentRowsSound(contracts, amendments) /\ "contract" \in DOMAIN db /\ "amendment" \in DOMAIN db
      /\ ConsentTables \subseteq DOMAIN db
  BY <1>1 DEF AmendmentsSound, ApprovalsSound
<1>3. c \in DOMAIN contracts /\ IsTable(contracts) /\ AmendmentsTyped(amendments) /\ IsTable(amendments)
  BY <1>1, <1>2, SerialRows DEF RecordAmendment, Rows, AmendmentRowsSound, AmendmentsTyped
<1>4. PICK row : row = ContractAmendment(c, type, delta)
  OBVIOUS
<1>5. PICK wait : wait = [row EXCEPT !.status = "pending"]
  OBVIOUS
<1>6. /\ DOMAIN row = {"status", "contract", "type", "delta"} /\ row.status = "approved" /\ row.contract = c
      /\ row.type = type /\ row.delta = delta
      /\ DOMAIN wait = {"status", "contract", "type", "delta"} /\ wait.status = "pending" /\ wait.contract = c
      /\ wait.delta = delta
  BY <1>4, <1>5 DEF ContractAmendment
<1>7. delta \in Nat
  BY ContractsAssumption
<1>8. PICK g : g = [table |-> "amendment", kind |-> AmendmentKind, effect |-> {"approved"}]
  OBVIOUS
<1>9. g \in Governed /\ g.table = "amendment" /\ g.kind = AmendmentKind /\ g.effect = {"approved"}
  BY <1>8 DEF Governed
<1>10. ASSUME NEW one, DOMAIN one = {"status", "contract", "type", "delta"}, one.contract = c, one.delta = delta,
              NEW new, new = Append(amendments, one)
       PROVE  /\ OnlyRow(amendments, new, Len(amendments) + 1) /\ new[Len(amendments) + 1] = one
  <2>1. PICK y : y = Len(amendments) + 1
    OBVIOUS
  <2>2. /\ IsTable(new) /\ y \notin DOMAIN amendments /\ DOMAIN new = DOMAIN amendments \cup {y} /\ new[y] = one
        /\ \A x \in DOMAIN amendments : new[x] = amendments[x]
    BY ONLY <1>3, <1>10, <2>1, TableGrows
  <2>3. AmendmentsTyped(new)
    BY <1>3, <1>7, <1>10, <2>2 DEF AmendmentsTyped
  <2>4. QED
    BY <2>1, <2>2, <2>3 DEF OnlyRow
<1>11. PICK y : y = Len(amendments) + 1
  OBVIOUS
<1>12. CASE db' = ApplyAmendmentEffects(Insert(db, "amendment", row), c, type, delta)
  <2>1. PICK s : s = Insert(db, "amendment", row)
    OBVIOUS
  <2>2. PICK new : new = Append(amendments, row)
    OBVIOUS
  <2>3. /\ DOMAIN s = DOMAIN db /\ s["amendment"] = new /\ s["contract"] = contracts
        /\ \A t \in DOMAIN db \ {"amendment"} : s[t] = db[t]
    BY <1>1, <1>2, <2>1, <2>2 DEF Insert
  <2>4. PICK after : after = [contracts EXCEPT ![c] = Amended(contracts[c], type, delta)]
    OBVIOUS
  <2>5. "contract" \in DOMAIN s /\ contracts = s["contract"]
    BY <1>2, <2>3
  <2>6. /\ DOMAIN ApplyAmendmentEffects(s, c, type, delta) = DOMAIN s
        /\ ApplyAmendmentEffects(s, c, type, delta)["contract"]
             = [contracts EXCEPT ![c] = Amended(contracts[c], type, delta)]
        /\ \A t \in DOMAIN s \ {"contract"} : ApplyAmendmentEffects(s, c, type, delta)[t] = s[t]
    BY ONLY <1>3, <2>5, EffectsApplied
  <2>7. /\ DOMAIN db' = DOMAIN db /\ db'["contract"] = after /\ db'["amendment"] = new
        /\ \A t \in DOMAIN db \ {"amendment", "contract"} : db'[t] = db[t]
    BY <1>2, <1>12, <2>1, <2>3, <2>4, <2>6
  <2>8. OnlyRow(amendments, new, y) /\ new[y] = row
    BY <1>6, <1>10, <1>11, <2>2
  <2>9. new[y].status = "approved" /\ new[y].contract = c /\ c \in DOMAIN contracts
        /\ after = [contracts EXCEPT ![c] = Amended(contracts[c], new[y].type, new[y].delta)]
    BY <1>3, <1>6, <2>4, <2>8
  <2>10. AmendmentRowsSound(after, new)
    BY ONLY <1>2, <2>8, <2>9, AmendmentTakesEffect
  <2>11. AmendmentsSound'
    BY <2>7, <2>10, AmendmentsSoundAgain
  <2>12. /\ "status" \in DOMAIN row /\ db'[g.table] = Append(db[g.table], row)
         /\ \A t \in ConsentTables \ {g.table} : db'[t] = db[t]
    BY <1>1, <1>2, <1>6, <1>9, <2>2, <2>7 DEF ConsentTables
  <2>13. ApprovalsSound'
    BY <1>9, <2>7, <2>12, RecordAdded
  <2>14. QED
    BY <2>11, <2>13
<1>13. ASSUME NEW d \in DOMAIN definitions,
              db' = StartWorkflowInstance(Insert(db, "amendment", wait), AmendmentKind, y, d)
       PROVE  ApprovalsSound' /\ AmendmentsSound'
  <2>1. PICK new : new = Append(amendments, wait)
    OBVIOUS
  <2>2. PICK begun : begun = Append(approvals, WorkflowInstance(AmendmentKind, y, d, definitions[d].chain))
    OBVIOUS
  <2>3. /\ DOMAIN db' = DOMAIN db /\ db'["amendment"] = new /\ db'["approval"] = begun
        /\ \A t \in DOMAIN db \ {"amendment", "approval"} : db'[t] = db[t]
    BY <1>1, <1>2, <1>13, <2>1, <2>2 DEF StartWorkflowInstance, Insert, ConsentTables
  <2>4. OnlyRow(amendments, new, y) /\ new[y] = wait
    BY <1>6, <1>10, <1>11, <2>1
  <2>5. new[y].contract \in DOMAIN contracts /\ new[y].status # "approved"
    BY <1>3, <1>6, <2>4
  <2>6. AmendmentRowsSound(contracts, new)
    BY ONLY <1>2, <2>4, <2>5, AmendmentFiled
  <2>7. AmendmentsSound'
    BY <1>1, <1>2, <2>3, <2>6, AmendmentsSoundAgain
  <2>8. /\ "status" \in DOMAIN wait /\ wait.status \notin g.effect /\ d \in DOMAIN db["definition"]
        /\ db'[g.table] = Append(db[g.table], wait)
        /\ db'["approval"] = Append(db["approval"],
              WorkflowInstance(g.kind, Len(db[g.table]) + 1, d, db["definition"][d].chain))
        /\ \A t \in ConsentTables \ {g.table, "approval"} : db'[t] = db[t]
    BY <1>1, <1>2, <1>6, <1>9, <1>11, <2>1, <2>2, <2>3 DEF ConsentTables
  <2>9. ApprovalsSound'
    BY <1>9, <2>3, <2>8, RecordWaits
  <2>10. QED
    BY <2>7, <2>9
<1>14. Len(Insert(db, "amendment", wait)["amendment"]) = y
  <2>1. PICK R : amendments \in Seq(R) /\ wait \in R
    <3>1. PICK Q : amendments \in Seq(Q)
      BY <1>3 DEF IsTable
    <3>2. amendments \in Seq(Q \cup {wait})
      BY <3>1
    <3>3. QED
      BY <3>2
  <2>2. Len(Append(amendments, wait)) = Len(amendments) + 1
    BY ONLY <2>1, TableInsert
  <2>3. Insert(db, "amendment", wait)["amendment"] = Append(amendments, wait)
    BY <1>1, <1>2 DEF Insert
  <2>4. QED
    BY <1>11, <2>2, <2>3
<1>15. GetActiveWorkflow(db, AmendmentKind) \subseteq DOMAIN definitions
  BY <1>1 DEF GetActiveWorkflow
<1>16. \/ db' = ApplyAmendmentEffects(Insert(db, "amendment", row), c, type, delta)
       \/ \E d \in DOMAIN definitions : db' = StartWorkflowInstance(Insert(db, "amendment", wait), AmendmentKind, y, d)
  BY <1>4, <1>5, <1>14, <1>15, SerialRows DEF RecordAmendment, Propose, Commit
<1>17. QED
  BY <1>12, <1>13, <1>16

\* finalize_amendment: in effect, or rejected.
LEMMA AmendmentFinalized ==
    ASSUME ~ Concurrent, ApprovalsSound, AmendmentsSound, NEW p, NEW k, FinalizeAmendment(p, k)
    PROVE  ApprovalsSound' /\ AmendmentsSound'
<1>1. PICK contracts, amendments : contracts = db["contract"] /\ amendments = db["amendment"]
  OBVIOUS
<1>2. /\ AmendmentRowsSound(contracts, amendments) /\ "contract" \in DOMAIN db /\ "amendment" \in DOMAIN db
      /\ ConsentTables \subseteq DOMAIN db /\ DefinitionRowsSound(db["definition"], db["approval"])
  BY <1>1 DEF AmendmentsSound, ApprovalsSound
<1>3. IsTable(contracts) /\ AmendmentsTyped(amendments) /\ IsTable(amendments)
  BY <1>2 DEF AmendmentRowsSound, AmendmentsTyped
<1>4. PICK old, no, yes : /\ old = amendments[k] /\ no = [old EXCEPT !.status = "rejected"]
                         /\ yes = [old EXCEPT !.status = "approved"]
  OBVIOUS
<1>5. PICK refused, granted : /\ refused = [amendments EXCEPT ![k] = no] /\ granted = [amendments EXCEPT ![k] = yes]
  OBVIOUS
<1>6. PICK s, c : s = [db EXCEPT !["amendment"] = granted] /\ c = old.contract
  OBVIOUS
<1>7. /\ k \in DOMAIN amendments /\ old.status = "pending" /\ ~ LatestApprovalIs(db, AmendmentKind, k, {"pending"})
      /\ \/ db' = [db EXCEPT !["amendment"] = refused]
         \/ /\ ~ LatestApprovalIs(db, AmendmentKind, k, {"rejected", "cancelled"})
            /\ db' = ApplyAmendmentEffects(s, s["amendment"][k].contract, s["amendment"][k].type, s["amendment"][k].delta)
  <2>1. /\ k \in DOMAIN amendments /\ old.status = "pending" /\ ~ LatestApprovalIs(db, AmendmentKind, k, {"pending"})
        /\ \/ db' = [db EXCEPT !["amendment"][k]["status"] = "rejected"]
           \/ /\ ~ LatestApprovalIs(db, AmendmentKind, k, {"rejected", "cancelled"})
              /\ \E q : /\ q = [db EXCEPT !["amendment"][k]["status"] = "approved"]
                        /\ db' = ApplyAmendmentEffects(q, q["amendment"][k].contract, q["amendment"][k].type,
                                                       q["amendment"][k].delta)
    BY <1>1, <1>4, SerialRows DEF FinalizeAmendment, Finalize, MayFinalize, Commit
  <2>2. /\ [db EXCEPT !["amendment"][k]["status"] = "rejected"] = [db EXCEPT !["amendment"] = refused]
        /\ [db EXCEPT !["amendment"][k]["status"] = "approved"] = s
    BY <1>1, <1>4, <1>5, <1>6
  <2>3. QED
    BY <2>1, <2>2
<1>8. /\ {"status", "contract", "type", "delta"} \subseteq DOMAIN old /\ old.delta \in Nat
      /\ c \in DOMAIN contracts
  BY <1>2, <1>3, <1>4, <1>6, <1>7 DEF AmendmentRowsSound, AmendmentsTyped
<1>9. /\ DOMAIN no = DOMAIN old /\ no.status = "rejected" /\ no.contract = c /\ no.delta = old.delta
      /\ DOMAIN yes = DOMAIN old /\ yes.status = "approved" /\ yes.contract = c /\ yes.delta = old.delta
      /\ yes.type = old.type
  BY ONLY <1>4, <1>6, <1>8
<1>10. ASSUME NEW one, DOMAIN one = DOMAIN old, one.delta = old.delta, NEW new, new = [amendments EXCEPT ![k] = one]
       PROVE  OnlyRow(amendments, new, k) /\ new[k] = one
  <2>1. /\ IsTable(new) /\ DOMAIN new = DOMAIN amendments /\ new[k] = one
        /\ \A x \in DOMAIN amendments \ {k} : new[x] = amendments[x]
    BY ONLY <1>3, <1>7, <1>10, TableChanges
  <2>2. AmendmentsTyped(new)
    BY <1>3, <1>8, <1>10, <2>1 DEF AmendmentsTyped
  <2>3. QED
    BY <1>4, <1>7, <2>1, <2>2 DEF OnlyRow
<1>11. PICK g : g = [table |-> "amendment", kind |-> AmendmentKind, effect |-> {"approved"}]
  OBVIOUS
<1>12. g \in Governed /\ g.table = "amendment" /\ g.kind = AmendmentKind /\ g.effect = {"approved"}
  BY <1>11 DEF Governed
<1>13. CASE db' = [db EXCEPT !["amendment"] = refused]
  <2>1. /\ DOMAIN db' = DOMAIN db /\ db'["amendment"] = refused /\ db'["contract"] = contracts
        /\ \A t \in DOMAIN db \ {"amendment"} : db'[t] = db[t]
    BY <1>1, <1>2, <1>13
  <2>2. OnlyRow(amendments, refused, k) /\ refused[k] = no
    BY <1>5, <1>9, <1>10
  <2>3. refused[k].contract \in DOMAIN contracts /\ refused[k].status # "approved"
    BY <1>8, <1>9, <2>2
  <2>4. AmendmentRowsSound(contracts, refused)
    BY ONLY <1>2, <2>2, <2>3, AmendmentFiled
  <2>5. AmendmentsSound'
    BY <2>1, <2>4, AmendmentsSoundAgain
  <2>6. /\ k \in DOMAIN db[g.table] /\ "status" \in DOMAIN no /\ no.status \notin g.effect
        /\ db'[g.table] = [db[g.table] EXCEPT ![k] = no]
        /\ \A t \in ConsentTables \ {g.table} : db'[t] = db[t]
    BY <1>1, <1>2, <1>5, <1>7, <1>8, <1>9, <1>12, <2>1
  <2>7. ApprovalsSound'
    BY <1>12, <2>1, <2>6, RecordTurns
  <2>8. QED
    BY <2>5, <2>7
<1>14. ASSUME ~ LatestApprovalIs(db, AmendmentKind, k, {"rejected", "cancelled"}),
              db' = ApplyAmendmentEffects(s, s["amendment"][k].contract, s["amendment"][k].type, s["amendment"][k].delta)
       PROVE  ApprovalsSound' /\ AmendmentsSound'
  <2>1. OnlyRow(amendments, granted, k) /\ granted[k] = yes
    BY <1>5, <1>9, <1>10
  <2>2. /\ DOMAIN s = DOMAIN db /\ s["amendment"] = granted /\ s["contract"] = contracts
        /\ \A t \in DOMAIN db \ {"amendment"} : s[t] = db[t]
    BY <1>1, <1>2, <1>6
  <2>3. db' = ApplyAmendmentEffects(s, c, yes.type, yes.delta)
    BY <1>9, <1>14, <2>1, <2>2
  <2>4. PICK after : after = [contracts EXCEPT ![c] = Amended(contracts[c], yes.type, yes.delta)]
    OBVIOUS
  <2>5. "contract" \in DOMAIN s /\ contracts = s["contract"]
    BY <1>2, <2>2
  <2>6. /\ DOMAIN ApplyAmendmentEffects(s, c, yes.type, yes.delta) = DOMAIN s
        /\ ApplyAmendmentEffects(s, c, yes.type, yes.delta)["contract"]
             = [contracts EXCEPT ![c] = Amended(contracts[c], yes.type, yes.delta)]
        /\ \A t \in DOMAIN s \ {"contract"} : ApplyAmendmentEffects(s, c, yes.type, yes.delta)[t] = s[t]
    BY ONLY <1>3, <1>8, <2>5, EffectsApplied
  <2>7. /\ DOMAIN db' = DOMAIN db /\ db'["contract"] = after /\ db'["amendment"] = granted
        /\ \A t \in DOMAIN db \ {"amendment", "contract"} : db'[t] = db[t]
    BY <1>2, <2>2, <2>3, <2>4, <2>6
  <2>8. granted[k].status = "approved" /\ granted[k].contract = c /\ c \in DOMAIN contracts
        /\ after = [contracts EXCEPT ![c] = Amended(contracts[c], granted[k].type, granted[k].delta)]
    BY <1>8, <1>9, <2>1, <2>4
  <2>9. AmendmentRowsSound(after, granted)
    BY ONLY <1>2, <2>1, <2>8, AmendmentTakesEffect
  <2>10. AmendmentsSound'
    BY <2>7, <2>9, AmendmentsSoundAgain
  <2>11. \A i \in DOMAIN db["approval"] :
            db["approval"][i].kind = AmendmentKind /\ db["approval"][i].of = k => db["approval"][i].status = "approved"
    BY <1>2, <1>7, <1>14, {"pending"} \cup {"rejected", "cancelled"} = {"pending", "rejected", "cancelled"},
       FinalizedWhenApproved
  <2>12. /\ k \in DOMAIN db[g.table] /\ "status" \in DOMAIN yes
         /\ db'[g.table] = [db[g.table] EXCEPT ![k] = yes]
         /\ \A t \in ConsentTables \ {g.table} : db'[t] = db[t]
    BY <1>1, <1>2, <1>5, <1>7, <1>8, <1>9, <1>12, <2>7 DEF ConsentTables
  <2>13. ApprovalsSound'
    BY <1>12, <2>7, <2>11, <2>12, RecordTurns
  <2>14. QED
    BY <2>10, <2>13
<1>15. QED
  BY <1>7, <1>13, <1>14

\* Every request about amendments keeps both.
LEMMA ConsentsAfterAmendments ==
    ASSUME ~ Concurrent, ApprovalsSound, AmendmentsSound, NEW p, AmendmentNext(p)
    PROVE  ApprovalsSound' /\ AmendmentsSound'
<1>1. ASSUME NEW c, NEW type, NEW delta \in Values, RecordAmendment(p, c, type, delta)
      PROVE  ApprovalsSound' /\ AmendmentsSound'
  BY <1>1, AmendmentProposed
<1>2. ASSUME NEW k, FinalizeAmendment(p, k) PROVE ApprovalsSound' /\ AmendmentsSound'
  BY <1>2, AmendmentFinalized
<1>3. CASE ApprovalNext(p, AmendmentKind)
  <2>1. PICK names : names = {"definition", "approval"}
    OBVIOUS
  <2>2. Keeps(names)
    BY <1>3, <2>1, ApprovalKeeps
  <2>3. names \cap {"contract", "amendment"} = {}
    BY <2>1
  <2>4. AmendmentsSound'
    BY <2>2, <2>3, AmendmentsLeftAlone
  <2>5. QED
    BY <1>3, <2>4, ApprovalsAfterWorkflow
<1>4. QED
  BY <1>1, <1>2, <1>3 DEF AmendmentNext, AmendmentRoutes

\* create_contract_on_award, or another table is written.
LEMMA AmendmentsAfterAward ==
    ASSUME ~ Concurrent, AmendmentsSound, NEW p, AwardNext(p)
    PROVE  AmendmentsSound'
<1>1. PICK names : names = {"lead", "opportunity", "competitor", "winloss", "tender"}
  OBVIOUS
<1>2. CASE Keeps(names)
  <2>1. names \cap {"contract", "amendment"} = {}
    BY <1>1
  <2>2. QED
    BY <1>2, <2>1, AmendmentsLeftAlone
<1>3. ASSUME NEW k, ConvertLeadToOpportunity(p, k) PROVE Keeps(names)
  BY <1>1, <1>3, SerialRows DEF ConvertLeadToOpportunity, Commit, Keeps
<1>4. ASSUME NEW k, NEW to, TransitionStage(p, k, to) PROVE Keeps(names)
  BY <1>1, <1>4, SerialRows DEF TransitionStage, Amend, Commit, Keeps
<1>5. ASSUME NEW k, NEW d, RecordBidNoBidDecision(p, k, d) PROVE Keeps(names)
  BY <1>1, <1>5, SerialRows DEF RecordBidNoBidDecision, Amend, Commit, Keeps
<1>6. ASSUME NEW k, NEW out, NEW c, RecordWinLoss(p, k, out, c) PROVE Keeps(names)
  BY <1>1, <1>6, SerialRows DEF RecordWinLoss, WithWinLoss, Commit, Keeps
<1>7. ASSUME LinkContract(p) \/ MarkWon(p) PROVE Keeps(names)
  BY <1>1, <1>7, SerialRows DEF LinkContract, MarkWon, CommitThen, Commit, Keeps
<1>8. ASSUME NEW t, NEW o, NEW value \in Values, NEW original \in {Undated, 0},
             CreateContractOnAward(p, t, o, value, original)
      PROVE  AmendmentsSound'
  <2>1. PICK contracts, amendments : contracts = db["contract"] /\ amendments = db["amendment"]
    OBVIOUS
  <2>2. AmendmentRowsSound(contracts, amendments) /\ "contract" \in DOMAIN db /\ "amendment" \in DOMAIN db
    BY <2>1 DEF AmendmentsSound
  <2>3. value \in Int
    BY ContractsAssumption
  <2>4. PICK new : new = Append(contracts, Contract(t, value, original))
    OBVIOUS
  <2>5. db' = Insert(db, "contract", Contract(t, value, original))
    BY <1>8, SerialRows DEF CreateContractOnAward, CommitThen
  <2>6. DOMAIN db' = DOMAIN db /\ db'["contract"] = new /\ db'["amendment"] = amendments
    BY ONLY <2>1, <2>2, <2>4, <2>5 DEF Insert
  <2>7. AmendmentRowsSound(new, amendments)
    BY <2>2, <2>3, <2>4, ContractIsAwarded
  <2>8. QED
    BY <2>6, <2>7, AmendmentsSoundAgain
<1>9. QED
  BY <1>1, <1>2, <1>3, <1>4, <1>5, <1>6, <1>7, <1>8, CreateKeeps, AbandonKeeps
  DEF AwardNext, BdcRoutes, CreateTender, AwardRoutes

-----------------------------------------------------------------------------
(* Budget revisions and permits *)

\* Budget revisions are governed by an approval.
LEMMA RevisionsAreGoverned ==
    \E g \in Governed : g.table = "revision" /\ g.kind = BudgetKind /\ g.effect = {"approved"}
<1>1. PICK g : g = [table |-> "revision", kind |-> BudgetKind, effect |-> {"approved"}]
  OBVIOUS
<1>2. QED
  BY <1>1 DEF Governed

\* So are permits, in any status from approval on.
LEMMA PermitsAreGoverned ==
    \E g \in Governed : g.table = "permit" /\ g.kind = PermitKind /\ g.effect = {"approved", "active", "closed"}
<1>1. PICK g : g = [table |-> "permit", kind |-> PermitKind, effect |-> {"approved", "active", "closed"}]
  OBVIOUS
<1>2. QED
  BY <1>1 DEF Governed

\* create_budget_revision
LEMMA RevisionProposed ==
    ASSUME ~ Concurrent, ApprovalsSound, NEW p, NEW l, NEW to, CreateBudgetRevision(p, l, to)
    PROVE  ApprovalsSound'
<1>1. PICK g \in Governed : g.table = "revision" /\ g.kind = BudgetKind /\ g.effect = {"approved"}
  BY RevisionsAreGoverned
<1>2. PICK revisions, definitions : revisions = db["revision"] /\ definitions = db["definition"]
  OBVIOUS
<1>3. ConsentTables \subseteq DOMAIN db /\ IsTable(revisions)
  BY <1>1, <1>2 DEF ApprovalsSound, GovernedSound
<1>4. PICK row, wait : /\ row = BudgetRevision(l, Row(p, "cbsline", l).amount, to)
                      /\ wait = [row EXCEPT !.status = "pending"]
  OBVIOUS
<1>5. "status" \in DOMAIN row /\ "status" \in DOMAIN wait /\ wait.status = "pending"
  BY <1>4 DEF BudgetRevision
<1>6. PICK s, q : s = Insert(db, "revision", row) /\ q = Insert(db, "revision", wait)
  OBVIOUS
<1>7. GetActiveWorkflow(db, BudgetKind) \subseteq DOMAIN definitions
  BY <1>2 DEF GetActiveWorkflow
<1>8. \/ db' = [s EXCEPT !["cbsline"][l]["amount"] = to]
      \/ \E d \in DOMAIN definitions : db' = StartWorkflowInstance(q, BudgetKind, Len(q["revision"]), d)
  BY <1>4, <1>6, <1>7, SerialRows DEF CreateBudgetRevision, Propose, Commit
<1>9. CASE db' = [s EXCEPT !["cbsline"][l]["amount"] = to]
  <2>1. /\ DOMAIN db' = DOMAIN db /\ db'["revision"] = Append(db["revision"], row)
        /\ \A t \in ConsentTables \ {"revision"} : db'[t] = db[t]
    BY <1>3, <1>6, <1>9 DEF Insert, ConsentTables
  <2>2. QED
    BY <1>1, <1>5, <2>1, RecordAdded
<1>10. ASSUME NEW d \in DOMAIN definitions, db' = StartWorkflowInstance(q, BudgetKind, Len(q["revision"]), d)
       PROVE  ApprovalsSound'
  <2>1. Len(q["revision"]) = Len(db["revision"]) + 1
    <3>1. q["revision"] = Append(revisions, wait)
      BY <1>2, <1>3, <1>6 DEF Insert, ConsentTables
    <3>2. PICK R : revisions \in Seq(R)
      BY <1>3 DEF IsTable
    <3>3. revisions \in Seq(R \cup {wait}) /\ wait \in R \cup {wait}
      BY <3>2
    <3>4. QED
      BY <1>2, <3>1, <3>3, TableInsert
  <2>2. /\ DOMAIN db' = DOMAIN db /\ db'["revision"] = Append(db["revision"], wait)
        /\ db'["approval"] = Append(db["approval"],
              WorkflowInstance(BudgetKind, Len(db["revision"]) + 1, d, db["definition"][d].chain))
        /\ \A t \in ConsentTables \ {"revision", "approval"} : db'[t] = db[t]
    BY <1>2, <1>3, <1>6, <1>10, <2>1 DEF Insert, StartWorkflowInstance, ConsentTables
  <2>3. wait.status \notin g.effect /\ d \in DOMAIN db["definition"]
    BY <1>1, <1>2, <1>5
  <2>4. QED
    BY <1>1, <1>5, <2>2, <2>3, RecordWaits
<1>11. QED
  BY <1>8, <1>9, <1>10

\* finalize_budget_revision
LEMMA RevisionFinalized ==
    ASSUME ~ Concurrent, ApprovalsSound, NEW p, NEW k, FinalizeBudgetRevision(p, k)
    PROVE  ApprovalsSound'
<1>1. PICK g \in Governed : g.table = "revision" /\ g.kind = BudgetKind /\ g.effect = {"approved"}
  BY RevisionsAreGoverned
<1>2. PICK revisions : revisions = db["revision"]
  OBVIOUS
<1>3. /\ ConsentTables \subseteq DOMAIN db /\ IsTable(revisions) /\ \A x \in DOMAIN revisions : "status" \in DOMAIN revisions[x]
      /\ DefinitionRowsSound(db["definition"], db["approval"])
  BY <1>1, <1>2 DEF ApprovalsSound, GovernedSound
<1>4. PICK no, yes : /\ no = [revisions[k] EXCEPT !.status = "rejected"]
                    /\ yes = [revisions[k] EXCEPT !.status = "approved"]
  OBVIOUS
<1>5. PICK s : s = [db EXCEPT !["revision"] = [revisions EXCEPT ![k] = yes]]
  OBVIOUS
<1>6. /\ k \in DOMAIN revisions /\ ~ LatestApprovalIs(db, BudgetKind, k, {"pending"})
      /\ \/ db' = [db EXCEPT !["revision"][k]["status"] = "rejected"]
         \/ /\ ~ LatestApprovalIs(db, BudgetKind, k, {"rejected", "cancelled"})
            /\ \E q : /\ q = [db EXCEPT !["revision"][k]["status"] = "approved"]
                      /\ db' = [q EXCEPT !["cbsline"][q["revision"][k].line]["amount"] = q["revision"][k].to]
  BY <1>2, SerialRows DEF FinalizeBudgetRevision, Finalize, Commit
<1>7. "status" \in DOMAIN no /\ no.status = "rejected" /\ "status" \in DOMAIN yes /\ yes.status = "approved"
  BY <1>3, <1>4, <1>6
<1>8. CASE db' = [db EXCEPT !["revision"][k]["status"] = "rejected"]
  <2>1. /\ DOMAIN db' = DOMAIN db /\ db'["revision"] = [db["revision"] EXCEPT ![k] = no]
        /\ \A t \in ConsentTables \ {"revision"} : db'[t] = db[t]
    BY <1>2, <1>3, <1>4, <1>8 DEF ConsentTables
  <2>2. no.status \notin g.effect /\ k \in DOMAIN db["revision"]
    BY <1>1, <1>2, <1>6, <1>7
  <2>3. QED
    BY <1>1, <1>7, <2>1, <2>2, RecordTurns
<1>9. CASE /\ ~ LatestApprovalIs(db, BudgetKind, k, {"rejected", "cancelled"})
           /\ \E q : /\ q = [db EXCEPT !["revision"][k]["status"] = "approved"]
                     /\ db' = [q EXCEPT !["cbsline"][q["revision"][k].line]["amount"] = q["revision"][k].to]
  <2>1. PICK q : /\ q = [db EXCEPT !["revision"][k]["status"] = "approved"]
                 /\ db' = [q EXCEPT !["cbsline"][q["revision"][k].line]["amount"] = q["revision"][k].to]
    BY <1>9
  <2>2. q = s
    BY <1>2, <1>4, <1>5, <2>1
  <2>3. /\ DOMAIN db' = DOMAIN db /\ db'["revision"] = [db["revision"] EXCEPT ![k] = yes]
        /\ \A t \in ConsentTables \ {"revision"} : db'[t] = db[t]
    BY <1>2, <1>3, <1>5, <2>2, <2>1 DEF ConsentTables
  <2>4. \A i \in DOMAIN db["approval"] :
            db["approval"][i].kind = BudgetKind /\ db["approval"][i].of = k => db["approval"][i].status = "approved"
    <3>1. PICK A, B : A = {"pending"} /\ B = {"rejected", "cancelled"}
      OBVIOUS
    <3>2. /\ ~ LatestApprovalIs(db, BudgetKind, k, A) /\ ~ LatestApprovalIs(db, BudgetKind, k, B)
          /\ A \cup B = {"pending", "rejected", "cancelled"}
      BY <1>6, <1>9, <3>1
    <3>3. QED
      BY ONLY <1>3, <3>2, FinalizedWhenApproved
  <2>5. k \in DOMAIN db["revision"]
    BY <1>2, <1>6
  <2>6. QED
    BY <1>1, <1>7, <2>3, <2>4, <2>5, RecordTurns
<1>10. QED
  BY <1>6, <1>8, <1>9

\* Of the budget, every request keeps it.
LEMMA ApprovalsAfterBaseline ==
    ASSUME ~ Concurrent, ApprovalsSound, NEW p, BaselineNext(p)
    PROVE  ApprovalsSound'
<1>1. ASSUME NEW c, ApproveCbs(p, c) PROVE ApprovalsSound'
  <2>1. PICK names : names = {"cbs"}
    OBVIOUS
  <2>2. Keeps(names)
    BY <1>1, <2>1, TurnKeeps DEF ApproveCbs
  <2>3. names \cap ConsentTables = {}
    BY <2>1 DEF ConsentTables
  <2>4. QED
    BY <2>2, <2>3, ApprovalsLeftAlone
<1>2. QED
  BY <1>1, RevisionProposed, RevisionFinalized, ApprovalsAfterWorkflow DEF BaselineNext, BudgetRoutes

\* issue_permit_to_work
LEMMA PermitIssued ==
    ASSUME ~ Concurrent, ApprovalsSound, NEW p, NEW risk, IssuePermitToWork(p, risk)
    PROVE  ApprovalsSound'
<1>1. PICK g \in Governed : g.table = "permit" /\ g.kind = PermitKind /\ g.effect = {"approved", "active", "closed"}
  BY PermitsAreGoverned
<1>2. PICK definitions : definitions = db["definition"]
  OBVIOUS
<1>3. ConsentTables \subseteq DOMAIN db
  BY DEF ApprovalsSound
<1>4. PICK row, wait : row = PermitToWork("approved", risk) /\ wait = PermitToWork("draft", risk)
  OBVIOUS
<1>5. "status" \in DOMAIN row /\ "status" \in DOMAIN wait /\ wait.status = "draft"
  BY <1>4 DEF PermitToWork
<1>6. PICK s, q : s = Insert(db, "permit", row) /\ q = Insert(db, "permit", wait)
  OBVIOUS
<1>7. GetActiveWorkflow(db, PermitKind) \subseteq DOMAIN definitions
  BY <1>2 DEF GetActiveWorkflow
<1>8. \/ db' = s
      \/ \E d \in DOMAIN definitions : db' = StartWorkflowInstance(q, PermitKind, Len(db["permit"]) + 1, d)
  BY <1>4, <1>6, <1>7, SerialRows DEF IssuePermitToWork, Commit
<1>9. CASE db' = s
  <2>1. /\ DOMAIN db' = DOMAIN db /\ db'["permit"] = Append(db["permit"], row)
        /\ \A t \in ConsentTables \ {"permit"} : db'[t] = db[t]
    BY <1>3, <1>6, <1>9 DEF Insert, ConsentTables
  <2>2. QED
    BY <1>1, <1>5, <2>1, RecordAdded
<1>10. ASSUME NEW d \in DOMAIN definitions, db' = StartWorkflowInstance(q, PermitKind, Len(db["permit"]) + 1, d)
       PROVE  ApprovalsSound'
  <2>1. /\ DOMAIN db' = DOMAIN db /\ db'["permit"] = Append(db["permit"], wait)
        /\ db'["approval"] = Append(db["approval"],
              WorkflowInstance(PermitKind, Len(db["permit"]) + 1, d, db["definition"][d].chain))
        /\ \A t \in ConsentTables \ {"permit", "approval"} : db'[t] = db[t]
    BY <1>2, <1>3, <1>6, <1>10 DEF Insert, StartWorkflowInstance, ConsentTables
  <2>2. wait.status \notin g.effect /\ d \in DOMAIN db["definition"]
    BY <1>1, <1>2, <1>5
  <2>3. QED
    BY <1>1, <1>5, <2>1, <2>2, RecordWaits
<1>11. QED
  BY <1>8, <1>9, <1>10

\* finalize_permit_approval, activate_permit, close_permit
LEMMA PermitTurned ==
    ASSUME ~ Concurrent, ApprovalsSound, NEW p, NEW k,
           FinalizePermitApproval(p, k) \/ ActivatePermit(p, k) \/ ClosePermit(p, k)
    PROVE  ApprovalsSound'
<1>1. PICK g \in Governed : g.table = "permit" /\ g.kind = PermitKind /\ g.effect = {"approved", "active", "closed"}
  BY PermitsAreGoverned
<1>2. PICK permits, approvals : permits = db["permit"] /\ approvals = db["approval"]
  OBVIOUS
<1>3. /\ ConsentTables \subseteq DOMAIN db /\ "permit" \in DOMAIN db
      /\ GovernedSound(permits, approvals, PermitKind, {"approved", "active", "closed"})
      /\ DefinitionRowsSound(db["definition"], db["approval"])
  BY <1>1, <1>2 DEF ApprovalsSound, ConsentTables
<1>4. ASSUME NEW from, NEW to, Turn(p, "permit", k, from, to),
             \A i \in DOMAIN approvals :
                approvals[i].kind = PermitKind /\ approvals[i].of = k => approvals[i].status = "approved"
      PROVE  ApprovalsSound'
  <2>1. /\ DOMAIN db' = DOMAIN db
        /\ db'["permit"] = [db["permit"] EXCEPT ![k] = [db["permit"][k] EXCEPT !.status = to]]
        /\ \A u \in DOMAIN db \ {"permit"} : db'[u] = db[u]
        /\ k \in DOMAIN db["permit"] /\ db["permit"][k].status \in from
    BY <1>3, <1>4, StatusTurned
  <2>2. PICK row : row = [db["permit"][k] EXCEPT !.status = to]
    OBVIOUS
  <2>3. "status" \in DOMAIN row
    BY <1>2, <1>3, <2>1, <2>2 DEF GovernedSound
  <2>4. /\ db'["permit"] = [db["permit"] EXCEPT ![k] = row]
        /\ \A t \in ConsentTables \ {"permit"} : db'[t] = db[t]
    BY <1>3, <2>1, <2>2
  <2>5. QED
    BY <1>1, <1>2, <1>4, <2>1, <2>3, <2>4, RecordTurns
<1>5. CASE FinalizePermitApproval(p, k)
  <2>1. ~ LatestApprovalIs(db, PermitKind, k, {"pending", "rejected", "cancelled"})
    BY <1>5, SerialRows DEF FinalizePermitApproval
  <2>2. PICK A : A = {"pending", "rejected", "cancelled"}
    OBVIOUS
  <2>3. ~ LatestApprovalIs(db, PermitKind, k, A) /\ A \cup A = {"pending", "rejected", "cancelled"}
    BY <2>1, <2>2
  <2>4. \A i \in DOMAIN db["approval"] :
            db["approval"][i].kind = PermitKind /\ db["approval"][i].of = k => db["approval"][i].status = "approved"
    BY ONLY <1>3, <2>3, FinalizedWhenApproved
  <2>5. QED
    BY <1>2, <1>4, <1>5, <2>4 DEF FinalizePermitApproval
<1>6. ASSUME ActivatePermit(p, k) \/ ClosePermit(p, k) PROVE ApprovalsSound'
  <2>1. k \in DOMAIN permits /\ permits[k].status \in {"approved", "active", "closed"}
    BY <1>2, <1>6, SerialRows DEF ActivatePermit, ClosePermit, Turn, Rows, Row
  <2>2. \A i \in DOMAIN approvals :
           approvals[i].kind = PermitKind /\ approvals[i].of = k => approvals[i].status = "approved"
    BY <1>3, <2>1 DEF GovernedSound
  <2>3. QED
    BY <1>4, <1>6, <2>2 DEF ActivatePermit, ClosePermit
<1>7. QED
  BY <1>5, <1>6

\* Of the permits, every request keeps it.
LEMMA ApprovalsAfterPermits ==
    ASSUME ~ Concurrent, ApprovalsSound, NEW p, PermitNext(p)
    PROVE  ApprovalsSound'
<1>1. PICK names : names = {"risk"}
  OBVIOUS
<1>2. CASE Keeps(names)
  <2>1. names \cap ConsentTables = {}
    BY <1>1 DEF ConsentTables
  <2>2. QED
    BY <1>2, <2>1, ApprovalsLeftAlone
<1>3. CASE Create(p, "risk", RiskAssessment)
  BY <1>1, <1>2, <1>3, CreateKeeps
<1>4. ASSUME NEW k, RiskAssessmentExpires(p, k) PROVE ApprovalsSound'
  BY <1>1, <1>2, <1>4, TurnKeeps DEF RiskAssessmentExpires
<1>5. QED
  BY <1>3, <1>4, PermitIssued, PermitTurned, ApprovalsAfterWorkflow DEF PermitNext, PermitRoutes

-----------------------------------------------------------------------------
(* Tender steps *)

\* A step is decided only after those before it were approved.
StepRowsSound(steps) ==
    /\ IsTable(steps)
    /\ \A k \in DOMAIN steps : {"status", "tender", "n"} \subseteq DOMAIN steps[k] /\ steps[k].n \in Nat
    /\ \A j, k \in DOMAIN steps :
         /\ steps[k].status # "pending"
         /\ steps[j].tender = steps[k].tender /\ steps[j].n < steps[k].n
         => steps[j].status = "approved"

TendersSound ==
    /\ "step" \in DOMAIN db
    /\ StepRowsSound(db["step"])

\* The invariant implies the property.
LEMMA TendersSoundSay == ASSUME TendersSound PROVE TenderStepsInOrder
  BY DEF TendersSound, StepRowsSound, TenderStepsInOrder, StepsOf

\* Where the steps are sound after a step, the invariant holds again.
LEMMA TendersSoundAgain ==
    ASSUME TendersSound, NEW steps, StepRowsSound(steps), DOMAIN db' = DOMAIN db, db'["step"] = steps
    PROVE  TendersSound'
<1>1. StepRowsSound(db'["step"])
  BY ONLY StepRowsSound(steps), db'["step"] = steps
<1>2. QED
  BY <1>1 DEF TendersSound

\* What writes no step keeps it.
LEMMA TendersLeftAlone ==
    ASSUME TendersSound, NEW names, Keeps(names), "step" \notin names
    PROVE  TendersSound'
<1>1. DOMAIN db' = DOMAIN db /\ db'["step"] = db["step"]
  BY DEF Keeps, TendersSound
<1>2. StepRowsSound(db["step"])
  BY DEF TendersSound
<1>3. QED
  BY <1>1, <1>2, TendersSoundAgain

\* A round of steps is begun, of a tender that has none.
LEMMA StepsBegin ==
    ASSUME NEW steps, StepRowsSound(steps), NEW t, \A k \in DOMAIN steps : steps[k].tender # t, NEW n \in Nat,
           NEW all, all = steps \o [i \in 1..n |-> ApprovalStep(t, i)]
    PROVE  StepRowsSound(all)
<1>1. PICK round : round = [i \in 1..n |-> ApprovalStep(t, i)]
  OBVIOUS
<1>2. \A i \in 1..n : /\ {"status", "tender", "n"} \subseteq DOMAIN round[i]
                      /\ round[i].n = i /\ round[i].status = "pending" /\ round[i].tender = t
  BY <1>1 DEF ApprovalStep
<1>3. PICK R : steps \in Seq(R)
  BY DEF StepRowsSound, IsTable
<1>4. PICK Q : Q = R \cup {round[i] : i \in 1..n}
  OBVIOUS
<1>5. round \in Seq(Q) /\ Len(round) = n
  <2>1. /\ DOMAIN round = 1..n /\ round = [i \in 1..n |-> round[i]]
        /\ \A i \in 1..n : round[i] \in Q
    BY <1>1, <1>4
  <2>2. QED
    BY ONLY <2>1, n \in Nat, TableByNumber
<1>6. steps \in Seq(Q)
  BY <1>3, <1>4
<1>7. PICK m : m = Len(steps)
  OBVIOUS
<1>8. m \in Nat /\ DOMAIN steps = 1..m
  BY <1>3, <1>7, TableRows
<1>9. /\ all \in Seq(Q) /\ DOMAIN all = 1..(m + n)
      /\ \A k \in 1..m : all[k] = steps[k]
      /\ \A k \in 1..n : all[m + k] = round[k]
  <2>1. all = steps \o round
    BY <1>1
  <2>2. /\ all \in Seq(Q)
        /\ DOMAIN all = 1..(Len(steps) + Len(round))
        /\ \A k \in DOMAIN steps : all[k] = steps[k]
        /\ \A k \in 1..Len(round) : all[Len(steps) + k] = round[k]
        /\ DOMAIN steps \subseteq DOMAIN all
    <3>1. all = steps \o round /\ steps \in Seq(Q) /\ round \in Seq(Q)
      BY <1>5, <1>6, <2>1
    <3>2. QED
      BY ONLY <3>1, TableInserts
  <2>3. QED
    BY <1>5, <1>7, <1>8, <2>2
<1>10. ASSUME NEW k \in DOMAIN all, k \notin 1..m
       PROVE  /\ {"status", "tender", "n"} \subseteq DOMAIN all[k] /\ all[k].n \in Nat
              /\ all[k].status = "pending" /\ all[k].tender = t
  <2>1. PICK i : i = k - m
    OBVIOUS
  <2>2. i \in 1..n /\ k = m + i
    BY <1>8, <1>9, <1>10, <2>1
  <2>3. all[k] = round[i] /\ i \in Nat
    <3>1. i \in Nat
      BY <2>2
    <3>2. all[m + i] = round[i]
      BY <1>9, <2>2
    <3>3. QED
      BY <2>2, <3>1, <3>2
  <2>4. QED
    BY <1>2, <2>2, <2>3
<1>11. \A k \in DOMAIN all : {"status", "tender", "n"} \subseteq DOMAIN all[k] /\ all[k].n \in Nat
  <2>1. ASSUME NEW k \in 1..m PROVE {"status", "tender", "n"} \subseteq DOMAIN all[k] /\ all[k].n \in Nat
    <3>1. k \in DOMAIN steps /\ all[k] = steps[k]
      BY <1>8, <1>9
    <3>2. QED
      BY <3>1 DEF StepRowsSound
  <2>2. QED
    BY <1>10, <2>1
<1>12. ASSUME NEW j \in DOMAIN all, NEW k \in DOMAIN all, all[k].status # "pending",
              all[j].tender = all[k].tender, all[j].n < all[k].n
       PROVE  all[j].status = "approved"
  <2>1. k \in 1..m
    BY <1>10, <1>12
  <2>2. all[k] = steps[k] /\ steps[k].tender # t
    BY <1>8, <1>9, <2>1
  <2>3. j \in 1..m
    BY <1>10, <1>12, <2>2
  <2>4. QED
    BY <1>8, <1>9, <1>12, <2>1, <2>3 DEF StepRowsSound
<1>13. QED
  BY <1>9, <1>11, <1>12 DEF StepRowsSound, IsTable

\* The steps of a tender are pending again.
LEMMA StepsReopen ==
    ASSUME NEW steps, StepRowsSound(steps), NEW t,
           NEW new, new = [k \in DOMAIN steps |->
                             IF steps[k].tender = t THEN [steps[k] EXCEPT !.status = "pending"] ELSE steps[k]]
    PROVE  StepRowsSound(new)
<1>1. IsTable(steps)
  BY DEF StepRowsSound
<1>2. IsTable(new) /\ DOMAIN new = DOMAIN steps
  <2>1. new = [k \in DOMAIN steps |-> new[k]]
    OBVIOUS
  <2>2. QED
    BY ONLY <1>1, <2>1, TableMapped
<1>3. \A k \in DOMAIN steps :
         /\ {"status", "tender", "n"} \subseteq DOMAIN new[k]
         /\ new[k].tender = steps[k].tender /\ new[k].n = steps[k].n
         /\ IF steps[k].tender = t THEN new[k].status = "pending" ELSE new[k].status = steps[k].status
  BY DEF StepRowsSound
<1>4. QED
  BY <1>2, <1>3 DEF StepRowsSound

\* Row k with another status.
Turned(rows, k, to) == [rows EXCEPT ![k] = [rows[k] EXCEPT !.status = to]]

\* The next step is decided.
LEMMA StepIsDecided ==
    ASSUME NEW steps, StepRowsSound(steps), NEW k \in DOMAIN steps, steps[k].status = "pending",
           \A j \in DOMAIN steps :
              steps[j].tender = steps[k].tender /\ steps[j].n < steps[k].n => steps[j].status = "approved",
           NEW to
    PROVE  StepRowsSound(Turned(steps, k, to))
<1>8. PICK row, new : row = [steps[k] EXCEPT !.status = to] /\ new = [steps EXCEPT ![k] = row]
  OBVIOUS
<1>1. IsTable(steps)
  BY DEF StepRowsSound
<1>2. /\ IsTable(new) /\ DOMAIN new = DOMAIN steps /\ new[k] = row
      /\ \A x \in DOMAIN steps \ {k} : new[x] = steps[x]
  BY ONLY <1>1, k \in DOMAIN steps, <1>8, TableChanges
<1>3. {"status", "tender", "n"} \subseteq DOMAIN steps[k] /\ steps[k].n \in Nat
  BY DEF StepRowsSound
<1>4. {"status", "tender", "n"} \subseteq DOMAIN row /\ row.tender = steps[k].tender /\ row.n = steps[k].n
  BY ONLY <1>3, <1>8
<1>5. \A x \in DOMAIN steps : /\ {"status", "tender", "n"} \subseteq DOMAIN new[x]
                              /\ new[x].tender = steps[x].tender /\ new[x].n = steps[x].n /\ steps[x].n \in Nat
  BY <1>2, <1>4 DEF StepRowsSound
<1>6. ASSUME NEW i \in DOMAIN steps, NEW j \in DOMAIN steps, new[j].status # "pending",
             steps[i].tender = steps[j].tender, steps[i].n < steps[j].n
      PROVE  new[i].status = "approved"
  <2>1. CASE j = k
    <3>1. i # k
      BY <1>5, <1>6, <2>1
    <3>2. QED
      BY <1>2, <1>6, <2>1, <3>1
  <2>2. CASE j # k
    <3>1. steps[i].status = "approved"
      BY <1>2, <1>6, <2>2 DEF StepRowsSound
    <3>2. QED
      BY <1>2, <3>1
  <2>3. QED
    BY <2>1, <2>2
<1>7. StepRowsSound(new)
  BY <1>2, <1>5, <1>6 DEF StepRowsSound
<1>9. QED
  BY <1>7, <1>8 DEF Turned

\* Every request about tenders keeps it.
LEMMA TendersStaySound ==
    ASSUME ~ Concurrent, TendersSound, NEW p, TenderNext(p)
    PROVE  TendersSound'
<1>1. PICK steps : steps = db["step"]
  OBVIOUS
<1>2. StepRowsSound(steps) /\ "step" \in DOMAIN db
  BY <1>1 DEF TendersSound
<1>3. PICK names : names = {"tender", "blocker", "submission", "winloss", "competitor"}
  OBVIOUS
<1>4. CASE Keeps(names)
  BY <1>3, <1>4, TendersLeftAlone
<1>5. ASSUME NEW t, NEW n \in StepCounts, InitiateApprovalWorkflow(p, t, n) PROVE TendersSound'
  <2>1. PICK all : all = steps \o [i \in 1..n |-> ApprovalStep(t, i)]
    OBVIOUS
  <2>2. /\ StepsOf(db, t) = {}
        /\ DOMAIN db' = DOMAIN db /\ db'["step"] = all
    <3>1. StepsOf(db, t) = {}
      BY <1>5 DEF InitiateApprovalWorkflow
    <3>2. \E tender : db' = [db EXCEPT !["step"] = all, !["tender"][t] = tender]
      BY <1>1, <1>5, <2>1, SerialRows DEF InitiateApprovalWorkflow, Commit
    <3>3. QED
      BY ONLY <1>2, <3>1, <3>2
  <2>3. \A k \in DOMAIN steps : steps[k].tender # t
    BY <1>1, <2>2 DEF StepsOf
  <2>4. n \in Nat
    BY BiddingAssumption
  <2>5. StepRowsSound(all)
    BY <1>2, <2>1, <2>3, <2>4, StepsBegin
  <2>6. QED
    BY <2>2, <2>5, TendersSoundAgain
<1>6. ASSUME NEW t, ReopenForRevision(p, t) PROVE TendersSound'
  <2>1. PICK new : new = [k \in DOMAIN steps |->
                             IF steps[k].tender = t THEN [steps[k] EXCEPT !.status = "pending"] ELSE steps[k]]
    OBVIOUS
  <2>2. DOMAIN db' = DOMAIN db /\ db'["step"] = new
    <3>4. PICK s : s = Seen(p)
      OBVIOUS
    <3>5. Write(p, [s EXCEPT
            !.tender[t].locked = FALSE, !.tender[t].reopened = @ + 1, !.tender[t].status = "in_estimate",
            !.step = [k \in DOMAIN @ |-> IF @[k].tender = t THEN [@[k] EXCEPT !.status = "pending"] ELSE @[k]]])
      BY <1>6, <3>4 DEF ReopenForRevision, Commit
    <3>1. s = db /\ db' = [s EXCEPT
            !.tender[t].locked = FALSE, !.tender[t].reopened = @ + 1, !.tender[t].status = "in_estimate",
            !.step = [k \in DOMAIN @ |-> IF @[k].tender = t THEN [@[k] EXCEPT !.status = "pending"] ELSE @[k]]]
      BY <3>4, <3>5, SerialRows
    <3>2. /\ DOMAIN db' = DOMAIN db
          /\ db'["step"] = [k \in DOMAIN db["step"] |-> IF db["step"][k].tender = t
                           THEN [db["step"][k] EXCEPT !.status = "pending"] ELSE db["step"][k]]
      BY ONLY <1>2, <3>1
    <3>3. QED
      BY <1>1, <2>1, <3>2
  <2>3. StepRowsSound(new)
    BY <1>2, <2>1, StepsReopen
  <2>4. QED
    BY <2>2, <2>3, TendersSoundAgain
<1>7. ASSUME NEW k, NEW d, DecideApprovalStep(p, k, d) PROVE TendersSound'
  <2>1. Turn(p, "step", k, {"pending"}, d)
    BY <1>7 DEF DecideApprovalStep
  <2>2. /\ DOMAIN db' = DOMAIN db
        /\ db'["step"] = [db["step"] EXCEPT ![k] = [db["step"][k] EXCEPT !.status = d]]
        /\ \A u \in DOMAIN db \ {"step"} : db'[u] = db[u]
        /\ k \in DOMAIN db["step"] /\ db["step"][k].status \in {"pending"}
    BY <1>2, <2>1, StatusTurned
  <2>3. \A j \in DOMAIN steps :
           steps[j].tender = steps[k].tender /\ steps[j].n < steps[k].n => steps[j].status = "approved"
    BY <1>1, <1>7, SerialRows DEF DecideApprovalStep, StepsOf, Row
  <2>4. PICK new : new = Turned(steps, k, d)
    OBVIOUS
  <2>5. k \in DOMAIN steps /\ steps[k].status = "pending" /\ db'["step"] = new
    BY <1>1, <2>2, <2>4 DEF Turned
  <2>6. StepRowsSound(new)
    BY <1>2, <2>3, <2>4, <2>5, StepIsDecided
  <2>7. QED
    BY <2>2, <2>5, <2>6, TendersSoundAgain
<1>8. ASSUME NEW t, RecordSubmission(p, t) PROVE Keeps(names)
  BY <1>3, <1>8, SerialRows DEF RecordSubmission, Commit, Keeps
<1>9. ASSUME NEW t, NEW out, NEW c, RecordTenderOutcome(p, t, out, c) PROVE Keeps(names)
  BY <1>3, <1>9, SerialRows DEF RecordTenderOutcome, CommitThen, Keeps
<1>10. ASSUME RecordTenderOutcome2(p) PROVE Keeps(names)
  BY <1>3, <1>10, SerialRows DEF RecordTenderOutcome2, WithWinLoss, Commit, Keeps
<1>11. QED
  BY <1>3, <1>4, <1>5, <1>6, <1>7, <1>8, <1>9, <1>10, CreateKeeps, TurnKeeps, AbandonKeeps
  DEF TenderNext, TenderApprovalRoutes, CreateTender, TenderRoutes
-----------------------------------------------------------------------------
(* What clients decide *)

GrantedTo(assignments, u, project) ==
    \E a \in DOMAIN assignments : assignments[a] = ClientProjectAssignment(u, project)

\* Whoever decided was assigned to the project, and the record stands as they decided.
ActionHolds(act, assignments, certificates, variations) ==
    \/ /\ act.type = "variation" /\ act.decision \in {"approved", "rejected"}
       /\ act.of \in DOMAIN variations
       /\ variations[act.of].status = act.decision
       /\ GrantedTo(assignments, act.user, ProjectOf[variations[act.of].contract])
    \/ /\ act.type # "variation"
       /\ act.of \in DOMAIN certificates
       /\ certificates[act.of].status = (IF act.decision = "rejected" THEN "rejected" ELSE "client_approved")
       /\ GrantedTo(assignments, act.user, certificates[act.of].project)

ClientRowsSound(actions, assignments, certificates, variations) ==
    /\ IsTable(actions) /\ IsTable(assignments) /\ IsTable(certificates) /\ IsTable(variations)
    /\ \A k \in DOMAIN certificates : {"status", "project"} \subseteq DOMAIN certificates[k]
    /\ \A k \in DOMAIN variations : {"status", "contract"} \subseteq DOMAIN variations[k]
    /\ \A k \in DOMAIN actions : ActionHolds(actions[k], assignments, certificates, variations)

\* What a request is about to record: the client's approval, or what they decided.
ToRecord(r) ==
    ClientApprovalAction(r.todo[1], "certificate", r.todo[2], IF r.at = "record" THEN r.todo[3] ELSE "approved")

Recording(r) == r.at \in {"certify for client", "record"}

\* It is alone, and what it will record holds already.
RecordingSound ==
    /\ Alone
    /\ \A p \in Workers :
         Recording(req[p]) => ActionHolds(ToRecord(req[p]), db["assignment"], db["certificate"], db["variation"])

ClientTables == {"clientaction", "assignment", "certificate", "variation"}

\* Only the part of the clients records what they decide.
ClientsSound ==
    /\ ClientTables \subseteq DOMAIN db
    /\ IF part = "clients"
       THEN /\ ClientRowsSound(db["clientaction"], db["assignment"], db["certificate"], db["variation"])
            /\ RecordingSound
       ELSE db["clientaction"] = <<>>

\* The invariant implies the property.
LEMMA ClientsSoundSay == ASSUME ClientsSound PROVE ClientsDecideTheirOwn
<1>1. PICK actions, assignments, certificates, variations :
         /\ actions = db["clientaction"] /\ assignments = db["assignment"]
         /\ certificates = db["certificate"] /\ variations = db["variation"]
  OBVIOUS
<1>2. \A a \in DOMAIN actions : ActionHolds(actions[a], assignments, certificates, variations)
  <2>1. CASE part = "clients"
    BY <1>1, <2>1 DEF ClientsSound, ClientRowsSound
  <2>2. CASE part # "clients"
    <3>1. actions = <<>>
      BY <1>1, <2>2 DEF ClientsSound
    <3>2. DOMAIN actions = {}
      BY ONLY <3>1
    <3>3. QED
      BY <3>2
  <2>3. QED
    BY <2>1, <2>2
<1>3. ASSUME NEW a \in DOMAIN actions
      PROVE  LET act == actions[a]
                 variation == act.type = "variation"
                 target == IF variation THEN variations[act.of] ELSE certificates[act.of]
                 actual == IF variation THEN ProjectOf[variations[act.of].contract] ELSE certificates[act.of].project
             IN /\ GrantedTo(assignments, act.user, actual)
                /\ IF variation \/ act.decision = "rejected" THEN target.status = act.decision
                   ELSE target.status = "client_approved"
  <2>1. ActionHolds(actions[a], assignments, certificates, variations)
    BY <1>2
  <2>2. QED
    BY ONLY <2>1 DEF ActionHolds
<1>4. QED
  BY <1>1, <1>3 DEF ClientsDecideTheirOwn, Assigned, GrantedTo, VariationProject, CertificateProject

\* Nobody loses a project, and what was decided stays decided.
Standing(assignments, certificates, variations, assigned, certified, varied) ==
    /\ \A k \in DOMAIN assignments : k \in DOMAIN assigned /\ assigned[k] = assignments[k]
    /\ \A k \in DOMAIN certificates :
         /\ k \in DOMAIN certified /\ certified[k].project = certificates[k].project
         /\ certificates[k].status # "submitted" => certified[k].status = certificates[k].status
    /\ \A k \in DOMAIN variations :
         /\ k \in DOMAIN varied /\ varied[k].contract = variations[k].contract
         /\ variations[k].status # "pending" => varied[k].status = variations[k].status

\* Then a decision still holds.
LEMMA ActionStillHolds ==
    ASSUME NEW act, NEW assignments, NEW certificates, NEW variations,
           ActionHolds(act, assignments, certificates, variations),
           NEW assigned, NEW certified, NEW varied,
           Standing(assignments, certificates, variations, assigned, certified, varied)
    PROVE  ActionHolds(act, assigned, certified, varied)
<1>1. \A u, project : GrantedTo(assignments, u, project) => GrantedTo(assigned, u, project)
  BY DEF GrantedTo, Standing
<1>2. CASE act.type = "variation"
  BY <1>1, <1>2 DEF ActionHolds, Standing
<1>3. CASE act.type # "variation"
  BY <1>1, <1>3 DEF ActionHolds, Standing
<1>4. QED
  BY <1>2, <1>3

\* And every recorded one.
LEMMA ActionsStillHold ==
    ASSUME NEW actions, NEW assignments, NEW certificates, NEW variations,
           ClientRowsSound(actions, assignments, certificates, variations),
           NEW assigned, NEW certified, NEW varied,
           Standing(assignments, certificates, variations, assigned, certified, varied),
           IsTable(assigned), IsTable(certified), IsTable(varied),
           \A k \in DOMAIN certified : {"status", "project"} \subseteq DOMAIN certified[k],
           \A k \in DOMAIN varied : {"status", "contract"} \subseteq DOMAIN varied[k]
    PROVE  ClientRowsSound(actions, assigned, certified, varied)
<1>1. \A k \in DOMAIN actions : ActionHolds(actions[k], assigned, certified, varied)
  BY ActionStillHolds DEF ClientRowsSound
<1>2. QED
  BY <1>1 DEF ClientRowsSound

\* Where the rows are sound after a step, and what a request has left to record holds,
\* the invariant holds again.
LEMMA ClientsSoundAgain ==
    ASSUME ClientsSound, part = "clients", part' = part, DOMAIN db' = DOMAIN db,
           NEW actions, NEW assignments, NEW certificates, NEW variations,
           db'["clientaction"] = actions, db'["assignment"] = assignments,
           db'["certificate"] = certificates, db'["variation"] = variations,
           ClientRowsSound(actions, assignments, certificates, variations),
           Standing(db["assignment"], db["certificate"], db["variation"], assignments, certificates, variations),
           Alone',
           \A q \in Workers : \/ req'[q] = req[q]
                              \/ ~ Recording(req'[q])
                              \/ ActionHolds(ToRecord(req'[q]), assignments, certificates, variations)
    PROVE  ClientsSound'
<1>1. ClientTables \subseteq DOMAIN db'
  BY DEF ClientsSound
<1>2. ClientRowsSound(db'["clientaction"], db'["assignment"], db'["certificate"], db'["variation"])
  BY ONLY ClientRowsSound(actions, assignments, certificates, variations),
     db'["clientaction"] = actions, db'["assignment"] = assignments,
     db'["certificate"] = certificates, db'["variation"] = variations
<1>3. ASSUME NEW q \in Workers, Recording(req'[q])
      PROVE  ActionHolds(ToRecord(req'[q]), db'["assignment"], db'["certificate"], db'["variation"])
  <2>1. ActionHolds(ToRecord(req'[q]), assignments, certificates, variations)
    <3>1. CASE req'[q] = req[q]
      <4>1. PICK act : act = ToRecord(req[q])
        OBVIOUS
      <4>2. Recording(req[q])
        BY <1>3, <3>1
      <4>3. ActionHolds(act, db["assignment"], db["certificate"], db["variation"])
        BY <4>1, <4>2 DEF ClientsSound, RecordingSound
      <4>4. ActionHolds(act, assignments, certificates, variations)
        BY <4>3, ActionStillHolds
      <4>5. act = ToRecord(req'[q])
        BY <3>1, <4>1 DEF ToRecord
      <4>6. QED
        BY <4>4, <4>5
    <3>2. QED
      BY <1>3, <3>1
  <2>2. QED
    BY ONLY <2>1, db'["assignment"] = assignments, db'["certificate"] = certificates,
       db'["variation"] = variations
<1>4. RecordingSound'
  BY <1>3 DEF RecordingSound, Recording
<1>5. QED
  BY <1>1, <1>2, <1>4 DEF ClientsSound

\* What writes no such table keeps it, if what a request has left to record holds.
LEMMA ClientsGoOn ==
    ASSUME ClientsSound, part = "clients", part' = part, NEW names, Keeps(names), names \cap ClientTables = {},
           Alone',
           \A q \in Workers : \/ req'[q] = req[q]
                              \/ ~ Recording(req'[q])
                              \/ ActionHolds(ToRecord(req'[q]), db["assignment"], db["certificate"], db["variation"])
    PROVE  ClientsSound'
<1>1. PICK actions, assignments, certificates, variations :
         /\ actions = db["clientaction"] /\ assignments = db["assignment"]
         /\ certificates = db["certificate"] /\ variations = db["variation"]
  OBVIOUS
<1>2. /\ DOMAIN db' = DOMAIN db
      /\ db'["clientaction"] = actions /\ db'["assignment"] = assignments
      /\ db'["certificate"] = certificates /\ db'["variation"] = variations
  BY <1>1 DEF Keeps, ClientsSound, ClientTables
<1>3. Standing(assignments, certificates, variations, assignments, certificates, variations)
  BY DEF Standing
<1>4. ClientRowsSound(actions, assignments, certificates, variations)
  BY <1>1 DEF ClientsSound
<1>5. QED
  BY <1>1, <1>2, <1>3, <1>4, ClientsSoundAgain

\* Another part records nothing.
LEMMA ClientsLeftAlone ==
    ASSUME ClientsSound, part # "clients", part' = part, NEW names, Keeps(names), "clientaction" \notin names
    PROVE  ClientsSound'
<1>1. DOMAIN db' = DOMAIN db /\ db'["clientaction"] = db["clientaction"]
  BY DEF Keeps, ClientsSound, ClientTables
<1>2. QED
  BY <1>1 DEF ClientsSound

\* A client is assigned to a project.
LEMMA ClientsAfterAssignment ==
    ASSUME NEW actions, NEW assignments, NEW certificates, NEW variations,
           ClientRowsSound(actions, assignments, certificates, variations),
           NEW row, NEW new, new = Append(assignments, row)
    PROVE  /\ ClientRowsSound(actions, new, certificates, variations)
           /\ Standing(assignments, certificates, variations, new, certificates, variations)
<1>1. IsTable(assignments)
  BY DEF ClientRowsSound
<1>2. /\ IsTable(Append(assignments, row))
      /\ DOMAIN Append(assignments, row) = DOMAIN assignments \cup {Len(assignments) + 1}
      /\ \A k \in DOMAIN assignments : Append(assignments, row)[k] = assignments[k]
  BY <1>1, TableGrows
<1>3. IsTable(new) /\ \A k \in DOMAIN assignments : k \in DOMAIN new /\ new[k] = assignments[k]
  BY <1>2
<1>4. Standing(assignments, certificates, variations, new, certificates, variations)
  BY <1>3 DEF Standing
<1>5. /\ IsTable(certificates) /\ IsTable(variations)
      /\ \A k \in DOMAIN certificates : {"status", "project"} \subseteq DOMAIN certificates[k]
      /\ \A k \in DOMAIN variations : {"status", "contract"} \subseteq DOMAIN variations[k]
  BY DEF ClientRowsSound
<1>6. QED
  BY <1>3, <1>4, <1>5, ActionsStillHold

\* A certificate is decided that was submitted.
LEMMA ClientsAfterCertificate ==
    ASSUME NEW actions, NEW assignments, NEW certificates, NEW variations,
           ClientRowsSound(actions, assignments, certificates, variations),
           NEW k \in DOMAIN certificates, certificates[k].status = "submitted",
           NEW to, NEW new, new = Turned(certificates, k, to)
    PROVE  /\ ClientRowsSound(actions, assignments, new, variations)
           /\ Standing(assignments, certificates, variations, assignments, new, variations)
           /\ k \in DOMAIN new /\ new[k].status = to /\ new[k].project = certificates[k].project
<1>1. /\ IsTable(certificates) /\ IsTable(variations) /\ IsTable(assignments)
      /\ \A j \in DOMAIN certificates : {"status", "project"} \subseteq DOMAIN certificates[j]
      /\ \A j \in DOMAIN variations : {"status", "contract"} \subseteq DOMAIN variations[j]
  BY DEF ClientRowsSound
<1>8. PICK row : row = [certificates[k] EXCEPT !.status = to]
  OBVIOUS
<1>9. new = [certificates EXCEPT ![k] = row]
  BY <1>8 DEF Turned
<1>2. /\ IsTable(new) /\ DOMAIN new = DOMAIN certificates /\ new[k] = row
      /\ \A j \in DOMAIN certificates \ {k} : new[j] = certificates[j]
  <2>1. IsTable(certificates) /\ k \in DOMAIN certificates
    BY <1>1
  <2>2. QED
    BY ONLY <1>9, <2>1, TableChanges
<1>3. {"status", "project"} \subseteq DOMAIN row /\ row.status = to /\ row.project = certificates[k].project
  <2>1. {"status", "project"} \subseteq DOMAIN certificates[k]
    BY <1>1
  <2>2. QED
    BY ONLY <1>8, <2>1
<1>4. Standing(assignments, certificates, variations, assignments, new, variations)
  BY <1>2, <1>3 DEF Standing
<1>5. \A j \in DOMAIN new : {"status", "project"} \subseteq DOMAIN new[j]
  BY <1>1, <1>2, <1>3
<1>6. ClientRowsSound(actions, assignments, new, variations)
  BY <1>1, <1>2, <1>4, <1>5, ActionsStillHold
<1>7. QED
  BY <1>2, <1>3, <1>4, <1>6

\* A variation is decided that was pending.
LEMMA ClientsAfterVariation ==
    ASSUME NEW actions, NEW assignments, NEW certificates, NEW variations,
           ClientRowsSound(actions, assignments, certificates, variations),
           NEW k \in DOMAIN variations, variations[k].status = "pending",
           NEW to, NEW new, new = Turned(variations, k, to)
    PROVE  /\ ClientRowsSound(actions, assignments, certificates, new)
           /\ Standing(assignments, certificates, variations, assignments, certificates, new)
           /\ k \in DOMAIN new /\ new[k].status = to /\ new[k].contract = variations[k].contract
<1>1. /\ IsTable(certificates) /\ IsTable(variations) /\ IsTable(assignments)
      /\ \A j \in DOMAIN certificates : {"status", "project"} \subseteq DOMAIN certificates[j]
      /\ \A j \in DOMAIN variations : {"status", "contract"} \subseteq DOMAIN variations[j]
  BY DEF ClientRowsSound
<1>8. PICK row : row = [variations[k] EXCEPT !.status = to]
  OBVIOUS
<1>9. new = [variations EXCEPT ![k] = row]
  BY <1>8 DEF Turned
<1>2. /\ IsTable(new) /\ DOMAIN new = DOMAIN variations /\ new[k] = row
      /\ \A j \in DOMAIN variations \ {k} : new[j] = variations[j]
  <2>1. IsTable(variations) /\ k \in DOMAIN variations
    BY <1>1
  <2>2. QED
    BY ONLY <1>9, <2>1, TableChanges
<1>3. {"status", "contract"} \subseteq DOMAIN row /\ row.status = to /\ row.contract = variations[k].contract
  <2>1. {"status", "contract"} \subseteq DOMAIN variations[k]
    BY <1>1
  <2>2. QED
    BY ONLY <1>8, <2>1
<1>4. Standing(assignments, certificates, variations, assignments, certificates, new)
  BY <1>2, <1>3 DEF Standing
<1>5. \A j \in DOMAIN new : {"status", "contract"} \subseteq DOMAIN new[j]
  BY <1>1, <1>2, <1>3
<1>6. ClientRowsSound(actions, assignments, certificates, new)
  BY <1>1, <1>2, <1>4, <1>5, ActionsStillHold
<1>7. QED
  BY <1>2, <1>3, <1>4, <1>6

\* A decision is recorded that holds.
LEMMA ClientsAfterAction ==
    ASSUME NEW actions, NEW assignments, NEW certificates, NEW variations,
           ClientRowsSound(actions, assignments, certificates, variations),
           NEW act, ActionHolds(act, assignments, certificates, variations),
           NEW new, new = Append(actions, act)
    PROVE  ClientRowsSound(new, assignments, certificates, variations)
<1>1. IsTable(actions)
  BY DEF ClientRowsSound
<1>2. /\ IsTable(Append(actions, act))
      /\ DOMAIN Append(actions, act) = DOMAIN actions \cup {Len(actions) + 1}
      /\ Append(actions, act)[Len(actions) + 1] = act
      /\ \A k \in DOMAIN actions : Append(actions, act)[k] = actions[k]
  BY <1>1, TableGrows
<1>3. IsTable(new) /\ \A k \in DOMAIN new : (k \in DOMAIN actions /\ new[k] = actions[k]) \/ new[k] = act
  BY <1>2
<1>4. \A k \in DOMAIN new : ActionHolds(new[k], assignments, certificates, variations)
  BY <1>3 DEF ClientRowsSound
<1>5. QED
  BY <1>3, <1>4 DEF ClientRowsSound

\* Every request about a client's decisions keeps it.
LEMMA ClientsStaySound ==
    ASSUME ~ Concurrent, ClientsSound, part = "clients", part' = part, NEW p \in Workers, ClientNext(p)
    PROVE  ClientsSound'
<1>1. PICK actions, assignments, certificates, variations :
         /\ actions = db["clientaction"] /\ assignments = db["assignment"]
         /\ certificates = db["certificate"] /\ variations = db["variation"]
  OBVIOUS
<1>2. /\ ClientTables \subseteq DOMAIN db /\ Alone
      /\ ClientRowsSound(actions, assignments, certificates, variations)
      /\ \A q \in Workers :
           Recording(req[q]) => ActionHolds(ToRecord(req[q]), assignments, certificates, variations)
  BY <1>1 DEF ClientsSound, RecordingSound
<1>3. /\ "clientaction" \in DOMAIN db /\ "assignment" \in DOMAIN db
      /\ "certificate" \in DOMAIN db /\ "variation" \in DOMAIN db
  BY <1>2 DEF ClientTables
<1>4. Serving(p) => \A q \in Workers : req[q] = Idle
  BY SerialRows
<1>5. ~ Recording(Idle)
  BY DEF Recording, Idle
\* A request that is over records nothing more.
<1>6. ASSUME req' = req \/ req' = [req EXCEPT ![p] = Idle]
      PROVE  Alone' /\ \A q \in Workers : req'[q] = req[q] \/ ~ Recording(req'[q])
  BY <1>2, <1>5, <1>6, FinishedOrNot
\* A request that goes on with something to record.
<1>7. ASSUME NEW r, req' = [req EXCEPT ![p] = r], (\A q \in Workers : req[q] = Idle) \/ req[p] # Idle
      PROVE  /\ Alone'
             /\ \A q \in Workers : req'[q] = req[q] \/ req'[q] = r
  BY <1>2, <1>7, AloneStaysAlone DEF Alone
<1>8. ASSUME NEW names, names \cap ClientTables = {}, Keeps(names), req' = req \/ req' = [req EXCEPT ![p] = Idle]
      PROVE  ClientsSound'
  BY <1>6, <1>8, ClientsGoOn
<1>9. ASSUME NEW u, NEW project, AssignClientProject(p, u, project) PROVE ClientsSound'
  <2>1. PICK row, new : row = ClientProjectAssignment(u, project) /\ new = Append(assignments, row)
    OBVIOUS
  <2>2. Create(p, "assignment", row)
    BY <1>9, <2>1 DEF AssignClientProject
  <2>3. /\ DOMAIN db' = DOMAIN db /\ db'["assignment"] = new
        /\ db'["clientaction"] = actions /\ db'["certificate"] = certificates /\ db'["variation"] = variations
    BY <1>1, <1>3, <2>1, <2>2, RowCreated
  <2>4. req' = req \/ req' = [req EXCEPT ![p] = Idle]
    BY <2>2, CreateTouches DEF Touches
  <2>5. /\ ClientRowsSound(actions, new, certificates, variations)
        /\ Standing(assignments, certificates, variations, new, certificates, variations)
    BY <1>2, <2>1, ClientsAfterAssignment
  <2>6. QED
    BY <1>1, <1>6, <2>3, <2>4, <2>5, ClientsSoundAgain
<1>10. ASSUME NEW u, NEW project, SubmitClientRequest(p, u, project) PROVE ClientsSound'
  <2>1. PICK names : names = {"clientrequest"}
    OBVIOUS
  <2>2. Create(p, "clientrequest", ClientRequest(u)) /\ names \cap ClientTables = {} /\ "clientrequest" \in names
    BY <1>10, <2>1 DEF SubmitClientRequest, ClientTables
  <2>3. Keeps(names)
    BY <2>2, CreateKeeps
  <2>4. req' = req \/ req' = [req EXCEPT ![p] = Idle]
    BY <2>2, CreateTouches DEF Touches
  <2>5. QED
    BY <1>8, <2>2, <2>3, <2>4
<1>11. ASSUME NEW u, NEW project, NEW v, NEW d \in {"approved", "rejected"},
              ApproveVariationAsClient(p, u, project, v, d)
       PROVE  ClientsSound'
  <2>1. PICK act : act = ClientApprovalAction(u, "variation", v, d)
    OBVIOUS
  <2>2. PICK new : new = Turned(variations, v, d)
    OBVIOUS
  <2>3. PICK more : more = Append(actions, act)
    OBVIOUS
  <2>4. /\ v \in DOMAIN variations /\ variations[v].status = "pending"
        /\ MayDecide(db, u, project, ProjectOf[variations[v].contract])
        /\ db' = Insert([db EXCEPT !.variation[v].status = d], "clientaction", act)
        /\ req' = [req EXCEPT ![p] = Idle]
    BY <1>1, <1>11, <2>1, SerialRows DEF ApproveVariationAsClient, VariationProject, Commit, Finish
  <2>5. /\ DOMAIN db' = DOMAIN db /\ db'["variation"] = new /\ db'["clientaction"] = more
        /\ db'["assignment"] = assignments /\ db'["certificate"] = certificates
    BY ONLY <1>1, <1>3, <2>2, <2>3, <2>4 DEF Insert, Turned
  <2>6. /\ ClientRowsSound(actions, assignments, certificates, new)
        /\ Standing(assignments, certificates, variations, assignments, certificates, new)
        /\ v \in DOMAIN new /\ new[v].status = d /\ new[v].contract = variations[v].contract
    BY <1>2, <2>2, <2>4, ClientsAfterVariation
  <2>7. GrantedTo(assignments, u, ProjectOf[variations[v].contract])
    BY <1>1, <2>4 DEF MayDecide, Assigned, GrantedTo
  <2>8. act.type = "variation" /\ act.decision = d /\ act.of = v /\ act.user = u
    BY <2>1 DEF ClientApprovalAction
  <2>9. ActionHolds(act, assignments, certificates, new)
    BY <2>6, <2>7, <2>8 DEF ActionHolds
  <2>10. ClientRowsSound(more, assignments, certificates, new)
    BY <2>3, <2>6, <2>9, ClientsAfterAction
  <2>11. QED
    BY <1>1, <1>6, <2>4, <2>5, <2>6, <2>10, ClientsSoundAgain
<1>12. ASSUME NEW u, NEW project, NEW cert, NEW d \in {"approved", "rejected"},
              ApproveCertificateAsClient(p, u, project, cert, d)
       PROVE  ClientsSound'
  <2>1. PICK to : to = IF d = "approved" THEN "client_approved" ELSE "rejected"
    OBVIOUS
  <2>2. PICK new : new = Turned(certificates, cert, to)
    OBVIOUS
  <2>3. PICK stage, todo : /\ stage = (IF d = "approved" THEN "certify for client" ELSE "record")
                           /\ todo = (IF d = "approved" THEN <<u, cert>> ELSE <<u, cert, d>>)
    OBVIOUS
  <2>4. PICK r : r = [at |-> stage, todo |-> todo, seen |-> <<>>]
    OBVIOUS
  <2>5. /\ cert \in DOMAIN certificates /\ certificates[cert].status = "submitted"
        /\ MayDecide(db, u, project, certificates[cert].project)
        /\ Serving(p)
    BY <1>1, <1>12, SerialRows DEF ApproveCertificateAsClient, CertificateProject
  <2>6. /\ db' = [db EXCEPT !.certificate[cert].status = to]
        /\ req' = [req EXCEPT ![p] = r]
    <3>1. CASE d = "approved"
      <4>1. CommitThen(p, [db EXCEPT !.certificate[cert].status = "client_approved"], "certify for client", <<u, cert>>)
        BY <1>12, <3>1, SerialRows DEF ApproveCertificateAsClient
      <4>2. to = "client_approved" /\ r = [at |-> "certify for client", todo |-> <<u, cert>>, seen |-> <<>>]
        BY <2>1, <2>3, <2>4, <3>1
      <4>3. QED
        BY <4>1, <4>2, SerialRows DEF CommitThen, GoOn
    <3>2. CASE d # "approved"
      <4>1. CommitThen(p, [db EXCEPT !.certificate[cert].status = "rejected"], "record", <<u, cert, d>>)
        BY <1>12, <3>2, SerialRows DEF ApproveCertificateAsClient
      <4>2. to = "rejected" /\ r = [at |-> "record", todo |-> <<u, cert, d>>, seen |-> <<>>]
        BY <2>1, <2>3, <2>4, <3>2
      <4>3. QED
        BY <4>1, <4>2, SerialRows DEF CommitThen, GoOn
    <3>3. QED
      BY <3>1, <3>2
  <2>7. /\ DOMAIN db' = DOMAIN db /\ db'["certificate"] = new
        /\ db'["clientaction"] = actions /\ db'["assignment"] = assignments /\ db'["variation"] = variations
    BY ONLY <1>1, <1>3, <2>2, <2>6 DEF Turned
  <2>8. /\ ClientRowsSound(actions, assignments, new, variations)
        /\ Standing(assignments, certificates, variations, assignments, new, variations)
        /\ cert \in DOMAIN new /\ new[cert].status = to /\ new[cert].project = certificates[cert].project
    BY <1>2, <2>2, <2>5, ClientsAfterCertificate
  <2>9. GrantedTo(assignments, u, certificates[cert].project)
    BY <1>1, <2>5 DEF MayDecide, Assigned, GrantedTo
  <2>10. PICK act : act = ToRecord(r)
    OBVIOUS
  <2>11. act.type # "variation" /\ act.of = cert /\ act.user = u /\ act.decision = d
    <3>1. r.todo = todo /\ r.at = stage
      BY <2>4
    <3>2. CASE d = "approved"
      <4>1. r.todo = <<u, cert>>
        BY <2>3, <3>1, <3>2
      <4>5. r.at = "certify for client"
        BY <2>3, <3>1, <3>2
      <4>4. r.todo[1] = u /\ r.todo[2] = cert
        BY ONLY <4>1
      <4>6. r.at # "record"
        BY ONLY <4>5
      <4>2. act = ClientApprovalAction(u, "certificate", cert, d)
        BY <2>10, <3>2, <4>4, <4>6 DEF ToRecord
      <4>3. QED
        BY <4>2 DEF ClientApprovalAction
    <3>3. CASE d # "approved"
      <4>1. r.at = "record" /\ r.todo = <<u, cert, d>>
        BY <2>3, <3>1, <3>3
      <4>2. act = ClientApprovalAction(u, "certificate", cert, d)
        BY <2>10, <3>3, <4>1 DEF ToRecord
      <4>3. QED
        BY <4>2 DEF ClientApprovalAction
    <3>4. QED
      BY <3>2, <3>3
  <2>12. to = (IF act.decision = "rejected" THEN "rejected" ELSE "client_approved")
    BY <2>1, <2>11
  <2>13. ActionHolds(ToRecord(r), assignments, new, variations)
    <3>1. ActionHolds(act, assignments, new, variations)
      BY <2>8, <2>9, <2>11, <2>12 DEF ActionHolds
    <3>2. QED
      BY <2>10, <3>1
  <2>14. /\ Alone'
         /\ \A q \in Workers : req'[q] = req[q] \/ req'[q] = r
    BY <1>4, <1>7, <2>5, <2>6
  <2>15. \A q \in Workers : \/ req'[q] = req[q]
                            \/ ~ Recording(req'[q])
                            \/ ActionHolds(ToRecord(req'[q]), assignments, new, variations)
    BY <2>13, <2>14
  <2>16. QED
    BY <1>1, <2>7, <2>8, <2>14, <2>15, ClientsSoundAgain
<1>13. ASSUME NEW k, ResolveClientRequest(p, k) PROVE ClientsSound'
  <2>1. PICK names : names = {"clientrequest"}
    OBVIOUS
  <2>2. Keeps(names) /\ names \cap ClientTables = {}
    BY <1>13, <2>1, SerialRows DEF ResolveClientRequest, CommitThen, Keeps, ClientTables
  <2>3. PICK r : r = [at |-> "tell", todo |-> <<k>>, seen |-> IF Concurrent THEN db' ELSE <<>>]
    OBVIOUS
  <2>4. Serving(p) /\ req' = [req EXCEPT ![p] = r] /\ r.at = "tell"
    BY <1>13, <2>3 DEF ResolveClientRequest, CommitThen, GoOn
  <2>5. /\ Alone'
        /\ \A q \in Workers : req'[q] = req[q] \/ req'[q] = r
    BY <1>4, <1>7, <2>4
  <2>6. ~ Recording(r)
    BY <2>4 DEF Recording
  <2>7. QED
    BY <2>2, <2>5, <2>6, ClientsGoOn
<1>14. CASE CertifyForClient(p)
  <2>1. PICK names : names = {"tracking"}
    OBVIOUS
  <2>2. Keeps(names) /\ names \cap ClientTables = {}
    BY <1>14, <2>1, SerialRows DEF CertifyForClient, CommitThen, Keeps, ClientTables
  <2>3. PICK u, cert : u = req[p].todo[1] /\ cert = req[p].todo[2]
    OBVIOUS
  <2>4. PICK r : r = [at |-> "record", todo |-> <<u, cert, "approved">>, seen |-> IF Concurrent THEN db' ELSE <<>>]
    OBVIOUS
  <2>5. /\ req[p].at = "certify for client" /\ req' = [req EXCEPT ![p] = r]
        /\ r.at = "record" /\ r.todo = <<u, cert, "approved">>
    BY <1>14, <2>3, <2>4 DEF CertifyForClient, Resuming, CommitThen, GoOn
  <2>6. /\ req[p] # Idle /\ Recording(req[p])
    <3>1. Recording(req[p])
      BY <2>5 DEF Recording
    <3>2. QED
      BY <1>5, <3>1
  <2>7. /\ Alone'
        /\ \A q \in Workers : req'[q] = req[q] \/ req'[q] = r
    BY <1>7, <2>5, <2>6
  <2>8. ToRecord(r) = ToRecord(req[p])
    <3>6. r.at = "record" /\ r.todo = <<u, cert, "approved">>
      BY <2>5
    <3>1. r.todo[1] = u /\ r.todo[2] = cert /\ r.todo[3] = "approved" /\ r.at = "record"
      BY ONLY <3>6
    <3>2. ToRecord(r) = ClientApprovalAction(u, "certificate", cert, "approved")
      BY ONLY <3>1 DEF ToRecord
    <3>3. req[p].at # "record"
      BY ONLY <2>5
    <3>4. ToRecord(req[p]) = ClientApprovalAction(u, "certificate", cert, "approved")
      BY ONLY <2>3, <3>3 DEF ToRecord
    <3>5. QED
      BY <3>2, <3>4
  <2>9. ActionHolds(ToRecord(r), db["assignment"], db["certificate"], db["variation"])
    BY <1>1, <1>2, <2>6, <2>8
  <2>10. QED
    BY <2>2, <2>7, <2>9, ClientsGoOn
<1>15. CASE RecordClientAction(p)
  <2>1. PICK act, more : act = ToRecord(req[p]) /\ more = Append(actions, act)
    OBVIOUS
  <2>2. req[p].at = "record"
    BY <1>15 DEF RecordClientAction, Resuming
  <2>3. act = ClientApprovalAction(req[p].todo[1], "certificate", req[p].todo[2], req[p].todo[3])
    BY <2>1, <2>2 DEF ToRecord
  <2>4. db' = Insert(db, "clientaction", act) /\ req' = [req EXCEPT ![p] = Idle]
    BY <1>15, <2>3, SerialRows DEF RecordClientAction, Commit, Finish
  <2>5. /\ DOMAIN db' = DOMAIN db /\ db'["clientaction"] = more
        /\ db'["assignment"] = assignments /\ db'["certificate"] = certificates /\ db'["variation"] = variations
    BY ONLY <1>1, <1>3, <2>1, <2>4 DEF Insert
  <2>6. ActionHolds(act, assignments, certificates, variations)
    BY <1>2, <2>1, <2>2 DEF Recording
  <2>7. ClientRowsSound(more, assignments, certificates, variations)
    BY <1>2, <2>1, <2>6, ClientsAfterAction
  <2>8. Standing(assignments, certificates, variations, assignments, certificates, variations)
    BY DEF Standing
  <2>9. QED
    BY <1>1, <1>6, <2>4, <2>5, <2>7, <2>8, ClientsSoundAgain
<1>16. CASE TellClient(p)
  <2>1. PICK names : names = {"clientrequest"}
    OBVIOUS
  <2>2. Keeps(names) /\ names \cap ClientTables = {} /\ req' = [req EXCEPT ![p] = Idle]
    BY <1>16, <2>1, SerialRows DEF TellClient, Commit, Finish, Keeps, ClientTables
  <2>3. QED
    BY <1>8, <2>2
<1>17. CASE Abandon(p)
  <2>1. PICK names : names = {}
    OBVIOUS
  <2>2. Keeps(names) /\ names \cap ClientTables = {} /\ req' = [req EXCEPT ![p] = Idle]
    BY <1>17, <2>1, AbandonKeeps DEF Abandon
  <2>3. QED
    BY <1>8, <2>2
<1>18. ASSUME NEW v, NEW d, DecideVariationOrder(p, v, d) PROVE ClientsSound'
  <2>1. Turn(p, "variation", v, {"pending"}, d)
    BY <1>18 DEF DecideVariationOrder
  <2>2. PICK new : new = Turned(variations, v, d)
    OBVIOUS
  <2>3. /\ DOMAIN db' = DOMAIN db
        /\ db'["variation"] = [db["variation"] EXCEPT ![v] = [db["variation"][v] EXCEPT !.status = d]]
        /\ \A u \in DOMAIN db \ {"variation"} : db'[u] = db[u]
        /\ v \in DOMAIN db["variation"] /\ db["variation"][v].status \in {"pending"}
    BY <1>3, <2>1, StatusTurned
  <2>4. /\ db'["variation"] = new /\ db'["clientaction"] = actions
        /\ db'["assignment"] = assignments /\ db'["certificate"] = certificates
        /\ v \in DOMAIN variations /\ variations[v].status = "pending"
    BY <1>1, <1>3, <2>2, <2>3 DEF Turned
  <2>5. req' = req \/ req' = [req EXCEPT ![p] = Idle]
    BY <2>1, TurnTouches DEF Touches
  <2>6. /\ ClientRowsSound(actions, assignments, certificates, new)
        /\ Standing(assignments, certificates, variations, assignments, certificates, new)
    BY <1>2, <2>2, <2>4, ClientsAfterVariation
  <2>7. QED
    BY <1>1, <1>6, <2>3, <2>4, <2>5, <2>6, ClientsSoundAgain
<1>19. QED
  BY <1>9, <1>10, <1>11, <1>12, <1>13, <1>14, <1>15, <1>16, <1>17, <1>18 DEF ClientNext, ClientRoutes

-----------------------------------------------------------------------------
(* Consent comes first *)

ConsentSound == ApprovalsSound /\ AmendmentsSound /\ TendersSound /\ ClientsSound

\* The invariant implies the property.
LEMMA ConsentSoundSays == ASSUME ConsentSound PROVE ConsentComesFirst
<1>1. PICK amendment, revision, permit :
         /\ amendment = [table |-> "amendment", kind |-> AmendmentKind, effect |-> {"approved"}]
         /\ revision = [table |-> "revision", kind |-> BudgetKind, effect |-> {"approved"}]
         /\ permit = [table |-> "permit", kind |-> PermitKind, effect |-> {"approved", "active", "closed"}]
  OBVIOUS
<1>2. amendment \in Governed /\ revision \in Governed /\ permit \in Governed
  BY <1>1 DEF Governed
<1>3. /\ GovernedWait(amendment.table, amendment.kind, amendment.effect)
      /\ GovernedWait(revision.table, revision.kind, revision.effect)
      /\ GovernedWait(permit.table, permit.kind, permit.effect)
  BY <1>2, GovernedSoundSays DEF ConsentSound
<1>4. /\ amendment.table = "amendment" /\ amendment.kind = AmendmentKind /\ amendment.effect = {"approved"}
      /\ revision.table = "revision" /\ revision.kind = BudgetKind /\ revision.effect = {"approved"}
      /\ permit.table = "permit" /\ permit.kind = PermitKind /\ permit.effect = {"approved", "active", "closed"}
  BY ONLY <1>1
<1>5. /\ GovernedWait("amendment", AmendmentKind, {"approved"})
      /\ GovernedWait("revision", BudgetKind, {"approved"})
      /\ GovernedWait("permit", PermitKind, {"approved", "active", "closed"})
  BY ONLY <1>3, <1>4
<1>6. QED
  BY <1>5, DefinitionsSoundSay, AmendmentsSoundSay, TendersSoundSay, ClientsSoundSay
  DEF ConsentSound, ConsentComesFirst

\* Which parts write what it is about.
LEMMA WhoWritesConsents ==
    ASSUME NEW part0 \in DOMAIN PartTables
    PROVE  /\ part0 \in {"baseline", "amendments", "permits"} \/ PartTables[part0] \cap ConsentTables = {}
           /\ part0 \in {"award", "amendments"} \/ PartTables[part0] \cap {"contract", "amendment"} = {}
           /\ part0 = "tenders" \/ "step" \notin PartTables[part0]
           /\ part0 = "clients" \/ "clientaction" \notin PartTables[part0]
  BY DEF PartTables, ConsentTables

\* Each part keeps the invariant: it writes its own tables, and of the others' none.
LEMMA ConsentSoundAfterRequest ==
    ASSUME ~ Concurrent, ConsentSound, part' = part, RequestNext
    PROVE  ConsentSound'
<1>1. part \in DOMAIN PartTables /\ Keeps(PartTables[part])
  BY PartKeeps
<1>2. PICK names : names = PartTables[part]
  OBVIOUS
<1>3. Keeps(names)
  BY <1>1, <1>2
<1>4. /\ part \in {"baseline", "amendments", "permits"} \/ names \cap ConsentTables = {}
      /\ part \in {"award", "amendments"} \/ names \cap {"contract", "amendment"} = {}
      /\ part = "tenders" \/ "step" \notin names
      /\ part = "clients" \/ "clientaction" \notin names
  BY <1>1, <1>2, WhoWritesConsents
<1>5. ApprovalsSound /\ AmendmentsSound /\ TendersSound /\ ClientsSound
  BY DEF ConsentSound
<1>6. ApprovalsSound'
  <2>1. CASE part \in {"baseline", "amendments", "permits"}
    <3>1. \E q \in Workers : BaselineNext(q) \/ AmendmentNext(q) \/ PermitNext(q)
      BY <2>1 DEF RequestNext
    <3>2. QED
      BY <1>5, <3>1, ApprovalsAfterBaseline, ConsentsAfterAmendments, ApprovalsAfterPermits
  <2>2. CASE part \notin {"baseline", "amendments", "permits"}
    BY <1>3, <1>4, <1>5, <2>2, ApprovalsLeftAlone
  <2>3. QED
    BY <2>1, <2>2
<1>7. AmendmentsSound'
  <2>1. CASE part \in {"award", "amendments"}
    <3>1. \E q \in Workers : AwardNext(q) \/ AmendmentNext(q)
      BY <2>1 DEF RequestNext
    <3>2. QED
      BY <1>5, <3>1, AmendmentsAfterAward, ConsentsAfterAmendments
  <2>2. CASE part \notin {"award", "amendments"}
    BY <1>3, <1>4, <1>5, <2>2, AmendmentsLeftAlone
  <2>3. QED
    BY <2>1, <2>2
<1>8. TendersSound'
  <2>1. CASE part = "tenders"
    <3>1. \E q \in Workers : TenderNext(q)
      BY <2>1 DEF RequestNext
    <3>2. QED
      BY <1>5, <3>1, TendersStaySound
  <2>2. CASE part # "tenders"
    BY <1>3, <1>4, <1>5, <2>2, TendersLeftAlone
  <2>3. QED
    BY <2>1, <2>2
<1>9. ClientsSound'
  <2>1. CASE part = "clients"
    <3>1. \E q \in Workers : ClientNext(q)
      BY <2>1 DEF RequestNext
    <3>2. QED
      BY <1>5, <2>1, <3>1, ClientsStaySound
  <2>2. CASE part # "clients"
    BY <1>3, <1>4, <1>5, <2>2, ClientsLeftAlone
  <2>3. QED
    BY <2>1, <2>2
<1>10. QED
  BY <1>6, <1>7, <1>8, <1>9 DEF ConsentSound

\* So does every step; what the devices do between requests is about other tables.
LEMMA ConsentStaysSound ==
    ASSUME ~ Concurrent, AccessSound, ConsentSound, [Next]_<<part, vars, fieldVars>>
    PROVE  ConsentSound'
<1>1. CASE part' = part /\ RequestNext
  BY <1>1, ConsentSoundAfterRequest
<1>2. ASSUME part' = part, part = "device", NEW p, DeviceNext(p) PROVE ConsentSound'
  <2>1. PICK names : names = {"diary", "sync", "conflict", "report"}
    OBVIOUS
  <2>2. DeviceTyped /\ Keeps(names)
    BY <1>2, <2>1, DeviceKeeps DEF AccessSound
  <2>3. /\ names \cap ConsentTables = {} /\ names \cap {"contract", "amendment"} = {}
        /\ "step" \notin names /\ "clientaction" \notin names
    BY <2>1 DEF ConsentTables
  <2>4. ApprovalsSound'
    BY <2>2, <2>3, ApprovalsLeftAlone DEF ConsentSound
  <2>5. AmendmentsSound' /\ TendersSound'
    BY <2>2, <2>3, AmendmentsLeftAlone, TendersLeftAlone DEF ConsentSound
  <2>6. part # "clients"
    BY <1>2
  <2>7. ClientsSound'
    BY <1>2, <2>2, <2>3, <2>6, ClientsLeftAlone DEF ConsentSound
  <2>8. QED
    BY <2>4, <2>5, <2>7 DEF ConsentSound
<1>3. CASE UNCHANGED <<part, vars, fieldVars>>
  <2>1. db' = db /\ req' = req /\ part' = part
    BY <1>3 DEF vars
  <2>2. QED
    BY <2>1 DEF ConsentSound, ApprovalsSound, AmendmentsSound, TendersSound, ClientsSound, RecordingSound, Alone
<1>4. QED
  BY <1>1, <1>2, <1>3 DEF Next

\* The tables where the program starts: empty, but for the contracts that a part has
\* prepared.
LEMMA FirstConsentTables ==
    ASSUME Init
    PROVE  /\ \A t \in {"definition", "approval", "amendment", "revision", "permit", "step",
                        "clientaction", "assignment"} : t \in DOMAIN db /\ db[t] = <<>>
           /\ "contract" \in DOMAIN db
           /\ \/ db["contract"] = <<>>
              \/ db["contract"] = Awarded["contract"]
              \/ db["contract"] = Submitted["contract"]
<1> DEFINE m9 == Overlay(SurveyTables, Overlay(PaperTables, Overlay(ScheduleTables, [filed |-> <<>>])))
           m8 == Overlay(SafetyTables, m9)
           m7 == Overlay(SubcontractTables, Overlay(SiteTables, m8))
           m6 == Overlay(PortalTables, m7)
           m5 == Overlay(ContractTables, m6)
           m4 == Overlay(BiddingTables, Overlay(AssistantTables, m5))
           m3 == Overlay(ApprovalTables, m4)
           m2 == Overlay(WorkforceTables, Overlay(AccountTables, m3))
           permitted == {"permit"}
           seen == permitted \cup {"clientaction", "assignment"}
           amended == seen \cup {"amendment", "contract"}
           stepped == amended \cup {"step", "revision"}
           all == stepped \cup {"definition", "approval"}
           Empty(m, names) == \A t \in names : t \in DOMAIN m /\ m[t] = <<>>
<1>1. db = Overlay(Prepared(part), m2)
  BY DEF Init, OfficeTables
<1> HIDE DEF m9
<1>2. Empty(m8, permitted)
  BY DEF Overlay, SafetyTables
<1> HIDE DEF m8
<1>3. Empty(m7, permitted)
  BY <1>2 DEF Overlay, SubcontractTables, SiteTables
<1> HIDE DEF m7
<1>4. Empty(m6, seen)
  BY <1>3 DEF Overlay, PortalTables
<1> HIDE DEF m6
<1>5. Empty(m5, amended)
  BY <1>4 DEF Overlay, ContractTables
<1> HIDE DEF m5
<1>6. Empty(m4, stepped)
  BY <1>5 DEF Overlay, BiddingTables, AssistantTables
<1> HIDE DEF m4
<1>7. Empty(m3, all)
  BY <1>6 DEF Overlay, ApprovalTables
<1> HIDE DEF m3
<1>8. Empty(m2, all)
  BY <1>7 DEF Overlay, WorkforceTables, AccountTables
<1> HIDE DEF m2
<1>9. PICK f : f = Prepared(part)
  OBVIOUS
<1>10. db = [t \in DOMAIN f \cup DOMAIN m2 |-> IF t \in DOMAIN f THEN f[t] ELSE m2[t]]
  BY <1>1, <1>9 DEF Overlay
<1>11. /\ DOMAIN f \cap {"definition", "approval", "amendment", "revision", "permit", "step",
                         "clientaction", "assignment"} = {}
       /\ \/ "contract" \notin DOMAIN f
          \/ "contract" \in DOMAIN f /\ f["contract"] = Awarded["contract"]
          \/ "contract" \in DOMAIN f /\ f["contract"] = Submitted["contract"]
  BY <1>9, PreparedContracts
<1>12. QED
  BY ONLY <1>8, <1>10, <1>11

\* Nobody asked for anything; contracts that were awarded are as they were awarded.
LEMMA NothingConsented ==
    ASSUME NEW none, none = <<>>
    PROVE  /\ DefinitionRowsSound(none, none)
           /\ \A kind, effect : GovernedSound(none, none, kind, effect)
           /\ AmendmentRowsSound(none, none)
           /\ AmendmentRowsSound(Awarded["contract"], none)
           /\ AmendmentRowsSound(Submitted["contract"], none)
           /\ StepRowsSound(none)
<1>1. IsTable(none) /\ DOMAIN none = {}
  BY SmallTables DEF IsTable
<1>2. DefinitionRowsSound(none, none) /\ StepRowsSound(none)
  BY <1>1 DEF DefinitionRowsSound, StepRowsSound
<1>3. \A kind, effect : GovernedSound(none, none, kind, effect)
  BY <1>1 DEF GovernedSound
<1>4. AmendmentRowsSound(none, none)
  BY <1>1 DEF AmendmentRowsSound, AmendmentsTyped
<1>5. PICK first, second : first = Contract(1, 2, 0) /\ second = Contract(2, 1, Undated)
  OBVIOUS
<1>6. AmendmentRowsSound(Append(none, first), none)
  <2>1. 0 \in Nat \cup {Undated}
    OBVIOUS
  <2>2. AmendmentRowsSound(Append(none, Contract(1, 2, 0)), none)
    BY ONLY <1>4, <2>1, ContractIsAwarded
  <2>3. QED
    BY ONLY <1>5, <2>2
<1>7. PICK one : one = Append(none, first)
  OBVIOUS
<1>8. AmendmentRowsSound(Append(one, second), none)
  <2>1. AmendmentRowsSound(one, none) /\ Undated \in Nat \cup {Undated}
    BY ONLY <1>6, <1>7
  <2>2. PICK value : value = 1
    OBVIOUS
  <2>3. value \in Int
    BY <2>2
  <2>4. AmendmentRowsSound(Append(one, Contract(2, value, Undated)), none)
    BY ONLY <2>1, <2>3, ContractIsAwarded, Zenon
  <2>5. QED
    BY ONLY <1>5, <2>2, <2>4
<1>9. one = Awarded["contract"]
  <2>1. one = <<first>>
    BY ONLY <1>7, none = <<>>
  <2>2. QED
    BY <1>5, <2>1 DEF Awarded
<1>10. Append(one, second) = Submitted["contract"]
  BY <1>5, <1>9 DEF Submitted, TwoContracts
<1>11. QED
  BY <1>2, <1>3, <1>4, <1>6, <1>7, <1>8, <1>9, <1>10

\* The invariant holds where the program starts.
LEMMA FirstConsent ==
    ASSUME Init
    PROVE  ConsentSound
<1>1. PICK none : none = <<>>
  OBVIOUS
<1>2. /\ DefinitionRowsSound(none, none)
      /\ \A kind, effect : GovernedSound(none, none, kind, effect)
      /\ AmendmentRowsSound(none, none)
      /\ AmendmentRowsSound(Awarded["contract"], none)
      /\ AmendmentRowsSound(Submitted["contract"], none)
      /\ StepRowsSound(none)
  BY <1>1, NothingConsented
<1>3. /\ \A t \in {"definition", "approval", "amendment", "revision", "permit", "step",
                   "clientaction", "assignment"} : t \in DOMAIN db /\ db[t] = none
      /\ "contract" \in DOMAIN db
      /\ \/ db["contract"] = none
         \/ db["contract"] = Awarded["contract"]
         \/ db["contract"] = Submitted["contract"]
  BY <1>1, FirstConsentTables
<1>4. ApprovalsSound
  <2>1. ConsentTables \subseteq DOMAIN db /\ \A t \in ConsentTables : db[t] = none
    BY <1>3 DEF ConsentTables
  <2>2. \A g \in Governed : g.table \in {"amendment", "revision", "permit"}
    BY DEF Governed
  <2>3. \A g \in Governed : db[g.table] = none
    BY <1>3, <2>2
  <2>4. DefinitionRowsSound(db["definition"], db["approval"]) /\ db["approval"] = none
    BY <1>2, <1>3
  <2>5. QED
    BY <1>2, <2>1, <2>3, <2>4 DEF ApprovalsSound
<1>5. AmendmentsSound
  <2>1. AmendmentRowsSound(db["contract"], none)
    BY <1>2, <1>3
  <2>2. QED
    BY <1>3, <2>1 DEF AmendmentsSound
<1>6. TendersSound
  BY <1>2, <1>3 DEF TendersSound
<1>7. ClientsSound
  <2>1. /\ {"certificate", "certline", "variation"} \subseteq DOMAIN db
        /\ \/ db["certificate"] = none /\ db["certline"] = none /\ db["variation"] = none
           \/ /\ db["certificate"] = Submitted["certificate"]
              /\ db["certline"] = Submitted["certline"]
              /\ db["variation"] = Submitted["variation"]
    BY <1>1, FirstMoneyTables
  <2>2. PICK certificates, variations : certificates = db["certificate"] /\ variations = db["variation"]
    OBVIOUS
  <2>3. IsTable(none) /\ DOMAIN none = {}
    BY <1>1, SmallTables DEF IsTable
  <2>4. /\ IsTable(certificates) /\ IsTable(variations)
        /\ \A k \in DOMAIN certificates : {"status", "project"} \subseteq DOMAIN certificates[k]
        /\ \A k \in DOMAIN variations : {"status", "contract"} \subseteq DOMAIN variations[k]
    <3>1. CASE certificates = none /\ variations = none
      BY <2>3, <3>1
    <3>2. CASE certificates = Submitted["certificate"] /\ variations = Submitted["variation"]
      <4>1. PICK one, two, vo : /\ one = SubmittedCertificate(2, ProjectOf[1])
                                /\ two = SubmittedCertificate(1, None)
                                /\ vo = VariationOrder(2, 1)
        OBVIOUS
      <4>2. certificates = <<one, two>> /\ variations = <<vo>>
        BY <3>2, <4>1 DEF Submitted
      <4>3. /\ {"status", "project"} \subseteq DOMAIN one
            /\ {"status", "project"} \subseteq DOMAIN two
            /\ {"status", "contract"} \subseteq DOMAIN vo
        BY <4>1 DEF SubmittedCertificate, ProgressCertificate, VariationOrder
      <4>4. \A x : <<x>> \in Seq({x}) /\ DOMAIN <<x>> = {1} /\ <<x>>[1] = x
        BY SmallTables
      <4>5. /\ <<one, two>> \in Seq({one, two}) /\ DOMAIN <<one, two>> = {1, 2}
            /\ <<one, two>>[1] = one /\ <<one, two>>[2] = two
        OBVIOUS
      <4>6. IsTable(certificates) /\ IsTable(variations)
        BY <4>2, <4>4, <4>5 DEF IsTable
      <4>7. \A k \in DOMAIN certificates : {"status", "project"} \subseteq DOMAIN certificates[k]
        BY <4>2, <4>3, <4>5
      <4>8. QED
        BY <4>2, <4>3, <4>4, <4>6, <4>7
    <3>3. QED
      BY <2>1, <2>2, <3>1, <3>2
  <2>5. ClientRowsSound(none, none, certificates, variations)
    BY <2>3, <2>4 DEF ClientRowsSound
  <2>6. RecordingSound
    <3>1. req = [p \in Workers |-> Idle] /\ Idle.at = "idle"
      BY DEF Init, Idle
    <3>2. ~ Recording(Idle)
      BY DEF Recording, Idle
    <3>3. QED
      BY <3>1, <3>2 DEF RecordingSound, Alone
  <2>7. ClientTables \subseteq DOMAIN db
    BY <1>3, <2>1 DEF ClientTables
  <2>8. ClientRowsSound(db["clientaction"], db["assignment"], db["certificate"], db["variation"])
    BY <1>3, <2>2, <2>5
  <2>9. QED
    BY <1>1, <1>3, <2>6, <2>7, <2>8 DEF ClientsSound
<1>8. QED
  BY <1>4, <1>5, <1>6, <1>7 DEF ConsentSound

\* Nothing that somebody must agree to takes effect before they have, over every
\* order of requests: an amendment, a budget revision or a permit under a workflow
\* waits for its approval (finalize_amendment, finalize_budget_revision,
\* finalize_permit_approval), the definition it was approved under stands
\* (is_definition_editable), a contract is worth what its approved amendments make it
\* (record_amendment), a tender's steps are decided in their order
\* (decide_approval_step), and a client's decision is that of somebody assigned to the
\* project, and how the record stands (approve_variation_order_as_client,
\* approve_certificate_as_client).
THEOREM ConsentIsSoughtFirst == ~ Concurrent => (Spec => []ConsentComesFirst)
<1> SUFFICES ASSUME ~ Concurrent PROVE Spec => []ConsentComesFirst
  OBVIOUS
<1>1. Init => AccessSound /\ ConsentSound
  BY FirstAccess, FirstConsent
<1>2. AccessSound /\ ConsentSound /\ [Next]_<<part, vars, fieldVars>> => (AccessSound /\ ConsentSound)'
  BY AccessStaysSound, ConsentStaysSound
<1>3. ConsentSound => ConsentComesFirst
  BY ConsentSoundSays
<1>4. QED
  BY <1>1, <1>2, <1>3, PTL DEF Spec


-----------------------------------------------------------------------------
(* What devices captured arrives *)

\* The server has got a record; and what it made of it.
Arrived(entries, r) == \E e \in DOMAIN entries : entries[e].record = r

Made(entries, r, status) == \E e \in DOMAIN entries : entries[e].record = r /\ entries[e].status = status

\* An entry of the queue is in the hands of a sync (InHand), and so waits.
Holds(sync, k) ==
    /\ sync.at \in {"marking", "sent", "served", "failing"}
    /\ \E i \in DOMAIN sync.chunk : sync.chunk[i] = k

Waits(k, queue, syncs) ==
    \/ queue[k].status = "pending"
    \/ queue[k].status = "syncing" /\ \E t \in Syncs : Holds(syncs[t], k)

\* What the queue says of a record is so at the server.
QueueSound(queue, entries) ==
    /\ IsTable(queue)
    /\ \A k \in DOMAIN queue :
         /\ {"record", "status"} \subseteq DOMAIN queue[k]
         /\ queue[k].status \in {"synced", "conflict"} => Made(entries, queue[k].record, queue[k].status)

Uploading == {"marking", "sent", "served", "answered", "marked", "failing"}

\* A sync has entries of the queue; those it was answered about have arrived.
SyncSound(sync, queue, entries) ==
    sync.at \in Uploading =>
        /\ {"at", "chunk", "n", "left"} \subseteq DOMAIN sync
        /\ sync.chunk \in Seq(DOMAIN queue) /\ sync.left \in Seq(DOMAIN queue)
        /\ 1 \in DOMAIN sync.chunk
        /\ sync.at # "failing" => sync.n \in DOMAIN sync.chunk
        /\ sync.at \in {"served", "answered", "marked"} =>
              \A i \in DOMAIN sync.chunk : Arrived(entries, queue[sync.chunk[i]].record)
        /\ sync.at = "marked" => Made(entries, queue[sync.chunk[sync.n]].record, "synced")

\* A diary that is synced was taken; a draft that is not lost has arrived, is being
\* saved or waits in the queue.
DiariesSound(diary, queue, syncs, gone, entries) ==
    /\ DOMAIN diary = DeviceRecords
    /\ \A r \in DeviceRecords : diary[r] = "synced" => Made(entries, r, "synced")
    /\ \A r \in DeviceRecords \ gone :
         diary[r] = "draft" =>
            \/ Arrived(entries, r)
            \/ syncs["save"].at = "saved" /\ syncs["save"].record = r
            \/ \E k \in DOMAIN queue : queue[k].record = r /\ Waits(k, queue, syncs)

PhoneHolds(diary, queue, syncs, gone, entries) ==
    /\ DOMAIN syncs = Syncs
    /\ QueueSound(queue, entries)
    /\ \A t \in Syncs : SyncSound(syncs[t], queue, entries)
    /\ DiariesSound(diary, queue, syncs, gone, entries)

\* In the other parts nobody has touched the device.
PhoneSound ==
    /\ {"diary", "queue"} \subseteq DOMAIN phone
    /\ IF part = "device" THEN PhoneHolds(phone["diary"], phone["queue"], run, lost, db["sync"])
       ELSE phone["queue"] = <<>> /\ \A r \in DeviceRecords : phone["diary"][r] = "none"

\* What the server has got it keeps.
Grows(entries, new) ==
    /\ DOMAIN entries \subseteq DOMAIN new
    /\ \A e \in DOMAIN entries : new[e] = entries[e]

\* A record that is accepted has arrived.
LEMMA AcceptedArrives ==
    ASSUME NEW s, RecordsSound(s), NEW r, NEW a, a = Accept(s, r)
    PROVE  Grows(s["sync"], a["sync"]) /\ Arrived(a["sync"], r)
<1>1. PICK entries : entries = s["sync"]
  OBVIOUS
<1>2. {"sync", "conflict", "report", "diary"} \subseteq DOMAIN s /\ IsTable(entries)
  BY <1>1 DEF RecordsSound, FieldRowsSound
<1>3. CASE EntriesOf(s, r) # {}
  <2>1. a = s
    BY <1>3 DEF Accept
  <2>2. QED
    BY <1>3, <2>1 DEF Grows, Arrived, EntriesOf
<1>4. CASE EntriesOf(s, r) = {}
  <2>1. PICK f, n : f = FieldRecords[r] /\ n = Len(entries) + 1
    OBVIOUS
  <2> DEFINE Taken(t, row) == [Insert(s, t, row) EXCEPT
               !["sync"] = Append(@, [SyncQueueEntry(r) EXCEPT !.status = "synced", !.server = Len(s[t]) + 1])]
  <2>2. \/ a = Taken("diary", DailySiteDiary(f.key))
        \/ a = Taken("report", FieldReport(f.type, f.key))
        \/ a = [s EXCEPT !["sync"] = Append(@, [SyncQueueEntry(r) EXCEPT !.status = "conflict"]),
                         !["conflict"] = Append(@, ConflictRecord(n))]
    BY <1>1, <1>4, <2>1 DEF Accept, Applied
  <2>3. ASSUME NEW t \in {"diary", "report"}, NEW row, a = Taken(t, row)
        PROVE  \E entry : entry.record = r /\ a["sync"] = Append(entries, entry)
    <3>1. PICK entry : entry = [SyncQueueEntry(r) EXCEPT !.status = "synced", !.server = Len(s[t]) + 1]
      OBVIOUS
    <3>2. entry.record = r
      BY <3>1 DEF SyncQueueEntry
    <3>3. a["sync"] = Append(entries, entry)
      BY ONLY <1>1, <1>2, <2>3, <3>1 DEF Insert
    <3>4. QED
      BY <3>2, <3>3
  <2>4. PICK entry : entry.record = r /\ a["sync"] = Append(entries, entry)
    <3>1. CASE a = [s EXCEPT !["sync"] = Append(@, [SyncQueueEntry(r) EXCEPT !.status = "conflict"]),
                             !["conflict"] = Append(@, ConflictRecord(n))]
      <4>1. PICK entry : entry = [SyncQueueEntry(r) EXCEPT !.status = "conflict"]
        OBVIOUS
      <4>2. entry.record = r
        BY <4>1 DEF SyncQueueEntry
      <4>3. a["sync"] = Append(entries, entry)
        BY ONLY <1>1, <1>2, <3>1, <4>1
      <4>4. QED
        BY <4>2, <4>3
    <3>2. QED
      BY <2>2, <2>3, <3>1
  <2>5. PICK new : new = Append(entries, entry)
    OBVIOUS
  <2>6. /\ DOMAIN new = DOMAIN entries \cup {Len(entries) + 1} /\ new[Len(entries) + 1] = entry
        /\ \A k \in DOMAIN entries : new[k] = entries[k]
    BY ONLY <1>2, <2>5, TableGrows
  <2>7. QED
    BY <1>1, <2>4, <2>5, <2>6 DEF Grows, Arrived
<1>5. QED
  BY <1>3, <1>4

\* All the records of a batch have arrived once the server has taken it.
LEMMA BatchArrives ==
    ASSUME NEW n \in Nat, NEW batch, DOMAIN batch = 1..n, RecordsSound(db)
    PROVE  /\ Grows(db["sync"], FoldLeft(Accept, db, batch)["sync"])
           /\ \A i \in 1..n : Arrived(FoldLeft(Accept, db, batch)["sync"], batch[i])
<1>1. PICK g : IsTaking(g, db, batch) /\ FoldLeft(Accept, db, batch) = g[DOMAIN batch]
  BY BatchIsTaken
<1>2. \A x \in SUBSET (1..n) : g[x] = IF x = {} THEN db ELSE Accept(g[x \ {Max(x)}], batch[Max(x)])
  BY <1>1 DEF IsTaking
<1>3. PICK G : G = {x \in SUBSET (1..n) : /\ RecordsSound(g[x]) /\ Grows(db["sync"], g[x]["sync"])
                                          /\ \A i \in x : Arrived(g[x]["sync"], batch[i])}
  OBVIOUS
<1>4. {} \in G
  BY <1>2, <1>3 DEF Grows
<1>5. ASSUME NEW x \in SUBSET (1..n), x # {}, x \ {Max(x)} \in G PROVE x \in G
  <2>1. PICK m, s, a : m = Max(x) /\ s = g[x \ {Max(x)}] /\ a = g[x]
    OBVIOUS
  <2>2. a = Accept(s, batch[m])
    BY <1>2, <1>5, <2>1
  <2>3. RecordsSound(s) /\ Grows(db["sync"], s["sync"]) /\ \A i \in x \ {m} : Arrived(s["sync"], batch[i])
    BY <1>3, <1>5, <2>1
  <2>4. RecordsSound(a)
    BY <2>2, <2>3, RecordAccepted
  <2>5. Grows(s["sync"], a["sync"]) /\ Arrived(a["sync"], batch[m])
    BY <2>2, <2>3, AcceptedArrives
  <2>6. Grows(db["sync"], a["sync"]) /\ \A i \in x : Arrived(a["sync"], batch[i])
    BY <2>3, <2>5 DEF Grows, Arrived
  <2>7. QED
    BY <1>3, <2>1, <2>4, <2>6
<1>6. 1..n \in G
  BY ONLY <1>4, <1>5, n \in Nat, GreatestInduction
<1>7. QED
  BY <1>1, <1>3, <1>6

\* What was so at the server stays so.
LEMMA GrowthKeeps ==
    ASSUME NEW entries, NEW new, Grows(entries, new)
    PROVE  /\ \A r : Arrived(entries, r) => Arrived(new, r)
           /\ \A r, status : Made(entries, r, status) => Made(new, r, status)
  BY DEF Grows, Arrived, Made

\* So nothing that the device relies on is undone by an upload, on time or late.
LEMMA PhoneAfterServer ==
    ASSUME NEW diary, NEW queue, NEW syncs, NEW gone, NEW entries, NEW new, Grows(entries, new),
           PhoneHolds(diary, queue, syncs, gone, entries)
    PROVE  PhoneHolds(diary, queue, syncs, gone, new)
<1>1. /\ \A r : Arrived(entries, r) => Arrived(new, r)
      /\ \A r, status : Made(entries, r, status) => Made(new, r, status)
  BY GrowthKeeps
<1>2. DOMAIN syncs = Syncs
  BY DEF PhoneHolds
<1>3. QueueSound(queue, new)
  BY <1>1 DEF PhoneHolds, QueueSound
<1>4. \A t \in Syncs : SyncSound(syncs[t], queue, new)
  BY <1>1 DEF PhoneHolds, SyncSound
<1>5. DiariesSound(diary, queue, syncs, gone, new)
  BY <1>1 DEF PhoneHolds, DiariesSound
<1>6. QED
  BY <1>2, <1>3, <1>4, <1>5 DEF PhoneHolds

\* The queue goes on with the same records.
SameRecords(queue, new) ==
    /\ IsTable(new) /\ DOMAIN new = DOMAIN queue
    /\ \A k \in DOMAIN queue : {"record", "status"} \subseteq DOMAIN new[k] /\ new[k].record = queue[k].record

\* A sync that was saving nothing goes on, and an entry may be marked: each entry that
\* waited waits on, unless its record has arrived.
LEMMA PhoneAfterMove ==
    ASSUME NEW diary, NEW queue, NEW syncs, NEW gone, NEW entries, PhoneHolds(diary, queue, syncs, gone, entries),
           NEW new, SameRecords(queue, new), QueueSound(new, entries),
           NEW t \in Syncs, syncs[t].at # "saved", NEW sync, SyncSound(sync, queue, entries),
           NEW next, next = [syncs EXCEPT ![t] = sync],
           \A k \in DOMAIN queue : Waits(k, queue, syncs) => Arrived(entries, queue[k].record) \/ Waits(k, new, next)
    PROVE  PhoneHolds(diary, new, next, gone, entries)
<1>1. /\ DOMAIN next = Syncs /\ next[t] = sync /\ \A u \in Syncs \ {t} : next[u] = syncs[u]
  BY DEF PhoneHolds
<1>2. ASSUME NEW u \in Syncs PROVE SyncSound(next[u], new, entries)
  <2>1. SyncSound(next[u], queue, entries)
    BY <1>1 DEF PhoneHolds
  <2>2. \A chunk \in Seq(DOMAIN queue) : \A i \in DOMAIN chunk : chunk[i] \in DOMAIN queue
    BY TableRows
  <2>3. DOMAIN new = DOMAIN queue /\ \A k \in DOMAIN queue : new[k].record = queue[k].record
    BY DEF SameRecords
  <2>4. QED
    BY <2>1, <2>2, <2>3 DEF SyncSound
<1>3. DiariesSound(diary, new, next, gone, entries)
  <2>1. DOMAIN diary = DeviceRecords /\ \A r \in DeviceRecords : diary[r] = "synced" => Made(entries, r, "synced")
    BY DEF PhoneHolds, DiariesSound
  <2>2. ASSUME NEW r \in DeviceRecords \ gone, diary[r] = "draft", ~ Arrived(entries, r)
        PROVE  \/ next["save"].at = "saved" /\ next["save"].record = r
               \/ \E k \in DOMAIN new : new[k].record = r /\ Waits(k, new, next)
    <3>1. \/ syncs["save"].at = "saved" /\ syncs["save"].record = r
          \/ \E k \in DOMAIN queue : queue[k].record = r /\ Waits(k, queue, syncs)
      BY <2>2 DEF PhoneHolds, DiariesSound
    <3>2. CASE syncs["save"].at = "saved" /\ syncs["save"].record = r
      BY <1>1, <3>2 DEF Syncs
    <3>3. ASSUME NEW k \in DOMAIN queue, queue[k].record = r, Waits(k, queue, syncs)
          PROVE  \E l \in DOMAIN new : new[l].record = r /\ Waits(l, new, next)
      <4>1. Waits(k, new, next)
        BY <2>2, <3>3
      <4>2. k \in DOMAIN new /\ new[k].record = r
        BY <3>3 DEF SameRecords
      <4>3. QED
        BY <4>1, <4>2
    <3>4. QED
      BY <3>1, <3>2, <3>3
  <2>3. QED
    BY <2>1, <2>2 DEF DiariesSound
<1>4. QED
  BY <1>1, <1>2, <1>3 DEF PhoneHolds

\* An entry is marked, with what is so at the server if with anything of it.
LEMMA QueueMarked ==
    ASSUME NEW queue, NEW entries, QueueSound(queue, entries), NEW k \in DOMAIN queue, NEW status,
           status \in {"synced", "conflict"} => Made(entries, queue[k].record, status),
           NEW m, {"record", "status"} \subseteq DOMAIN m, m.status = status, m.record = queue[k].record,
           NEW new, new = [queue EXCEPT ![k] = m]
    PROVE  /\ SameRecords(queue, new) /\ QueueSound(new, entries)
           /\ new[k].status = status /\ \A l \in DOMAIN queue \ {k} : new[l] = queue[l]
<1>1. IsTable(queue)
  BY DEF QueueSound
<1>2. {"record", "status"} \subseteq DOMAIN m /\ m.status = status /\ m.record = queue[k].record
  OBVIOUS
<1>3. IsTable(new) /\ DOMAIN new = DOMAIN queue /\ new[k] = m /\ \A l \in DOMAIN queue \ {k} : new[l] = queue[l]
  BY ONLY <1>1, new = [queue EXCEPT ![k] = m], k \in DOMAIN queue, TableChanges
<1>4. SameRecords(queue, new)
  BY <1>2, <1>3 DEF SameRecords, QueueSound
<1>5. QueueSound(new, entries)
  BY <1>2, <1>3 DEF QueueSound
<1>6. QED
  BY <1>2, <1>3, <1>4, <1>5

\* What the app learns of a record that has arrived is what the server made of it.
LEMMA OutcomeIsMade ==
    ASSUME RecordsSound(db), NEW r
    PROVE  /\ Arrived(db["sync"], r) => Made(db["sync"], r, OutcomeOf(r))
           /\ \A status : Made(db["sync"], r, status) => EntriesOf(db, r) # {} /\ OutcomeOf(r) = status
<1>1. PICK entries : entries = db["sync"]
  OBVIOUS
<1>2. \A d, e \in DOMAIN entries : entries[d].record = entries[e].record => d = e
  BY <1>1 DEF RecordsSound, FieldRowsSound
<1>3. PICK S : S = {entries[e].status : e \in EntriesOf(db, r)}
  OBVIOUS
<1>4. OutcomeOf(r) = CHOOSE s \in S : TRUE
  BY <1>1, <1>3 DEF OutcomeOf
<1>5. ASSUME NEW e \in DOMAIN entries, entries[e].record = r PROVE OutcomeOf(r) = entries[e].status
  <2>1. EntriesOf(db, r) = {e}
    BY <1>1, <1>2, <1>5 DEF EntriesOf
  <2>2. S = {entries[e].status}
    BY <1>3, <2>1
  <2>3. QED
    BY <1>4, <2>2
<1>6. \A e : e \in EntriesOf(db, r) <=> e \in DOMAIN entries /\ entries[e].record = r
  BY <1>1 DEF EntriesOf
<1>7. QED
  BY <1>1, <1>5, <1>6 DEF Arrived, Made

\* The invariant implies the property.
LEMMA PhoneSoundSays == ASSUME PhoneSound, RecordsSound(db) PROVE FieldWorkArrives
<1>1. CASE part # "device"
  <2>1. DOMAIN phone["queue"] = {} /\ \A r \in DeviceRecords : phone["diary"][r] = "none"
    BY <1>1, SmallTables DEF PhoneSound
  <2>2. QED
    BY <2>1 DEF FieldWorkArrives
<1>2. CASE part = "device"
  <2>1. PICK diary, queue, entries : diary = phone["diary"] /\ queue = phone["queue"] /\ entries = db["sync"]
    OBVIOUS
  <2>2. QueueSound(queue, entries) /\ DiariesSound(diary, queue, run, lost, entries)
    BY <1>2, <2>1 DEF PhoneSound, PhoneHolds
  <2>3. \A r, status : Made(entries, r, status) => EntriesOf(db, r) # {} /\ OutcomeOf(r) = status
    BY <2>1, OutcomeIsMade
  <2>4. ASSUME NEW r \in DeviceRecords, diary[r] = "synced" PROVE EntriesOf(db, r) # {} /\ OutcomeOf(r) = "synced"
    BY <2>2, <2>3, <2>4 DEF DiariesSound
  <2>5. ASSUME NEW k \in DOMAIN queue, queue[k].status \in {"synced", "conflict"}
        PROVE  EntriesOf(db, queue[k].record) # {} /\ queue[k].status = OutcomeOf(queue[k].record)
    <3>1. Made(entries, queue[k].record, queue[k].status)
      BY <2>2, <2>5 DEF QueueSound
    <3>2. QED
      BY <2>3, <3>1
  <2>6. ASSUME NEW r \in DeviceRecords \ lost, diary[r] = "draft", EntriesOf(db, r) = {} PROVE OnItsWay(r)
    <3>1. ~ Arrived(entries, r)
      BY <2>1, <2>6 DEF Arrived, EntriesOf
    <3>2. \/ run["save"].at = "saved" /\ run["save"].record = r
          \/ \E k \in DOMAIN queue : queue[k].record = r /\ Waits(k, queue, run)
      BY <2>2, <2>6, <3>1 DEF DiariesSound
    <3>3. ASSUME NEW k, Waits(k, queue, run) PROVE queue[k].status = "pending" \/ (queue[k].status = "syncing" /\ InHand(k))
      BY <3>3 DEF Waits, Holds, InHand, Range
    <3>4. QED
      BY <2>1, <3>2, <3>3 DEF OnItsWay, RecordOf
  <2>7. QED
    BY <2>1, <2>4, <2>5, <2>6 DEF FieldWorkArrives, RecordOf
<1>3. QED
  BY <1>1, <1>2

\* A sync that was saving nothing goes on with what it had in hand, or what it had has
\* arrived.
LEMMA PhoneAfterRun ==
    ASSUME NEW diary, NEW queue, NEW syncs, NEW gone, NEW entries, PhoneHolds(diary, queue, syncs, gone, entries),
           NEW t \in Syncs, syncs[t].at # "saved", NEW sync, SyncSound(sync, queue, entries),
           NEW next, next = [syncs EXCEPT ![t] = sync],
           \A k \in DOMAIN queue : Holds(syncs[t], k) => Arrived(entries, queue[k].record) \/ Holds(sync, k)
    PROVE  PhoneHolds(diary, queue, next, gone, entries)
<1>1. QueueSound(queue, entries) /\ DOMAIN syncs = Syncs
  BY DEF PhoneHolds
<1>2. SameRecords(queue, queue)
  BY <1>1 DEF SameRecords, QueueSound
<1>3. next[t] = sync /\ \A u \in Syncs \ {t} : next[u] = syncs[u]
  BY <1>1
<1>4. ASSUME NEW k \in DOMAIN queue, Waits(k, queue, syncs)
      PROVE  Arrived(entries, queue[k].record) \/ Waits(k, queue, next)
  BY <1>3, <1>4 DEF Waits
<1>5. QED
  BY <1>1, <1>2, <1>4, PhoneAfterMove

\* It marks an entry, too.
LEMMA PhoneAfterMark ==
    ASSUME NEW diary, NEW queue, NEW syncs, NEW gone, NEW entries, PhoneHolds(diary, queue, syncs, gone, entries),
           NEW t \in Syncs, syncs[t].at # "saved", NEW sync, SyncSound(sync, queue, entries),
           NEW next, next = [syncs EXCEPT ![t] = sync],
           NEW k \in DOMAIN queue, NEW status,
           status \in {"synced", "conflict"} => Made(entries, queue[k].record, status),
           \/ status = "pending"
           \/ status = "syncing" /\ Holds(sync, k)
           \/ Arrived(entries, queue[k].record),
           \A l \in DOMAIN queue \ {k} :
              Holds(syncs[t], l) => Arrived(entries, queue[l].record) \/ Holds(sync, l),
           NEW m, m = [queue[k] EXCEPT !.status = status], NEW new, new = [queue EXCEPT ![k] = m]
    PROVE  PhoneHolds(diary, new, next, gone, entries)
<1>1. QueueSound(queue, entries) /\ DOMAIN syncs = Syncs
  BY DEF PhoneHolds
<1>2. /\ SameRecords(queue, new) /\ QueueSound(new, entries)
      /\ new[k].status = status /\ \A l \in DOMAIN queue \ {k} : new[l] = queue[l]
  <2>1. status \in {"synced", "conflict"} => Made(entries, queue[k].record, status)
    OBVIOUS
  <2>2. {"record", "status"} \subseteq DOMAIN queue[k]
    BY <1>1 DEF QueueSound
  <2>3. {"record", "status"} \subseteq DOMAIN m /\ m.status = status /\ m.record = queue[k].record
    BY <2>2
  <2>4. new = [queue EXCEPT ![k] = m] /\ k \in DOMAIN queue
    OBVIOUS
  <2>5. QED
    BY ONLY <1>1, <2>1, <2>3, <2>4, QueueMarked
<1>3. next[t] = sync /\ \A u \in Syncs \ {t} : next[u] = syncs[u]
  BY <1>1
<1>4. ASSUME NEW l \in DOMAIN queue, Waits(l, queue, syncs)
      PROVE  Arrived(entries, queue[l].record) \/ Waits(l, new, next)
  <2>1. CASE l = k
    BY <1>2, <1>3, <2>1 DEF Waits
  <2>2. CASE l # k
    BY <1>2, <1>3, <1>4, <2>2 DEF Waits
  <2>3. QED
    BY <2>1, <2>2
<1>5. QED
  BY <1>2, <1>4, PhoneAfterMove

\* A sync goes on to the next of the entries that are left, or is over.
LEMMA NextChunkIsSound ==
    ASSUME NEW t, NEW queue, NEW entries, NEW left \in Seq(DOMAIN queue), NEW sync, sync = NextChunk(t, left)
    PROVE  SyncSound(sync, queue, entries)
<1>1. CASE left = <<>>
  BY <1>1 DEF NextChunk, Over, Asleep, SyncSound, Uploading
<1>2. CASE left # <<>>
  <2>1. PICK n, D : n = Min({BatchSize, Len(left)}) /\ D = DOMAIN queue
    OBVIOUS
  <2>2. Len(left) \in Nat /\ \A i \in 1..Len(left) : left[i] \in D
    BY <2>1, TableRows
  <2>3. n \in Nat \ {0} /\ n <= Len(left)
    <3>1. Len(left) # 0
      BY <1>2
    <3>2. QED
      BY <2>1, <2>2, <3>1, FieldSyncAssumption DEF Min
  <2>4. SubSeq(left, 1, n) \in Seq(D) /\ DOMAIN SubSeq(left, 1, n) = 1..n
    <3>1. 1 \in Int /\ n \in Int /\ \A i \in 1..n : left[i] \in D
      BY <2>2, <2>3
    <3>2. SubSeq(left, 1, n) \in Seq(D) /\ Len(SubSeq(left, 1, n)) = IF 1 <= n THEN n - 1 + 1 ELSE 0
      BY <3>1, SubSeqProperties
    <3>3. QED
      BY <2>3, <3>2
  <2>5. SubSeq(left, n + 1, Len(left)) \in Seq(D)
    <3>1. n + 1 \in Int /\ Len(left) \in Int /\ \A i \in (n + 1)..Len(left) : left[i] \in D
      BY <2>2, <2>3
    <3>2. QED
      BY <3>1, SubSeqProperties
  <2>6. PICK c, l : c = SubSeq(left, 1, n) /\ l = SubSeq(left, n + 1, Len(left))
    OBVIOUS
  <2>7. sync = [at |-> "marking", chunk |-> c, n |-> 1, left |-> l]
    BY <1>2, <2>1, <2>6 DEF NextChunk
  <2>8. {"at", "chunk", "n", "left"} \subseteq DOMAIN sync
    BY ONLY <2>7
  <2>9. sync.at = "marking" /\ sync.chunk = c /\ sync.n = 1 /\ sync.left = l
    BY ONLY <2>7
  <2>10. c \in Seq(D) /\ l \in Seq(D) /\ 1 \in DOMAIN c
    BY ONLY <2>3, <2>4, <2>5, <2>6
  <2>11. QED
    BY <2>1, <2>8, <2>9, <2>10 DEF SyncSound
<1>3. QED
  BY <1>1, <1>2

\* What has arrived is there to say so, in the part that is about the device.
LEMMA PhoneSoundAgain ==
    ASSUME part = "device", part' = part, {"diary", "queue"} \subseteq DOMAIN phone',
           NEW diary, NEW queue, NEW syncs, NEW gone, NEW entries, PhoneHolds(diary, queue, syncs, gone, entries),
           phone'["diary"] = diary, phone'["queue"] = queue, run' = syncs, lost' = gone, db'["sync"] = entries
    PROVE  PhoneSound'
  BY DEF PhoneSound

\* Marking an entry of the queue changes nothing else of the device.
LEMMA MarkedEntry ==
    ASSUME {"diary", "queue"} \subseteq DOMAIN phone, NEW k, NEW status, Mark(k, status)
    PROVE  /\ {"diary", "queue"} \subseteq DOMAIN phone' /\ phone'["diary"] = phone["diary"]
           /\ phone'["queue"] = [phone["queue"] EXCEPT ![k] = [phone["queue"][k] EXCEPT !.status = status]]
<1>1. phone' = [phone EXCEPT !["queue"] = [phone["queue"] EXCEPT ![k] = [phone["queue"][k] EXCEPT !.status = status]]]
  BY DEF Mark
<1>2. PICK new : new = [phone["queue"] EXCEPT ![k] = [phone["queue"][k] EXCEPT !.status = status]]
  OBVIOUS
<1>3. QED
  BY ONLY <1>1, <1>2, {"diary", "queue"} \subseteq DOMAIN phone

\* A diary is saved: what it says waits with the app.
LEMMA PhoneAfterSave ==
    ASSUME NEW diary, NEW queue, NEW syncs, NEW gone, NEW entries, PhoneHolds(diary, queue, syncs, gone, entries),
           syncs["save"] = Asleep, NEW r, NEW new, new = [diary EXCEPT ![r] = "draft"],
           NEW next, next = [syncs EXCEPT !["save"] = [at |-> "saved", record |-> r]]
    PROVE  PhoneHolds(new, queue, next, gone, entries)
<1>1. "save" \in Syncs
  BY DEF Syncs
<1>2. PICK sync : sync = [at |-> "saved", record |-> r]
  OBVIOUS
<1>3. sync.at = "saved" /\ sync.record = r /\ SyncSound(sync, queue, entries)
  BY <1>2 DEF SyncSound, Uploading
<1>4. Asleep.at = "idle"
  BY DEF Asleep
<1>5. PhoneHolds(diary, queue, next, gone, entries)
  <2>1. next = [syncs EXCEPT !["save"] = sync]
    BY <1>2
  <2>2. syncs["save"].at # "saved"
    BY <1>4
  <2>3. \A k \in DOMAIN queue : Holds(syncs["save"], k) => Arrived(entries, queue[k].record) \/ Holds(sync, k)
    BY <1>4 DEF Holds
  <2>4. QED
    BY <1>1, <1>3, <2>1, <2>2, <2>3, PhoneAfterRun
<1>6. next["save"] = sync
  BY <1>1, <1>2 DEF PhoneHolds
<1>7. DOMAIN diary = DeviceRecords
  BY <1>5 DEF PhoneHolds, DiariesSound
<1>8. DOMAIN new = DeviceRecords /\ \A x \in DeviceRecords : new[x] = IF x = r THEN "draft" ELSE diary[x]
  BY <1>7
<1>9. DiariesSound(new, queue, next, gone, entries)
  <2>1. DiariesSound(diary, queue, next, gone, entries)
    BY <1>5 DEF PhoneHolds
  <2>2. QED
    BY <1>3, <1>6, <1>8, <2>1 DEF DiariesSound
<1>10. QED
  BY <1>5, <1>9 DEF PhoneHolds

\* A diary is shown as synced once the server has taken it.
LEMMA PhoneAfterSynced ==
    ASSUME NEW diary, NEW queue, NEW syncs, NEW gone, NEW entries, PhoneHolds(diary, queue, syncs, gone, entries),
           NEW r, Made(entries, r, "synced"), NEW new, new = [diary EXCEPT ![r] = "synced"]
    PROVE  PhoneHolds(new, queue, syncs, gone, entries)
<1>1. DiariesSound(diary, queue, syncs, gone, entries)
  BY DEF PhoneHolds
<1>2. DOMAIN new = DeviceRecords /\ \A x \in DeviceRecords : new[x] = IF x = r THEN "synced" ELSE diary[x]
  BY <1>1 DEF DiariesSound
<1>3. DiariesSound(new, queue, syncs, gone, entries)
  BY <1>1, <1>2 DEF DiariesSound
<1>4. QED
  BY <1>3 DEF PhoneHolds

\* The saved diary is queued: it waits there, and is not lost if it was.
LEMMA PhoneAfterQueueing ==
    ASSUME NEW diary, NEW queue, NEW syncs, NEW gone, NEW entries, PhoneHolds(diary, queue, syncs, gone, entries),
           syncs["save"].at = "saved", NEW r, r = syncs["save"].record,
           NEW new, new = Append(queue, LocalSyncQueueEntry(r)),
           NEW next, next = [syncs EXCEPT !["save"] = [at |-> "begin"]]
    PROVE  PhoneHolds(diary, new, next, gone \ {r}, entries)
<1>1. PICK sync, entry, n : sync = [at |-> "begin"] /\ entry = LocalSyncQueueEntry(r) /\ n = Len(queue) + 1
  OBVIOUS
<1>2. sync.at = "begin" /\ {"record", "status"} \subseteq DOMAIN entry /\ entry.record = r /\ entry.status = "pending"
  BY <1>1 DEF LocalSyncQueueEntry
<1>3. QueueSound(queue, entries) /\ DOMAIN syncs = Syncs /\ "save" \in Syncs
  BY DEF PhoneHolds, Syncs
<1>4. IsTable(queue)
  BY <1>3 DEF QueueSound
<1>5. /\ IsTable(new) /\ DOMAIN new = DOMAIN queue \cup {n} /\ new[n] = entry
      /\ \A k \in DOMAIN queue : new[k] = queue[k]
  BY ONLY <1>1, <1>4, new = Append(queue, LocalSyncQueueEntry(r)), TableGrows
<1>6. DOMAIN next = Syncs /\ next["save"] = sync /\ \A t \in Syncs \ {"save"} : next[t] = syncs[t]
  BY <1>1, <1>3
<1>7. QueueSound(new, entries)
  BY <1>2, <1>3, <1>5 DEF QueueSound
<1>8. ASSUME NEW t \in Syncs PROVE SyncSound(next[t], new, entries)
  <2>1. CASE t = "save"
    BY <1>2, <1>6, <2>1 DEF SyncSound, Uploading
  <2>2. CASE t # "save"
    <3>1. SyncSound(syncs[t], queue, entries) /\ next[t] = syncs[t]
      BY <1>6, <2>2 DEF PhoneHolds
    <3>2. \A chunk \in Seq(DOMAIN queue) : chunk \in Seq(DOMAIN new) /\ \A i \in DOMAIN chunk : chunk[i] \in DOMAIN queue
      BY <1>5, TableRows
    <3>3. QED
      BY <1>5, <3>1, <3>2 DEF SyncSound
  <2>3. QED
    BY <2>1, <2>2
<1>9. ASSUME NEW k \in DOMAIN queue, Waits(k, queue, syncs) PROVE Waits(k, new, next)
  <2>1. ~ Holds(syncs["save"], k)
    BY DEF Holds
  <2>2. QED
    BY <1>5, <1>6, <1>9, <2>1 DEF Waits
<1>10. DiariesSound(diary, new, next, gone \ {r}, entries)
  <2>1. DiariesSound(diary, queue, syncs, gone, entries)
    BY DEF PhoneHolds
  <2>2. n \in DOMAIN new /\ new[n].record = r /\ Waits(n, new, next)
    BY <1>2, <1>5 DEF Waits
  <2>3. ASSUME NEW x \in DeviceRecords \ (gone \ {r}), diary[x] = "draft", ~ Arrived(entries, x)
        PROVE  \E k \in DOMAIN new : new[k].record = x /\ Waits(k, new, next)
    <3>1. CASE x = r
      BY <2>2, <3>1
    <3>2. CASE x # r
      <4>1. PICK k \in DOMAIN queue : queue[k].record = x /\ Waits(k, queue, syncs)
        BY <2>1, <2>3, <3>2 DEF DiariesSound
      <4>2. QED
        BY <1>5, <1>9, <4>1
    <3>3. QED
      BY <3>1, <3>2
  <2>4. QED
    BY <2>1, <2>3 DEF DiariesSound
<1>11. QED
  BY <1>6, <1>7, <1>8, <1>10 DEF PhoneHolds

\* The app is killed: what was being saved or uploaded may be lost, the rest waits.
LEMMA PhoneAfterKill ==
    ASSUME NEW diary, NEW queue, NEW syncs, NEW gone, NEW entries, PhoneHolds(diary, queue, syncs, gone, entries),
           NEW next, next = [t \in Syncs |-> Asleep],
           NEW more, gone \subseteq more,
           syncs["save"].at = "saved" => syncs["save"].record \in more,
           \A k \in DOMAIN queue : queue[k].status = "syncing" => queue[k].record \in more
    PROVE  PhoneHolds(diary, queue, next, more, entries)
<1>1. Asleep.at = "idle"
  BY DEF Asleep
<1>2. \A t \in Syncs : SyncSound(next[t], queue, entries)
  BY <1>1 DEF SyncSound, Uploading
<1>3. DiariesSound(diary, queue, next, more, entries)
  <2>1. DiariesSound(diary, queue, syncs, gone, entries)
    BY DEF PhoneHolds
  <2>2. ASSUME NEW r \in DeviceRecords \ more, diary[r] = "draft", ~ Arrived(entries, r)
        PROVE  \E k \in DOMAIN queue : queue[k].record = r /\ Waits(k, queue, next)
    <3>1. PICK k \in DOMAIN queue : queue[k].record = r /\ Waits(k, queue, syncs)
      BY <2>1, <2>2 DEF DiariesSound
    <3>2. queue[k].status # "syncing"
      BY <2>2, <3>1
    <3>3. QED
      BY <3>1, <3>2 DEF Waits
  <2>3. QED
    BY <2>1, <2>2 DEF DiariesSound
<1>4. QED
  BY <1>2, <1>3 DEF PhoneHolds

\* Saving a diary, queueing it and beginning a sync keep the invariant.
LEMMA PhoneAfterSaving ==
    ASSUME PhoneSound, part = "device", part' = part,
           (\E r \in DeviceRecords : HandleSave(r)) \/ InsertSyncQueueEntry \/ HandleManualSync
    PROVE  PhoneSound'
<1>1. PICK diary, queue, entries : diary = phone["diary"] /\ queue = phone["queue"] /\ entries = db["sync"]
  OBVIOUS
<1>2. {"diary", "queue"} \subseteq DOMAIN phone /\ PhoneHolds(diary, queue, run, lost, entries)
  BY <1>1 DEF PhoneSound
<1>3. ASSUME NEW r, HandleSave(r) PROVE PhoneSound'
  <2>1. PICK new, next : /\ new = [diary EXCEPT ![r] = "draft"]
                         /\ next = [run EXCEPT !["save"] = [at |-> "saved", record |-> r]]
    OBVIOUS
  <2>2. PhoneHolds(new, queue, next, lost, entries)
    BY <1>2, <1>3, <2>1, PhoneAfterSave DEF HandleSave
  <2>3. phone' = [phone EXCEPT !["diary"] = [diary EXCEPT ![r] = "draft"]] /\ run' = next /\ lost' = lost /\ db' = db
    BY <1>1, <1>3, <2>1 DEF HandleSave, Go, vars
  <2>4. {"diary", "queue"} \subseteq DOMAIN phone' /\ phone'["diary"] = new /\ phone'["queue"] = queue
    BY ONLY <1>1, <1>2, <2>1, <2>3
  <2>5. QED
    BY <1>1, <2>2, <2>3, <2>4, PhoneSoundAgain
<1>4. CASE InsertSyncQueueEntry
  <2>1. PICK r : r = run["save"].record
    OBVIOUS
  <2>2. PICK new, next : /\ new = Append(queue, LocalSyncQueueEntry(r))
                         /\ next = [run EXCEPT !["save"] = [at |-> "begin"]]
    OBVIOUS
  <2>3. PhoneHolds(diary, new, next, lost \ {r}, entries)
    BY <1>2, <1>4, <2>1, <2>2, PhoneAfterQueueing DEF InsertSyncQueueEntry
  <2>4. /\ phone' = [phone EXCEPT !["queue"] = Append(queue, LocalSyncQueueEntry(r))]
        /\ run' = next /\ lost' = lost \ {r} /\ db' = db
    BY <1>1, <1>4, <2>1, <2>2 DEF InsertSyncQueueEntry, Go, vars
  <2>5. {"diary", "queue"} \subseteq DOMAIN phone' /\ phone'["diary"] = diary /\ phone'["queue"] = new
    BY ONLY <1>1, <1>2, <2>2, <2>4
  <2>6. QED
    BY <1>1, <2>3, <2>4, <2>5, PhoneSoundAgain
<1>5. CASE HandleManualSync
  <2>1. PICK sync, next : sync = [at |-> "begin"] /\ next = [run EXCEPT !["button"] = sync]
    OBVIOUS
  <2>2. SyncSound(sync, queue, entries) /\ "button" \in Syncs
    BY <2>1 DEF SyncSound, Uploading, Syncs
  <2>3. run["button"].at = "idle" /\ run' = next /\ phone' = phone /\ lost' = lost /\ db' = db
    BY <1>5, <2>1 DEF HandleManualSync, Asleep, Go, vars
  <2>4. run["button"].at # "saved"
    BY <2>3
  <2>5. \A k \in DOMAIN queue : Holds(run["button"], k) => Arrived(entries, queue[k].record) \/ Holds(sync, k)
    BY <2>3 DEF Holds
  <2>6. PhoneHolds(diary, queue, next, lost, entries)
    BY ONLY <1>2, <2>1, <2>2, <2>4, <2>5, PhoneAfterRun
  <2>7. QED
    BY <1>1, <1>2, <2>3, <2>6, PhoneSoundAgain
<1>6. QED
  BY <1>3, <1>4, <1>5

\* A sync goes on and nothing is written.
LEMMA PhoneAfterSilence ==
    ASSUME PhoneSound, part = "device", part' = part, NEW t \in Syncs, NEW sync, Go(t, sync),
           phone' = phone \/ (/\ {"diary", "queue"} \subseteq DOMAIN phone'
                              /\ phone'["diary"] = phone["diary"] /\ phone'["queue"] = phone["queue"]),
           lost' = lost, db' = db, run[t].at # "saved", SyncSound(sync, phone["queue"], db["sync"]),
           \A k \in DOMAIN phone["queue"] :
              Holds(run[t], k) => Arrived(db["sync"], phone["queue"][k].record) \/ Holds(sync, k)
    PROVE  PhoneSound'
<1>1. PICK diary, queue, entries : diary = phone["diary"] /\ queue = phone["queue"] /\ entries = db["sync"]
  OBVIOUS
<1>2. {"diary", "queue"} \subseteq DOMAIN phone /\ PhoneHolds(diary, queue, run, lost, entries)
  BY <1>1 DEF PhoneSound
<1>3. PICK next : next = [run EXCEPT ![t] = sync]
  OBVIOUS
<1>4. SyncSound(sync, queue, entries)
  BY <1>1
<1>5. \A k \in DOMAIN queue : Holds(run[t], k) => Arrived(entries, queue[k].record) \/ Holds(sync, k)
  BY <1>1
<1>6. PhoneHolds(diary, queue, next, lost, entries)
  <2>1. run[t].at # "saved"
    OBVIOUS
  <2>2. QED
    BY ONLY <1>2, <1>3, <1>4, <1>5, <2>1, t \in Syncs, PhoneAfterRun
<1>7. run' = next
  BY <1>3 DEF Go
<1>8. QED
  BY <1>1, <1>2, <1>6, <1>7, PhoneSoundAgain

\* A sync begins, or the conflicts are looked up.
LEMMA PhoneAfterBeginning ==
    ASSUME DeviceTyped, PhoneSound, part = "device", part' = part,
           \/ \E t \in Syncs, online \in BOOLEAN : RunSync(t, online)
           \/ RefreshConflicts
           \/ \E next \in {Asleep, [at |-> "stuck"]} : MissConflicts(next)
    PROVE  PhoneSound'
<1>1. PICK queue, entries : queue = phone["queue"] /\ entries = db["sync"]
  OBVIOUS
<1>2. {"diary", "queue"} \subseteq DOMAIN phone
  BY DEF PhoneSound
<1>3. "button" \in Syncs
  BY DEF Syncs
<1>4. /\ SyncSound(Asleep, queue, entries) /\ SyncSound([at |-> "stuck"], queue, entries)
      /\ \A t : SyncSound(Over(t), queue, entries)
  BY DEF SyncSound, Uploading, Asleep, Over
<1>5. ASSUME NEW t \in Syncs, run[t].at \in {"begin", "refresh"}
      PROVE  /\ run[t].at # "saved"
             /\ \A sync : \A k \in DOMAIN queue : Holds(run[t], k) => Arrived(entries, queue[k].record) \/ Holds(sync, k)
  BY <1>5 DEF Holds
<1>6. ASSUME NEW t \in Syncs, NEW online, RunSync(t, online) PROVE PhoneSound'
  <2>1. PendingEntries \in Seq(DOMAIN queue)
    BY <1>1, PendingEntriesAreInOrder
  <2>2. SyncSound(NextChunk(t, PendingEntries), queue, entries)
    BY <2>1, NextChunkIsSound
  <2>3. PICK sync : Go(t, sync) /\ SyncSound(sync, queue, entries)
    BY <1>4, <1>6, <2>2 DEF RunSync
  <2>4. run[t].at = "begin" /\ phone' = phone /\ lost' = lost /\ db' = db
    BY <1>6 DEF RunSync, vars
  <2>5. QED
    BY <1>1, <1>5, <2>3, <2>4, PhoneAfterSilence
<1>7. CASE RefreshConflicts
  <2>1. /\ phone' = [phone EXCEPT !["conflicts"] = @ \cup {k \in DOMAIN db.conflict : db.conflict[k].status = "unresolved"}]
        /\ run["button"].at = "refresh" /\ Go("button", Asleep) /\ lost' = lost /\ db' = db
    BY <1>7 DEF RefreshConflicts, vars
  <2>2. /\ {"diary", "queue"} \subseteq DOMAIN phone'
        /\ phone'["diary"] = phone["diary"] /\ phone'["queue"] = phone["queue"]
    BY ONLY <1>2, <2>1
  <2>3. QED
    BY <1>1, <1>3, <1>4, <1>5, <2>1, <2>2, PhoneAfterSilence
<1>8. ASSUME NEW next \in {Asleep, [at |-> "stuck"]}, MissConflicts(next) PROVE PhoneSound'
  <2>1. run["button"].at = "refresh" /\ Go("button", next) /\ phone' = phone /\ lost' = lost /\ db' = db
    BY <1>8 DEF MissConflicts, vars
  <2>2. SyncSound(next, queue, entries)
    BY <1>4, <1>8
  <2>3. QED
    BY <1>1, <1>3, <1>5, <2>1, <2>2, PhoneAfterSilence
<1>9. QED
  BY <1>6, <1>7, <1>8

\* A sync goes on and marks an entry.
LEMMA PhoneAfterMarking ==
    ASSUME PhoneSound, part = "device", part' = part, NEW t \in Syncs, NEW sync, Go(t, sync),
           NEW k \in DOMAIN phone["queue"], NEW status, Mark(k, status), lost' = lost, db' = db,
           run[t].at # "saved", SyncSound(sync, phone["queue"], db["sync"]),
           status \in {"synced", "conflict"} => Made(db["sync"], phone["queue"][k].record, status),
           \/ status = "pending"
           \/ status = "syncing" /\ Holds(sync, k)
           \/ Arrived(db["sync"], phone["queue"][k].record),
           \A l \in DOMAIN phone["queue"] \ {k} :
              Holds(run[t], l) => Arrived(db["sync"], phone["queue"][l].record) \/ Holds(sync, l)
    PROVE  PhoneSound'
<1>1. PICK diary, queue, entries : diary = phone["diary"] /\ queue = phone["queue"] /\ entries = db["sync"]
  OBVIOUS
<1>2. {"diary", "queue"} \subseteq DOMAIN phone /\ PhoneHolds(diary, queue, run, lost, entries)
  BY <1>1 DEF PhoneSound
<1>3. PICK m, new, next : /\ m = [queue[k] EXCEPT !.status = status] /\ new = [queue EXCEPT ![k] = m]
                          /\ next = [run EXCEPT ![t] = sync]
  OBVIOUS
<1>4. /\ {"diary", "queue"} \subseteq DOMAIN phone' /\ phone'["diary"] = diary
      /\ phone'["queue"] = [phone["queue"] EXCEPT ![k] = [phone["queue"][k] EXCEPT !.status = status]]
  BY <1>1, <1>2, MarkedEntry
<1>5. phone'["queue"] = new
  BY ONLY <1>1, <1>3, <1>4
<1>6. k \in DOMAIN queue /\ run[t].at # "saved" /\ SyncSound(sync, queue, entries)
  BY <1>1
<1>7. status \in {"synced", "conflict"} => Made(entries, queue[k].record, status)
  BY <1>1
<1>8. \/ status = "pending"
      \/ status = "syncing" /\ Holds(sync, k)
      \/ Arrived(entries, queue[k].record)
  BY <1>1
<1>9. \A l \in DOMAIN queue \ {k} : Holds(run[t], l) => Arrived(entries, queue[l].record) \/ Holds(sync, l)
  BY <1>1
<1>10. PhoneHolds(diary, new, next, lost, entries)
  BY ONLY <1>2, <1>3, <1>6, <1>7, <1>8, <1>9, t \in Syncs, PhoneAfterMark
<1>11. run' = next
  BY <1>3 DEF Go
<1>12. QED
  BY <1>1, <1>4, <1>5, <1>10, <1>11, PhoneSoundAgain

\* The sync of an upload has entries of the queue in its hands.
LEMMA SyncIsSound ==
    ASSUME PhoneSound, part = "device", NEW t \in Syncs, run[t].at \in Uploading
    PROVE  /\ SyncSound(run[t], phone["queue"], db["sync"])
           /\ {"at", "chunk", "n", "left"} \subseteq DOMAIN run[t]
           /\ run[t].chunk \in Seq(DOMAIN phone["queue"]) /\ run[t].left \in Seq(DOMAIN phone["queue"])
           /\ Len(run[t].chunk) \in Nat /\ DOMAIN run[t].chunk = 1..Len(run[t].chunk)
           /\ \A i \in DOMAIN run[t].chunk : run[t].chunk[i] \in DOMAIN phone["queue"]
           /\ 1 \in DOMAIN run[t].chunk /\ (run[t].at # "failing" => run[t].n \in DOMAIN run[t].chunk)
<1>1. SyncSound(run[t], phone["queue"], db["sync"])
  BY DEF PhoneSound, PhoneHolds
<1>2. PICK c, D : c = run[t].chunk /\ D = DOMAIN phone["queue"]
  OBVIOUS
<1>3. c \in Seq(D)
  BY <1>1, <1>2 DEF SyncSound
<1>4. Len(c) \in Nat /\ DOMAIN c = 1..Len(c) /\ \A i \in DOMAIN c : c[i] \in D
  BY ONLY <1>3, TableRows
<1>5. QED
  BY <1>1, <1>2, <1>4 DEF SyncSound

\* The entries of a chunk are marked one after another.
LEMMA PhoneAfterSyncing ==
    ASSUME PhoneSound, part = "device", part' = part, NEW t \in Syncs, MarkSyncing(t)
    PROVE  PhoneSound'
<1>1. PICK r, c, n, queue, entries : /\ r = run[t] /\ c = r.chunk /\ n = r.n
                                     /\ queue = phone["queue"] /\ entries = db["sync"]
  OBVIOUS
<1>2. r.at = "marking" /\ Mark(c[n], "syncing") /\ lost' = lost /\ db' = db
  BY <1>1 DEF MarkSyncing, vars
<1>3. run[t].at \in Uploading
  BY <1>1, <1>2 DEF Uploading
<1>4. /\ {"at", "chunk", "n", "left"} \subseteq DOMAIN r
      /\ c \in Seq(DOMAIN queue) /\ r.left \in Seq(DOMAIN queue)
      /\ Len(c) \in Nat /\ DOMAIN c = 1..Len(c) /\ 1 \in DOMAIN c /\ n \in DOMAIN c
      /\ \A i \in DOMAIN c : c[i] \in DOMAIN queue
  BY <1>1, <1>2, <1>3, SyncIsSound
<1>5. PICK sync : /\ Go(t, sync)
                  /\ sync = IF n < Len(c) THEN [r EXCEPT !.n = @ + 1] ELSE [r EXCEPT !.at = "sent", !.n = 1]
  BY <1>1 DEF MarkSyncing
<1>6. /\ {"at", "chunk", "n", "left"} \subseteq DOMAIN sync /\ sync.at \in {"marking", "sent"}
      /\ sync.chunk = c /\ sync.left = r.left /\ sync.n \in DOMAIN c
  <2>1. CASE n < Len(c)
    <3>1. sync = [r EXCEPT !.n = @ + 1]
      BY <1>5, <2>1
    <3>2. DOMAIN sync = DOMAIN r /\ sync.at = r.at /\ sync.chunk = r.chunk /\ sync.left = r.left /\ sync.n = n + 1
      BY ONLY <1>1, <1>4, <3>1
    <3>3. QED
      BY <1>1, <1>2, <1>4, <2>1, <3>2
  <2>2. CASE ~ n < Len(c)
    <3>1. sync = [r EXCEPT !.at = "sent", !.n = 1]
      BY <1>5, <2>2
    <3>2. DOMAIN sync = DOMAIN r /\ sync.at = "sent" /\ sync.chunk = r.chunk /\ sync.left = r.left /\ sync.n = 1
      BY ONLY <1>4, <3>1
    <3>3. QED
      BY <1>1, <1>4, <3>2
  <2>3. QED
    BY <2>1, <2>2
<1>7. SyncSound(sync, queue, entries)
  BY <1>4, <1>6 DEF SyncSound
<1>8. \A k : Holds(run[t], k) => Holds(sync, k)
  BY <1>1, <1>6 DEF Holds
<1>9. Holds(sync, c[n]) /\ c[n] \in DOMAIN queue
  BY <1>4, <1>6 DEF Holds
<1>10. PICK k : k = c[n]
  OBVIOUS
<1>11. Mark(k, "syncing") /\ Holds(sync, k) /\ k \in DOMAIN queue
  BY <1>2, <1>9, <1>10
<1>12. run[t].at # "saved"
  BY <1>1, <1>2
<1>13. QED
  BY <1>1, <1>2, <1>5, <1>7, <1>8, <1>11, <1>12, PhoneAfterMarking

\* An upload is answered, or fails.
LEMMA PhoneAfterAnswer ==
    ASSUME PhoneSound, part = "device", part' = part, NEW t \in Syncs,
           GetAnswer(t) \/ \E underWay \in BOOLEAN : Fail(t, underWay)
    PROVE  PhoneSound'
<1>1. PICK r, c, queue, entries : r = run[t] /\ c = r.chunk /\ queue = phone["queue"] /\ entries = db["sync"]
  OBVIOUS
<1>2. /\ r.at \in {"sent", "served"} /\ phone' = phone /\ lost' = lost /\ db' = db
      /\ \/ r.at = "served" /\ Go(t, [r EXCEPT !.at = "answered"])
         \/ Go(t, [r EXCEPT !.at = "failing"])
  BY <1>1 DEF GetAnswer, Fail, vars
<1>3. run[t].at \in Uploading
  BY <1>1, <1>2 DEF Uploading
<1>4. /\ SyncSound(r, queue, entries) /\ {"at", "chunk", "n", "left"} \subseteq DOMAIN r
      /\ \A i \in DOMAIN c : c[i] \in DOMAIN queue
  BY <1>1, <1>3, SyncIsSound
<1>5. PICK sync, a : /\ a = "failing" \/ (r.at = "served" /\ a = "answered")
                     /\ sync = [r EXCEPT !.at = a] /\ Go(t, sync)
  BY <1>2
<1>6. DOMAIN sync = DOMAIN r /\ sync.at = a /\ sync.chunk = c /\ sync.left = r.left /\ sync.n = r.n
  BY ONLY <1>1, <1>4, <1>5
<1>7. SyncSound(sync, queue, entries)
  BY <1>1, <1>2, <1>4, <1>5, <1>6 DEF SyncSound, Uploading
<1>8. ASSUME NEW k \in DOMAIN queue, Holds(run[t], k) PROVE Arrived(entries, queue[k].record) \/ Holds(sync, k)
  <2>1. CASE a = "failing"
    BY <1>1, <1>6, <1>8, <2>1 DEF Holds
  <2>2. CASE r.at = "served"
    BY <1>1, <1>4, <1>8, <2>2 DEF Holds, SyncSound, Uploading
  <2>3. QED
    BY <1>5, <2>1, <2>2
<1>9. run[t].at # "saved"
  BY <1>1, <1>2
<1>10. QED
  BY <1>1, <1>2, <1>5, <1>7, <1>8, <1>9, PhoneAfterSilence

\* A failed upload is put back, entry after entry.
LEMMA PhoneAfterPutBack ==
    ASSUME PhoneSound, part = "device", part' = part, NEW t \in Syncs, PutBack(t)
    PROVE  PhoneSound'
<1>1. PICK r, c, queue, entries : r = run[t] /\ c = r.chunk /\ queue = phone["queue"] /\ entries = db["sync"]
  OBVIOUS
<1>2. r.at = "failing" /\ Mark(Head(c), "pending") /\ lost' = lost /\ db' = db
  BY <1>1 DEF PutBack, vars
<1>3. run[t].at \in Uploading
  BY <1>1, <1>2 DEF Uploading
<1>4. /\ {"at", "chunk", "n", "left"} \subseteq DOMAIN r
      /\ c \in Seq(DOMAIN queue) /\ r.left \in Seq(DOMAIN queue)
      /\ Len(c) \in Nat /\ DOMAIN c = 1..Len(c) /\ 1 \in DOMAIN c /\ \A i \in DOMAIN c : c[i] \in DOMAIN queue
  BY <1>1, <1>3, SyncIsSound
<1>5. PICK sync : /\ Go(t, sync)
                  /\ sync = IF Len(c) > 1 THEN [r EXCEPT !.chunk = Tail(c)] ELSE NextChunk(t, r.left)
  BY <1>1 DEF PutBack
<1>6. PICK k : k = c[1]
  OBVIOUS
<1>7. Mark(k, "pending") /\ k \in DOMAIN queue
  BY <1>2, <1>4, <1>6
<1>8. PICK rest, D : rest = Tail(c) /\ D = DOMAIN queue
  OBVIOUS
<1>9. Len(c) > 1 => /\ rest \in Seq(D) /\ 1 \in DOMAIN rest
                    /\ \A i \in DOMAIN c : i = 1 \/ (i - 1 \in DOMAIN rest /\ rest[i - 1] = c[i])
  BY ONLY <1>4, <1>8
<1>10. SyncSound(sync, queue, entries) /\ \A l \in D \ {k} : Holds(r, l) => Holds(sync, l)
  <2>1. CASE Len(c) > 1
    <3>1. sync = [r EXCEPT !.chunk = rest]
      BY <1>5, <1>8, <2>1
    <3>2. DOMAIN sync = DOMAIN r /\ sync.at = r.at /\ sync.chunk = rest /\ sync.left = r.left
      BY ONLY <1>4, <3>1
    <3>3. SyncSound(sync, queue, entries)
      BY <1>2, <1>4, <1>8, <1>9, <2>1, <3>2 DEF SyncSound
    <3>4. ASSUME NEW l \in D \ {k}, Holds(r, l) PROVE Holds(sync, l)
      <4>1. PICK i \in DOMAIN c : c[i] = l
        BY <1>1, <3>4 DEF Holds
      <4>2. i # 1
        BY <1>6, <3>4, <4>1
      <4>3. i - 1 \in DOMAIN rest /\ rest[i - 1] = l
        BY <1>9, <2>1, <4>1, <4>2
      <4>4. QED
        BY <1>2, <3>2, <4>3 DEF Holds
    <3>5. QED
      BY <3>3, <3>4
  <2>2. CASE ~ Len(c) > 1
    <3>1. SyncSound(sync, queue, entries)
      BY <1>4, <1>5, <2>2, NextChunkIsSound
    <3>2. \A i \in DOMAIN c : i = 1
      BY <1>4, <2>2
    <3>3. \A l : Holds(r, l) => l = k
      BY <1>1, <1>6, <3>2 DEF Holds
    <3>4. QED
      BY <3>1, <3>3
  <2>3. QED
    BY <2>1, <2>2
<1>11. run[t].at # "saved"
  BY <1>1, <1>2
<1>12. QED
  BY <1>1, <1>2, <1>5, <1>7, <1>8, <1>10, <1>11, PhoneAfterMarking

\* A sync goes on to the next result or to the next chunk.
LEMMA NextResultIsSound ==
    ASSUME PhoneSound, part = "device", NEW t \in Syncs, run[t].at \in {"answered", "marked"}
    PROVE  SyncSound(NextResult(t), phone["queue"], db["sync"])
<1>1. PICK r, c, n, queue, entries : /\ r = run[t] /\ c = r.chunk /\ n = r.n
                                     /\ queue = phone["queue"] /\ entries = db["sync"]
  OBVIOUS
<1>2. run[t].at \in Uploading
  BY DEF Uploading
<1>3. /\ SyncSound(r, queue, entries) /\ {"at", "chunk", "n", "left"} \subseteq DOMAIN r
      /\ c \in Seq(DOMAIN queue) /\ r.left \in Seq(DOMAIN queue)
      /\ Len(c) \in Nat /\ DOMAIN c = 1..Len(c) /\ 1 \in DOMAIN c /\ n \in DOMAIN c
  BY <1>1, <1>2, SyncIsSound
<1>4. CASE n < Len(c)
  <2>1. PICK sync : sync = [r EXCEPT !.at = "answered", !.n = @ + 1]
    OBVIOUS
  <2>2. DOMAIN sync = DOMAIN r /\ sync.at = "answered" /\ sync.chunk = c /\ sync.left = r.left /\ sync.n = n + 1
    BY ONLY <1>1, <1>3, <2>1
  <2>3. SyncSound(sync, queue, entries)
    BY <1>1, <1>3, <1>4, <2>2 DEF SyncSound, Uploading
  <2>4. NextResult(t) = sync
    BY <1>1, <1>4, <2>1 DEF NextResult
  <2>5. QED
    BY <1>1, <2>3, <2>4
<1>5. CASE ~ n < Len(c)
  <2>1. NextResult(t) = NextChunk(t, r.left)
    BY <1>1, <1>5 DEF NextResult
  <2>2. QED
    BY <1>1, <1>3, <2>1, NextChunkIsSound
<1>6. QED
  BY <1>4, <1>5

\* Of some of the numbers up to one there is a least.
LEMMA LeastOfSome ==
    ASSUME NEW n \in Nat, NEW s \in SUBSET (1..n), s # {}
    PROVE  \E i \in s : \A j \in s : i <= j
<1>1. PICK r, m : r = {n + 1 - i : i \in s} /\ m = Max(r)
  OBVIOUS
<1>2. r \in SUBSET (1..n) /\ r # {}
  <2>1. \A i \in s : n + 1 - i \in 1..n
    OBVIOUS
  <2>2. \A y \in r : y \in 1..n
    BY <1>1, <2>1
  <2>3. \E y : y \in r
    BY <1>1
  <2>4. QED
    BY <2>2, <2>3
<1>3. m \in r /\ \A y \in r : m >= y
  BY ONLY <1>1, <1>2, n \in Nat, GreatestOfSome
<1>4. PICK i \in s : m = n + 1 - i
  BY <1>1, <1>3
<1>5. \A j \in s : n + 1 - j \in r
  BY <1>1
<1>6. \A j \in s : i <= j
  BY <1>3, <1>4, <1>5
<1>7. QED
  BY <1>6

\* An answer is filed under the first entry of the chunk with the record, which says
\* then what the server made of it.
LEMMA PhoneAfterResult ==
    ASSUME RecordsSound(db), PhoneSound, part = "device", part' = part, NEW t \in Syncs, TakeResult(t)
    PROVE  PhoneSound'
<1>1. PICK r, c, n, queue, entries : /\ r = run[t] /\ c = r.chunk /\ n = r.n
                                     /\ queue = phone["queue"] /\ entries = db["sync"]
  OBVIOUS
<1>2. PICK x, s, k : /\ x = RecordOf(c[n]) /\ s = OutcomeOf(x)
                     /\ k = c[CHOOSE i \in DOMAIN c : RecordOf(c[i]) = x /\ \A j \in 1..(i - 1) : RecordOf(c[j]) # x]
  OBVIOUS
<1>3. /\ r.at = "answered" /\ Mark(k, s) /\ lost' = lost /\ db' = db
      /\ Go(t, IF s = "synced" THEN [r EXCEPT !.at = "marked"] ELSE NextResult(t))
  BY <1>1, <1>2 DEF TakeResult, vars
<1>4. run[t].at \in Uploading
  BY <1>1, <1>3 DEF Uploading
<1>5. /\ SyncSound(r, queue, entries) /\ {"at", "chunk", "n", "left"} \subseteq DOMAIN r
      /\ Len(c) \in Nat /\ DOMAIN c = 1..Len(c) /\ n \in DOMAIN c /\ \A i \in DOMAIN c : c[i] \in DOMAIN queue
  BY <1>1, <1>3, <1>4, SyncIsSound
<1>6. k \in DOMAIN queue /\ queue[k].record = x
  <2>1. PICK S : S = {i \in DOMAIN c : RecordOf(c[i]) = x}
    OBVIOUS
  <2>2. S \in SUBSET (1..Len(c)) /\ S # {}
    BY <1>2, <1>5, <2>1
  <2>3. Len(c) \in Nat
    BY <1>5
  <2>4. PICK i \in S : \A j \in S : i <= j
    BY ONLY <2>2, <2>3, LeastOfSome
  <2>5. \A j \in 1..(i - 1) : RecordOf(c[j]) # x
    BY <1>5, <2>1, <2>4
  <2>6. \E j \in DOMAIN c : RecordOf(c[j]) = x /\ \A l \in 1..(j - 1) : RecordOf(c[l]) # x
    BY <2>1, <2>4, <2>5
  <2>7. PICK j \in DOMAIN c : k = c[j] /\ RecordOf(c[j]) = x
    BY <1>2, <2>6
  <2>8. QED
    BY <1>1, <1>5, <2>7 DEF RecordOf
<1>7. x = queue[c[n]].record
  BY <1>1, <1>2 DEF RecordOf
<1>8. Arrived(entries, x)
  BY <1>1, <1>3, <1>5, <1>7 DEF SyncSound, Uploading
<1>9. Made(entries, x, s)
  BY <1>1, <1>2, <1>8, OutcomeIsMade
<1>10. PICK sync : Go(t, sync) /\ sync = IF s = "synced" THEN [r EXCEPT !.at = "marked"] ELSE NextResult(t)
  BY <1>3
<1>11. SyncSound(sync, queue, entries)
  <2>1. CASE s = "synced"
    <3>1. sync = [r EXCEPT !.at = "marked"]
      BY <1>10, <2>1
    <3>2. DOMAIN sync = DOMAIN r /\ sync.at = "marked" /\ sync.chunk = c /\ sync.left = r.left /\ sync.n = n
      BY ONLY <1>1, <1>5, <3>1
    <3>3. Made(entries, queue[c[n]].record, "synced")
      BY <1>7, <1>9, <2>1
    <3>4. QED
      BY <1>1, <1>3, <1>5, <3>2, <3>3 DEF SyncSound, Uploading
  <2>2. CASE s # "synced"
    <3>1. sync = NextResult(t) /\ run[t].at \in {"answered", "marked"}
      BY <1>1, <1>3, <1>10, <2>2
    <3>2. QED
      BY <1>1, <3>1, NextResultIsSound
  <2>3. QED
    BY <2>1, <2>2
<1>12. run[t].at # "saved" /\ \A l : ~ Holds(run[t], l)
  BY <1>1, <1>3 DEF Holds
<1>13. QED
  BY <1>1, <1>3, <1>6, <1>8, <1>9, <1>10, <1>11, <1>12, PhoneAfterMarking

\* The diary of a record that the server has taken is shown as synced.
LEMMA PhoneAfterDiary ==
    ASSUME PhoneSound, part = "device", part' = part, NEW t \in Syncs, MarkDiarySynced(t)
    PROVE  PhoneSound'
<1>1. PICK diary, queue, entries : diary = phone["diary"] /\ queue = phone["queue"] /\ entries = db["sync"]
  OBVIOUS
<1>2. {"diary", "queue"} \subseteq DOMAIN phone /\ PhoneHolds(diary, queue, run, lost, entries)
  BY <1>1 DEF PhoneSound
<1>3. PICK x, new : x = RecordOf(run[t].chunk[run[t].n]) /\ new = [diary EXCEPT ![x] = "synced"]
  OBVIOUS
<1>4. PICK sync, next : sync = NextResult(t) /\ next = [run EXCEPT ![t] = sync]
  OBVIOUS
<1>5. /\ run[t].at = "marked" /\ phone' = [phone EXCEPT !["diary"] = [diary EXCEPT ![x] = "synced"]]
      /\ run' = next /\ lost' = lost /\ db' = db
  BY <1>1, <1>3, <1>4 DEF MarkDiarySynced, Go, vars
<1>6. run[t].at \in Uploading
  BY <1>5 DEF Uploading
<1>7. SyncSound(run[t], queue, entries)
  BY <1>1, <1>6, SyncIsSound
<1>8. Made(entries, x, "synced")
  BY <1>1, <1>3, <1>5, <1>6, <1>7 DEF SyncSound, RecordOf
<1>9. PhoneHolds(new, queue, run, lost, entries)
  BY <1>2, <1>3, <1>8, PhoneAfterSynced
<1>10. SyncSound(sync, queue, entries)
  <2>1. run[t].at \in {"answered", "marked"}
    BY <1>5
  <2>2. QED
    BY <1>1, <1>4, <2>1, NextResultIsSound
<1>11. PhoneHolds(new, queue, next, lost, entries)
  <2>1. run[t].at # "saved"
    BY <1>5
  <2>2. \A k \in DOMAIN queue : Holds(run[t], k) => Arrived(entries, queue[k].record) \/ Holds(sync, k)
    BY <1>5 DEF Holds
  <2>3. QED
    BY ONLY <1>4, <1>9, <1>10, <2>1, <2>2, t \in Syncs, PhoneAfterRun
<1>12. {"diary", "queue"} \subseteq DOMAIN phone' /\ phone'["diary"] = new /\ phone'["queue"] = queue
  BY ONLY <1>1, <1>2, <1>3, <1>5
<1>13. QED
  BY <1>1, <1>5, <1>11, <1>12, PhoneSoundAgain

\* An upload reaches the server, while the sync waits for the answer or after the app
\* has given it up.
LEMMA PhoneAfterUpload ==
    ASSUME ~ Concurrent, DeviceTyped, RecordsSound(db), PhoneSound, part = "device", part' = part, NEW p,
           (\E t \in Syncs : Deliver(p, t)) \/ \E batch \in late : DeliverLate(p, batch)
    PROVE  PhoneSound'
<1>1. PICK diary, queue, entries, new : /\ diary = phone["diary"] /\ queue = phone["queue"]
                                        /\ entries = db["sync"] /\ new = db'["sync"]
  OBVIOUS
<1>2. {"diary", "queue"} \subseteq DOMAIN phone /\ PhoneHolds(diary, queue, run, lost, entries)
  BY <1>1 DEF PhoneSound
<1>3. ASSUME NEW batch, NEW n \in Nat, DOMAIN batch = 1..n, SubmitSyncBatch(p, batch)
      PROVE  PhoneHolds(diary, queue, run, lost, new) /\ \A i \in 1..n : Arrived(new, batch[i])
  <2>1. db' = FoldLeft(Accept, db, batch)
    BY <1>3, SerialRows DEF SubmitSyncBatch, Commit
  <2>2. Grows(entries, new) /\ \A i \in 1..n : Arrived(new, batch[i])
    BY <1>1, <1>3, <2>1, BatchArrives
  <2>3. QED
    BY <1>2, <2>2, PhoneAfterServer
<1>4. ASSUME NEW t \in Syncs, Deliver(p, t) PROVE PhoneSound'
  <2>1. PICK r, c, batch : r = run[t] /\ c = r.chunk /\ batch = RecordsOf(c)
    OBVIOUS
  <2>2. PICK sync, next : sync = [r EXCEPT !.at = "served"] /\ next = [run EXCEPT ![t] = sync]
    OBVIOUS
  <2>3. /\ r.at = "sent" /\ SubmitSyncBatch(p, batch)
        /\ run' = next /\ phone' = phone /\ lost' = lost
    BY <1>4, <2>1, <2>2 DEF Deliver, Go
  <2>4. run[t].at \in Uploading
    BY <2>1, <2>3 DEF Uploading
  <2>5. /\ {"at", "chunk", "n", "left"} \subseteq DOMAIN r
        /\ c \in Seq(DOMAIN queue) /\ r.left \in Seq(DOMAIN queue)
        /\ Len(c) \in Nat /\ DOMAIN c = 1..Len(c) /\ 1 \in DOMAIN c /\ r.n \in DOMAIN c
    BY <1>1, <2>1, <2>3, <2>4, SyncIsSound
  <2>6. PICK n \in Nat : n = Len(c)
    BY <2>5
  <2>7. DOMAIN batch = 1..n /\ \A i \in 1..n : batch[i] = queue[c[i]].record
    BY <1>1, <2>1, <2>5, <2>6 DEF RecordsOf, RecordOf
  <2>8. PhoneHolds(diary, queue, run, lost, new) /\ \A i \in 1..n : Arrived(new, batch[i])
    BY <1>3, <2>3, <2>7
  <2>9. DOMAIN sync = DOMAIN r /\ sync.at = "served" /\ sync.chunk = c /\ sync.left = r.left /\ sync.n = r.n
    BY ONLY <2>1, <2>2, <2>5
  <2>10. SyncSound(sync, queue, new)
    BY <2>5, <2>6, <2>7, <2>8, <2>9 DEF SyncSound
  <2>11. run[t].at # "saved" /\ \A k : Holds(run[t], k) => Holds(sync, k)
    BY <2>1, <2>3, <2>9 DEF Holds
  <2>12. PhoneHolds(diary, queue, next, lost, new)
    BY <2>2, <2>8, <2>10, <2>11, PhoneAfterRun
  <2>13. QED
    BY <1>1, <1>2, <2>3, <2>12, PhoneSoundAgain
<1>5. ASSUME NEW batch \in late, DeliverLate(p, batch) PROVE PhoneSound'
  <2>1. PICK n \in Nat : DOMAIN batch = 1..n
    BY <1>5 DEF DeviceTyped
  <2>2. /\ SubmitSyncBatch(p, batch) \/ db' = db
        /\ run' = run /\ phone' = phone /\ lost' = lost
    BY <1>5 DEF DeliverLate, vars
  <2>3. PhoneHolds(diary, queue, run, lost, new)
    <3>1. CASE SubmitSyncBatch(p, batch)
      BY <1>3, <2>1, <3>1
    <3>2. CASE db' = db
      <4>1. new = entries
        BY <1>1, <3>2
      <4>2. QED
        BY <1>2, <4>1
    <3>3. QED
      BY <2>2, <3>1, <3>2
  <2>4. QED
    BY <1>1, <1>2, <2>2, <2>3, PhoneSoundAgain
<1>6. QED
  BY <1>4, <1>5

\* The app is killed, or somebody in the office resolves a conflict.
LEMMA PhoneAfterOther ==
    ASSUME ~ Concurrent, RecordsSound(db), PhoneSound, part = "device", part' = part, NEW p,
           Kill \/ \E k : ResolveConflict(p, k) /\ UNCHANGED fieldVars
    PROVE  PhoneSound'
<1>1. PICK diary, queue, entries : diary = phone["diary"] /\ queue = phone["queue"] /\ entries = db["sync"]
  OBVIOUS
<1>2. {"diary", "queue"} \subseteq DOMAIN phone /\ PhoneHolds(diary, queue, run, lost, entries)
  BY <1>1 DEF PhoneSound
<1>3. CASE Kill
  <2>1. PICK next, more : next = [t \in Syncs |-> Asleep] /\ more = lost'
    OBVIOUS
  <2>2. /\ run' = next /\ phone' = phone /\ db' = db
        /\ more = lost \cup BeingSaved \cup {RecordOf(k) : k \in {j \in DOMAIN queue : queue[j].status = "syncing"}}
    BY <1>1, <1>3, <2>1 DEF Kill, vars
  <2>3. lost \subseteq more /\ (run["save"].at = "saved" => run["save"].record \in more)
    BY <2>2 DEF BeingSaved
  <2>4. \A k \in DOMAIN queue : queue[k].status = "syncing" => queue[k].record \in more
    BY <1>1, <2>2 DEF RecordOf
  <2>5. PhoneHolds(diary, queue, next, more, entries)
    BY <1>2, <2>1, <2>3, <2>4, PhoneAfterKill
  <2>6. QED
    BY <1>1, <1>2, <2>1, <2>2, <2>5, PhoneSoundAgain
<1>4. ASSUME NEW k, ResolveConflict(p, k), UNCHANGED fieldVars PROVE PhoneSound'
  <2>1. {"sync", "conflict"} \subseteq DOMAIN db
    BY DEF RecordsSound
  <2>2. /\ DOMAIN db' = DOMAIN db
        /\ db'["conflict"] = [db["conflict"] EXCEPT ![k] = [db["conflict"][k] EXCEPT !.status = "resolved"]]
        /\ \A u \in DOMAIN db \ {"conflict"} : db'[u] = db[u]
        /\ k \in DOMAIN db["conflict"] /\ db["conflict"][k].status \in {"unresolved"}
    BY <1>4, <2>1, StatusTurned DEF ResolveConflict
  <2>3. db'["sync"] = entries /\ phone' = phone /\ run' = run /\ lost' = lost
    BY <1>1, <1>4, <2>1, <2>2 DEF fieldVars
  <2>4. QED
    BY <1>1, <1>2, <2>3, PhoneSoundAgain
<1>5. QED
  BY <1>3, <1>4

\* Every step of the device, and of the network and the server under it, keeps the
\* invariant.
LEMMA PhoneAfterDevice ==
    ASSUME ~ Concurrent, DeviceTyped, RecordsSound(db), PhoneSound, part = "device", part' = part, NEW p, DeviceNext(p)
    PROVE  PhoneSound'
<1>1. CASE (\E r \in DeviceRecords : HandleSave(r)) \/ InsertSyncQueueEntry \/ HandleManualSync
  BY <1>1, PhoneAfterSaving
<1>2. CASE \/ \E t \in Syncs, online \in BOOLEAN : RunSync(t, online)
           \/ RefreshConflicts
           \/ \E next \in {Asleep, [at |-> "stuck"]} : MissConflicts(next)
  BY <1>2, PhoneAfterBeginning
<1>3. ASSUME NEW t \in Syncs, MarkSyncing(t) PROVE PhoneSound'
  BY <1>3, PhoneAfterSyncing
<1>4. ASSUME NEW t \in Syncs, GetAnswer(t) \/ \E underWay \in BOOLEAN : Fail(t, underWay) PROVE PhoneSound'
  BY <1>4, PhoneAfterAnswer
<1>5. ASSUME NEW t \in Syncs, PutBack(t) PROVE PhoneSound'
  BY <1>5, PhoneAfterPutBack
<1>6. ASSUME NEW t \in Syncs, TakeResult(t) PROVE PhoneSound'
  BY <1>6, PhoneAfterResult
<1>7. ASSUME NEW t \in Syncs, MarkDiarySynced(t) PROVE PhoneSound'
  BY <1>7, PhoneAfterDiary
<1>8. CASE (\E t \in Syncs : Deliver(p, t)) \/ \E batch \in late : DeliverLate(p, batch)
  BY <1>8, PhoneAfterUpload
<1>9. CASE Kill \/ \E k : ResolveConflict(p, k) /\ UNCHANGED fieldVars
  BY <1>9, PhoneAfterOther
<1>10. QED
  BY <1>1, <1>2, <1>3, <1>4, <1>5, <1>6, <1>7, <1>8, <1>9 DEF DeviceNext

\* So does every step; the other parts leave the device alone.
LEMMA PhoneStaysSound ==
    ASSUME ~ Concurrent, AccessSound, SignOffsSound, PhoneSound, [Next]_<<part, vars, fieldVars>>
    PROVE  PhoneSound'
<1>1. DeviceTyped /\ RecordsSound(db)
  BY DEF AccessSound, SignOffsSound
<1>2. ASSUME NEW p, part = "device", part' = part, DeviceNext(p) PROVE PhoneSound'
  BY <1>1, <1>2, PhoneAfterDevice
<1>3. CASE part' = part /\ RequestNext
  <2>1. part # "device"
    <3>1. part \in DOMAIN PartTables
      BY <1>3, PartKeeps
    <3>2. QED
      BY <3>1 DEF PartTables
  <2>2. UNCHANGED fieldVars
    BY <1>3 DEF RequestNext
  <2>3. phone' = phone
    BY <2>2 DEF fieldVars
  <2>4. QED
    BY <1>3, <2>1, <2>3 DEF PhoneSound
<1>4. CASE UNCHANGED <<part, vars, fieldVars>>
  BY <1>4 DEF PhoneSound, vars, fieldVars
<1>5. QED
  BY <1>2, <1>3, <1>4 DEF Next

\* Nothing is captured where the program starts.
LEMMA FirstPhone ==
    ASSUME Init
    PROVE  PhoneSound
<1>1. /\ phone = [diary |-> [r \in DeviceRecords |-> "none"], queue |-> <<>>, conflicts |-> {}]
      /\ run = [t \in Syncs |-> Asleep]
  BY DEF Init, FieldInit
<1>2. PICK diary, queue, entries : diary = phone["diary"] /\ queue = phone["queue"] /\ entries = db["sync"]
  OBVIOUS
<1>3. {"diary", "queue"} \subseteq DOMAIN phone /\ queue = <<>> /\ diary = [r \in DeviceRecords |-> "none"]
  BY ONLY <1>1, <1>2
<1>4. IsTable(queue) /\ DOMAIN queue = {}
  BY <1>3, SmallTables DEF IsTable
<1>5. QueueSound(queue, entries)
  BY <1>4 DEF QueueSound
<1>6. DOMAIN run = Syncs /\ \A t \in Syncs : SyncSound(run[t], queue, entries)
  BY <1>1 DEF SyncSound, Uploading, Asleep
<1>7. DOMAIN diary = DeviceRecords /\ \A r \in DeviceRecords : diary[r] = "none"
  BY <1>3
<1>8. DiariesSound(diary, queue, run, lost, entries)
  BY <1>7 DEF DiariesSound
<1>9. QED
  BY <1>2, <1>3, <1>5, <1>6, <1>7, <1>8 DEF PhoneSound, PhoneHolds

\* What was saved on a device arrives or is on its way, whatever becomes of uploads and
\* of their answers, however two syncs overlap and whenever the app is killed, but for
\* what was being saved or uploaded then; and what the device shows as synced or in
\* conflict is so at the server (handleSave, runSync, submit_sync_batch).
THEOREM FieldWorkAlwaysArrives == ~ Concurrent => (Spec => []FieldWorkArrives)
<1> SUFFICES ASSUME ~ Concurrent PROVE Spec => []FieldWorkArrives
  OBVIOUS
<1> DEFINE IInv == AccessSound /\ SignOffsSound /\ PhoneSound
<1>1. Init => IInv
  BY FirstAccess, FirstSignOffs, FirstPhone
<1>2. IInv /\ [Next]_<<part, vars, fieldVars>> => IInv'
  BY AccessStaysSound, SignOffsStaySound, PhoneStaysSound
<1>3. IInv => FieldWorkArrives
  BY PhoneSoundSays DEF SignOffsSound
<1>4. QED
  BY <1>1, <1>2, <1>3, PTL DEF Spec
=============================================================================
