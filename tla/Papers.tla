------------------------------- MODULE Papers -------------------------------
(***************************************************************************)
(* Documents held in S3 (documents), notifications and who wants them      *)
(* (notifications), projects (projects).                                   *)
(*                                                                         *)
(* Bytes go from the browser to S3 and back, never through a handler.      *)
(***************************************************************************)
EXTENDS Requests

CONSTANTS
    Organisations,  \* vendors and subcontractors whose people use a portal
    Readers         \* who is notified

\* object: what S3 holds under the key.  owner is NULL for the company's own.
Document(owner) == [status |-> "pending", owner |-> owner, object |-> "none"]

\* A claim's supporting document or a vendor invoice's attachment.
Attachment(org, d) == [org |-> org, document |-> d]

Notification(u) == [user |-> u, read |-> FALSE]

Project == [status |-> "active"]

\* preference: in-app notifications are wanted; no row means they are.
PaperTables ==
    [document |-> <<>>, attachment |-> <<>>, notice |-> <<>>, preference |-> [u \in Readers |-> [wanted |-> TRUE]],
     project |-> <<>>]

ProjectStatuses == {"active", "on_hold", "completed", "cancelled"}

-----------------------------------------------------------------------------
(* Documents *)

CreateUploadRequest(p) == Create(p, "document", Document(None))

\* The row is committed before it is stamped with its owner: until then, and for
\* good if the worker dies, it is one of the company's.
CreatePortalUpload(p, org) ==
    /\ Serving(p) /\ Room("document")
    /\ CommitThen(p, Insert(Seen(p), "document", Document(None)), "stamp", <<Len(db.document) + 1, org>>)

StampOwner(p) ==
    /\ Resuming(p, "stamp")
    /\ Commit(p, [Seen(p) EXCEPT !.document[req[p].todo[1]].owner = req[p].todo[2]])

\* The browser's PUT, with the URL it was handed; nothing limits its size, and for
\* UPLOAD_URL_TTL_SECONDS nothing that becomes of the row ends it.
ObjectArrives(d, size) ==
    /\ d \in DOMAIN db.document
    /\ db' = [db EXCEPT !.document[d].object = size]
    /\ UNCHANGED <<req, past>>

\* Whoever asks, S3 is asked whether the object is there.
Confirmed(s, d) ==
    [s EXCEPT !.document[d].status = IF s.document[d].object = "none" THEN "failed" ELSE "uploaded"]

MayConfirm(s, d) == d \in DOMAIN s.document /\ s.document[d].status \in {"pending", "failed"}

ConfirmUpload(p, d) ==
    /\ Serving(p)
    /\ MayConfirm(Seen(p), d)
    /\ Commit(p, Confirmed(Seen(p), d))

\* An oversize object is confirmed first, and deleted after.
ConfirmPortalUpload(p, d) ==
    /\ Serving(p)
    /\ MayConfirm(Seen(p), d) /\ Row(p, "document", d).owner # None
    /\ IF Row(p, "document", d).object = "oversize"
       THEN CommitThen(p, Confirmed(Seen(p), d), "discard", <<d>>)
       ELSE Commit(p, Confirmed(Seen(p), d))

Attached(s, d) == \E k \in DOMAIN s.attachment : s.attachment[k].document = d

\* The object goes first; a foreign key may then keep the row.
Deleted(s, d) ==
    IF Attached(s, d) THEN [s EXCEPT !.document[d].object = "none"]
    ELSE [s EXCEPT !.document[d] = [@ EXCEPT !.status = "deleted", !.object = "none"]]

DiscardOversize(p) ==
    /\ Resuming(p, "discard")
    /\ Commit(p, Deleted(Seen(p), req[p].todo[1]))

DeleteDocument(p, d) ==
    /\ Serving(p)
    /\ d \in Rows(p, "document")
    /\ Row(p, "document", d).status # "deleted"
    /\ Commit(p, Deleted(Seen(p), d))

DeleteOwned(p, d) ==
    /\ d \in Rows(p, "document")
    /\ Row(p, "document", d).owner # None
    /\ ~ Attached(Seen(p), d)
    /\ DeleteDocument(p, d)

\* The file is one that the organisation uploaded, and finished uploading.
MayAttach(s, org, d) == s.document[d].owner = org /\ s.document[d].status = "uploaded"

\* submit_claim_as_subcontractor and upload_vendor_invoice, as far as the file goes.
Attach(p, org, d) ==
    /\ d \in Rows(p, "document")
    /\ MayAttach(Seen(p), org, d)
    /\ Create(p, "attachment", Attachment(org, d))

DocumentRoutes(p) ==
    \/ CreateUploadRequest(p)
    \/ \E org \in Organisations : CreatePortalUpload(p, org)
    \/ StampOwner(p)
    \/ DiscardOversize(p)
    \/ \E d \in 1..MaxRows.document :
         \/ ConfirmUpload(p, d)
         \/ ConfirmPortalUpload(p, d)
         \/ DeleteDocument(p, d)
         \/ DeleteOwned(p, d)
         \/ \E org \in Organisations : Attach(p, org, d)
    \/ Abandon(p)

DocumentNext(p) ==
    \/ DocumentRoutes(p)
    \/ \E d \in 1..MaxRows.document, size \in {"fits", "oversize"} : ObjectArrives(d, size)

-----------------------------------------------------------------------------
(* Notifications and projects *)

\* A preference only suppresses.
Notify(s, u) == IF s.preference[u].wanted THEN Insert(s, "notice", Notification(u)) ELSE s

\* What other modules do along with a change of theirs.
SomethingHappens(p, u) ==
    /\ Serving(p) /\ Room("notice")
    /\ Commit(p, Notify(Seen(p), u))

MarkRead(p, k, read) == Amend(p, "notice", k, LAMBDA n : TRUE, LAMBDA n : [n EXCEPT !.read = read])

MarkAllRead(p, u) ==
    /\ Serving(p)
    /\ Commit(p, [Seen(p) EXCEPT !.notice =
         [k \in DOMAIN @ |-> IF @[k].user = u THEN [@[k] EXCEPT !.read = TRUE] ELSE @[k]]])

SetPreferences(p, u, wanted) ==
    Amend(p, "preference", u, LAMBDA w : TRUE, LAMBDA w : [wanted |-> wanted])

UpdateProject(p, k, status) == Turn(p, "project", k, ProjectStatuses, status)

DeskRoutes(p) ==
    \/ \E u \in Readers :
         \/ SomethingHappens(p, u)
         \/ MarkAllRead(p, u)
         \/ \E wanted \in BOOLEAN : SetPreferences(p, u, wanted)
    \/ \E k \in 1..MaxRows.notice, read \in BOOLEAN : MarkRead(p, k, read)
    \/ Create(p, "project", Project)
    \/ \E k \in 1..MaxRows.project, status \in ProjectStatuses : UpdateProject(p, k, status)

-----------------------------------------------------------------------------
(* Properties *)

PapersTypeOK ==
    /\ \A d \in DOMAIN db.document :
         /\ db.document[d].status \in {"pending", "uploaded", "failed", "deleted"}
         /\ db.document[d].owner \in Organisations \union {None}
    /\ \A k \in DOMAIN db.project : db.project[k].status \in ProjectStatuses

\* What an organisation attached to a claim or an invoice is a file of its own
\* and keeps its row, whatever is deleted or confirmed around it (get_owned,
\* delete_owned); the object behind it may be gone.
AttachmentsKeepTheirDocument ==
    \A k \in DOMAIN db.attachment :
        LET d == db.document[db.attachment[k].document]
        IN d.owner = db.attachment[k].org /\ d.status = "uploaded"
=============================================================================
