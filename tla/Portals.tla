------------------------------- MODULE Portals -------------------------------
(***************************************************************************)
(* People outside the company: the accounts of the client, subcontractor   *)
(* and vendor portals (modules/clp, scp, vnp, auth/portal_reset), what     *)
(* clients decide, and their right to be forgotten (dsar).                 *)
(*                                                                         *)
(* One tenant: where an address is known to several, login tries each the  *)
(* same way.  A token's claims are a session; an access token lives and is *)
(* refused as its session is.                                              *)
(***************************************************************************)
EXTENDS Contracts

CONSTANTS
    PortalKinds,    \* of "clp", "scp", "vnp"
    PortalEmails,
    MaxChanges      \* bound: passwords a portal user ever has

NoOne == "erased"

\* The placeholder is no address that anybody registers with.
ASSUME PortalsAssumption == NoOne \notin PortalEmails

\* indexed: the email index names the user.  changedAt is password_changed_at.
PortalUser(kind, e) ==
    [kind |-> kind, email |-> e, password |-> 1, changedAt |-> 0, active |-> TRUE, indexed |-> FALSE]

\* pwd_ts is the claim; under, which no handler sees, the password behind it.
PortalSession(u, pwd_ts, under) == [status |-> "live", user |-> u, pwd_ts |-> pwd_ts, under |-> under]

PortalPasswordResetToken(u) == [status |-> "unused", user |-> u, expired |-> FALSE]

ClientProjectAssignment(u, project) == [user |-> u, project |-> project]

ClientApprovalAction(u, type, k, decision) == [user |-> u, type |-> type, of |-> k, decision |-> decision]

ClientRequest(u) == [status |-> "open", user |-> u, told |-> FALSE]

DSARRequest(type, source) == [status |-> "open", type |-> type, source |-> source, verified |-> FALSE]

PortalTables ==
    [portaluser |-> <<>>, portalsession |-> <<>>, portaltoken |-> <<>>, assignment |-> <<>>,
     clientaction |-> <<>>, clientrequest |-> <<>>, dsar |-> <<>>]

-----------------------------------------------------------------------------
(* Accounts *)

\* The password is committed before the index that login looks in: a worker that
\* dies in between leaves a user who can neither log in nor be created again.
CreatePortalUser(p, kind, e) ==
    /\ Serving(p) /\ Room("portaluser")
    /\ \A u \in Rows(p, "portaluser") : ~ (Row(p, "portaluser", u).kind = kind /\ Row(p, "portaluser", u).email = e)
    /\ CommitThen(p, Insert(Seen(p), "portaluser", PortalUser(kind, e)), "index", <<Len(db.portaluser) + 1>>)

IndexPortalUser(p) ==
    /\ Resuming(p, "index")
    /\ Commit(p, [Seen(p) EXCEPT !.portaluser[req[p].todo[1]].indexed = TRUE])

\* check_portal_pwd_ts
PortalClaimHolds(s, k) == s.portalsession[k].pwd_ts = s.portaluser[s.portalsession[k].user].changedAt

WithPortalSession(s, u) ==
    Insert(s, "portalsession", PortalSession(u, s.portaluser[u].changedAt, s.portaluser[u].password))

PortalLogin(p, u) ==
    /\ Serving(p) /\ Room("portalsession")
    /\ u \in Rows(p, "portaluser")
    /\ Row(p, "portaluser", u).indexed /\ Row(p, "portaluser", u).active
    /\ Commit(p, WithPortalSession(Seen(p), u))

\* Neither the user's is_active nor the tenant's suspension is looked at.
PortalRefresh(p, k) ==
    LET s == Seen(p)
        old == s.portalsession[k]
    IN /\ Serving(p) /\ Room("portalsession")
       /\ k \in DOMAIN s.portalsession
       /\ old.status = "live"
       /\ PortalClaimHolds(s, k)
       /\ Commit(p, Insert([s EXCEPT !.portalsession[k].status = "revoked"], "portalsession",
                           PortalSession(old.user, old.pwd_ts, old.under)))

PortalLogout(p, k) == Turn(p, "portalsession", k, {"live"}, "revoked")

RequestPortalPasswordReset(p, u) ==
    /\ u \in Rows(p, "portaluser")
    /\ Row(p, "portaluser", u).indexed /\ Row(p, "portaluser", u).active
    /\ Create(p, "portaltoken", PortalPasswordResetToken(u))

WithNewPortalPassword(u) == [u EXCEPT !.password = @ + 1, !.changedAt = @ + 1]

\* The user's other unused tokens stay good.
ResetPortalPassword(p, t) ==
    LET s == Seen(p)
        u == s.portaltoken[t].user
    IN /\ Serving(p)
       /\ t \in DOMAIN s.portaltoken
       /\ s.portaltoken[t].status = "unused" /\ ~ s.portaltoken[t].expired
       /\ s.portaluser[u].active
       /\ s.portaluser[u].password < MaxChanges
       /\ Commit(p, [s EXCEPT !.portaluser[u] = WithNewPortalPassword(@), !.portaltoken[t].status = "used"])

\* invalidate_reset_tokens
Void(tokens, u) ==
    [t \in DOMAIN tokens |->
        IF tokens[t].user = u /\ tokens[t].status = "unused" THEN [tokens[t] EXCEPT !.status = "void"] ELSE tokens[t]]

\* The caller is handed a new session.
ChangePortalPassword(p, k) ==
    LET s == Seen(p)
        u == s.portalsession[k].user
    IN /\ Serving(p) /\ Room("portalsession")
       /\ k \in DOMAIN s.portalsession
       /\ PortalClaimHolds(s, k)
       /\ s.portaluser[u].password < MaxChanges
       /\ Commit(p, WithPortalSession([s EXCEPT !.portaluser[u] = WithNewPortalPassword(@),
                                               !.portaltoken = Void(@, u)], u))

PortalAuthRoutes(p) ==
    \/ \E kind \in PortalKinds, e \in PortalEmails : CreatePortalUser(p, kind, e)
    \/ IndexPortalUser(p)
    \/ \E u \in 1..MaxRows.portaluser : PortalLogin(p, u) \/ RequestPortalPasswordReset(p, u)
    \/ \E k \in 1..MaxRows.portalsession : PortalRefresh(p, k) \/ PortalLogout(p, k) \/ ChangePortalPassword(p, k)
    \/ \E t \in 1..MaxRows.portaltoken : ResetPortalPassword(p, t)
    \/ Abandon(p)

-----------------------------------------------------------------------------
(* What clients see and decide *)

AssignClientProject(p, u, project) ==
    /\ u \in Rows(p, "portaluser") /\ Row(p, "portaluser", u).kind = "clp"
    /\ \A a \in DOMAIN db.assignment : db.assignment[a] # ClientProjectAssignment(u, project)
    /\ Create(p, "assignment", ClientProjectAssignment(u, project))

\* assert_client_project_access
Assigned(s, u, project) == \E a \in DOMAIN s.assignment : s.assignment[a] = ClientProjectAssignment(u, project)

\* actual_project_id: a variation is of its contract's project, a certificate of the
\* project it names itself.
VariationProject(s, v) == ProjectOf[s.variation[v].contract]

CertificateProject(s, cert) == s.certificate[cert].project

MayDecide(s, u, project, actual) == Assigned(s, u, project) /\ actual # None /\ actual = project

ApproveVariationAsClient(p, u, project, v, decision) ==
    LET s == Seen(p)
    IN /\ Serving(p) /\ Room("clientaction")
       /\ v \in DOMAIN s.variation
       /\ MayDecide(s, u, project, VariationProject(s, v))
       /\ s.variation[v].status = "pending"
       /\ Commit(p, Insert([s EXCEPT !.variation[v].status = decision], "clientaction",
                           ClientApprovalAction(u, "variation", v, decision)))

\* The certificate, its tracking and the record of who decided are three commits.
ApproveCertificateAsClient(p, u, project, cert, decision) ==
    LET s == Seen(p)
    IN /\ Serving(p) /\ Room("clientaction")
       /\ cert \in DOMAIN s.certificate
       /\ MayDecide(s, u, project, CertificateProject(s, cert))
       /\ s.certificate[cert].status = "submitted"
       /\ IF decision = "approved"
          THEN CommitThen(p, [s EXCEPT !.certificate[cert].status = "client_approved"], "certify for client", <<u, cert>>)
          ELSE CommitThen(p, [s EXCEPT !.certificate[cert].status = "rejected"], "record", <<u, cert, decision>>)

CertifyForClient(p) ==
    LET s == Seen(p)
        cert == req[p].todo[2]
    IN /\ Resuming(p, "certify for client")
       /\ CommitThen(p, [s EXCEPT !.tracking =
            [k \in DOMAIN @ |-> IF k \in TrackingOf(s, cert) THEN [@[k] EXCEPT !.status = "certified"] ELSE @[k]]],
            "record", <<req[p].todo[1], cert, "approved">>)

RecordClientAction(p) ==
    /\ Resuming(p, "record")
    /\ Commit(p, Insert(Seen(p), "clientaction",
         ClientApprovalAction(req[p].todo[1], "certificate", req[p].todo[2], req[p].todo[3])))

SubmitClientRequest(p, u, project) ==
    /\ Assigned(Seen(p), u, project)
    /\ Create(p, "clientrequest", ClientRequest(u))

\* The notification is a commit of its own.
ResolveClientRequest(p, k) ==
    /\ Serving(p)
    /\ k \in Rows(p, "clientrequest")
    /\ Row(p, "clientrequest", k).status # "resolved"
    /\ CommitThen(p, [Seen(p) EXCEPT !.clientrequest[k].status = "resolved"], "tell", <<k>>)

TellClient(p) ==
    /\ Resuming(p, "tell")
    /\ Commit(p, [Seen(p) EXCEPT !.clientrequest[req[p].todo[1]].told = TRUE])

ClientRoutes(p) ==
    \/ \E u \in Rows(p, "portaluser"), project \in Projects :
         \/ AssignClientProject(p, u, project)
         \/ SubmitClientRequest(p, u, project)
         \/ \E d \in {"approved", "rejected"} :
              \/ \E v \in Rows(p, "variation") : ApproveVariationAsClient(p, u, project, v, d)
              \/ \E cert \in Rows(p, "certificate") : ApproveCertificateAsClient(p, u, project, cert, d)
    \/ \E k \in 1..MaxRows.clientrequest : ResolveClientRequest(p, k)
    \/ CertifyForClient(p)
    \/ RecordClientAction(p)
    \/ TellClient(p)
    \/ Abandon(p)

-----------------------------------------------------------------------------
(* Data subject requests *)

DsarTypes == {"access", "erasure"}

\* One open request of a kind per address and day comes through the public form.
SubmitPublicRequest(p, type) ==
    /\ \A k \in Rows(p, "dsar") :
         ~ (/\ Row(p, "dsar", k).type = type /\ Row(p, "dsar", k).source = "public"
            /\ Row(p, "dsar", k).status \in {"open", "in_progress"})
    /\ Create(p, "dsar", DSARRequest(type, "public"))

\* At most VERIFY_TOKEN_TTL_DAYS after the request came in.
VerifyPublicRequest(p, k) ==
    Amend(p, "dsar", k, LAMBDA r : r.source = "public", LAMBDA r : [r EXCEPT !.verified = TRUE])

Closed == {"completed", "rejected"}

UpdateDsarRequest(p, k, status) == Turn(p, "dsar", k, {"open", "in_progress"}, status)

\* Of the kind asked for, open, and the requester is who they say.
MayServe(s, k, type) ==
    /\ s.dsar[k].type = type
    /\ s.dsar[k].status \notin Closed
    /\ s.dsar[k].source = "staff" \/ s.dsar[k].verified

ExportSubjectData(p, k) ==
    /\ k \in Rows(p, "dsar")
    /\ MayServe(Seen(p), k, "access")
    /\ Turn(p, "dsar", k, {"open", "in_progress"}, "in_progress")

\* _erase_portal_user
ErasePortalUser(u) ==
    [u EXCEPT !.email = NoOne, !.password = 0, !.active = FALSE, !.indexed = FALSE, !.changedAt = @ + 1]

\* A client's reset tokens are not looked for (_erase_clp).
EraseRecords(p, k, u) ==
    LET s == Seen(p)
    IN /\ Serving(p)
       /\ k \in DOMAIN s.dsar /\ u \in DOMAIN s.portaluser
       /\ MayServe(s, k, "erasure")
       /\ s.portaluser[u].email # NoOne
       /\ Commit(p, [s EXCEPT !.dsar[k].status = "in_progress",
                              !.portaluser[u] = ErasePortalUser(@),
                              !.portaltoken = IF s.portaluser[u].kind = "clp" THEN @ ELSE Void(@, u)])

DsarRoutes(p) ==
    \/ \E type \in DsarTypes : SubmitPublicRequest(p, type) \/ Create(p, "dsar", DSARRequest(type, "staff"))
    \/ \E k \in 1..MaxRows.dsar :
         \/ VerifyPublicRequest(p, k)
         \/ \E status \in {"open", "in_progress"} \union Closed : UpdateDsarRequest(p, k, status)
         \/ ExportSubjectData(p, k)
         \/ \E u \in 1..MaxRows.portaluser : EraseRecords(p, k, u)

\* Reset tokens expire by the clock.
PortalTokenExpires ==
    /\ \E t \in DOMAIN db.portaltoken : db' = [db EXCEPT !.portaltoken[t].expired = TRUE]
    /\ UNCHANGED <<req, past>>

ErasureRoutes(p) ==
    \/ Create(p, "dsar", DSARRequest("erasure", "staff"))
    \/ \E k \in 1..MaxRows.dsar, u \in 1..MaxRows.portaluser : EraseRecords(p, k, u)

PortalNext(p) == PortalAuthRoutes(p) \/ ErasureRoutes(p) \/ PortalTokenExpires

\* Certificates and variations come from the company's side.
ClientNext(p) == ClientRoutes(p) \/ \E v \in 1..MaxRows.variation, d \in {"approved", "rejected"} : DecideVariationOrder(p, v, d)

-----------------------------------------------------------------------------
(* Properties *)

PortalsTypeOK ==
    /\ \A u \in DOMAIN db.portaluser : db.portaluser[u].indexed => db.portaluser[u].active
    /\ \A k \in DOMAIN db.dsar : db.dsar[k].status \in {"open", "in_progress"} \union Closed

\* A portal session that is still accepted goes back to a login with the user's
\* present password, and nobody who was erased has one: they cannot log in, reset
\* a password or refresh (change_client_password, reset_portal_password,
\* _erase_portal_user).
PortalAccessEnds ==
    /\ \A k \in DOMAIN db.portalsession :
         PortalClaimHolds(db, k) =>
            LET u == db.portaluser[db.portalsession[k].user]
            IN u.active /\ db.portalsession[k].under = u.password
    /\ \A u \in DOMAIN db.portaluser : db.portaluser[u].email = NoOne => db.portaluser[u].password = 0

\* Every decision recorded for a client was on a variation or a certificate of a
\* project the client is assigned to, and it is how the record stands
\* (approve_variation_order_as_client, approve_certificate_as_client).
ClientsDecideTheirOwn ==
    \A a \in DOMAIN db.clientaction :
        LET act == db.clientaction[a]
            variation == act.type = "variation"
            target == IF variation THEN db.variation[act.of] ELSE db.certificate[act.of]
            actual == IF variation THEN VariationProject(db, act.of) ELSE CertificateProject(db, act.of)
        IN /\ Assigned(db, act.user, actual)
           /\ IF variation \/ act.decision = "rejected" THEN target.status = act.decision
              ELSE target.status = "client_approved"
=============================================================================
