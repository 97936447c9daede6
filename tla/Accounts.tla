------------------------------ MODULE Accounts ------------------------------
(***************************************************************************)
(* The accounts of one tenant: members, roles and invitations (app/org),   *)
(* the login, refresh and password handlers (app/auth), the subscription   *)
(* (app/billing), and what platform administrators do to a tenant.         *)
(*                                                                         *)
(* The tenant starts as signup leaves it.  E-mail addresses are unique     *)
(* over all tenants, in email_tenant_index; other tenants are seen only    *)
(* through the addresses they take.                                        *)
(***************************************************************************)
EXTENDS Requests

CONSTANTS
    Emails,       \* addresses; Founder is among them
    Founder,      \* the address the tenant signed up with
    SeatLimits,   \* seats of a plan, by plan code
    TrialPlan,
    MaxPasswords  \* bound: passwords a member has had

ASSUME AccountsAssumption ==
    /\ Founder \in Emails
    /\ SeatLimits \in [DOMAIN SeatLimits -> Nat] /\ TrialPlan \in DOMAIN SeatLimits

\* password counts the passwords so far; changedAt is NULL (0) until the first change.
User(email, role) ==
    [status |-> "active", email |-> email, role |-> role, password |-> 1, changedAt |-> 0]

Role(name, all) == [status |-> "kept", name |-> name, all |-> all]

Invitation(email, role) ==
    [status |-> "pending", email |-> email, role |-> role, token |-> 1, expired |-> FALSE]

\* A refresh token and the access token issued with it.  under, which no handler
\* sees, is the password that was proved when the session began.
Session(user, changedAt, under) ==
    [status |-> "live", user |-> user, pwd_ts |-> changedAt, under |-> under]

PasswordResetToken(user) == [status |-> "unused", user |-> user, expired |-> FALSE]

TenantSubscription(status, plan) == [status |-> status, plan |-> plan, ended |-> FALSE]

Nobody == 0

\* A user of another tenant.
Elsewhere == 0 - 1

NewSession(s, u, under) == Append(s.session, Session(u, s.user[u].changedAt, under))

\* signup_tenant, with start_trial
AccountTables ==
    [tenant |-> <<[suspended |-> FALSE]>>,
     role |-> <<Role("Administrator", TRUE)>>,
     user |-> <<User(Founder, 1)>>,
     index |-> [e \in Emails |-> [user |-> IF e = Founder THEN 1 ELSE Nobody]],
     subscription |-> <<TenantSubscription("trialing", TrialPlan)>>,
     session |-> <<Session(1, 0, 1)>>,
     invite |-> <<>>, resettoken |-> <<>>, office |-> <<>>, platformadmin |-> <<>>]

\* Another company signs up with an address that is free.
SignupTenant(p, e) == Amend(p, "index", e, LAMBDA i : i.user = Nobody, LAMBDA i : [user |-> Elsewhere])

-----------------------------------------------------------------------------
(* Subscription *)

SeatLimit(s) == SeatLimits[s.subscription[1].plan]

\* is_tenant_active
TenantActive(s) ==
    s.subscription[1].status \in {"active", "trialing"} /\ ~ s.subscription[1].ended

ChangePlan(p, plan) ==
    Amend(p, "subscription", 1, LAMBDA b : TRUE, LAMBDA b : [b EXCEPT !.plan = plan])

\* A charge, or its redelivery: the period is counted from now each time.
ApplyPaystackWebhookEvent(p, plan) ==
    Amend(p, "subscription", 1, LAMBDA b : TRUE, LAMBDA b : TenantSubscription("active", plan))

GrantSubscription(p, plan) == ApplyPaystackWebhookEvent(p, plan)

\* The trial's end says nothing about a subscription that is active and lapsed.
ExtendTrial(p) ==
    Amend(p, "subscription", 1, LAMBDA b : TRUE,
          LAMBDA b : IF b.status = "active" THEN b ELSE TenantSubscription("trialing", b.plan))

BillingRoutes(p) ==
    \E plan \in DOMAIN SeatLimits : ChangePlan(p, plan) \/ ApplyPaystackWebhookEvent(p, plan)

-----------------------------------------------------------------------------
(* Members, invitations and roles *)

Members(s) == {u \in DOMAIN s.user : s.user[u].status # "removed"}

Pending(s) == {k \in DOMAIN s.invite : s.invite[k].status = "pending"}

\* count_seats_in_use: a pending invitation holds a seat, an expired one too.
SeatsInUse(s) ==
    Cardinality({u \in DOMAIN s.user : s.user[u].status = "active"}) + Cardinality(Pending(s))

SeatFree(s) == SeatsInUse(s) < SeatLimit(s)

CreateInvitation(p, e, r) ==
    LET s == Seen(p)
    IN /\ r \in DOMAIN s.role /\ s.role[r].status = "kept"
       /\ \A u \in Members(s) : s.user[u].email # e
       /\ \A k \in Pending(s) : s.invite[k].email # e
       /\ SeatFree(s)
       /\ Create(p, "invite", Invitation(e, r))

ResendInvitation(p, k) ==
    Amend(p, "invite", k, LAMBDA i : i.status = "pending",
          LAMBDA i : [i EXCEPT !.token = 3 - @, !.expired = FALSE])

CancelInvitation(p, k) == Turn(p, "invite", k, {"pending"}, "cancelled")

\* The link must be the last one sent.  The address may have been taken since
\* by another tenant: the index refuses the row and nothing is kept.
AcceptInvitation(p, k, token) ==
    LET s == Seen(p)
        u == Len(s.user) + 1
        joined == [s EXCEPT !.user = Append(@, User(s.invite[k].email, s.invite[k].role)),
                            !.index[s.invite[k].email].user = u,
                            !.invite[k].status = "accepted"]
    IN /\ Serving(p) /\ Room("user") /\ Room("session")
       /\ k \in Pending(s)
       /\ s.invite[k].token = token /\ ~ s.invite[k].expired
       /\ \A m \in Members(db) : db.user[m].email # s.invite[k].email
       /\ db.index[s.invite[k].email].user = Nobody
       /\ Commit(p, [joined EXCEPT !.session = NewSession(joined, u, 1)])

InvitationRoutes(p) ==
    \/ \E e \in Emails, r \in 1..MaxRows.role : CreateInvitation(p, e, r)
    \/ \E k \in 1..MaxRows.invite :
         \/ ResendInvitation(p, k)
         \/ CancelInvitation(p, k)

\* uq_users_tenant_email_active
EmailFree(s, u) == \A m \in Members(s) \ {u} : s.user[m].email # s.user[u].email

\* Also of a removed member.
SuspendUser(p, u) ==
    Amend(p, "user", u, LAMBDA m : EmailFree(db, u), LAMBDA m : [m EXCEPT !.status = "suspended"])

\* Mutant: coming back takes no seat.
ReactivateUser_free(p, u) ==
    Amend(p, "user", u, LAMBDA m : EmailFree(db, u), LAMBDA m : [m EXCEPT !.status = "active"])

ReactivateUser(p, u) ==
    /\ SeatFree(Seen(p))
    /\ Amend(p, "user", u, LAMBDA m : EmailFree(db, u), LAMBDA m : [m EXCEPT !.status = "active"])

RemoveUser(p, u) ==
    /\ Serving(p)
    /\ u \in Rows(p, "user")
    /\ Commit(p, [Seen(p) EXCEPT
         !.user[u].status = "removed",
         !.index = [e \in Emails |-> IF @[e].user = u THEN [user |-> Nobody] ELSE @[e]]])

ChangeUserRole(p, u, r) ==
    /\ r \in Rows(p, "role") /\ Row(p, "role", r).status = "kept"
    /\ Amend(p, "user", u, LAMBDA m : TRUE, LAMBDA m : [m EXCEPT !.role = r])

\* A caller grants no permission it does not hold.
CreateRole(p, name, all, callerHasAll) ==
    /\ all => callerHasAll
    /\ \A r \in Rows(p, "role") : Row(p, "role", r).status = "kept" => Row(p, "role", r).name # name
    /\ Create(p, "role", Role(name, all))

\* Renaming does not look for another role of the name.
UpdateRole(p, r, name, all, callerHasAll) ==
    /\ all => callerHasAll
    /\ Amend(p, "role", r, LAMBDA o : o.status = "kept", LAMBDA o : [o EXCEPT !.name = name, !.all = all])

\* Rows of removed members and past invitations still point at the role: the
\* foreign keys refuse what the two counts let through.
DeleteRole(p, r) ==
    /\ \A u \in Rows(p, "user") : Row(p, "user", u).role # r
    /\ \A k \in Rows(p, "invite") : Row(p, "invite", k).role # r
    /\ Turn(p, "role", r, {"kept"}, "deleted")

CreateCompany(p) == Create(p, "office", [currency |-> "NGN"])

MemberRoutes(p) ==
    \/ InvitationRoutes(p)
    \/ \E u \in 1..MaxRows.user :
         \/ SuspendUser(p, u)
         \/ ReactivateUser(p, u)
         \/ RemoveUser(p, u)

RoleRoutes(p) ==
    \/ \E name \in {"Buyer", "Clerk"}, all, callerHasAll \in BOOLEAN :
         \/ CreateRole(p, name, all, callerHasAll)
         \/ \E r \in 1..MaxRows.role : UpdateRole(p, r, name, all, callerHasAll)
    \/ \E r \in 1..MaxRows.role : DeleteRole(p, r)
    \/ \E r \in 1..MaxRows.role, u \in 1..MaxRows.user : ChangeUserRole(p, u, r)

-----------------------------------------------------------------------------
(* Sessions and passwords *)

\* check_pwd_ts_claim
ClaimHolds(s, k) == s.session[k].pwd_ts = s.user[s.session[k].user].changedAt

\* authenticate_user
Login(p, e) ==
    LET s == Seen(p)
        u == s.index[e].user
    IN /\ Serving(p) /\ Room("session")
       /\ u \in DOMAIN s.user
       /\ s.user[u].status = "active"
       /\ ~ s.tenant[1].suspended
       /\ Commit(p, [s EXCEPT !.session = NewSession(s, u, s.user[u].password)])

RefreshAs(p, k) ==
    LET s == Seen(p)
        old == s.session[k]
        kept == [s EXCEPT !.session[k].status = "revoked"]
    IN /\ Serving(p) /\ Room("session")
       /\ k \in DOMAIN s.session
       /\ old.status = "live"
       /\ Commit(p, [kept EXCEPT !.session = NewSession(kept, old.user, old.under)])

\* Mutant: the claims are rebuilt without comparing the old ones.
Refresh_unchecked(p, k) == RefreshAs(p, k)

\* Neither the member's status nor the tenant's suspension is looked at.
Refresh(p, k) == k \in Rows(p, "session") /\ ClaimHolds(Seen(p), k) /\ RefreshAs(p, k)

Logout(p, k) == Turn(p, "session", k, {"live"}, "revoked")

RequestPasswordReset(p, e) ==
    LET s == Seen(p)
        u == s.index[e].user
    IN /\ u \in DOMAIN s.user
       /\ s.user[u].status = "active"
       /\ Create(p, "resettoken", PasswordResetToken(u))

WithNewPassword(m) == [m EXCEPT !.password = @ + 1, !.changedAt = m.password + 1]

\* The user's other unused tokens stay good.
ResetPassword(p, t) ==
    LET s == Seen(p)
    IN /\ Serving(p)
       /\ t \in DOMAIN s.resettoken
       /\ s.resettoken[t].status = "unused" /\ ~ s.resettoken[t].expired
       /\ s.user[s.resettoken[t].user].password < MaxPasswords
       /\ Commit(p, [s EXCEPT !.user[s.resettoken[t].user] = WithNewPassword(@),
                              !.resettoken[t].status = "used"])

ChangePassword(p, k) ==
    /\ k \in Rows(p, "session") /\ ClaimHolds(Seen(p), k) /\ TenantActive(Seen(p))
    /\ Amend(p, "user", Row(p, "session", k).user,
             LAMBDA m : m.password < MaxPasswords, LAMBDA m : WithNewPassword(m))

AuthRoutes(p) ==
    \/ \E e \in Emails : Login(p, e) \/ RequestPasswordReset(p, e)
    \/ \E k \in 1..MaxRows.session : Refresh(p, k) \/ Logout(p, k) \/ ChangePassword(p, k)
    \/ \E t \in 1..MaxRows.resettoken : ResetPassword(p, t)

\* Nobody is logged in yet.
JoinRoutes(p) ==
    \/ \E k \in 1..MaxRows.invite, token \in {1, 2} : AcceptInvitation(p, k, token)
    \/ \E e \in Emails : SignupTenant(p, e)

-----------------------------------------------------------------------------
(* Platform administration, and time *)

SetSuspension(p, suspended) ==
    Amend(p, "tenant", 1, LAMBDA t : TRUE, LAMBDA t : [suspended |-> suspended])

CreatePlatformAdmin(p, e) ==
    /\ \A k \in Rows(p, "platformadmin") : Row(p, "platformadmin", k).email # e
    /\ Create(p, "platformadmin", [email |-> e])

PlatformRoutes(p) ==
    \/ \E b \in BOOLEAN : SetSuspension(p, b)
    \/ \E plan \in DOMAIN SeatLimits : GrantSubscription(p, plan)
    \/ ExtendTrial(p)
    \/ \E e \in Emails : CreatePlatformAdmin(p, e)

\* Expiry is compared with the clock whenever a row is used.
TimePasses ==
    /\ \/ \E k \in Pending(db) : db' = [db EXCEPT !.invite[k].expired = TRUE]
       \/ \E t \in DOMAIN db.resettoken : db' = [db EXCEPT !.resettoken[t].expired = TRUE]
       \/ db' = [db EXCEPT !.subscription[1].ended = TRUE]
    /\ UNCHANGED <<req, past>>

\* set_tenant_context lets a lapsed tenant reach the billing routes alone.
MembershipNext(p) ==
    \/ TenantActive(Seen(p)) /\ MemberRoutes(p)
    \/ JoinRoutes(p)
    \/ \E plan \in DOMAIN SeatLimits : ChangePlan(p, plan)
    \/ TimePasses

RoleNext(p) ==
    /\ TenantActive(Seen(p))
    /\ RoleRoutes(p) \/ JoinRoutes(p) \/ \E e \in Emails, r \in 1..MaxRows.role : CreateInvitation(p, e, r)

TenantNext(p) ==
    \/ TenantActive(Seen(p)) /\ CreateCompany(p)
    \/ BillingRoutes(p)
    \/ PlatformRoutes(p)
    \/ TimePasses

SessionNext(p) ==
    \/ AuthRoutes(p)
    \/ \E u \in Rows(p, "user") : SuspendUser(p, u) \/ ReactivateUser(p, u)
    \/ \E b \in BOOLEAN : SetSuspension(p, b)
    \/ TimePasses

-----------------------------------------------------------------------------
(* Properties *)

AccountsTypeOK ==
    /\ \A u \in DOMAIN db.user :
         /\ db.user[u].status \in {"active", "suspended", "removed"}
         /\ db.user[u].role \in DOMAIN db.role
    /\ \A e \in Emails : db.index[e].user \in DOMAIN db.user \cup {Nobody, Elsewhere}
    /\ \A k \in DOMAIN db.session : db.session[k].user \in DOMAIN db.user
    /\ db.subscription[1].status \in {"trialing", "active"}

\* Members are added and reactivated only into seats the plan has: an accepted
\* invitation takes the seat it held, and a smaller plan evicts nobody
\* (count_seats_in_use).  Holds while requests do not overlap.
SeatsGrowWithinLimit ==
    [][SeatsInUse(db') > SeatsInUse(db) => SeatsInUse(db') <= SeatLimit(db')]_db

\* The address index never names somebody who was removed, nor a member under
\* another address, and no two members share one: removing a member frees the
\* address for an invitation, and bringing the member back does not collide with
\* whoever took it (remove_user, accept_invitation, reactivate_user).
IndexNamesMembers ==
    /\ \A e \in Emails :
         db.index[e].user \in DOMAIN db.user =>
            db.index[e].user \in Members(db) /\ db.user[db.index[e].user].email = e
    /\ \A u, m \in Members(db) : db.user[u].email = db.user[m].email => u = m

\* A session whose claim is still accepted goes back, through any number of
\* refreshes, to a login with the member's present password.
SessionsEndWithPassword ==
    \A k \in DOMAIN db.session :
        ClaimHolds(db, k) => db.session[k].under = db.user[db.session[k].user].password
=============================================================================
