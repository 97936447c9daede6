-------------------------- MODULE Documents_proofs --------------------------
(***************************************************************************)
(* What purchase orders, receipt notes, banking details and fuel records   *)
(* say of each other, while requests do not overlap.                       *)
(***************************************************************************)
EXTENDS Materials_proofs

-----------------------------------------------------------------------------
(* Orders and their approval steps *)

\* An order is approved when all of its steps are and cancelled when one is
\* rejected; the steps are decided in their order, none after a rejected one.
OrdersSound(s) ==
    /\ \A o \in DOMAIN s.po : s.po[o].status \in {"approved", "issued"} =>
         /\ \E k \in DOMAIN s.postep : s.postep[k].po = o
         /\ \A k \in DOMAIN s.postep : s.postep[k].po = o => s.postep[k].status = "approved"
    /\ \A o \in DOMAIN s.po : s.po[o].status = "cancelled" <=>
         \E k \in DOMAIN s.postep : s.postep[k].po = o /\ s.postep[k].status = "rejected"
    /\ \A j, k \in DOMAIN s.postep : j # k /\ s.postep[j].po = s.postep[k].po =>
         /\ s.postep[j].order # s.postep[k].order
         /\ s.postep[j].order < s.postep[k].order /\ s.postep[k].status # "pending" =>
                s.postep[j].status = "approved"

\* The invariant says what the property says.
LEMMA OrdersFollow ==
    ASSUME OrdersSound(db)
    PROVE  PoStatusFollowsSteps
  BY DEF OrdersSound, PoStatusFollowsSteps, StepsOf

\* A new order has no steps.
LEMMA OrdersAfterOrder ==
    ASSUME ~ Concurrent, PurchasesTyped(db), OrdersSound(db), NEW p, NEW v, NEW n \in Quantities,
           NEW lines \in OrderLines, CreatePurchaseOrder(p, v, n, lines)
    PROVE  OrdersSound(db')
<1> DEFINE row == PurchaseOrder(v, n)
           o == Len(db.po) + 1
<1>1. db'.po = Append(db.po, row) /\ db'["postep"] = db["postep"]
  BY OrderTyped DEF PurchasesTyped, PurchaseTables
<1>2. /\ db'.po \in Seq(PoRows) /\ DOMAIN db'.po = DOMAIN db.po \cup {o}
      /\ db'.po[o] = row /\ \A k \in DOMAIN db.po : db'.po[k] = db.po[k]
      /\ o \notin DOMAIN db.po
  <2>1. PurchasesTyped(db')
    BY OrderTyped
  <2>2. db.po \in Seq(PoRows) /\ db'.po \in Seq(PoRows)
    BY <2>1 DEF PurchasesTyped
  <2>3. row \in PoRows
    <3>1. Append(db.po, row) \in Seq(PoRows) /\ Len(db.po) \in Nat
      BY <1>1, <2>2, TableRows
    <3> HIDE DEF row
    <3>2. Append(db.po, row)[Len(db.po) + 1] = row /\ Len(db.po) + 1 \in DOMAIN Append(db.po, row)
      BY <2>2, <3>1
    <3>3. QED
      BY <3>1, <3>2, TableRows
  <2> HIDE DEF row
  <2>4. QED
    BY <1>1, <2>2, <2>3, TableInsert, TableRows
<1>3. row.status = "draft"
  BY DEF PurchaseOrder
<1>4. \A k \in DOMAIN db.postep : db.postep[k].po # o
  BY <1>2 DEF PurchasesTyped
<1> HIDE DEF row, o
<1>5. QED
  BY <1>1, <1>2, <1>3, <1>4 DEF OrdersSound

\* An order without steps gets some, all pending.
LEMMA OrdersAfterInitiation ==
    ASSUME ~ Concurrent, PurchasesTyped(db), OrdersSound(db), NEW p, NEW o, NEW n \in Nat,
           InitiatePoApproval(p, o, n)
    PROVE  OrdersSound(db')
<1> DEFINE new == [i \in 1..n |-> POApprovalStep(o, i)]
           row == [db.po[o] EXCEPT !.status = "pending_approval"]
<1>1. /\ o \in DOMAIN db.po /\ StepsOf(db, o) = {}
      /\ db'.po = [db.po EXCEPT ![o] = row]
      /\ db'.postep = db.postep \o new
  <2>1. /\ PurchasesTyped(db')
        /\ o \in DOMAIN db.po /\ n > 0 /\ StepsOf(db, o) = {}
        /\ db'.po = [db.po EXCEPT ![o] = [db.po[o] EXCEPT !.status = "pending_approval"]]
        /\ db'.postep = db.postep \o [i \in 1..n |-> POApprovalStep(o, i)]
        /\ \A t \in DOMAIN db \ {"po", "postep"} : db'[t] = db[t]
    BY ApprovalInitiated, Zenon
  <2>2. QED
    BY <2>1
<1>2. \A k \in DOMAIN db.postep : db.postep[k].po # o
  BY <1>1 DEF StepsOf
<1>3. row.status = "pending_approval"
  <2>1. db.po[o] \in PoRows
    BY <1>1, TableRows DEF PurchasesTyped
  <2>2. QED
    BY <2>1 DEF PoRows
<1>4. DOMAIN db'.po = DOMAIN db.po /\ db'.po[o] = row /\ \A m \in DOMAIN db.po \ {o} : db'.po[m] = db.po[m]
  <2> HIDE DEF row
  <2>1. QED
    BY <1>1
<1>5. /\ DOMAIN new = 1..n /\ new \in Seq(PoStepRows) /\ Len(new) = n
      /\ \A i \in 1..n : new[i].po = o /\ new[i].order = i /\ new[i].status = "pending"
  <2>1. o \in Nat
    BY <1>1, TableRows DEF PurchasesTyped
  <2>2. \A i \in 1..n : POApprovalStep(o, i) \in PoStepRows
    BY <2>1 DEF POApprovalStep, PoStepRows
  <2>3. QED
    BY <2>2 DEF POApprovalStep
<1> HIDE DEF new, row
<1>6. /\ Len(db.postep) \in Nat
      /\ DOMAIN db.postep = 1..Len(db.postep)
      /\ DOMAIN db'.postep = 1..(Len(db.postep) + n)
      /\ \A k \in DOMAIN db.postep : db'.postep[k] = db.postep[k]
      /\ \A k \in 1..n : db'.postep[Len(db.postep) + k] = new[k]
  <2>1. db'.postep = db.postep \o new /\ db.postep \in Seq(PoStepRows) /\ new \in Seq(PoStepRows)
    BY <1>1, <1>5 DEF PurchasesTyped
  <2>2. /\ DOMAIN db'.postep = 1..(Len(db.postep) + Len(new))
        /\ \A k \in DOMAIN db.postep : db'.postep[k] = db.postep[k]
        /\ \A k \in 1..Len(new) : db'.postep[Len(db.postep) + k] = new[k]
    BY <2>1, TableInserts
  <2>3. Len(db.postep) \in Nat /\ DOMAIN db.postep = 1..Len(db.postep)
    BY <2>1, TableRows
  <2>4. Len(new) = n
    BY <1>5
  <2>5. QED
    BY <2>2, <2>3, <2>4
<1>7. \A k \in DOMAIN db'.postep \ DOMAIN db.postep :
        /\ db'.postep[k].po = o /\ db'.postep[k].status = "pending"
        /\ db'.postep[k].order = k - Len(db.postep)
  <2> SUFFICES ASSUME NEW k \in DOMAIN db'.postep \ DOMAIN db.postep
               PROVE  /\ db'.postep[k].po = o /\ db'.postep[k].status = "pending"
                      /\ db'.postep[k].order = k - Len(db.postep)
    OBVIOUS
  <2>1. k - Len(db.postep) \in 1..n /\ k = Len(db.postep) + (k - Len(db.postep))
    BY <1>6
  <2>2. db'.postep[k] = new[k - Len(db.postep)]
    BY <1>6, <2>1
  <2>3. QED
    BY <1>5, <2>1, <2>2
<1>8. DOMAIN db.postep \subseteq DOMAIN db'.postep
  BY <1>6
<1>9. \A m \in DOMAIN db'.po : db'.po[m].status \in {"approved", "issued"} =>
         /\ \E k \in DOMAIN db'.postep : db'.postep[k].po = m
         /\ \A k \in DOMAIN db'.postep : db'.postep[k].po = m => db'.postep[k].status = "approved"
  <2> SUFFICES ASSUME NEW m \in DOMAIN db'.po, db'.po[m].status \in {"approved", "issued"}
               PROVE  /\ \E k \in DOMAIN db'.postep : db'.postep[k].po = m
                      /\ \A k \in DOMAIN db'.postep : db'.postep[k].po = m => db'.postep[k].status = "approved"
    OBVIOUS
  <2>1. m # o
    BY <1>3, <1>4
  <2>2. m \in DOMAIN db.po /\ db.po[m].status \in {"approved", "issued"}
    BY <1>4, <2>1
  <2>3. /\ \E k \in DOMAIN db.postep : db.postep[k].po = m
        /\ \A k \in DOMAIN db.postep : db.postep[k].po = m => db.postep[k].status = "approved"
    BY <2>2 DEF OrdersSound
  <2>4. QED
    BY <1>6, <1>7, <1>8, <2>1, <2>3
<1>10. \A m \in DOMAIN db'.po : db'.po[m].status = "cancelled" <=>
         \E k \in DOMAIN db'.postep : db'.postep[k].po = m /\ db'.postep[k].status = "rejected"
  <2>1. ASSUME NEW m \in DOMAIN db.po, m # o
        PROVE  db'.po[m].status = "cancelled" <=>
                 \E k \in DOMAIN db'.postep : db'.postep[k].po = m /\ db'.postep[k].status = "rejected"
    <3>1. db.po[m].status = "cancelled" <=>
            \E k \in DOMAIN db.postep : db.postep[k].po = m /\ db.postep[k].status = "rejected"
      BY DEF OrdersSound
    <3>2. db'.po[m] = db.po[m]
      BY <1>4, <2>1
    <3>3. (\E k \in DOMAIN db'.postep : db'.postep[k].po = m /\ db'.postep[k].status = "rejected") =>
            \E k \in DOMAIN db.postep : db.postep[k].po = m /\ db.postep[k].status = "rejected"
      BY <1>6, <1>7, <2>1
    <3>4. (\E k \in DOMAIN db.postep : db.postep[k].po = m /\ db.postep[k].status = "rejected") =>
            \E k \in DOMAIN db'.postep : db'.postep[k].po = m /\ db'.postep[k].status = "rejected"
      BY <1>6, <1>8
    <3>5. QED
      BY <3>1, <3>2, <3>3, <3>4
  <2>2. db'.po[o].status # "cancelled"
    BY <1>3, <1>4
  <2>3. \A k \in DOMAIN db'.postep : db'.postep[k].po = o => db'.postep[k].status = "pending"
    BY <1>2, <1>6, <1>7
  <2>4. QED
    BY <1>4, <2>1, <2>2, <2>3
<1>11. \A j, k \in DOMAIN db'.postep : j # k /\ db'.postep[j].po = db'.postep[k].po =>
         /\ db'.postep[j].order # db'.postep[k].order
         /\ db'.postep[j].order < db'.postep[k].order /\ db'.postep[k].status # "pending" =>
                db'.postep[j].status = "approved"
  <2> SUFFICES ASSUME NEW j \in DOMAIN db'.postep, NEW k \in DOMAIN db'.postep, j # k,
                      db'.postep[j].po = db'.postep[k].po
               PROVE  /\ db'.postep[j].order # db'.postep[k].order
                      /\ db'.postep[j].order < db'.postep[k].order /\ db'.postep[k].status # "pending" =>
                             db'.postep[j].status = "approved"
    OBVIOUS
  <2>1. CASE j \in DOMAIN db.postep /\ k \in DOMAIN db.postep
    <3>1. db'.postep[j] = db.postep[j] /\ db'.postep[k] = db.postep[k]
      BY <1>6, <2>1
    <3>2. db.postep[j].po = db.postep[k].po
      BY <3>1
    <3>3. /\ db.postep[j].order # db.postep[k].order
          /\ db.postep[j].order < db.postep[k].order /\ db.postep[k].status # "pending" =>
                 db.postep[j].status = "approved"
      BY <2>1, <3>2 DEF OrdersSound
    <3>4. QED
      BY <3>1, <3>3
  <2>2. CASE j \notin DOMAIN db.postep /\ k \notin DOMAIN db.postep
    <3>1. db'.postep[j].order = j - Len(db.postep) /\ db'.postep[k].order = k - Len(db.postep)
      BY <1>7, <2>2
    <3>2. db'.postep[k].status = "pending"
      BY <1>7, <2>2
    <3>3. j \in Int /\ k \in Int /\ Len(db.postep) \in Int
      BY <1>6
    <3>4. QED
      BY <3>1, <3>2, <3>3
  <2>3. j \in DOMAIN db.postep <=> k \in DOMAIN db.postep
    BY <1>2, <1>6, <1>7
  <2>4. QED
    BY <2>1, <2>2, <2>3
<1>12. QED
  BY <1>9, <1>10, <1>11 DEF OrdersSound

\* A step is decided.
LEMMA OrdersAfterDecision ==
    ASSUME ~ Concurrent, PurchasesTyped(db), OrdersSound(db), NEW p, NEW k, NEW d \in {"approved", "rejected"},
           DecidePoApprovalStep(p, k, d)
    PROVE  OrdersSound(db')
<1> DEFINE o == db.postep[k].po
           step == [db.postep[k] EXCEPT !.status = d]
           others == \E j \in StepsOf(db, o) \ {k} : db.postep[j].status = "pending"
           row == [db.po[o] EXCEPT !.status =
                     IF d = "rejected" THEN "cancelled" ELSE IF others THEN @ ELSE "approved"]
<1>1. /\ k \in DOMAIN db.postep /\ db.postep[k].status = "pending" /\ o \in DOMAIN db.po
      /\ db'.postep = [db.postep EXCEPT ![k] = step]
      /\ db'.po = [db.po EXCEPT ![o] = row]
  <2>1. /\ PurchasesTyped(db')
        /\ k \in DOMAIN db.postep /\ db.postep[k].status = "pending" /\ db.postep[k].po \in DOMAIN db.po
        /\ db'.postep = [db.postep EXCEPT ![k] = [db.postep[k] EXCEPT !.status = d]]
        /\ db'.po = [db.po EXCEPT ![db.postep[k].po] =
             [db.po[db.postep[k].po] EXCEPT !.status =
                 IF d = "rejected" THEN "cancelled"
                 ELSE IF \E j \in StepsOf(db, db.postep[k].po) \ {k} : db.postep[j].status = "pending" THEN @
                 ELSE "approved"]]
        /\ \A t \in DOMAIN db \ {"po", "postep"} : db'[t] = db[t]
    BY StepDecided, Zenon
  <2>2. QED
    BY <2>1
<1>2. \A j \in DOMAIN db.postep : db.postep[j].po = o /\ db.postep[j].order < db.postep[k].order =>
        db.postep[j].status = "approved"
  <2>1. EarlierApproved(db, k)
    BY SerialRows DEF DecidePoApprovalStep
  <2>2. QED
    BY <2>1 DEF EarlierApproved, StepsOf
<1>3. \A j \in DOMAIN db.postep : db.postep[j] \in PoStepRows
  BY TableRows DEF PurchasesTyped
<1>4. step.status = d /\ step.po = o /\ step.order = db.postep[k].order
  BY <1>1, <1>3 DEF PoStepRows
<1>5. /\ db.po[o].status \in {"draft", "pending_approval", "approved", "issued", "cancelled"}
      /\ row.status = IF d = "rejected" THEN "cancelled" ELSE IF others THEN db.po[o].status ELSE "approved"
  <2>1. db.po[o] \in PoRows
    BY <1>1, TableRows DEF PurchasesTyped
  <2> HIDE DEF o, others
  <2>2. QED
    BY <2>1 DEF PoRows
<1>6. /\ DOMAIN db'.postep = DOMAIN db.postep /\ DOMAIN db'.po = DOMAIN db.po
      /\ db'.postep[k] = step /\ \A j \in DOMAIN db.postep \ {k} : db'.postep[j] = db.postep[j]
      /\ db'.po[o] = row /\ \A m \in DOMAIN db.po \ {o} : db'.po[m] = db.po[m]
  <2> HIDE DEF step, row, o
  <2>1. QED
    BY <1>1
<1>7. others <=> \E j \in DOMAIN db.postep \ {k} : db.postep[j].po = o /\ db.postep[j].status = "pending"
  BY DEF StepsOf
<1>8. o = db.postep[k].po
  OBVIOUS
<1> HIDE DEF step, row, o, others
<1>9. \A j \in DOMAIN db.postep \ {k} : db.postep[j].po = o =>
        /\ db.postep[j].order # db.postep[k].order
        /\ db.postep[k].order < db.postep[j].order => db.postep[j].status = "pending"
  BY <1>1, <1>8 DEF OrdersSound
<1>10. \A j \in DOMAIN db.postep : db.postep[j].po = o => db.postep[j].status \in {"approved", "pending"}
  <2> SUFFICES ASSUME NEW j \in DOMAIN db.postep, db.postep[j].po = o
               PROVE  db.postep[j].status \in {"approved", "pending"}
    OBVIOUS
  <2>1. db.postep[j].order \in Nat /\ db.postep[k].order \in Nat
    BY <1>1, <1>3 DEF PoStepRows
  <2>2. QED
    BY <1>1, <1>2, <1>9, <2>1
<1>11. db.po[o].status \in {"draft", "pending_approval"}
  BY <1>1, <1>5, <1>8, <1>10 DEF OrdersSound
<1>12. \A m \in DOMAIN db'.po : db'.po[m].status \in {"approved", "issued"} =>
         /\ \E j \in DOMAIN db'.postep : db'.postep[j].po = m
         /\ \A j \in DOMAIN db'.postep : db'.postep[j].po = m => db'.postep[j].status = "approved"
  <2>1. ASSUME NEW m \in DOMAIN db.po, m # o, db'.po[m].status \in {"approved", "issued"}
        PROVE  /\ \E j \in DOMAIN db'.postep : db'.postep[j].po = m
               /\ \A j \in DOMAIN db'.postep : db'.postep[j].po = m => db'.postep[j].status = "approved"
    <3>1. /\ \E j \in DOMAIN db.postep : db.postep[j].po = m
          /\ \A j \in DOMAIN db.postep : db.postep[j].po = m => db.postep[j].status = "approved"
      BY <1>6, <2>1 DEF OrdersSound
    <3>2. QED
      BY <1>1, <1>4, <1>6, <1>8, <2>1, <3>1
  <2>2. ASSUME db'.po[o].status \in {"approved", "issued"}
        PROVE  /\ \E j \in DOMAIN db'.postep : db'.postep[j].po = o
               /\ \A j \in DOMAIN db'.postep : db'.postep[j].po = o => db'.postep[j].status = "approved"
    <3>1. d = "approved" /\ ~ others
      BY <1>5, <1>6, <1>11, <2>2
    <3>2. QED
      BY <1>1, <1>4, <1>6, <1>7, <1>10, <3>1
  <2>3. QED
    BY <1>6, <2>1, <2>2
<1>13. \A m \in DOMAIN db'.po : db'.po[m].status = "cancelled" <=>
         \E j \in DOMAIN db'.postep : db'.postep[j].po = m /\ db'.postep[j].status = "rejected"
  <2>1. ASSUME NEW m \in DOMAIN db.po, m # o
        PROVE  db'.po[m].status = "cancelled" <=>
                 \E j \in DOMAIN db'.postep : db'.postep[j].po = m /\ db'.postep[j].status = "rejected"
    <3>1. db.po[m].status = "cancelled" <=>
            \E j \in DOMAIN db.postep : db.postep[j].po = m /\ db.postep[j].status = "rejected"
      BY DEF OrdersSound
    <3>2. QED
      BY <1>1, <1>4, <1>6, <1>8, <2>1, <3>1
  <2>2. CASE d = "rejected"
    <3>1. db'.po[o].status = "cancelled" /\ db'.postep[k].po = o /\ db'.postep[k].status = "rejected"
      BY <1>4, <1>5, <1>6, <2>2
    <3>2. QED
      BY <1>1, <1>6, <2>1, <3>1
  <2>3. CASE d = "approved"
    <3>1. db'.po[o].status # "cancelled"
      BY <1>5, <1>6, <1>11, <2>3
    <3>2. \A j \in DOMAIN db'.postep : db'.postep[j].po = o => db'.postep[j].status # "rejected"
      BY <1>4, <1>6, <1>10, <2>3
    <3>3. QED
      BY <1>6, <2>1, <3>1, <3>2
  <2>4. QED
    BY <2>2, <2>3
<1>14. \A i, j \in DOMAIN db'.postep : i # j /\ db'.postep[i].po = db'.postep[j].po =>
         /\ db'.postep[i].order # db'.postep[j].order
         /\ db'.postep[i].order < db'.postep[j].order /\ db'.postep[j].status # "pending" =>
                db'.postep[i].status = "approved"
  <2> SUFFICES ASSUME NEW i \in DOMAIN db.postep, NEW j \in DOMAIN db.postep, i # j,
                      db'.postep[i].po = db'.postep[j].po
               PROVE  /\ db'.postep[i].order # db'.postep[j].order
                      /\ db'.postep[i].order < db'.postep[j].order /\ db'.postep[j].status # "pending" =>
                             db'.postep[i].status = "approved"
    BY <1>6
  <2>1. CASE i # k /\ j # k
    BY <1>6, <2>1 DEF OrdersSound
  <2>2. CASE j = k
    BY <1>2, <1>4, <1>6, <1>9, <2>2
  <2>3. CASE i = k
    <3>1. db.postep[j].po = o /\ db'.postep[j] = db.postep[j] /\ j # k
      BY <1>4, <1>6, <2>3
    <3>2. QED
      BY <1>4, <1>6, <1>9, <2>3, <3>1
  <2>4. QED
    BY <2>1, <2>2, <2>3
<1>15. QED
  BY <1>12, <1>13, <1>14 DEF OrdersSound

\* An approved order is issued.
LEMMA OrdersAfterIssue ==
    ASSUME ~ Concurrent, PurchasesTyped(db), OrdersSound(db), NEW p, NEW o, NEW waiver \in BOOLEAN,
           IssuePurchaseOrder(p, o, waiver)
    PROVE  OrdersSound(db')
<1>1. PICK row \in PoRows : row.status = "issued" /\ db'.po = [db.po EXCEPT ![o] = row]
  <2>1. /\ PurchasesTyped(db')
        /\ o \in DOMAIN db.po /\ db.po[o].status = "approved"
        /\ \E row \in PoRows : row.status = "issued" /\ db'.po = [db.po EXCEPT ![o] = row]
        /\ \A t \in DOMAIN db \ {"po"} : db'[t] = db[t]
    BY OrderIssued, Zenon
  <2>2. QED
    BY <2>1
<1>2. o \in DOMAIN db.po /\ db.po[o].status = "approved"
  BY OrderIssued
<1>3. db'["postep"] = db["postep"]
  BY OrderIssued DEF PurchasesTyped, PurchaseTables
<1>4. DOMAIN db'.po = DOMAIN db.po /\ db'.po[o] = row /\ \A m \in DOMAIN db.po \ {o} : db'.po[m] = db.po[m]
  BY <1>1, <1>2
<1>5. QED
  BY <1>1, <1>2, <1>3, <1>4 DEF OrdersSound

-----------------------------------------------------------------------------
(* Vendors and their banking details *)

ApprovedChanges(s, v) ==
    {k \in DOMAIN s.bankchange : s.bankchange[k].vendor = v /\ s.bankchange[k].status = "approved"}

\* What a vendor is paid under, change by change.
BankSound(s) ==
    \A v \in DOMAIN s.vendor :
        s.vendor[v].bank + SumOf(s.bankchange, "previous", ApprovedChanges(s, v))
            = SumOf(s.bankchange, "proposed", ApprovedChanges(s, v))

\* The invariant says what the property says.
LEMMA DetailsFollow ==
    ASSUME BankSound(db)
    PROVE  BankDetailsAreApproved
  BY DEF BankSound, ApprovedChanges, BankDetailsAreApproved

\* The same changes sum up to the same.
LEMMA SameChanges ==
    ASSUME PurchasesTyped(db), NEW v, DOMAIN db.bankchange \subseteq DOMAIN db'.bankchange,
           ApprovedChanges(db', v) = ApprovedChanges(db, v),
           \A k \in ApprovedChanges(db, v) : db'.bankchange[k] = db.bankchange[k]
    PROVE  /\ SumOf(db'.bankchange, "previous", ApprovedChanges(db', v))
                = SumOf(db.bankchange, "previous", ApprovedChanges(db, v))
           /\ SumOf(db'.bankchange, "proposed", ApprovedChanges(db', v))
                = SumOf(db.bankchange, "proposed", ApprovedChanges(db, v))
<1> DEFINE S == ApprovedChanges(db, v)
<1>1. S \subseteq DOMAIN db.bankchange /\ S \subseteq DOMAIN db'.bankchange /\ IsFiniteSet(S)
  <2>1. S \subseteq DOMAIN db.bankchange
    BY DEF ApprovedChanges
  <2>2. IsFiniteSet(DOMAIN db.bankchange)
    BY TableRows DEF PurchasesTyped
  <2>3. QED
    BY <2>1, <2>2, FS_Subset
<1>2. \A k \in S : /\ db'.bankchange[k]["previous"] = db.bankchange[k]["previous"]
                   /\ db'.bankchange[k]["proposed"] = db.bankchange[k]["proposed"]
  OBVIOUS
<1>3. ApprovedChanges(db', v) = S
  OBVIOUS
<1> HIDE DEF S
<1>4. SumOf(db'.bankchange, "previous", S) = SumOf(db.bankchange, "previous", S)
  BY <1>1, <1>2, SumOfSameRows
<1>5. SumOf(db'.bankchange, "proposed", S) = SumOf(db.bankchange, "proposed", S)
  BY <1>1, <1>2, SumOfSameRows
<1>6. QED
  BY <1>3, <1>4, <1>5 DEF S

\* A vendor registers: it is paid under what it registered with.
LEMMA DetailsAfterVendor ==
    ASSUME ~ Concurrent, MaterialsSound, BankSound(db), NEW p \in Workers, CreateVendor(p)
    PROVE  BankSound(db')
<1>1. /\ Keeps({"vendor"}) /\ db'.vendor = Append(db.vendor, Vendor)
      /\ PurchasesTyped(db) /\ db.vendor \in Seq(VendorRows)
  BY VendorStep DEF MaterialsSound, PurchasesTyped
<1>2. db'["bankchange"] = db["bankchange"]
  BY <1>1 DEF Keeps, PurchasesTyped, PurchaseTables
<1>3. Vendor \in VendorRows /\ Vendor.bank = 0
  BY DEF Vendor, VendorRows
<1>4. /\ DOMAIN db'.vendor = DOMAIN db.vendor \cup {Len(db.vendor) + 1}
      /\ db'.vendor[Len(db.vendor) + 1] = Vendor
      /\ \A v \in DOMAIN db.vendor : db'.vendor[v] = db.vendor[v]
      /\ Len(db.vendor) + 1 \notin DOMAIN db.vendor
  BY <1>1, <1>3, TableInsert, TableRows
<1>5. \A v : ApprovedChanges(db', v) = ApprovedChanges(db, v)
  BY <1>2 DEF ApprovedChanges
<1>6. ASSUME NEW v \in DOMAIN db.vendor
      PROVE  db'.vendor[v].bank + SumOf(db'.bankchange, "previous", ApprovedChanges(db', v))
               = SumOf(db'.bankchange, "proposed", ApprovedChanges(db', v))
  BY <1>2, <1>4, <1>5 DEF BankSound
<1>7. ASSUME NEW v, v = Len(db.vendor) + 1
      PROVE  db'.vendor[v].bank + SumOf(db'.bankchange, "previous", ApprovedChanges(db', v))
               = SumOf(db'.bankchange, "proposed", ApprovedChanges(db', v))
  <2>1. \A k \in DOMAIN db.bankchange : db.bankchange[k].vendor # v
    BY <1>1, <1>4, <1>7 DEF PurchasesTyped
  <2>2. ApprovedChanges(db, v) = {}
    BY <2>1 DEF ApprovedChanges
  <2>3. ApprovedChanges(db', v) = {}
    BY <1>5, <2>2
  <2>4. /\ SumOf(db'.bankchange, "previous", {}) = 0
        /\ SumOf(db'.bankchange, "proposed", {}) = 0
    BY SumOfNoRows
  <2>5. db'.vendor[v].bank = 0
    BY <1>3, <1>4, <1>7
  <2>6. QED
    BY <2>3, <2>4, <2>5
<1>8. QED
  BY <1>4, <1>6, <1>7 DEF BankSound

\* A change is asked for, decided on or neither.
LEMMA DetailsAfterChange ==
    ASSUME ~ Concurrent, MaterialsSound, BankSound(db), NEW p \in Workers, BankingChange(p)
    PROVE  BankSound(db')
<1>1. PurchasesTyped(db) /\ db.bankchange \in Seq(BankChangeRows) /\ db.vendor \in Seq(VendorRows)
  BY DEF MaterialsSound, PurchasesTyped
<1>2. ASSUME NEW v \in DOMAIN db.vendor, NEW n \in BankDetails, SubmitBankingChange(p, v, n)
      PROVE  BankSound(db')
  <2> DEFINE row == VendorBankingChangeRequest(v, n)
  <2>1. /\ db'.bankchange = Append(db.bankchange, row)
        /\ db'["vendor"] = db["vendor"]
    BY <1>1, <1>2, ChangeAsked DEF PurchasesTyped, PurchaseTables
  <2>2. row \in BankChangeRows /\ row.status = "pending"
    <3>1. v \in Nat /\ n \in Nat
      BY <1>1, TableRows, VendorPortalAssumption
    <3>2. QED
      BY <3>1 DEF VendorBankingChangeRequest, BankChangeRows
  <2> HIDE DEF row
  <2>3. /\ DOMAIN db'.bankchange = DOMAIN db.bankchange \cup {Len(db.bankchange) + 1}
        /\ db'.bankchange[Len(db.bankchange) + 1] = row
        /\ \A k \in DOMAIN db.bankchange : db'.bankchange[k] = db.bankchange[k]
        /\ Len(db.bankchange) + 1 \notin DOMAIN db.bankchange
    BY <1>1, <2>1, <2>2, TableInsert, TableRows
  <2>4. ASSUME NEW u \in DOMAIN db.vendor
        PROVE  db'.vendor[u].bank + SumOf(db'.bankchange, "previous", ApprovedChanges(db', u))
                 = SumOf(db'.bankchange, "proposed", ApprovedChanges(db', u))
    <3>1. ApprovedChanges(db', u) = ApprovedChanges(db, u)
      BY <2>2, <2>3 DEF ApprovedChanges
    <3>2. /\ DOMAIN db.bankchange \subseteq DOMAIN db'.bankchange
          /\ \A k \in ApprovedChanges(db, u) : db'.bankchange[k] = db.bankchange[k]
      BY <2>3 DEF ApprovedChanges
    <3>3. /\ SumOf(db'.bankchange, "previous", ApprovedChanges(db', u))
               = SumOf(db.bankchange, "previous", ApprovedChanges(db, u))
          /\ SumOf(db'.bankchange, "proposed", ApprovedChanges(db', u))
               = SumOf(db.bankchange, "proposed", ApprovedChanges(db, u))
      BY <1>1, <3>1, <3>2, SameChanges
    <3>4. QED
      BY <2>1, <3>3 DEF BankSound
  <2>5. QED
    BY <2>1, <2>4 DEF BankSound
<1>3. ASSUME NEW k, RejectBankingChange(p, k) PROVE BankSound(db')
  <2> DEFINE row == [db.bankchange[k] EXCEPT !.status = "rejected"]
  <2>1. /\ k \in DOMAIN db.bankchange /\ db.bankchange[k].status = "pending"
        /\ db'.bankchange = [db.bankchange EXCEPT ![k] = row]
        /\ db'["vendor"] = db["vendor"]
    BY <1>1, <1>3, ChangeRejected DEF PurchasesTyped, PurchaseTables
  <2>2. row.status = "rejected"
    <3>1. db.bankchange[k] \in BankChangeRows
      BY <1>1, <2>1, TableRows
    <3>2. QED
      BY <3>1 DEF BankChangeRows
  <2> HIDE DEF row
  <2>3. /\ DOMAIN db'.bankchange = DOMAIN db.bankchange /\ db'.bankchange[k] = row
        /\ \A j \in DOMAIN db.bankchange \ {k} : db'.bankchange[j] = db.bankchange[j]
    BY <2>1
  <2>4. ASSUME NEW u \in DOMAIN db.vendor
        PROVE  db'.vendor[u].bank + SumOf(db'.bankchange, "previous", ApprovedChanges(db', u))
                 = SumOf(db'.bankchange, "proposed", ApprovedChanges(db', u))
    <3>1. ApprovedChanges(db', u) = ApprovedChanges(db, u)
      BY <2>1, <2>2, <2>3 DEF ApprovedChanges
    <3>2. /\ DOMAIN db.bankchange \subseteq DOMAIN db'.bankchange
          /\ \A j \in ApprovedChanges(db, u) : db'.bankchange[j] = db.bankchange[j]
      BY <2>1, <2>3 DEF ApprovedChanges
    <3>3. /\ SumOf(db'.bankchange, "previous", ApprovedChanges(db', u))
               = SumOf(db.bankchange, "previous", ApprovedChanges(db, u))
          /\ SumOf(db'.bankchange, "proposed", ApprovedChanges(db', u))
               = SumOf(db.bankchange, "proposed", ApprovedChanges(db, u))
      BY <1>1, <3>1, <3>2, SameChanges
    <3>4. QED
      BY <2>1, <3>3 DEF BankSound
  <2>5. QED
    BY <2>1, <2>4 DEF BankSound
<1>4. ASSUME NEW k, ApproveBankingChange(p, k) PROVE BankSound(db')
  <2> DEFINE c == db.bankchange[k]
             v == c.vendor
             row == [c EXCEPT !.status = "approved", !.previous = db.vendor[v].bank]
             paid == [db.vendor[v] EXCEPT !.bank = c.proposed]
  <2>1. /\ k \in DOMAIN db.bankchange /\ c.status = "pending"
        /\ db'.bankchange = [db.bankchange EXCEPT ![k] = row]
        /\ db'.vendor = [db.vendor EXCEPT ![v] = paid]
    BY <1>1, <1>4, ChangeApproved
  <2>2. c \in BankChangeRows /\ v \in DOMAIN db.vendor
    BY <1>1, <2>1, TableRows DEF PurchasesTyped
  <2>3. db.vendor[v] \in VendorRows
    BY <1>1, <2>2, TableRows
  <2>4. /\ row.status = "approved" /\ row.vendor = v /\ row["previous"] = db.vendor[v].bank
        /\ row["proposed"] = c.proposed
        /\ paid.bank = c.proposed
        /\ c.proposed \in Int /\ db.vendor[v].bank \in Int
    BY <2>2, <2>3 DEF BankChangeRows, VendorRows
  <2> DEFINE b == db.vendor[v].bank
             n == c.proposed
  <2>5. c.status = "pending" /\ k \in DOMAIN db.bankchange
    BY <2>1
  <2> HIDE DEF row, paid, v
  <2>6. /\ DOMAIN db'.bankchange = DOMAIN db.bankchange /\ db'.bankchange[k] = row
        /\ \A j \in DOMAIN db.bankchange \ {k} : db'.bankchange[j] = db.bankchange[j]
        /\ DOMAIN db'.vendor = DOMAIN db.vendor /\ db'.vendor[v] = paid
        /\ \A u \in DOMAIN db.vendor \ {v} : db'.vendor[u] = db.vendor[u]
    BY <2>1, <2>2
  <2>7. ASSUME NEW u \in DOMAIN db.vendor, u # v
        PROVE  db'.vendor[u].bank + SumOf(db'.bankchange, "previous", ApprovedChanges(db', u))
                 = SumOf(db'.bankchange, "proposed", ApprovedChanges(db', u))
    <3>1. ApprovedChanges(db', u) = ApprovedChanges(db, u)
      BY <2>4, <2>5, <2>6, <2>7 DEF ApprovedChanges
    <3>2. /\ DOMAIN db.bankchange \subseteq DOMAIN db'.bankchange
          /\ \A j \in ApprovedChanges(db, u) : db'.bankchange[j] = db.bankchange[j]
      BY <2>5, <2>6 DEF ApprovedChanges
    <3>3. /\ SumOf(db'.bankchange, "previous", ApprovedChanges(db', u))
               = SumOf(db.bankchange, "previous", ApprovedChanges(db, u))
          /\ SumOf(db'.bankchange, "proposed", ApprovedChanges(db', u))
               = SumOf(db.bankchange, "proposed", ApprovedChanges(db, u))
      BY <1>1, <3>1, <3>2, SameChanges
    <3>4. QED
      BY <2>6, <2>7, <3>3 DEF BankSound
  <2>8. db'.vendor[v].bank + SumOf(db'.bankchange, "previous", ApprovedChanges(db', v))
          = SumOf(db'.bankchange, "proposed", ApprovedChanges(db', v))
    <3> DEFINE S == ApprovedChanges(db, v)
               R == ApprovedChanges(db', v)
               t == db.bankchange
               m == db'.bankchange
    <3>1. k \notin S /\ R = S \cup {k}
      BY <2>4, <2>5, <2>6 DEF ApprovedChanges
    <3>2. S \subseteq DOMAIN t /\ R \subseteq DOMAIN m /\ IsFiniteSet(S)
      <4>1. S \subseteq DOMAIN db.bankchange /\ R \subseteq DOMAIN db'.bankchange
        BY DEF ApprovedChanges
      <4>2. IsFiniteSet(DOMAIN db.bankchange)
        BY <1>1, TableRows
      <4>3. QED
        BY <4>1, <4>2, FS_Subset
    <3>3. \A j \in S : t[j]["previous"] \in Int /\ t[j]["proposed"] \in Int
      <4>1. \A j \in S : t[j] \in BankChangeRows
        BY <1>1, <3>2, TableRows
      <4>2. QED
        BY <4>1 DEF BankChangeRows
    <3>4. \A j \in S : m[j]["previous"] = t[j]["previous"] /\ m[j]["proposed"] = t[j]["proposed"]
      BY <2>6, <3>1, <3>2
    <3>5. m[k]["previous"] = b /\ m[k]["proposed"] = n
      BY <2>4, <2>6
    <3>6. b \in Int /\ n \in Int
      BY <2>4
    <3>7. db'.vendor[v].bank = n
      BY <2>4, <2>6
    <3>8. b + SumOf(t, "previous", S) = SumOf(t, "proposed", S)
      BY <2>2 DEF BankSound
    <3> HIDE DEF S, R, t, m, b, n
    <3>9. SumOf(m, "previous", R) = SumOf(t, "previous", S) + m[k]["previous"]
      BY <3>1, <3>2, <3>3, <3>4, <3>5, <3>6, SumOfOneMore
    <3>10. SumOf(m, "proposed", R) = SumOf(t, "proposed", S) + m[k]["proposed"]
      BY <3>1, <3>2, <3>3, <3>4, <3>5, <3>6, SumOfOneMore
    <3>11. SumOf(t, "previous", S) \in Int /\ SumOf(t, "proposed", S) \in Int
      BY <3>2, <3>3, SumOfIsInteger
    <3>12. n + SumOf(m, "previous", R) = SumOf(m, "proposed", R)
      BY <3>5, <3>6, <3>8, <3>9, <3>10, <3>11
    <3>13. QED
      BY <3>7, <3>12 DEF R, m
  <2>9. QED
    BY <2>6, <2>7, <2>8 DEF BankSound
<1>5. QED
  BY <1>2, <1>3, <1>4 DEF BankingChange

-----------------------------------------------------------------------------
(* Who writes the purchase documents *)

\* A step that keeps more than the purchase tables keeps those.
LEMMA PurchasesKept ==
    ASSUME MaterialsSound, NEW names, Keeps(names), names \cap PurchaseTables = {}
    PROVE  \A t \in PurchaseTables : db'[t] = db[t]
  BY DEF Keeps, MaterialsSound, PurchasesTyped

\* Purchase documents are written by these handlers and no others.
LEMMA PurchaseWriters ==
    ASSUME ~ Concurrent, MaterialsSound, [Next]_<<part, vars>>
    PROVE  \/ \E p \in Workers : CreateVendor(p) \/ BankingChange(p) \/ OrderRoutes(p) \/ GoodsReceiptRoutes(p)
           \/ \E p \in Workers : \E v : \E n \in Quantities, lines \in OrderLines : CreatePurchaseOrder(p, v, n, lines)
           \/ \A t \in PurchaseTables : db'[t] = db[t]
<1> DEFINE Kept == \A t \in PurchaseTables : db'[t] = db[t]
<1>1. CASE UNCHANGED <<part, vars>>
  BY <1>1 DEF vars
<1>2. ASSUME NEW p \in Workers, Abandon(p) PROVE Kept
  BY <1>2 DEF Abandon
<1>3. ASSUME NEW p \in Workers, StockNext(p) PROVE Kept
  <2>1. BalanceTables \cap PurchaseTables = {}
    BY DEF BalanceTables, PurchaseTables
  <2>2. QED
    BY <1>3, <2>1, StockKeeps, PurchasesKept DEF MaterialsSound, StockSound
<1>4. ASSUME NobodyWastes, NEW p \in Workers, TraceabilityNext(p) PROVE Kept
  <2>1. (BalanceTables \cup {"itemcode", "batch", "serial", "reorder"}) \cap PurchaseTables = {}
    BY DEF BalanceTables, PurchaseTables
  <2>2. QED
    BY <1>4, <2>1, TraceabilityStep, PurchasesKept
<1>5. ASSUME NEW p, Touches(p, SourcingTables) PROVE Kept
  <2>1. SourcingTables \cap PurchaseTables = {} /\ Keeps(SourcingTables)
    BY <1>5 DEF SourcingTables, PurchaseTables, Touches, Keeps
  <2>2. QED
    BY <2>1, PurchasesKept
<1>6. ASSUME NobodyWastes, NEW p \in Workers, SourcingNext(p) PROVE CreateVendor(p) \/ Kept
  <2>1. \/ VendorRoutes(p) \/ RatingRoutes(p) \/ RfqRoutes(p) \/ RequestRoutes(p)
        \/ \E k : DocumentExpires(k)
        \/ \E k, o : InstanceEnds(k, o)
    BY <1>6 DEF SourcingNext
  <2>2. QED
    BY <1>5, <2>1, SourcingTouches
<1>7. ASSUME NobodyWastes, NEW p \in Workers, PurchasingNext(p)
      PROVE  CreateVendor(p) \/ OrderRoutes(p) \/ GoodsReceiptRoutes(p) \/ Kept
  <2>1. ASSUME VendorRoutes(p) PROVE CreateVendor(p) \/ Kept
    BY <1>5, <2>1, SourcingTouches
  <2>2. ASSUME MatchRoutes(p) PROVE Kept
    <3>1. {"match"} \cap PurchaseTables = {} /\ Keeps({"match"})
      BY <2>2, MatchTouches DEF PurchaseTables, Touches, Keeps
    <3>2. QED
      BY <3>1, PurchasesKept
  <2>3. QED
    BY <1>7, <2>1, <2>2 DEF PurchasingNext
<1>8. ASSUME NobodyWastes, NEW p \in Workers, TenderingNext(p) PROVE Kept
  <2>1. {"rfq", "invitation", "quotation"} \cap PurchaseTables = {}
    BY DEF PurchaseTables
  <2>2. QED
    BY <1>8, <2>1, TenderingStep, PurchasesKept
<1>9. ASSUME NobodyWastes, NEW p \in Workers, VendorPortalNext(p)
      PROVE  \/ \E v : \E n \in Quantities, lines \in OrderLines : CreatePurchaseOrder(p, v, n, lines)
             \/ BankingChange(p) \/ Kept
  <2>1. ASSUME Touches(p, {"acknowledgment", "upload"}) PROVE Kept
    <3>1. {"acknowledgment", "upload"} \cap PurchaseTables = {} /\ Keeps({"acknowledgment", "upload"})
      BY <2>1 DEF PurchaseTables, Touches, Keeps
    <3>2. QED
      BY <3>1, PurchasesKept
  <2> HIDE DEF Kept
  <2>2. VendorPortalRoutes(p) => BankingChange(p) \/ Kept
    BY <2>1, PortalTouches
  <2>3. \/ \E v \in Rows(p, "vendor"), n \in Quantities, lines \in OrderLines : CreatePurchaseOrder(p, v, n, lines)
        \/ VendorPortalRoutes(p)
    BY <1>9 DEF VendorPortalNext
  <2>4. QED
    BY <2>2, <2>3
<1>10. ASSUME NobodyWastes, NEW p \in Workers, PostingNext(p) \/ BankingNext(p) PROVE Kept
  <2>1. LedgerTableNames \cap PurchaseTables = {}
    BY DEF LedgerTableNames, PurchaseTables
  <2>2. QED
    BY <1>10, <2>1, LedgerStep, PurchasesKept
<1>11. ASSUME NobodyWastes, NEW p \in Workers, SalesNext(p) PROVE Kept
  <2>1. DeliveryTables \cap PurchaseTables = {}
    BY DEF DeliveryTables, SalesDocuments, BalanceTables, PurchaseTables
  <2>2. QED
    BY <1>11, <2>1, SalesStep, PurchasesKept
<1>12. ASSUME NobodyWastes, NEW p \in Workers, FuelNext(p) PROVE Kept
  <2>1. FuelTableNames \cap PurchaseTables = {}
    BY DEF FuelTableNames, PurchaseTables
  <2>2. QED
    BY <1>12, <2>1, FuelStep, PurchasesKept
<1>13. ASSUME NobodyWastes, NEW p \in Workers, ManufacturingNext(p) PROVE Kept
  <2>1. ProductionTables \cap PurchaseTables = {}
    BY DEF ProductionTables, FuelTableNames, BalanceTables, PurchaseTables
  <2>2. QED
    BY <1>13, <2>1, ProductionStep, PurchasesKept
<1> HIDE DEF Kept
<1>14. ASSUME NobodyWastes, NEW p \in Workers,
              \/ TraceabilityNext(p) \/ SourcingNext(p) \/ PurchasingNext(p) \/ TenderingNext(p)
              \/ VendorPortalNext(p) \/ PostingNext(p) \/ BankingNext(p) \/ SalesNext(p)
              \/ FuelNext(p) \/ ManufacturingNext(p)
       PROVE  \/ CreateVendor(p) \/ BankingChange(p) \/ OrderRoutes(p) \/ GoodsReceiptRoutes(p)
              \/ \E v : \E n \in Quantities, lines \in OrderLines : CreatePurchaseOrder(p, v, n, lines)
              \/ Kept
  BY <1>4, <1>6, <1>7, <1>8, <1>9, <1>10, <1>11, <1>12, <1>13, <1>14
<1>15. QED
  BY <1>1, <1>2, <1>3, <1>14, WhoSteps DEF Kept

\* The receipt of goods writes neither orders' statuses nor vendors.
LEMMA ReceiptKeepsOrders ==
    ASSUME ~ Concurrent, MaterialsSound, NEW p \in Workers, GoodsReceiptRoutes(p)
    PROVE  /\ db'.po = db.po /\ db'.postep = db.postep
           /\ db'.vendor = db.vendor /\ db'.bankchange = db.bankchange
<1> DEFINE names == {"grn", "grnline", "poline"} \cup BalanceTables
<1>1. Keeps(names)
  <2>1. ASSUME NEW o, NEW w \in Warehouses \cup {None}, NEW q \in Quantities, CreateGrn(p, o, w, q)
        PROVE  Keeps(names)
    BY <2>1, NoteStep, KeepsMore
  <2>2. ASSUME NEW g, ConfirmGoodsReceipt(p, g) PROVE Keeps(names)
    BY <2>2, ConfirmationStep, KeepsMore
  <2>3. ASSUME NEW k, ReceiveNoteLine(p, k) PROVE Keeps(names)
    BY <2>3, NoteLineReceived, KeepsMore DEF MaterialsSound
  <2>4. ASSUME AllReceived(p) PROVE Keeps(names)
    BY <2>4 DEF AllReceived, Keeps
  <2>5. QED
    BY <2>1, <2>2, <2>3, <2>4 DEF GoodsReceiptRoutes
<1>2. {"po", "postep", "vendor", "bankchange"} \subseteq DOMAIN db \ names
  BY DEF BalanceTables, MaterialsSound, PurchasesTyped, PurchaseTables
<1> HIDE DEF names
<1>3. QED
  BY <1>1, <1>2 DEF Keeps

\* Every step keeps orders true to their steps and vendors to their changes.
LEMMA OrdersAndDetailsStep ==
    ASSUME ~ Concurrent, MaterialsSound, OrdersSound(db), BankSound(db), [Next]_<<part, vars>>
    PROVE  OrdersSound(db') /\ BankSound(db')
<1>1. ASSUME db'.po = db.po, db'.postep = db.postep PROVE OrdersSound(db')
  BY <1>1 DEF OrdersSound
<1>2. ASSUME db'.vendor = db.vendor, db'.bankchange = db.bankchange PROVE BankSound(db')
  BY <1>2 DEF BankSound, ApprovedChanges
<1>3. ASSUME NEW names, Keeps(names), names \cap {"po", "postep"} = {}
      PROVE  db'.po = db.po /\ db'.postep = db.postep
  BY <1>3 DEF Keeps, MaterialsSound, PurchasesTyped, PurchaseTables
<1>4. ASSUME NEW names, Keeps(names), names \cap {"vendor", "bankchange"} = {}
      PROVE  db'.vendor = db.vendor /\ db'.bankchange = db.bankchange
  BY <1>4 DEF Keeps, MaterialsSound, PurchasesTyped, PurchaseTables
<1>5. ASSUME NEW p \in Workers, CreateVendor(p) PROVE OrdersSound(db') /\ BankSound(db')
  <2>1. Keeps({"vendor"}) /\ {"vendor"} \cap {"po", "postep"} = {}
    BY <1>5, VendorStep
  <2>2. QED
    BY <1>1, <1>3, <1>5, <2>1, DetailsAfterVendor
<1>6. ASSUME NEW p \in Workers, BankingChange(p) PROVE OrdersSound(db') /\ BankSound(db')
  <2>1. Keeps({"bankchange", "vendor"}) /\ {"bankchange", "vendor"} \cap {"po", "postep"} = {}
    BY <1>6, BankingChangeStep
  <2>2. QED
    BY <1>1, <1>3, <1>6, <2>1, DetailsAfterChange
<1>7. ASSUME NEW p \in Workers, NEW v, NEW n \in Quantities, NEW lines \in OrderLines,
             CreatePurchaseOrder(p, v, n, lines)
      PROVE  OrdersSound(db') /\ BankSound(db')
  <2>1. Keeps({"po", "poline", "postep"}) /\ {"po", "poline", "postep"} \cap {"vendor", "bankchange"} = {}
    BY <1>7, OrderStep
  <2>2. OrdersSound(db')
    BY <1>7, OrdersAfterOrder DEF MaterialsSound
  <2>3. QED
    BY <1>2, <1>4, <2>1, <2>2
<1>8. ASSUME NEW p \in Workers, OrderRoutes(p) PROVE OrdersSound(db') /\ BankSound(db')
  <2>1. Keeps({"po", "poline", "postep"}) /\ {"po", "poline", "postep"} \cap {"vendor", "bankchange"} = {}
    BY <1>8, OrderRoutesStep
  <2>2. PurchasesTyped(db)
    BY DEF MaterialsSound
  <2>3. ASSUME NEW o, NEW n \in 0..2, InitiatePoApproval(p, o, n) PROVE OrdersSound(db')
    BY <2>2, <2>3, OrdersAfterInitiation
  <2>4. ASSUME NEW o, NEW waiver \in BOOLEAN, IssuePurchaseOrder(p, o, waiver) PROVE OrdersSound(db')
    BY <2>2, <2>4, OrdersAfterIssue
  <2>5. ASSUME NEW k, NEW d \in {"approved", "rejected"}, DecidePoApprovalStep(p, k, d) PROVE OrdersSound(db')
    BY <2>2, <2>5, OrdersAfterDecision
  <2>6. OrdersSound(db')
    BY <1>7, <1>8, <2>3, <2>4, <2>5 DEF OrderRoutes
  <2>7. QED
    BY <1>2, <1>4, <2>1, <2>6
<1>9. ASSUME NEW p \in Workers, GoodsReceiptRoutes(p) PROVE OrdersSound(db') /\ BankSound(db')
  BY <1>1, <1>2, <1>9, ReceiptKeepsOrders
<1>10. ASSUME \A t \in PurchaseTables : db'[t] = db[t] PROVE OrdersSound(db') /\ BankSound(db')
  <2>1. /\ db'["po"] = db["po"] /\ db'["postep"] = db["postep"]
        /\ db'["vendor"] = db["vendor"] /\ db'["bankchange"] = db["bankchange"]
    BY <1>10 DEF PurchaseTables
  <2>2. QED
    BY <1>1, <1>2, <2>1
<1>11. QED
  BY <1>5, <1>6, <1>7, <1>8, <1>9, <1>10, PurchaseWriters

\* No order, no change, no vendor but those registered beforehand.
LEMMA OrdersAndDetailsAtFirst ==
    ASSUME Init
    PROVE  OrdersSound(db) /\ BankSound(db)
<1>1. /\ db["po"] = <<>> /\ db["postep"] = <<>> /\ db["bankchange"] = <<>>
      /\ db.vendor = <<>> \/ db.vendor = <<Vendor, Vendor>>
  BY FirstTables
<1>2. OrdersSound(db)
  BY <1>1 DEF OrdersSound
<1>3. \A v \in DOMAIN db.vendor : db.vendor[v].bank = 0
  BY <1>1 DEF Vendor
<1>4. \A v : ApprovedChanges(db, v) = {}
  BY <1>1 DEF ApprovedChanges
<1>5. SumOf(db.bankchange, "previous", {}) = 0 /\ SumOf(db.bankchange, "proposed", {}) = 0
  BY SumOfNoRows
<1>6. BankSound(db)
  BY <1>3, <1>4, <1>5 DEF BankSound
<1>7. QED
  BY <1>2, <1>6

\* Whatever the number of orders, steps, vendors and changes: an order is approved
\* or issued when all its steps are approved (decide_po_approval_step), and what a
\* vendor is paid under goes back to what it registered with, approved change by
\* approved change (approve_banking_change).
THEOREM OrdersAndPayeesAreApproved ==
    ASSUME ~ Concurrent
    PROVE  Spec => []OrdersAndPayeesApproved
<1> DEFINE Inv == MaterialsSound /\ OrdersSound(db) /\ BankSound(db)
<1>1. Init => Inv
  BY FirstState, OrdersAndDetailsAtFirst
<1>2. Inv /\ [Next]_<<part, vars>> => Inv'
  <2> SUFFICES ASSUME Inv, [Next]_<<part, vars>> PROVE Inv'
    OBVIOUS
  <2>1. MaterialsSound'
    BY PartStep, RestingStep, StepStaysSound
  <2>2. OrdersSound(db') /\ BankSound(db')
    BY OrdersAndDetailsStep
  <2>3. OrdersSound(db)' = OrdersSound(db')
    BY DEF OrdersSound
  <2>4. BankSound(db)' = BankSound(db')
    BY DEF BankSound, ApprovedChanges
  <2>5. QED
    BY <2>1, <2>2, <2>3, <2>4
<1>3. Inv => OrdersAndPayeesApproved
  BY OrdersFollow, DetailsFollow DEF OrdersAndPayeesApproved
<1> HIDE DEF Inv
<1>4. QED
  BY <1>1, <1>2, <1>3, PTL DEF Spec

-----------------------------------------------------------------------------
(* Who writes the history *)

\* A payable is posted, and its request goes on to record the invoice.
PayableBegins ==
    \E p \in Workers : \E d \in Days, n \in Amounts, c \in CostCodes \cup {None}, g \in {None, "materials"},
       b \in Budgets \cup {NoBudget} : PostApInvoice(p, d, n, c, g, b)

\* No request begins to receive, none but that of a posted payable begins to record
\* its invoice, and nothing is said of landed goods or dip readings.
Quiet ==
    /\ \A p \in Workers : Resuming(p, "receiving")' => req'[p] = req[p]
    /\ PayableBegins \/ \A p \in Workers : Resuming(p, "payable")' => req'[p] = req[p]
    /\ past'.landed = past.landed
    /\ past'.dipped = past.dipped
    /\ DOMAIN past' = DOMAIN past

\* The two counters that the properties of this module look at.
Remembered == {"landed", "dipped"} \subseteq DOMAIN past

\* A request that touches tables only.
LEMMA TouchesIsQuiet ==
    ASSUME Alone, NEW p \in Workers, NEW names, Touches(p, names)
    PROVE  Quiet
  BY DEF Alone, Touches, Quiet, Resuming, Idle

\* A request that books a movement of the stock.
LEMMA BookIsQuiet ==
    ASSUME Alone, Remembered, NEW p \in Workers, NEW new, NEW entry, Book(p, new, entry)
    PROVE  Quiet
<1>1. req' = [req EXCEPT ![p] = Idle] /\ past' = [past EXCEPT !.booked = @ + entry]
  BY DEF Book, Finish
<1>2. QED
  BY <1>1 DEF Alone, Remembered, Quiet, Resuming, Idle

\* Any request of the inventory.
LEMMA StockIsQuiet ==
    ASSUME ~ Concurrent, Alone, Remembered, NEW p \in Workers, StockNext(p)
    PROVE  Quiet
<1>1. CASE ReceiptRoutes(p)
  BY <1>1, BookIsQuiet DEF ReceiptRoutes, Receive, Issue
<1>2. CASE ReservationRoutes(p)
  BY <1>2, BookIsQuiet DEF ReservationRoutes, Reserve, Release
<1>3. CASE TransferRoutes(p)
  BY <1>3, BookIsQuiet DEF TransferRoutes, InitiateTransfer, ConfirmTransferReceipt
<1>4. CASE WasteAndReturnRoutes(p)
  <2>1. CASE RecordWaste(p)
    <3>1. Touches(p, {"waste"})
      BY <2>1, SerialRows DEF RecordWaste, Insert, Commit, Finish, Touches
    <3>2. QED
      BY <3>1, TouchesIsQuiet
  <2>2. ASSUME NEW w, NEW q, Waste(p, w, q) PROVE Quiet
    <3> DEFINE r == [at |-> "wasting", todo |-> q, seen |-> IF Concurrent THEN db' ELSE <<>>]
    <3>1. req' = [req EXCEPT ![p] = r] /\ past' = [past EXCEPT !.booked = @ - q, !.wasted = @ + q]
      BY <2>2 DEF Waste, GoOn
    <3>2. r.at = "wasting"
      OBVIOUS
    <3> HIDE DEF r
    <3>3. QED
      BY <3>1, <3>2 DEF Alone, Remembered, Quiet, Resuming
  <2>3. ASSUME NEW w, NEW q, ReturnToVendor(p, w, q) PROVE Quiet
    BY <2>3, BookIsQuiet DEF ReturnToVendor
  <2>4. ASSUME NEW w, NEW to, NEW q, ReturnToYard(p, w, to, q) PROVE Quiet
    BY <2>4, BookIsQuiet DEF ReturnToYard
  <2>5. CASE LoseWaste(p)
    <3>1. req' = [req EXCEPT ![p] = Idle] /\ past' = [past EXCEPT !.lost = @ + req[p].todo]
      BY <2>5 DEF LoseWaste, Finish
    <3>2. QED
      BY <3>1 DEF Alone, Remembered, Quiet, Resuming, Idle
  <2>6. QED
    BY <1>4, <2>1, <2>2, <2>3, <2>4, <2>5 DEF WasteAndReturnRoutes
<1>5. CASE CountRoutes(p)
  <2>1. ASSUME NEW w, StartCount(p, w) PROVE Quiet
    BY <2>1, BookIsQuiet DEF StartCount
  <2>2. ASSUME NEW k, NEW n, RecordCountLine(p, k, n) PROVE Quiet
    BY <2>2, BookIsQuiet DEF RecordCountLine
  <2>3. ASSUME NEW k, CompleteCount(p, k) \/ ApplyCount(p, k) PROVE Quiet
    BY <2>3, BookIsQuiet DEF CompleteCount, ApplyCount
  <2>4. QED
    BY <1>5, <2>1, <2>2, <2>3 DEF CountRoutes
<1>6. ASSUME NEW m, SetValuationMethod(p, m) PROVE Quiet
  BY <1>6, BookIsQuiet DEF SetValuationMethod
<1>7. QED
  BY <1>1, <1>2, <1>3, <1>4, <1>5, <1>6 DEF StockNext

\* Whoever says that goods landed or a dip was read, or begins to receive a note.
LEMMA HistoryWriters ==
    ASSUME ~ Concurrent, MaterialsSound, Remembered, [Next]_<<part, vars>>
    PROVE  \/ \E p \in Workers : \E k : ReceiveNoteLine(p, k)
           \/ \E p \in Workers : \E g : ConfirmGoodsReceipt(p, g)
           \/ \E p \in Workers : \E t : \E n \in {0} \cup Litres : ReconcileTank(p, t, n)
           \/ Quiet
<1>1. Alone
  BY DEF MaterialsSound
<1>2. CASE UNCHANGED <<part, vars>>
  BY <1>2 DEF vars, Quiet
<1>3. ASSUME NEW p \in Workers, Abandon(p) PROVE Quiet
  <2>1. Touches(p, {})
    BY <1>3 DEF Abandon, Touches
  <2>2. QED
    BY <1>1, <2>1, TouchesIsQuiet
<1>4. ASSUME NEW p \in Workers, StockNext(p) PROVE Quiet
  BY <1>1, <1>4, StockIsQuiet
<1>5. ASSUME NEW p \in Workers, NEW w, NEW q, Receive(p, w, q) PROVE Quiet
  BY <1>1, <1>5, BookIsQuiet DEF Receive
<1>6. ASSUME NEW p \in Workers, TraceabilityNext(p) PROVE Quiet
  BY <1>1, <1>5, <1>6, TraceabilityTouches, TouchesIsQuiet DEF TraceabilityNext
<1>7. ASSUME NEW p \in Workers, NEW t, NEW row, Create(p, t, row) PROVE Quiet
  BY <1>1, <1>7, CreateTouches, TouchesIsQuiet
<1>8. ASSUME NEW p \in Workers, CreateVendor(p) PROVE Quiet
  BY <1>7, <1>8 DEF CreateVendor
<1>9. ASSUME NEW p \in Workers, VendorRoutes(p) PROVE Quiet
  BY <1>1, <1>8, <1>9, SourcingTouches, TouchesIsQuiet
<1>10. ASSUME NEW p \in Workers, SourcingNext(p) PROVE Quiet
  <2>1. \/ VendorRoutes(p) \/ RatingRoutes(p) \/ RfqRoutes(p) \/ RequestRoutes(p)
        \/ \E k : DocumentExpires(k)
        \/ \E k, o : InstanceEnds(k, o)
    BY <1>10 DEF SourcingNext
  <2>2. QED
    BY <1>1, <1>8, <2>1, SourcingTouches, TouchesIsQuiet
<1>11. ASSUME NEW p \in Workers, PurchasingNext(p)
       PROVE  (\E k : ReceiveNoteLine(p, k)) \/ (\E g : ConfirmGoodsReceipt(p, g)) \/ Quiet
  <2>1. ASSUME OrderRoutes(p) \/ MatchRoutes(p) PROVE Quiet
    BY <1>1, <2>1, OrderTouches, MatchTouches, TouchesIsQuiet
  <2>2. ASSUME NEW o, NEW w, NEW q, CreateGrn(p, o, w, q) PROVE Quiet
    BY <1>1, <2>2, NoteTouches, TouchesIsQuiet
  <2>3. ASSUME AllReceived(p) PROVE Quiet
    <3>1. Touches(p, {})
      BY <2>3 DEF AllReceived, Finish, Touches
    <3>2. QED
      BY <1>1, <3>1, TouchesIsQuiet
  <2> HIDE DEF Quiet
  <2>4. QED
    BY <1>9, <1>11, <2>1, <2>2, <2>3 DEF PurchasingNext, GoodsReceiptRoutes
<1>12. ASSUME NEW p \in Workers, TenderingNext(p) PROVE Quiet
  <2>1. RfqRoutes(p) \/ QuoteRoutes(p) \/ \E r : DeadlinePasses(r)
    BY <1>12 DEF TenderingNext
  <2>2. QED
    BY <1>1, <2>1, QuoteTouches, TouchesIsQuiet
<1>13. ASSUME NEW p \in Workers, BankingChange(p) PROVE Quiet
  <2>1. ASSUME NEW v, NEW n, SubmitBankingChange(p, v, n) PROVE Quiet
    BY <1>7, <2>1 DEF SubmitBankingChange
  <2>2. ASSUME NEW k, ApproveBankingChange(p, k) \/ RejectBankingChange(p, k) PROVE Touches(p, {"vendor", "bankchange"})
    BY <2>2, SerialRows DEF ApproveBankingChange, RejectBankingChange, Turn, Rows, Row, Commit, Finish, Touches
  <2>3. QED
    BY <1>1, <1>13, <2>1, <2>2, TouchesIsQuiet DEF BankingChange
<1>14. ASSUME NEW p \in Workers, VendorPortalNext(p) PROVE Quiet
  <2>1. ASSUME NEW v, NEW n, NEW lines, CreatePurchaseOrder(p, v, n, lines) PROVE Quiet
    BY <1>1, <2>1, OrderTouches, TouchesIsQuiet
  <2>2. ASSUME VendorPortalRoutes(p) PROVE Quiet
    BY <1>1, <1>13, <2>2, PortalTouches, TouchesIsQuiet
  <2>3. QED
    BY <1>14, <2>1, <2>2 DEF VendorPortalNext
<1>15. ASSUME NEW p \in Workers, PostingNext(p) \/ BankingNext(p) PROVE Quiet
  <2>1. ASSUME NEW d \in Days, NEW n \in Amounts, NEW c \in CostCodes \cup {None}, NEW g \in {None, "materials"},
               NEW b \in Budgets \cup {NoBudget}, PostApInvoice(p, d, n, c, g, b)
        PROVE  Quiet
    <3>1. /\ req'[p].at = "payable"
          /\ \A q \in Workers \ {p} : req'[q] = Idle
          /\ past' = past
      BY <2>1, PayableStep DEF PostApInvoice, CommitThen
    <3>2. PayableBegins
      BY <2>1 DEF PayableBegins
    <3>3. QED
      BY <3>1, <3>2 DEF Quiet, Resuming, Idle
  <2>2. \/ \E d, n : PostArInvoice(p, d, n)
        \/ RecordApInvoice(p) \/ LedgerRoutes(p) \/ BankRoutes(p) \/ StatementRoutes(p)
        \/ \E d \in Days, n \in Amounts, c \in CostCodes \cup {None}, g \in {None, "materials"},
              b \in Budgets \cup {NoBudget} : PostApInvoice(p, d, n, c, g, b)
    BY <1>15 DEF PostingNext, BankingNext, InvoiceRoutes
  <2>3. QED
    BY <1>1, <2>1, <2>2, LedgerTouches, TouchesIsQuiet
<1>16. ASSUME NEW p \in Workers, SalesNext(p) PROVE Quiet
  <2>1. ASSUME NEW o, NEW q, Deliver(p, o, q) PROVE Quiet
    BY <1>1, <2>1, BookIsQuiet DEF Deliver
  <2>2. ASSUME SettingsRoutes(p) \/ SalesOrderRoutes(p) \/ PaymentRoutes(p) \/ \E o : InvoiceDelivered(p, o)
        PROVE  Quiet
    BY <1>1, <2>2, SalesTouches, TouchesIsQuiet
  <2>3. QED
    BY <1>5, <1>16, <2>1, <2>2 DEF SalesNext, DeliveryRoutes
<1>17. ASSUME NEW p \in Workers, FuelNext(p)
       PROVE  (\E t : \E n \in {0} \cup Litres : ReconcileTank(p, t, n)) \/ Quiet
  <2>1. \/ CreateTank(p) \/ FuelPurchaseRoutes(p) \/ FuelIssueRoutes(p) \/ FuelVarianceRoutes(p)
        \/ \E k : FlagAges(k)
        \/ \E t : \E n \in {0} \cup Litres : ReconcileTank(p, t, n)
    BY <1>17 DEF FuelNext, TankRoutes
  <2>2. QED
    BY <1>1, <2>1, FuelTouches, TouchesIsQuiet
<1>18. ASSUME NEW p \in Workers, ManufacturingNext(p) PROVE Quiet
  <2>1. ASSUME NEW o, NEW produced, NEW scrapped, NEW override, NEW fuel, NEW status,
               CompleteOrder(p, o, produced, scrapped, override, fuel, status)
        PROVE  Quiet
    BY <1>1, <2>1, BookIsQuiet DEF CompleteOrder
  <2>2. ASSUME \/ CenterRoutes(p) \/ BomRoutes(p)
               \/ \E b, n, c : CreateProductionOrder(p, b, n, c)
               \/ \E o : ReleaseOrder(p, o) \/ StartOrder(p, o) \/ CancelProduction(p, o)
        PROVE  Quiet
    BY <1>1, <2>2, ProductionTouches, TouchesIsQuiet
  <2>3. ASSUME CreateTank(p) \/ \E t, n : RecordPurchase(p, t, n, TRUE) PROVE Quiet
    BY <1>1, <2>3, FuelTouches, TouchesIsQuiet
  <2>4. ProductionRoutes(p) => Quiet
    BY <2>1, <2>2 DEF ProductionRoutes
  <2>5. QED
    BY <1>5, <1>18, <2>2, <2>3, <2>4 DEF ManufacturingNext
<1> HIDE DEF Quiet
<1>19. ASSUME NEW p \in Workers,
              \/ Abandon(p) \/ StockNext(p) \/ TraceabilityNext(p) \/ SourcingNext(p) \/ PurchasingNext(p)
              \/ TenderingNext(p) \/ VendorPortalNext(p) \/ PostingNext(p) \/ BankingNext(p) \/ SalesNext(p)
              \/ FuelNext(p) \/ ManufacturingNext(p)
       PROVE  \/ \E k : ReceiveNoteLine(p, k)
              \/ \E g : ConfirmGoodsReceipt(p, g)
              \/ \E t : \E n \in {0} \cup Litres : ReconcileTank(p, t, n)
              \/ Quiet
  BY <1>3, <1>4, <1>6, <1>10, <1>11, <1>12, <1>14, <1>15, <1>16, <1>17, <1>18, <1>19
<1>20. CASE Next
  <2>1. PICK p \in Workers :
              \/ Abandon(p) \/ StockNext(p) \/ TraceabilityNext(p) \/ SourcingNext(p) \/ PurchasingNext(p)
              \/ TenderingNext(p) \/ VendorPortalNext(p) \/ PostingNext(p) \/ BankingNext(p) \/ SalesNext(p)
              \/ FuelNext(p) \/ ManufacturingNext(p)
    BY <1>20 DEF Next
  <2>2. QED
    BY <1>19, <2>1
<1>21. QED
  BY <1>2, <1>20

-----------------------------------------------------------------------------
(* Goods received as noted *)

\* The lines of confirmed notes.
ConfirmedLines(s) == {k \in DOMAIN s.grnline : s.grn[s.grnline[k].grn].status = "confirmed"}

\* Those that say something of an order's line.
Says(s, l) == {k \in ConfirmedLines(s) : s.grnline[k].line = l}

\* Those that bring tracked material.
Brought(s) == {k \in ConfirmedLines(s) : s.poline[s.grnline[k].line].tracked}

Noted(s, lines) == SumOf(s.grnline, "qty", lines)

\* What is drawn down is what confirmed notes say.
ReceivedSound(s) == \A l \in DOMAIN s.poline : s.poline[l].received = Noted(s, Says(s, l))

\* What landed, and what the request that receives is still to land, was brought.
LandingSound ==
    /\ Remembered
    /\ past.landed \in Int
    /\ past.landed <= Noted(db, Brought(db))
    /\ \A p \in Workers : Resuming(p, "receiving") =>
         /\ req[p].todo.lines \subseteq Brought(db)
         /\ past.landed + Noted(db, req[p].todo.lines) <= Noted(db, Brought(db))

\* The invariant says what the property says.
LEMMA ReceiptsFollow ==
    ASSUME ReceivedSound(db), LandingSound
    PROVE  GoodsReceivedAsNoted
  BY DEF ReceivedSound, LandingSound, GoodsReceivedAsNoted, Noted, Says, Brought, ConfirmedLines

\* Sums over lines of notes are natural numbers.
LEMMA NotedIsNatural ==
    ASSUME NEW s, PurchasesTyped(s), NEW lines \in SUBSET DOMAIN s.grnline
    PROVE  /\ IsFiniteSet(lines)
           /\ \A k \in lines : s.grnline[k]["qty"] \in Nat
           /\ Noted(s, lines) \in Nat
<1>1. s.grnline \in Seq(NoteLineRows)
  BY DEF PurchasesTyped
<1>2. IsFiniteSet(lines)
  BY <1>1, TableRows, FS_Subset
<1>3. \A k \in lines : s.grnline[k]["qty"] \in Nat
  <2>1. \A k \in lines : s.grnline[k] \in NoteLineRows
    BY <1>1, TableRows
  <2>2. QED
    BY <2>1 DEF NoteLineRows
<1>4. Noted(s, lines) \in Int
  BY <1>2, <1>3, SumOfIsInteger DEF Noted
<1>5. 0 <= Noted(s, lines)
  <2> DEFINE f == [k \in DOMAIN s.grnline |-> s.grnline[k]["qty"]]
             z == [k \in DOMAIN s.grnline |-> 0]
  <2>1. \A k \in lines : z[k] = 0 /\ f[k] \in Int /\ z[k] \in Int /\ z[k] <= f[k]
    BY <1>3
  <2> HIDE DEF f, z
  <2>2. SumFunctionOnSet(z, lines) = 0
    BY <1>2, <2>1, SumOfZeros
  <2>3. SumFunctionOnSet(z, lines) <= SumFunctionOnSet(f, lines)
    BY <1>2, <2>1, SumsCompare
  <2>4. SumFunctionOnSet(f, lines) = Noted(s, lines)
    BY DEF Noted, SumOf, f
  <2>5. QED
    BY <2>2, <2>3, <2>4
<1>6. QED
  BY <1>2, <1>3, <1>4, <1>5

\* Lines that are in one set or the other.
LEMMA NotedByBoth ==
    ASSUME NEW s, PurchasesTyped(s), NEW A \in SUBSET DOMAIN s.grnline, NEW B \in SUBSET DOMAIN s.grnline,
           A \cap B = {}
    PROVE  Noted(s, A \cup B) = Noted(s, A) + Noted(s, B)
<1> DEFINE t == s.grnline
           G == {C \in SUBSET B : SumOf(t, "qty", A \cup C) = SumOf(t, "qty", A) + SumOf(t, "qty", C)}
<1>1. {} \in G
  <2>1. A \cup {} = A /\ SumOf(t, "qty", {}) = 0 /\ SumOf(t, "qty", A) \in Int
    BY NotedIsNatural, SumOfNoRows DEF Noted
  <2>2. QED
    BY <2>1
<1>2. ASSUME NEW C \in SUBSET B, C # {}, C \ {Pick(C)} \in G PROVE C \in G
  <2> DEFINE y == Pick(C)
             D == C \ {y}
  <2>1. y \in C /\ D \in SUBSET DOMAIN t /\ A \cup D \in SUBSET DOMAIN t /\ A \cup C \in SUBSET DOMAIN t
        /\ C \in SUBSET DOMAIN t /\ y \notin D /\ y \notin A \cup D
        /\ C = D \cup {y} /\ A \cup C = (A \cup D) \cup {y}
    BY <1>2, PickIsIn
  <2>2. SumOf(t, "qty", A \cup D) = SumOf(t, "qty", A) + SumOf(t, "qty", D)
    BY <1>2
  <2> HIDE DEF y, D
  <2>3. /\ IsFiniteSet(D) /\ IsFiniteSet(A \cup D)
        /\ \A k \in A \cup C : t[k]["qty"] \in Int
        /\ SumOf(t, "qty", A) \in Int /\ SumOf(t, "qty", D) \in Int
    <3>1. IsFiniteSet(D) /\ SumOf(t, "qty", D) \in Int
      BY <2>1, NotedIsNatural DEF Noted
    <3>2. IsFiniteSet(A \cup D)
      BY <2>1, NotedIsNatural
    <3>3. \A k \in A \cup C : t[k]["qty"] \in Int
      BY <2>1, NotedIsNatural
    <3>4. SumOf(t, "qty", A) \in Int
      BY NotedIsNatural DEF Noted
    <3>5. QED
      BY <3>1, <3>2, <3>3, <3>4
  <2> HIDE DEF t
  <2>4. SumOf(t, "qty", C) = SumOf(t, "qty", D) + t[y]["qty"]
    BY <2>1, <2>3, SumOfOneMore
  <2>5. SumOf(t, "qty", A \cup C) = SumOf(t, "qty", A \cup D) + t[y]["qty"]
    BY <2>1, <2>3, SumOfOneMore
  <2>6. t[y]["qty"] \in Int
    BY <2>1, <2>3
  <2>7. QED
    BY <2>2, <2>3, <2>4, <2>5, <2>6
<1>3. IsFiniteSet(B)
  BY NotedIsNatural
<1> HIDE DEF G
<1>4. B \in G
  BY <1>1, <1>2, <1>3, PartInduction
<1>5. QED
  BY <1>4 DEF G, Noted

\* The lines of notes are what they were.
SameNotes ==
    /\ DOMAIN db.grnline \subseteq DOMAIN db'.grnline
    /\ \A k \in DOMAIN db.grnline : db'.grnline[k] = db.grnline[k]

\* Then they say what they said.
LEMMA NotedAsBefore ==
    ASSUME PurchasesTyped(db), SameNotes, NEW lines \in SUBSET DOMAIN db.grnline
    PROVE  Noted(db', lines) = Noted(db, lines)
<1>1. IsFiniteSet(lines)
  BY NotedIsNatural
<1>2. QED
  BY <1>1, SumOfSameRows DEF SameNotes, Noted

\* No note is confirmed: orders may get new lines, orders new notes.
LEMMA ReceiptsKept ==
    ASSUME PurchasesTyped(db), PurchasesTyped(db'), ReceivedSound(db), SameNotes,
           ConfirmedLines(db') = ConfirmedLines(db),
           DOMAIN db.poline \subseteq DOMAIN db'.poline,
           \A l \in DOMAIN db.poline : db'.poline[l] = db.poline[l],
           \A l \in DOMAIN db'.poline \ DOMAIN db.poline : db'.poline[l].received = 0
    PROVE  ReceivedSound(db') /\ Brought(db') = Brought(db)
<1>1. \A k \in ConfirmedLines(db) : /\ k \in DOMAIN db.grnline /\ db'.grnline[k] = db.grnline[k]
                                     /\ db.grnline[k].line \in DOMAIN db.poline
  BY DEF ConfirmedLines, PurchasesTyped, SameNotes
<1>2. Brought(db') = Brought(db)
  <2>1. \A k \in ConfirmedLines(db) : db'.poline[db'.grnline[k].line] = db.poline[db.grnline[k].line]
    BY <1>1
  <2>2. QED
    BY <2>1 DEF Brought
<1>3. \A l : Says(db', l) = Says(db, l) /\ Says(db, l) \subseteq DOMAIN db.grnline
  BY <1>1 DEF Says
<1>4. \A l : Noted(db', Says(db', l)) = Noted(db, Says(db, l))
  BY <1>3, NotedAsBefore
<1>5. \A l \in DOMAIN db.poline : db'.poline[l].received = Noted(db', Says(db', l))
  BY <1>4 DEF ReceivedSound
<1>6. ASSUME NEW l \in DOMAIN db'.poline \ DOMAIN db.poline
      PROVE  db'.poline[l].received = Noted(db', Says(db', l))
  <2>1. Says(db, l) = {}
    BY <1>1, <1>6 DEF Says
  <2>2. Noted(db, Says(db, l)) = 0
    BY <2>1, SumOfNoRows DEF Noted
  <2>3. QED
    BY <1>4, <2>2
<1>7. ReceivedSound(db')
  BY <1>5, <1>6 DEF ReceivedSound
<1>8. QED
  BY <1>2, <1>7

\* Nothing lands, and no request begins to receive.
Still ==
    /\ \A p \in Workers : Resuming(p, "receiving")' => req'[p] = req[p]
    /\ past'.landed = past.landed
    /\ DOMAIN past' = DOMAIN past

\* Then what landed was brought, as before.
LEMMA LandingKept ==
    ASSUME PurchasesTyped(db), LandingSound, SameNotes, Brought(db') = Brought(db), Still
    PROVE  LandingSound'
<1>1. Brought(db) \subseteq DOMAIN db.grnline
  BY DEF Brought, ConfirmedLines
<1>2. \A lines \in SUBSET Brought(db) : Noted(db', lines) = Noted(db, lines)
  BY <1>1, NotedAsBefore
<1>3. past'.landed \in Int /\ past'.landed <= Noted(db', Brought(db'))
  BY <1>2 DEF LandingSound, Still
<1>4. ASSUME NEW p \in Workers, Resuming(p, "receiving")'
      PROVE  /\ req'[p].todo.lines \subseteq Brought(db')
             /\ past'.landed + Noted(db', req'[p].todo.lines) <= Noted(db', Brought(db'))
  <2>1. req'[p] = req[p] /\ Resuming(p, "receiving")
    BY <1>4 DEF Still, Resuming
  <2>2. /\ req[p].todo.lines \subseteq Brought(db)
        /\ past.landed + Noted(db, req[p].todo.lines) <= Noted(db, Brought(db))
    BY <2>1 DEF LandingSound
  <2>3. QED
    BY <1>2, <2>1, <2>2 DEF Still
<1>5. Brought(db)' = Brought(db') /\ \A lines : Noted(db, lines)' = Noted(db', lines)
  BY DEF Brought, ConfirmedLines, Noted
<1>6. QED
  BY <1>3, <1>4, <1>5 DEF LandingSound, Still, Remembered

\* An order is written with its lines: nothing of them is received.
LEMMA ReceiptsAfterOrder ==
    ASSUME ~ Concurrent, PurchasesTyped(db), ReceivedSound(db), NEW p, NEW v, NEW n \in Quantities,
           NEW lines \in OrderLines, CreatePurchaseOrder(p, v, n, lines)
    PROVE  ReceivedSound(db') /\ Brought(db') = Brought(db) /\ SameNotes
<1> DEFINE o == Len(db.po) + 1
           more == [i \in DOMAIN lines |-> PurchaseOrderLine(o, lines[i], 1)]
<1>1. /\ PurchasesTyped(db')
      /\ db'.poline = db.poline \o more
      /\ db'["grn"] = db["grn"] /\ db'["grnline"] = db["grnline"]
  BY OrderTyped DEF PurchasesTyped, PurchaseTables
<1>2. /\ more \in Seq(PoLineRows) /\ db.poline \in Seq(PoLineRows)
      /\ \A i \in 1..Len(more) : more[i].received = 0
  <2>1. o \in Nat /\ lines \in Seq(BOOLEAN)
    BY TableRows, ProcurementAssumption DEF PurchasesTyped
  <2>2. \A b \in BOOLEAN : PurchaseOrderLine(o, b, 1) \in PoLineRows /\ PurchaseOrderLine(o, b, 1).received = 0
    BY <2>1 DEF PurchaseOrderLine, PoLineRows
  <2> HIDE DEF o
  <2>3. Len(lines) \in Nat /\ DOMAIN lines = 1..Len(lines) /\ \A i \in 1..Len(lines) : lines[i] \in BOOLEAN
    BY <2>1, TableRows
  <2>4. \A i \in 1..Len(lines) : more[i] \in PoLineRows /\ more[i].received = 0
    BY <2>2, <2>3
  <2>5. more \in Seq(PoLineRows) /\ Len(more) = Len(lines)
    <3>1. DOMAIN more = 1..Len(lines) /\ more = [k \in 1..Len(lines) |-> more[k]]
      BY <2>3
    <3> HIDE DEF more
    <3>2. QED
      BY <2>3, <2>4, <3>1, TableByNumber
  <2> HIDE DEF more
  <2>6. QED
    BY <2>4, <2>5 DEF PurchasesTyped
<1> HIDE DEF more
<1>3. /\ DOMAIN db.poline \subseteq DOMAIN db'.poline
      /\ \A l \in DOMAIN db.poline : db'.poline[l] = db.poline[l]
      /\ \A l \in DOMAIN db'.poline \ DOMAIN db.poline : db'.poline[l].received = 0
  <2>1. /\ DOMAIN db'.poline = 1..(Len(db.poline) + Len(more))
        /\ \A l \in DOMAIN db.poline : db'.poline[l] = db.poline[l]
        /\ \A i \in 1..Len(more) : db'.poline[Len(db.poline) + i] = more[i]
        /\ DOMAIN db.poline \subseteq DOMAIN db'.poline
    BY <1>1, <1>2, TableInserts
  <2>2. Len(db.poline) \in Nat /\ DOMAIN db.poline = 1..Len(db.poline) /\ Len(more) \in Nat
    BY <1>2, TableRows
  <2>3. \A l \in DOMAIN db'.poline \ DOMAIN db.poline :
            l - Len(db.poline) \in 1..Len(more) /\ l = Len(db.poline) + (l - Len(db.poline))
    BY <2>1, <2>2
  <2>4. QED
    BY <1>2, <2>1, <2>3
<1>4. SameNotes /\ ConfirmedLines(db') = ConfirmedLines(db)
  BY <1>1 DEF SameNotes, ConfirmedLines
<1>5. QED
  BY <1>1, <1>3, <1>4, ReceiptsKept

\* A note is written: it is a draft.
LEMMA ReceiptsAfterNote ==
    ASSUME ~ Concurrent, PurchasesTyped(db), ReceivedSound(db), NEW p, NEW o, NEW w \in Warehouses \cup {None},
           NEW q \in Quantities, CreateGrn(p, o, w, q)
    PROVE  ReceivedSound(db') /\ Brought(db') = Brought(db) /\ SameNotes
<1> DEFINE g == Len(db.grn) + 1
           row == GoodsReceiptNote(o, w)
<1>1. /\ PurchasesTyped(db')
      /\ db'.grn = Append(db.grn, row)
      /\ DOMAIN db.grnline \subseteq DOMAIN db'.grnline
      /\ \A k \in DOMAIN db.grnline : db'.grnline[k] = db.grnline[k]
      /\ \A k \in DOMAIN db'.grnline \ DOMAIN db.grnline : db'.grnline[k].grn = g
      /\ db'["poline"] = db["poline"]
  BY NoteWritten DEF PurchasesTyped, PurchaseTables
<1>2. row.status = "draft"
  BY DEF GoodsReceiptNote
<1>3. /\ db.grn \in Seq(NoteRows) /\ db'.grn \in Seq(NoteRows)
      /\ g \notin DOMAIN db.grn
  BY <1>1, TableRows DEF PurchasesTyped
<1> HIDE DEF row
<1>4. row \in NoteRows
  <2>1. Append(db.grn, row)[Len(db.grn) + 1] = row /\ Len(db.grn) + 1 \in DOMAIN Append(db.grn, row)
    BY <1>1, <1>3, TableRows
  <2>2. QED
    BY <1>1, <1>3, <2>1, TableRows
<1>5. db'.grn[g] = row /\ \A m \in DOMAIN db.grn : db'.grn[m] = db.grn[m]
  BY <1>1, <1>3, <1>4, TableInsert
<1> HIDE DEF g
<1>6. ConfirmedLines(db') = ConfirmedLines(db)
  <2>1. \A k \in DOMAIN db.grnline : db'.grn[db'.grnline[k].grn] = db.grn[db.grnline[k].grn]
    BY <1>1, <1>5 DEF PurchasesTyped
  <2>2. \A k \in DOMAIN db'.grnline \ DOMAIN db.grnline : db'.grn[db'.grnline[k].grn].status = "draft"
    BY <1>1, <1>2, <1>5
  <2>3. QED
    BY <1>1, <2>1, <2>2 DEF ConfirmedLines
<1>7. SameNotes
  BY <1>1 DEF SameNotes
<1>8. QED
  BY <1>1, <1>6, <1>7, ReceiptsKept

\* A note is confirmed: its lines are drawn down and are to land.
LEMMA ReceiptsAfterConfirmation ==
    ASSUME ~ Concurrent, MaterialsSound, ReceivedSound(db), LandingSound, NEW p \in Workers, NEW g,
           ConfirmGoodsReceipt(p, g)
    PROVE  ReceivedSound(db') /\ LandingSound'
<1> DEFINE NL == NoteLines(db, g)
           T == TrackedLines(db, g)
           of(l) == {k \in NL : db.grnline[k].line = l}
<1>1. PurchasesTyped(db) /\ p \in DOMAIN req
  BY DEF MaterialsSound, Alone
<1>2. /\ g \in DOMAIN db.grn /\ db.grn[g].status # "confirmed"
      /\ db'.grn = [db.grn EXCEPT ![g] = [db.grn[g] EXCEPT !.status = "confirmed"]]
      /\ DOMAIN db'.poline = DOMAIN db.poline
      /\ db'["grnline"] = db["grnline"]
      /\ past' = past
  BY <1>1, NoteConfirmed DEF PurchasesTyped, PurchaseTables
<1>3. \A l \in DOMAIN db.poline :
        /\ db'.poline[l].tracked = db.poline[l].tracked
        /\ db'.poline[l].received = db.poline[l].received + Noted(db, of(l))
  <2>1. /\ PurchasesTyped(db')
        /\ g \in DOMAIN db.grn /\ db.grn[g].status # "confirmed"
        /\ db'.grn = [db.grn EXCEPT ![g] = [db.grn[g] EXCEPT !.status = "confirmed"]]
        /\ DOMAIN db'.poline = DOMAIN db.poline
        /\ \A l \in DOMAIN db.poline : db'.poline[l] = [db.poline[l] EXCEPT !.received =
                 @ + SumOf(db.grnline, "qty", {k \in NoteLines(db, g) : db.grnline[k].line = l})]
        /\ \A t \in DOMAIN db \ {"grn", "poline"} : db'[t] = db[t]
        /\ DOMAIN db' = DOMAIN db
        /\ past' = past
        /\ \A q \in Workers : req[q] = Idle
        /\ TrackedLines(db, g) # {} => db.grn[g].at # None
        /\ req' = [req EXCEPT ![p] = [at |-> "receiving",
                     todo |-> [at |-> db.grn[g].at, lines |-> TrackedLines(db, g)], seen |-> <<>>]]
    BY <1>1, NoteConfirmed, Zenon
  <2>2. \A l \in DOMAIN db.poline : db.poline[l] \in PoLineRows
    BY <1>1, TableRows DEF PurchasesTyped
  <2>3. QED
    BY <2>1, <2>2 DEF PoLineRows, Noted
<1>4. /\ db'.grn[g].status = "confirmed"
      /\ \A m \in DOMAIN db.grn \ {g} : db'.grn[m].status = db.grn[m].status
  <2>1. db.grn[g] \in NoteRows
    BY <1>1, <1>2, TableRows DEF PurchasesTyped
  <2>2. [db.grn[g] EXCEPT !.status = "confirmed"].status = "confirmed"
    BY <2>1 DEF NoteRows
  <2>3. QED
    BY <1>2, <2>2
<1>5. /\ ConfirmedLines(db') = ConfirmedLines(db) \cup NL
      /\ ConfirmedLines(db) \cap NL = {}
      /\ ConfirmedLines(db) \subseteq DOMAIN db.grnline /\ NL \subseteq DOMAIN db.grnline
  BY <1>1, <1>2, <1>4 DEF ConfirmedLines, NoteLines, PurchasesTyped
<1>6. \A k \in DOMAIN db.grnline :
        /\ db'.grnline[k] = db.grnline[k] /\ db.grnline[k].line \in DOMAIN db.poline
        /\ db'.poline[db.grnline[k].line].tracked = db.poline[db.grnline[k].line].tracked
  BY <1>1, <1>2, <1>3 DEF PurchasesTyped
<1>7. T = {k \in NL : db.poline[db.grnline[k].line].tracked}
  BY DEF TrackedLines
<1> HIDE DEF T
<1>8. /\ Brought(db') = Brought(db) \cup T /\ Brought(db) \cap T = {}
      /\ Brought(db) \subseteq DOMAIN db.grnline /\ T \subseteq DOMAIN db.grnline
  BY <1>5, <1>6, <1>7 DEF Brought
<1>9. \A lines : Noted(db', lines) = Noted(db, lines)
  BY <1>2 DEF Noted
<1>10. ReceivedSound(db')
  <2> SUFFICES ASSUME NEW l \in DOMAIN db.poline
               PROVE  db'.poline[l].received = Noted(db', Says(db', l))
    BY <1>2 DEF ReceivedSound
  <2>1. /\ Says(db', l) = Says(db, l) \cup of(l) /\ Says(db, l) \cap of(l) = {}
        /\ Says(db, l) \subseteq DOMAIN db.grnline /\ of(l) \subseteq DOMAIN db.grnline
    BY <1>5, <1>6 DEF Says
  <2>2. Noted(db, Says(db, l) \cup of(l)) = Noted(db, Says(db, l)) + Noted(db, of(l))
    <3> HIDE DEF of
    <3>1. QED
      BY <1>1, <2>1, NotedByBoth
  <2>3. db.poline[l].received = Noted(db, Says(db, l))
    BY DEF ReceivedSound
  <2>4. QED
    BY <1>3, <1>9, <2>1, <2>2, <2>3
<1>11. Noted(db', Brought(db')) = Noted(db, Brought(db)) + Noted(db, T)
  BY <1>1, <1>8, <1>9, NotedByBoth
<1>12. Noted(db, T) \in Nat /\ Noted(db, Brought(db)) \in Nat
  BY <1>1, <1>8, NotedIsNatural
<1>13. past'.landed \in Int /\ past'.landed <= Noted(db, Brought(db))
  BY <1>2 DEF LandingSound
<1>14. /\ req'[p].todo.lines = T
       /\ \A q \in Workers \ {p} : req'[q] = Idle
  BY ConfirmationStep DEF T
<1>15. ASSUME NEW q \in Workers, Resuming(q, "receiving")'
       PROVE  /\ req'[q].todo.lines \subseteq Brought(db')
              /\ past'.landed + Noted(db', req'[q].todo.lines) <= Noted(db', Brought(db'))
  <2>1. q = p
    BY <1>14, <1>15 DEF Resuming, Idle
  <2>2. QED
    BY <1>8, <1>9, <1>11, <1>12, <1>13, <1>14, <2>1
<1>16. past'.landed <= Noted(db', Brought(db'))
  BY <1>11, <1>12, <1>13
<1>17. Brought(db)' = Brought(db') /\ \A lines : Noted(db, lines)' = Noted(db', lines)
  BY DEF Brought, ConfirmedLines, Noted
<1>18. Remembered'
  BY <1>2 DEF LandingSound, Remembered
<1>19. LandingSound'
  BY <1>13, <1>15, <1>16, <1>17, <1>18 DEF LandingSound
<1>20. QED
  BY <1>10, <1>19

\* A line of a confirmed note lands.
LEMMA ReceiptsAfterLanding ==
    ASSUME ~ Concurrent, MaterialsSound, ReceivedSound(db), LandingSound, NEW p \in Workers, NEW k,
           ReceiveNoteLine(p, k)
    PROVE  ReceivedSound(db') /\ LandingSound'
<1> DEFINE todo == [req[p].todo EXCEPT !.lines = @ \ {k}]
           q == db.grnline[k].qty
           L == req[p].todo.lines
<1>1. /\ Keeps(BalanceTables) /\ req[p].at = "receiving" /\ k \in L
      /\ req' = [req EXCEPT ![p] = [at |-> "receiving", seen |-> <<>>, todo |-> todo]]
      /\ past' = [past EXCEPT !.booked = @ + q, !.landed = @ + q]
  <2>1. /\ StepIsSound /\ Keeps(BalanceTables)
        /\ req[p].at = "receiving" /\ k \in req[p].todo.lines
        /\ req' = [req EXCEPT ![p] = [at |-> "receiving", seen |-> <<>>,
             todo |-> [req[p].todo EXCEPT !.lines = @ \ {k}]]]
        /\ past' = [past EXCEPT !.booked = @ + db.grnline[k].qty, !.landed = @ + db.grnline[k].qty]
    BY NoteLineReceived, Zenon DEF MaterialsSound
  <2>2. QED
    BY <2>1
<1>2. db'["poline"] = db["poline"] /\ db'["grn"] = db["grn"] /\ db'["grnline"] = db["grnline"]
  BY <1>1 DEF Keeps, BalanceTables, MaterialsSound, PurchasesTyped, PurchaseTables
<1>3. ReceivedSound(db') /\ Brought(db') = Brought(db) /\ \A lines : Noted(db', lines) = Noted(db, lines)
  BY <1>2 DEF ReceivedSound, Noted, Says, Brought, ConfirmedLines
<1>4. PurchasesTyped(db) /\ DOMAIN req = Workers /\ \A r \in Workers \ {p} : req[r] = Idle
  BY <1>1 DEF MaterialsSound, Alone, Idle
<1>5. todo.lines = L \ {k}
  <2>1. req[p].todo \in [at : Warehouses \cup {None}, lines : SUBSET DOMAIN db.grnline]
    BY <1>1 DEF MaterialsSound, ReceivingTyped, Resuming
  <2>2. QED
    BY <2>1
<1> HIDE DEF todo
<1>6. req'[p].todo.lines = L \ {k} /\ \A r \in Workers \ {p} : req'[r] = Idle
  BY <1>1, <1>4, <1>5
<1>7. /\ L \subseteq Brought(db) /\ L \in SUBSET DOMAIN db.grnline
      /\ past.landed \in Int
      /\ past.landed + Noted(db, L) <= Noted(db, Brought(db))
  BY <1>1 DEF LandingSound, Resuming, Brought, ConfirmedLines
<1>8. /\ L \ {k} \in SUBSET DOMAIN db.grnline /\ k \in DOMAIN db.grnline
      /\ Noted(db, L \ {k}) \in Nat /\ Noted(db, L) \in Nat /\ q \in Nat
      /\ Noted(db, Brought(db)) \in Nat
  <2>1. L \ {k} \in SUBSET DOMAIN db.grnline /\ k \in L /\ Brought(db) \in SUBSET DOMAIN db.grnline
    BY <1>1, <1>7 DEF Brought, ConfirmedLines
  <2>2. Noted(db, L) \in Nat /\ \A j \in L : db.grnline[j]["qty"] \in Nat
    BY <1>4, <1>7, NotedIsNatural
  <2>3. Noted(db, L \ {k}) \in Nat /\ Noted(db, Brought(db)) \in Nat
    BY <1>4, <2>1, NotedIsNatural
  <2>4. QED
    BY <1>7, <2>1, <2>2, <2>3
<1>9. Noted(db, L \ {k}) = Noted(db, L) - q
  <2> DEFINE t == db.grnline
  <2>1. /\ IsFiniteSet(L) /\ \A j \in L : t[j]["qty"] \in Int
    BY <1>4, <1>7, NotedIsNatural
  <2>2. k \in L /\ L \subseteq DOMAIN t /\ L \ {k} \subseteq DOMAIN t
    BY <1>1, <1>7
  <2> HIDE DEF t, L
  <2>3. SumOf(t, "qty", L \ {k}) = SumOf(t, "qty", L) - t[k]["qty"]
    BY <2>1, <2>2, SumOfOneLess
  <2>4. QED
    BY <2>3 DEF Noted, t
<1>10. past'.landed = past.landed + q /\ DOMAIN past' = DOMAIN past
  BY <1>1 DEF LandingSound, Remembered
<1> HIDE DEF q, L
<1>11. past'.landed \in Int /\ past'.landed <= Noted(db', Brought(db'))
  BY <1>3, <1>7, <1>8, <1>9, <1>10
<1>12. ASSUME NEW r \in Workers, Resuming(r, "receiving")'
       PROVE  /\ req'[r].todo.lines \subseteq Brought(db')
              /\ past'.landed + Noted(db', req'[r].todo.lines) <= Noted(db', Brought(db'))
  <2>1. r = p
    BY <1>6, <1>12 DEF Resuming, Idle
  <2>2. req'[r].todo.lines = L \ {k} /\ L \ {k} \subseteq Brought(db')
    BY <1>3, <1>6, <1>7, <2>1
  <2>3. past'.landed + Noted(db, L \ {k}) <= Noted(db, Brought(db))
    BY <1>7, <1>8, <1>9, <1>10
  <2>4. QED
    BY <1>3, <2>2, <2>3
<1>13. Brought(db)' = Brought(db') /\ \A lines : Noted(db, lines)' = Noted(db', lines)
  BY DEF Brought, ConfirmedLines, Noted
<1>14. Remembered'
  BY <1>10 DEF LandingSound, Remembered
<1>15. LandingSound'
  BY <1>11, <1>12, <1>13, <1>14 DEF LandingSound
<1>16. QED
  BY <1>3, <1>15

\* The routes of orders write no notes, and of their lines only new ones.
LEMMA OrderRoutesKeepNotes ==
    ASSUME ~ Concurrent, PurchasesTyped(db), NEW p, OrderRoutes(p)
    PROVE  \/ \E v : \E n \in Quantities, lines \in OrderLines : CreatePurchaseOrder(p, v, n, lines)
           \/ db'.grn = db.grn /\ db'.grnline = db.grnline /\ db'.poline = db.poline
<1> DEFINE Kept == db'["grn"] = db["grn"] /\ db'["grnline"] = db["grnline"] /\ db'["poline"] = db["poline"]
<1>1. {"grn", "grnline", "poline"} \subseteq DOMAIN db \ {"po", "postep"}
  BY DEF PurchasesTyped, PurchaseTables
<1>2. ASSUME NEW o, NEW n \in 0..2, InitiatePoApproval(p, o, n) PROVE Kept
  <2>1. n \in Nat
    OBVIOUS
  <2>2. /\ PurchasesTyped(db')
        /\ o \in DOMAIN db.po /\ n > 0 /\ StepsOf(db, o) = {}
        /\ db'.po = [db.po EXCEPT ![o] = [db.po[o] EXCEPT !.status = "pending_approval"]]
        /\ db'.postep = db.postep \o [i \in 1..n |-> POApprovalStep(o, i)]
        /\ \A t \in DOMAIN db \ {"po", "postep"} : db'[t] = db[t]
    BY <1>2, <2>1, ApprovalInitiated, Zenon
  <2>3. QED
    BY <1>1, <2>2
<1>3. ASSUME NEW o, NEW waiver \in BOOLEAN, IssuePurchaseOrder(p, o, waiver) PROVE Kept
  <2>1. \A t \in DOMAIN db \ {"po"} : db'[t] = db[t]
    BY <1>3, OrderIssued
  <2>2. QED
    BY <1>1, <2>1
<1>4. ASSUME NEW k, NEW d \in {"approved", "rejected"}, DecidePoApprovalStep(p, k, d) PROVE Kept
  <2>1. \A t \in DOMAIN db \ {"po", "postep"} : db'[t] = db[t]
    BY <1>4, StepDecided
  <2>2. QED
    BY <1>1, <2>1
<1> HIDE DEF Kept
<1>5. \/ \E v : \E n \in Quantities, lines \in OrderLines : CreatePurchaseOrder(p, v, n, lines)
      \/ Kept
  BY <1>2, <1>3, <1>4 DEF OrderRoutes
<1>6. QED
  BY <1>5 DEF Kept

\* A step that no history is told of.
LEMMA ReceiptsWhenStill ==
    ASSUME ~ Concurrent, MaterialsSound, ReceivedSound(db), LandingSound, Still, [Next]_<<part, vars>>,
           \A p \in Workers : \A g : ~ ConfirmGoodsReceipt(p, g),
           \A p \in Workers : \A k : ~ ReceiveNoteLine(p, k)
    PROVE  ReceivedSound(db') /\ LandingSound'
<1> DEFINE Said == ReceivedSound(db') /\ Brought(db') = Brought(db) /\ SameNotes
<1>1. PurchasesTyped(db)
  BY DEF MaterialsSound
<1>2. ASSUME db'.grn = db.grn, db'.grnline = db.grnline, db'.poline = db.poline PROVE Said
  <2>1. ConfirmedLines(db') = ConfirmedLines(db)
    BY <1>2 DEF ConfirmedLines
  <2>2. \A l : Says(db', l) = Says(db, l)
    BY <1>2, <2>1 DEF Says
  <2>3. \A lines : Noted(db', lines) = Noted(db, lines)
    BY <1>2 DEF Noted
  <2>4. ReceivedSound(db')
    BY <1>2, <2>2, <2>3 DEF ReceivedSound
  <2>5. Brought(db') = Brought(db) /\ SameNotes
    BY <1>2, <2>1 DEF Brought, SameNotes
  <2>6. QED
    BY <2>4, <2>5
<1>3. ASSUME NEW names, Keeps(names), names \cap {"grn", "grnline", "poline"} = {} PROVE Said
  <2>1. db'["grn"] = db["grn"] /\ db'["grnline"] = db["grnline"] /\ db'["poline"] = db["poline"]
    BY <1>1, <1>3 DEF Keeps, PurchasesTyped, PurchaseTables
  <2>2. QED
    BY <1>2, <2>1
<1> HIDE DEF Said
<1>4. ASSUME NEW p \in Workers, CreateVendor(p) \/ BankingChange(p) PROVE Said
  <2>1. Keeps({"vendor"}) \/ Keeps({"bankchange", "vendor"})
    BY <1>4, VendorStep, BankingChangeStep
  <2>2. QED
    BY <1>3, <2>1
<1>5. ASSUME NEW p \in Workers, NEW v, NEW n \in Quantities, NEW lines \in OrderLines,
             CreatePurchaseOrder(p, v, n, lines)
      PROVE  Said
  BY <1>1, <1>5, ReceiptsAfterOrder DEF Said
<1>6. ASSUME NEW p \in Workers, OrderRoutes(p) PROVE Said
  BY <1>1, <1>2, <1>5, <1>6, OrderRoutesKeepNotes
<1>7. ASSUME NEW p \in Workers, GoodsReceiptRoutes(p) PROVE Said
  <2>1. ASSUME NEW o, NEW w \in Warehouses \cup {None}, NEW q \in Quantities, CreateGrn(p, o, w, q) PROVE Said
    BY <1>1, <2>1, ReceiptsAfterNote DEF Said
  <2>2. ASSUME AllReceived(p) PROVE Said
    BY <1>2, <2>2 DEF AllReceived
  <2>3. QED
    BY <1>7, <2>1, <2>2 DEF GoodsReceiptRoutes
<1>8. ASSUME \A t \in PurchaseTables : db'[t] = db[t] PROVE Said
  <2>1. db'["grn"] = db["grn"] /\ db'["grnline"] = db["grnline"] /\ db'["poline"] = db["poline"]
    BY <1>8 DEF PurchaseTables
  <2>2. QED
    BY <1>2, <2>1
<1>9. Said
  BY <1>4, <1>5, <1>6, <1>7, <1>8, PurchaseWriters
<1>10. LandingSound'
  BY <1>1, <1>9, LandingKept DEF Said
<1>11. QED
  BY <1>9, <1>10 DEF Said

\* Every step keeps receipts true to the notes.
LEMMA ReceiptsAfterStep ==
    ASSUME ~ Concurrent, MaterialsSound, ReceivedSound(db), LandingSound, [Next]_<<part, vars>>
    PROVE  ReceivedSound(db') /\ LandingSound'
<1>1. ASSUME NEW p \in Workers, NEW k, ReceiveNoteLine(p, k) PROVE ReceivedSound(db') /\ LandingSound'
  BY <1>1, ReceiptsAfterLanding
<1>2. ASSUME NEW p \in Workers, NEW g, ConfirmGoodsReceipt(p, g) PROVE ReceivedSound(db') /\ LandingSound'
  BY <1>2, ReceiptsAfterConfirmation
<1>3. ASSUME NEW p \in Workers, NEW t, NEW n, ReconcileTank(p, t, n) PROVE Still
  <2>1. /\ req' = [req EXCEPT ![p] = Idle]
        /\ past' = [past EXCEPT !.dipped = @ + n - db.tank[t].level]
    BY <1>3, DipTouches
  <2>2. DOMAIN req = Workers /\ Remembered
    BY DEF MaterialsSound, Alone, LandingSound
  <2>3. QED
    BY <2>1, <2>2 DEF Still, Resuming, Idle, Remembered
<1>4. ASSUME Quiet PROVE Still
  BY <1>4 DEF Quiet, Still
<1>5. Remembered
  BY DEF LandingSound
<1> HIDE DEF Remembered
<1>6. CASE Still
  BY <1>1, <1>2, <1>6, ReceiptsWhenStill
<1>7. \/ \E p \in Workers : \E k : ReceiveNoteLine(p, k)
      \/ \E p \in Workers : \E g : ConfirmGoodsReceipt(p, g)
      \/ Still
  BY <1>3, <1>4, <1>5, HistoryWriters
<1>8. QED
  BY <1>1, <1>2, <1>6, <1>7

\* Whatever the number of orders and notes, and however many requests die between
\* the commit of a note and the last of its lines: an order's line is drawn down by
\* what confirmed notes say of it, once (confirm_goods_receipt), and the stock never
\* gets more of a note than the note brought.
THEOREM GoodsAreReceivedAsNoted ==
    ASSUME ~ Concurrent
    PROVE  Spec => []GoodsReceivedAsNoted
<1> DEFINE Inv == MaterialsSound /\ ReceivedSound(db) /\ LandingSound
<1>1. Init => Inv
  <2> SUFFICES ASSUME Init PROVE Inv
    OBVIOUS
  <2>1. MaterialsSound
    BY FirstState
  <2>2. /\ db["poline"] = <<>> /\ db["grnline"] = <<>>
        /\ Remembered /\ past.landed = 0
    BY FirstTables, FirstPast DEF Remembered
  <2>3. ReceivedSound(db)
    BY <2>2 DEF ReceivedSound
  <2>4. Brought(db) = {}
    BY <2>2 DEF Brought, ConfirmedLines
  <2>5. Noted(db, Brought(db)) = 0
    BY <2>4, SumOfNoRows DEF Noted
  <2>6. \A p \in Workers : ~ Resuming(p, "receiving")
    BY DEF Init, Resuming, Idle
  <2>7. QED
    BY <2>1, <2>2, <2>3, <2>5, <2>6 DEF LandingSound
<1>2. Inv /\ [Next]_<<part, vars>> => Inv'
  <2> SUFFICES ASSUME Inv, [Next]_<<part, vars>> PROVE Inv'
    OBVIOUS
  <2>1. MaterialsSound'
    BY PartStep, RestingStep, StepStaysSound
  <2>2. ReceivedSound(db') /\ LandingSound'
    BY ReceiptsAfterStep
  <2>3. ReceivedSound(db)' = ReceivedSound(db')
    BY DEF ReceivedSound, Noted, Says, ConfirmedLines
  <2>4. QED
    BY <2>1, <2>2, <2>3
<1>3. Inv => GoodsReceivedAsNoted
  BY ReceiptsFollow
<1> HIDE DEF Inv
<1>4. QED
  BY <1>1, <1>2, <1>3, PTL DEF Spec

-----------------------------------------------------------------------------
(* Fuel is neither lost nor found *)

TankRows == [level : Nat]

FuelBuyRows == [tank : Nat, litres : Nat, confirmed : BOOLEAN]

FuelIssueRows == [tank : Nat, litres : Nat, needsSlip : BOOLEAN, countersigned : BOOLEAN]

FuelTyped(s) ==
    /\ {"tank", "fuelbuy", "fuelissue"} \subseteq DOMAIN s
    /\ s.tank \in Seq(TankRows)
    /\ s.fuelbuy \in Seq(FuelBuyRows)
    /\ s.fuelissue \in Seq(FuelIssueRows)
    /\ \A k \in DOMAIN s.fuelbuy : s.fuelbuy[k].tank \in DOMAIN s.tank

Stored(tanks) == SumOf(tanks, "level", DOMAIN tanks)

Confirmed(buys) == {k \in DOMAIN buys : buys[k].confirmed}

Delivered(buys) == SumOf(buys, "litres", Confirmed(buys))

Issued(issues) == SumOf(issues, "litres", DOMAIN issues)

\* The tanks hold what was delivered, less what was issued, and what dips put right.
FuelSound(s, dipped) ==
    /\ FuelTyped(s)
    /\ dipped \in Int
    /\ Stored(s.tank) = Delivered(s.fuelbuy) - Issued(s.fuelissue) + dipped

\* The invariant says what the property says.
LEMMA FuelFollows ==
    ASSUME FuelSound(db, past.dipped)
    PROVE  FuelConserved
  BY DEF FuelSound, FuelConserved, Stored, Delivered, Confirmed, Issued, IssuedLitres

\* What tables of fuel sum up to are whole numbers.
LEMMA BuysAreWhole ==
    ASSUME NEW u \in Seq(FuelBuyRows)
    PROVE  /\ IsFiniteSet(Confirmed(u)) /\ \A k \in DOMAIN u : u[k]["litres"] \in Nat
           /\ Delivered(u) \in Int
<1>1. IsFiniteSet(DOMAIN u) /\ \A k \in DOMAIN u : u[k] \in FuelBuyRows
  BY TableRows
<1>2. IsFiniteSet(Confirmed(u)) /\ Confirmed(u) \subseteq DOMAIN u
  BY <1>1, FS_Subset DEF Confirmed
<1>3. \A k \in DOMAIN u : u[k]["litres"] \in Nat
  BY <1>1 DEF FuelBuyRows
<1>4. Delivered(u) \in Int
  BY <1>2, <1>3, SumOfIsInteger DEF Delivered
<1>5. QED
  BY <1>2, <1>3, <1>4

\* The same of issues.
LEMMA IssuesAreWhole ==
    ASSUME NEW u \in Seq(FuelIssueRows)
    PROVE  /\ IsFiniteSet(DOMAIN u) /\ \A k \in DOMAIN u : u[k]["litres"] \in Nat
           /\ Issued(u) \in Int
<1>1. IsFiniteSet(DOMAIN u) /\ \A k \in DOMAIN u : u[k] \in FuelIssueRows
  BY TableRows
<1>2. \A k \in DOMAIN u : u[k]["litres"] \in Nat
  BY <1>1 DEF FuelIssueRows
<1>3. Issued(u) \in Int
  BY <1>1, <1>2, SumOfIsInteger DEF Issued
<1>4. QED
  BY <1>1, <1>2, <1>3

\* And of tanks.
LEMMA FuelIsWhole ==
    ASSUME NEW s, FuelTyped(s)
    PROVE  /\ Stored(s.tank) \in Int /\ Delivered(s.fuelbuy) \in Int /\ Issued(s.fuelissue) \in Int
           /\ IsFiniteSet(DOMAIN s.tank) /\ \A k \in DOMAIN s.tank : s.tank[k]["level"] \in Nat
<1>1. IsFiniteSet(DOMAIN s.tank) /\ \A k \in DOMAIN s.tank : s.tank[k] \in TankRows
  BY TableRows DEF FuelTyped
<1>2. \A k \in DOMAIN s.tank : s.tank[k]["level"] \in Nat
  BY <1>1 DEF TankRows
<1>3. Stored(s.tank) \in Int
  BY <1>1, <1>2, SumOfIsInteger DEF Stored
<1>4. Delivered(s.fuelbuy) \in Int /\ Issued(s.fuelissue) \in Int
  BY BuysAreWhole, IssuesAreWhole DEF FuelTyped
<1>5. QED
  BY <1>1, <1>2, <1>3, <1>4

\* A tank has another level.
LEMMA LevelChanged ==
    ASSUME NEW u \in Seq(TankRows), NEW t \in DOMAIN u, NEW row \in TankRows,
           NEW new, new = [u EXCEPT ![t] = row]
    PROVE  /\ new \in Seq(TankRows) /\ DOMAIN new = DOMAIN u
           /\ Stored(new) = Stored(u) + row.level - u[t].level
<1> DEFINE D == DOMAIN u
<1>1. /\ new \in Seq(TankRows) /\ DOMAIN new = D
      /\ new[t] = row /\ \A k \in D \ {t} : new[k] = u[k]
  BY TableUpdate
<1>2. IsFiniteSet(D) /\ \A k \in D : u[k] \in TankRows
  BY TableRows
<1>3. /\ D \subseteq DOMAIN u /\ D \subseteq DOMAIN new /\ t \in D
      /\ \A k \in D : u[k]["level"] \in Int
      /\ new[t]["level"] \in Int /\ \A k \in D \ {t} : new[k]["level"] = u[k]["level"]
  BY <1>1, <1>2 DEF TankRows
<1> HIDE DEF D
<1>4. SumOf(new, "level", D) = SumOf(u, "level", D) + new[t]["level"] - u[t]["level"]
  BY ONLY <1>2, <1>3, SumOfChangedRow
<1>5. QED
  BY <1>1, <1>4 DEF Stored, D

\* A purchase is recorded, confirmed or not.
LEMMA PurchaseAdded ==
    ASSUME NEW u \in Seq(FuelBuyRows), NEW row \in FuelBuyRows, NEW new, new = Append(u, row)
    PROVE  /\ new \in Seq(FuelBuyRows)
           /\ \A k \in DOMAIN new : new[k] = row \/ \E j \in DOMAIN u : new[k] = u[j]
           /\ Delivered(new) = Delivered(u) + (IF row.confirmed THEN row.litres ELSE 0)
<1> DEFINE y == Len(u) + 1
           S == Confirmed(u)
           R == Confirmed(new)
<1>1. /\ new \in Seq(FuelBuyRows) /\ DOMAIN new = DOMAIN u \cup {y}
      /\ new[y] = row /\ \A k \in DOMAIN u : new[k] = u[k]
      /\ y \notin DOMAIN u
  BY TableInsert, TableRows
<1>2. /\ IsFiniteSet(S) /\ \A k \in DOMAIN u : u[k]["litres"] \in Int
      /\ row["litres"] \in Int /\ Delivered(u) \in Int
  BY BuysAreWhole DEF FuelBuyRows
<1>3. S \subseteq DOMAIN u /\ R \subseteq DOMAIN new /\ y \notin S
      /\ \A k \in S : new[k]["litres"] = u[k]["litres"]
  BY <1>1 DEF Confirmed
<1>4. R = IF row.confirmed THEN S \cup {y} ELSE S
  BY <1>1 DEF Confirmed
<1>5. CASE row.confirmed
  <2>1. R = S \cup {y} /\ new[y]["litres"] = row["litres"]
    BY <1>1, <1>4, <1>5
  <2>2. \A k \in S : u[k]["litres"] \in Int
    BY <1>2, <1>3
  <2> HIDE DEF y, S, R
  <2>3. SumOf(new, "litres", R) = SumOf(u, "litres", S) + new[y]["litres"]
    BY ONLY <1>2, <1>3, <2>1, <2>2, SumOfOneMore
  <2>4. QED
    BY <1>1, <1>5, <2>1, <2>3 DEF Delivered, R, S
<1>6. CASE ~ row.confirmed
  <2>1. R = S /\ S \subseteq DOMAIN new
    BY <1>3, <1>4, <1>6
  <2> HIDE DEF y, S, R
  <2>2. SumOf(new, "litres", S) = SumOf(u, "litres", S)
    BY ONLY <1>2, <1>3, <2>1, SumOfSameRows
  <2>3. QED
    BY <1>1, <1>2, <1>6, <2>1, <2>2 DEF Delivered, R, S
<1>7. QED
  BY <1>5, <1>6

\* A delivery is confirmed.
LEMMA DeliveryConfirmed ==
    ASSUME NEW u \in Seq(FuelBuyRows), NEW k \in DOMAIN u, ~ u[k].confirmed,
           NEW row \in FuelBuyRows, row.confirmed, row.tank = u[k].tank, row["litres"] = u[k]["litres"],
           NEW new, new = [u EXCEPT ![k] = row]
    PROVE  /\ new \in Seq(FuelBuyRows) /\ DOMAIN new = DOMAIN u
           /\ \A j \in DOMAIN new : new[j].tank = u[j].tank
           /\ Delivered(new) = Delivered(u) + u[k].litres
<1> DEFINE S == Confirmed(u)
           R == Confirmed(new)
<1>1. row["litres"] \in Int
  BY DEF FuelBuyRows
<1>2. /\ new \in Seq(FuelBuyRows) /\ DOMAIN new = DOMAIN u
      /\ new[k] = row /\ \A j \in DOMAIN u \ {k} : new[j] = u[j]
  BY TableUpdate
<1>3. /\ k \notin S /\ R = S \cup {k} /\ S \subseteq DOMAIN u /\ R \subseteq DOMAIN new
      /\ \A j \in S : new[j]["litres"] = u[j]["litres"]
  BY <1>1, <1>2 DEF Confirmed
<1>4. IsFiniteSet(S) /\ \A j \in DOMAIN u : u[j]["litres"] \in Int
  BY BuysAreWhole
<1>5. (\A j \in S : u[j]["litres"] \in Int) /\ new[k]["litres"] \in Int
  BY <1>1, <1>2, <1>3, <1>4
<1>6. \A j \in DOMAIN new : new[j].tank = u[j].tank
  BY <1>1, <1>2
<1>7. new[k]["litres"] = u[k]["litres"]
  BY <1>1, <1>2
<1> HIDE DEF S, R
<1>8. SumOf(new, "litres", R) = SumOf(u, "litres", S) + new[k]["litres"]
  BY ONLY <1>3, <1>4, <1>5, SumOfOneMore
<1>9. QED
  BY <1>2, <1>6, <1>7, <1>8 DEF Delivered, S, R

\* Fuel is issued.
LEMMA IssueAdded ==
    ASSUME NEW u \in Seq(FuelIssueRows), NEW row \in FuelIssueRows, NEW new, new = Append(u, row)
    PROVE  new \in Seq(FuelIssueRows) /\ Issued(new) = Issued(u) + row.litres
<1> DEFINE y == Len(u) + 1
           S == DOMAIN u
           R == DOMAIN new
<1>1. /\ new \in Seq(FuelIssueRows) /\ R = S \cup {y}
      /\ new[y] = row /\ \A k \in S : new[k] = u[k]
      /\ y \notin S
  BY TableInsert, TableRows
<1>2. IsFiniteSet(S) /\ (\A k \in S : u[k]["litres"] \in Int) /\ row["litres"] \in Int
  BY IssuesAreWhole DEF FuelIssueRows
<1>3. S \subseteq DOMAIN u /\ R \subseteq DOMAIN new
  OBVIOUS
<1> HIDE DEF y, S, R
<1>4. SumOf(new, "litres", R) = SumOf(u, "litres", S) + new[y]["litres"]
  BY ONLY <1>1, <1>2, <1>3, SumOfOneMore
<1>5. QED
  BY <1>1, <1>4 DEF Issued, R, S

\* An issue is countersigned.
LEMMA IssueSigned ==
    ASSUME NEW u \in Seq(FuelIssueRows), NEW k \in DOMAIN u,
           NEW new, new = [u EXCEPT ![k] = [u[k] EXCEPT !.countersigned = TRUE]]
    PROVE  new \in Seq(FuelIssueRows) /\ Issued(new) = Issued(u)
<1> DEFINE row == [u[k] EXCEPT !.countersigned = TRUE]
           S == DOMAIN u
<1>1. row \in FuelIssueRows /\ row["litres"] = u[k]["litres"]
  <2>1. u[k] \in FuelIssueRows
    BY TableRows
  <2>2. QED
    BY <2>1 DEF FuelIssueRows
<1> HIDE DEF row
<1>2. /\ new \in Seq(FuelIssueRows) /\ DOMAIN new = S
      /\ new[k] = row /\ \A j \in S \ {k} : new[j] = u[j]
  <2>1. new = [u EXCEPT ![k] = row] /\ u \in Seq(FuelIssueRows) /\ k \in DOMAIN u
    BY DEF row
  <2>2. row \in FuelIssueRows
    BY <1>1
  <2>3. /\ new \in Seq(FuelIssueRows) /\ DOMAIN new = DOMAIN u
        /\ new[k] = row /\ \A j \in DOMAIN u \ {k} : new[j] = u[j]
    BY ONLY <2>1, <2>2, TableUpdate
  <2>4. QED
    BY <2>3
<1>3. IsFiniteSet(S) /\ S \subseteq DOMAIN u /\ S \subseteq DOMAIN new
      /\ \A j \in S : new[j]["litres"] = u[j]["litres"]
  BY <1>1, <1>2, IssuesAreWhole
<1> HIDE DEF S
<1>4. SumOf(new, "litres", S) = SumOf(u, "litres", S)
  BY ONLY <1>3, SumOfSameRows
<1>5. QED
  BY <1>2, <1>4 DEF Issued, S

\* Purchases of other tanks are left alone by a step that adds no tank.
LEMMA FuelBalances ==
    ASSUME NEW s, NEW d, FuelSound(s, d), NEW n, {"tank", "fuelbuy", "fuelissue"} \subseteq DOMAIN n,
           n.tank \in Seq(TankRows), n.fuelbuy \in Seq(FuelBuyRows), n.fuelissue \in Seq(FuelIssueRows),
           \A k \in DOMAIN n.fuelbuy : n.fuelbuy[k].tank \in DOMAIN n.tank,
           NEW a \in Int, NEW b \in Int, NEW c \in Int, NEW e \in Int,
           Stored(n.tank) = Stored(s.tank) + a,
           Delivered(n.fuelbuy) = Delivered(s.fuelbuy) + b,
           Issued(n.fuelissue) = Issued(s.fuelissue) + c,
           a = b - c + e
    PROVE  FuelSound(n, d + e)
<1>1. FuelTyped(n)
  BY DEF FuelTyped
<1>2. /\ Stored(s.tank) \in Int /\ Delivered(s.fuelbuy) \in Int /\ Issued(s.fuelissue) \in Int
      /\ d \in Int /\ Stored(s.tank) = Delivered(s.fuelbuy) - Issued(s.fuelissue) + d
  BY FuelIsWhole DEF FuelSound
<1>3. d + e \in Int /\ Stored(n.tank) = Delivered(n.fuelbuy) - Issued(n.fuelissue) + (d + e)
  <2>1. /\ Stored(n.tank) = Stored(s.tank) + a
        /\ Delivered(n.fuelbuy) = Delivered(s.fuelbuy) + b
        /\ Issued(n.fuelissue) = Issued(s.fuelissue) + c
        /\ a = b - c + e
        /\ a \in Int /\ b \in Int /\ c \in Int /\ e \in Int
    OBVIOUS
  <2>2. QED
    BY ONLY <1>2, <2>1
<1>4. QED
  BY <1>1, <1>3 DEF FuelSound

\* A tank is built, empty.
LEMMA FuelAfterTank ==
    ASSUME ~ Concurrent, NEW d, FuelSound(db, d), NEW p, CreateTank(p)
    PROVE  FuelSound(db', d)
<1> DEFINE u == db.tank
           y == Len(db.tank) + 1
           S == DOMAIN db.tank
           R == DOMAIN db'.tank
           new == db'.tank
<1>1. /\ FuelTyped(db) /\ d \in Int
      /\ db.tank \in Seq(TankRows) /\ db.fuelbuy \in Seq(FuelBuyRows) /\ db.fuelissue \in Seq(FuelIssueRows)
  BY DEF FuelSound, FuelTyped
<1>2. /\ db'.tank = Append(db.tank, FuelTank)
      /\ db'["fuelbuy"] = db["fuelbuy"] /\ db'["fuelissue"] = db["fuelissue"]
      /\ DOMAIN db' = DOMAIN db
  <2>1. db' = [db EXCEPT !["tank"] = Append(db["tank"], FuelTank)]
    BY CreateTouches DEF CreateTank
  <2>2. QED
    BY <1>1, <2>1 DEF FuelTyped
<1>3. FuelTank \in TankRows /\ FuelTank["level"] = 0
  BY DEF FuelTank, TankRows
<1>4. /\ new \in Seq(TankRows) /\ R = S \cup {y}
      /\ new[y] = FuelTank /\ \A k \in S : new[k] = u[k]
      /\ y \notin S
  BY <1>1, <1>2, <1>3, TableInsert, TableRows DEF FuelTyped
<1>5. /\ IsFiniteSet(S) /\ (\A k \in S : u[k]["level"] \in Int) /\ new[y]["level"] = 0
      /\ S \subseteq DOMAIN u /\ R \subseteq DOMAIN new
  BY <1>1, <1>3, <1>4, FuelIsWhole
<1>6. Stored(new) = Stored(u) + 0
  <2> HIDE DEF u, y, S, R, new
  <2>1. SumOf(new, "level", R) = SumOf(u, "level", S) + new[y]["level"]
    BY ONLY <1>4, <1>5, SumOfOneMore
  <2>2. QED
    BY <1>5, <2>1 DEF Stored, u, S, R, new
<1>7. /\ Stored(db'.tank) = Stored(db.tank) + 0
      /\ Delivered(db'.fuelbuy) = Delivered(db.fuelbuy) + 0
      /\ Issued(db'.fuelissue) = Issued(db.fuelissue) + 0
  BY <1>1, <1>2, <1>6, FuelIsWhole
<1>8. /\ {"tank", "fuelbuy", "fuelissue"} \subseteq DOMAIN db'
      /\ db'.tank \in Seq(TankRows) /\ db'.fuelbuy \in Seq(FuelBuyRows) /\ db'.fuelissue \in Seq(FuelIssueRows)
      /\ \A k \in DOMAIN db'.fuelbuy : db'.fuelbuy[k].tank \in DOMAIN db'.tank
  BY <1>1, <1>2, <1>4 DEF FuelTyped
<1> HIDE DEF u, y, S, R, new
<1>9. FuelSound(db', d + 0)
  BY <1>7, <1>8, FuelBalances
<1>10. QED
  BY <1>1, <1>9

\* A delivery is recorded, confirmed or not.
LEMMA FuelAfterPurchase ==
    ASSUME ~ Concurrent, NEW d, FuelSound(db, d), NEW p, NEW t, NEW n \in Nat, NEW c \in BOOLEAN,
           RecordPurchase(p, t, n, c)
    PROVE  FuelSound(db', d)
<1> DEFINE row == FuelPurchase(t, n, c)
           full == [db.tank[t] EXCEPT !.level = @ + n]
           more == IF c THEN n ELSE 0
<1>1. /\ FuelTyped(db) /\ d \in Int
      /\ db.tank \in Seq(TankRows) /\ db.fuelbuy \in Seq(FuelBuyRows) /\ db.fuelissue \in Seq(FuelIssueRows)
  BY DEF FuelSound, FuelTyped
<1>2. /\ t \in DOMAIN db.tank
      /\ db'.fuelbuy = Append(db.fuelbuy, row)
      /\ db'.tank = IF c THEN [db.tank EXCEPT ![t] = full] ELSE db.tank
      /\ db'["fuelissue"] = db["fuelissue"] /\ DOMAIN db' = DOMAIN db
  <2>1. t \in DOMAIN db.tank /\ db' = IF c THEN Fill(Insert(db, "fuelbuy", row), t, n) ELSE Insert(db, "fuelbuy", row)
    BY SerialRows DEF RecordPurchase, Rows, Commit
  <2> HIDE DEF row
  <2>2. QED
    BY <1>1, <2>1 DEF FuelTyped, Fill, Insert
<1>3. t \in Nat /\ db.tank[t] \in TankRows
  BY <1>1, <1>2, TableRows DEF FuelTyped
<1>4. /\ row \in FuelBuyRows /\ row.tank = t /\ row.confirmed = c /\ row.litres = n
      /\ full \in TankRows /\ full.level = db.tank[t].level + n /\ db.tank[t].level \in Nat
  BY <1>3 DEF FuelPurchase, FuelBuyRows, TankRows
<1> HIDE DEF row, full
<1>5. /\ db'.fuelbuy \in Seq(FuelBuyRows)
      /\ \A k \in DOMAIN db'.fuelbuy : db'.fuelbuy[k] = row \/ \E j \in DOMAIN db.fuelbuy : db'.fuelbuy[k] = db.fuelbuy[j]
      /\ Delivered(db'.fuelbuy) = Delivered(db.fuelbuy) + (IF row.confirmed THEN row.litres ELSE 0)
  BY <1>1, <1>2, <1>4, PurchaseAdded
<1>6. /\ db'.tank \in Seq(TankRows) /\ DOMAIN db'.tank = DOMAIN db.tank
      /\ Stored(db'.tank) = Stored(db.tank) + more
  <2>1. Stored(db.tank) \in Int
    BY <1>1, FuelIsWhole
  <2>2. CASE c
    <3>1. /\ db'.tank \in Seq(TankRows) /\ DOMAIN db'.tank = DOMAIN db.tank
          /\ Stored(db'.tank) = Stored(db.tank) + full.level - db.tank[t].level
      BY <1>1, <1>2, <1>4, <2>2, LevelChanged
    <3>2. QED
      BY <1>4, <2>1, <2>2, <3>1
  <2>3. CASE ~ c
    BY <1>1, <1>2, <2>1, <2>3 DEF FuelTyped
  <2>4. QED
    BY <2>2, <2>3
<1>7. \A k \in DOMAIN db'.fuelbuy : db'.fuelbuy[k].tank \in DOMAIN db'.tank
  BY <1>1, <1>2, <1>4, <1>5, <1>6 DEF FuelTyped
<1>8. more \in Int /\ Delivered(db'.fuelbuy) = Delivered(db.fuelbuy) + more
  BY <1>4, <1>5
<1>9. Issued(db'.fuelissue) = Issued(db.fuelissue) + 0 /\ db'.fuelissue \in Seq(FuelIssueRows)
      /\ {"tank", "fuelbuy", "fuelissue"} \subseteq DOMAIN db'
  BY <1>1, <1>2, FuelIsWhole DEF FuelTyped
<1> HIDE DEF more
<1>10. FuelSound(db', d + 0)
  BY <1>5, <1>6, <1>7, <1>8, <1>9, FuelBalances
<1>11. QED
  BY <1>1, <1>10

\* A recorded delivery is confirmed.
LEMMA FuelAfterConfirmation ==
    ASSUME ~ Concurrent, NEW d, FuelSound(db, d), NEW p, NEW k, ConfirmFuelDelivery(p, k)
    PROVE  FuelSound(db', d)
<1> DEFINE t == db.fuelbuy[k].tank
           n == db.fuelbuy[k].litres
           row == [db.fuelbuy[k] EXCEPT !.confirmed = TRUE]
           full == [db.tank[t] EXCEPT !.level = @ + n]
<1>1. /\ FuelTyped(db) /\ d \in Int
      /\ db.tank \in Seq(TankRows) /\ db.fuelbuy \in Seq(FuelBuyRows) /\ db.fuelissue \in Seq(FuelIssueRows)
  BY DEF FuelSound, FuelTyped
<1>2. /\ k \in DOMAIN db.fuelbuy /\ ~ db.fuelbuy[k].confirmed
      /\ db'.fuelbuy = [db.fuelbuy EXCEPT ![k] = row]
      /\ db'.tank = [db.tank EXCEPT ![t] = full]
      /\ db'["fuelissue"] = db["fuelissue"] /\ DOMAIN db' = DOMAIN db
  <2>1. /\ k \in DOMAIN db.fuelbuy /\ ~ db.fuelbuy[k].confirmed
        /\ db' = Fill([db EXCEPT !.fuelbuy[k].confirmed = TRUE], t, n)
    BY SerialRows DEF ConfirmFuelDelivery, Rows, Row, FillTank
  <2> HIDE DEF t, n
  <2>2. QED
    BY <1>1, <2>1 DEF FuelTyped, Fill
<1>3. t \in DOMAIN db.tank /\ db.fuelbuy[k] \in FuelBuyRows
  BY <1>1, <1>2, TableRows DEF FuelTyped
<1>4. db.tank[t] \in TankRows /\ n \in Nat
  <2>1. n \in Nat
    BY <1>3 DEF FuelBuyRows
  <2> HIDE DEF t, n
  <2>2. QED
    BY <1>1, <1>3, <2>1, TableRows DEF FuelTyped
<1>5. full \in TankRows /\ full.level = db.tank[t].level + n /\ db.tank[t].level \in Nat
  <2> HIDE DEF t, n
  <2>1. QED
    BY <1>4 DEF TankRows
<1>6. /\ db'.fuelbuy \in Seq(FuelBuyRows) /\ DOMAIN db'.fuelbuy = DOMAIN db.fuelbuy
      /\ \A j \in DOMAIN db'.fuelbuy : db'.fuelbuy[j].tank = db.fuelbuy[j].tank
      /\ Delivered(db'.fuelbuy) = Delivered(db.fuelbuy) + n
  <2>1. row \in FuelBuyRows /\ row.confirmed /\ row.tank = t /\ row["litres"] = n
    BY <1>3 DEF FuelBuyRows
  <2>2. /\ k \in DOMAIN db.fuelbuy /\ ~ db.fuelbuy[k].confirmed
        /\ db'.fuelbuy = [db.fuelbuy EXCEPT ![k] = row]
        /\ row \in FuelBuyRows /\ row.confirmed
        /\ row.tank = db.fuelbuy[k].tank /\ row["litres"] = db.fuelbuy[k]["litres"]
    BY <1>2, <2>1
  <2> HIDE DEF row
  <2>3. /\ db'.fuelbuy \in Seq(FuelBuyRows) /\ DOMAIN db'.fuelbuy = DOMAIN db.fuelbuy
        /\ \A j \in DOMAIN db'.fuelbuy : db'.fuelbuy[j].tank = db.fuelbuy[j].tank
        /\ Delivered(db'.fuelbuy) = Delivered(db.fuelbuy) + db.fuelbuy[k].litres
    BY ONLY <1>1, <2>2, DeliveryConfirmed
  <2>4. QED
    BY <2>3
<1>7. /\ db'.tank \in Seq(TankRows) /\ DOMAIN db'.tank = DOMAIN db.tank
      /\ Stored(db'.tank) = Stored(db.tank) + full.level - db.tank[t].level
  <2> HIDE DEF t, full
  <2>1. QED
    BY <1>1, <1>2, <1>3, <1>5, LevelChanged
<1>8. Stored(db'.tank) = Stored(db.tank) + n
  <2>1. Stored(db.tank) \in Int
    BY <1>1, FuelIsWhole
  <2> HIDE DEF t, n, full
  <2>2. QED
    BY <1>4, <1>5, <1>7, <2>1
<1>9. \A j \in DOMAIN db'.fuelbuy : db'.fuelbuy[j].tank \in DOMAIN db'.tank
  BY <1>1, <1>6, <1>7 DEF FuelTyped
<1>10. Issued(db'.fuelissue) = Issued(db.fuelissue) + 0 /\ db'.fuelissue \in Seq(FuelIssueRows)
       /\ {"tank", "fuelbuy", "fuelissue"} \subseteq DOMAIN db'
  <2>1. Issued(db.fuelissue) \in Int
    BY <1>1, IssuesAreWhole
  <2>2. QED
    BY <1>1, <1>2, <2>1 DEF FuelTyped
<1>11. n \in Int
  BY <1>4
<1> HIDE DEF t, n, full
<1>12. FuelSound(db', d + 0)
  BY <1>6, <1>7, <1>8, <1>9, <1>10, <1>11, FuelBalances
<1>13. QED
  BY <1>1, <1>12

\* Fuel is drawn out of a tank and an issue says so.
LEMMA FuelAfterDraw ==
    ASSUME NEW d, FuelSound(db, d), NEW t \in DOMAIN db.tank, NEW n \in Nat, n <= db.tank[t].level,
           DOMAIN db' = DOMAIN db, db'["fuelbuy"] = db["fuelbuy"],
           db'.tank = [db.tank EXCEPT ![t] = [db.tank[t] EXCEPT !.level = @ - n]],
           db'.fuelissue = Append(db.fuelissue, FuelIssue(t, n))
    PROVE  FuelSound(db', d)
<1> DEFINE less == [db.tank[t] EXCEPT !.level = @ - n]
           row == FuelIssue(t, n)
<1>1. /\ FuelTyped(db) /\ d \in Int
      /\ db.tank \in Seq(TankRows) /\ db.fuelbuy \in Seq(FuelBuyRows) /\ db.fuelissue \in Seq(FuelIssueRows)
  BY DEF FuelSound, FuelTyped
<1>2. db.tank[t] \in TankRows /\ t \in Nat
  BY <1>1, TableRows DEF FuelTyped
<1>3. /\ less \in TankRows /\ less.level = db.tank[t].level - n /\ db.tank[t].level \in Nat
      /\ row \in FuelIssueRows /\ row.litres = n
  <2>1. (n > SlipThreshold) \in BOOLEAN
    OBVIOUS
  <2>2. row \in FuelIssueRows /\ row.litres = n
    BY <1>2, <2>1 DEF FuelIssue, FuelIssueRows
  <2>3. QED
    BY <1>2, <2>2 DEF TankRows
<1> HIDE DEF less, row
<1>4. /\ db'.tank \in Seq(TankRows) /\ DOMAIN db'.tank = DOMAIN db.tank
      /\ Stored(db'.tank) = Stored(db.tank) + less.level - db.tank[t].level
  <2>1. db'.tank = [db.tank EXCEPT ![t] = less] /\ t \in DOMAIN db.tank
    BY DEF less
  <2>2. QED
    BY ONLY <1>1, <1>3, <2>1, LevelChanged
<1>5. db'.fuelissue \in Seq(FuelIssueRows) /\ Issued(db'.fuelissue) = Issued(db.fuelissue) + n
  <2>1. db'.fuelissue = Append(db.fuelissue, row)
    BY DEF row
  <2>2. QED
    BY <1>1, <1>3, <2>1, IssueAdded
<1>6. Stored(db'.tank) = Stored(db.tank) + (- n)
  BY <1>1, <1>3, <1>4, FuelIsWhole
<1>7. /\ {"tank", "fuelbuy", "fuelissue"} \subseteq DOMAIN db'
      /\ db'.fuelbuy \in Seq(FuelBuyRows) /\ Delivered(db'.fuelbuy) = Delivered(db.fuelbuy) + 0
      /\ \A j \in DOMAIN db'.fuelbuy : db'.fuelbuy[j].tank \in DOMAIN db'.tank
  <2>1. Delivered(db.fuelbuy) \in Int
    BY <1>1, BuysAreWhole
  <2>2. QED
    BY <1>1, <1>4, <2>1 DEF FuelTyped
<1>8. FuelSound(db', d + 0)
  <2>1. - n \in Int /\ n \in Int /\ 0 \in Int /\ - n = 0 - n + 0
    OBVIOUS
  <2>2. QED
    BY ONLY FuelSound(db, d), <1>4, <1>5, <1>6, <1>7, <2>1, FuelBalances
<1>9. QED
  BY <1>1, <1>8

\* An issue is countersigned.
LEMMA FuelAfterSignature ==
    ASSUME ~ Concurrent, NEW d, FuelSound(db, d), NEW p, NEW k, CountersignIssue(p, k)
    PROVE  FuelSound(db', d)
<1>1. /\ FuelTyped(db) /\ d \in Int
      /\ db.tank \in Seq(TankRows) /\ db.fuelbuy \in Seq(FuelBuyRows) /\ db.fuelissue \in Seq(FuelIssueRows)
  BY DEF FuelSound, FuelTyped
<1>2. /\ k \in DOMAIN db.fuelissue
      /\ db'.fuelissue = [db.fuelissue EXCEPT ![k] = [db.fuelissue[k] EXCEPT !.countersigned = TRUE]]
      /\ db'["fuelbuy"] = db["fuelbuy"] /\ db'["tank"] = db["tank"] /\ DOMAIN db' = DOMAIN db
  BY <1>1, SerialRows DEF CountersignIssue, Amend, Rows, Row, Commit, FuelTyped
<1>3. db'.fuelissue \in Seq(FuelIssueRows) /\ Issued(db'.fuelissue) = Issued(db.fuelissue)
  <2> DEFINE u == db.fuelissue
             new == db'.fuelissue
  <2>1. /\ u \in Seq(FuelIssueRows) /\ k \in DOMAIN u
        /\ new = [u EXCEPT ![k] = [u[k] EXCEPT !.countersigned = TRUE]]
    BY <1>1, <1>2
  <2> HIDE DEF u, new
  <2>2. new \in Seq(FuelIssueRows) /\ Issued(new) = Issued(u)
    BY ONLY <2>1, IssueSigned
  <2>3. QED
    BY <2>2 DEF u, new
<1>4. QED
  BY <1>1, <1>2, <1>3 DEF FuelSound, FuelTyped

\* What leaves the three tables alone leaves the fuel alone.
LEMMA FuelKept ==
    ASSUME NEW d, FuelSound(db, d), DOMAIN db' = DOMAIN db, db'["tank"] = db["tank"],
           db'["fuelbuy"] = db["fuelbuy"], db'["fuelissue"] = db["fuelissue"]
    PROVE  FuelSound(db', d)
  BY DEF FuelSound, FuelTyped

\* A dip reading becomes the level, and is remembered.
LEMMA FuelAfterDip ==
    ASSUME ~ Concurrent, Remembered, FuelSound(db, past.dipped), NEW p, NEW t, NEW n \in Nat,
           ReconcileTank(p, t, n)
    PROVE  FuelSound(db', past'.dipped)
<1> DEFINE new == [db.tank[t] EXCEPT !.level = n]
           e == n - db.tank[t].level
<1>1. /\ FuelTyped(db) /\ past.dipped \in Int
      /\ db.tank \in Seq(TankRows) /\ db.fuelbuy \in Seq(FuelBuyRows) /\ db.fuelissue \in Seq(FuelIssueRows)
  BY DEF FuelSound, FuelTyped
<1>2. /\ t \in DOMAIN db.tank
      /\ db'.tank = [db.tank EXCEPT ![t] = new]
      /\ past' = [past EXCEPT !.dipped = @ + n - db.tank[t].level]
      /\ db'["fuelbuy"] = db["fuelbuy"] /\ db'["fuelissue"] = db["fuelissue"] /\ DOMAIN db' = DOMAIN db
  <2>1. /\ t \in DOMAIN db.tank
        /\ db' = [Flagged(db, Differs(n, db.tank[t].level), "tank_level_mismatch") EXCEPT !.tank[t].level = n]
    BY SerialRows DEF ReconcileTank
  <2>2. \A when : /\ DOMAIN Flagged(db, when, "tank_level_mismatch") = DOMAIN db
                  /\ Flagged(db, when, "tank_level_mismatch")["tank"] = db["tank"]
                  /\ Flagged(db, when, "tank_level_mismatch")["fuelbuy"] = db["fuelbuy"]
                  /\ Flagged(db, when, "tank_level_mismatch")["fuelissue"] = db["fuelissue"]
    BY <1>1 DEF Flagged, Insert, FuelTyped
  <2>3. DOMAIN db' = DOMAIN db /\ \A u \in DOMAIN db \ {"tank", "flag"} : db'[u] = db[u]
    BY DipTouches
  <2>4. db'.tank = [db.tank EXCEPT ![t] = new]
    BY <1>1, <2>1, <2>2 DEF FuelTyped
  <2>5. db'["fuelbuy"] = db["fuelbuy"] /\ db'["fuelissue"] = db["fuelissue"]
    BY <1>1, <2>3 DEF FuelTyped
  <2> HIDE DEF new
  <2>6. past' = [past EXCEPT !.dipped = @ + n - db.tank[t].level]
    BY DipTouches
  <2>7. QED
    BY <2>1, <2>3, <2>4, <2>5, <2>6
<1>3. db.tank[t] \in TankRows
  BY <1>1, <1>2, TableRows
<1>4. /\ new \in TankRows /\ new.level = n /\ db.tank[t].level \in Nat
      /\ past'.dipped = past.dipped + e /\ e \in Int
  BY <1>1, <1>2, <1>3 DEF TankRows, Remembered
<1> HIDE DEF new
<1>5. /\ db'.tank \in Seq(TankRows) /\ DOMAIN db'.tank = DOMAIN db.tank
      /\ Stored(db'.tank) = Stored(db.tank) + new.level - db.tank[t].level
  BY ONLY <1>1, <1>2, <1>4, LevelChanged
<1>6. Stored(db.tank) \in Int /\ Delivered(db.fuelbuy) \in Int /\ Issued(db.fuelissue) \in Int
  BY <1>1, FuelIsWhole
<1>7. /\ {"tank", "fuelbuy", "fuelissue"} \subseteq DOMAIN db'
      /\ db'.fuelbuy = db.fuelbuy /\ db'.fuelissue = db.fuelissue
      /\ \A j \in DOMAIN db'.fuelbuy : db'.fuelbuy[j].tank \in DOMAIN db'.tank
  BY <1>1, <1>2, <1>5 DEF FuelTyped
<1>8. Stored(db'.tank) = Stored(db.tank) + e
  BY <1>4, <1>5, <1>6
<1>9. past'.dipped \in Int
  <2> HIDE DEF e
  <2>1. QED
    BY <1>1, <1>4
<1>10. FuelTyped(db')
  BY <1>1, <1>5, <1>7 DEF FuelTyped
<1>11. Stored(db'.tank) = Delivered(db'.fuelbuy) - Issued(db'.fuelissue) + past'.dipped
  <2>1. Stored(db.tank) = Delivered(db.fuelbuy) - Issued(db.fuelissue) + past.dipped
    BY DEF FuelSound
  <2> HIDE DEF e
  <2>2. QED
    BY <1>1, <1>4, <1>6, <1>7, <1>8, <2>1
<1>12. QED
  BY <1>9, <1>10, <1>11 DEF FuelSound

\* A run is completed: the fuel it burned is drawn, the rest is left alone.
LEMMA FuelAfterRun ==
    ASSUME ~ Concurrent, MaterialsSound, NEW d, FuelSound(db, d), NEW p, NEW o, NEW produced \in Nat,
           NEW scrapped \in Nat, NEW override \in Nat, NEW fuel \in Nat, NEW status,
           CompleteOrder(p, o, produced, scrapped, override, fuel, status)
    PROVE  FuelSound(db', d)
<1>1. /\ fuel > 0 => 1 \in DOMAIN db.tank /\ fuel <= db.tank[1].level
      /\ db'.tank = IF fuel > 0 THEN [db.tank EXCEPT ![1] = [db.tank[1] EXCEPT !.level = @ - fuel]] ELSE db.tank
      /\ db'.fuelissue = IF fuel > 0 THEN Append(db.fuelissue, FuelIssue(1, fuel)) ELSE db.fuelissue
      /\ \A t \in DOMAIN db \ ({"tank", "fuelissue", "batch", "prodorder"} \cup BalanceTables) : db'[t] = db[t]
      /\ DOMAIN db' = DOMAIN db
  BY RunCompleted DEF MaterialsSound
<1>2. db'["fuelbuy"] = db["fuelbuy"]
  BY <1>1 DEF BalanceTables, FuelSound, FuelTyped
<1>3. CASE fuel > 0
  <2>1. 1 \in DOMAIN db.tank /\ fuel <= db.tank[1].level
    BY <1>1, <1>3
  <2>2. db'.tank = [db.tank EXCEPT ![1] = [db.tank[1] EXCEPT !.level = @ - fuel]]
    BY <1>1, <1>3
  <2>3. db'.fuelissue = Append(db.fuelissue, FuelIssue(1, fuel)) /\ DOMAIN db' = DOMAIN db
    BY <1>1, <1>3
  <2>4. QED
    BY <1>2, <2>1, <2>2, <2>3, FuelAfterDraw
<1>4. CASE ~ fuel > 0
  BY <1>1, <1>2, <1>4, FuelKept
<1>5. QED
  BY <1>3, <1>4

\* Tables other than these three are written.
LEMMA FuelKeptBy ==
    ASSUME NEW d, FuelSound(db, d), NEW names, Keeps(names), names \cap {"tank", "fuelbuy", "fuelissue"} = {}
    PROVE  FuelSound(db', d)
<1>1. DOMAIN db' = DOMAIN db /\ \A t \in {"tank", "fuelbuy", "fuelissue"} : db'[t] = db[t]
  BY DEF Keeps, FuelSound, FuelTyped
<1>2. QED
  BY <1>1, FuelKept

\* A request for fuel that reads no dip stick.
LEMMA FuelAfterFuelRoutes ==
    ASSUME ~ Concurrent, NEW d, FuelSound(db, d), NEW p \in Workers,
           \/ CreateTank(p) \/ FuelPurchaseRoutes(p) \/ FuelIssueRoutes(p) \/ FuelVarianceRoutes(p)
           \/ \E n \in Litres : RecordPurchase(p, 1, n, TRUE)
           \/ \E k : FlagAges(k)
    PROVE  FuelSound(db', d)
<1>1. ASSUME NEW t, NEW n \in Litres, NEW c \in BOOLEAN, RecordPurchase(p, t, n, c) PROVE FuelSound(db', d)
  <2>1. n \in Nat
    BY FuelAssumption
  <2>2. QED
    BY <1>1, <2>1, FuelAfterPurchase
<1>2. CASE FuelPurchaseRoutes(p)
  BY <1>1, <1>2, FuelAfterConfirmation DEF FuelPurchaseRoutes
<1>3. ASSUME NEW t, NEW n \in Litres, RecordFuelIssue(p, t, n) PROVE FuelSound(db', d)
  <2>1. FuelTyped(db) /\ n \in Nat
    BY FuelAssumption DEF FuelSound
  <2>2. t \in DOMAIN db.tank /\ n <= db.tank[t].level /\ db' = Draw(db, t, n)
    BY <1>3, SerialRows DEF RecordFuelIssue, CanDraw, Commit
  <2>3. /\ DOMAIN db' = DOMAIN db /\ db'["fuelbuy"] = db["fuelbuy"]
        /\ db'.tank = [db.tank EXCEPT ![t] = [db.tank[t] EXCEPT !.level = @ - n]]
        /\ db'.fuelissue = Append(db.fuelissue, FuelIssue(t, n))
    BY <2>1, <2>2 DEF Draw, Insert, FuelTyped
  <2>4. QED
    BY <2>1, <2>2, <2>3, FuelAfterDraw
<1>4. ASSUME Touches(p, {"burnrate", "variance", "flag"}) PROVE FuelSound(db', d)
  <2>1. Keeps({"burnrate", "variance", "flag"})
    BY <1>4 DEF Touches, Keeps
  <2>2. QED
    BY <2>1, FuelKeptBy
<1>5. ASSUME NEW t \in {"burnrate", "variance", "flag"}, Touches(p, {t}) PROVE FuelSound(db', d)
  <2>1. Touches(p, {"burnrate", "variance", "flag"})
    BY <1>5, TouchesMore
  <2>2. QED
    BY <1>4, <2>1
<1>6. ASSUME NEW row, Create(p, "flag", row) PROVE FuelSound(db', d)
  BY <1>5, <1>6, CreateTouches
<1>7. CASE FuelIssueRoutes(p)
  BY <1>3, <1>6, <1>7, FuelAfterSignature DEF FuelIssueRoutes, FlagIssueWithoutUsageLog
<1>8. CASE FuelVarianceRoutes(p)
  <2>1. ASSUME NEW n, SetBurnRateProfile(p, n) PROVE Touches(p, {"burnrate"})
    BY <2>1, SerialRows DEF SetBurnRateProfile, Commit, Finish, Touches
  <2>2. ASSUME CalculateFuelVariance(p) PROVE Touches(p, {"variance"})
    BY <2>2, SerialRows DEF CalculateFuelVariance, Commit, Finish, Touches
  <2>3. ASSUME EscalateUnresolvedTheftFlags(p) PROVE Touches(p, {"flag"})
    BY <2>3, SerialRows DEF EscalateUnresolvedTheftFlags, Commit, Finish, Touches
  <2>4. QED
    BY <1>5, <1>6, <1>8, <2>1, <2>2, <2>3 DEF FuelVarianceRoutes, CheckVarianceTheftFlag
<1>9. ASSUME NEW k, FlagAges(k) PROVE FuelSound(db', d)
  <2>1. Touches(p, {"flag"})
    BY <1>9 DEF FlagAges, Touches
  <2>2. QED
    BY <1>5, <2>1
<1>10. QED
  BY <1>1, <1>2, <1>7, <1>8, <1>9, FuelAfterTank

\* Of all the parts only these read or write the tanks, their purchases and issues.
LEMMA FuelAfterOtherParts ==
    ASSUME ~ Concurrent, MaterialsSound, NEW d, FuelSound(db, d), [Next]_<<part, vars>>,
           \A p \in Workers : ~ FuelNext(p) /\ ~ ManufacturingNext(p)
    PROVE  FuelSound(db', d)
<1> DEFINE mine == {"tank", "fuelbuy", "fuelissue"}
<1>1. /\ BalanceTables \cap mine = {}
      /\ (BalanceTables \cup {"itemcode", "batch", "serial", "reorder"}) \cap mine = {}
      /\ (SourcingTables \cup {"vendor"}) \cap mine = {}
      /\ (PurchaseTables \cup SourcingTables \cup BalanceTables \cup {"match"}) \cap mine = {}
      /\ PortalTableNames \cap mine = {} /\ LedgerTableNames \cap mine = {} /\ DeliveryTables \cap mine = {}
  BY DEF BalanceTables, SourcingTables, PurchaseTables, PortalTableNames, LedgerTableNames, DeliveryTables,
         SalesDocuments
<1>2. ASSUME NEW names, Keeps(names), names \cap mine = {} PROVE FuelSound(db', d)
  BY <1>2, FuelKeptBy
<1> HIDE DEF mine
<1>3. ASSUME NEW p \in Workers, StockNext(p) PROVE Keeps(BalanceTables)
  BY <1>3, StockKeeps DEF MaterialsSound, StockSound
<1>4. ASSUME NobodyWastes, NEW p \in Workers, PostingNext(p) \/ BankingNext(p) PROVE Keeps(LedgerTableNames)
  BY <1>4, LedgerStep
<1>5. ASSUME NobodyWastes, NEW p \in Workers, TraceabilityNext(p)
      PROVE  Keeps(BalanceTables \cup {"itemcode", "batch", "serial", "reorder"})
  BY <1>5, TraceabilityStep
<1>6. ASSUME NobodyWastes, NEW p \in Workers, SourcingNext(p) PROVE Keeps(SourcingTables \cup {"vendor"})
  BY <1>6, SourcingStep
<1>7. ASSUME NobodyWastes, NEW p \in Workers, PurchasingNext(p)
      PROVE  Keeps(PurchaseTables \cup SourcingTables \cup BalanceTables \cup {"match"})
  BY <1>7, PurchasingStep
<1>8. ASSUME NobodyWastes, NEW p \in Workers, TenderingNext(p) PROVE Keeps({"rfq", "invitation", "quotation"})
  BY <1>8, TenderingStep
<1>9. ASSUME NobodyWastes, NEW p \in Workers, VendorPortalNext(p) PROVE Keeps(PortalTableNames)
  BY <1>9, VendorPortalStep
<1>10. ASSUME NobodyWastes, NEW p \in Workers, SalesNext(p) PROVE Keeps(DeliveryTables)
  BY <1>10, SalesStep
<1>11. {"rfq", "invitation", "quotation"} \cap mine = {} /\ {} \cap mine = {}
  BY DEF mine
<1>12. ASSUME UNCHANGED <<part, vars>> PROVE Keeps({})
  BY <1>12 DEF vars, Keeps
<1>13. ASSUME NEW p \in Workers, Abandon(p) PROVE Keeps({})
  BY <1>13 DEF Abandon, Keeps
<1>14. \/ UNCHANGED <<part, vars>>
       \/ \E p \in Workers : Abandon(p) \/ StockNext(p)
       \/ /\ NobodyWastes
          /\ \E p \in Workers :
                \/ TraceabilityNext(p) \/ SourcingNext(p) \/ PurchasingNext(p)
                \/ TenderingNext(p) \/ VendorPortalNext(p) \/ PostingNext(p) \/ BankingNext(p) \/ SalesNext(p)
  BY WhoSteps
<1>15. QED
  BY <1>1, <1>2, <1>3, <1>4, <1>5, <1>6, <1>7, <1>8, <1>9, <1>10, <1>11, <1>12, <1>13, <1>14

\* Every step but a dip reading leaves the levels in balance with the papers.
LEMMA FuelAfterStep ==
    ASSUME ~ Concurrent, MaterialsSound, NEW d, FuelSound(db, d), [Next]_<<part, vars>>,
           ~ \E p \in Workers : \E t : \E n \in {0} \cup Litres : ReconcileTank(p, t, n)
    PROVE  FuelSound(db', d)
<1>1. ASSUME NEW p \in Workers, FuelNext(p) PROVE FuelSound(db', d)
  <2>1. \/ CreateTank(p) \/ FuelPurchaseRoutes(p) \/ FuelIssueRoutes(p) \/ FuelVarianceRoutes(p)
        \/ \E k : FlagAges(k)
    BY <1>1 DEF FuelNext, TankRoutes
  <2>2. QED
    BY <2>1, FuelAfterFuelRoutes
<1>2. ASSUME NEW p \in Workers, ManufacturingNext(p) PROVE FuelSound(db', d)
  <2>1. ASSUME NEW names \in {{"center", "bom", "prodorder"}, BalanceTables}, Keeps(names) PROVE FuelSound(db', d)
    <3>1. names \cap {"tank", "fuelbuy", "fuelissue"} = {}
      BY DEF BalanceTables
    <3>2. QED
      BY <2>1, <3>1, FuelKeptBy
  <2>2. ASSUME \/ CenterRoutes(p) \/ BomRoutes(p)
               \/ \E b, n, c : CreateProductionOrder(p, b, n, c)
               \/ \E o : ReleaseOrder(p, o) \/ StartOrder(p, o) \/ CancelProduction(p, o)
        PROVE  FuelSound(db', d)
    <3>1. Touches(p, {"center", "bom", "prodorder"})
      BY <2>2, ProductionTouches
    <3>2. Keeps({"center", "bom", "prodorder"})
      BY <3>1 DEF Touches, Keeps
    <3>3. QED
      BY <2>1, <3>2
  <2>3. ASSUME NEW o, NEW scrapped \in {0, 1}, NEW override \in {0, 1}, NEW fuel \in {0, 1}, NEW st,
               CompleteOrder(p, o, 1, scrapped, override, fuel, st)
        PROVE  FuelSound(db', d)
    <3>1. 1 \in Nat /\ scrapped \in Nat /\ override \in Nat /\ fuel \in Nat
      OBVIOUS
    <3>2. QED
      BY <2>3, <3>1, FuelAfterRun
  <2>4. ASSUME NEW w \in Warehouses, NEW q \in Quantities, Receive(p, w, q) PROVE FuelSound(db', d)
    <3>1. Keeps(BalanceTables)
      BY <2>4, ReceiptStep DEF MaterialsSound
    <3>2. QED
      BY <2>1, <3>1
  <2>5. ASSUME CreateTank(p) \/ \E n \in Litres : RecordPurchase(p, 1, n, TRUE) PROVE FuelSound(db', d)
    BY <2>5, FuelAfterFuelRoutes
  <2>6. QED
    BY <1>2, <2>2, <2>3, <2>4, <2>5 DEF ManufacturingNext, ProductionRoutes
<1>3. QED
  BY <1>1, <1>2, FuelAfterOtherParts

\* Whatever the number of tanks, deliveries and issues, of this module or of a
\* production run: while requests do not overlap the tanks hold what confirmed
\* deliveries brought, each once, less what was issued, plus what dip readings put
\* right (_apply_confirmation, record_issue, reconcile_tank, complete_order).
THEOREM FuelIsConserved ==
    ASSUME ~ Concurrent
    PROVE  Spec => []FuelConserved
<1> DEFINE Inv == MaterialsSound /\ Remembered /\ FuelSound(db, past.dipped)
<1>1. Init => Inv
  <2> SUFFICES ASSUME Init PROVE Inv
    OBVIOUS
  <2>1. MaterialsSound
    BY FirstState
  <2>2. /\ {"tank", "fuelbuy", "fuelissue"} \subseteq DOMAIN db
        /\ db["tank"] = <<>> /\ db["fuelbuy"] = <<>> /\ db["fuelissue"] = <<>>
        /\ Remembered /\ past.dipped = 0
    BY FirstTables, FirstPast DEF Remembered
  <2>3. FuelTyped(db)
    <3>1. <<>> \in Seq(TankRows) /\ <<>> \in Seq(FuelBuyRows) /\ <<>> \in Seq(FuelIssueRows)
      BY EmptyTable
    <3>2. /\ db["tank"] \in Seq(TankRows) /\ db["fuelbuy"] \in Seq(FuelBuyRows)
          /\ db["fuelissue"] \in Seq(FuelIssueRows)
      BY <2>2, <3>1
    <3>3. DOMAIN db["fuelbuy"] = {}
      BY <2>2
    <3>4. QED
      BY <2>2, <3>2, <3>3 DEF FuelTyped
  <2>4. DOMAIN db["tank"] = {} /\ DOMAIN db["fuelissue"] = {} /\ Confirmed(db["fuelbuy"]) = {}
    BY <2>2 DEF Confirmed
  <2>5. Stored(db.tank) = 0 /\ Delivered(db.fuelbuy) = 0 /\ Issued(db.fuelissue) = 0
    BY <2>4, SumOfNoRows DEF Stored, Delivered, Issued
  <2>6. QED
    BY <2>1, <2>2, <2>3, <2>5 DEF FuelSound
<1>2. Inv /\ [Next]_<<part, vars>> => Inv'
  <2> SUFFICES ASSUME Inv, [Next]_<<part, vars>> PROVE Inv'
    OBVIOUS
  <2>1. MaterialsSound'
    BY PartStep, RestingStep, StepStaysSound
  <2>2. CASE \E p \in Workers : \E t : \E n \in {0} \cup Litres : ReconcileTank(p, t, n)
    <3>1. ASSUME NEW p \in Workers, NEW t, NEW n \in {0} \cup Litres, ReconcileTank(p, t, n)
          PROVE  FuelSound(db', past'.dipped) /\ Remembered'
      <4>1. n \in Nat
        BY FuelAssumption
      <4>2. FuelSound(db', past'.dipped)
        BY <3>1, <4>1, FuelAfterDip
      <4>3. Remembered'
        BY <3>1, DipTouches DEF Remembered
      <4>4. QED
        BY <4>2, <4>3
    <3>2. FuelSound(db, past.dipped)' = FuelSound(db', past'.dipped)
      BY DEF FuelSound, FuelTyped, Stored, Delivered, Issued, Confirmed
    <3>3. QED
      BY <2>1, <2>2, <3>1, <3>2
  <2>3. CASE ~ \E p \in Workers : \E t : \E n \in {0} \cup Litres : ReconcileTank(p, t, n)
    <3>1. past'.dipped = past.dipped /\ DOMAIN past' = DOMAIN past
      <4>1. \/ \E p \in Workers : \E k : ReceiveNoteLine(p, k)
            \/ \E p \in Workers : \E g : ConfirmGoodsReceipt(p, g)
            \/ Quiet
        BY <2>3, HistoryWriters
      <4>2. ASSUME NEW p \in Workers, NEW k, ReceiveNoteLine(p, k)
            PROVE  past'.dipped = past.dipped /\ DOMAIN past' = DOMAIN past
        BY <4>2 DEF ReceiveNoteLine, Remembered
      <4>3. ASSUME NEW p \in Workers, NEW g, ConfirmGoodsReceipt(p, g) PROVE past' = past
        BY <4>3 DEF ConfirmGoodsReceipt, CommitThen
      <4>4. QED
        BY <4>1, <4>2, <4>3 DEF Quiet
    <3>2. FuelSound(db', past.dipped)
      BY <2>3, FuelAfterStep
    <3>3. Remembered'
      BY <3>1 DEF Remembered
    <3>4. FuelSound(db, past.dipped)' = FuelSound(db', past'.dipped)
      BY DEF FuelSound, FuelTyped, Stored, Delivered, Issued, Confirmed
    <3>5. QED
      BY <2>1, <3>1, <3>2, <3>3, <3>4
  <2>4. QED
    BY <2>2, <2>3
<1>3. Inv => FuelConserved
  BY FuelFollows
<1> HIDE DEF Inv
<1>4. QED
  BY <1>1, <1>2, <1>3, PTL DEF Spec
=============================================================================
