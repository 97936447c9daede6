---------------------------- MODULE Books_proofs ----------------------------
(***************************************************************************)
(* What the books of sales and finance say of each other and of the        *)
(* ledger, while requests do not overlap.                                  *)
(***************************************************************************)
EXTENDS Documents_proofs

-----------------------------------------------------------------------------
(* Who writes the books of sales and finance *)

SalesBooks == {"so", "salesconf", "delivery", "invoice", "payment", "ar", "ap", "entry", "bank"}

\* No table of these is written.
BooksRest == DOMAIN db' = DOMAIN db /\ \A t \in SalesBooks : db'[t] = db[t]

\* What leaves the books alone.
LEMMA RestWhenKept ==
    ASSUME SalesBooks \subseteq DOMAIN db, NEW names, Keeps(names), names \cap SalesBooks = {}
    PROVE  BooksRest
  BY DEF Keeps, BooksRest

\* Companies, policies and statements are no postings.
LEMMA LedgerWriters ==
    ASSUME ~ Concurrent, SalesBooks \subseteq DOMAIN db, NEW p, PostingNext(p) \/ BankingNext(p)
    PROVE  \/ InvoiceRoutes(p) \/ BankRoutes(p)
           \/ \E d \in Days : \E n \in Amounts : PostArInvoice(p, d, n)
           \/ \E d \in Days : \E ls \in ManualLines : PostManualException(p, d, ls)
           \/ BooksRest
<1>1. ASSUME NEW t \in {"company", "policy", "forecast", "statement"}, NEW row, Create(p, t, row) PROVE BooksRest
  <2>1. Keeps({t})
    BY <1>1, CreateTouches DEF Touches, Keeps
  <2>2. {t} \cap SalesBooks = {}
    BY DEF SalesBooks
  <2>3. QED
    BY <2>1, <2>2, RestWhenKept
<1>2. CASE LedgerRoutes(p)
  BY <1>1, <1>2 DEF LedgerRoutes, CreateCompany, CreateBudgetPolicy
<1>3. CASE StatementRoutes(p)
  BY <1>1, <1>3 DEF StatementRoutes, GenerateCashFlowForecast, GenerateIncomeStatement
<1>4. QED
  BY <1>2, <1>3 DEF PostingNext, BankingNext

\* Whoever writes an order, a posting, an invoice, a payment or a bank line.
LEMMA BooksWriters ==
    ASSUME ~ Concurrent, MaterialsSound, SalesBooks \subseteq DOMAIN db, [Next]_<<part, vars>>
    PROVE  \/ \E p \in Workers :
                \/ SalesOrderRoutes(p) \/ SettingsRoutes(p) \/ DeliveryRoutes(p) \/ PaymentRoutes(p)
                \/ InvoiceRoutes(p) \/ BankRoutes(p)
                \/ \E d \in Days : \E n \in Amounts : PostArInvoice(p, d, n)
                \/ \E d \in Days : \E ls \in ManualLines : PostManualException(p, d, ls)
           \/ BooksRest
<1>1. /\ BalanceTables \cap SalesBooks = {}
      /\ (BalanceTables \cup {"itemcode", "batch", "serial", "reorder"}) \cap SalesBooks = {}
      /\ (SourcingTables \cup {"vendor"}) \cap SalesBooks = {}
      /\ (PurchaseTables \cup SourcingTables \cup BalanceTables \cup {"match"}) \cap SalesBooks = {}
      /\ PortalTableNames \cap SalesBooks = {} /\ FuelTableNames \cap SalesBooks = {}
      /\ ProductionTables \cap SalesBooks = {}
      /\ {"rfq", "invitation", "quotation"} \cap SalesBooks = {} /\ {} \cap SalesBooks = {}
  BY DEF BalanceTables, SourcingTables, PurchaseTables, PortalTableNames, FuelTableNames, ProductionTables, SalesBooks
<1>2. ASSUME NEW names, Keeps(names), names \cap SalesBooks = {} PROVE BooksRest
  BY <1>2, RestWhenKept
<1>3. ASSUME NEW p \in Workers, StockNext(p) PROVE Keeps(BalanceTables)
  BY <1>3, StockKeeps DEF MaterialsSound, StockSound
<1>4. ASSUME NobodyWastes, NEW p \in Workers, FuelNext(p) PROVE Keeps(FuelTableNames)
  BY <1>4, FuelStep
<1>5. ASSUME NobodyWastes, NEW p \in Workers, TraceabilityNext(p)
      PROVE  Keeps(BalanceTables \cup {"itemcode", "batch", "serial", "reorder"})
  BY <1>5, TraceabilityStep
<1>6. ASSUME NobodyWastes, NEW p \in Workers, SourcingNext(p) PROVE Keeps(SourcingTables \cup {"vendor"})
  BY <1>6, SourcingStep
<1>7. ASSUME NobodyWastes, NEW p \in Workers, PurchasingNext(p)
      PROVE  Keeps(PurchaseTables \cup SourcingTables \cup BalanceTables \cup {"match"})
  BY <1>7, PurchasingStep
<1>8. ASSUME NobodyWastes, NEW p \in Workers, TenderingNext(p) PROVE Keeps({"rfq", "invitation", "quotation"})
  BY <1>8, TenderingStep
<1>9. ASSUME NobodyWastes, NEW p \in Workers, VendorPortalNext(p) PROVE Keeps(PortalTableNames)
  BY <1>9, VendorPortalStep
<1>10. ASSUME NobodyWastes, NEW p \in Workers, ManufacturingNext(p) PROVE Keeps(ProductionTables)
  BY <1>10, ProductionStep
<1>11. ASSUME UNCHANGED <<part, vars>> PROVE Keeps({})
  BY <1>11 DEF vars, Keeps
<1>12. ASSUME NEW p \in Workers, Abandon(p) PROVE Keeps({})
  BY <1>12 DEF Abandon, Keeps
<1>13. ASSUME NEW p \in Workers, NEW w \in Warehouses, NEW q \in Quantities, Receive(p, w, q)
       PROVE  Keeps(BalanceTables)
  BY <1>13, ReceiptStep DEF MaterialsSound
<1>14. \/ UNCHANGED <<part, vars>>
       \/ \E p \in Workers : Abandon(p) \/ StockNext(p)
       \/ /\ NobodyWastes
          /\ \E p \in Workers :
                \/ TraceabilityNext(p) \/ SourcingNext(p) \/ PurchasingNext(p) \/ TenderingNext(p)
                \/ VendorPortalNext(p) \/ FuelNext(p) \/ ManufacturingNext(p)
       \/ \E p \in Workers : PostingNext(p) \/ BankingNext(p) \/ SalesNext(p)
  BY WhoSteps
<1>15. CASE \E p \in Workers : PostingNext(p) \/ BankingNext(p) \/ SalesNext(p)
  BY <1>1, <1>2, <1>13, <1>15, LedgerWriters DEF SalesNext
<1>16. QED
  BY <1>1, <1>2, <1>3, <1>4, <1>5, <1>6, <1>7, <1>8, <1>9, <1>10, <1>11, <1>12, <1>14, <1>15

-----------------------------------------------------------------------------
(* An order follows its deliveries and invoices *)

DeliveryRows == [order : Nat, qty : Nat, cost : Int]

ArRows(E) == [status : {"unpaid", "paid"}, entry : E, amount : Nat]

\* Finance invoices, of whatever entries.
DueTyped(ar) == \E E : ar \in Seq(ArRows(E))

SalesInvoiceRows == [order : Nat, ar : Nat, qty : Nat, amount : Nat, paid : Nat]

\* The row of an order of which d was delivered and n invoiced.
ServedRow(r, d, n) ==
    /\ r.delivered = d /\ r.invoiced = n
    /\ n <= d /\ d <= r.qty /\ r.qty > 0
    /\ r.status = "delivered" <=> d = r.qty
    /\ r.status = "partially_delivered" <=> d \in 1..(r.qty - 1)

\* Every order's row says what deliveries and invoices under it say.
Served(orders, notes, bills) ==
    /\ orders \in Seq(SoRows)
    /\ notes \in Seq(DeliveryRows)
    /\ bills \in Seq(SalesInvoiceRows)
    /\ \A k \in DOMAIN notes : notes[k]["order"] \in DOMAIN orders
    /\ \A k \in DOMAIN bills : bills[k]["order"] \in DOMAIN orders
    /\ \A o \in DOMAIN orders :
         ServedRow(orders[o], Under(notes, "qty", "order", o), Under(bills, "qty", "order", o))

\* The invariant says what the property says.
LEMMA DeliveriesFollow ==
    ASSUME Served(db.so, db.delivery, db.invoice)
    PROVE  OrderFollowsDeliveries
  BY DEF Served, ServedRow, OrderFollowsDeliveries, Under

\* Nothing is under a row that no row names.
LEMMA NothingUnderNew ==
    ASSUME NEW t, NEW c, NEW key, NEW o, \A k \in DOMAIN t : t[k][key] # o
    PROVE  Under(t, c, key, o) = 0
<1>1. {k \in DOMAIN t : t[k][key] = o} = {}
  OBVIOUS
<1>2. QED
  BY <1>1, SumOfNoRows DEF Under

\* An order is added, of which nothing is delivered yet.
LEMMA ServedAfterOrder ==
    ASSUME NEW so, NEW notes, NEW bills, Served(so, notes, bills), NEW row \in SoRows, NEW new, new = Append(so, row),
           row.status = "draft", row.delivered = 0, row.invoiced = 0, row.qty > 0
    PROVE  Served(new, notes, bills)
<1> DEFINE y == Len(so) + 1
<1>1. /\ new \in Seq(SoRows) /\ DOMAIN new = DOMAIN so \cup {y} /\ y \notin DOMAIN so
      /\ new[y] = row /\ \A o \in DOMAIN so : new[o] = so[o]
  BY TableInsert, TableRows DEF Served
<1>2. Under(notes, "qty", "order", y) = 0 /\ Under(bills, "qty", "order", y) = 0
  <2>1. /\ \A k \in DOMAIN notes : notes[k]["order"] # y
        /\ \A k \in DOMAIN bills : bills[k]["order"] # y
    BY <1>1 DEF Served
  <2> HIDE DEF y
  <2>2. QED
    BY <2>1, NothingUnderNew
<1>3. ServedRow(row, 0, 0)
  <2>1. row.qty \in Nat
    BY DEF SoRows
  <2>2. QED
    BY <2>1 DEF ServedRow
<1> HIDE DEF y
<1>4. \A o \in DOMAIN new :
        ServedRow(new[o], Under(notes, "qty", "order", o), Under(bills, "qty", "order", o))
  <2>1. ASSUME NEW o \in DOMAIN so
        PROVE  ServedRow(new[o], Under(notes, "qty", "order", o), Under(bills, "qty", "order", o))
    BY <1>1 DEF Served
  <2>2. ServedRow(new[y], Under(notes, "qty", "order", y), Under(bills, "qty", "order", y))
    BY <1>1, <1>2, <1>3
  <2>3. QED
    BY <1>1, <2>1, <2>2
<1>5. QED
  BY <1>1, <1>4 DEF Served

\* An order has another row, that fits what was delivered and invoiced before.
LEMMA ServedAfterChange ==
    ASSUME NEW so, NEW notes, NEW bills, Served(so, notes, bills), NEW o \in DOMAIN so, NEW new \in Seq(SoRows),
           DOMAIN new = DOMAIN so, \A k \in DOMAIN so \ {o} : new[k] = so[k],
           ServedRow(new[o], so[o].delivered, so[o].invoiced)
    PROVE  Served(new, notes, bills)
<1>2. ServedRow(new[o], Under(notes, "qty", "order", o), Under(bills, "qty", "order", o))
  <2>1. so[o].delivered = Under(notes, "qty", "order", o) /\ so[o].invoiced = Under(bills, "qty", "order", o)
    BY DEF Served, ServedRow
  <2>2. QED
    BY <2>1
<1>3. \A k \in DOMAIN new :
        ServedRow(new[k], Under(notes, "qty", "order", k), Under(bills, "qty", "order", k))
  BY <1>2 DEF Served
<1>4. QED
  BY <1>3 DEF Served

\* A row of what was ordered, and what it knows.
LEMMA ServedIsWhole ==
    ASSUME NEW so, NEW notes, NEW bills, Served(so, notes, bills), NEW o \in DOMAIN so
    PROVE  /\ so[o] \in SoRows /\ ServedRow(so[o], so[o].delivered, so[o].invoiced)
           /\ so[o].delivered = Under(notes, "qty", "order", o)
           /\ so[o].invoiced = Under(bills, "qty", "order", o)
           /\ o \in Nat
<1>1. so[o] \in SoRows /\ o \in Nat
  BY TableRows DEF Served
<1>2. QED
  BY <1>1 DEF Served, ServedRow

\* A delivery note is added and its order says so.
LEMMA ServedAfterDelivery ==
    ASSUME NEW so, NEW notes, NEW bills, Served(so, notes, bills), NEW o \in DOMAIN so, NEW new \in Seq(SoRows),
           DOMAIN new = DOMAIN so, \A k \in DOMAIN so \ {o} : new[k] = so[k], NEW note \in DeliveryRows,
           note["order"] = o, ServedRow(new[o], so[o].delivered + note["qty"], so[o].invoiced)
    PROVE  Served(new, Append(notes, note), bills)
<1> DEFINE more == Append(notes, note)
<1>1. notes \in Seq(DeliveryRows)
  BY DEF Served
<1>2. /\ more \in Seq(DeliveryRows) /\ DOMAIN more = DOMAIN notes \cup {Len(notes) + 1}
      /\ more[Len(notes) + 1] = note /\ \A k \in DOMAIN notes : more[k] = notes[k]
  BY <1>1, TableInsert
<1>3. \A k \in DOMAIN more : more[k]["order"] \in DOMAIN new
  BY <1>1, <1>2 DEF Served
<1>4. \A r \in DeliveryRows : r["qty"] \in Int
  BY DEF DeliveryRows
<1>5. ASSUME NEW k
      PROVE  Under(more, "qty", "order", k) =
                Under(notes, "qty", "order", k) + (IF note["order"] = k THEN note["qty"] ELSE 0)
  <2>1. note \in DeliveryRows /\ more = Append(notes, note)
    OBVIOUS
  <2>2. QED
    BY ONLY <1>1, <1>4, <2>1, UnderOneMore
<1>6. \A k : Under(notes, "qty", "order", k) \in Int
  BY <1>1, <1>4, UnderIsWhole
<1>7. ASSUME NEW k \in DOMAIN new
      PROVE  ServedRow(new[k], Under(more, "qty", "order", k), Under(bills, "qty", "order", k))
  <2>1. CASE k = o
    <3>1. Under(more, "qty", "order", k) = so[o].delivered + note["qty"]
      BY <1>5, <2>1, ServedIsWhole
    <3>2. Under(bills, "qty", "order", k) = so[o].invoiced
      BY <2>1, ServedIsWhole
    <3>3. QED
      BY <1>1, <2>1, <3>1, <3>2
  <2>2. CASE k # o
    <3>1. Under(more, "qty", "order", k) = Under(notes, "qty", "order", k)
      BY <1>5, <1>6, <2>2
    <3>2. QED
      BY <1>1, <2>2, <3>1 DEF Served
  <2>3. QED
    BY <2>1, <2>2
<1>8. QED
  BY <1>1, <1>2, <1>3, <1>7 DEF Served

\* An invoice is added and its order says so.
LEMMA ServedAfterInvoice ==
    ASSUME NEW so, NEW notes, NEW bills, Served(so, notes, bills), NEW o \in DOMAIN so, NEW new \in Seq(SoRows),
           DOMAIN new = DOMAIN so, \A k \in DOMAIN so \ {o} : new[k] = so[k], NEW bill \in SalesInvoiceRows,
           bill["order"] = o, ServedRow(new[o], so[o].delivered, so[o].invoiced + bill["qty"])
    PROVE  Served(new, notes, Append(bills, bill))
<1> DEFINE more == Append(bills, bill)
<1>1. bills \in Seq(SalesInvoiceRows)
  BY DEF Served
<1>2. /\ more \in Seq(SalesInvoiceRows) /\ DOMAIN more = DOMAIN bills \cup {Len(bills) + 1}
      /\ more[Len(bills) + 1] = bill /\ \A k \in DOMAIN bills : more[k] = bills[k]
  BY <1>1, TableInsert
<1>3. \A k \in DOMAIN more : more[k]["order"] \in DOMAIN new
  BY <1>1, <1>2 DEF Served
<1>4. \A r \in SalesInvoiceRows : r["qty"] \in Int
  BY DEF SalesInvoiceRows
<1>5. ASSUME NEW k
      PROVE  Under(more, "qty", "order", k) =
                Under(bills, "qty", "order", k) + (IF bill["order"] = k THEN bill["qty"] ELSE 0)
  <2>1. bill \in SalesInvoiceRows /\ more = Append(bills, bill)
    OBVIOUS
  <2>2. QED
    BY ONLY <1>1, <1>4, <2>1, UnderOneMore
<1>6. \A k : Under(bills, "qty", "order", k) \in Int
  BY <1>1, <1>4, UnderIsWhole
<1>7. ASSUME NEW k \in DOMAIN new
      PROVE  ServedRow(new[k], Under(notes, "qty", "order", k), Under(more, "qty", "order", k))
  <2>1. CASE k = o
    <3>1. Under(more, "qty", "order", k) = so[o].invoiced + bill["qty"]
      BY <1>5, <2>1, ServedIsWhole
    <3>2. Under(notes, "qty", "order", k) = so[o].delivered
      BY <2>1, ServedIsWhole
    <3>3. QED
      BY <1>1, <2>1, <3>1, <3>2
  <2>2. CASE k # o
    <3>1. Under(more, "qty", "order", k) = Under(bills, "qty", "order", k)
      BY <1>5, <1>6, <2>2
    <3>2. QED
      BY <1>1, <2>2, <3>1 DEF Served
  <2>3. QED
    BY <2>1, <2>2
<1>8. QED
  BY <1>1, <1>2, <1>3, <1>7 DEF Served

\* An invoice is paid on.
LEMMA ServedAfterPayment ==
    ASSUME NEW so, NEW notes, NEW bills, Served(so, notes, bills), NEW i \in DOMAIN bills, NEW bill \in SalesInvoiceRows,
           bill["order"] = bills[i]["order"], bill["qty"] = bills[i]["qty"],
           NEW new, new = [bills EXCEPT ![i] = bill]
    PROVE  Served(so, notes, new)
<1>1. bills \in Seq(SalesInvoiceRows)
  BY DEF Served
<1>2. /\ new \in Seq(SalesInvoiceRows) /\ DOMAIN new = DOMAIN bills
      /\ new[i] = bill /\ \A k \in DOMAIN bills \ {i} : new[k] = bills[k]
  BY <1>1, TableUpdate
<1>3. ASSUME NEW o PROVE Under(new, "qty", "order", o) = Under(bills, "qty", "order", o)
  <2>1. /\ IsFiniteSet(DOMAIN bills) /\ DOMAIN new = DOMAIN bills
        /\ \A k \in DOMAIN bills : new[k]["qty"] = bills[k]["qty"] /\ new[k]["order"] = bills[k]["order"]
    BY <1>1, <1>2, TableRows
  <2>2. QED
    BY ONLY <2>1, UnderAsBefore
<1>4. \A k \in DOMAIN new : new[k]["order"] \in DOMAIN so
  BY <1>2 DEF Served
<1>5. QED
  BY <1>2, <1>3, <1>4 DEF Served

\* What leaves the stock costs a whole amount.
LEMMA CostIsWhole ==
    ASSUME StockTyped(db), NEW w \in Warehouses, NEW q \in Nat
    PROVE  CostOf(db, w, q) \in Int
<1> DEFINE f == [k \in DOMAIN db.layer |-> Taken(db, w, q, k)]
           S == {k \in LayersAt(db, w) : db.layer[k].priced}
<1>1. S \subseteq LayersAt(db, w) /\ LayersAt(db, w) \subseteq DOMAIN db.layer /\ IsFiniteSet(S)
  BY LayersOfWarehouse
<1>2. \A k \in S : f[k] \in Int
  <2>1. ASSUME NEW k \in S PROVE Taken(db, w, q, k) \in Int
    <3>1. Taken(db, w, q, k) \in 0..db.layer[k].qty
      BY <1>1, TakenIsThere
    <3>2. db.layer[k].qty \in Nat
      BY <1>1, LayersOfWarehouse
    <3>3. QED
      BY <3>1, <3>2
  <2>2. QED
    BY <1>1, <2>1
<1> HIDE DEF f, S
<1>3. SumFunctionOnSet(f, S) \in Int
  BY <1>1, <1>2, SumIsInteger
<1>4. QED
  BY <1>3 DEF CostOf, f, S

\* VAT on a whole amount is a whole amount.
LEMMA VatIsWhole ==
    ASSUME NEW n \in Nat, NEW percent \in Nat
    PROVE  VatOn(n, percent) \in Nat
<1>1. n * percent + 50 \in Nat
  OBVIOUS
<1>2. \A m \in Nat : m \div 100 \in Nat
  OBVIOUS
<1>3. QED
  BY <1>1, <1>2 DEF VatOn

\* Goods are delivered.
LEMMA ServedAfterDeliver ==
    ASSUME ~ Concurrent, MaterialsSound, Served(db.so, db.delivery, db.invoice), NEW p, NEW o, NEW q \in 1..2,
           Deliver(p, o, q)
    PROVE  Served(db'.so, db'.delivery, db'.invoice)
<1> DEFINE r == db.so[o]
           status == IF r.delivered + q >= r.qty THEN "delivered" ELSE "partially_delivered"
           row == [r EXCEPT !.delivered = @ + q, !.status = status]
           note == Delivery(o, q, CostOf(db, r.at, q))
<1>1. /\ q \in Nat /\ q > 0
      /\ o \in DOMAIN db.so /\ r.status \in {"confirmed", "partially_delivered"} /\ q <= r.qty - r.delivered
      /\ db'.delivery = Append(db.delivery, note)
      /\ db'.so = [db.so EXCEPT ![o] = row]
      /\ \A t \in DOMAIN db \ ({"so", "delivery", "entry"} \cup BalanceTables) : db'[t] = db[t]
  <2>1. q \in Nat /\ q > 0 /\ StockSound /\ SalesTyped(db)
    BY DEF MaterialsSound
  <2>2. /\ StockMoves /\ SalesTyped(db')
        /\ o \in DOMAIN db.so /\ db.so[o].status \in {"confirmed", "partially_delivered"}
        /\ q <= db.so[o].qty - db.so[o].delivered
        /\ CanIssue(db, db.so[o].at, q)
        /\ db'.delivery = Append(db.delivery, Delivery(o, q, CostOf(db, db.so[o].at, q)))
        /\ db'.so = [db.so EXCEPT ![o] = [db.so[o] EXCEPT
             !.delivered = @ + q,
             !.status = IF db.so[o].delivered + q >= db.so[o].qty THEN "delivered" ELSE "partially_delivered"]]
        /\ \A t \in DOMAIN db \ ({"so", "delivery", "entry"} \cup BalanceTables) : db'[t] = db[t]
        /\ DOMAIN db' = DOMAIN db /\ db'["waste"] = db["waste"]
        /\ req' = [req EXCEPT ![p] = Idle]
        /\ past' = [past EXCEPT !.booked = @ + -q]
    BY <2>1, SalesDelivered, Zenon
  <2>3. QED
    BY <2>1, <2>2
<1>2. db'["invoice"] = db["invoice"]
  BY <1>1 DEF BalanceTables, MaterialsSound, SalesTyped
<1>3. r \in SoRows /\ ServedRow(r, r.delivered, r.invoiced) /\ o \in Nat
  BY <1>1, ServedIsWhole
<1>4. note \in DeliveryRows /\ note["order"] = o /\ note["qty"] = q
  <2>1. r.at \in Warehouses /\ StockTyped(db)
    BY <1>3 DEF SoRows, MaterialsSound, StockSound
  <2>2. CostOf(db, r.at, q) \in Int
    BY <1>1, <2>1, CostIsWhole
  <2>3. QED
    BY <1>1, <1>3, <2>2 DEF Delivery, DeliveryRows
<1>5. row \in SoRows /\ row.delivered = r.delivered + q /\ row.status = status
      /\ row.invoiced = r.invoiced /\ row.qty = r.qty
  <2>1. status \in {"draft", "confirmed", "partially_delivered", "delivered", "cancelled"}
    OBVIOUS
  <2>2. r.delivered + q \in Nat
    BY <1>1, <1>3 DEF SoRows
  <2> DEFINE mid == [r EXCEPT !.delivered = r.delivered + q]
  <2>3. /\ mid \in SoRows /\ mid.delivered = r.delivered + q
        /\ mid.invoiced = r.invoiced /\ mid.qty = r.qty
    BY <1>3, <2>2 DEF SoRows
  <2>4. row = [mid EXCEPT !.status = status]
    BY <1>3 DEF SoRows
  <2> HIDE DEF status, mid, row, r
  <2>5. QED
    BY <2>1, <2>3, <2>4 DEF SoRows
<1>6. ServedRow(row, r.delivered + q, r.invoiced)
  <2>1. r.delivered \in Nat /\ r.invoiced \in Nat /\ r.qty \in Nat /\ r.invoiced <= r.delivered
    BY <1>3 DEF SoRows, ServedRow
  <2> HIDE DEF r, row
  <2>2. QED
    BY <1>1, <1>5, <2>1 DEF ServedRow
<1> HIDE DEF row, note, r
<1>7. Served(db'.so, db'.delivery, db.invoice)
  <2>1. /\ db'.so \in Seq(SoRows) /\ DOMAIN db'.so = DOMAIN db.so
        /\ db'.so[o] = row /\ \A k \in DOMAIN db.so \ {o} : db'.so[k] = db.so[k]
    BY <1>1, <1>5, TableUpdate DEF Served
  <2>2. ServedRow(db'.so[o], db.so[o].delivered + note["qty"], db.so[o].invoiced)
    BY <1>4, <1>6, <2>1 DEF r
  <2>3. Served(db.so, db.delivery, db.invoice)
    OBVIOUS
  <2>4. Served(db'.so, Append(db.delivery, note), db.invoice)
    BY ONLY <1>1, <1>4, <2>1, <2>2, <2>3, ServedAfterDelivery
  <2>5. QED
    BY <1>1, <2>4
<1>8. QED
  BY <1>2, <1>7

\* What was delivered is invoiced.
LEMMA ServedAfterInvoicing ==
    ASSUME ~ Concurrent, MaterialsSound, DueTyped(db.ar), Served(db.so, db.delivery, db.invoice),
           NEW p, NEW o, InvoiceDelivered(p, o)
    PROVE  Served(db'.so, db'.delivery, db'.invoice)
<1> DEFINE r == db.so[o]
           q == r.delivered - r.invoiced
           net == q * r.price
           vat == VatOn(net, r.vat)
           row == [r EXCEPT !.invoiced = r.delivered]
           bill == SalesInvoice(o, Len(db'.ar), q, net, vat)
<1>1. /\ Touches(p, {"so", "invoice", "ar", "entry"})
      /\ o \in DOMAIN db.so /\ q \in Nat
      /\ db'.so = [db.so EXCEPT ![o] = row]
      /\ db'.ar = Append(db.ar, AccountsReceivableInvoice(Len(db.entry) + 1, net + vat))
      /\ db'.invoice = Append(db.invoice, bill)
  BY SalesInvoiced DEF MaterialsSound
<1>2. db'["delivery"] = db["delivery"]
  BY <1>1 DEF Touches, MaterialsSound, SalesTyped
<1>3. r \in SoRows /\ ServedRow(r, r.delivered, r.invoiced) /\ o \in Nat
  BY <1>1, ServedIsWhole
<1>4. r.delivered \in Nat /\ r.invoiced \in Nat /\ r.price \in Nat /\ r.vat \in Nat
  BY <1>3 DEF SoRows
<1>5. net \in Nat
  <2> HIDE DEF q, r
  <2>1. QED
    BY <1>1, <1>4
<1>6. vat \in Nat
  <2> HIDE DEF net, r
  <2>1. QED
    BY <1>4, <1>5, VatIsWhole
<1>7. row \in SoRows /\ row.delivered = r.delivered /\ row.status = r.status
      /\ row.invoiced = r.delivered /\ row.qty = r.qty
  BY <1>3 DEF SoRows
<1>8. ServedRow(row, r.delivered, r.invoiced + q)
  <2>1. r.invoiced + q = r.delivered
    BY <1>4
  <2> HIDE DEF row, q, r
  <2>2. QED
    BY <1>3, <1>4, <1>7, <2>1 DEF ServedRow
<1> HIDE DEF row, r, q, net, vat
<1>9. Len(db'.ar) \in Nat => bill \in SalesInvoiceRows /\ bill["order"] = o /\ bill["qty"] = q
  <2>1. net + vat \in Nat
    BY <1>5, <1>6
  <2>2. QED
    BY <1>1, <1>3, <2>1 DEF SalesInvoice, SalesInvoiceRows
<1> HIDE DEF bill
<1>10. Len(db'.ar) \in Nat
  <2>1. Len(db'.ar) = Len(db.ar) + 1 /\ Len(db.ar) \in Nat
    BY <1>1, AppendProperties, LenProperties DEF DueTyped
  <2>2. QED
    BY <2>1
<1>11. Served(db'.so, db.delivery, db'.invoice)
  <2>1. /\ db'.so \in Seq(SoRows) /\ DOMAIN db'.so = DOMAIN db.so
        /\ db'.so[o] = row /\ \A k \in DOMAIN db.so \ {o} : db'.so[k] = db.so[k]
    BY <1>1, <1>7, TableUpdate DEF Served
  <2>2. ServedRow(db'.so[o], db.so[o].delivered, db.so[o].invoiced + bill["qty"])
    BY <1>8, <1>9, <1>10, <2>1 DEF r
  <2>3. bill \in SalesInvoiceRows /\ bill["order"] = o /\ Served(db.so, db.delivery, db.invoice)
    BY <1>9, <1>10
  <2>4. Served(db'.so, db.delivery, Append(db.invoice, bill))
    BY ONLY <1>1, <2>1, <2>2, <2>3, ServedAfterInvoice
  <2>5. QED
    BY <1>1, <2>4
<1>12. QED
  BY <1>2, <1>11

\* No order, delivery note, invoice, payment or receivable is written.
OrdersRest ==
    /\ DOMAIN db' = DOMAIN db
    /\ \A t \in {"so", "delivery", "invoice", "payment", "ar"} : db'[t] = db[t]

\* Whoever writes one of these.
LEMMA OrdersWriters ==
    ASSUME ~ Concurrent, MaterialsSound, SalesBooks \subseteq DOMAIN db, [Next]_<<part, vars>>
    PROVE  \/ \E p \in Workers : SalesOrderRoutes(p)
           \/ \E p \in Workers : \E o : \E q \in 1..2 : Deliver(p, o, q)
           \/ \E p \in Workers : \E o : InvoiceDelivered(p, o)
           \/ \E p \in Workers : \E i : \E n \in Amounts : RecordPayment(p, i, n)
           \/ \E p \in Workers : \E d : \E n \in Amounts : PostArInvoice(p, d, n)
           \/ OrdersRest
<1> DEFINE mine == {"so", "delivery", "invoice", "payment", "ar"}
<1>1. mine \subseteq DOMAIN db
  BY DEF SalesBooks
<1>2. ASSUME NEW names, Keeps(names), names \cap mine = {} PROVE OrdersRest
  BY <1>1, <1>2 DEF Keeps, OrdersRest
<1>3. ASSUME NEW p, NEW t \in {"salesconf", "entry", "ap", "bank"}, Touches(p, {t}) PROVE OrdersRest
  <2>1. Keeps({t}) /\ {t} \cap mine = {}
    BY <1>3 DEF Touches, Keeps
  <2>2. QED
    BY <1>2, <2>1
<1>4. ASSUME BooksRest PROVE OrdersRest
  BY <1>4 DEF BooksRest, SalesBooks, OrdersRest
<1>5. ASSUME NEW p \in Workers, NEW d, NEW n, NEW c, NEW g, NEW b, PostApInvoice(p, d, n, c, g, b) PROVE OrdersRest
  <2>1. Keeps({"entry"}) /\ {"entry"} \cap mine = {}
    BY <1>5, PayableStep
  <2>2. QED
    BY <1>2, <2>1
<1> HIDE DEF mine
<1>6. ASSUME NEW p, RecordApInvoice(p) PROVE OrdersRest
  <2>1. Touches(p, {"ap"})
    BY <1>6, SerialRows DEF RecordApInvoice, Insert, Commit, Finish, Touches
  <2>2. QED
    BY <1>3, <2>1
<1>7. ASSUME NEW p, NEW d, NEW ls, PostManualException(p, d, ls) PROVE OrdersRest
  <2>1. Touches(p, {"entry"})
    BY <1>7, SerialRows DEF PostManualException, Post, Insert, Commit, Finish, Touches
  <2>2. QED
    BY <1>3, <2>1
<1>8. ASSUME NEW p, BankRoutes(p) PROVE OrdersRest
  <2>1. ASSUME NEW k, AutoMatch(p, k) PROVE Touches(p, {"bank"})
    BY <2>1, SerialRows DEF AutoMatch, Commit, Finish, Touches
  <2>2. ASSUME NEW row, Create(p, "bank", row) PROVE Touches(p, {"bank"})
    BY <2>2, CreateTouches
  <2>3. QED
    BY <1>3, <1>8, <2>1, <2>2 DEF BankRoutes, ImportBankLine
<1>9. ASSUME NEW p, SettingsRoutes(p) PROVE OrdersRest
  <2>1. Touches(p, {"salesconf"})
    BY <1>9, SettingsSaved DEF MaterialsSound
  <2>2. QED
    BY <1>3, <2>1
<1>10. ASSUME NEW p \in Workers, InvoiceRoutes(p)
       PROVE  (\E d : \E n \in Amounts : PostArInvoice(p, d, n)) \/ OrdersRest
  BY <1>5, <1>6, <1>10 DEF InvoiceRoutes
<1>11. ASSUME NEW p \in Workers, DeliveryRoutes(p)
       PROVE  (\E o : \E q \in 1..2 : Deliver(p, o, q)) \/ (\E o : InvoiceDelivered(p, o))
  BY <1>11 DEF DeliveryRoutes
<1>12. ASSUME NEW p \in Workers, PaymentRoutes(p) PROVE \E i : \E n \in Amounts : RecordPayment(p, i, n)
  BY <1>12 DEF PaymentRoutes
<1>13. QED
  BY <1>4, <1>7, <1>8, <1>9, <1>10, <1>11, <1>12, BooksWriters

\* A request on the orders themselves.
LEMMA ServedAfterOrderRoutes ==
    ASSUME ~ Concurrent, MaterialsSound, Served(db.so, db.delivery, db.invoice), NEW p, SalesOrderRoutes(p)
    PROVE  Served(db'.so, db'.delivery, db'.invoice) /\ Touches(p, {"so"})
<1>1. ASSUME Touches(p, {"so"}), Served(db'.so, db.delivery, db.invoice)
      PROVE  Served(db'.so, db'.delivery, db'.invoice)
  <2>1. db'["delivery"] = db["delivery"] /\ db'["invoice"] = db["invoice"]
    BY <1>1 DEF Touches, MaterialsSound, SalesTyped
  <2>2. QED
    BY <1>1, <2>1
<1>2. ASSUME NEW w \in Warehouses, NEW q \in 1..2, NEW price \in Prices, CreateOrder(p, w, q, price)
      PROVE  Touches(p, {"so"}) /\ Served(db'.so, db.delivery, db.invoice)
  <2>1. q \in Nat /\ q > 0
    OBVIOUS
  <2>2. /\ Touches(p, {"so"})
        /\ \E vat \in Nat : db'.so = Append(db.so, SalesOrder(w, q, price, vat))
    BY <1>2, <2>1, SalesOrderCreated DEF MaterialsSound
  <2>3. PICK vat \in Nat : db'.so = Append(db.so, SalesOrder(w, q, price, vat))
    BY <2>2
  <2>4. PICK row : row = SalesOrder(w, q, price, vat)
    OBVIOUS
  <2>5. /\ row \in SoRows /\ row.status = "draft" /\ row.delivered = 0 /\ row.invoiced = 0 /\ row.qty > 0
        /\ db'.so = Append(db.so, row)
    BY <2>1, <2>3, <2>4, SalesAssumption DEF SalesOrder, SoRows
  <2>6. QED
    BY <2>2, <2>5, ServedAfterOrder
<1>3. ASSUME NEW o, NEW w \in Warehouses, NEW q \in 1..2, NEW price \in Prices, EditOrder(p, o, w, q, price)
      PROVE  Touches(p, {"so"}) /\ Served(db'.so, db.delivery, db.invoice)
  <2>1. q \in Nat /\ q > 0
    OBVIOUS
  <2>2. /\ Touches(p, {"so"}) /\ o \in DOMAIN db.so /\ db.so[o].status = "draft"
        /\ \E vat \in Nat : db'.so = [db.so EXCEPT ![o] = SalesOrder(w, q, price, vat)]
    BY <1>3, <2>1, SalesOrderEdited DEF MaterialsSound
  <2>3. PICK vat \in Nat : db'.so = [db.so EXCEPT ![o] = SalesOrder(w, q, price, vat)]
    BY <2>2
  <2>4. PICK row : row = SalesOrder(w, q, price, vat)
    OBVIOUS
  <2>5. /\ row \in SoRows /\ row.status = "draft" /\ row.delivered = 0 /\ row.invoiced = 0 /\ row.qty = q
        /\ db'.so = [db.so EXCEPT ![o] = row]
    BY <2>1, <2>3, <2>4, SalesAssumption DEF SalesOrder, SoRows
  <2>6. db.so[o].delivered = 0 /\ db.so[o].invoiced = 0
    <3>1. db.so[o] \in SoRows /\ ServedRow(db.so[o], db.so[o].delivered, db.so[o].invoiced)
      BY <2>2, ServedIsWhole
    <3>2. QED
      BY <2>2, <3>1 DEF SoRows, ServedRow
  <2>7. ServedRow(row, 0, 0)
    BY <2>1, <2>5 DEF ServedRow
  <2>8. /\ db'.so \in Seq(SoRows) /\ DOMAIN db'.so = DOMAIN db.so
        /\ db'.so[o] = row /\ \A k \in DOMAIN db.so \ {o} : db'.so[k] = db.so[k]
    BY <2>2, <2>5, TableUpdate DEF Served
  <2>9. QED
    BY <2>2, <2>6, <2>7, <2>8, ServedAfterChange
<1>4. ASSUME NEW o, ConfirmOrder(p, o) \/ CancelOrder(p, o)
      PROVE  Touches(p, {"so"}) /\ Served(db'.so, db.delivery, db.invoice)
  <2>1. /\ Touches(p, {"so"}) /\ o \in DOMAIN db.so /\ db.so[o].status \in {"draft", "confirmed"}
        /\ \E status \in {"confirmed", "cancelled"} :
             db'.so = [db.so EXCEPT ![o] = [db.so[o] EXCEPT !.status = status]]
    BY <1>4, SalesOrderTurned DEF MaterialsSound
  <2>2. PICK status \in {"confirmed", "cancelled"} :
          db'.so = [db.so EXCEPT ![o] = [db.so[o] EXCEPT !.status = status]]
    BY <2>1
  <2>3. PICK row : row = [db.so[o] EXCEPT !.status = status]
    OBVIOUS
  <2>4. db.so[o] \in SoRows /\ ServedRow(db.so[o], db.so[o].delivered, db.so[o].invoiced)
    BY <2>1, ServedIsWhole
  <2>5. /\ row \in SoRows /\ row.status = status /\ row.delivered = db.so[o].delivered
        /\ row.invoiced = db.so[o].invoiced /\ row.qty = db.so[o].qty
        /\ db'.so = [db.so EXCEPT ![o] = row]
    BY <2>2, <2>3, <2>4 DEF SoRows
  <2>6. ServedRow(row, db.so[o].delivered, db.so[o].invoiced)
    BY <2>1, <2>4, <2>5 DEF SoRows, ServedRow
  <2>7. /\ db'.so \in Seq(SoRows) /\ DOMAIN db'.so = DOMAIN db.so
        /\ db'.so[o] = row /\ \A k \in DOMAIN db.so \ {o} : db'.so[k] = db.so[k]
    <3>1. /\ db.so \in Seq(SoRows) /\ o \in DOMAIN db.so /\ row \in SoRows
          /\ db'.so = [db.so EXCEPT ![o] = row]
      BY <2>1, <2>5 DEF Served
    <3>2. QED
      BY ONLY <3>1, TableUpdate
  <2>8. QED
    BY <2>1, <2>6, <2>7, ServedAfterChange
<1>5. QED
  BY <1>1, <1>2, <1>3, <1>4 DEF SalesOrderRoutes

-----------------------------------------------------------------------------
(* Finance invoices are settled when paid *)

PaymentRows == [invoice : Nat, amount : Nat]

\* The row of an invoice that was paid n of, and its finance invoice.
SettledRow(bill, n, due) ==
    /\ bill.paid = n /\ n <= bill.amount /\ bill.amount > 0
    /\ due.status = "paid" <=> n = bill.amount

\* Each invoice has a finance invoice of its own; both say what the payments say.
Settled(bills, payments, ar) ==
    /\ bills \in Seq(SalesInvoiceRows)
    /\ payments \in Seq(PaymentRows)
    /\ DueTyped(ar)
    /\ \A k \in DOMAIN payments : payments[k]["invoice"] \in DOMAIN bills
    /\ \A i \in DOMAIN bills : bills[i]["ar"] \in DOMAIN ar
    /\ \A i \in DOMAIN bills : \A j \in DOMAIN bills : bills[i]["ar"] = bills[j]["ar"] => i = j
    /\ \A i \in DOMAIN bills :
         SettledRow(bills[i], Under(payments, "amount", "invoice", i), ar[bills[i]["ar"]])

\* The invariant says what the property says.
LEMMA PaidIsSettled ==
    ASSUME Settled(db.invoice, db.payment, db.ar)
    PROVE  SettledWhenPaid
  BY DEF Settled, SettledRow, SettledWhenPaid, PaidOn, Under

\* A finance invoice is added.
LEMMA DueAdded ==
    ASSUME NEW ar, DueTyped(ar), NEW row, row \in ArRows({row.entry})
    PROVE  /\ DueTyped(Append(ar, row)) /\ DOMAIN Append(ar, row) = DOMAIN ar \cup {Len(ar) + 1}
           /\ Len(ar) + 1 \notin DOMAIN ar /\ Len(Append(ar, row)) = Len(ar) + 1 /\ Len(ar) \in Nat
           /\ Append(ar, row)[Len(ar) + 1] = row /\ \A k \in DOMAIN ar : Append(ar, row)[k] = ar[k]
<1>1. PICK E : ar \in Seq(ArRows(E))
  BY DEF DueTyped
<1> DEFINE R == ArRows(E \cup {row.entry})
<1>2. ArRows(E) \subseteq R /\ row \in R
  BY DEF ArRows
<1> HIDE DEF R
<1>3. ar \in Seq(R)
  BY <1>1, <1>2
<1>4. /\ Append(ar, row) \in Seq(R)
      /\ DOMAIN Append(ar, row) = DOMAIN ar \cup {Len(ar) + 1} /\ Len(ar) + 1 \notin DOMAIN ar
      /\ Append(ar, row)[Len(ar) + 1] = row /\ \A k \in DOMAIN ar : Append(ar, row)[k] = ar[k]
  BY <1>2, <1>3, TableInsert, TableRows
<1>5. Len(Append(ar, row)) = Len(ar) + 1 /\ Len(ar) \in Nat
  BY <1>2, <1>3, AppendProperties, LenProperties
<1>6. QED
  BY <1>4, <1>5 DEF DueTyped, R

\* The receivable of an invoice is such a row.
LEMMA DueRow ==
    ASSUME NEW e, NEW n \in Nat
    PROVE  LET row == AccountsReceivableInvoice(e, n)
           IN row \in ArRows({row.entry}) /\ row.status = "unpaid" /\ row.amount = n
  BY DEF AccountsReceivableInvoice, ArRows

\* A finance invoice is marked paid.
LEMMA DuePaid ==
    ASSUME NEW ar, DueTyped(ar), NEW k \in DOMAIN ar, NEW new,
           new = [ar EXCEPT ![k] = [ar[k] EXCEPT !.status = "paid"]]
    PROVE  /\ DueTyped(new) /\ DOMAIN new = DOMAIN ar
           /\ new[k].status = "paid" /\ \A j \in DOMAIN ar \ {k} : new[j] = ar[j]
<1>1. PICK E : ar \in Seq(ArRows(E))
  BY DEF DueTyped
<1>2. ar[k] \in ArRows(E)
  BY <1>1, TableRows
<1>3. PICK row : row = [ar[k] EXCEPT !.status = "paid"]
  OBVIOUS
<1>4. row \in ArRows(E) /\ row.status = "paid"
  BY <1>2, <1>3 DEF ArRows
<1>5. ar \in Seq(ArRows(E)) /\ k \in DOMAIN ar /\ row \in ArRows(E) /\ new = [ar EXCEPT ![k] = row]
  BY <1>1, <1>3, <1>4
<1>6. /\ new \in Seq(ArRows(E)) /\ DOMAIN new = DOMAIN ar
      /\ new[k] = row /\ \A j \in DOMAIN ar \ {k} : new[j] = ar[j]
  BY ONLY <1>5, TableUpdate
<1>7. QED
  BY <1>4, <1>6 DEF DueTyped

\* A receivable of no sales invoice is added.
LEMMA SettledAfterDue ==
    ASSUME NEW bills, NEW payments, NEW ar, Settled(bills, payments, ar), NEW e, NEW n \in Nat
    PROVE  Settled(bills, payments, Append(ar, AccountsReceivableInvoice(e, n)))
<1>1. PICK row : row = AccountsReceivableInvoice(e, n)
  OBVIOUS
<1> DEFINE more == Append(ar, row)
<1>2. DueTyped(more) /\ DOMAIN more = DOMAIN ar \cup {Len(ar) + 1} /\ \A k \in DOMAIN ar : more[k] = ar[k]
  <2>1. DueTyped(ar) /\ row \in ArRows({row.entry})
    BY <1>1, DueRow DEF Settled
  <2>2. QED
    BY ONLY <2>1, DueAdded
<1> HIDE DEF more
<1>3. Settled(bills, payments, more)
  BY <1>2 DEF Settled
<1>4. QED
  BY <1>1, <1>3 DEF more

\* An invoice and its finance invoice are added.
LEMMA SettledAfterInvoice ==
    ASSUME NEW bills, NEW payments, NEW ar, Settled(bills, payments, ar), NEW e, NEW n \in Nat,
           NEW bill \in SalesInvoiceRows, bill["ar"] = Len(ar) + 1, bill.paid = 0, bill.amount > 0
    PROVE  Settled(Append(bills, bill), payments, Append(ar, AccountsReceivableInvoice(e, n)))
<1>0. PICK row : row = AccountsReceivableInvoice(e, n)
  OBVIOUS
<1>1. PICK more : more = Append(ar, row)
  OBVIOUS
<1>2. PICK new : new = Append(bills, bill)
  OBVIOUS
<1> DEFINE y == Len(bills) + 1
           z == Len(ar) + 1
<1>3. /\ DueTyped(more) /\ DOMAIN more = DOMAIN ar \cup {z} /\ z \notin DOMAIN ar
      /\ more[z].status = "unpaid" /\ \A k \in DOMAIN ar : more[k] = ar[k]
  <2>1. DueTyped(ar) /\ row \in ArRows({row.entry}) /\ row.status = "unpaid"
    BY <1>0, DueRow DEF Settled
  <2>2. QED
    BY ONLY <1>1, <2>1, DueAdded
<1>4. bills \in Seq(SalesInvoiceRows)
  BY DEF Settled
<1>5. /\ new \in Seq(SalesInvoiceRows) /\ DOMAIN new = DOMAIN bills \cup {y} /\ y \notin DOMAIN bills
      /\ new[y] = bill /\ \A k \in DOMAIN bills : new[k] = bills[k]
  BY <1>2, <1>4, TableInsert, TableRows
<1>6. Under(payments, "amount", "invoice", y) = 0
  <2>1. \A k \in DOMAIN payments : payments[k]["invoice"] # y
    BY <1>5 DEF Settled
  <2> HIDE DEF y
  <2>2. QED
    BY <2>1, NothingUnderNew
<1>7. SettledRow(new[y], Under(payments, "amount", "invoice", y), more[bill["ar"]])
  <2>1. bill.amount \in Nat
    BY DEF SalesInvoiceRows
  <2>2. QED
    BY <1>3, <1>5, <1>6, <2>1 DEF SettledRow
<1> HIDE DEF y
<1>8. bill["ar"] = z
  OBVIOUS
<1> HIDE DEF z
<1>9. \A i \in DOMAIN new : new[i]["ar"] \in DOMAIN more
  BY <1>3, <1>5, <1>8 DEF Settled
<1>10. \A i \in DOMAIN new : \A j \in DOMAIN new : new[i]["ar"] = new[j]["ar"] => i = j
  BY <1>3, <1>5, <1>8 DEF Settled
<1>11. \A i \in DOMAIN new :
         SettledRow(new[i], Under(payments, "amount", "invoice", i), more[new[i]["ar"]])
  <2>1. ASSUME NEW i \in DOMAIN bills
        PROVE  SettledRow(new[i], Under(payments, "amount", "invoice", i), more[new[i]["ar"]])
    BY <1>3, <1>5 DEF Settled
  <2>2. QED
    BY <1>5, <1>7, <2>1
<1>12. \A k \in DOMAIN payments : payments[k]["invoice"] \in DOMAIN new
  BY <1>5 DEF Settled
<1>13. Settled(new, payments, more)
  BY <1>3, <1>5, <1>9, <1>10, <1>11, <1>12 DEF Settled
<1>14. QED
  BY <1>0, <1>1, <1>2, <1>13

\* What is at most a limit reaches it only where it equals it.
LEMMA AtTheLimit == ASSUME NEW x \in Nat, NEW y \in Nat, x <= y PROVE x >= y <=> x = y
  OBVIOUS

\* An invoice is paid on, and its finance invoice is settled when nothing is left.
LEMMA SettledAfterPayment ==
    ASSUME NEW bills, NEW payments, NEW ar, Settled(bills, payments, ar), NEW i \in DOMAIN bills, NEW n \in Nat, n > 0,
           n <= bills[i].amount - bills[i].paid,
           NEW new \in Seq(SalesInvoiceRows), DOMAIN new = DOMAIN bills, \A k \in DOMAIN bills \ {i} : new[k] = bills[k],
           new[i]["ar"] = bills[i]["ar"], new[i].amount = bills[i].amount, new[i].paid = bills[i].paid + n,
           NEW due, DueTyped(due), DOMAIN due = DOMAIN ar, \A k \in DOMAIN ar \ {bills[i]["ar"]} : due[k] = ar[k],
           due[bills[i]["ar"]].status = IF bills[i].paid + n >= bills[i].amount THEN "paid"
                                     ELSE ar[bills[i]["ar"]].status
    PROVE  Settled(new, Append(payments, SalesPayment(i, n)), due)
<1>1. PICK pay : pay = SalesPayment(i, n)
  OBVIOUS
<1>2. PICK more : more = Append(payments, pay)
  OBVIOUS
<1>3. payments \in Seq(PaymentRows) /\ bills \in Seq(SalesInvoiceRows)
  BY DEF Settled
<1>4. pay \in PaymentRows /\ pay["invoice"] = i /\ pay["amount"] = n
  BY <1>1, <1>3, TableRows DEF SalesPayment, PaymentRows
<1>5. /\ more \in Seq(PaymentRows) /\ DOMAIN more = DOMAIN payments \cup {Len(payments) + 1}
      /\ more[Len(payments) + 1] = pay /\ \A k \in DOMAIN payments : more[k] = payments[k]
  BY <1>2, <1>3, <1>4, TableInsert
<1>6. \A k \in DOMAIN more : more[k]["invoice"] \in DOMAIN new
  BY <1>4, <1>5 DEF Settled
<1>7. \A r \in PaymentRows : r["amount"] \in Int
  BY DEF PaymentRows
<1>8. ASSUME NEW k
      PROVE  Under(more, "amount", "invoice", k) =
                Under(payments, "amount", "invoice", k) + (IF pay["invoice"] = k THEN pay["amount"] ELSE 0)
  BY ONLY <1>2, <1>3, <1>4, <1>7, UnderOneMore
<1>9. \A k : Under(payments, "amount", "invoice", k) \in Int
  BY <1>3, <1>7, UnderIsWhole
<1>10. SettledRow(new[i], Under(more, "amount", "invoice", i), due[new[i]["ar"]])
  <2>1. SettledRow(bills[i], Under(payments, "amount", "invoice", i), ar[bills[i]["ar"]])
    BY DEF Settled
  <2>2. bills[i].paid \in Nat /\ bills[i].amount \in Nat
    <3>1. bills[i] \in SalesInvoiceRows
      BY <1>3, TableRows
    <3>2. QED
      BY <3>1 DEF SalesInvoiceRows
  <2>3. Under(more, "amount", "invoice", i) = bills[i].paid + n
    BY <1>4, <1>8, <2>1 DEF SettledRow
  <2>4. /\ bills[i].amount > 0 /\ bills[i].paid <= bills[i].amount
        /\ ar[bills[i]["ar"]].status = "paid" <=> bills[i].paid = bills[i].amount
    BY <2>1 DEF SettledRow
  <2>5. bills[i].paid + n <= bills[i].amount /\ bills[i].paid # bills[i].amount
    BY <2>2
  <2>6. due[new[i]["ar"]].status = "paid" <=> bills[i].paid + n = bills[i].amount
    <3>1. bills[i].paid + n >= bills[i].amount <=> bills[i].paid + n = bills[i].amount
      <4>1. bills[i].paid + n \in Nat
        BY <2>2
      <4>2. QED
        BY ONLY <2>2, <2>5, <4>1, AtTheLimit
    <3>2. ar[bills[i]["ar"]].status # "paid"
      BY <2>4, <2>5
    <3>3. due[bills[i]["ar"]].status = IF bills[i].paid + n >= bills[i].amount THEN "paid"
                                       ELSE ar[bills[i]["ar"]].status
      OBVIOUS
    <3>4. due[bills[i]["ar"]].status = "paid" <=> bills[i].paid + n = bills[i].amount
      BY ONLY <3>1, <3>2, <3>3
    <3>5. QED
      BY <3>4
  <2>7. /\ new[i].paid = Under(more, "amount", "invoice", i)
        /\ Under(more, "amount", "invoice", i) <= new[i].amount /\ new[i].amount > 0
    BY <2>3, <2>4, <2>5
  <2>8. QED
    BY <2>3, <2>6, <2>7 DEF SettledRow
<1>11. ASSUME NEW k \in DOMAIN new, k # i
       PROVE  SettledRow(new[k], Under(more, "amount", "invoice", k), due[new[k]["ar"]])
  <2>1. SettledRow(bills[k], Under(payments, "amount", "invoice", k), ar[bills[k]["ar"]])
    BY <1>11 DEF Settled
  <2>2. Under(more, "amount", "invoice", k) = Under(payments, "amount", "invoice", k)
    BY <1>4, <1>8, <1>9, <1>11
  <2>3. due[new[k]["ar"]] = ar[bills[k]["ar"]] /\ new[k] = bills[k]
    BY <1>11 DEF Settled
  <2>4. QED
    BY <2>1, <2>2, <2>3
<1>12. /\ \A k \in DOMAIN new : new[k]["ar"] \in DOMAIN due
       /\ \A k \in DOMAIN new : \A j \in DOMAIN new : new[k]["ar"] = new[j]["ar"] => k = j
  <2>1. \A k \in DOMAIN new : new[k]["ar"] = bills[k]["ar"]
    OBVIOUS
  <2>2. QED
    BY <2>1 DEF Settled
<1>13. Settled(new, more, due)
  BY <1>5, <1>6, <1>10, <1>11, <1>12 DEF Settled
<1>14. QED
  BY <1>1, <1>2, <1>13

\* What sales and finance say of each other.
BooksAgree ==
    /\ SalesBooks \subseteq DOMAIN db
    /\ Served(db.so, db.delivery, db.invoice)
    /\ Settled(db.invoice, db.payment, db.ar)

\* Steps that leave all of it alone.
LEMMA BooksKept ==
    ASSUME BooksAgree, OrdersRest
    PROVE  BooksAgree'
<1>1. /\ DOMAIN db' = DOMAIN db /\ db'["so"] = db["so"] /\ db'["delivery"] = db["delivery"]
      /\ db'["invoice"] = db["invoice"] /\ db'["payment"] = db["payment"] /\ db'["ar"] = db["ar"]
  BY DEF OrdersRest
<1>2. Served(db'.so, db'.delivery, db'.invoice) /\ Settled(db'.invoice, db'.payment, db'.ar)
  BY <1>1 DEF BooksAgree
<1>3. QED
  BY <1>1, <1>2 DEF BooksAgree

\* A payment is recorded.
LEMMA BooksAfterPayment ==
    ASSUME ~ Concurrent, MaterialsSound, BooksAgree, NEW p, NEW i, NEW n \in Amounts, RecordPayment(p, i, n)
    PROVE  BooksAgree'
<1> DEFINE old == db.invoice[i]
           row == [old EXCEPT !.paid = @ + n]
           left == old.paid + n >= old.amount
           paid == [db.ar EXCEPT ![old.ar] = [db.ar[old.ar] EXCEPT !.status = "paid"]]
<1>1. /\ Touches(p, {"invoice", "payment", "ar", "entry"})
      /\ i \in DOMAIN db.invoice /\ n <= old.amount - old.paid
      /\ db'.invoice = [db.invoice EXCEPT ![i] = row]
      /\ db'.payment = Append(db.payment, SalesPayment(i, n))
      /\ db'.ar = IF left THEN paid ELSE db.ar
  <2>1. SalesTyped(db)
    BY DEF MaterialsSound
  <2>2. /\ SalesTyped(db') /\ Touches(p, {"invoice", "payment", "ar", "entry"})
        /\ i \in DOMAIN db.invoice /\ n <= db.invoice[i].amount - db.invoice[i].paid
        /\ db'.invoice = [db.invoice EXCEPT ![i] = [db.invoice[i] EXCEPT !.paid = @ + n]]
        /\ db'.payment = Append(db.payment, SalesPayment(i, n))
        /\ db'.ar = IF db.invoice[i].paid + n >= db.invoice[i].amount
                    THEN [db.ar EXCEPT ![db.invoice[i].ar] = [db.ar[db.invoice[i].ar] EXCEPT !.status = "paid"]]
                    ELSE db.ar
    BY <2>1, SalesPaid, Zenon
  <2>3. QED
    BY <2>2
<1>2. n \in Nat /\ n > 0
  BY LedgerAssumption
<1>3. DOMAIN db' = DOMAIN db /\ db'["so"] = db["so"] /\ db'["delivery"] = db["delivery"]
  BY <1>1 DEF Touches, BooksAgree, SalesBooks
<1>4. db.invoice \in Seq(SalesInvoiceRows) /\ DueTyped(db.ar) /\ old["ar"] \in DOMAIN db.ar
  BY <1>1 DEF BooksAgree, Settled
<1>5. old \in SalesInvoiceRows
  BY <1>1, <1>4, TableRows
<1>6. /\ row \in SalesInvoiceRows /\ row.paid = old.paid + n /\ row["ar"] = old["ar"]
      /\ row.amount = old.amount /\ row["order"] = old["order"] /\ row["qty"] = old["qty"]
  <2>1. old.paid + n \in Nat
    BY <1>2, <1>5 DEF SalesInvoiceRows
  <2>2. QED
    BY <1>5, <2>1 DEF SalesInvoiceRows
<1>7. PICK due : due = db'.ar
  OBVIOUS
<1>8. /\ DueTyped(due) /\ DOMAIN due = DOMAIN db.ar /\ \A k \in DOMAIN db.ar \ {old["ar"]} : due[k] = db.ar[k]
      /\ due[old["ar"]].status = IF left THEN "paid" ELSE db.ar[old["ar"]].status
  <2> HIDE DEF left, old, row
  <2>1. CASE left
    <3>1. due = [db.ar EXCEPT ![old["ar"]] = [db.ar[old["ar"]] EXCEPT !.status = "paid"]]
      BY <1>1, <1>7, <2>1
    <3>2. QED
      BY <1>4, <2>1, <3>1, DuePaid
  <2>2. CASE ~ left
    BY <1>1, <1>4, <1>7, <2>2
  <2>3. QED
    BY <2>1, <2>2
<1> HIDE DEF row, paid
<1>9. /\ db'.invoice \in Seq(SalesInvoiceRows) /\ DOMAIN db'.invoice = DOMAIN db.invoice
      /\ db'.invoice[i] = row /\ \A k \in DOMAIN db.invoice \ {i} : db'.invoice[k] = db.invoice[k]
  <2>1. /\ db.invoice \in Seq(SalesInvoiceRows) /\ i \in DOMAIN db.invoice /\ row \in SalesInvoiceRows
        /\ db'.invoice = [db.invoice EXCEPT ![i] = row]
    BY <1>1, <1>4, <1>6
  <2>2. QED
    BY ONLY <2>1, TableUpdate
<1>10. Settled(db'.invoice, db'.payment, db'.ar)
  <2>1. /\ Settled(db.invoice, db.payment, db.ar) /\ i \in DOMAIN db.invoice /\ n \in Nat /\ n > 0
        /\ n <= db.invoice[i].amount - db.invoice[i].paid
    BY <1>1, <1>2 DEF BooksAgree
  <2>2. /\ db'.invoice[i]["ar"] = db.invoice[i]["ar"] /\ db'.invoice[i].amount = db.invoice[i].amount
        /\ db'.invoice[i].paid = db.invoice[i].paid + n
    BY <1>6, <1>9
  <2>3. /\ DueTyped(due) /\ DOMAIN due = DOMAIN db.ar
        /\ \A k \in DOMAIN db.ar \ {db.invoice[i]["ar"]} : due[k] = db.ar[k]
        /\ due[db.invoice[i]["ar"]].status =
             IF db.invoice[i].paid + n >= db.invoice[i].amount THEN "paid" ELSE db.ar[db.invoice[i]["ar"]].status
    BY <1>8
  <2>4. Settled(db'.invoice, Append(db.payment, SalesPayment(i, n)), due)
    BY ONLY <1>9, <2>1, <2>2, <2>3, SettledAfterPayment
  <2>5. QED
    BY <1>1, <1>7, <2>4
<1>11. Served(db'.so, db'.delivery, db'.invoice)
  <2>1. Served(db.so, db.delivery, db.invoice)
    BY DEF BooksAgree
  <2>2. /\ i \in DOMAIN db.invoice /\ row \in SalesInvoiceRows /\ db'.invoice = [db.invoice EXCEPT ![i] = row]
        /\ row["order"] = db.invoice[i]["order"] /\ row["qty"] = db.invoice[i]["qty"]
    BY <1>1, <1>6
  <2>3. Served(db.so, db.delivery, db'.invoice)
    BY ONLY <2>1, <2>2, ServedAfterPayment
  <2>4. QED
    BY <1>3, <2>3
<1>12. QED
  BY <1>3, <1>10, <1>11 DEF BooksAgree

\* A receivable is posted that is no sales invoice.
LEMMA BooksAfterReceivable ==
    ASSUME ~ Concurrent, MaterialsSound, BooksAgree, NEW p, NEW d, NEW n \in Amounts, PostArInvoice(p, d, n)
    PROVE  BooksAgree'
<1>1. n \in Nat
  BY LedgerAssumption
<1>2. db' = PostReceivable(db, d, n, 0)
  BY SerialRows DEF PostArInvoice, Commit
<1>3. /\ DOMAIN db' = DOMAIN db
      /\ db'.ar = Append(db.ar, AccountsReceivableInvoice(Len(db.entry) + 1, n + 0))
      /\ db'["so"] = db["so"] /\ db'["delivery"] = db["delivery"]
      /\ db'["invoice"] = db["invoice"] /\ db'["payment"] = db["payment"]
  <2>1. {"so", "delivery", "invoice", "payment", "ar", "entry"} \subseteq DOMAIN db
    BY DEF BooksAgree, SalesBooks
  <2>2. QED
    BY <1>2, <2>1 DEF PostReceivable, Post, Insert
<1>4. Settled(db'.invoice, db'.payment, db'.ar)
  <2>1. Settled(db.invoice, db.payment, db.ar) /\ n + 0 \in Nat
    BY <1>1 DEF BooksAgree
  <2>2. Settled(db.invoice, db.payment, Append(db.ar, AccountsReceivableInvoice(Len(db.entry) + 1, n + 0)))
    BY ONLY <2>1, SettledAfterDue
  <2>3. QED
    BY <1>3, <2>2
<1>5. QED
  BY <1>3, <1>4 DEF BooksAgree

\* What was delivered is invoiced, with a finance invoice of its own.
LEMMA BooksAfterInvoice ==
    ASSUME ~ Concurrent, MaterialsSound, BooksAgree, NEW p, NEW o, InvoiceDelivered(p, o)
    PROVE  BooksAgree'
<1> DEFINE r == db.so[o]
           q == r.delivered - r.invoiced
           net == q * r.price
           vat == VatOn(net, r.vat)
           bill == SalesInvoice(o, Len(db'.ar), q, net, vat)
<1>1. /\ Touches(p, {"so", "invoice", "ar", "entry"})
      /\ o \in DOMAIN db.so /\ q \in Nat /\ net + vat > 0
      /\ db'.ar = Append(db.ar, AccountsReceivableInvoice(Len(db.entry) + 1, net + vat))
      /\ db'.invoice = Append(db.invoice, bill)
  BY SalesInvoiced DEF MaterialsSound
<1>2. Served(db'.so, db'.delivery, db'.invoice)
  BY ServedAfterInvoicing DEF BooksAgree, Settled
<1>3. DOMAIN db' = DOMAIN db /\ db'["payment"] = db["payment"]
  BY <1>1 DEF Touches, BooksAgree, SalesBooks
<1>4. r \in SoRows /\ o \in Nat
  BY <1>1, ServedIsWhole DEF BooksAgree
<1>5. net \in Nat
  <2>1. r.price \in Nat
    BY <1>4 DEF SoRows
  <2> HIDE DEF q, r
  <2>2. QED
    BY <1>1, <2>1
<1>6. vat \in Nat
  <2>1. r.vat \in Nat
    BY <1>4 DEF SoRows
  <2> HIDE DEF net, r
  <2>2. QED
    BY <1>5, <2>1, VatIsWhole
<1> HIDE DEF net, vat, q, r
<1>7. net + vat \in Nat
  BY <1>5, <1>6
<1>8. Len(db'.ar) = Len(db.ar) + 1 /\ Len(db.ar) \in Nat
  <2>1. PICK row : row = AccountsReceivableInvoice(Len(db.entry) + 1, net + vat)
    OBVIOUS
  <2>2. DueTyped(db.ar) /\ row \in ArRows({row.entry})
    BY <1>7, <2>1, DueRow DEF BooksAgree, Settled
  <2>3. QED
    BY <1>1, <2>1, <2>2, DueAdded
<1>9. bill \in SalesInvoiceRows /\ bill["ar"] = Len(db.ar) + 1 /\ bill.paid = 0 /\ bill.amount > 0
  BY <1>1, <1>4, <1>7, <1>8 DEF SalesInvoice, SalesInvoiceRows
<1> HIDE DEF bill
<1>10. Settled(db'.invoice, db'.payment, db'.ar)
  <2>1. Settled(db.invoice, db.payment, db.ar)
    BY DEF BooksAgree
  <2>2. Settled(Append(db.invoice, bill), db.payment,
                Append(db.ar, AccountsReceivableInvoice(Len(db.entry) + 1, net + vat)))
    BY ONLY <1>7, <1>9, <2>1, SettledAfterInvoice
  <2>3. QED
    BY <1>1, <1>3, <2>2
<1>11. QED
  BY <1>2, <1>3, <1>10 DEF BooksAgree

\* Every step leaves the books in agreement.
LEMMA BooksAfterStep ==
    ASSUME ~ Concurrent, MaterialsSound, BooksAgree, [Next]_<<part, vars>>
    PROVE  BooksAgree'
<1>1. ASSUME DOMAIN db' = DOMAIN db, Served(db'.so, db'.delivery, db'.invoice),
             db'["invoice"] = db["invoice"], db'["payment"] = db["payment"], db'["ar"] = db["ar"]
      PROVE  BooksAgree'
  BY <1>1 DEF BooksAgree
<1>2. {"invoice", "payment", "ar"} \subseteq DOMAIN db
  BY DEF BooksAgree, SalesBooks
<1>3. ASSUME NEW p, SalesOrderRoutes(p) PROVE BooksAgree'
  <2>1. Served(db'.so, db'.delivery, db'.invoice) /\ Touches(p, {"so"})
    BY <1>3, ServedAfterOrderRoutes DEF BooksAgree
  <2>2. DOMAIN db' = DOMAIN db /\ \A t \in {"invoice", "payment", "ar"} : db'[t] = db[t]
    BY <1>2, <2>1 DEF Touches
  <2>3. QED
    BY <1>1, <2>1, <2>2
<1>4. ASSUME NEW p \in Workers, NEW o, NEW q \in 1..2, Deliver(p, o, q) PROVE BooksAgree'
  <2>1. Served(db'.so, db'.delivery, db'.invoice)
    BY <1>4, ServedAfterDeliver DEF BooksAgree
  <2>2. Keeps({"so", "delivery", "entry"} \cup BalanceTables)
    BY <1>4, DeliveryStep
  <2>3. DOMAIN db' = DOMAIN db /\ \A t \in {"invoice", "payment", "ar"} : db'[t] = db[t]
    BY <1>2, <2>2 DEF Keeps, BalanceTables
  <2>4. QED
    BY <1>1, <2>1, <2>3
<1>5. SalesBooks \subseteq DOMAIN db
  BY DEF BooksAgree
<1>6. QED
  BY <1>3, <1>4, <1>5, BooksAfterInvoice, BooksAfterPayment, BooksAfterReceivable, BooksKept, OrdersWriters

\* Nothing is ordered yet.
LEMMA FirstBooks ==
    ASSUME Init
    PROVE  BooksAgree
<1>1. /\ SalesBooks \subseteq DOMAIN db
      /\ db["so"] = <<>> /\ db["delivery"] = <<>> /\ db["invoice"] = <<>> /\ db["payment"] = <<>> /\ db["ar"] = <<>>
  BY FirstTables DEF SalesBooks
<1>2. /\ <<>> \in Seq(SoRows) /\ <<>> \in Seq(DeliveryRows) /\ <<>> \in Seq(SalesInvoiceRows)
      /\ <<>> \in Seq(PaymentRows) /\ <<>> \in Seq(ArRows({}))
  BY EmptyTable
<1>3. DOMAIN <<>> = {}
  OBVIOUS
<1>4. Served(<<>>, <<>>, <<>>) /\ Settled(<<>>, <<>>, <<>>)
  BY <1>2, <1>3 DEF Served, Settled, DueTyped
<1>5. QED
  BY <1>1, <1>4 DEF BooksAgree

\* BooksAgree is inductive together with what the materials keep.
THEOREM SalesBooksAgree == ~ Concurrent => (Spec => [](MaterialsSound /\ BooksAgree))
<1> SUFFICES ASSUME ~ Concurrent PROVE Spec => [](MaterialsSound /\ BooksAgree)
  OBVIOUS
<1>1. Init => MaterialsSound /\ BooksAgree
  BY FirstState, FirstBooks
<1>2. (MaterialsSound /\ BooksAgree) /\ [Next]_<<part, vars>> => (MaterialsSound /\ BooksAgree)'
  <2>1. ASSUME MaterialsSound, BooksAgree, [Next]_<<part, vars>> PROVE MaterialsSound' /\ BooksAgree'
    BY <2>1, PartStep, RestingStep, StepStaysSound, BooksAfterStep
  <2>2. QED
    BY <2>1
<1>3. QED
  BY <1>1, <1>2, PTL DEF Spec

\* What an order says of its deliveries and invoices is what they add up to, for
\* orders that are delivered and invoiced in part, edited, confirmed and cancelled.
THEOREM OrdersFollowDeliveries == ~ Concurrent => (Spec => []OrderFollowsDeliveries)
<1> SUFFICES ASSUME ~ Concurrent PROVE Spec => []OrderFollowsDeliveries
  OBVIOUS
<1>1. BooksAgree => OrderFollowsDeliveries
  BY DeliveriesFollow DEF BooksAgree
<1>2. QED
  BY <1>1, SalesBooksAgree, PTL

\* "A fully paid invoice marks its finance (AR) invoice paid", and nothing else does:
\* no two invoices share a finance invoice and no payment is lost between the two.
THEOREM InvoicesSettleWhenPaid == ~ Concurrent => (Spec => []SettledWhenPaid)
<1> SUFFICES ASSUME ~ Concurrent PROVE Spec => []SettledWhenPaid
  OBVIOUS
<1>1. BooksAgree => SettledWhenPaid
  BY PaidIsSettled DEF BooksAgree
<1>2. QED
  BY <1>1, SalesBooksAgree, PTL

-----------------------------------------------------------------------------
(* Statement lines and the entries they settle *)

BankRows(E) == [status : {"unmatched", "matched", "exception"}, day : Days, amount : Int, entry : E]

\* Lines of whatever entries, of which no two name the same.
LinesApart(bank) ==
    /\ \E E : bank \in Seq(BankRows(E))
    /\ \A j \in DOMAIN bank : \A k \in DOMAIN bank : j # k /\ bank[j]["entry"] # 0 => bank[j]["entry"] # bank[k]["entry"]

\* A line is imported, that names no entry yet.
LEMMA LinesAfterImport ==
    ASSUME NEW bank, LinesApart(bank), NEW d \in Days, NEW n \in Int
    PROVE  LinesApart(Append(bank, BankStatementLine(d, n)))
<1>1. PICK E : bank \in Seq(BankRows(E))
  BY DEF LinesApart
<1>2. PICK row : row = BankStatementLine(d, n)
  OBVIOUS
<1>3. BankRows(E) \subseteq BankRows(E \cup {0}) /\ row \in BankRows(E \cup {0}) /\ row["entry"] = 0
  BY <1>2 DEF BankRows, BankStatementLine
<1>4. bank \in Seq(BankRows(E \cup {0}))
  <2> DEFINE R == BankRows(E)
             S == BankRows(E \cup {0})
  <2>1. bank \in Seq(R) /\ R \subseteq S
    BY <1>1, <1>3
  <2> HIDE DEF R, S
  <2>2. bank \in Seq(S)
    BY <2>1
  <2>3. QED
    BY <2>2 DEF S
<1> DEFINE more == Append(bank, row)
<1>5. /\ more \in Seq(BankRows(E \cup {0})) /\ DOMAIN more = DOMAIN bank \cup {Len(bank) + 1}
      /\ more[Len(bank) + 1] = row /\ \A k \in DOMAIN bank : more[k] = bank[k]
  BY <1>3, <1>4, TableInsert
<1> HIDE DEF more
<1>6. LinesApart(more)
  BY <1>3, <1>5 DEF LinesApart
<1>7. QED
  BY <1>2, <1>6 DEF more

\* A line is matched with an entry that no line names, or found to fit none.
LEMMA LinesAfterMatch ==
    ASSUME NEW bank, LinesApart(bank), NEW k \in DOMAIN bank, NEW e, \A j \in DOMAIN bank : bank[j]["entry"] # e,
           NEW row, \/ row = [bank[k] EXCEPT !.status = "matched", !.entry = e]
                    \/ row = [bank[k] EXCEPT !.status = "exception"]
    PROVE  LinesApart([bank EXCEPT ![k] = row])
<1>1. PICK E : bank \in Seq(BankRows(E))
  BY DEF LinesApart
<1>2. bank[k] \in BankRows(E)
  BY <1>1, TableRows
<1>3. PICK new : new = [bank EXCEPT ![k] = row]
  OBVIOUS
<1>4. row \in BankRows(E \cup {e}) /\ row["entry"] \in {bank[k]["entry"], e}
  BY <1>2 DEF BankRows
<1>5. BankRows(E) \subseteq BankRows(E \cup {e})
  BY DEF BankRows
<1>6. bank \in Seq(BankRows(E \cup {e})) /\ k \in DOMAIN bank /\ row \in BankRows(E \cup {e})
      /\ new = [bank EXCEPT ![k] = row]
  <2> DEFINE R == BankRows(E)
             S == BankRows(E \cup {e})
  <2>1. bank \in Seq(R) /\ R \subseteq S
    BY <1>1, <1>5
  <2> HIDE DEF R, S
  <2>2. bank \in Seq(S)
    BY <2>1
  <2>3. QED
    BY <1>3, <1>4, <2>2 DEF S
<1>7. /\ new \in Seq(BankRows(E \cup {e})) /\ DOMAIN new = DOMAIN bank
      /\ new[k] = row /\ \A j \in DOMAIN bank \ {k} : new[j] = bank[j]
  BY ONLY <1>6, TableUpdate
<1>8. \A i \in DOMAIN new : \A j \in DOMAIN new : i # j /\ new[i]["entry"] # 0 => new[i]["entry"] # new[j]["entry"]
  <2>1. \A i \in DOMAIN bank : \A j \in DOMAIN bank :
          i # j /\ bank[i]["entry"] # 0 => bank[i]["entry"] # bank[j]["entry"]
    BY DEF LinesApart
  <2>2. ASSUME NEW i \in DOMAIN bank, NEW j \in DOMAIN bank, i # j, new[i]["entry"] # 0
        PROVE  new[i]["entry"] # new[j]["entry"]
    <3>1. CASE i = k
      BY <1>4, <1>7, <2>1, <2>2, <3>1
    <3>2. CASE j = k
      BY <1>4, <1>7, <2>1, <2>2, <3>2
    <3>3. CASE i # k /\ j # k
      BY <1>7, <2>1, <2>2, <3>3
    <3>4. QED
      BY <3>1, <3>2, <3>3
  <2>3. QED
    BY <1>7, <2>2
<1>9. LinesApart(new)
  BY <1>7, <1>8 DEF LinesApart
<1>10. QED
  BY <1>3, <1>9

\* A request on the bank.
LEMMA LinesAfterBankRoutes ==
    ASSUME ~ Concurrent, SalesBooks \subseteq DOMAIN db, LinesApart(db.bank), NEW p, BankRoutes(p)
    PROVE  DOMAIN db' = DOMAIN db /\ LinesApart(db'.bank)
<1>1. "bank" \in DOMAIN db
  BY DEF SalesBooks
<1>2. ASSUME NEW d \in Days, NEW n \in Amounts \cup {-m : m \in Amounts}, ImportBankLine(p, d, n)
      PROVE  DOMAIN db' = DOMAIN db /\ LinesApart(db'.bank)
  <2>1. n \in Int
    <3>1. \A m \in Amounts : m \in Int /\ -m \in Int
      BY LedgerAssumption
    <3>2. QED
      BY <3>1
  <2>2. PICK row : row = BankStatementLine(d, n)
    OBVIOUS
  <2>3. db' = [db EXCEPT !.bank = Append(@, row)]
    <3>1. Create(p, "bank", row)
      BY <1>2, <2>2 DEF ImportBankLine
    <3>2. db' = [db EXCEPT !["bank"] = Append(db["bank"], row)]
      BY <3>1, CreateTouches
    <3>3. QED
      BY <3>2
  <2>4. DOMAIN db' = DOMAIN db /\ db'.bank = Append(db.bank, row)
    BY <1>1, <2>3
  <2>5. LinesApart(Append(db.bank, BankStatementLine(d, n)))
    BY <2>1, LinesAfterImport
  <2>6. QED
    BY <2>2, <2>4, <2>5
<1>3. ASSUME NEW k, AutoMatch(p, k)
      PROVE  DOMAIN db' = DOMAIN db /\ LinesApart(db'.bank)
  <2>1. /\ k \in DOMAIN db.bank
        /\ \/ \E e \in Candidates(db, k) : db' = [db EXCEPT !.bank[k].status = "matched", !.bank[k].entry = e]
           \/ db' = [db EXCEPT !.bank[k].status = "exception"]
    BY <1>3, SerialRows DEF AutoMatch, Commit
  <2>2. ASSUME NEW e \in Candidates(db, k), db' = [db EXCEPT !.bank[k].status = "matched", !.bank[k].entry = e]
        PROVE  DOMAIN db' = DOMAIN db /\ LinesApart(db'.bank)
    <3>1. \A j \in DOMAIN db.bank : db.bank[j]["entry"] # e
      BY <2>2 DEF Candidates
    <3>2. PICK row : row = [db.bank[k] EXCEPT !.status = "matched", !.entry = e]
      OBVIOUS
    <3>3. DOMAIN db' = DOMAIN db /\ db'.bank = [db.bank EXCEPT ![k] = row]
      BY <1>1, <2>1, <2>2, <3>2
    <3>4. LinesApart([db.bank EXCEPT ![k] = row])
      <4>1. LinesApart(db.bank) /\ k \in DOMAIN db.bank
        BY <2>1
      <4>2. QED
        BY <3>1, <3>2, <4>1, LinesAfterMatch, Zenon
    <3>5. QED
      BY <3>3, <3>4
  <2>3. ASSUME db' = [db EXCEPT !.bank[k].status = "exception"]
        PROVE  DOMAIN db' = DOMAIN db /\ LinesApart(db'.bank)
    <3>1. PICK e : \A j \in DOMAIN db.bank : db.bank[j]["entry"] # e
      <4> DEFINE used == {db.bank[j]["entry"] : j \in DOMAIN db.bank}
      <4>1. \E e : e \notin used
        <5>1. CASE {x \in used : x \notin x} \notin used
          BY <5>1
        <5>2. CASE {x \in used : x \notin x} \in used
          <6>1. PICK R : R = {x \in used : x \notin x}
            OBVIOUS
          <6>2. R \in R <=> R \notin R
            BY <5>2, <6>1
          <6>3. QED
            BY <6>2
        <5>3. QED
          BY <5>1, <5>2
      <4>2. PICK e : e \notin used
        BY <4>1
      <4>3. QED
        BY <4>2
    <3>2. PICK row : row = [db.bank[k] EXCEPT !.status = "exception"]
      OBVIOUS
    <3>3. DOMAIN db' = DOMAIN db /\ db'.bank = [db.bank EXCEPT ![k] = row]
      BY <1>1, <2>1, <2>3, <3>2
    <3>4. LinesApart([db.bank EXCEPT ![k] = row])
      <4>1. LinesApart(db.bank) /\ k \in DOMAIN db.bank
        BY <2>1
      <4>2. QED
        BY <3>1, <3>2, <4>1, LinesAfterMatch, Zenon
    <3>5. QED
      BY <3>3, <3>4
  <2>4. QED
    BY <2>1, <2>2, <2>3
<1>4. QED
  BY <1>2, <1>3 DEF BankRoutes

\* Nobody but the bank writes statement lines.
LEMMA LinesAfterStep ==
    ASSUME ~ Concurrent, MaterialsSound, SalesBooks \subseteq DOMAIN db, LinesApart(db.bank), [Next]_<<part, vars>>
    PROVE  SalesBooks \subseteq DOMAIN db' /\ LinesApart(db'.bank)
<1> DEFINE Fine == SalesBooks \subseteq DOMAIN db' /\ LinesApart(db'.bank)
<1>1. ASSUME NEW names, Keeps(names), "bank" \notin names PROVE Fine
  <2>1. DOMAIN db' = DOMAIN db /\ db'["bank"] = db["bank"]
    BY <1>1 DEF Keeps, SalesBooks
  <2>2. QED
    BY <2>1
<1>2. ASSUME NEW p, BankRoutes(p) PROVE Fine
  BY <1>2, LinesAfterBankRoutes
<1> HIDE DEF Fine
<1>3. ASSUME NEW p \in Workers, SalesOrderRoutes(p) \/ SettingsRoutes(p) \/ DeliveryRoutes(p) \/ PaymentRoutes(p)
      PROVE  Fine
  <2>1. Keeps(DeliveryTables)
    BY <1>3, SalesStep DEF SalesNext
  <2>2. "bank" \notin DeliveryTables
    BY DEF DeliveryTables, SalesDocuments, BalanceTables
  <2>3. QED
    BY <1>1, <2>1, <2>2
<1>4. ASSUME NEW p, NEW names, Touches(p, names), "bank" \notin names PROVE Fine
  <2>1. Keeps(names)
    BY <1>4 DEF Touches, Keeps
  <2>2. QED
    BY <1>1, <1>4, <2>1
<1>5. ASSUME NEW p, NEW d, NEW n, PostArInvoice(p, d, n) PROVE Fine
  <2>1. Touches(p, {"entry", "ar"})
    BY <1>5, SerialRows DEF PostArInvoice, PostReceivable, Post, Insert, Commit, Finish, Touches
  <2>2. QED
    BY <1>4, <2>1
<1>6. ASSUME NEW p, NEW d, NEW ls, PostManualException(p, d, ls) PROVE Fine
  <2>1. Touches(p, {"entry"})
    BY <1>6, SerialRows DEF PostManualException, Post, Insert, Commit, Finish, Touches
  <2>2. QED
    BY <1>4, <2>1
<1>7. ASSUME NEW p \in Workers, InvoiceRoutes(p) PROVE Fine
  <2>1. ASSUME NEW d, NEW n, NEW c, NEW g, NEW b, PostApInvoice(p, d, n, c, g, b) PROVE Fine
    <3>1. Keeps({"entry"})
      BY <2>1, PayableStep
    <3>2. QED
      BY <1>1, <3>1
  <2>2. ASSUME RecordApInvoice(p) PROVE Fine
    <3>1. Touches(p, {"ap"})
      BY <2>2, SerialRows DEF RecordApInvoice, Insert, Commit, Finish, Touches
    <3>2. QED
      BY <1>4, <3>1
  <2>3. QED
    BY <1>5, <1>7, <2>1, <2>2 DEF InvoiceRoutes
<1>8. ASSUME BooksRest PROVE Fine
  <2>1. DOMAIN db' = DOMAIN db /\ db'["bank"] = db["bank"]
    BY <1>8 DEF BooksRest, SalesBooks
  <2>2. QED
    BY <2>1 DEF Fine
<1>9. Fine
  BY <1>2, <1>3, <1>5, <1>6, <1>7, <1>8, BooksWriters
<1>10. QED
  BY <1>9 DEF Fine

\* A journal entry settles at most one bank statement line: a line is matched only
\* with an entry that none names, and no posting or correction touches the lines.
THEOREM EntriesAreMatchedOnce == ~ Concurrent => (Spec => []EntryMatchedOnce)
<1> SUFFICES ASSUME ~ Concurrent PROVE Spec => []EntryMatchedOnce
  OBVIOUS
<1> DEFINE Inv == MaterialsSound /\ SalesBooks \subseteq DOMAIN db /\ LinesApart(db.bank)
<1>1. Init => Inv
  <2> SUFFICES ASSUME Init PROVE Inv
    OBVIOUS
  <2>1. SalesBooks \subseteq DOMAIN db /\ db["bank"] = <<>>
    BY FirstTables DEF SalesBooks
  <2>2. <<>> \in Seq(BankRows({})) /\ DOMAIN <<>> = {}
    BY EmptyTable
  <2>3. LinesApart(<<>>)
    BY <2>2 DEF LinesApart
  <2>4. QED
    BY <2>1, <2>3, FirstState
<1>2. Inv /\ [Next]_<<part, vars>> => Inv'
  <2> SUFFICES ASSUME Inv, [Next]_<<part, vars>> PROVE Inv'
    OBVIOUS
  <2>1. MaterialsSound'
    BY PartStep, RestingStep, StepStaysSound
  <2>2. SalesBooks \subseteq DOMAIN db' /\ LinesApart(db'.bank)
    BY LinesAfterStep
  <2>3. LinesApart(db.bank)' = LinesApart(db'.bank) /\ (SalesBooks \subseteq DOMAIN db)' = (SalesBooks \subseteq DOMAIN db')
    BY DEF LinesApart, SalesBooks, BankRows
  <2>4. QED
    BY <2>1, <2>2, <2>3
<1>3. Inv => EntryMatchedOnce
  BY DEF LinesApart, EntryMatchedOnce
<1> HIDE DEF Inv
<1>4. QED
  BY <1>1, <1>2, <1>3, PTL DEF Spec

-----------------------------------------------------------------------------
(* Balances of accounts *)

BalanceIn(f, a) ==
    SumOf(f, "debit", {l \in DOMAIN f : f[l].account = a}) - SumOf(f, "credit", {l \in DOMAIN f : f[l].account = a})

AccountsSum(f, A) == SumFunctionOnSet([a \in A |-> BalanceIn(f, a)], A)

\* Finitely many lines of whole amounts.
Whole(f) ==
    /\ IsFiniteSet(DOMAIN f)
    /\ \A l \in DOMAIN f : f[l]["debit"] \in Int /\ f[l]["credit"] \in Int

\* One more line.
With(f, l, x) == [k \in DOMAIN f \cup {l} |-> IF k = l THEN x ELSE f[k]]

\* What a line adds to the accounts of A.
Weight(x, A) == IF x.account \in A THEN x.debit - x.credit ELSE 0

\* Balances are whole.
LEMMA BalanceIsWhole ==
    ASSUME NEW f, Whole(f), NEW a
    PROVE  BalanceIn(f, a) \in Int
<1> DEFINE S == {l \in DOMAIN f : f[l].account = a}
<1>1. IsFiniteSet(S) /\ \A l \in S : f[l]["debit"] \in Int /\ f[l]["credit"] \in Int
  BY FS_Subset DEF Whole
<1>2. S \subseteq DOMAIN f
  OBVIOUS
<1> HIDE DEF S
<1>3. SumOf(f, "debit", S) \in Int /\ SumOf(f, "credit", S) \in Int
  BY <1>1, <1>2, SumOfIsInteger
<1>4. BalanceIn(f, a) = SumOf(f, "debit", S) - SumOf(f, "credit", S)
  BY Zenon DEF BalanceIn, S
<1>5. QED
  BY <1>3, <1>4

\* A line adds to the balance of its own account and of no other.
LEMMA BalanceWithLine ==
    ASSUME NEW f, Whole(f), NEW l, l \notin DOMAIN f, NEW x, x["debit"] \in Int, x["credit"] \in Int, NEW a
    PROVE  /\ Whole(With(f, l, x))
           /\ BalanceIn(With(f, l, x), a) = BalanceIn(f, a) + (IF x.account = a THEN x.debit - x.credit ELSE 0)
<1>0. PICK g : g = With(f, l, x)
  OBVIOUS
<1>1. DOMAIN g = DOMAIN f \cup {l} /\ g[l] = x /\ \A k \in DOMAIN f : g[k] = f[k]
  BY <1>0 DEF With
<1>2. Whole(g)
  <2>1. IsFiniteSet(DOMAIN f \cup {l})
    BY FS_AddElement DEF Whole
  <2>2. QED
    BY <1>1, <2>1 DEF Whole
<1> DEFINE S == {k \in DOMAIN f : f[k].account = a}
           Q == {k \in DOMAIN g : g[k].account = a}
<1>3. /\ IsFiniteSet(S) /\ S \subseteq DOMAIN f /\ S \subseteq DOMAIN g /\ Q \subseteq DOMAIN g /\ l \notin S
      /\ \A k \in S : f[k]["debit"] \in Int /\ f[k]["credit"] \in Int
      /\ \A k \in S : g[k]["debit"] = f[k]["debit"] /\ g[k]["credit"] = f[k]["credit"]
      /\ g[l]["debit"] \in Int /\ g[l]["credit"] \in Int
  BY <1>1, FS_Subset DEF Whole
<1>4. Q = IF x.account = a THEN S \cup {l} ELSE S
  BY <1>1
<1>5. /\ BalanceIn(f, a) = SumOf(f, "debit", S) - SumOf(f, "credit", S)
      /\ BalanceIn(g, a) = SumOf(g, "debit", Q) - SumOf(g, "credit", Q)
  BY Zenon DEF BalanceIn, S, Q
<1>6. SumOf(f, "debit", S) \in Int /\ SumOf(f, "credit", S) \in Int
  <2> HIDE DEF S
  <2>1. QED
    BY <1>3, SumOfIsInteger
<1>7. CASE x.account = a
  <2>1. Q = S \cup {l}
    BY <1>4, <1>7
  <2> HIDE DEF S, Q
  <2>2. SumOf(g, "debit", Q) = SumOf(f, "debit", S) + g[l]["debit"]
    BY ONLY <1>3, <2>1, SumOfOneMore
  <2>3. SumOf(g, "credit", Q) = SumOf(f, "credit", S) + g[l]["credit"]
    BY ONLY <1>3, <2>1, SumOfOneMore
  <2>4. BalanceIn(g, a) = BalanceIn(f, a) + (x.debit - x.credit)
    BY <1>1, <1>5, <1>6, <2>2, <2>3
  <2>5. QED
    BY <1>0, <1>2, <1>7, <2>4
<1>8. CASE x.account # a
  <2>1. Q = S
    BY <1>4, <1>8
  <2> HIDE DEF S, Q
  <2>2. SumOf(g, "debit", S) = SumOf(f, "debit", S)
    BY ONLY <1>3, SumOfSameRows
  <2>3. SumOf(g, "credit", S) = SumOf(f, "credit", S)
    BY ONLY <1>3, SumOfSameRows
  <2>4. BalanceIn(g, a) = BalanceIn(f, a) + 0
    BY <1>5, <1>6, <2>1, <2>2, <2>3
  <2>5. QED
    BY <1>0, <1>2, <1>8, <2>4
<1>9. QED
  BY <1>7, <1>8

\* So it adds to a sum of balances what it weighs.
LEMMA AccountsSumWithLine ==
    ASSUME NEW f, Whole(f), NEW l, l \notin DOMAIN f, NEW x, x["debit"] \in Int, x["credit"] \in Int,
           NEW A, IsFiniteSet(A)
    PROVE  /\ AccountsSum(f, A) \in Int
           /\ AccountsSum(With(f, l, x), A) = AccountsSum(f, A) + Weight(x, A)
<1>0. PICK g : g = With(f, l, x)
  OBVIOUS
<1> DEFINE old == [a \in A |-> BalanceIn(f, a)]
           new == [a \in A |-> BalanceIn(g, a)]
<1>1. Whole(g) /\ \A a : BalanceIn(g, a) = BalanceIn(f, a) + (IF x.account = a THEN x.debit - x.credit ELSE 0)
  BY <1>0, BalanceWithLine
<1>2. \A a \in A : old[a] \in Int /\ new[a] \in Int /\ old[a] = BalanceIn(f, a) /\ new[a] = BalanceIn(g, a)
  BY <1>1, BalanceIsWhole
<1>3. AccountsSum(f, A) = SumFunctionOnSet(old, A) /\ AccountsSum(g, A) = SumFunctionOnSet(new, A)
  BY DEF AccountsSum
<1> HIDE DEF old, new
<1>4. SumFunctionOnSet(old, A) \in Int
  BY <1>2, SumIsInteger
<1>5. CASE x.account \in A
  <2>1. PICK b \in A : b = x.account
    BY <1>5
  <2>2. \A a \in A \ {b} : new[a] = old[a]
    BY <1>1, <1>2, <2>1
  <2>3. SumFunctionOnSet(new, A) = SumFunctionOnSet(old, A) + new[b] - old[b]
    BY <1>2, <2>2, SumChangedAt
  <2>4. new[b] = old[b] + (x.debit - x.credit)
    BY <1>1, <1>2, <2>1
  <2>5. SumFunctionOnSet(new, A) = SumFunctionOnSet(old, A) + (x.debit - x.credit)
    BY <1>2, <1>4, <2>3, <2>4
  <2>6. QED
    BY <1>0, <1>3, <1>4, <1>5, <2>5 DEF Weight
<1>6. CASE x.account \notin A
  <2>1. \A a \in A : new[a] = old[a]
    BY <1>1, <1>2, <1>6
  <2>2. SumFunctionOnSet(new, A) = SumFunctionOnSet(old, A)
    BY <2>1, SumsOfEqualValues
  <2>3. QED
    BY <1>0, <1>3, <1>4, <1>6, <2>2 DEF Weight
<1>7. QED
  BY <1>5, <1>6

\* All postings of a table of entries.
LedgerOf(es) == [l \in UNION {{e} \X DOMAIN es[e].lines : e \in DOMAIN es} |-> es[l[1]].lines[l[2]]]

LedgerWhole(es) == (\E R : es \in Seq(R)) /\ Whole(LedgerOf(es))

\* A table of rows of whatever kind is one of rows of a kind that a new row is of.
LEMMA TableGrows ==
    ASSUME NEW R, NEW t \in Seq(R), NEW row
    PROVE  /\ Append(t, row) \in Seq(R \cup {row}) /\ Len(t) \in Nat
           /\ DOMAIN Append(t, row) = DOMAIN t \cup {Len(t) + 1} /\ Len(t) + 1 \notin DOMAIN t
           /\ Append(t, row)[Len(t) + 1] = row /\ \A k \in DOMAIN t : Append(t, row)[k] = t[k]
<1> DEFINE S == R \cup {row}
<1>1. R \subseteq S /\ row \in S
  OBVIOUS
<1> HIDE DEF S
<1>2. t \in Seq(S)
  BY <1>1
<1>3. /\ Append(t, row) \in Seq(S) /\ Len(t) \in Nat
      /\ DOMAIN Append(t, row) = DOMAIN t \cup {Len(t) + 1} /\ Len(t) + 1 \notin DOMAIN t
      /\ Append(t, row)[Len(t) + 1] = row /\ \A k \in DOMAIN t : Append(t, row)[k] = t[k]
  BY <1>1, <1>2, TableInsert, TableRows
<1>4. QED
  BY <1>3 DEF S

\* An entry of two lines adds two lines.
LEMMA LedgerWithPair ==
    ASSUME NEW es, \E R : es \in Seq(R), NEW row, NEW x1, NEW x2, row.lines = <<x1, x2>>
    PROVE  LET y == Len(es) + 1
           IN /\ LedgerOf(Append(es, row)) = With(With(LedgerOf(es), <<y, 1>>, x1), <<y, 2>>, x2)
              /\ <<y, 1>> \notin DOMAIN LedgerOf(es)
              /\ <<y, 2>> \notin DOMAIN With(LedgerOf(es), <<y, 1>>, x1)
<1>1. PICK R : es \in Seq(R)
  OBVIOUS
<1>2. PICK new : new = Append(es, row)
  OBVIOUS
<1>3. PICK y : y = Len(es) + 1
  OBVIOUS
<1>4. /\ DOMAIN new = DOMAIN es \cup {y} /\ y \notin DOMAIN es
      /\ new[y] = row /\ \A k \in DOMAIN es : new[k] = es[k]
  BY <1>1, <1>2, <1>3, TableGrows
<1>5. DOMAIN row.lines = {1, 2} /\ row.lines[1] = x1 /\ row.lines[2] = x2
  OBVIOUS
<1> DEFINE f == LedgerOf(es)
           g == LedgerOf(new)
           h == With(With(f, <<y, 1>>, x1), <<y, 2>>, x2)
<1>6. /\ DOMAIN f = UNION {{e} \X DOMAIN es[e].lines : e \in DOMAIN es}
      /\ \A l \in DOMAIN f : f[l] = es[l[1]].lines[l[2]]
      /\ DOMAIN g = UNION {{e} \X DOMAIN new[e].lines : e \in DOMAIN new}
      /\ \A l \in DOMAIN g : g[l] = new[l[1]].lines[l[2]]
  BY DEF LedgerOf
<1>7. \A l \in DOMAIN f : l[1] \in DOMAIN es
  BY <1>6
<1>8. <<y, 1>> \notin DOMAIN f /\ <<y, 2>> \notin DOMAIN f /\ <<y, 1>> # <<y, 2>>
  BY <1>4, <1>7
<1>9. /\ DOMAIN h = DOMAIN f \cup {<<y, 1>>, <<y, 2>>}
      /\ h[<<y, 1>>] = x1 /\ h[<<y, 2>>] = x2 /\ \A l \in DOMAIN f : h[l] = f[l]
  <2> HIDE DEF f
  <2>1. QED
    BY <1>8 DEF With
<1>10. DOMAIN g = DOMAIN f \cup {<<y, 1>>, <<y, 2>>}
  <2>1. ASSUME NEW l \in DOMAIN g PROVE l \in DOMAIN f \cup {<<y, 1>>, <<y, 2>>}
    <3>1. PICK e \in DOMAIN new : l \in {e} \X DOMAIN new[e].lines
      BY <1>6, <2>1
    <3>2. CASE e = y
      BY <1>4, <1>5, <3>1, <3>2
    <3>3. CASE e # y
      BY <1>4, <1>6, <3>1, <3>3
    <3>4. QED
      BY <3>2, <3>3
  <2>2. ASSUME NEW l \in DOMAIN f PROVE l \in DOMAIN g
    <3>1. PICK e \in DOMAIN es : l \in {e} \X DOMAIN es[e].lines
      BY <1>6, <2>2
    <3>2. QED
      BY <1>4, <1>6, <3>1
  <2>3. <<y, 1>> \in {y} \X DOMAIN new[y].lines /\ <<y, 2>> \in {y} \X DOMAIN new[y].lines
    BY <1>4, <1>5
  <2>4. <<y, 1>> \in DOMAIN g /\ <<y, 2>> \in DOMAIN g
    BY <1>4, <1>6, <2>3
  <2>5. QED
    BY <2>1, <2>2, <2>4
<1>11. \A l \in DOMAIN g : g[l] = h[l]
  <2>1. ASSUME NEW l \in DOMAIN f PROVE g[l] = h[l]
    <3>1. l \in DOMAIN g /\ new[l[1]] = es[l[1]]
      BY <1>4, <1>7, <1>10, <2>1
    <3> HIDE DEF f, g, h
    <3>2. QED
      BY <1>6, <1>9, <2>1, <3>1
  <2>2. g[<<y, 1>>] = x1 /\ g[<<y, 2>>] = x2
    <3>1. <<y, 1>> \in DOMAIN g /\ <<y, 2>> \in DOMAIN g
      BY <1>10
    <3>2. g[<<y, 1>>] = new[y].lines[1] /\ g[<<y, 2>>] = new[y].lines[2]
      BY <1>6, <3>1
    <3>3. QED
      BY <1>4, <1>5, <3>2
  <2> HIDE DEF f, g, h
  <2>3. TAKE l \in DOMAIN g
  <2>4. CASE l \in DOMAIN f
    BY <2>1, <2>4
  <2>5. CASE l = <<y, 1>>
    BY <1>9, <2>2, <2>5
  <2>6. CASE l = <<y, 2>>
    BY <1>9, <2>2, <2>6
  <2>7. QED
    BY <1>10, <2>4, <2>5, <2>6
<1>12. g = h
  <2>1. g = [l \in DOMAIN g |-> g[l]]
    BY DEF LedgerOf
  <2>2. h = [l \in DOMAIN h |-> h[l]]
    BY DEF With
  <2> HIDE DEF g, h, f
  <2>3. QED
    BY <1>9, <1>10, <1>11, <2>1, <2>2
<1>13. <<y, 2>> \notin DOMAIN With(f, <<y, 1>>, x1)
  <2> HIDE DEF f
  <2>1. QED
    BY <1>8 DEF With
<1>14. QED
  BY <1>2, <1>3, <1>8, <1>12, <1>13

\* A third line of the last entry adds one.
LEMMA LedgerWithThird ==
    ASSUME NEW es, \E R : es \in Seq(R), NEW row, NEW more, NEW x1, NEW x2, NEW x3,
           row.lines = <<x1, x2>>, more.lines = <<x1, x2, x3>>
    PROVE  LET y == Len(es) + 1
           IN /\ LedgerOf(Append(es, more)) = With(LedgerOf(Append(es, row)), <<y, 3>>, x3)
              /\ <<y, 3>> \notin DOMAIN LedgerOf(Append(es, row))
<1>1. PICK R : es \in Seq(R)
  OBVIOUS
<1>2. PICK old : old = Append(es, row)
  OBVIOUS
<1>3. PICK new : new = Append(es, more)
  OBVIOUS
<1>4. PICK y : y = Len(es) + 1
  OBVIOUS
<1>5. /\ DOMAIN new = DOMAIN es \cup {y} /\ DOMAIN old = DOMAIN es \cup {y} /\ y \notin DOMAIN es
      /\ new[y] = more /\ old[y] = row /\ \A k \in DOMAIN es : new[k] = old[k]
  BY <1>1, <1>2, <1>3, <1>4, TableGrows
<1>6. /\ DOMAIN row.lines = {1, 2} /\ row.lines[1] = x1 /\ row.lines[2] = x2
      /\ DOMAIN more.lines = {1, 2, 3} /\ more.lines[1] = x1 /\ more.lines[2] = x2 /\ more.lines[3] = x3
  OBVIOUS
<1> DEFINE f == LedgerOf(old)
           g == LedgerOf(new)
           h == With(f, <<y, 3>>, x3)
<1>7. /\ DOMAIN f = UNION {{e} \X DOMAIN old[e].lines : e \in DOMAIN old}
      /\ \A l \in DOMAIN f : f[l] = old[l[1]].lines[l[2]]
      /\ DOMAIN g = UNION {{e} \X DOMAIN new[e].lines : e \in DOMAIN new}
      /\ \A l \in DOMAIN g : g[l] = new[l[1]].lines[l[2]]
  BY DEF LedgerOf
<1>8. <<y, 3>> \notin DOMAIN f
  <2>1. ASSUME <<y, 3>> \in DOMAIN f PROVE FALSE
    <3>1. PICK e \in DOMAIN old : <<y, 3>> \in {e} \X DOMAIN old[e].lines
      BY <1>7, <2>1
    <3>2. e = y /\ 3 \in DOMAIN old[y].lines
      BY <3>1
    <3>3. QED
      BY <1>5, <1>6, <3>2
  <2>2. QED
    BY <2>1
<1>9. DOMAIN h = DOMAIN f \cup {<<y, 3>>} /\ h[<<y, 3>>] = x3 /\ \A l \in DOMAIN f : h[l] = f[l]
  <2> HIDE DEF f
  <2>1. QED
    BY <1>8 DEF With
<1>10. DOMAIN g = DOMAIN f \cup {<<y, 3>>}
  <2>1. ASSUME NEW l \in DOMAIN g PROVE l \in DOMAIN f \cup {<<y, 3>>}
    <3>1. PICK e \in DOMAIN new : l \in {e} \X DOMAIN new[e].lines
      BY <1>7, <2>1
    <3>2. CASE e = y
      <4>1. l = <<y, 3>> \/ l \in {y} \X DOMAIN old[y].lines
        BY <1>5, <1>6, <3>1, <3>2
      <4>2. QED
        BY <1>5, <1>7, <4>1
    <3>3. CASE e # y
      BY <1>5, <1>7, <3>1, <3>3
    <3>4. QED
      BY <3>2, <3>3
  <2>2. ASSUME NEW l \in DOMAIN f PROVE l \in DOMAIN g
    <3>1. PICK e \in DOMAIN old : l \in {e} \X DOMAIN old[e].lines
      BY <1>7, <2>2
    <3>2. DOMAIN old[e].lines \subseteq DOMAIN new[e].lines /\ e \in DOMAIN new
      BY <1>5, <1>6
    <3>3. l \in {e} \X DOMAIN new[e].lines
      BY <3>1, <3>2
    <3>4. QED
      BY <1>7, <3>2, <3>3
  <2>3. y \in DOMAIN new /\ <<y, 3>> \in {y} \X DOMAIN new[y].lines
    BY <1>5, <1>6
  <2>4. <<y, 3>> \in DOMAIN g
    BY <1>7, <2>3
  <2>5. QED
    BY <2>1, <2>2, <2>4
<1>11. \A l \in DOMAIN g : g[l] = h[l]
  <2>1. ASSUME NEW l \in DOMAIN f PROVE g[l] = h[l]
    <3>1. PICK e \in DOMAIN old : l \in {e} \X DOMAIN old[e].lines
      BY <1>7, <2>1
    <3>2. l[1] = e /\ l[2] \in DOMAIN old[e].lines /\ l \in DOMAIN g
      BY <1>10, <2>1, <3>1
    <3>3. new[e].lines[l[2]] = old[e].lines[l[2]]
      BY <1>5, <1>6, <3>2
    <3> HIDE DEF f, g, h
    <3>4. QED
      BY <1>7, <1>9, <2>1, <3>2, <3>3
  <2>2. g[<<y, 3>>] = x3
    <3>1. <<y, 3>> \in DOMAIN g
      BY <1>10
    <3>2. g[<<y, 3>>] = new[y].lines[3]
      BY <1>7, <3>1
    <3>3. QED
      BY <1>5, <1>6, <3>2
  <2> HIDE DEF f, g, h
  <2>3. QED
    BY <1>9, <1>10, <2>1, <2>2
<1>12. g = h
  <2>1. g = [l \in DOMAIN g |-> g[l]]
    BY DEF LedgerOf
  <2>2. h = [l \in DOMAIN h |-> h[l]]
    BY DEF With
  <2> HIDE DEF g, h, f
  <2>3. QED
    BY <1>9, <1>10, <1>11, <2>1, <2>2
<1>13. QED
  BY <1>2, <1>3, <1>4, <1>8, <1>12

-----------------------------------------------------------------------------
(* The ledger agrees with the books *)

\* The accounts that handlers post to are in the chart, and the accounts chosen for
\* what customers owe are those and no others.
AccountsApart ==
    /\ IsFiniteSet(DOMAIN ChartOfAccounts)
    /\ "receivable" \in ReceivableAccounts
    /\ {"cash", "payable", "revenue", "expense", "inventory", "vat"}
         \subseteq DOMAIN ChartOfAccounts \ ReceivableAccounts

\* Receivable accounts are accounts, finitely many.
LEMMA AccountsAreFinite ==
    ASSUME AccountsApart
    PROVE  /\ ReceivableAccounts \subseteq DOMAIN ChartOfAccounts
           /\ IsFiniteSet(ReceivableAccounts) /\ IsFiniteSet(DOMAIN ChartOfAccounts)
<1>1. ReceivableAccounts \subseteq DOMAIN ChartOfAccounts
  BY SalesAssumption DEF ReceivableAccounts
<1>2. QED
  BY <1>1, FS_Subset DEF AccountsApart

\* What is posted is whole; if accounts are apart, it balances and adds n to what
\* customers owe.
Posted(old, new, n) ==
    /\ LedgerWhole(new)
    /\ AccountsApart =>
         /\ AccountsSum(LedgerOf(new), DOMAIN ChartOfAccounts) = AccountsSum(LedgerOf(old), DOMAIN ChartOfAccounts)
         /\ AccountsSum(LedgerOf(new), ReceivableAccounts) = AccountsSum(LedgerOf(old), ReceivableAccounts) + n

\* Two lines of amounts.
LEMMA PairIsPosted ==
    ASSUME NEW es, LedgerWhole(es), NEW row, NEW x1, NEW x2, row.lines = <<x1, x2>>,
           x1["debit"] \in Int, x1["credit"] \in Int, x2["debit"] \in Int, x2["credit"] \in Int
    PROVE  /\ LedgerWhole(Append(es, row))
           /\ \A A : IsFiniteSet(A) =>
                /\ AccountsSum(LedgerOf(es), A) \in Int
                /\ AccountsSum(LedgerOf(Append(es, row)), A) =
                     AccountsSum(LedgerOf(es), A) + Weight(x1, A) + Weight(x2, A)
<1>1. PICK f : f = LedgerOf(es)
  OBVIOUS
<1>2. PICK y : y = Len(es) + 1
  OBVIOUS
<1>3. PICK g : g = With(f, <<y, 1>>, x1)
  OBVIOUS
<1>4. PICK h : h = With(g, <<y, 2>>, x2)
  OBVIOUS
<1>5. LedgerOf(Append(es, row)) = h /\ <<y, 1>> \notin DOMAIN f /\ <<y, 2>> \notin DOMAIN g
  <2>1. (\E R : es \in Seq(R)) /\ row.lines = <<x1, x2>>
    BY DEF LedgerWhole
  <2>2. /\ LedgerOf(Append(es, row)) = With(With(LedgerOf(es), <<Len(es) + 1, 1>>, x1), <<Len(es) + 1, 2>>, x2)
        /\ <<Len(es) + 1, 1>> \notin DOMAIN LedgerOf(es)
        /\ <<Len(es) + 1, 2>> \notin DOMAIN With(LedgerOf(es), <<Len(es) + 1, 1>>, x1)
    BY ONLY <2>1, LedgerWithPair, Zenon
  <2>3. QED
    BY <1>1, <1>2, <1>3, <1>4, <2>2
<1>6. Whole(f)
  BY <1>1 DEF LedgerWhole
<1>7. Whole(g)
  BY <1>3, <1>5, <1>6, BalanceWithLine
<1>8. Whole(h)
  BY <1>4, <1>5, <1>7, BalanceWithLine
<1>9. \E R : Append(es, row) \in Seq(R)
  <2>1. PICK R : es \in Seq(R)
    BY DEF LedgerWhole
  <2>2. QED
    BY <2>1, TableGrows
<1>10. ASSUME NEW A, IsFiniteSet(A)
       PROVE  /\ AccountsSum(f, A) \in Int
              /\ AccountsSum(h, A) = AccountsSum(f, A) + Weight(x1, A) + Weight(x2, A)
  <2>1. AccountsSum(f, A) \in Int /\ AccountsSum(g, A) = AccountsSum(f, A) + Weight(x1, A)
    BY <1>3, <1>5, <1>6, <1>10, AccountsSumWithLine
  <2>2. AccountsSum(h, A) = AccountsSum(g, A) + Weight(x2, A)
    BY <1>4, <1>5, <1>7, <1>10, AccountsSumWithLine
  <2>3. QED
    BY <2>1, <2>2
<1>11. QED
  BY <1>1, <1>5, <1>8, <1>9, <1>10 DEF LedgerWhole

\* Debit one account, credit another.
LEMMA TransferIsPosted ==
    ASSUME NEW es, LedgerWhole(es), NEW row, NEW n \in Int, NEW a, NEW b, NEW c,
           AccountsApart => {a, b} \subseteq DOMAIN ChartOfAccounts, row.lines = <<Debit(a, n, c), Credit(b, n)>>
    PROVE  Posted(es, Append(es, row),
                  (IF a \in ReceivableAccounts THEN n ELSE 0) - (IF b \in ReceivableAccounts THEN n ELSE 0))
<1>1. PICK x1 : x1 = Debit(a, n, c)
  OBVIOUS
<1>2. PICK x2 : x2 = Credit(b, n)
  OBVIOUS
<1>3. /\ x1["debit"] = n /\ x1["credit"] = 0 /\ x2["debit"] = 0 /\ x2["credit"] = n
      /\ x1.account = a /\ x2.account = b
  BY <1>1, <1>2 DEF Debit, Credit
<1>4. \A A : Weight(x1, A) = (IF a \in A THEN n ELSE 0) /\ Weight(x2, A) = (IF b \in A THEN 0 - n ELSE 0)
  BY <1>3 DEF Weight
<1>5. /\ LedgerWhole(Append(es, row))
      /\ \A A : IsFiniteSet(A) =>
           /\ AccountsSum(LedgerOf(es), A) \in Int
           /\ AccountsSum(LedgerOf(Append(es, row)), A) =
                AccountsSum(LedgerOf(es), A) + Weight(x1, A) + Weight(x2, A)
  <2>1. /\ LedgerWhole(es) /\ row.lines = <<x1, x2>>
        /\ x1["debit"] \in Int /\ x1["credit"] \in Int /\ x2["debit"] \in Int /\ x2["credit"] \in Int
    BY <1>1, <1>2, <1>3
  <2>2. QED
    BY ONLY <2>1, PairIsPosted
<1>6. QED
  BY <1>4, <1>5, AccountsAreFinite DEF Posted

\* The lines of a receivable: the net amount, and its VAT when there is any.
LEMMA LinesOfReceivable ==
    ASSUME NEW net, NEW vat \in Nat
    PROVE  ReceivableLines(net, vat) =
             IF vat > 0 THEN <<Debit("receivable", net + vat, None), Credit("revenue", net), Credit("vat", vat)>>
             ELSE <<Debit("receivable", net + vat, None), Credit("revenue", net)>>
<1>1. ASSUME NEW x, NEW y, NEW z PROVE <<x, y>> \o <<z>> = <<x, y, z>> /\ <<x, y>> \o <<>> = <<x, y>>
  <2>1. PICK S : S = {x, y, z}
    OBVIOUS
  <2>2. <<x, y>> \in Seq(S) /\ z \in S
    BY <2>1
  <2>3. Append(<<x, y>>, z) = <<x, y>> \o <<z>> /\ <<x, y>> \o <<>> = <<x, y>>
    BY <2>2, AppendIsConcat, ConcatEmptySeq
  <2>4. Append(<<x, y>>, z) = <<x, y, z>>
    <3>1. PICK s : s = Append(<<x, y>>, z)
      OBVIOUS
    <3>2. PICK t : t = <<x, y, z>>
      OBVIOUS
    <3>3. s \in Seq(S) /\ Len(s) = 3 /\ s[1] = x /\ s[2] = y /\ s[3] = z
      BY <2>2, <3>1, AppendProperties
    <3>4. t \in Seq(S) /\ Len(t) = 3 /\ t[1] = x /\ t[2] = y /\ t[3] = z
      BY <2>2, <3>2
    <3>5. \A i \in 1..3 : i = 1 \/ i = 2 \/ i = 3
      OBVIOUS
    <3>6. \A i \in 1..3 : s[i] = t[i]
      BY <3>3, <3>4, <3>5
    <3>7. s = t
      BY <3>3, <3>4, <3>6, SeqEqual
    <3>8. QED
      BY <3>1, <3>2, <3>7
  <2>5. QED
    BY <2>3, <2>4
<1>2. QED
  BY <1>1 DEF ReceivableLines

\* A customer owes the net amount and its VAT.
LEMMA ReceivableIsPosted ==
    ASSUME NEW es, LedgerWhole(es), NEW net \in Nat, NEW vat \in Nat,
           NEW a, AccountsApart => a \in ReceivableAccounts, NEW row,
           row.lines = IF vat > 0 THEN <<Debit(a, net + vat, None), Credit("revenue", net), Credit("vat", vat)>>
                       ELSE <<Debit(a, net + vat, None), Credit("revenue", net)>>
    PROVE  Posted(es, Append(es, row), net + vat)
<1>1. PICK x1 : x1 = Debit(a, net + vat, None)
  OBVIOUS
<1>2. PICK x2 : x2 = Credit("revenue", net)
  OBVIOUS
<1>3. PICK x3 : x3 = Credit("vat", vat)
  OBVIOUS
<1>4. /\ x1["debit"] = net + vat /\ x1["credit"] = 0 /\ x1.account = a
      /\ x2["debit"] = 0 /\ x2["credit"] = net /\ x2.account = "revenue"
      /\ x3["debit"] = 0 /\ x3["credit"] = vat /\ x3.account = "vat"
      /\ net + vat \in Int /\ net \in Int /\ vat \in Int
  BY <1>1, <1>2, <1>3 DEF Debit, Credit
<1>5. \A A : /\ Weight(x1, A) = (IF a \in A THEN net + vat ELSE 0)
             /\ Weight(x2, A) = (IF "revenue" \in A THEN 0 - net ELSE 0)
             /\ Weight(x3, A) = (IF "vat" \in A THEN 0 - vat ELSE 0)
  BY <1>4 DEF Weight
<1>6. PICK pair : pair = [lines |-> <<x1, x2>>]
  OBVIOUS
<1>7. /\ LedgerWhole(Append(es, pair))
      /\ \A A : IsFiniteSet(A) =>
           /\ AccountsSum(LedgerOf(es), A) \in Int
           /\ AccountsSum(LedgerOf(Append(es, pair)), A) =
                AccountsSum(LedgerOf(es), A) + Weight(x1, A) + Weight(x2, A)
  <2>1. /\ LedgerWhole(es) /\ pair.lines = <<x1, x2>>
        /\ x1["debit"] \in Int /\ x1["credit"] \in Int /\ x2["debit"] \in Int /\ x2["credit"] \in Int
    BY <1>4, <1>6
  <2>2. QED
    BY ONLY <2>1, PairIsPosted
<1>8. CASE ~ (vat > 0)
  <2>1. /\ LedgerWhole(Append(es, row))
        /\ \A A : IsFiniteSet(A) =>
             /\ AccountsSum(LedgerOf(es), A) \in Int
             /\ AccountsSum(LedgerOf(Append(es, row)), A) =
                  AccountsSum(LedgerOf(es), A) + Weight(x1, A) + Weight(x2, A)
    <3>1. /\ LedgerWhole(es) /\ row.lines = <<x1, x2>>
          /\ x1["debit"] \in Int /\ x1["credit"] \in Int /\ x2["debit"] \in Int /\ x2["credit"] \in Int
      BY <1>1, <1>2, <1>4, <1>8
    <3>2. QED
      BY ONLY <3>1, PairIsPosted
  <2>2. vat = 0
    BY <1>8
  <2>3. AccountsApart =>
          /\ IsFiniteSet(ReceivableAccounts) /\ IsFiniteSet(DOMAIN ChartOfAccounts)
          /\ a \in DOMAIN ChartOfAccounts /\ a \in ReceivableAccounts
          /\ "revenue" \in DOMAIN ChartOfAccounts \ ReceivableAccounts
    BY AccountsAreFinite DEF AccountsApart
  <2>4. QED
    BY <1>4, <1>5, <2>1, <2>2, <2>3 DEF Posted
<1>9. CASE vat > 0
  <2>1. PICK f : f = LedgerOf(Append(es, pair))
    OBVIOUS
  <2>2. PICK y : y = Len(es) + 1
    OBVIOUS
  <2>3. LedgerOf(Append(es, row)) = With(f, <<y, 3>>, x3) /\ <<y, 3>> \notin DOMAIN f
    <3>1. (\E R : es \in Seq(R)) /\ pair.lines = <<x1, x2>> /\ row.lines = <<x1, x2, x3>>
      BY <1>1, <1>2, <1>3, <1>6, <1>9 DEF LedgerWhole
    <3>2. /\ LedgerOf(Append(es, row)) = With(LedgerOf(Append(es, pair)), <<Len(es) + 1, 3>>, x3)
          /\ <<Len(es) + 1, 3>> \notin DOMAIN LedgerOf(Append(es, pair))
      BY ONLY <3>1, LedgerWithThird
    <3>3. QED
      BY <2>1, <2>2, <3>2
  <2>4. Whole(f)
    BY <1>7, <2>1 DEF LedgerWhole
  <2>5. Whole(With(f, <<y, 3>>, x3))
    BY <1>4, <2>3, <2>4, BalanceWithLine
  <2>6. \A A : IsFiniteSet(A) => AccountsSum(With(f, <<y, 3>>, x3), A) = AccountsSum(f, A) + Weight(x3, A)
    BY <1>4, <2>3, <2>4, AccountsSumWithLine
  <2>7. \E R : Append(es, row) \in Seq(R)
    <3>1. PICK R : es \in Seq(R)
      BY DEF LedgerWhole
    <3>2. QED
      BY <3>1, TableGrows
  <2>8. LedgerWhole(Append(es, row))
    BY <2>3, <2>5, <2>7 DEF LedgerWhole
  <2>9. AccountsApart =>
          /\ IsFiniteSet(ReceivableAccounts) /\ IsFiniteSet(DOMAIN ChartOfAccounts)
          /\ a \in DOMAIN ChartOfAccounts /\ a \in ReceivableAccounts
          /\ {"revenue", "vat"} \subseteq DOMAIN ChartOfAccounts \ ReceivableAccounts
    BY AccountsAreFinite DEF AccountsApart
  <2>10. \A A : IsFiniteSet(A) => AccountsSum(LedgerOf(es), A) \in Int
             /\ AccountsSum(LedgerOf(Append(es, row)), A) =
                  AccountsSum(LedgerOf(es), A) + Weight(x1, A) + Weight(x2, A) + Weight(x3, A)
    BY <1>7, <2>1, <2>3, <2>6
  <2>11. QED
    BY <1>4, <1>5, <2>8, <2>9, <2>10 DEF Posted
<1>10. QED
  BY <1>8, <1>9

\* The last row is written again.
LEMMA LastRowAgain ==
    ASSUME NEW t, \E R : t \in Seq(R), NEW row, NEW x
    PROVE  [Append(t, row) EXCEPT ![Len(t) + 1] = x] = Append(t, x)
<1>1. PICK R : t \in Seq(R)
  OBVIOUS
<1>2. PICK n : n = Len(t) + 1
  OBVIOUS
<1>3. PICK f : f = Append(t, row)
  OBVIOUS
<1>4. PICK g : g = Append(t, x)
  OBVIOUS
<1>5. /\ DOMAIN f = DOMAIN t \cup {n} /\ \A k \in DOMAIN t : f[k] = t[k]
      /\ n \notin DOMAIN t
      /\ DOMAIN g = DOMAIN t \cup {n} /\ g[n] = x /\ \A k \in DOMAIN t : g[k] = t[k]
  BY <1>1, <1>2, <1>3, <1>4, TableGrows
<1>6. g = [k \in DOMAIN g |-> g[k]]
  <2>1. g \in Seq(R \cup {x})
    BY <1>1, <1>4, TableGrows
  <2>2. QED
    BY <2>1
<1>7. [f EXCEPT ![n] = x] = g
  BY <1>5, <1>6
<1>8. QED
  BY <1>2, <1>3, <1>4, <1>7

\* What the ledger says of the finance invoices and of what was paid on bills.
Reconciled(es, due, bills) ==
    /\ LedgerWhole(es)
    /\ AccountsApart =>
         /\ AccountsSum(LedgerOf(es), DOMAIN ChartOfAccounts) = 0
         /\ AccountsSum(LedgerOf(es), ReceivableAccounts) =
              SumOf(due, "amount", DOMAIN due) - SumOf(bills, "paid", DOMAIN bills)

\* The tables of both are rows of whole amounts.
Countable(due, bills) == DueTyped(due) /\ bills \in Seq(SalesInvoiceRows)

\* Their sums are whole.
LEMMA CountsAreWhole ==
    ASSUME NEW due, NEW bills, Countable(due, bills)
    PROVE  /\ IsFiniteSet(DOMAIN due) /\ \A k \in DOMAIN due : due[k]["amount"] \in Int
           /\ IsFiniteSet(DOMAIN bills) /\ \A k \in DOMAIN bills : bills[k]["paid"] \in Int
           /\ SumOf(due, "amount", DOMAIN due) \in Int /\ SumOf(bills, "paid", DOMAIN bills) \in Int
<1>1. PICK E : due \in Seq(ArRows(E))
  BY DEF Countable, DueTyped
<1>2. IsFiniteSet(DOMAIN due) /\ \A k \in DOMAIN due : due[k] \in ArRows(E)
  BY <1>1, TableRows
<1>3. \A k \in DOMAIN due : due[k]["amount"] \in Int
  BY <1>2 DEF ArRows
<1>4. IsFiniteSet(DOMAIN bills) /\ \A k \in DOMAIN bills : bills[k] \in SalesInvoiceRows
  BY TableRows DEF Countable
<1>5. \A k \in DOMAIN bills : bills[k]["paid"] \in Int
  BY <1>4 DEF SalesInvoiceRows
<1>6. SumOf(due, "amount", DOMAIN due) \in Int /\ SumOf(bills, "paid", DOMAIN bills) \in Int
  BY <1>2, <1>3, <1>4, <1>5, SumOfIsInteger
<1>7. QED
  BY <1>2, <1>3, <1>4, <1>5, <1>6

\* A finance invoice adds its amount to what is due.
LEMMA DueGrows ==
    ASSUME NEW due, NEW bills, Countable(due, bills), NEW e, NEW n \in Nat
    PROVE  LET more == Append(due, AccountsReceivableInvoice(e, n))
           IN SumOf(more, "amount", DOMAIN more) = SumOf(due, "amount", DOMAIN due) + n
<1>1. PICK row : row = AccountsReceivableInvoice(e, n)
  OBVIOUS
<1>2. PICK more : more = Append(due, row)
  OBVIOUS
<1>3. PICK y : y = Len(due) + 1
  OBVIOUS
<1>4. /\ DOMAIN more = DOMAIN due \cup {y} /\ y \notin DOMAIN due
      /\ more[y] = row /\ \A k \in DOMAIN due : more[k] = due[k]
  <2>1. DueTyped(due) /\ row \in ArRows({row.entry})
    BY <1>1, DueRow DEF Countable
  <2>2. QED
    BY ONLY <1>2, <1>3, <2>1, DueAdded
<1>5. row["amount"] = n
  BY <1>1, DueRow
<1>6. /\ IsFiniteSet(DOMAIN due) /\ DOMAIN due \subseteq DOMAIN due /\ DOMAIN more \subseteq DOMAIN more
      /\ \A k \in DOMAIN due : due[k]["amount"] \in Int
      /\ \A k \in DOMAIN due : more[k]["amount"] = due[k]["amount"]
      /\ more[y]["amount"] = n /\ more[y]["amount"] \in Int
  BY <1>4, <1>5, CountsAreWhole
<1>7. SumOf(more, "amount", DOMAIN more) = SumOf(due, "amount", DOMAIN due) + more[y]["amount"]
  BY ONLY <1>4, <1>6, SumOfOneMore
<1>8. QED
  BY <1>1, <1>2, <1>6, <1>7

\* An invoice that nothing is paid on adds nothing.
LEMMA BillsGrow ==
    ASSUME NEW due, NEW bills, Countable(due, bills), NEW bill, bill["paid"] = 0
    PROVE  LET more == Append(bills, bill)
           IN SumOf(more, "paid", DOMAIN more) = SumOf(bills, "paid", DOMAIN bills)
<1>1. PICK more : more = Append(bills, bill)
  OBVIOUS
<1>2. PICK y : y = Len(bills) + 1
  OBVIOUS
<1>3. /\ DOMAIN more = DOMAIN bills \cup {y} /\ y \notin DOMAIN bills
      /\ more[y] = bill /\ \A k \in DOMAIN bills : more[k] = bills[k]
  BY <1>1, <1>2, TableGrows DEF Countable
<1>4. /\ IsFiniteSet(DOMAIN bills) /\ DOMAIN bills \subseteq DOMAIN bills /\ DOMAIN more \subseteq DOMAIN more
      /\ \A k \in DOMAIN bills : bills[k]["paid"] \in Int
      /\ \A k \in DOMAIN bills : more[k]["paid"] = bills[k]["paid"]
      /\ more[y]["paid"] = 0 /\ more[y]["paid"] \in Int
  BY <1>3, CountsAreWhole
<1>5. SumOf(more, "paid", DOMAIN more) = SumOf(bills, "paid", DOMAIN bills) + more[y]["paid"]
  BY ONLY <1>3, <1>4, SumOfOneMore
<1>6. SumOf(bills, "paid", DOMAIN bills) \in Int
  BY CountsAreWhole
<1>7. QED
  BY <1>1, <1>4, <1>5, <1>6

\* Marking a finance invoice paid changes no amount.
LEMMA DueAsBefore ==
    ASSUME NEW due, NEW bills, Countable(due, bills), NEW k \in DOMAIN due
    PROVE  LET new == [due EXCEPT ![k] = [due[k] EXCEPT !.status = "paid"]]
           IN SumOf(new, "amount", DOMAIN new) = SumOf(due, "amount", DOMAIN due)
<1>1. PICK new : new = [due EXCEPT ![k] = [due[k] EXCEPT !.status = "paid"]]
  OBVIOUS
<1>2. PICK E : due \in Seq(ArRows(E))
  BY DEF Countable, DueTyped
<1>3. due[k] \in ArRows(E)
  BY <1>2, TableRows
<1>4. PICK row : row = [due[k] EXCEPT !.status = "paid"]
  OBVIOUS
<1>5. row["amount"] = due[k]["amount"]
  BY <1>3, <1>4 DEF ArRows
<1>6. DOMAIN new = DOMAIN due /\ \A j \in DOMAIN due : new[j] = IF j = k THEN row ELSE due[j]
  BY <1>1, <1>4
<1>7. \A j \in DOMAIN due : new[j]["amount"] = due[j]["amount"]
  BY <1>5, <1>6
<1>8. IsFiniteSet(DOMAIN due)
  BY CountsAreWhole
<1>9. SumOf(new, "amount", DOMAIN due) = SumOf(due, "amount", DOMAIN due)
  BY ONLY <1>6, <1>7, <1>8, SumOfSameRows
<1>10. QED
  BY <1>1, <1>6, <1>9

\* A payment adds to what was paid on its invoice.
LEMMA BillsPaid ==
    ASSUME NEW due, NEW bills, Countable(due, bills), NEW i \in DOMAIN bills, NEW n \in Int
    PROVE  LET new == [bills EXCEPT ![i] = [bills[i] EXCEPT !.paid = @ + n]]
           IN SumOf(new, "paid", DOMAIN new) = SumOf(bills, "paid", DOMAIN bills) + n
<1>1. PICK new : new = [bills EXCEPT ![i] = [bills[i] EXCEPT !.paid = @ + n]]
  OBVIOUS
<1>2. bills[i] \in SalesInvoiceRows
  BY TableRows DEF Countable
<1>3. PICK row : row = [bills[i] EXCEPT !.paid = @ + n]
  OBVIOUS
<1>4. row["paid"] = bills[i]["paid"] + n
  BY <1>2, <1>3 DEF SalesInvoiceRows
<1>5. DOMAIN new = DOMAIN bills /\ new[i] = row /\ \A j \in DOMAIN bills \ {i} : new[j] = bills[j]
  BY <1>1, <1>3
<1>6. /\ IsFiniteSet(DOMAIN bills) /\ DOMAIN bills \subseteq DOMAIN bills /\ DOMAIN bills \subseteq DOMAIN new
      /\ \A j \in DOMAIN bills : bills[j]["paid"] \in Int
      /\ i \in DOMAIN bills /\ new[i]["paid"] \in Int
      /\ \A j \in DOMAIN bills \ {i} : new[j]["paid"] = bills[j]["paid"]
  BY <1>4, <1>5, CountsAreWhole
<1>7. SumOf(new, "paid", DOMAIN bills) = SumOf(bills, "paid", DOMAIN bills) + new[i]["paid"] - bills[i]["paid"]
  BY ONLY <1>6, SumOfChangedRow
<1>8. SumOf(bills, "paid", DOMAIN bills) \in Int /\ bills[i]["paid"] \in Int
  BY <1>6, CountsAreWhole
<1>9. SumOf(new, "paid", DOMAIN bills) = SumOf(bills, "paid", DOMAIN bills) + n
  BY <1>4, <1>5, <1>7, <1>8
<1>10. QED
  BY <1>1, <1>5, <1>9

\* A posting of n, with n more due or n less paid.
LEMMA StaysReconciled ==
    ASSUME NEW es, NEW due, NEW bills, Reconciled(es, due, bills), Countable(due, bills),
           NEW n \in Int, NEW es2, NEW due2, NEW bills2, Posted(es, es2, n), NEW d \in Int, NEW b \in Int, n = d - b,
           SumOf(due2, "amount", DOMAIN due2) = SumOf(due, "amount", DOMAIN due) + d,
           SumOf(bills2, "paid", DOMAIN bills2) = SumOf(bills, "paid", DOMAIN bills) + b
    PROVE  Reconciled(es2, due2, bills2)
<1>1. SumOf(due, "amount", DOMAIN due) \in Int /\ SumOf(bills, "paid", DOMAIN bills) \in Int
  BY CountsAreWhole
<1>2. QED
  BY <1>1 DEF Reconciled, Posted

\* The books and the ledger, and the receivable account that sales post to.
LedgerSound ==
    /\ Reconciled(db.entry, db.ar, db.invoice)
    /\ \A k \in DOMAIN db.salesconf : db.salesconf[k].receivable \in ReceivableAccounts

\* Entries are added, never changed, and only for a payable as one.
EntriesKept ==
    \/ db'["entry"] = db["entry"]
    \/ \E row : db'["entry"] = Append(db["entry"], row) /\ (row.source # "ap" \/ PayableBegins)

\* What a step has to show.
LedgerStays ==
    /\ LedgerSound'
    /\ EntriesKept

\* The tables of the ledger, and what they say, in other words.
LEMMA BooksThere ==
    ASSUME BooksAgree
    PROVE  /\ {"entry", "ar", "ap", "invoice", "salesconf", "payment", "so", "delivery", "bank"} \subseteq DOMAIN db
           /\ Countable(db.ar, db.invoice)
<1>1. SalesBooks \subseteq DOMAIN db /\ Settled(db.invoice, db.payment, db.ar)
  BY DEF BooksAgree
<1>2. Countable(db.ar, db.invoice)
  BY <1>1 DEF Settled, Countable
<1>3. QED
  BY <1>1, <1>2 DEF SalesBooks

\* A step that writes neither entries nor what is due or paid.
LEMMA LedgerKept ==
    ASSUME LedgerSound, db'["entry"] = db["entry"], db'["ar"] = db["ar"], db'["invoice"] = db["invoice"],
           db'["salesconf"] = db["salesconf"]
    PROVE  LedgerStays
<1>1. LedgerSound' = (/\ Reconciled(db'.entry, db'.ar, db'.invoice)
                      /\ \A k \in DOMAIN db'.salesconf : db'.salesconf[k].receivable \in ReceivableAccounts)
  BY DEF LedgerSound, Reconciled, LedgerWhole, Whole, LedgerOf, AccountsSum, BalanceIn, ReceivableAccounts,
         AccountsApart
<1>2. QED
  BY <1>1 DEF LedgerSound, LedgerStays, EntriesKept

\* An entry that is neither due nor paid: from one account to another.
LEMMA LedgerAfterTransfer ==
    ASSUME BooksAgree, LedgerSound, NEW row, NEW n \in Int, NEW a, NEW b, NEW c, row.source # "ap" \/ PayableBegins,
           AccountsApart => {a, b} \subseteq DOMAIN ChartOfAccounts \ ReceivableAccounts,
           row.lines = <<Debit(a, n, c), Credit(b, n)>>,
           db'["entry"] = Append(db["entry"], row), db'["ar"] = db["ar"], db'["invoice"] = db["invoice"],
           db'["salesconf"] = db["salesconf"]
    PROVE  LedgerStays
<1>1. Countable(db.ar, db.invoice) /\ Reconciled(db.entry, db.ar, db.invoice) /\ LedgerWhole(db.entry)
  BY BooksThere DEF LedgerSound, Reconciled
<1>2. Posted(db.entry, db'.entry, 0)
  <2>1. Posted(db.entry, Append(db.entry, row),
               (IF a \in ReceivableAccounts THEN n ELSE 0) - (IF b \in ReceivableAccounts THEN n ELSE 0))
    BY <1>1, TransferIsPosted
  <2>2. AccountsApart => (IF a \in ReceivableAccounts THEN n ELSE 0) - (IF b \in ReceivableAccounts THEN n ELSE 0) = 0
    OBVIOUS
  <2>3. AccountsApart => AccountsSum(LedgerOf(db.entry), ReceivableAccounts) + 0 =
          AccountsSum(LedgerOf(db.entry), ReceivableAccounts)
             + ((IF a \in ReceivableAccounts THEN n ELSE 0) - (IF b \in ReceivableAccounts THEN n ELSE 0))
    BY <2>2
  <2>4. QED
    BY <2>1, <2>3 DEF Posted
<1>3. SumOf(db.ar, "amount", DOMAIN db.ar) \in Int /\ SumOf(db.invoice, "paid", DOMAIN db.invoice) \in Int
  BY <1>1, CountsAreWhole
<1>4. Reconciled(db'.entry, db'.ar, db'.invoice)
  <2>1. /\ SumOf(db'.ar, "amount", DOMAIN db'.ar) = SumOf(db.ar, "amount", DOMAIN db.ar) + 0
        /\ SumOf(db'.invoice, "paid", DOMAIN db'.invoice) = SumOf(db.invoice, "paid", DOMAIN db.invoice) + 0
        /\ 0 = 0 - 0 /\ 0 \in Int
    BY <1>3
  <2>2. QED
    BY <1>1, <1>2, <2>1, StaysReconciled
<1>5. LedgerSound'
  <2>1. LedgerSound' = (/\ Reconciled(db'.entry, db'.ar, db'.invoice)
                        /\ \A k \in DOMAIN db'.salesconf : db'.salesconf[k].receivable \in ReceivableAccounts)
    BY DEF LedgerSound, Reconciled, LedgerWhole, Whole, LedgerOf, AccountsSum, BalanceIn, ReceivableAccounts,
         AccountsApart
  <2>2. QED
    BY <1>4, <2>1 DEF LedgerSound
<1>6. QED
  BY <1>5 DEF LedgerStays, EntriesKept

\* A payable is posted.
LEMMA LedgerAfterPayable ==
    ASSUME ~ Concurrent, BooksAgree, LedgerSound, NEW p \in Workers, NEW d \in Days, NEW n \in Amounts,
           NEW c \in CostCodes \cup {None}, NEW g \in {None, "materials"},
           NEW b \in Budgets \cup {NoBudget}, PostApInvoice(p, d, n, c, g, b)
    PROVE  LedgerStays /\ db' = Post(db, "ap", d, <<Debit("expense", n, c), Credit("payable", n)>>)
<1>1. db' = Post(db, "ap", d, <<Debit("expense", n, c), Credit("payable", n)>>)
  BY SerialRows DEF PostApInvoice, CommitThen
<1>2. PICK row : row = JournalEntry("ap", d, <<Debit("expense", n, c), Credit("payable", n)>>)
  OBVIOUS
<1>3. row.lines = <<Debit("expense", n, c), Credit("payable", n)>>
  BY <1>2 DEF JournalEntry
<1>4. /\ db'["entry"] = Append(db["entry"], row) /\ db'["ar"] = db["ar"] /\ db'["invoice"] = db["invoice"]
      /\ db'["salesconf"] = db["salesconf"]
  BY <1>1, <1>2, BooksThere DEF Post, Insert
<1>5. n \in Int /\ (AccountsApart => {"expense", "payable"} \subseteq DOMAIN ChartOfAccounts \ ReceivableAccounts)
  BY LedgerAssumption DEF AccountsApart
<1>6. PayableBegins
  BY DEF PayableBegins
<1>7. LedgerStays
  BY <1>3, <1>4, <1>5, <1>6, LedgerAfterTransfer
<1>8. QED
  BY <1>1, <1>7

\* A manual exception is posted: only one whose lines balance.
LEMMA LedgerAfterException ==
    ASSUME ~ Concurrent, BooksAgree, LedgerSound, NEW p, NEW d, NEW ls \in ManualLines,
           PostManualException(p, d, ls)
    PROVE  LedgerStays
<1>1. db' = Post(db, "manual", d, ls) /\ MayPost(ls)
  BY SerialRows DEF PostManualException, Commit
<1>2. \/ \E n, m \in Amounts, c \in CostCodes \cup {None} : ls = <<Debit("expense", n, c), Credit("cash", m)>>
      \/ \E n \in Amounts : ls = <<Debit("payable", n, None), Credit("cash", n)>>
  BY DEF ManualLines
<1>3. PICK n, m \in Amounts, a \in {"expense", "payable"}, c \in CostCodes \cup {None} :
        ls = <<Debit(a, n, c), Credit("cash", m)>>
  BY <1>2
<1>4. n \in Int /\ m \in Int
  BY LedgerAssumption
<1>5. n = m
  <2>1. PICK x1 : x1 = Debit(a, n, c)
    OBVIOUS
  <2>2. PICK x2 : x2 = Credit("cash", m)
    OBVIOUS
  <2>3. ls = <<x1, x2>> /\ x1["debit"] = n /\ x1["credit"] = 0 /\ x2["debit"] = 0 /\ x2["credit"] = m
    BY <1>3, <2>1, <2>2 DEF Debit, Credit
  <2>4. Debits(ls) = n + 0 /\ Credits(ls) = 0 + m
    <3>1. /\ IsFiniteSet({}) /\ IsFiniteSet({1})
          /\ DOMAIN ls = {1} \cup {2} /\ {1} = {} \cup {1} /\ 1 \notin {} /\ 2 \notin {1}
          /\ ls[1]["debit"] = n /\ ls[1]["credit"] = 0 /\ ls[2]["debit"] = 0 /\ ls[2]["credit"] = m
          /\ n \in Int /\ m \in Int
      <4>1. IsFiniteSet({}) /\ IsFiniteSet({1})
        BY FS_EmptySet, FS_Singleton
      <4>2. DOMAIN ls = {1, 2} /\ ls[1] = x1 /\ ls[2] = x2
        BY <2>3
      <4>3. {1, 2} = {1} \cup {2} /\ {1} = {} \cup {1} /\ 1 \notin {} /\ 2 \notin {1}
        OBVIOUS
      <4>4. QED
        BY <1>4, <2>3, <4>1, <4>2, <4>3
    <3>2. /\ SumOf(ls, "debit", {1}) = SumOf(ls, "debit", {}) + n
          /\ SumOf(ls, "credit", {1}) = SumOf(ls, "credit", {}) + 0
      BY <3>1, SumOfOneMore
    <3>3. SumOf(ls, "debit", {}) = 0 /\ SumOf(ls, "credit", {}) = 0
      BY SumOfNoRows
    <3>4. /\ SumOf(ls, "debit", DOMAIN ls) = SumOf(ls, "debit", {1}) + 0
          /\ SumOf(ls, "credit", DOMAIN ls) = SumOf(ls, "credit", {1}) + m
      BY <3>1, SumOfOneMore
    <3>5. QED
      BY <1>4, <3>2, <3>3, <3>4 DEF Debits, Credits
  <2>5. QED
    <3>1. Debits(ls) = Credits(ls)
      BY <1>1 DEF MayPost
    <3>2. n + 0 = 0 + m
      BY <2>4, <3>1
    <3> HIDE <2>3, <2>4
    <3>3. QED
      BY <1>4, <3>2
<1>6. PICK row : row = JournalEntry("manual", d, ls)
  OBVIOUS
<1>7. row.lines = <<Debit(a, n, c), Credit("cash", n)>> /\ row.source # "ap"
  BY <1>3, <1>5, <1>6 DEF JournalEntry
<1>8. /\ db'["entry"] = Append(db["entry"], row) /\ db'["ar"] = db["ar"] /\ db'["invoice"] = db["invoice"]
      /\ db'["salesconf"] = db["salesconf"]
  BY <1>1, <1>6, BooksThere DEF Post, Insert
<1>9. AccountsApart => {a, "cash"} \subseteq DOMAIN ChartOfAccounts \ ReceivableAccounts
  BY DEF AccountsApart
<1>10. QED
  BY <1>4, <1>7, <1>8, <1>9, LedgerAfterTransfer

\* A posting and the documents that go with it.
LEMMA LedgerAfterDocuments ==
    ASSUME BooksAgree, LedgerSound, NEW row, row.source # "ap", NEW n \in Int,
           Posted(db.entry, Append(db.entry, row), n), db'["entry"] = Append(db["entry"], row),
           NEW d \in Int, NEW b \in Int, n = d - b,
           SumOf(db'.ar, "amount", DOMAIN db'.ar) = SumOf(db.ar, "amount", DOMAIN db.ar) + d,
           SumOf(db'.invoice, "paid", DOMAIN db'.invoice) = SumOf(db.invoice, "paid", DOMAIN db.invoice) + b,
           db'["salesconf"] = db["salesconf"]
    PROVE  LedgerStays
<1>1. Countable(db.ar, db.invoice) /\ Reconciled(db.entry, db.ar, db.invoice)
  BY BooksThere DEF LedgerSound
<1>2. Reconciled(db'.entry, db'.ar, db'.invoice)
  BY <1>1, StaysReconciled
<1>3. LedgerSound' = (/\ Reconciled(db'.entry, db'.ar, db'.invoice)
                      /\ \A k \in DOMAIN db'.salesconf : db'.salesconf[k].receivable \in ReceivableAccounts)
  BY DEF LedgerSound, Reconciled, LedgerWhole, Whole, LedgerOf, AccountsSum, BalanceIn, ReceivableAccounts,
         AccountsApart
<1>4. QED
  BY <1>2, <1>3 DEF LedgerSound, LedgerStays, EntriesKept

\* A receivable is posted that is no sales invoice.
LEMMA LedgerAfterReceivable ==
    ASSUME ~ Concurrent, BooksAgree, LedgerSound, NEW p, NEW d, NEW n \in Amounts, PostArInvoice(p, d, n)
    PROVE  LedgerStays
<1>1. n \in Nat /\ 0 \in Nat /\ n + 0 = n /\ ~ (0 > 0)
  BY LedgerAssumption
<1>2. db' = PostReceivable(db, d, n, 0)
  BY SerialRows DEF PostArInvoice, Commit
<1>3. PICK row : row = JournalEntry("ar", d, ReceivableLines(n, 0))
  OBVIOUS
<1>4. row.lines = <<Debit("receivable", n + 0, None), Credit("revenue", n)>> /\ row.source # "ap"
  <2>1. ReceivableLines(n, 0) = <<Debit("receivable", n + 0, None), Credit("revenue", n)>>
    BY <1>1, LinesOfReceivable
  <2>2. QED
    BY <1>3, <2>1 DEF JournalEntry
<1>5. /\ db'["entry"] = Append(db["entry"], row)
      /\ db'["ar"] = Append(db["ar"], AccountsReceivableInvoice(Len(db.entry) + 1, n + 0))
      /\ db'["invoice"] = db["invoice"] /\ db'["salesconf"] = db["salesconf"]
  BY <1>2, <1>3, BooksThere DEF PostReceivable, Post, Insert
<1>6. Countable(db.ar, db.invoice) /\ LedgerWhole(db.entry)
  BY BooksThere DEF LedgerSound, Reconciled
<1>7. Posted(db.entry, Append(db.entry, row), n)
  <2>1. AccountsApart => "receivable" \in ReceivableAccounts
    BY DEF AccountsApart
  <2>2. Posted(db.entry, Append(db.entry, row), n + 0)
    BY <1>1, <1>4, <1>6, <2>1, ReceivableIsPosted
  <2>3. QED
    BY <1>1, <2>2
<1>8. SumOf(db'.ar, "amount", DOMAIN db'.ar) = SumOf(db.ar, "amount", DOMAIN db.ar) + n
  <2>1. db'.ar = Append(db.ar, AccountsReceivableInvoice(Len(db.entry) + 1, n))
    BY <1>1, <1>5
  <2>2. QED
    BY <1>1, <1>6, <2>1, DueGrows
<1>9. SumOf(db'.invoice, "paid", DOMAIN db'.invoice) = SumOf(db.invoice, "paid", DOMAIN db.invoice) + 0
  BY <1>5, <1>6, CountsAreWhole
<1>10. n \in Int /\ 0 \in Int /\ n = n - 0
  BY <1>1
<1>11. QED
  BY <1>4, <1>5, <1>7, <1>8, <1>9, <1>10, LedgerAfterDocuments

\* What was delivered is invoiced, to the receivable account of the settings.
LEMMA LedgerAfterInvoice ==
    ASSUME ~ Concurrent, MaterialsSound, BooksAgree, LedgerSound, NEW p, NEW o, InvoiceDelivered(p, o)
    PROVE  LedgerStays
<1> DEFINE r == db.so[o]
           q == r.delivered - r.invoiced
           net == q * r.price
           vat == VatOn(net, r.vat)
           bill == SalesInvoice(o, Len(db'.ar), q, net, vat)
<1>1. /\ o \in DOMAIN db.so /\ q \in Nat
      /\ db'.ar = Append(db.ar, AccountsReceivableInvoice(Len(db.entry) + 1, net + vat))
      /\ db'.invoice = Append(db.invoice, bill)
      /\ Touches(p, {"so", "invoice", "ar", "entry"})
  BY SalesInvoiced DEF MaterialsSound
<1>2. r \in SoRows
  BY <1>1, ServedIsWhole DEF BooksAgree
<1>3. net \in Nat
  <2>1. r.price \in Nat
    BY <1>2 DEF SoRows
  <2> HIDE DEF q, r
  <2>2. QED
    BY <1>1, <2>1
<1>4. vat \in Nat
  <2>1. r.vat \in Nat
    BY <1>2 DEF SoRows
  <2> HIDE DEF net, r
  <2>2. QED
    BY <1>3, <2>1, VatIsWhole
<1>5. /\ db.salesconf # <<>>
      /\ db' = [PostSalesInvoice(db, o, q, net, vat) EXCEPT !.so[o].invoiced = @ + q]
  BY SerialRows DEF InvoiceDelivered, Commit
<1>6. bill["paid"] = 0
  BY DEF SalesInvoice
<1> HIDE DEF net, vat, q, r, bill
<1>7. PICK a : a = db.salesconf[1].receivable
  OBVIOUS
<1>8. a \in ReceivableAccounts
  <2>1. db.salesconf \in Seq(SettingsRows)
    BY DEF MaterialsSound, SalesTyped
  <2>2. 1 \in DOMAIN db.salesconf
    BY <1>5, <2>1, EmptySeq
  <2>3. QED
    BY <1>7, <2>2 DEF LedgerSound
<1>9. PICK old : old = JournalEntry("ar", 1, ReceivableLines(net, vat))
  OBVIOUS
<1>10. PICK row : row = [old EXCEPT !.lines[1].account = a]
  OBVIOUS
<1>11. row.lines = IF vat > 0 THEN <<Debit(a, net + vat, None), Credit("revenue", net), Credit("vat", vat)>>
                   ELSE <<Debit(a, net + vat, None), Credit("revenue", net)>>
  <2>1. PICK x1 : x1 = Debit("receivable", net + vat, None)
    OBVIOUS
  <2>2. PICK x2 : x2 = Credit("revenue", net)
    OBVIOUS
  <2>3. PICK x3 : x3 = Credit("vat", vat)
    OBVIOUS
  <2>4. [x1 EXCEPT !.account = a] = Debit(a, net + vat, None)
    BY <2>1 DEF Debit
  <2>5. old.lines = IF vat > 0 THEN <<x1, x2, x3>> ELSE <<x1, x2>>
    BY <1>4, <1>9, <2>1, <2>2, <2>3, LinesOfReceivable DEF JournalEntry
  <2>6. row.lines = [old.lines EXCEPT ![1] = [old.lines[1] EXCEPT !.account = a]]
    BY <1>9, <1>10 DEF JournalEntry
  <2>7. PICK x : x = [x1 EXCEPT !.account = a]
    OBVIOUS
  <2>8. CASE vat > 0
    <3>1. row.lines = <<x, x2, x3>>
      BY <2>5, <2>6, <2>7, <2>8
    <3>2. QED
      BY <2>2, <2>3, <2>4, <2>7, <2>8, <3>1
  <2>9. CASE ~ (vat > 0)
    <3>1. row.lines = <<x, x2>>
      BY <2>5, <2>6, <2>7, <2>9
    <3>2. QED
      BY <2>2, <2>4, <2>7, <2>9, <3>1
  <2>10. QED
    BY <2>8, <2>9
<1>12. Countable(db.ar, db.invoice) /\ LedgerWhole(db.entry) /\ row.source # "ap"
  BY <1>9, <1>10, BooksThere DEF LedgerSound, Reconciled, JournalEntry
<1>13. db'["entry"] = Append(db["entry"], row) /\ db'["salesconf"] = db["salesconf"]
  <2>1. PICK R : db.entry \in Seq(R)
    BY <1>12 DEF LedgerWhole
  <2>2. PICK y : y = Len(db.entry) + 1
    OBVIOUS
  <2>3. Len(Append(db.entry, old)) = y
    <3>1. PICK S : S = R \cup {old}
      OBVIOUS
    <3>2. db.entry \in Seq(S) /\ old \in S
      BY <2>1, <3>1
    <3>3. QED
      BY <2>2, <3>2, AppendProperties
  <2>4. y \in DOMAIN Append(db.entry, old) /\ Append(db.entry, old)[y] = old
    BY <2>1, <2>2, TableGrows
  <2>5. PICK u : u = PostReceivable(db, 1, net, vat)
    OBVIOUS
  <2>6. u.entry = Append(db.entry, old) /\ DOMAIN u = DOMAIN db
    BY <1>9, <2>5, BooksThere DEF PostReceivable, Post, Insert
  <2>7. PICK v : v = PostSalesInvoice(db, o, q, net, vat)
    OBVIOUS
  <2>8. v.entry = [u.entry EXCEPT ![y].lines[1].account = a] /\ DOMAIN v = DOMAIN db
    BY <1>7, <2>3, <2>5, <2>6, <2>7, BooksThere DEF PostSalesInvoice, Insert
  <2>9. db'.entry = v.entry
    BY <1>5, <2>7, <2>8, BooksThere
  <2>10. [u.entry EXCEPT ![y].lines[1].account = a] = [Append(db.entry, old) EXCEPT ![y] = row]
    BY <1>10, <2>4, <2>6
  <2>11. [Append(db.entry, old) EXCEPT ![Len(db.entry) + 1] = row] = Append(db.entry, row)
    BY <2>1, LastRowAgain
  <2>12. db'["salesconf"] = db["salesconf"]
    BY <1>1, BooksThere DEF Touches
  <2>13. QED
    BY <2>2, <2>8, <2>9, <2>10, <2>11, <2>12
<1>14. Posted(db.entry, Append(db.entry, row), net + vat)
  BY <1>3, <1>4, <1>8, <1>11, <1>12, ReceivableIsPosted
<1>15. net + vat \in Nat
  BY <1>3, <1>4
<1>16. SumOf(db'.ar, "amount", DOMAIN db'.ar) = SumOf(db.ar, "amount", DOMAIN db.ar) + (net + vat)
  BY <1>1, <1>12, <1>15, DueGrows
<1>17. SumOf(db'.invoice, "paid", DOMAIN db'.invoice) = SumOf(db.invoice, "paid", DOMAIN db.invoice) + 0
  BY <1>1, <1>6, <1>12, BillsGrow, CountsAreWhole
<1>18. net + vat \in Int /\ 0 \in Int /\ net + vat = (net + vat) - 0
  BY <1>15
<1>19. QED
  BY <1>12, <1>13, <1>14, <1>16, <1>17, <1>18, LedgerAfterDocuments

\* A payment of an invoice: cash comes in and less is due.
LEMMA LedgerAfterPayment ==
    ASSUME ~ Concurrent, MaterialsSound, BooksAgree, LedgerSound, NEW p, NEW i, NEW n \in Amounts,
           RecordPayment(p, i, n)
    PROVE  LedgerStays
<1> DEFINE s == Settle(db, i, n)
<1>1. /\ i \in DOMAIN db.invoice
      /\ db'.invoice = [db.invoice EXCEPT ![i] = [db.invoice[i] EXCEPT !.paid = @ + n]]
      /\ db'.ar = IF db.invoice[i].paid + n >= db.invoice[i].amount
                  THEN [db.ar EXCEPT ![db.invoice[i].ar] = [db.ar[db.invoice[i].ar] EXCEPT !.status = "paid"]]
                  ELSE db.ar
      /\ Touches(p, {"invoice", "payment", "ar", "entry"})
  <2>1. SalesTyped(db)
    BY DEF MaterialsSound
  <2>2. /\ SalesTyped(db') /\ Touches(p, {"invoice", "payment", "ar", "entry"})
        /\ i \in DOMAIN db.invoice /\ n <= db.invoice[i].amount - db.invoice[i].paid
        /\ db'.invoice = [db.invoice EXCEPT ![i] = [db.invoice[i] EXCEPT !.paid = @ + n]]
        /\ db'.payment = Append(db.payment, SalesPayment(i, n))
        /\ db'.ar = IF db.invoice[i].paid + n >= db.invoice[i].amount
                    THEN [db.ar EXCEPT ![db.invoice[i].ar] = [db.ar[db.invoice[i].ar] EXCEPT !.status = "paid"]]
                    ELSE db.ar
    BY <2>1, SalesPaid, Zenon
  <2>3. QED
    BY <2>2
<1>2. PICK lines : lines = <<Debit("cash", n, None), Credit(db.salesconf[1].receivable, n)>>
  OBVIOUS
<1>3. /\ db.salesconf # <<>>
      /\ db' = Insert(Post([s EXCEPT !.invoice[i].paid = @ + n], "receipt", 1, lines), "payment", SalesPayment(i, n))
  BY <1>2, SerialRows DEF RecordPayment, Commit
<1>4. PICK a : a = db.salesconf[1].receivable
  OBVIOUS
<1>5. a \in ReceivableAccounts
  <2>1. db.salesconf \in Seq(SettingsRows)
    BY DEF MaterialsSound, SalesTyped
  <2>2. 1 \in DOMAIN db.salesconf
    BY <1>3, <2>1, EmptySeq
  <2>3. QED
    BY <1>4, <2>2 DEF LedgerSound
<1>6. DOMAIN s = DOMAIN db /\ s["entry"] = db["entry"]
  BY BooksThere DEF Settle
<1> HIDE DEF s
<1>7. PICK row : row = JournalEntry("receipt", 1, lines)
  OBVIOUS
<1>8. db'["entry"] = Append(db["entry"], row) /\ db'["salesconf"] = db["salesconf"]
  <2>1. PICK u : u = [s EXCEPT !.invoice[i].paid = @ + n]
    OBVIOUS
  <2>2. DOMAIN u = DOMAIN db /\ u["entry"] = db["entry"]
    BY <1>6, <2>1, BooksThere
  <2>3. db' = Insert(Post(u, "receipt", 1, lines), "payment", SalesPayment(i, n))
    BY <1>3, <2>1
  <2>4. db'["entry"] = Append(db["entry"], row)
    BY <1>7, <2>2, <2>3, BooksThere DEF Post, Insert
  <2>5. db'["salesconf"] = db["salesconf"]
    BY <1>1, BooksThere DEF Touches
  <2>6. QED
    BY <2>4, <2>5
<1>9. row.lines = <<Debit("cash", n, None), Credit(a, n)>> /\ row.source # "ap"
  BY <1>2, <1>4, <1>7 DEF JournalEntry
<1>10. n \in Int
  BY LedgerAssumption
<1>11. Countable(db.ar, db.invoice) /\ LedgerWhole(db.entry)
  BY BooksThere DEF LedgerSound, Reconciled
<1>12. Posted(db.entry, Append(db.entry, row), 0 - n)
  <2>1. AccountsApart => {"cash", a} \subseteq DOMAIN ChartOfAccounts /\ "cash" \notin ReceivableAccounts
    BY <1>5, AccountsAreFinite DEF AccountsApart
  <2>2. Posted(db.entry, Append(db.entry, row),
               (IF "cash" \in ReceivableAccounts THEN n ELSE 0) - (IF a \in ReceivableAccounts THEN n ELSE 0))
    BY <1>9, <1>10, <1>11, <2>1, TransferIsPosted
  <2>3. AccountsApart =>
          (IF "cash" \in ReceivableAccounts THEN n ELSE 0) - (IF a \in ReceivableAccounts THEN n ELSE 0) = 0 - n
    BY <1>5, <2>1
  <2>4. QED
    BY <2>2, <2>3 DEF Posted
<1>13. SumOf(db'.ar, "amount", DOMAIN db'.ar) = SumOf(db.ar, "amount", DOMAIN db.ar) + 0
  <2>1. SumOf(db.ar, "amount", DOMAIN db.ar) \in Int
    BY <1>11, CountsAreWhole
  <2>2. db.invoice[i]["ar"] \in DOMAIN db.ar
    BY <1>1 DEF BooksAgree, Settled
  <2>3. PICK k : k = db.invoice[i].ar
    OBVIOUS
  <2>4. CASE db'.ar = [db.ar EXCEPT ![k] = [db.ar[k] EXCEPT !.status = "paid"]]
    BY <1>11, <2>1, <2>2, <2>3, <2>4, DueAsBefore
  <2>5. CASE db'.ar = db.ar
    BY <2>1, <2>5
  <2>6. QED
    BY <1>1, <2>3, <2>4, <2>5
<1>14. SumOf(db'.invoice, "paid", DOMAIN db'.invoice) = SumOf(db.invoice, "paid", DOMAIN db.invoice) + n
  BY <1>1, <1>10, <1>11, BillsPaid
<1>15. 0 - n \in Int /\ 0 \in Int /\ 0 - n = 0 - n
  BY <1>10
<1>16. QED
  BY <1>8, <1>9, <1>10, <1>12, <1>13, <1>14, <1>15, LedgerAfterDocuments

\* Goods are delivered: what they cost is posted if the settings say so.
LEMMA LedgerAfterDelivery ==
    ASSUME ~ Concurrent, MaterialsSound, BooksAgree, LedgerSound, NEW p, NEW o, NEW q \in 1..2,
           Deliver(p, o, q)
    PROVE  LedgerStays
<1> DEFINE w == db.so[o].at
           cost == CostOf(db, w, q)
           m == IssueFrom(db, w, q)
           c == PostCogs(Insert(m, "delivery", Delivery(o, q, cost)), cost)
           status == IF db.so[o].delivered + q >= db.so[o].qty THEN "delivered" ELSE "partially_delivered"
           n == [c EXCEPT !.so[o].delivered = @ + q, !.so[o].status = status]
<1>1. Book(p, n, -q) /\ CanIssue(db, w, q) /\ o \in DOMAIN db.so
  BY SerialRows DEF Deliver, Shipped
<1>2. db.so[o] \in SoRows
  BY <1>1, ServedIsWhole DEF BooksAgree
<1>3. w \in Warehouses /\ StockTyped(db) /\ q \in Nat
  BY <1>2 DEF SoRows, MaterialsSound, StockSound
<1>4. cost \in Int
  <2> HIDE DEF w
  <2>1. QED
    BY <1>3, CostIsWhole
<1>5. Moved(db, m, w, -q)
  <2> HIDE DEF w
  <2>1. QED
    BY <1>1, <1>3, IssueMoves
<1>6. /\ DOMAIN m = DOMAIN db
      /\ \A t \in {"entry", "ar", "invoice", "salesconf"} : m[t] = db[t]
  <2>1. \A t \in DOMAIN db \ BalanceTables : m[t] = db[t]
    BY <1>3, <1>5 DEF Moved, BalanceTables
  <2>2. {"entry", "ar", "invoice", "salesconf"} \subseteq DOMAIN db \ BalanceTables
    BY BooksThere DEF BalanceTables
  <2>3. QED
    BY <1>3, <1>5, <2>1, <2>2 DEF Moved
<1> HIDE DEF m, cost, w
<1>7. PICK u : u = Insert(m, "delivery", Delivery(o, q, cost))
  OBVIOUS
<1>8. DOMAIN u = DOMAIN db /\ \A t \in {"entry", "ar", "invoice", "salesconf"} : u[t] = db[t]
  BY <1>6, <1>7, BooksThere DEF Insert
<1>9. PICK row : row = JournalEntry("cogs", 1, <<Debit("expense", cost, None), Credit("inventory", cost)>>)
  OBVIOUS
<1>10. /\ DOMAIN c = DOMAIN db
       /\ \A t \in {"ar", "invoice", "salesconf"} : c[t] = db[t]
       /\ c["entry"] = db["entry"] \/ c["entry"] = Append(db["entry"], row)
  <2>1. c = PostCogs(u, cost)
    BY <1>7
  <2>2. c = u \/ c = [u EXCEPT !["entry"] = Append(u["entry"], row)]
    BY <1>9, <2>1 DEF PostCogs, Post, Insert
  <2> HIDE DEF c
  <2>3. QED
    BY <1>8, <2>2, BooksThere
<1> HIDE DEF c, status
<1>11. \A t \in {"entry", "ar", "invoice", "salesconf"} : n[t] = c[t]
  BY <1>10, BooksThere
<1> HIDE DEF n
<1>12. db' = n
  BY <1>1, SerialRows DEF Book
<1>13. CASE c["entry"] = db["entry"]
  BY <1>10, <1>11, <1>12, <1>13, LedgerKept
<1>14. CASE c["entry"] = Append(db["entry"], row)
  <2>1. row.lines = <<Debit("expense", cost, None), Credit("inventory", cost)>> /\ row.source # "ap"
    BY <1>9 DEF JournalEntry
  <2>2. AccountsApart => {"expense", "inventory"} \subseteq DOMAIN ChartOfAccounts \ ReceivableAccounts
    BY DEF AccountsApart
  <2>3. /\ db'["entry"] = Append(db["entry"], row) /\ db'["ar"] = db["ar"] /\ db'["invoice"] = db["invoice"]
        /\ db'["salesconf"] = db["salesconf"]
    BY <1>10, <1>11, <1>12, <1>14
  <2>4. QED
    BY <1>4, <2>1, <2>2, <2>3, LedgerAfterTransfer
<1>15. QED
  BY <1>10, <1>13, <1>14

\* Another receivable account is chosen, one of those.
LEMMA LedgerAfterSettings ==
    ASSUME ~ Concurrent, BooksAgree, LedgerSound, NEW p, SettingsRoutes(p)
    PROVE  LedgerStays
<1>1. PICK c \in SettingsChoices : SaveSettings(p, c.receivable, c.vat, c.costed)
  BY DEF SettingsRoutes
<1>2. PICK row : row = SalesSettings(c.receivable, c.vat, c.costed)
  OBVIOUS
<1>3. db' = [db EXCEPT !.salesconf = <<row>>]
  BY <1>1, <1>2, SerialRows DEF SaveSettings, Commit
<1>4. /\ db'["entry"] = db["entry"] /\ db'["ar"] = db["ar"] /\ db'["invoice"] = db["invoice"]
      /\ db'["salesconf"] = <<row>>
  BY <1>3, BooksThere
<1>5. row.receivable \in ReceivableAccounts
  BY <1>2 DEF SalesSettings, ReceivableAccounts
<1>6. \A k \in DOMAIN <<row>> : <<row>>[k].receivable \in ReceivableAccounts
  BY <1>5
<1>7. LedgerSound' = (/\ Reconciled(db'.entry, db'.ar, db'.invoice)
                      /\ \A k \in DOMAIN db'.salesconf : db'.salesconf[k].receivable \in ReceivableAccounts)
  BY DEF LedgerSound, Reconciled, LedgerWhole, Whole, LedgerOf, AccountsSum, BalanceIn, ReceivableAccounts,
         AccountsApart
<1>8. QED
  BY <1>4, <1>6, <1>7 DEF LedgerSound, LedgerStays, EntriesKept

\* The bank writes statement lines only.
LEMMA BankTouches ==
    ASSUME ~ Concurrent, NEW p, BankRoutes(p)
    PROVE  Touches(p, {"bank"})
<1>1. ASSUME NEW d, NEW n, ImportBankLine(p, d, n) PROVE Touches(p, {"bank"})
  BY <1>1, CreateTouches DEF ImportBankLine
<1>2. ASSUME NEW k, AutoMatch(p, k) PROVE Touches(p, {"bank"})
  BY <1>2, SerialRows DEF AutoMatch, Commit, Finish, Touches
<1>3. QED
  BY <1>1, <1>2 DEF BankRoutes

\* Every step leaves ledger and books reconciled.
LEMMA LedgerAfterStep ==
    ASSUME ~ Concurrent, MaterialsSound, BooksAgree, LedgerSound, [Next]_<<part, vars>>
    PROVE  LedgerStays
<1>1. ASSUME NEW p, NEW names, Touches(p, names), names \cap {"entry", "ar", "invoice", "salesconf"} = {}
      PROVE  LedgerStays
  <2>1. /\ db'["entry"] = db["entry"] /\ db'["ar"] = db["ar"] /\ db'["invoice"] = db["invoice"]
        /\ db'["salesconf"] = db["salesconf"]
    BY <1>1, BooksThere DEF Touches
  <2>2. QED
    BY <2>1, LedgerKept
<1>2. ASSUME NEW p, SalesOrderRoutes(p) PROVE LedgerStays
  <2>1. Touches(p, {"so"})
    BY <1>2, ServedAfterOrderRoutes DEF BooksAgree
  <2>2. QED
    BY <1>1, <2>1
<1>3. ASSUME NEW p, BankRoutes(p) PROVE LedgerStays
  <2>1. Touches(p, {"bank"})
    BY <1>3, BankTouches
  <2>2. QED
    BY <1>1, <2>1
<1>4. ASSUME NEW p \in Workers, InvoiceRoutes(p) PROVE LedgerStays
  <2>1. ASSUME RecordApInvoice(p) PROVE LedgerStays
    <3>1. Touches(p, {"ap"})
      BY <2>1, SerialRows DEF RecordApInvoice, Insert, Commit, Finish, Touches
    <3>2. QED
      BY <1>1, <3>1
  <2>2. QED
    BY <1>4, <2>1, LedgerAfterPayable, LedgerAfterReceivable DEF InvoiceRoutes
<1>5. ASSUME NEW p, DeliveryRoutes(p) PROVE LedgerStays
  BY <1>5, LedgerAfterInvoice, LedgerAfterDelivery DEF DeliveryRoutes
<1>6. ASSUME NEW p, PaymentRoutes(p) PROVE LedgerStays
  BY <1>6, LedgerAfterPayment DEF PaymentRoutes
<1>7. CASE BooksRest
  <2>1. /\ db'["entry"] = db["entry"] /\ db'["ar"] = db["ar"] /\ db'["invoice"] = db["invoice"]
        /\ db'["salesconf"] = db["salesconf"]
    BY <1>7 DEF BooksRest, SalesBooks
  <2>2. QED
    BY <2>1, LedgerKept
<1>8. SalesBooks \subseteq DOMAIN db
  BY DEF BooksAgree
<1>9. QED
  BY <1>2, <1>3, <1>4, <1>5, <1>6, <1>7, <1>8, BooksWriters, LedgerAfterSettings, LedgerAfterReceivable,
     LedgerAfterException

\* Nothing is posted yet.
LEMMA FirstLedger ==
    ASSUME Init
    PROVE  LedgerSound
<1>1. /\ {"entry", "ar", "invoice", "salesconf"} \subseteq DOMAIN db
      /\ db["entry"] = <<>> /\ db["ar"] = <<>> /\ db["invoice"] = <<>> /\ db["salesconf"] = <<>>
  BY FirstTables
<1>2. PICK f : f = LedgerOf(<<>>)
  OBVIOUS
<1>3. DOMAIN f = {}
  BY <1>2 DEF LedgerOf
<1>4. Whole(f)
  BY <1>3, FS_EmptySet DEF Whole
<1>5. <<>> \in Seq({})
  BY EmptyTable
<1>6. ASSUME NEW A, IsFiniteSet(A) PROVE AccountsSum(f, A) = 0
  <2>1. ASSUME NEW a PROVE BalanceIn(f, a) = 0
    <3>1. {l \in DOMAIN f : f[l].account = a} = {}
      BY <1>3
    <3>2. SumOf(f, "debit", {}) = 0 /\ SumOf(f, "credit", {}) = 0
      BY SumOfNoRows
    <3>3. BalanceIn(f, a) = SumOf(f, "debit", {}) - SumOf(f, "credit", {})
      BY ONLY <3>1 DEF BalanceIn
    <3>4. QED
      BY ONLY <3>2, <3>3
  <2>2. PICK g : g = [a \in A |-> BalanceIn(f, a)]
    OBVIOUS
  <2>3. \A a \in A : g[a] = 0
    BY <2>1, <2>2
  <2>4. SumFunctionOnSet(g, A) = 0
    BY <1>6, <2>3, SumOfZeros
  <2>5. QED
    BY <2>2, <2>4 DEF AccountsSum
<1>7. SumOf(<<>>, "amount", DOMAIN <<>>) = 0 /\ SumOf(<<>>, "paid", DOMAIN <<>>) = 0
  <2>1. DOMAIN <<>> = {}
    OBVIOUS
  <2>2. QED
    BY <2>1, SumOfNoRows
<1>8. Reconciled(<<>>, <<>>, <<>>)
  BY <1>2, <1>4, <1>5, <1>6, <1>7, AccountsAreFinite DEF Reconciled, LedgerWhole
<1>9. QED
  BY <1>1, <1>8 DEF LedgerSound

\* The invariant says what the property says of balances.
LEMMA BooksReconcile ==
    ASSUME AccountsApart, BooksAgree, LedgerSound
    PROVE  /\ LedgerBalances
           /\ SumFunction([a \in ReceivableAccounts |-> Balance(a)]) =
                SumOf(db.ar, "amount", DOMAIN db.ar) - SumFunction([i \in DOMAIN db.invoice |-> PaidOn(i)])
<1>1. \A a : Balance(a) = BalanceIn(LedgerOf(db.entry), a)
  BY DEF Balance, BalanceIn, Ledger, LedgerOf
<1>2. ASSUME NEW A PROVE SumFunction([a \in A |-> Balance(a)]) = AccountsSum(LedgerOf(db.entry), A)
  <2>1. [a \in A |-> Balance(a)] = [a \in A |-> BalanceIn(LedgerOf(db.entry), a)]
    BY <1>1
  <2>2. SumFunction([a \in A |-> BalanceIn(LedgerOf(db.entry), a)]) =
          SumFunctionOnSet([a \in A |-> BalanceIn(LedgerOf(db.entry), a)], A)
    BY DEF SumFunction
  <2>3. QED
    BY <2>1, <2>2 DEF AccountsSum
<1>3. SumFunction([i \in DOMAIN db.invoice |-> PaidOn(i)]) = SumOf(db.invoice, "paid", DOMAIN db.invoice)
  <2>1. PICK f : f = [i \in DOMAIN db.invoice |-> PaidOn(i)]
    OBVIOUS
  <2>2. PICK g : g = [i \in DOMAIN db.invoice |-> db.invoice[i]["paid"]]
    OBVIOUS
  <2>3. \A i \in DOMAIN db.invoice : f[i] = g[i]
    BY <2>1, <2>2 DEF BooksAgree, Settled, SettledRow, PaidOn, Under
  <2>4. IsFiniteSet(DOMAIN db.invoice)
    BY BooksThere, CountsAreWhole
  <2>5. SumFunctionOnSet(f, DOMAIN db.invoice) = SumFunctionOnSet(g, DOMAIN db.invoice)
    BY <2>3, <2>4, SumsOfEqualValues
  <2>6. SumFunction(f) = SumFunctionOnSet(f, DOMAIN db.invoice)
    BY <2>1 DEF SumFunction
  <2>7. QED
    BY <2>1, <2>2, <2>5, <2>6 DEF SumOf
<1>4. QED
  BY <1>2, <1>3 DEF LedgerBalances, LedgerSound, Reconciled

-----------------------------------------------------------------------------
(* A payable is invoiced once *)

\* The invoices of payables are of entries posted for it, each of another.
Invoiced(es, aps) ==
    /\ \E R : aps \in Seq(R)
    /\ \A k \in DOMAIN aps : aps[k].entry \in DOMAIN es /\ es[aps[k].entry].source = "ap"
    /\ \A j, k \in DOMAIN aps : aps[j].entry = aps[k].entry => j = k

\* The entry was posted for a payable, and no invoice is of it yet.
Pending(es, aps, e) ==
    /\ e \in DOMAIN es /\ es[e].source = "ap"
    /\ \A k \in DOMAIN aps : aps[k].entry # e

\* Whoever is between the two commits records the invoice of an entry that has none.
PayablesSound ==
    /\ Invoiced(db.entry, db.ap)
    /\ \A p \in Workers : Resuming(p, "payable") => Pending(db.entry, db.ap, req[p].todo.entry)

\* The invariant says what the property says.
LEMMA InvoicedOnce ==
    ASSUME PayablesSound
    PROVE  PayablesAreInvoicedOnce
<1>1. ASSUME NEW e \in DOMAIN db.entry
      PROVE  Cardinality({k \in DOMAIN db.ap : db.ap[k].entry = e}) <= IF db.entry[e].source = "ap" THEN 1 ELSE 0
  <2>1. PICK S : S = {k \in DOMAIN db.ap : db.ap[k].entry = e}
    OBVIOUS
  <2>2. CASE S = {}
    <3>1. Cardinality(S) = 0
      BY <2>2, FS_EmptySet
    <3>2. QED
      BY <2>1, <3>1
  <2>3. CASE S # {}
    <3>1. PICK k : k \in S
      BY <2>3
    <3>2. S = {k} /\ db.entry[e].source = "ap"
      BY <2>1, <3>1 DEF PayablesSound, Invoiced
    <3>3. Cardinality(S) = 1
      BY <3>2, FS_Singleton
    <3>4. QED
      BY <2>1, <3>2, <3>3
  <2>4. QED
    BY <2>2, <2>3
<1>2. QED
  BY <1>1 DEF PayablesAreInvoicedOnce

\* Entries that are added say nothing of those before.
LEMMA EntriesStay ==
    ASSUME LedgerWhole(db.entry), EntriesKept
    PROVE  \A e \in DOMAIN db.entry : e \in DOMAIN db'.entry /\ db'.entry[e] = db.entry[e]
<1>1. ASSUME NEW row, db'["entry"] = Append(db["entry"], row)
      PROVE  \A e \in DOMAIN db.entry : e \in DOMAIN db'.entry /\ db'.entry[e] = db.entry[e]
  <2>1. PICK R : db.entry \in Seq(R)
    BY DEF LedgerWhole
  <2>2. QED
    BY <1>1, <2>1, TableGrows
<1>2. QED
  BY <1>1 DEF EntriesKept

\* Whoever records the invoice of a payable.
LEMMA PayableWriters ==
    ASSUME ~ Concurrent, MaterialsSound, BooksAgree, [Next]_<<part, vars>>
    PROVE  db'["ap"] = db["ap"] \/ \E p \in Workers : RecordApInvoice(p)
<1>1. ASSUME NEW names, Keeps(names), "ap" \notin names PROVE db'["ap"] = db["ap"]
  BY <1>1, BooksThere DEF Keeps
<1>2. ASSUME NEW p \in Workers, SalesOrderRoutes(p) \/ SettingsRoutes(p) \/ DeliveryRoutes(p) \/ PaymentRoutes(p)
      PROVE  db'["ap"] = db["ap"]
  <2>1. Keeps(DeliveryTables)
    BY <1>2, SalesStep DEF SalesNext
  <2>2. "ap" \notin DeliveryTables
    BY DEF DeliveryTables, SalesDocuments, BalanceTables
  <2>3. QED
    BY <1>1, <2>1, <2>2
<1>3. ASSUME NEW p, NEW names, Touches(p, names), "ap" \notin names PROVE db'["ap"] = db["ap"]
  BY <1>3, BooksThere DEF Touches
<1>4. ASSUME NEW p, NEW d, NEW n, PostArInvoice(p, d, n) PROVE db'["ap"] = db["ap"]
  <2>1. Touches(p, {"entry", "ar"})
    BY <1>4, SerialRows DEF PostArInvoice, PostReceivable, Post, Insert, Commit, Finish, Touches
  <2>2. QED
    BY <1>3, <2>1
<1>5. ASSUME NEW p, NEW d, NEW ls, PostManualException(p, d, ls) PROVE db'["ap"] = db["ap"]
  <2>1. Touches(p, {"entry"})
    BY <1>5, SerialRows DEF PostManualException, Post, Insert, Commit, Finish, Touches
  <2>2. QED
    BY <1>3, <2>1
<1>6. ASSUME NEW p \in Workers, NEW d, NEW n, NEW c, NEW g, NEW b, PostApInvoice(p, d, n, c, g, b) PROVE db'["ap"] = db["ap"]
  <2>1. Keeps({"entry"})
    BY <1>6, PayableStep
  <2>2. QED
    BY <1>1, <2>1
<1>7. ASSUME NEW p, BankRoutes(p) PROVE db'["ap"] = db["ap"]
  <2>1. Touches(p, {"bank"})
    BY <1>7, BankTouches
  <2>2. QED
    BY <1>3, <2>1
<1>8. CASE BooksRest
  BY <1>8 DEF BooksRest, SalesBooks
<1>9. SalesBooks \subseteq DOMAIN db
  BY DEF BooksAgree
<1>10. QED
  BY <1>2, <1>4, <1>5, <1>6, <1>7, <1>8, <1>9, BooksWriters DEF InvoiceRoutes

\* Whoever begins to record one.
LEMMA PayableRequests ==
    ASSUME ~ Concurrent, MaterialsSound, Remembered, [Next]_<<part, vars>>
    PROVE  /\ PayableBegins \/ \A p \in Workers : Resuming(p, "payable")' => req'[p] = req[p]
           /\ Remembered'
<1>1. Alone
  BY DEF MaterialsSound
<1>2. ASSUME NEW p \in Workers, NEW k, ReceiveNoteLine(p, k)
      PROVE  (\A q \in Workers : Resuming(q, "payable")' => req'[q] = req[q]) /\ DOMAIN past' = DOMAIN past
  <2>1. PICK r : r = [at |-> "receiving", seen |-> <<>>, todo |-> [req[p].todo EXCEPT !.lines = @ \ {k}]]
    OBVIOUS
  <2>2. /\ req' = [req EXCEPT ![p] = r] /\ r.at = "receiving"
        /\ past' = [past EXCEPT !.booked = @ + db.grnline[k].qty, !.landed = @ + db.grnline[k].qty]
    <3>1. /\ StepIsSound /\ Keeps(BalanceTables)
          /\ req[p].at = "receiving" /\ k \in req[p].todo.lines
          /\ req' = [req EXCEPT ![p] = [at |-> "receiving", seen |-> <<>>,
               todo |-> [req[p].todo EXCEPT !.lines = @ \ {k}]]]
          /\ past' = [past EXCEPT !.booked = @ + db.grnline[k].qty, !.landed = @ + db.grnline[k].qty]
      BY <1>2, NoteLineReceived, Zenon DEF MaterialsSound
    <3>2. QED
      BY <2>1, <3>1
  <2>3. QED
    BY <1>1, <2>2 DEF Alone, Resuming
<1>3. ASSUME NEW p \in Workers, NEW g, ConfirmGoodsReceipt(p, g)
      PROVE  (\A q \in Workers : Resuming(q, "payable")' => req'[q] = req[q]) /\ DOMAIN past' = DOMAIN past
  <2>1. req'[p].at = "receiving" /\ \A q \in Workers \ {p} : req'[q] = Idle
    BY <1>3, ConfirmationStep
  <2>2. past' = past
    BY <1>3 DEF ConfirmGoodsReceipt, CommitThen
  <2>3. QED
    BY <2>1, <2>2 DEF Resuming, Idle
<1>4. ASSUME NEW p \in Workers, NEW t, NEW n, ReconcileTank(p, t, n)
      PROVE  (\A q \in Workers : Resuming(q, "payable")' => req'[q] = req[q]) /\ DOMAIN past' = DOMAIN past
  <2>1. req' = [req EXCEPT ![p] = Idle] /\ past' = [past EXCEPT !.dipped = @ + n - db.tank[t].level]
    BY <1>4, DipTouches
  <2>2. QED
    BY <1>1, <2>1 DEF Alone, Resuming, Idle
<1>5. /\ PayableBegins \/ \A p \in Workers : Resuming(p, "payable")' => req'[p] = req[p]
      /\ DOMAIN past' = DOMAIN past
  BY <1>2, <1>3, <1>4, HistoryWriters DEF Quiet
<1>6. QED
  BY <1>5 DEF Remembered

\* The invoice of a payable is recorded.
LEMMA PayablesAfterRecord ==
    ASSUME ~ Concurrent, MaterialsSound, BooksAgree, PayablesSound, NEW p \in Workers, RecordApInvoice(p)
    PROVE  PayablesSound'
<1>1. PICK e : e = req[p].todo.entry
  OBVIOUS
<1>2. PICK row : row = AccountsPayableInvoice(e, req[p].todo.amount)
  OBVIOUS
<1>3. /\ Resuming(p, "payable")
      /\ db' = [db EXCEPT !["ap"] = Append(db["ap"], row)]
      /\ req' = [req EXCEPT ![p] = Idle]
  BY <1>1, <1>2, SerialRows DEF RecordApInvoice, Insert, Commit, Finish
<1>4. row.entry = e
  BY <1>2 DEF AccountsPayableInvoice
<1>5. Pending(db.entry, db.ap, e) /\ Invoiced(db.entry, db.ap)
  BY <1>1, <1>3 DEF PayablesSound
<1>6. PICK more : more = Append(db["ap"], row)
  OBVIOUS
<1>7. PICK y : y = Len(db["ap"]) + 1
  OBVIOUS
<1>8. /\ \E R : more \in Seq(R)
      /\ DOMAIN more = DOMAIN db["ap"] \cup {y} /\ y \notin DOMAIN db["ap"]
      /\ more[y] = row /\ \A k \in DOMAIN db["ap"] : more[k] = db["ap"][k]
  <2>1. PICK R : db["ap"] \in Seq(R)
    BY <1>5 DEF Invoiced
  <2>2. PICK table : table = db["ap"]
    OBVIOUS
  <2>3. table \in Seq(R) /\ more = Append(table, row) /\ y = Len(table) + 1
    BY <1>6, <1>7, <2>1, <2>2
  <2>4. /\ more \in Seq(R \cup {row}) /\ DOMAIN more = DOMAIN table \cup {y} /\ y \notin DOMAIN table
        /\ more[y] = row /\ \A k \in DOMAIN table : more[k] = table[k]
    BY ONLY <2>3, TableGrows
  <2>5. \E S : more \in Seq(S)
    BY ONLY <2>4
  <2>6. QED
    BY ONLY <2>2, <2>4, <2>5
<1>9. Invoiced(db.entry, more)
  BY <1>4, <1>5, <1>8 DEF Invoiced, Pending
<1>10. db'["entry"] = db["entry"] /\ db'["ap"] = more
  BY <1>3, <1>6, BooksThere
<1>11. \A q \in Workers : ~ Resuming(q, "payable")'
  <2>1. \A q \in Workers : req'[q] = Idle
    BY <1>3 DEF MaterialsSound, Alone, Resuming, Idle
  <2>2. QED
    BY <2>1 DEF Resuming, Idle
<1>12. Invoiced(db.entry, db.ap)' = Invoiced(db'.entry, db'.ap)
  BY DEF Invoiced
<1>13. QED
  BY <1>9, <1>10, <1>11, <1>12 DEF PayablesSound

\* Every step keeps payables and their invoices apart.
LEMMA PayablesAfterStep ==
    ASSUME ~ Concurrent, MaterialsSound, Remembered, BooksAgree, LedgerWhole(db.entry), EntriesKept, PayablesSound,
           [Next]_<<part, vars>>
    PROVE  PayablesSound'
<1>1. \A e \in DOMAIN db.entry : e \in DOMAIN db'.entry /\ db'.entry[e] = db.entry[e]
  BY EntriesStay
<1>2. CASE \E p \in Workers : RecordApInvoice(p)
  BY <1>2, PayablesAfterRecord
<1>3. CASE db'["ap"] = db["ap"]
  <2>1. Invoiced(db.entry, db.ap)
    BY DEF PayablesSound
  <2>2. Invoiced(db'.entry, db'.ap)
    BY <1>1, <1>3, <2>1 DEF Invoiced
  <2>3. ASSUME NEW e, Pending(db.entry, db.ap, e) PROVE Pending(db'.entry, db'.ap, e)
    BY <1>1, <1>3, <2>3 DEF Pending
  <2>4. ASSUME NEW q \in Workers, Resuming(q, "payable")'
        PROVE  Pending(db'.entry, db'.ap, req'[q].todo.entry)
    <3>1. CASE req'[q] = req[q]
      <4>1. Resuming(q, "payable")
        BY <2>4, <3>1 DEF Resuming
      <4>2. QED
        BY <2>3, <3>1, <4>1 DEF PayablesSound
    <3>2. CASE PayableBegins
      <4>1. PICK p \in Workers : \E d, n, c, g, b : PostApInvoice(p, d, n, c, g, b)
        BY <3>2 DEF PayableBegins
      <4>2. PICK d, n, c, g, b : PostApInvoice(p, d, n, c, g, b)
        BY <4>1
      <4>3. q = p
        <5>1. \A v \in Workers \ {p} : req'[v] = Idle
          BY <4>2, PayableStep
        <5>2. QED
          BY <2>4, <5>1 DEF Resuming, Idle
      <4>4. PICK lines : lines = <<Debit("expense", n, c), Credit("payable", n)>>
        OBVIOUS
      <4>5. PICK row : row = JournalEntry("ap", d, lines)
        OBVIOUS
      <4>6. PICK r : r = [at |-> "payable", seen |-> <<>>,
                          todo |-> [entry |-> Len(db'.entry), amount |-> n, code |-> c, budget |-> b]]
        OBVIOUS
      <4>7. db' = [db EXCEPT !["entry"] = Append(db["entry"], row)] /\ req' = [req EXCEPT ![p] = r]
        BY <4>2, <4>4, <4>5, <4>6, SerialRows DEF PostApInvoice, CommitThen, GoOn, Post, Insert
      <4>8. db'["entry"] = Append(db["entry"], row)
        BY <4>7, BooksThere
      <4>9. row.source = "ap"
        BY <4>5 DEF JournalEntry
      <4>10. req'[q].todo.entry = Len(db'["entry"])
        BY <4>3, <4>6, <4>7 DEF MaterialsSound, Alone
      <4>11. PICK R : db["entry"] \in Seq(R)
        BY DEF LedgerWhole
      <4>12. PICK y : y = Len(db["entry"]) + 1
        OBVIOUS
      <4>13. /\ DOMAIN db'["entry"] = DOMAIN db["entry"] \cup {y} /\ y \notin DOMAIN db["entry"]
             /\ db'["entry"][y] = row
        BY <4>8, <4>11, <4>12, TableGrows
      <4>14. Len(db'["entry"]) = y
        <5>1. PICK S : S = R \cup {row}
          OBVIOUS
        <5>2. db["entry"] \in Seq(S) /\ row \in S
          BY <4>11, <5>1
        <5>3. QED
          BY <4>8, <4>12, <5>2, AppendProperties
      <4>15. \A k \in DOMAIN db.ap : db.ap[k].entry # y
        BY <2>1, <4>13 DEF Invoiced
      <4>16. QED
        BY <1>3, <4>9, <4>10, <4>13, <4>14, <4>15 DEF Pending
    <3>3. QED
      BY <2>4, <3>1, <3>2, PayableRequests
  <2>5. Invoiced(db.entry, db.ap)' = Invoiced(db'.entry, db'.ap)
    BY DEF Invoiced
  <2>6. \A q \in Workers : Pending(db.entry, db.ap, req[q].todo.entry)' =
                             Pending(db'.entry, db'.ap, req'[q].todo.entry)
    BY DEF Pending
  <2>7. QED
    BY <2>2, <2>4, <2>5, <2>6 DEF PayablesSound
<1>4. QED
  BY <1>2, <1>3, PayableWriters

\* No payable is posted yet.
LEMMA FirstPayables ==
    ASSUME Init
    PROVE  PayablesSound /\ Remembered
<1>1. /\ {"entry", "ap"} \subseteq DOMAIN db /\ db["entry"] = <<>> /\ db["ap"] = <<>>
      /\ Remembered
  BY FirstTables, FirstPast DEF Remembered
<1>2. <<>> \in Seq({}) /\ DOMAIN <<>> = {}
  BY EmptyTable
<1>3. Invoiced(db.entry, db.ap)
  BY <1>1, <1>2 DEF Invoiced
<1>4. \A p \in Workers : ~ Resuming(p, "payable")
  BY DEF Init, Resuming, Idle
<1>5. QED
  BY <1>1, <1>3, <1>4 DEF PayablesSound

\* What holds of ledger and books together.
LedgerInv == MaterialsSound /\ Remembered /\ BooksAgree /\ LedgerSound /\ PayablesSound

\* It holds from the start and is kept.
LEMMA LedgerStaysSound ==
    ASSUME ~ Concurrent
    PROVE  /\ Init => LedgerInv
           /\ LedgerInv /\ [Next]_<<part, vars>> => LedgerInv' /\ EntriesKept
<1>1. Init => LedgerInv
  BY FirstState, FirstBooks, FirstLedger, FirstPayables DEF LedgerInv
<1>2. ASSUME LedgerInv, [Next]_<<part, vars>> PROVE LedgerInv' /\ EntriesKept
  <2>1. MaterialsSound /\ Remembered /\ BooksAgree /\ LedgerSound /\ PayablesSound
    BY <1>2 DEF LedgerInv
  <2>2. MaterialsSound' /\ BooksAgree'
    BY <1>2, <2>1, PartStep, RestingStep, StepStaysSound, BooksAfterStep
  <2>3. LedgerSound' /\ EntriesKept
    BY <1>2, <2>1, LedgerAfterStep DEF LedgerStays
  <2>4. Remembered'
    BY <1>2, <2>1, PayableRequests
  <2>5. LedgerWhole(db.entry)
    BY <2>1 DEF LedgerSound, Reconciled
  <2>6. PayablesSound'
    BY <1>2, <2>1, <2>3, <2>5, PayablesAfterStep
  <2>7. QED
    BY <2>2, <2>3, <2>4, <2>6 DEF LedgerInv
<1>3. QED
  BY <1>1, <1>2

\* The ledger agrees with the books it summarises.  Over all postings of payables,
\* receivables, corrections, deliveries, invoices and payments the accounts sum to
\* zero; what customers owe according to the receivable accounts is what their
\* invoices leave open, VAT, part payments and a change of the receivable account
\* included; and a payable, whose invoice is recorded in a second transaction, is
\* invoiced at most once.
THEOREM LedgerAndBooksReconcile == ~ Concurrent /\ AccountsApart => (Spec => []LedgerReconciles)
<1> SUFFICES ASSUME ~ Concurrent, AccountsApart PROVE Spec => []LedgerReconciles
  OBVIOUS
<1>1. Init => LedgerInv
  BY LedgerStaysSound
<1>2. LedgerInv /\ [Next]_<<part, vars>> => LedgerInv'
  BY LedgerStaysSound
<1>3. LedgerInv => LedgerReconciles
  BY BooksReconcile, InvoicedOnce DEF LedgerReconciles, LedgerInv
<1>4. QED
  BY <1>1, <1>2, <1>3, PTL DEF Spec

-----------------------------------------------------------------------------
(* Budgets *)

\* The lines charged to a cost code.
ChargedTo(f, c) == {l \in DOMAIN f : ChartOfAccounts[f[l].account] = "expense" /\ f[l].code = c}

Charged(f, c) == SumOf(f, "debit", ChargedTo(f, c))

\* What is spent on a code is what its lines are debited with.
LEMMA SpentIsCharged ==
    ASSUME NEW c
    PROVE  Spent(db, c) = Charged(LedgerOf(db.entry), c) /\ Spent(db', c) = Charged(LedgerOf(db'.entry), c)
<1>1. Ledger(db) = LedgerOf(db.entry) /\ Ledger(db') = LedgerOf(db'.entry)
  BY DEF Ledger, LedgerOf
<1>2. ASSUME NEW f
      PROVE  {l \in {l \in DOMAIN f : ChartOfAccounts[f[l].account] = "expense"} : f[l].code = c} = ChargedTo(f, c)
  BY DEF ChargedTo
<1>3. QED
  BY <1>1, <1>2 DEF Spent, LinesOfType, Charged

\* A line is charged to its code, if its account is one of expenses.
LEMMA ChargedWithLine ==
    ASSUME NEW f, Whole(f), NEW l, l \notin DOMAIN f, NEW x, x["debit"] \in Int, NEW c
    PROVE  /\ Charged(f, c) \in Int
           /\ \/ Charged(With(f, l, x), c) = Charged(f, c)
              \/ x.code = c /\ Charged(With(f, l, x), c) = Charged(f, c) + x["debit"]
<1>1. PICK g : g = With(f, l, x)
  OBVIOUS
<1>2. DOMAIN g = DOMAIN f \cup {l} /\ g[l] = x /\ \A k \in DOMAIN f : g[k] = f[k]
  BY <1>1 DEF With
<1>3. PICK S : S = ChargedTo(f, c)
  OBVIOUS
<1>4. S \subseteq DOMAIN f /\ IsFiniteSet(S) /\ \A k \in S : f[k]["debit"] \in Int
  <2>1. S \subseteq DOMAIN f
    BY <1>3 DEF ChargedTo
  <2>2. QED
    BY <2>1, FS_Subset DEF Whole
<1>5. Charged(f, c) \in Int
  BY <1>3, <1>4, SumOfIsInteger DEF Charged
<1>6. CASE ChartOfAccounts[x.account] = "expense" /\ x.code = c
  <2>1. ChargedTo(g, c) = S \cup {l}
    BY <1>2, <1>3, <1>6 DEF ChargedTo
  <2>2. /\ IsFiniteSet(S) /\ S \subseteq DOMAIN f /\ ChargedTo(g, c) \subseteq DOMAIN g /\ l \notin S
        /\ \A k \in S : f[k]["debit"] \in Int
        /\ g[l]["debit"] \in Int /\ \A k \in S : g[k]["debit"] = f[k]["debit"]
    BY <1>2, <1>4 DEF ChargedTo
  <2>3. SumOf(g, "debit", ChargedTo(g, c)) = SumOf(f, "debit", S) + g[l]["debit"]
    BY ONLY <2>1, <2>2, SumOfOneMore
  <2>4. QED
    BY <1>1, <1>2, <1>3, <1>5, <1>6, <2>3 DEF Charged
<1>7. CASE ~ (ChartOfAccounts[x.account] = "expense" /\ x.code = c)
  <2>1. ChargedTo(g, c) = S
    BY <1>2, <1>3, <1>7 DEF ChargedTo
  <2>2. IsFiniteSet(S) /\ S \subseteq DOMAIN f /\ S \subseteq DOMAIN g /\ \A k \in S : g[k]["debit"] = f[k]["debit"]
    BY <1>2, <1>4
  <2>3. SumOf(g, "debit", S) = SumOf(f, "debit", S)
    BY ONLY <2>2, SumOfSameRows
  <2>4. QED
    BY <1>1, <1>3, <1>5, <2>1, <2>3 DEF Charged
<1>8. QED
  BY <1>6, <1>7

\* A payable is charged to its own cost code and to no other.
LEMMA PayableIsCharged ==
    ASSUME NEW es, LedgerWhole(es), NEW row, NEW n \in Int, NEW k, NEW lines,
           lines = <<Debit("expense", n, k), Credit("payable", n)>>, row.lines = lines, NEW c \in CostCodes
    PROVE  /\ Charged(LedgerOf(es), c) \in Int
           /\ \/ Charged(LedgerOf(Append(es, row)), c) = Charged(LedgerOf(es), c)
              \/ k = c /\ Charged(LedgerOf(Append(es, row)), c) = Charged(LedgerOf(es), c) + n
<1>1. PICK x1 : x1 = Debit("expense", n, k)
  OBVIOUS
<1>2. PICK x2 : x2 = Credit("payable", n)
  OBVIOUS
<1>3. /\ x1["debit"] = n /\ x1["credit"] = 0 /\ x1.code = k
      /\ x2["debit"] = 0 /\ x2["credit"] = n /\ x2.code = None
  BY <1>1, <1>2 DEF Debit, Credit
<1>4. PICK f : f = LedgerOf(es)
  OBVIOUS
<1>5. PICK y : y = Len(es) + 1
  OBVIOUS
<1>6. PICK g : g = With(f, <<y, 1>>, x1)
  OBVIOUS
<1>7. LedgerOf(Append(es, row)) = With(g, <<y, 2>>, x2) /\ <<y, 1>> \notin DOMAIN f /\ <<y, 2>> \notin DOMAIN g
  <2>1. (\E R : es \in Seq(R)) /\ row.lines = <<x1, x2>>
    BY <1>1, <1>2 DEF LedgerWhole
  <2>2. /\ LedgerOf(Append(es, row)) = With(With(LedgerOf(es), <<Len(es) + 1, 1>>, x1), <<Len(es) + 1, 2>>, x2)
        /\ <<Len(es) + 1, 1>> \notin DOMAIN LedgerOf(es)
        /\ <<Len(es) + 1, 2>> \notin DOMAIN With(LedgerOf(es), <<Len(es) + 1, 1>>, x1)
    BY ONLY <2>1, LedgerWithPair, Zenon
  <2>3. QED
    BY <1>4, <1>5, <1>6, <2>2
<1>8. Whole(f)
  BY <1>4 DEF LedgerWhole
<1>9. Whole(g)
  BY <1>3, <1>6, <1>7, <1>8, BalanceWithLine
<1>10. /\ Charged(f, c) \in Int
       /\ \/ Charged(g, c) = Charged(f, c)
          \/ x1.code = c /\ Charged(g, c) = Charged(f, c) + n
  BY <1>3, <1>6, <1>7, <1>8, ChargedWithLine
<1>11. Charged(With(g, <<y, 2>>, x2), c) = Charged(g, c)
  <2>1. /\ Charged(g, c) \in Int
        /\ \/ Charged(With(g, <<y, 2>>, x2), c) = Charged(g, c)
           \/ x2.code = c /\ Charged(With(g, <<y, 2>>, x2), c) = Charged(g, c) + x2["debit"]
    BY <1>3, <1>7, <1>9, ChargedWithLine
  <2>2. x2["debit"] = 0
    BY <1>3
  <2>3. QED
    BY <2>1, <2>2
<1>12. QED
  BY <1>3, <1>4, <1>7, <1>10, <1>11

\* Whoever posts an entry begins when nobody is at work.
LEMMA PostedAtRest ==
    ASSUME ~ Concurrent, LedgerInv, [Next]_<<part, vars>>, db'["entry"] # db["entry"]
    PROVE  \A q \in Workers : req[q] = Idle
<1>1. MaterialsSound /\ BooksAgree /\ SalesBooks \subseteq DOMAIN db
  BY DEF LedgerInv, BooksAgree
<1>2. ASSUME NEW p, Serving(p) PROVE \A q \in Workers : req[q] = Idle
  BY <1>2 DEF Serving
<1>3. ASSUME NEW p \in Workers, SalesOrderRoutes(p) \/ SettingsRoutes(p) \/ DeliveryRoutes(p) \/ PaymentRoutes(p)
      PROVE  Serving(p)
  BY <1>3, BeginsAtRest DEF SalesNext
<1>4. ASSUME NEW p, InvoiceRoutes(p) PROVE Serving(p)
  <2>1. ASSUME RecordApInvoice(p) PROVE FALSE
    <3>1. db'["entry"] = db["entry"]
      BY <2>1, SerialRows, BooksThere, <1>1 DEF RecordApInvoice, Insert, Commit
    <3>2. QED
      BY <3>1
  <2>2. QED
    BY <1>4, <2>1 DEF InvoiceRoutes, PostApInvoice, PostArInvoice
<1>5. ASSUME NEW p, BankRoutes(p) PROVE Serving(p)
  BY <1>5 DEF BankRoutes, ImportBankLine, AutoMatch, Create
<1>6. ASSUME NEW p, NEW d, NEW n, PostArInvoice(p, d, n) PROVE Serving(p)
  BY <1>6 DEF PostArInvoice
<1>7. ASSUME NEW p, NEW d, NEW ls, PostManualException(p, d, ls) PROVE Serving(p)
  BY <1>7 DEF PostManualException
<1>8. ~ BooksRest
  BY DEF BooksRest, SalesBooks
<1>9. QED
  BY <1>1, <1>2, <1>3, <1>4, <1>5, <1>6, <1>7, <1>8, BooksWriters

\* What a step of payables may charge to a code under a hard block, when the request
\* of p states the code and its budget.
BlockKept(p, c) ==
    (/\ Len(db'.entry) > Len(db.entry)
     /\ Resuming(p, "payable")'
     /\ req'[p].todo.code = c /\ req'[p].todo.budget # NoBudget
     /\ \A g \in {None, "materials"} : ~ MayOnlyWarn(db, g))
    => Spent(db', c) <= req'[p].todo.budget

\* The payable was checked against what is spent when it is posted.
LEMMA BlockAfterPayable ==
    ASSUME ~ Concurrent, LedgerInv, NEW p \in Workers, NEW c \in CostCodes, PayableBegins
    PROVE  BlockKept(p, c)
<1>1. PICK v \in Workers, d \in Days, n \in Amounts, k \in CostCodes \cup {None}, g \in {None, "materials"},
           b \in Budgets \cup {NoBudget} : PostApInvoice(v, d, n, k, g, b)
  BY DEF PayableBegins
<1>2. MaterialsSound /\ BooksAgree
  BY DEF LedgerInv
<1>3. PICK row : row = JournalEntry("ap", d, <<Debit("expense", n, k), Credit("payable", n)>>)
  OBVIOUS
<1>4. row.lines = <<Debit("expense", n, k), Credit("payable", n)>>
  BY <1>3 DEF JournalEntry
<1>5. /\ db' = Post(db, "ap", d, <<Debit("expense", n, k), Credit("payable", n)>>)
      /\ k # None /\ b # NoBudget => BudgetAllows(db, k, g, n, b)
  BY <1>1, SerialRows DEF PostApInvoice, CommitThen
<1>6. SUFFICES ASSUME Resuming(p, "payable")', req'[p].todo.code = c, req'[p].todo.budget # NoBudget,
                      \A h \in {None, "materials"} : ~ MayOnlyWarn(db, h)
               PROVE  Spent(db', c) <= req'[p].todo.budget
  BY DEF BlockKept
<1>7. p = v
  <2>1. \A q \in Workers \ {v} : req'[q] = Idle
    BY <1>1, <1>2, PayableStep
  <2>2. QED
    BY <1>6, <2>1 DEF Resuming, Idle
<1>8. k = c /\ b # NoBudget /\ req'[p].todo.budget = b
  <2>1. PICK r : r = [at |-> "payable", seen |-> <<>>,
                      todo |-> [entry |-> Len(db'.entry), amount |-> n, code |-> k, budget |-> b]]
    OBVIOUS
  <2>2. req' = [req EXCEPT ![v] = r] /\ v \in DOMAIN req
    BY <1>1, <1>2, <2>1 DEF PostApInvoice, CommitThen, GoOn, MaterialsSound, Alone
  <2>3. req'[p] = r
    BY <1>7, <2>2
  <2>4. QED
    BY <1>6, <2>1, <2>3
<1>9. db'["entry"] = Append(db["entry"], row)
  BY <1>2, <1>3, <1>5, BooksThere DEF Post, Insert
<1>10. LedgerWhole(db.entry) /\ n \in Int
  BY LedgerAssumption DEF LedgerInv, LedgerSound, Reconciled
<1>11. /\ Charged(LedgerOf(db.entry), c) \in Int
       /\ \/ Charged(LedgerOf(Append(db.entry, row)), c) = Charged(LedgerOf(db.entry), c)
          \/ k = c /\ Charged(LedgerOf(Append(db.entry, row)), c) = Charged(LedgerOf(db.entry), c) + n
  <2>1. PICK es : es = db.entry
    OBVIOUS
  <2>2. LedgerWhole(es)
    BY <1>10, <2>1
  <2>3. PICK lines : lines = <<Debit("expense", n, k), Credit("payable", n)>> /\ row.lines = lines
    BY <1>4
  <2>4. /\ Charged(LedgerOf(es), c) \in Int
        /\ \/ Charged(LedgerOf(Append(es, row)), c) = Charged(LedgerOf(es), c)
           \/ k = c /\ Charged(LedgerOf(Append(es, row)), c) = Charged(LedgerOf(es), c) + n
    <3>1. n \in Int
      BY <1>10
    <3>2. c \in CostCodes
      OBVIOUS
    <3>3. QED
      BY ONLY <2>2, <2>3, <3>1, <3>2, PayableIsCharged
  <2>5. QED
    BY <2>1, <2>4
<1>12. /\ Spent(db, c) \in Int
       /\ \/ Spent(db', c) = Spent(db, c)
          \/ k = c /\ Spent(db', c) = Spent(db, c) + n
  BY <1>9, <1>11, SpentIsCharged
<1>13. b \in Nat /\ n \in Nat /\ None \notin CostCodes
  BY <1>8, LedgerAssumption
<1>14. n <= b - Spent(db, c)
  <2>1. n > b - Spent(db, c) => MayOnlyWarn(db, g)
    BY <1>5, <1>8, <1>13 DEF BudgetAllows
  <2>2. QED
    BY <1>6, <1>12, <1>13, <2>1
<1>15. QED
  BY <1>8, <1>12, <1>13, <1>14

\* Every other step posts no payable.
LEMMA BlockAfterStep ==
    ASSUME ~ Concurrent, LedgerInv, [Next]_<<part, vars>>, NEW p \in Workers, NEW c \in CostCodes
    PROVE  BlockKept(p, c)
<1>1. CASE PayableBegins
  BY <1>1, BlockAfterPayable
<1>2. CASE db'["entry"] = db["entry"]
  <2>1. PICK R : db["entry"] \in Seq(R)
    BY DEF LedgerInv, LedgerSound, Reconciled, LedgerWhole
  <2>2. ~ (Len(db'["entry"]) > Len(db["entry"]))
    BY <1>2, <2>1
  <2>3. QED
    BY <2>2 DEF BlockKept
<1>3. CASE db'["entry"] # db["entry"] /\ ~ PayableBegins
  <2>1. req[p] = Idle
    BY <1>3, PostedAtRest
  <2>2. Resuming(p, "payable")' => req'[p] = req[p]
    BY <1>3, PayableRequests DEF LedgerInv
  <2>3. ~ Resuming(p, "payable")'
    BY <2>1, <2>2 DEF Resuming, Idle
  <2>4. QED
    BY <2>3 DEF BlockKept
<1>4. QED
  BY <1>1, <1>2, <1>3

\* Under a hard block no payable whose request states the budget of its cost code takes
\* the code beyond that budget, whatever has been charged to it by other payables and by
\* manual corrections, which are not checked.
THEOREM HardBlocksHold == ~ Concurrent => (Spec => HardBlockHolds)
<1> SUFFICES ASSUME ~ Concurrent PROVE Spec => HardBlockHolds
  OBVIOUS
<1>1. Init => LedgerInv
  BY LedgerStaysSound
<1>2. LedgerInv /\ [Next]_<<part, vars>> => LedgerInv'
  BY LedgerStaysSound
<1>3. LedgerInv /\ [Next]_<<part, vars>> =>
        [\A p \in Workers, c \in CostCodes :
            /\ Len(db'.entry) > Len(db.entry)
            /\ Resuming(p, "payable")'
            /\ req'[p].todo.code = c /\ req'[p].todo.budget # NoBudget
            /\ \A g \in {None, "materials"} : ~ MayOnlyWarn(db, g)
            => Spent(db', c) <= req'[p].todo.budget]_vars
  BY BlockAfterStep DEF BlockKept
<1>4. QED
  BY <1>1, <1>2, <1>3, PTL DEF Spec, HardBlockHolds
=============================================================================
