-------------------------------- MODULE Sales --------------------------------
(***************************************************************************)
(* Sales (modules/sal): orders, deliveries out of stock, invoices and      *)
(* customer payments, each posted to the general ledger in the transaction *)
(* of the handler.                                                         *)
(*                                                                         *)
(* There is one material, so an order has one line and its columns are     *)
(* kept with the order.  Money is counted in the smallest unit.            *)
(***************************************************************************)
EXTENDS StockLedger, GeneralLedger

CONSTANTS
    Prices,          \* unit prices of order lines
    SettingsChoices  \* the sales settings a tenant changes between

ASSUME SalesAssumption ==
    /\ Prices \subseteq Nat
    /\ SettingsChoices \subseteq [receivable : DOMAIN ChartOfAccounts, vat : 0..100, costed : BOOLEAN]

\* costed: both the cost-of-goods and the inventory account are chosen.
SalesSettings(receivable, vat, costed) ==
    [receivable |-> receivable, vat |-> vat, costed |-> costed]

ReceivableAccounts == {c.receivable : c \in SettingsChoices}

SalesOrder(w, q, price, vat) ==
    [status |-> "draft", at |-> w, vat |-> vat, qty |-> q, price |-> price,
     delivered |-> 0, invoiced |-> 0]

Delivery(o, q, cost) == [order |-> o, qty |-> q, cost |-> cost]

SalesInvoice(o, ar, q, net, vat) ==
    [order |-> o, ar |-> ar, qty |-> q, amount |-> net + vat, paid |-> 0]

SalesPayment(i, n) == [invoice |-> i, amount |-> n]

SalesTables ==
    [salesconf |-> <<>>, so |-> <<>>, delivery |-> <<>>, invoice |-> <<>>, payment |-> <<>>]

DefaultVat == 7

\* ROUND_HALF_UP to the smallest unit.
VatOn(net, percent) == (net * percent + 50) \div 100

\* _next_number counts the rows it sees; the number of a row committed since is taken.
NumberIsFree(p, t) == Len(Seen(p)[t]) = Len(db[t])

-----------------------------------------------------------------------------

SaveSettings(p, account, vat, costed) ==
    LET s == Seen(p)
    IN /\ Serving(p)
       /\ s.salesconf = <<>> => db.salesconf = <<>>
       /\ Commit(p, [s EXCEPT !.salesconf = <<SalesSettings(account, vat, costed)>>])

OrderVat(s) == IF s.salesconf = <<>> THEN DefaultVat ELSE s.salesconf[1].vat

CreateOrder(p, w, q, price) ==
    /\ NumberIsFree(p, "so")
    /\ Create(p, "so", SalesOrder(w, q, price, OrderVat(Seen(p))))

\* The lines of a draft are replaced; its VAT rate stays.
EditOrder(p, o, w, q, price) ==
    Amend(p, "so", o,
          LAMBDA r : r.status = "draft",
          LAMBDA r : SalesOrder(w, q, price, r.vat))

ConfirmOrder(p, o) == Turn(p, "so", o, {"draft"}, "confirmed")

CancelOrder(p, o) == Turn(p, "so", o, {"draft", "confirmed"}, "cancelled")

\* What a quantity costs when it leaves: the average, or the layers it is taken of.
CostOf(s, w, q) ==
    IF Method(s) = "fifo"
    THEN SumFunctionOnSet([k \in DOMAIN s.layer |-> Taken(s, w, q, k)], {k \in LayersAt(s, w) : s.layer[k].priced})
    ELSE IF s.item[w].priced THEN q ELSE 0

\* _post_cogs
PostCogs(s, cost) ==
    IF s.salesconf # <<>> /\ s.salesconf[1].costed /\ cost > 0
    THEN Post(s, "cogs", 1, <<Debit("expense", cost, None), Credit("inventory", cost)>>)
    ELSE s

Shipped(s, o, q) ==
    LET r == s.so[o]
        cost == CostOf(s, r.at, q)
    IN [PostCogs(Insert(IssueFrom(s, r.at, q), "delivery", Delivery(o, q, cost)), cost) EXCEPT
            !.so[o].delivered = @ + q,
            !.so[o].status = IF r.delivered + q >= r.qty THEN "delivered" ELSE "partially_delivered"]

\* Mutant: what was delivered before is not counted.
Deliver_eachUpToOrdered(p, o, q) ==
    LET s == Seen(p)
    IN /\ Serving(p)
       /\ o \in DOMAIN s.so
       /\ s.so[o].status \in {"confirmed", "partially_delivered"}
       /\ q <= s.so[o].qty
       /\ Room("delivery") /\ NumberIsFree(p, "delivery")
       /\ CanIssue(s, s.so[o].at, q)
       /\ Book(p, Shipped(s, o, q), -q)

\* Stock, delivery note, cost of goods and order change in one transaction.
Deliver(p, o, q) ==
    LET s == Seen(p)
    IN /\ Serving(p)
       /\ o \in DOMAIN s.so
       /\ s.so[o].status \in {"confirmed", "partially_delivered"}
       /\ q <= s.so[o].qty - s.so[o].delivered
       /\ Room("delivery") /\ NumberIsFree(p, "delivery")
       /\ CanIssue(s, s.so[o].at, q)
       /\ Book(p, Shipped(s, o, q), -q)

\* post_accounts_receivable_invoice, to the receivable account of the settings.
PostSalesInvoice(s, o, q, net, vat) ==
    LET ar == PostReceivable(s, 1, net, vat)
        e == Len(ar.entry)
    IN Insert([ar EXCEPT !.entry[e].lines[1].account = s.salesconf[1].receivable],
              "invoice", SalesInvoice(o, Len(ar.ar), q, net, vat))

\* Everything delivered and not yet invoiced; a VAT account is there when the rate asks.
InvoiceDelivered(p, o) ==
    LET s == Seen(p)
        q == s.so[o].delivered - s.so[o].invoiced
        net == q * s.so[o].price
        vat == VatOn(net, s.so[o].vat)
    IN /\ Serving(p)
       /\ o \in DOMAIN s.so
       /\ s.salesconf # <<>>
       /\ q > 0 /\ net + vat > 0
       /\ vat > 0 => s.salesconf[1].vat > 0
       /\ Room("invoice") /\ NumberIsFree(p, "invoice")
       /\ Commit(p, [PostSalesInvoice(s, o, q, net, vat) EXCEPT !.so[o].invoiced = @ + q])

\* Mutant: the finance invoice is settled by the first payment.
Settle_atOnce(s, i, n) == [s EXCEPT !.ar[s.invoice[i].ar].status = "paid"]

\* A fully paid invoice marks its finance invoice paid.
Settle(s, i, n) ==
    LET r == s.invoice[i]
    IN IF r.paid + n >= r.amount THEN [s EXCEPT !.ar[r.ar].status = "paid"] ELSE s

\* The invoice is locked by a SELECT ... FOR UPDATE, but the row the session
\* already holds is not refreshed by it: the balance is the one loaded before.
RecordPayment(p, i, n) ==
    LET s == Seen(p)
    IN /\ Serving(p)
       /\ i \in DOMAIN s.invoice
       /\ s.salesconf # <<>>
       /\ n <= s.invoice[i].amount - s.invoice[i].paid
       /\ Room("payment")
       /\ Commit(p,
            Insert(Post([Settle(s, i, n) EXCEPT !.invoice[i].paid = @ + n], "receipt", 1,
                        <<Debit("cash", n, None), Credit(s.salesconf[1].receivable, n)>>),
                   "payment", SalesPayment(i, n)))

SalesOrderRoutes(p) ==
    \/ \E w \in Warehouses, q \in 1..2, price \in Prices :
         \/ CreateOrder(p, w, q, price)
         \/ \E o \in 1..MaxRows.so : EditOrder(p, o, w, q, price)
    \/ \E o \in 1..MaxRows.so : ConfirmOrder(p, o) \/ CancelOrder(p, o)

DeliveryRoutes(p) ==
    \E o \in 1..MaxRows.so : InvoiceDelivered(p, o) \/ \E q \in 1..2 : Deliver(p, o, q)

PaymentRoutes(p) == \E i \in 1..MaxRows.invoice, n \in Amounts : RecordPayment(p, i, n)

SettingsRoutes(p) ==
    \E c \in SettingsChoices : SaveSettings(p, c.receivable, c.vat, c.costed)

SalesNext(p) ==
    \/ SettingsRoutes(p)
    \/ SalesOrderRoutes(p)
    \/ DeliveryRoutes(p)
    \/ PaymentRoutes(p)
    \/ \E w \in Warehouses, q \in Quantities : Receive(p, w, q)

-----------------------------------------------------------------------------
(* Properties *)

SalesTypeOK ==
    /\ \A o \in DOMAIN db.so :
         /\ db.so[o].status \in {"draft", "confirmed", "partially_delivered", "delivered", "cancelled"}
         /\ 0 <= db.so[o].invoiced /\ db.so[o].invoiced <= db.so[o].delivered
         /\ db.so[o].delivered <= db.so[o].qty
    /\ \A i \in DOMAIN db.invoice : db.invoice[i].paid \in 0..db.invoice[i].amount

PaidOn(i) ==
    SumOf(db.payment, "amount", {k \in DOMAIN db.payment : db.payment[k].invoice = i})

\* The ledger agrees with the books it summarises: debits equal credits over all
\* postings, what customers owe according to the receivable accounts is what their
\* invoices leave open -- through partial deliveries, VAT rounding, part payments
\* and a change of the receivable account in between -- and no payable is invoiced
\* twice.
LedgerReconciles ==
    /\ LedgerBalances
    /\ SumFunction([a \in ReceivableAccounts |-> Balance(a)]) =
         SumOf(db.ar, "amount", DOMAIN db.ar) - SumFunction([i \in DOMAIN db.invoice |-> PaidOn(i)])
    /\ PayablesAreInvoicedOnce

\* An order knows what was delivered and invoiced under it, and its status
\* follows: delivered when nothing is left, partially_delivered when something is.
OrderFollowsDeliveries ==
    \A o \in DOMAIN db.so :
        LET r == db.so[o]
        IN /\ r.delivered = SumOf(db.delivery, "qty", {k \in DOMAIN db.delivery : db.delivery[k].order = o})
           /\ r.invoiced = SumOf(db.invoice, "qty", {i \in DOMAIN db.invoice : db.invoice[i].order = o})
           /\ r.status = "delivered" <=> r.delivered = r.qty
           /\ r.status = "partially_delivered" <=> r.delivered \in 1..(r.qty - 1)

\* "A fully paid invoice marks its finance (AR) invoice paid": and only a fully
\* paid one.  Holds while requests do not overlap.
SettledWhenPaid ==
    \A i \in DOMAIN db.invoice :
        db.ar[db.invoice[i].ar].status = "paid" <=> PaidOn(i) = db.invoice[i].amount

\* "The invoice row is locked so two payments cannot together exceed what is owed."
PaymentsWithinInvoice == \A i \in DOMAIN db.invoice : PaidOn(i) <= db.invoice[i].amount
=============================================================================
