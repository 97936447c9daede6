----------------------------- MODULE StockLedger -----------------------------
(***************************************************************************)
(* The stock of one material in a tenant's warehouses (modules/inv): the   *)
(* balances, the FIFO layers, the transfers on the road, the reservations  *)
(* and the stock counts.                                                   *)
(*                                                                         *)
(* Requests load, compute and commit as in module Requests; no row is      *)
(* locked.  Recording waste commits twice.                                 *)
(*                                                                         *)
(* Quantities are whole numbers.  Of a unit cost only its sign is kept:    *)
(* "priced" stock has a cost, the rest is valued at zero.                  *)
(***************************************************************************)
EXTENDS Requests

CONSTANTS
    Warehouses,
    Quantities,    \* the quantities requests ask for
    Methods,       \* the valuation methods this tenant switches between
    MaxOwned,      \* bound: nothing is received beyond this quantity, nor counted
    MaxLayers,     \* bound: rows of inv_stock_layers
    MaxDocuments,  \* bound: transfers, reservations, stock counts and waste together
    MaxCounts      \* bound: stock counts

NotCounted == -1

ASSUME StockAssumption ==
    /\ Quantities \subseteq Nat \ {0}
    /\ Methods \subseteq {"weighted_average", "fifo"} /\ "weighted_average" \in Methods
    /\ IsFiniteSet(Warehouses)
    /\ MaxOwned \in Nat
    /\ MaxLayers \in Nat /\ MaxDocuments \in Nat /\ MaxCounts \in Nat

StockItem == [qty |-> 0, priced |-> FALSE]

StockLayer(w, q, priced) == [at |-> w, qty |-> q, priced |-> priced]

StockTransfer(w, to, q) == [status |-> "in_transit", from |-> w, to |-> to, qty |-> q]

StockReservation(w, q) == [status |-> "active", at |-> w, qty |-> q]

\* Its one line is kept with the count.
StockCount(w) == [adjusted |-> FALSE, at |-> w, counted |-> NotCounted]

\* What is known of the goods beyond their quantity; no balance depends on it.
ItemCode == [kind |-> "internal"]

\* order is 0 for a batch entered by hand.
BatchNumber(order, n, status) == [status |-> status, order |-> order, remaining |-> n]

SerialNumber(number) == [number |-> number]

WasteRecord(q) == [qty |-> q]

ReorderLevel(w, point) == [at |-> w, point |-> point]

\* History: what entered the tenant's stock minus what left it; the quantity taken
\* out as waste; and what of it was left unrecorded by requests that died.
StockPast == [booked |-> 0, wasted |-> 0, lost |-> 0]

\* The row _get_or_create_stock_item would insert is there from the start.
StockTables ==
    [item     |-> [w \in Warehouses |-> StockItem],
     layer    |-> <<>>,      \* oldest first
     transfer |-> <<>>,
     reserv   |-> <<>>,
     count    |-> <<>>,
     waste    |-> <<>>,
     itemcode |-> <<>>, batch |-> <<>>, serial |-> <<>>, reorder |-> <<>>,
     settings |-> <<[method |-> "weighted_average"]>>]

Method(s) == s.settings[1].method

-----------------------------------------------------------------------------
(* What one loaded copy of the tables says and how a handler changes it *)

LayersAt(s, w) == {k \in DOMAIN s.layer : s.layer[k].at = w}

Layered(s, w) == SumOf(s.layer, "qty", LayersAt(s, w))

Reserved(s, w) ==
    SumOf(s.reserv, "qty", {k \in DOMAIN s.reserv : s.reserv[k].at = w /\ s.reserv[k].status = "active"})

Available(s, w) == s.item[w].qty - Reserved(s, w)

AddTo(s, w, q) == [s EXCEPT !.item[w].qty = @ + q]

\* Goods arrive: under FIFO a new layer, else a new average.
Land(s, w, q, priced) ==
    IF Method(s) = "fifo"
    THEN [AddTo(s, w, q) EXCEPT
            !.layer = Append(@, StockLayer(w, q, priced))]
    ELSE [AddTo(s, w, q) EXCEPT
            !.item[w].priced = priced \/ (s.item[w].qty > 0 /\ @)]

\* _consume_fifo: what is taken of layer k when q are consumed oldest first.
Older(s, w, k) ==
    SumOf(s.layer, "qty", {j \in LayersAt(s, w) : j < k})

Taken(s, w, q, k) ==
    LET rest == q - Older(s, w, k)
    IN IF rest <= 0 THEN 0 ELSE IF rest < s.layer[k].qty THEN rest ELSE s.layer[k].qty

\* Mutant: every layer gives the whole quantity asked for.
ConsumeFifo_eachLayer(s, w, q) ==
    [s EXCEPT !.layer = [k \in DOMAIN @ |->
        IF k \in LayersAt(s, w) THEN [@[k] EXCEPT !.qty = IF @ > q THEN @ - q ELSE 0] ELSE @[k]]]

ConsumeFifo(s, w, q) ==
    [s EXCEPT !.layer = [k \in DOMAIN @ |->
        IF k \in LayersAt(s, w) THEN [s.layer[k] EXCEPT !.qty = @ - Taken(s, w, q, k)] ELSE @[k]]]

OnHandCovers(s, w, q) == q <= s.item[w].qty

\* Mutant: the balance is not looked at.
CanIssue_anyQuantity(s, w, q) == Method(s) = "fifo" => Layered(s, w) >= q

CanIssue(s, w, q) ==
    /\ OnHandCovers(s, w, q)
    /\ Method(s) = "fifo" => Layered(s, w) >= q

IssueFrom(s, w, q) ==
    AddTo(IF Method(s) = "fifo" THEN ConsumeFifo(s, w, q) ELSE s, w, -q)

-----------------------------------------------------------------------------
(* Committing *)

WithinBounds(s) ==
    /\ Len(s.layer) <= MaxLayers
    /\ Len(s.transfer) + Len(s.reserv) + Len(s.count) + past.wasted <= MaxDocuments
    /\ Len(s.count) <= MaxCounts
    /\ SumOf(s.item, "qty", Warehouses) <= MaxOwned

\* CHECK (quantity_on_hand >= 0) holds of what a handler writes by its own checks.
Book(p, new, entry) ==
    /\ Write(p, new)
    /\ Finish(p)
    /\ WithinBounds(db')
    /\ past' = [past EXCEPT !.booked = @ + entry]

-----------------------------------------------------------------------------
(* The handlers *)

Receive(p, w, q) ==
    /\ Serving(p)
    /\ Book(p, Land(Seen(p), w, q, TRUE), q)

Issue(p, w, q) ==
    /\ Serving(p)
    /\ CanIssue(Seen(p), w, q)
    /\ Book(p, IssueFrom(Seen(p), w, q), -q)

\* record_waste: issue_stock commits, the valued WasteRecord is a commit of its own.
Waste(p, w, q) ==
    /\ Serving(p)
    /\ Len(db.transfer) + Len(db.reserv) + Len(db.count) + past.wasted + q <= MaxDocuments
    /\ CanIssue(Seen(p), w, q)
    /\ Write(p, IssueFrom(Seen(p), w, q))
    /\ GoOn(p, "wasting", q)
    /\ past' = [past EXCEPT !.booked = @ - q, !.wasted = @ + q]

\* Mutant: the request is not over once its waste is recorded.
RecordWaste_again(p) ==
    /\ Resuming(p, "wasting")
    /\ Write(p, Insert(Seen(p), "waste", WasteRecord(req[p].todo)))
    /\ UNCHANGED <<req, past>>

RecordWaste(p) ==
    /\ Resuming(p, "wasting")
    /\ Commit(p, Insert(Seen(p), "waste", WasteRecord(req[p].todo)))

\* The request dies in between: the goods are gone and no row says why.
LoseWaste(p) ==
    /\ Resuming(p, "wasting")
    /\ past' = [past EXCEPT !.lost = @ + req[p].todo]
    /\ Finish(p)
    /\ UNCHANGED db

\* Mutant: physical stock is looked at instead of what is available.
Reserve_physical(p, w, q) ==
    /\ Serving(p)
    /\ OnHandCovers(Seen(p), w, q)
    /\ Book(p, [Seen(p) EXCEPT !.reserv = Append(@, StockReservation(w, q))], 0)

Reserve(p, w, q) ==
    /\ Serving(p)
    /\ q <= Available(Seen(p), w)
    /\ Book(p, [Seen(p) EXCEPT !.reserv = Append(@, StockReservation(w, q))], 0)

Release(p, k) ==
    /\ Serving(p)
    /\ k \in DOMAIN Seen(p).reserv
    /\ Seen(p).reserv[k].status = "active"
    /\ Book(p, [Seen(p) EXCEPT !.reserv[k].status = "released"], 0)

\* The goods leave the source at once, its layers are not consumed.
InitiateTransfer(p, w, to, q) ==
    /\ Serving(p)
    /\ w # to
    /\ OnHandCovers(Seen(p), w, q)
    /\ Book(p, [AddTo(Seen(p), w, -q) EXCEPT
                    !.transfer = Append(@, StockTransfer(w, to, q))], 0)

\* Mutant: a transfer may be confirmed again.
ConfirmTransferReceipt_twice(p, k) ==
    LET s == Seen(p)
    IN /\ Serving(p)
       /\ k \in DOMAIN s.transfer
       /\ LET t == s.transfer[k]
          IN Book(p, [Land(s, t.to, t.qty, s.item[t.from].priced)
                        EXCEPT !.transfer[k].status = "received"], 0)

\* The goods arrive at the average cost the source has by now, which only
\* weighted-average receipts ever set.
ConfirmTransferReceipt(p, k) ==
    LET s == Seen(p)
    IN /\ Serving(p)
       /\ k \in DOMAIN s.transfer
       /\ s.transfer[k].status # "received"
       /\ LET t == s.transfer[k]
          IN Book(p, [Land(s, t.to, t.qty, s.item[t.from].priced)
                        EXCEPT !.transfer[k].status = "received"], 0)

\* Both returns move balances only: no layer, no cost.
ReturnToYard(p, w, to, q) ==
    /\ Serving(p)
    /\ OnHandCovers(Seen(p), w, q)
    /\ Book(p, AddTo(AddTo(Seen(p), w, -q), to, q), 0)

ReturnToVendor(p, w, q) ==
    /\ Serving(p)
    /\ OnHandCovers(Seen(p), w, q)
    /\ Book(p, AddTo(Seen(p), w, -q), -q)

StartCount(p, w) ==
    /\ Serving(p)
    /\ Book(p, [Seen(p) EXCEPT
                    !.count = Append(@, StockCount(w))], 0)

\* Neither recording a line nor completing looks at the count's status, and no
\* handler tells "draft" from "completed": completing an adjusted count opens it.
RecordCountLine(p, k, n) ==
    /\ Serving(p)
    /\ k \in DOMAIN Seen(p).count
    /\ Book(p, [Seen(p) EXCEPT !.count[k].counted = n], 0)

CompleteCount(p, k) ==
    /\ Serving(p)
    /\ k \in DOMAIN Seen(p).count
    /\ Book(p, [Seen(p) EXCEPT !.count[k].adjusted = FALSE], 0)

\* The balance becomes what was counted, whatever moved since the count.
ApplyCount(p, k) ==
    LET s == Seen(p)
    IN /\ Serving(p)
       /\ k \in DOMAIN s.count
       /\ ~ s.count[k].adjusted
       /\ s.count[k].counted # NotCounted
       /\ LET c == s.count[k]
          IN Book(p, [s EXCEPT !.item[c.at].qty = c.counted,
                               !.count[k].adjusted = TRUE],
                  c.counted - s.item[c.at].qty)

SetValuationMethod(p, m) ==
    /\ Serving(p)
    /\ m # Method(Seen(p))
    /\ Book(p, [Seen(p) EXCEPT !.settings[1].method = m], 0)

ReceiptRoutes(p) == \E w \in Warehouses, q \in Quantities : Receive(p, w, q) \/ Issue(p, w, q)

ReservationRoutes(p) ==
    \/ \E w \in Warehouses, q \in Quantities : Reserve(p, w, q)
    \/ \E k \in 1..MaxDocuments : Release(p, k)

TransferRoutes(p) ==
    \/ \E w, to \in Warehouses, q \in Quantities : InitiateTransfer(p, w, to, q)
    \/ \E k \in 1..MaxDocuments : ConfirmTransferReceipt(p, k)

WasteAndReturnRoutes(p) ==
    \/ RecordWaste(p)
    \/ LoseWaste(p)
    \/ \E w \in Warehouses, q \in Quantities :
         \/ Waste(p, w, q)
         \/ ReturnToVendor(p, w, q)
         \/ \E to \in Warehouses : ReturnToYard(p, w, to, q)

CountRoutes(p) ==
    \/ \E w \in Warehouses : StartCount(p, w)
    \/ \E k \in 1..MaxCounts :
         \/ \E n \in 0..MaxOwned : RecordCountLine(p, k, n)
         \/ CompleteCount(p, k)
         \/ ApplyCount(p, k)

StockNext(p) ==
    \/ ReceiptRoutes(p)
    \/ ReservationRoutes(p)
    \/ TransferRoutes(p)
    \/ WasteAndReturnRoutes(p)
    \/ CountRoutes(p)
    \/ \E m \in Methods : SetValuationMethod(p, m)

\* A level is not unique to its warehouse.
ReorderRoutes(p) ==
    \E w \in Warehouses, q \in Quantities : Create(p, "reorder", ReorderLevel(w, q))

\* check_reorder_levels: what is available counts, not what is on hand.
BelowReorderPoint(s) ==
    {k \in DOMAIN s.reorder : Available(s, s.reorder[k].at) <= s.reorder[k].point}

\* Codes, batches and serial numbers are kept beside the stock.  Issuing looks at
\* no batch, whatever its status; uq_inv_serial_numbers_tenant_serial.
TraceabilityRoutes(p) ==
    \/ Create(p, "itemcode", ItemCode)
    \/ \E n \in Quantities, status \in {"quarantined", "released"} :
         Create(p, "batch", BatchNumber(0, n, status))
    \/ \E k \in 1..MaxRows.batch, status \in {"quarantined", "released", "rejected"} :
         Amend(p, "batch", k, LAMBDA b : TRUE, LAMBDA b : [b EXCEPT !.status = status])
    \/ \E n \in Quantities :
         /\ \A k \in DOMAIN db.serial : db.serial[k].number # n
         /\ Create(p, "serial", SerialNumber(n))

TraceabilityNext(p) ==
    \/ TraceabilityRoutes(p)
    \/ ReorderRoutes(p)
    \/ \E w \in Warehouses, q \in Quantities : Receive(p, w, q)

-----------------------------------------------------------------------------
(* Properties *)

InTransit ==
    SumOf(db.transfer, "qty", {k \in DOMAIN db.transfer : db.transfer[k].status = "in_transit"})

OnHand == SumOf(db.item, "qty", Warehouses)

\* Balances and layers are never negative (the two CHECK constraints of
\* models.py), so no handler ever ends in an IntegrityError.
StockTypeOK ==
    /\ \A w \in Warehouses : db.item[w].qty \in Nat /\ db.item[w].priced \in BOOLEAN
    /\ \A k \in DOMAIN db.layer : db.layer[k].at \in Warehouses /\ db.layer[k].qty \in Nat
    /\ \A k \in DOMAIN db.transfer : db.transfer[k].status \in {"in_transit", "received"}
    /\ \A k \in DOMAIN db.reserv : db.reserv[k].status \in {"active", "released"}
    /\ \A k \in DOMAIN db.count : db.count[k].adjusted \in BOOLEAN
    /\ \A k \in DOMAIN db.waste : db.waste[k].qty \in Nat
    /\ Method(db) \in Methods

\* No transfer, return to the yard, reservation or valuation creates or
\* destroys goods: what is in the warehouses and on the road is what came in
\* less what went out.  Holds while requests do not overlap.
BooksBalance == OnHand + InTransit = past.booked

\* Waste is a category of its own, "never hidden inside standard consumption":
\* the rows of inv_waste_records, and those that requests between their two
\* commits are still to write, account for what left the stock as waste, less
\* what requests left unrecorded that died there.
Recorded == SumOf(db.waste, "qty", DOMAIN db.waste)

Unwritten == SumFunction([p \in {q \in Workers : Resuming(q, "wasting")} |-> req[p].todo])

WasteIsRecordedOnce == Recorded + Unwritten + past.lost = past.wasted

\* "Should be impossible if quantity_on_hand is kept in sync": a handler that
\* touches the FIFO layers of a warehouse moves its balance by the same quantity.
LayersMoveWithBalance ==
    [][\A w \in Warehouses :
        Layered(db', w) # Layered(db, w) =>
            Layered(db', w) - Layered(db, w) = db'.item[w].qty - db.item[w].qty]_vars

\* A new reservation is covered by what other reservations leave available.
\* Holds while requests do not overlap.
ReservedWithinStock ==
    [][\A w \in Warehouses :
        Reserved(db', w) > Reserved(db, w) => Reserved(db', w) <= db'.item[w].qty]_vars

\* What the header of services.py says: both methods produce a valued cost for
\* every outbound movement.  Whatever is on hand can be issued, at a cost.
StockIsValued ==
    \A w \in Warehouses :
        db.item[w].qty > 0 =>
            IF Method(db) = "fifo"
            THEN /\ Layered(db, w) >= db.item[w].qty
                 /\ \A k \in LayersAt(db, w) : db.layer[k].qty > 0 => db.layer[k].priced
            ELSE db.item[w].priced
=============================================================================
