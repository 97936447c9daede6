---------------------------- MODULE Manufacturing ----------------------------
(***************************************************************************)
(* Manufacturing (modules/mfg): work centers, bills of materials and       *)
(* production orders, whose completion draws components and fuel and       *)
(* receives the product in one transaction.                                *)
(*                                                                         *)
(* The stock rows of StockLedger are those of two items in one warehouse.  *)
(* A bill has one component; its expected scrap is part of the quantity.   *)
(***************************************************************************)
EXTENDS StockLedger, Fuel

WorkCenter(hasMachine) == [active |-> TRUE, machine |-> hasMachine]

Bom(product, component, per) ==
    [active |-> TRUE, product |-> product, component |-> component, per |-> per]

\* required is the snapshot of what the bill asked for at creation.
ProductionOrder(b, bom, n, center) ==
    [status |-> "draft", bom |-> b, product |-> bom.product, component |-> bom.component,
     planned |-> n, required |-> n * bom.per, center |-> center,
     produced |-> 0, scrapped |-> 0, consumed |-> 0, fuel |-> 0]

ManufacturingTables == [center |-> <<>>, bom |-> <<>>, prodorder |-> <<>>]

-----------------------------------------------------------------------------

CreateWorkCenter(p, hasMachine) == Create(p, "center", WorkCenter(hasMachine))

UpdateWorkCenter(p, k, active) ==
    Amend(p, "center", k, LAMBDA c : c.active # active, LAMBDA c : [c EXCEPT !.active = active])

CreateBom(p, product, component, per) ==
    /\ product # component
    /\ Create(p, "bom", Bom(product, component, per))

\* Header and lines of a bill are replaced.
ReplaceBom(p, b, per, active) ==
    Amend(p, "bom", b, LAMBDA r : TRUE,
          LAMBDA r : [r EXCEPT !.per = per, !.active = active])

\* center is 0 when none is chosen.
CreateProductionOrder(p, b, n, center) ==
    /\ b \in Rows(p, "bom")
    /\ Row(p, "bom", b).active
    /\ center # 0 => center \in Rows(p, "center") /\ Row(p, "center", center).active
    /\ Len(Seen(p).prodorder) = Len(db.prodorder)
    /\ Create(p, "prodorder", ProductionOrder(b, Row(p, "bom", b), n, center))

ReleaseOrder(p, o) == Turn(p, "prodorder", o, {"draft"}, "released")

StartOrder(p, o) == Turn(p, "prodorder", o, {"released"}, "in_progress")

CancelProduction(p, o) == Turn(p, "prodorder", o, {"draft", "released", "in_progress"}, "cancelled")

\* What the snapshot says for the quantity actually run, good and scrapped.
DefaultConsumption(r, produced, scrapped) == (r.required * (produced + scrapped)) \div r.planned

HasMachine(s, r) == r.center # 0 /\ s.center[r.center].machine

FuelPriceKnown(s, t) == \E k \in DOMAIN s.fuelbuy : s.fuelbuy[k].tank = t /\ s.fuelbuy[k].confirmed

\* Fuel out of a tank needs a machine to charge it to and a price.
CanBurn(s, r, fuel) ==
    fuel > 0 => CanDraw(s, 1, fuel) /\ HasMachine(s, r) /\ FuelPriceKnown(s, 1)

Burn(s, fuel) == IF fuel > 0 THEN Draw(s, 1, fuel) ELSE s

\* Finished goods have a cost when anything that went into them has.
RunHasCost(s, r, consumed, fuel) == fuel > 0 \/ (consumed > 0 /\ s.item[r.component].priced)

Finished(s, o, produced, scrapped, consumed, fuel, status) ==
    LET r == s.prodorder[o]
        drawn == Burn(IF consumed > 0 THEN IssueFrom(s, r.component, consumed) ELSE s, fuel)
        landed == Land(drawn, r.product, produced, RunHasCost(s, r, consumed, fuel))
    IN [Insert(landed, "batch", BatchNumber(o, produced, status)) EXCEPT
            !.prodorder[o].status = "done",
            !.prodorder[o].produced = produced, !.prodorder[o].scrapped = scrapped,
            !.prodorder[o].consumed = consumed, !.prodorder[o].fuel = fuel]

\* override is the consumption typed in, or 0 for what the snapshot says.
CompleteOrder(p, o, produced, scrapped, override, fuel, status) ==
    LET s == Seen(p)
        r == s.prodorder[o]
        consumed == IF override > 0 THEN override ELSE DefaultConsumption(r, produced, scrapped)
    IN /\ Serving(p)
       /\ o \in DOMAIN s.prodorder
       /\ r.status = "in_progress"
       /\ consumed > 0 => CanIssue(s, r.component, consumed)
       /\ CanBurn(s, r, fuel)
       /\ Book(p, Finished(s, o, produced, scrapped, consumed, fuel, status), produced - consumed)

CenterRoutes(p) ==
    \/ \E m \in BOOLEAN : CreateWorkCenter(p, m)
    \/ \E k \in 1..MaxRows.center, a \in BOOLEAN : UpdateWorkCenter(p, k, a)

BomRoutes(p) ==
    \/ \E f, c \in Warehouses, n \in {1, 2} : CreateBom(p, f, c, n)
    \/ \E b \in 1..MaxRows.bom, n \in {1, 2}, a \in BOOLEAN : ReplaceBom(p, b, n, a)

ProductionRoutes(p) ==
    \/ \E b \in 1..MaxRows.bom, n \in {1, 2}, c \in 0..MaxRows.center : CreateProductionOrder(p, b, n, c)
    \/ \E o \in 1..MaxRows.prodorder :
         \/ ReleaseOrder(p, o)
         \/ StartOrder(p, o)
         \/ CancelProduction(p, o)
         \/ \E scrapped \in {0, 1}, override \in {0, 1}, fuel \in {0, 1}, st \in {"released", "quarantined"} :
              CompleteOrder(p, o, 1, scrapped, override, fuel, st)

ManufacturingNext(p) ==
    \/ CenterRoutes(p)
    \/ BomRoutes(p)
    \/ ProductionRoutes(p)
    \/ \E w \in Warehouses, q \in Quantities : Receive(p, w, q)
    \/ CreateTank(p)
    \/ \E n \in Litres : RecordPurchase(p, 1, n, TRUE)

-----------------------------------------------------------------------------
(* Properties *)

ManufacturingTypeOK ==
    /\ \A o \in DOMAIN db.prodorder :
         db.prodorder[o].status \in {"draft", "released", "in_progress", "done", "cancelled"}
    /\ \A k \in DOMAIN db.batch : db.batch[k].order \in DOMAIN db.prodorder \cup {0}
=============================================================================
