------------------------------ MODULE Materials ------------------------------
(***************************************************************************)
(* The modules that move goods and money, composed over one database.  A   *)
(* behaviour exercises one part of the system, chosen at the start.        *)
(***************************************************************************)
EXTENDS VendorPortal, Sales, Manufacturing

CONSTANT Parts  \* the parts that are exercised

VARIABLE part

MaterialsTables ==
    Overlay(StockTables, Overlay(ProcurementTables, Overlay(VendorPortalTables, Overlay(LedgerTables,
        Overlay(SalesTables, Overlay(FuelTables, ManufacturingTables))))))

\* Two vendors are registered before they use the portal.
Prepared(p) ==
    IF p \in {"tendering", "vendors"} THEN [vendor |-> <<Vendor, Vendor>>] ELSE <<>>

Init ==
    /\ part \in Parts
    /\ db = Overlay(Prepared(part), MaterialsTables)
    /\ past = Overlay(StockPast, Overlay(ProcurementPast, FuelPast))
    /\ req = [p \in Workers |-> Idle]

Next ==
    /\ UNCHANGED part
    /\ \E p \in Workers :
         \/ Abandon(p) /\ ~ Resuming(p, "wasting")
         \/ part = "stock" /\ StockNext(p)
         \/ part = "traceability" /\ TraceabilityNext(p)
         \/ part = "sourcing" /\ SourcingNext(p)
         \/ part = "purchasing" /\ PurchasingNext(p)
         \/ part = "tendering" /\ TenderingNext(p)
         \/ part = "vendors" /\ VendorPortalNext(p)
         \/ part = "posting" /\ PostingNext(p)
         \/ part = "banking" /\ BankingNext(p)
         \/ part = "sales" /\ SalesNext(p)
         \/ part = "fuel" /\ FuelNext(p)
         \/ part = "production" /\ ManufacturingNext(p)

Spec == Init /\ [][Next]_<<part, vars>>

TypeOK ==
    /\ StockTypeOK
    /\ ProcurementTypeOK
    /\ VendorPortalTypeOK
    /\ LedgerTypeOK
    /\ SalesTypeOK
    /\ FuelTypeOK
    /\ ManufacturingTypeOK

\* What is bought and whom it is paid to was approved.
OrdersAndPayeesApproved ==
    /\ PoStatusFollowsSteps
    /\ BankDetailsAreApproved
=============================================================================
