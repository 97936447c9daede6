----------------------------- MODULE MCMaterials -----------------------------
(***************************************************************************)
(* A small tenant for module Materials.                                    *)
(***************************************************************************)
EXTENDS Materials, TLC

CONSTANTS yard, site, w1, w2

Symmetry == Permutations({yard, site})

MCMaxRows ==
    [itemcode |-> 1, batch |-> 1, serial |-> 1, reorder |-> 1,
     vendor |-> 1, doc |-> 1, rfq |-> 1, invitation |-> 1, quotation |-> 1, pr |-> 2, po |-> 1,
     bankchange |-> 2, acknowledgment |-> 1, upload |-> 1,
     grn |-> 2, match |-> 1, performance |-> 1, rating |-> 1,
     company |-> 2, policy |-> 1, entry |-> 2, ap |-> 2, ar |-> 1, bank |-> 2, forecast |-> 1,
     statement |-> 1,
     so |-> 1, delivery |-> 2, invoice |-> 2, payment |-> 2,
     tank |-> 1, fuelbuy |-> 2, fuelissue |-> 2, flag |-> 1,
     center |-> 1, bom |-> 1, prodorder |-> 1]

MCOrderLines == {<<TRUE, TRUE>>, <<FALSE>>}

MCChartOfAccounts ==
    [cash |-> "asset", receivable |-> "asset", payable |-> "liability", revenue |-> "revenue",
     expense |-> "expense", vat |-> "liability", inventory |-> "asset", receivable2 |-> "asset"]

MCSettings == {SalesSettings("receivable", 25, TRUE), SalesSettings("receivable2", 0, FALSE)}

MCOneSetting == {SalesSettings("receivable", 0, TRUE)}
=============================================================================
