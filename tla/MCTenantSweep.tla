---------------------------- MODULE MCTenantSweep ----------------------------
(***************************************************************************)
(* Two tenants for TenantSweep.  Tenant ta has two overdue approvals, one  *)
(* more that nobody can be escalated to, and two reorder levels of which   *)
(* l2 may raise; tenant tb has a reorder level.  The transfer x1 is for    *)
(* the run with two overlapping cutover sweeps.                            *)
(***************************************************************************)
EXTENDS TenantSweep

CONSTANTS ta, tb, w1, w2, a1, a2, a3, l1, l2, l3, x1

MCTenantOf == [i \in Items |-> IF i \in {l3, x1} THEN tb ELSE ta]

MCTaskOf == [i \in Items |-> IF i \in {l1, l2, l3} THEN "reorder"
                             ELSE IF i = x1 THEN "cutover" ELSE "escalate"]
=============================================================================
