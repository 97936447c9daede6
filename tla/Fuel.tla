-------------------------------- MODULE Fuel ---------------------------------
(***************************************************************************)
(* Fuel (modules/fuel): tanks, purchases whose delivery is confirmed,      *)
(* issues to equipment, dip readings, consumption variance and the theft   *)
(* flags they raise.                                                       *)
(*                                                                         *)
(* One piece of equipment and one reporting period; an issue beyond        *)
(* SlipThreshold needs a countersigned slip, a difference beyond Tolerance *)
(* raises a flag.                                                          *)
(***************************************************************************)
EXTENDS Requests

CONSTANTS
    Litres,          \* quantities bought, issued or read on the dip stick
    MaxLitres,       \* bound: no tank is filled beyond it
    SlipThreshold,
    Tolerance

ASSUME FuelAssumption ==
    /\ Litres \subseteq Nat \ {0}
    /\ MaxLitres \in Nat /\ SlipThreshold \in Nat /\ Tolerance \in Nat

FuelTank == [level |-> 0]

FuelPurchase(t, n, confirmed) == [tank |-> t, litres |-> n, confirmed |-> confirmed]

FuelIssue(t, n) ==
    [tank |-> t, litres |-> n, needsSlip |-> n > SlipThreshold, countersigned |-> FALSE]

FuelBurnRateProfile(expected) == [expected |-> expected]

FuelVarianceRecord(actual, expected) == [actual |-> actual, expected |-> expected]

\* old: raised longer ago than threshold_days.
TheftFlag(reason) == [status |-> "open", reason |-> reason, old |-> FALSE]

FuelTables ==
    [tank |-> <<>>, fuelbuy |-> <<>>, fuelissue |-> <<>>, burnrate |-> <<>>, variance |-> <<>>, flag |-> <<>>]

\* What dip readings added to the recorded levels.
FuelPast == [dipped |-> 0]

-----------------------------------------------------------------------------

CreateTank(p) == Create(p, "tank", FuelTank)

\* _apply_confirmation locks the tank.  A session that holds its row already adds
\* to the level it loaded, any other to the committed one.
Fill(s, t, n) == [s EXCEPT !.tank[t].level = @ + n]

RecordPurchase(p, t, n, confirm) ==
    LET new == Insert(Seen(p), "fuelbuy", FuelPurchase(t, n, confirm))
    IN /\ Serving(p)
       /\ t \in Rows(p, "tank")
       /\ Room("fuelbuy")
       /\ confirm => Row(p, "tank", t).level + n <= MaxLitres
       /\ Commit(p, IF confirm THEN Fill(new, t, n) ELSE new)

\* Confirming a recorded purchase loads no tank before the lock.
FillTank(p, new, t, n) ==
    /\ db.tank[t].level + n <= MaxLitres
    /\ db' = Fill(IF Concurrent THEN Save(Seen(p), new) ELSE new, t, n)
    /\ Finish(p)
    /\ UNCHANGED past

\* Mutant: a delivery may be confirmed again.
ConfirmFuelDelivery_again(p, k) ==
    /\ Serving(p)
    /\ k \in Rows(p, "fuelbuy")
    /\ FillTank(p, [Seen(p) EXCEPT !.fuelbuy[k].confirmed = TRUE],
                Row(p, "fuelbuy", k).tank, Row(p, "fuelbuy", k).litres)

\* The purchase was loaded before the tank is locked.
ConfirmFuelDelivery(p, k) ==
    /\ Serving(p)
    /\ k \in Rows(p, "fuelbuy")
    /\ ~ Row(p, "fuelbuy", k).confirmed
    /\ FillTank(p, [Seen(p) EXCEPT !.fuelbuy[k].confirmed = TRUE],
                Row(p, "fuelbuy", k).tank, Row(p, "fuelbuy", k).litres)

Flagged(s, when, reason) == IF when THEN Insert(s, "flag", TheftFlag(reason)) ELSE s

Differs(a, b) == a - b > Tolerance \/ b - a > Tolerance

\* The dip reading becomes the level, flag or no flag.
ReconcileTank(p, t, dip) ==
    LET s == Seen(p)
        differs == Differs(dip, s.tank[t].level)
    IN /\ Serving(p)
       /\ t \in DOMAIN s.tank
       /\ differs => Room("flag")
       /\ Write(p, [Flagged(s, differs, "tank_level_mismatch") EXCEPT !.tank[t].level = dip])
       /\ Finish(p)
       /\ past' = [past EXCEPT !.dipped = @ + dip - s.tank[t].level]

\* record_issue, in the caller's transaction.
CanDraw(s, t, n) == t \in DOMAIN s.tank /\ n <= s.tank[t].level

Draw(s, t, n) == [Insert(s, "fuelissue", FuelIssue(t, n)) EXCEPT !.tank[t].level = @ - n]

RecordFuelIssue(p, t, n) ==
    /\ Serving(p)
    /\ Room("fuelissue")
    /\ CanDraw(Seen(p), t, n)
    /\ Commit(p, Draw(Seen(p), t, n))

CountersignIssue(p, k) ==
    Amend(p, "fuelissue", k,
          LAMBDA i : i.needsSlip /\ ~ i.countersigned,
          LAMBDA i : [i EXCEPT !.countersigned = TRUE])

\* The caller says there is no usage log; asking twice raises two flags.
FlagIssueWithoutUsageLog(p, k) ==
    /\ k \in Rows(p, "fuelissue")
    /\ Create(p, "flag", TheftFlag("no_usage_log"))

SetBurnRateProfile(p, expected) ==
    /\ Serving(p)
    /\ Commit(p, [Seen(p) EXCEPT !.burnrate = <<FuelBurnRateProfile(expected)>>])

IssuedLitres(s) == SumOf(s.fuelissue, "litres", DOMAIN s.fuelissue)

\* The record of the period is written anew on every request, a GET included.
CalculateFuelVariance(p) ==
    LET s == Seen(p)
    IN /\ Serving(p)
       /\ s.burnrate # <<>>
       /\ Commit(p, [s EXCEPT !.variance =
                        <<FuelVarianceRecord(IssuedLitres(s), s.burnrate[1].expected)>>])

CheckVarianceTheftFlag(p) ==
    LET s == Seen(p)
    IN /\ s.variance # <<>>
       /\ s.variance[1].expected > 0
       /\ Differs(s.variance[1].actual, s.variance[1].expected)
       /\ Create(p, "flag", TheftFlag("variance_threshold_exceeded"))

\* The review period passes: no request.
FlagAges(k) ==
    /\ k \in DOMAIN db.flag
    /\ ~ db.flag[k].old
    /\ db' = [db EXCEPT !.flag[k].old = TRUE]
    /\ UNCHANGED <<req, past>>

EscalateUnresolvedTheftFlags(p) ==
    LET s == Seen(p)
    IN /\ Serving(p)
       /\ Commit(p, [s EXCEPT !.flag = [k \in DOMAIN @ |->
            IF @[k].old /\ @[k].status \in {"open", "reviewing"}
            THEN [@[k] EXCEPT !.status = "escalated"] ELSE @[k]]])

TankRoutes(p) ==
    \/ CreateTank(p)
    \/ \E t \in 1..MaxRows.tank, n \in {0} \cup Litres : ReconcileTank(p, t, n)

FuelPurchaseRoutes(p) ==
    \/ \E t \in 1..MaxRows.tank, n \in Litres, c \in BOOLEAN : RecordPurchase(p, t, n, c)
    \/ \E k \in 1..MaxRows.fuelbuy : ConfirmFuelDelivery(p, k)

FuelIssueRoutes(p) ==
    \/ \E t \in 1..MaxRows.tank, n \in Litres : RecordFuelIssue(p, t, n)
    \/ \E k \in 1..MaxRows.fuelissue : CountersignIssue(p, k) \/ FlagIssueWithoutUsageLog(p, k)

FuelVarianceRoutes(p) ==
    \/ \E n \in {0, 1} : SetBurnRateProfile(p, n)
    \/ CalculateFuelVariance(p)
    \/ CheckVarianceTheftFlag(p)
    \/ EscalateUnresolvedTheftFlags(p)

FuelNext(p) ==
    \/ TankRoutes(p)
    \/ FuelPurchaseRoutes(p)
    \/ FuelIssueRoutes(p)
    \/ FuelVarianceRoutes(p)
    \/ \E k \in 1..MaxRows.flag : FlagAges(k)

-----------------------------------------------------------------------------
(* Properties *)

FuelTypeOK ==
    /\ \A t \in DOMAIN db.tank : db.tank[t].level \in Nat
    /\ \A k \in DOMAIN db.flag : db.flag[k].status \in {"open", "escalated"}

\* The tanks hold what confirmed deliveries brought, less what was issued (by this
\* module or by a production run), plus what dip readings put right: a delivery
\* counts once and an issue is never lost.  Holds while requests do not overlap.
FuelConserved ==
    SumOf(db.tank, "level", DOMAIN db.tank) =
        SumOf(db.fuelbuy, "litres", {k \in DOMAIN db.fuelbuy : db.fuelbuy[k].confirmed})
            - IssuedLitres(db) + past.dipped
=============================================================================
