------------------------------- MODULE Survey -------------------------------
(***************************************************************************)
(* Records that later money rests on: surveyed volumes and as-built        *)
(* records (modules/svy), quarry, explosives and blasting (modules/pq),    *)
(* and completed assets in their defects liability period (modules/ast).   *)
(*                                                                         *)
(* Readings, coordinates, alignments, sections, production and haulage     *)
(* records, reports, inspections, warranties and lifecycle costs are       *)
(* filed.                                                                  *)
(***************************************************************************)
EXTENDS Requests

CONSTANT Charges  \* quantity of an explosives entry

ASSUME SurveyAssumption == Charges \subseteq Nat

DesignSurface == [approved |-> FALSE]

\* status is "official" or "preliminary", for good; surface is 0 or the one it names.
EarthworksVolume(surface, status) == [status |-> status, surface |-> surface, billed |-> FALSE]

AsBuiltRecord == [locked |-> FALSE, data |-> 0]

Stockpile == [quantity |-> 0]

ExplosivesEntry(type, quantity) == [type |-> type, quantity |-> quantity]

ExplosivesCorrection(entry, quantity) == [entry |-> entry, quantity |-> quantity]

BlastingRecord(drilling, reference) == [status |-> "planned", drilling |-> drilling, reference |-> reference]

Asset == [name |-> 0]

\* next_due_date in periods of frequency_days; 0 for none.
MaintenanceSchedule(recurring) == [recurring |-> recurring, due |-> 1]

DefectsLiabilityRecord == [released |-> FALSE]

DefectItem(dlp) == [status |-> "open", dlp |-> dlp]

SurveyTables ==
    [surface |-> <<>>, volume |-> <<>>, asbuilt |-> <<>>, stockpile |-> <<>>, explosive |-> <<>>,
     correction |-> <<>>, drilling |-> <<>>, blast |-> <<>>, asset |-> <<>>, schedule |-> <<>>,
     dlp |-> <<>>, defect |-> <<>>]

SvyPapers == {"control_point", "gps_coordinate", "level_reading", "cross_section", "road_alignment"}

PqPapers == {"crusher_production", "asphalt_batch", "concrete_batch", "quarry_production", "haulage",
             "production_report"}

AstPapers == {"asset_inspection", "warranty", "lifecycle_cost"}

-----------------------------------------------------------------------------
(* Survey *)

ApproveDesignSurface(p, k) ==
    Amend(p, "surface", k, LAMBDA s : ~ s.approved, LAMBDA s : [s EXCEPT !.approved = TRUE])

\* Official if the surface it names is approved by then; not revisited.
CalculateEarthworksVolume(p, k) ==
    Create(p, "volume",
           EarthworksVolume(k, IF k # 0 /\ Row(p, "surface", k).approved THEN "official" ELSE "preliminary"))

SubmitForBilling(p, k) ==
    Amend(p, "volume", k, LAMBDA v : v.status = "official" /\ ~ v.billed, LAMBDA v : [v EXCEPT !.billed = TRUE])

LockAsBuilt(p, k) ==
    Amend(p, "asbuilt", k, LAMBDA r : ~ r.locked, LAMBDA r : [r EXCEPT !.locked = TRUE])

UpdateAsBuilt(p, k, data) ==
    Amend(p, "asbuilt", k, LAMBDA r : ~ r.locked, LAMBDA r : [r EXCEPT !.data = data])

SurveyRoutes(p) ==
    \/ Create(p, "surface", DesignSurface)
    \/ \E k \in 1..MaxRows.surface : ApproveDesignSurface(p, k)
    \/ \E k \in {0} \union Rows(p, "surface") : CalculateEarthworksVolume(p, k)
    \/ \E k \in 1..MaxRows.volume : SubmitForBilling(p, k)
    \/ Create(p, "asbuilt", AsBuiltRecord)
    \/ \E k \in 1..MaxRows.asbuilt : LockAsBuilt(p, k) \/ \E data \in 1..2 : UpdateAsBuilt(p, k, data)

-----------------------------------------------------------------------------
(* Quarry and explosives *)

\* get_explosives_balance; nothing stops an issuance beyond it, and corrections
\* do not enter.
ExplosivesBalance(s) ==
    SumOf(s.explosive, "quantity", {e \in DOMAIN s.explosive : s.explosive[e].type = "procurement"})
      - SumOf(s.explosive, "quantity", {e \in DOMAIN s.explosive : s.explosive[e].type = "issuance"})

\* requires_regulatory_notification is the client's to say.
MarkBlastComplete(p, k, notified) ==
    Amend(p, "blast", k, LAMBDA b : b.status = "planned" /\ (notified => b.reference),
          LAMBDA b : [b EXCEPT !.status = "completed"])

ReconcileStockpile(p, k, counted) ==
    Amend(p, "stockpile", k, LAMBDA s : TRUE, LAMBDA s : [s EXCEPT !.quantity = counted])

QuarryRoutes(p) ==
    \/ \E type \in {"procurement", "issuance"}, q \in Charges : Create(p, "explosive", ExplosivesEntry(type, q))
    \/ \E e \in Rows(p, "explosive"), q \in Charges : Create(p, "correction", ExplosivesCorrection(e, q))
    \/ Create(p, "drilling", [status |-> "drilled"])
    \/ \E d \in Rows(p, "drilling"), ref \in BOOLEAN : Create(p, "blast", BlastingRecord(d, ref))
    \/ \E k \in 1..MaxRows.blast, notified \in BOOLEAN : MarkBlastComplete(p, k, notified)
    \/ Create(p, "stockpile", Stockpile)
    \/ \E k \in 1..MaxRows.stockpile, q \in Charges : ReconcileStockpile(p, k, q)

-----------------------------------------------------------------------------
(* Assets *)

UpdateAssetAttributes(p, k, name) ==
    Amend(p, "asset", k, LAMBDA a : TRUE, LAMBDA a : [a EXCEPT !.name = name])

\* A recurring task falls due one period after it last did; a one-off never again.
CompleteMaintenanceTask(p, k) ==
    Amend(p, "schedule", k, LAMBDA m : m.due < 3,
          LAMBDA m : [m EXCEPT !.due = IF m.recurring /\ m.due # 0 THEN @ + 1 ELSE 0])

ResolveDefect(p, k) == Turn(p, "defect", k, {"open"}, "resolved")

VerifyDefect(p, k) == Turn(p, "defect", k, {"resolved"}, "verified")

DefectsOf(s, d) == {k \in DOMAIN s.defect : s.defect[k].dlp = d}

\* Defects can be raised after the release as well.
ReleaseDlpRetention(p, d) ==
    Amend(p, "dlp", d,
          LAMBDA r : ~ r.released /\ \A k \in DefectsOf(Seen(p), d) : Row(p, "defect", k).status = "verified",
          LAMBDA r : [r EXCEPT !.released = TRUE])

AssetRoutes(p) ==
    \/ Create(p, "asset", Asset)
    \/ \E k \in 1..MaxRows.asset, name \in 1..2 : UpdateAssetAttributes(p, k, name)
    \/ \E k \in Rows(p, "asset") :
         \/ \E recurring \in BOOLEAN : Create(p, "schedule", MaintenanceSchedule(recurring))
         \/ Create(p, "dlp", DefectsLiabilityRecord)
    \/ \E k \in 1..MaxRows.schedule : CompleteMaintenanceTask(p, k)
    \/ \E d \in Rows(p, "dlp") : Create(p, "defect", DefectItem(d)) \/ ReleaseDlpRetention(p, d)
    \/ \E k \in 1..MaxRows.defect : ResolveDefect(p, k) \/ VerifyDefect(p, k)

FileForSurvey(p) == \E kind \in SvyPapers \union PqPapers \union AstPapers : File(p, kind)

-----------------------------------------------------------------------------
(* Properties *)

SurveyTypeOK ==
    /\ \A k \in DOMAIN db.volume : db.volume[k].status \in {"official", "preliminary"}
    /\ \A k \in DOMAIN db.blast : db.blast[k].drilling \in DOMAIN db.drilling
    /\ \A k \in DOMAIN db.defect : db.defect[k].status \in {"open", "resolved", "verified"}

\* What was billed was surveyed against a design that was approved, and still is,
\* whenever the volume was calculated (calculate_earthworks_volume,
\* submit_for_billing).
BilledWasApproved ==
    \A k \in DOMAIN db.volume :
        db.volume[k].billed => db.volume[k].surface # 0 /\ db.surface[db.volume[k].surface].approved
=============================================================================
