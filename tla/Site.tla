-------------------------------- MODULE Site --------------------------------
(***************************************************************************)
(* The site: daily diaries and work done (modules/exe), the fleet          *)
(* (modules/eqp), and the batches that field devices send when they are    *)
(* online again (modules/mfa).                                             *)
(*                                                                         *)
(* Usage, weather, visitors, pours, inspections, GPS positions, repairs,   *)
(* spare parts and running hours are filed.  A device keeps its records    *)
(* and sends any of them again until it knows that they arrived.           *)
(***************************************************************************)
EXTENDS Requests, SequencesExt

CONSTANTS
    FieldRecords,  \* client_record_id -> [type, key, storable]: what devices captured
    SiteProjects,
    Quantities,    \* quantity of work done
    WorkContracted \* contracted_quantity that clients state

ASSUME SiteAssumption == Quantities \subseteq Nat /\ WorkContracted \in Nat

\* One diary per project and day (uq_exe_diaries_project_date); text is its wording.
DailySiteDiary(day) == [status |-> "draft", day |-> day, text |-> 0, countersigned |-> FALSE]

WorkCompletedRecord(quantity, exceeds) == [quantity |-> quantity, exceeds |-> exceeds]

SiteIssue == [status |-> "open", overdue |-> FALSE]

Equipment(project) == [project |-> project]

MaintenanceRecord == [status |-> "scheduled"]

DowntimeEvent == [status |-> "open"]

\* from is where the equipment was when the transfer was asked for; due, has the
\* cutover date come; applied, cutover_applied_at.
EquipmentTransfer(e, from, to) ==
    [status |-> "pending", equipment |-> e, from |-> from, to |-> to, due |-> FALSE, applied |-> FALSE]

SyncQueueEntry(r) == [status |-> "pending", record |-> r, server |-> 0]

ConflictRecord(entry) == [status |-> "unresolved", entry |-> entry]

\* A near miss or an asset inspection that came from a device.
FieldReport(type, key) == [type |-> type, key |-> key]

SiteTables ==
    [diary |-> <<>>, workdone |-> <<>>, issue |-> <<>>, machine |-> <<>>, maintenance |-> <<>>,
     downtime |-> <<>>, move |-> <<>>, sync |-> <<>>, conflict |-> <<>>, report |-> <<>>, fieldasset |-> <<>>]

SitePapers ==
    {"diary_amendment", "site_media", "weather", "progress_entry", "visitor_log",
     "equipment_usage", "labor_usage", "concrete_pour", "inspection_log"}

FleetPapers == {"gps_position", "operator_assignment", "spare_part", "repair", "utilization"}

-----------------------------------------------------------------------------
(* Diaries *)

DiaryOf(s, day) == {k \in DOMAIN s.diary : s.diary[k].day = day}

CreateDiary(p, day) == DiaryOf(db, day) = {} /\ Create(p, "diary", DailySiteDiary(day))

UpdateDiary(p, k, text) ==
    Amend(p, "diary", k, LAMBDA d : d.status # "signed", LAMBDA d : [d EXCEPT !.text = text])

SignDiary(p, k) == Turn(p, "diary", k, {"draft"}, "signed")

CountersignDiary(p, k) ==
    Amend(p, "diary", k, LAMBDA d : d.status = "signed" /\ ~ d.countersigned,
          LAMBDA d : [d EXCEPT !.countersigned = TRUE])

\* Over the contracted quantity is recorded and flagged, unless a variation order
\* is named.
RecordWorkCompleted(p, quantity, varied) ==
    LET before == SumOf(Seen(p).workdone, "quantity", Rows(p, "workdone"))
    IN Create(p, "workdone", WorkCompletedRecord(quantity, before + quantity > WorkContracted /\ ~ varied))

\* due_date goes by.
IssueFallsDue(p, k) ==
    Amend(p, "issue", k, LAMBDA i : ~ i.overdue, LAMBDA i : [i EXCEPT !.overdue = TRUE])

EscalateOverdueIssues(p) ==
    /\ Serving(p)
    /\ Commit(p, [Seen(p) EXCEPT !.issue =
         [k \in DOMAIN @ |-> IF @[k].overdue /\ @[k].status = "open"
                             THEN [@[k] EXCEPT !.status = "escalated"] ELSE @[k]]])

DiaryRoutes(p) ==
    \/ \E day \in {r.key : r \in {f \in {FieldRecords[r] : r \in DOMAIN FieldRecords} : f.type = "diary"}} :
         CreateDiary(p, day)
    \/ \E k \in 1..MaxRows.diary :
         \/ \E text \in {1, 2} : UpdateDiary(p, k, text)
         \/ SignDiary(p, k)
         \/ CountersignDiary(p, k)

WorkRoutes(p) ==
    \/ \E q \in Quantities, varied \in BOOLEAN : RecordWorkCompleted(p, q, varied)
    \/ Create(p, "issue", SiteIssue)
    \/ \E k \in 1..MaxRows.issue : IssueFallsDue(p, k)
    \/ EscalateOverdueIssues(p)

-----------------------------------------------------------------------------
(* The fleet *)

WithCutover(s, k) ==
    [s EXCEPT !.machine[s.move[k].equipment].project = s.move[k].to, !.move[k].applied = TRUE]

RequestTransfer(p, e, to) ==
    /\ e \in Rows(p, "machine")
    /\ Create(p, "move", EquipmentTransfer(e, Row(p, "machine", e).project, to))

\* A cutover dated today or earlier is applied by the approval.
ApproveTransfer(p, k, today) ==
    LET s == [Seen(p) EXCEPT !.move[k] = [@ EXCEPT !.status = "approved", !.due = today]]
    IN /\ Serving(p)
       /\ k \in Rows(p, "move")
       /\ Row(p, "move", k).status = "pending"
       /\ Commit(p, IF today THEN WithCutover(s, k) ELSE s)

CutoverDayComes(p, k) ==
    Amend(p, "move", k, LAMBDA m : m.status = "approved" /\ ~ m.due, LAMBDA m : [m EXCEPT !.due = TRUE])

\* due_unapplied_transfer_cutovers
DueCutovers(s) == {k \in DOMAIN s.move : s.move[k].status = "approved" /\ s.move[k].due /\ ~ s.move[k].applied}

\* What the daily task does for the tenant, in an order the query leaves open.
ApplyTransferCutover(p) ==
    \E k \in DueCutovers(Seen(p)) : Serving(p) /\ Commit(p, WithCutover(Seen(p), k))

FleetRoutes(p) ==
    \/ \E project \in SiteProjects : Create(p, "machine", Equipment(project))
    \/ \E e \in Rows(p, "machine") :
         \/ Create(p, "maintenance", MaintenanceRecord)
         \/ Create(p, "downtime", DowntimeEvent)
         \/ \E to \in SiteProjects : RequestTransfer(p, e, to)
    \/ \E k \in 1..MaxRows.maintenance : Turn(p, "maintenance", k, {"scheduled"}, "completed")
    \/ \E k \in 1..MaxRows.downtime : Turn(p, "downtime", k, {"open"}, "closed")
    \/ \E k \in 1..MaxRows.move :
         \/ \E today \in BOOLEAN : ApproveTransfer(p, k, today)
         \/ CutoverDayComes(p, k)
    \/ ApplyTransferCutover(p)

-----------------------------------------------------------------------------
(* Batches from field devices *)

\* _apply_sync_entry: what the server makes of a record; one that it checks and does
\* not accept becomes a conflict for a person to resolve.
Applied(s, r) ==
    LET f == FieldRecords[r]
        n == Len(s.sync) + 1
        synced(t, row) == [Insert(s, t, row) EXCEPT
                             !.sync = Append(@, [SyncQueueEntry(r) EXCEPT !.status = "synced", !.server = Len(s[t]) + 1])]
        refused == [s EXCEPT !.sync = Append(@, [SyncQueueEntry(r) EXCEPT !.status = "conflict"]),
                             !.conflict = Append(@, ConflictRecord(n))]
    IN CASE f.type = "diary" /\ DiaryOf(s, f.key) = {} -> synced("diary", DailySiteDiary(f.key))
         [] f.type = "near_miss" -> synced("report", FieldReport(f.type, f.key))
         [] f.type = "inspection" /\ s.fieldasset # <<>> -> synced("report", FieldReport(f.type, f.key))
         [] OTHER -> refused

EntriesOf(s, r) == {e \in DOMAIN s.sync : s.sync[e].record = r}

\* client_record_id: a record sent again is answered with what became of it.
Accept(s, r) == IF EntriesOf(s, r) # {} THEN s ELSE Applied(s, r)

\* A record that passes the checks and that the database refuses all the same: a
\* number out of range, a text that is no date.
Breaks(s, r) ==
    /\ EntriesOf(s, r) = {} /\ ~ FieldRecords[r].storable
    /\ Last(Applied(s, r).sync).status = "synced"

\* After such a record nothing can be committed, the conflict that was to tell of it
\* included: the request is answered with an error and the batch leaves no trace.
Storable(s, batch) ==
    \A i \in DOMAIN batch : ~ Breaks(FoldLeft(Accept, s, SubSeq(batch, 1, i - 1)), batch[i])

\* The batch is one commit.
SubmitSyncBatch(p, batch) ==
    /\ Serving(p)
    /\ Len(Seen(p).sync) + Len(batch) <= MaxRows.sync
    /\ Storable(Seen(p), batch)
    /\ Commit(p, FoldLeft(Accept, Seen(p), batch))

ResolveConflict(p, k) == Turn(p, "conflict", k, {"unresolved"}, "resolved")

SyncRoutes(p) ==
    \/ \E r, q \in DOMAIN FieldRecords : SubmitSyncBatch(p, <<r, q>>)
    \/ \E k \in 1..MaxRows.conflict : ResolveConflict(p, k)
    \/ Create(p, "fieldasset", [kind |-> "asset"])

FileAtSite(p) == \E kind \in SitePapers \union FleetPapers : File(p, kind)

FieldNext(p) == DiaryRoutes(p) \/ SyncRoutes(p)

-----------------------------------------------------------------------------
(* Properties *)

SiteTypeOK ==
    /\ \A k \in DOMAIN db.diary : db.diary[k].status \in {"draft", "signed"}
    /\ \A k \in DOMAIN db.diary : db.diary[k].countersigned => db.diary[k].status = "signed"
    /\ \A k \in DOMAIN db.move : db.move[k].applied => db.move[k].status = "approved" /\ db.move[k].due
    /\ \A k \in DOMAIN db.sync : db.sync[k].status \in {"synced", "conflict"}

\* What a device captured offline becomes at most one server record or one conflict,
\* never both, however often and in whatever batches it is sent, and every entry
\* that was stored is one or the other (submit_sync_batch).  Two devices' diaries
\* of one day never make two.
FieldRecordsAccounted ==
    /\ \A r \in DOMAIN FieldRecords : Cardinality(EntriesOf(db, r)) <= 1
    /\ \A e \in DOMAIN db.sync :
         Cardinality({k \in DOMAIN db.conflict : db.conflict[k].entry = e})
            = IF db.sync[e].status = "conflict" THEN 1 ELSE 0
    /\ Len(db.report) = Cardinality({e \in DOMAIN db.sync :
                           db.sync[e].status = "synced" /\ FieldRecords[db.sync[e].record].type # "diary"})
    /\ \A j, k \in DOMAIN db.diary : db.diary[j].day = db.diary[k].day => j = k
=============================================================================
