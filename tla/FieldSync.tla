------------------------------ MODULE FieldSync -----------------------------
(***************************************************************************)
(* The field app (src/mobile): diaries are saved in the device's SQLite    *)
(* database, queued, and uploaded to SubmitSyncBatch (modules/mfa) over a  *)
(* network that loses requests and answers or delivers a request after the *)
(* app has given it up.  Two syncs may run at once, the one that follows a *)
(* save and the one of the Sync now button; the app may be killed between  *)
(* any two of its writes, each of which is awaited.                        *)
(*                                                                         *)
(* What a diary says is left out: the server keeps the first text it gets  *)
(* of a record.  A record is one client_uuid; a day gets a second one if   *)
(* its diary is opened before the Today screen has read the first.         *)
(***************************************************************************)
EXTENDS Site

CONSTANTS
    DeviceRecords,  \* the diaries captured on this device
    BatchSize       \* MAX_BATCH_SIZE

ASSUME FieldSyncAssumption == DeviceRecords \subseteq DOMAIN FieldRecords /\ BatchSize \in Nat \ {0}

VARIABLES
    phone,  \* SQLite: daily_site_diaries, sync_queue_entries, conflict_records
    run,    \* the app: where each of its two syncs is
    late,   \* uploads the app gave up and the server may still get
    lost    \* history: records that were being saved or uploaded when the app was killed

fieldVars == <<phone, run, late, lost>>

Syncs == {"save", "button"}

Asleep == [at |-> "idle"]

LocalSyncQueueEntry(r) == [record |-> r, status |-> "pending"]

FieldInit ==
    /\ phone = [diary |-> [r \in DeviceRecords |-> "none"], queue |-> <<>>, conflicts |-> {}]
    /\ run = [t \in Syncs |-> Asleep]
    /\ late = {}
    /\ lost = {}

RecordOf(k) == phone.queue[k].record

RecordsOf(chunk) == [i \in DOMAIN chunk |-> RecordOf(chunk[i])]

\* What the server made of a record.
OutcomeOf(r) == CHOOSE s \in {db.sync[e].status : e \in EntriesOf(db, r)} : TRUE

Go(t, r) == run' = [run EXCEPT ![t] = r]

Mark(k, status) == phone' = [phone EXCEPT !.queue[k].status = status]

\* The button's handler refreshes the conflicts when its sync is over.
Over(t) == IF t = "button" THEN [at |-> "refresh"] ELSE Asleep

\* The next chunk of the entries that were pending when the sync began.
NextChunk(t, left) ==
    IF left = <<>> THEN Over(t)
    ELSE LET n == Min({BatchSize, Len(left)})
         IN [at |-> "marking", chunk |-> SubSeq(left, 1, n), n |-> 1,
             left |-> SubSeq(left, n + 1, Len(left))]

-----------------------------------------------------------------------------
(* Saving *)

\* handleSave, upsertLocalDiary: a save is kept whatever becomes of the upload.
HandleSave(r) ==
    /\ run["save"] = Asleep
    /\ Len(phone.queue) < MaxRows.queue
    /\ phone' = [phone EXCEPT !.diary[r] = "draft"]
    /\ Go("save", [at |-> "saved", record |-> r])
    /\ UNCHANGED <<vars, late, lost>>

InsertSyncQueueEntry ==
    /\ run["save"].at = "saved"
    /\ phone' = [phone EXCEPT !.queue = Append(@, LocalSyncQueueEntry(run["save"].record))]
    /\ lost' = lost \ {run["save"].record}
    /\ Go("save", [at |-> "begin"])
    /\ UNCHANGED <<vars, late>>

HandleManualSync ==
    /\ run["button"] = Asleep
    /\ Go("button", [at |-> "begin"])
    /\ UNCHANGED <<vars, phone, late, lost>>

-----------------------------------------------------------------------------
(* runSync *)

\* In the order in which they were queued.
PendingEntries ==
    LET pending == {k \in DOMAIN phone.queue : phone.queue[k].status = "pending"}
    IN [i \in 1..Cardinality(pending) |->
          CHOOSE k \in pending : Cardinality({j \in pending : j < k}) = i - 1]

RunSync(t, online) ==
    /\ run[t].at = "begin"
    /\ Go(t, IF online THEN NextChunk(t, PendingEntries) ELSE Over(t))
    /\ UNCHANGED <<vars, phone, late, lost>>

MarkSyncing(t) ==
    /\ run[t].at = "marking"
    /\ Mark(run[t].chunk[run[t].n], "syncing")
    /\ Go(t, IF run[t].n < Len(run[t].chunk) THEN [run[t] EXCEPT !.n = @ + 1]
             ELSE [run[t] EXCEPT !.at = "sent", !.n = 1])
    /\ UNCHANGED <<vars, late, lost>>

\* The upload reaches the server, whose answer is under way then.
Deliver(p, t) ==
    /\ run[t].at = "sent"
    /\ SubmitSyncBatch(p, RecordsOf(run[t].chunk))
    /\ Go(t, [run[t] EXCEPT !.at = "served"])
    /\ UNCHANGED <<phone, late, lost>>

DeliverLate(p, batch) ==
    /\ batch \in late
    /\ \/ SubmitSyncBatch(p, batch)
       \/ ~ Storable(db, batch) /\ UNCHANGED vars
    /\ late' = late \ {batch}
    /\ UNCHANGED <<phone, run, lost>>

\* The request or its answer is lost, not there after 15 seconds, or an error: a
\* batch that cannot be stored is sent again and again.
Fail(t, underWay) ==
    /\ run[t].at \in {"sent", "served"}
    /\ underWay => run[t].at = "sent" /\ Cardinality(late) < MaxRows.late
    /\ late' = IF underWay THEN late \union {RecordsOf(run[t].chunk)} ELSE late
    /\ Go(t, [run[t] EXCEPT !.at = "failing"])
    /\ UNCHANGED <<vars, phone, lost>>

\* Mutant: a failed upload is only logged.
PutBack_logged(t) ==
    /\ run[t].at = "failing"
    /\ phone' = phone
    /\ Go(t, NextChunk(t, run[t].left))
    /\ UNCHANGED <<vars, late, lost>>

PutBack(t) ==
    /\ run[t].at = "failing"
    /\ Mark(Head(run[t].chunk), "pending")
    /\ Go(t, IF Len(run[t].chunk) > 1 THEN [run[t] EXCEPT !.chunk = Tail(@)]
             ELSE NextChunk(t, run[t].left))
    /\ UNCHANGED <<vars, late, lost>>

GetAnswer(t) ==
    /\ run[t].at = "served"
    /\ Go(t, [run[t] EXCEPT !.at = "answered"])
    /\ UNCHANGED <<vars, phone, late, lost>>

NextResult(t) ==
    IF run[t].n < Len(run[t].chunk) THEN [run[t] EXCEPT !.at = "answered", !.n = @ + 1]
    ELSE NextChunk(t, run[t].left)

\* A result is filed under the first entry of the chunk with its client_record_id.
TakeResult(t) ==
    /\ run[t].at = "answered"
    /\ LET r == RecordOf(run[t].chunk[run[t].n])
           matching == CHOOSE i \in DOMAIN run[t].chunk :
                          /\ RecordOf(run[t].chunk[i]) = r
                          /\ \A j \in 1..(i - 1) : RecordOf(run[t].chunk[j]) # r
       IN /\ Mark(run[t].chunk[matching], OutcomeOf(r))
          /\ Go(t, IF OutcomeOf(r) = "synced" THEN [run[t] EXCEPT !.at = "marked"] ELSE NextResult(t))
    /\ UNCHANGED <<vars, late, lost>>

MarkDiarySynced(t) ==
    /\ run[t].at = "marked"
    /\ phone' = [phone EXCEPT !.diary[RecordOf(run[t].chunk[run[t].n])] = "synced"]
    /\ Go(t, NextResult(t))
    /\ UNCHANGED <<vars, late, lost>>

\* The server lists unresolved conflicts only, so none is ever taken off the
\* device's list.
RefreshConflicts ==
    /\ run["button"].at = "refresh"
    /\ phone' = [phone EXCEPT !.conflicts = @ \union {k \in DOMAIN db.conflict : db.conflict[k].status = "unresolved"}]
    /\ Go("button", Asleep)
    /\ UNCHANGED <<vars, late, lost>>

\* Offline, nothing is refreshed; a request that fails is not caught, and the
\* button stays disabled.
MissConflicts(next) ==
    /\ run["button"].at = "refresh"
    /\ Go("button", next)
    /\ UNCHANGED <<vars, phone, late, lost>>

-----------------------------------------------------------------------------
(* The app is killed and opened again *)

BeingSaved == IF run["save"].at = "saved" THEN {run["save"].record} ELSE {}

Kill ==
    /\ \E t \in Syncs : run[t] # Asleep
    /\ run' = [t \in Syncs |-> Asleep]
    /\ \E flying \in SUBSET {RecordsOf(run[t].chunk) : t \in {s \in Syncs : run[s].at = "sent"}} :
         /\ Cardinality(late \union flying) <= MaxRows.late
         /\ late' = late \union flying
    /\ lost' = lost \union BeingSaved
                 \union {RecordOf(k) : k \in {j \in DOMAIN phone.queue : phone.queue[j].status = "syncing"}}
    /\ UNCHANGED <<vars, phone>>

DeviceNext(p) ==
    \/ \E r \in DeviceRecords : HandleSave(r)
    \/ InsertSyncQueueEntry
    \/ HandleManualSync
    \/ \E t \in Syncs :
         \/ \E online \in BOOLEAN : RunSync(t, online)
         \/ MarkSyncing(t)
         \/ Deliver(p, t)
         \/ \E underWay \in BOOLEAN : Fail(t, underWay)
         \/ PutBack(t)
         \/ GetAnswer(t)
         \/ TakeResult(t)
         \/ MarkDiarySynced(t)
    \/ \E batch \in late : DeliverLate(p, batch)
    \/ RefreshConflicts
    \/ \E next \in {Asleep, [at |-> "stuck"]} : MissConflicts(next)
    \/ Kill
    \/ \E k \in 1..MaxRows.conflict : ResolveConflict(p, k) /\ UNCHANGED fieldVars

-----------------------------------------------------------------------------
(* Properties *)

FieldTypeOK ==
    /\ \A r \in DeviceRecords : phone.diary[r] \in {"none", "draft", "synced"}
    /\ \A k \in DOMAIN phone.queue : phone.queue[k].status \in {"pending", "syncing", "synced", "conflict"}
    /\ phone.conflicts \subseteq DOMAIN db.conflict

\* A sync that has yet to send this entry, to hear of it or to put it back.
InHand(k) ==
    \E t \in Syncs :
        /\ run[t].at \in {"marking", "sent", "served", "failing"}
        /\ k \in Range(run[t].chunk)

OnItsWay(r) ==
    \/ run["save"].at = "saved" /\ run["save"].record = r
    \/ \E k \in DOMAIN phone.queue :
         /\ RecordOf(k) = r
         /\ \/ phone.queue[k].status = "pending"
            \/ phone.queue[k].status = "syncing" /\ InHand(k)

\* What was saved on the device arrives: a draft the server has not got is queued
\* or in the hands of a running sync, through every lost request, lost answer, late
\* delivery and overlap of two syncs, and when the app is killed only what was
\* being saved or uploaded just then may be left behind.  What the device shows
\* as synced or in conflict is so at the server.
FieldWorkArrives ==
    /\ \A r \in DeviceRecords \ lost :
         phone.diary[r] = "draft" /\ EntriesOf(db, r) = {} => OnItsWay(r)
    /\ \A r \in DeviceRecords :
         phone.diary[r] = "synced" => EntriesOf(db, r) # {} /\ OutcomeOf(r) = "synced"
    /\ \A k \in DOMAIN phone.queue :
         phone.queue[k].status \in {"synced", "conflict"} =>
             EntriesOf(db, RecordOf(k)) # {} /\ phone.queue[k].status = OutcomeOf(RecordOf(k))
=============================================================================
