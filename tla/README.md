# SiteForge: a verification project

TLA+ modules, TLC configurations and TLAPS proofs for SiteForge, the
multi-tenant construction ERP of this repository: a Flask monolith over
PostgreSQL with row-level security, celery workers, a React web client and an
offline-first mobile client.

The bugs that matter in such a program are rarely in one function. They are in
two requests that overlap (gunicorn runs four worker processes, transactions are
READ COMMITTED and, with two exceptions, no row is ever locked), in a
transaction that ends earlier than its author thought, in a process that dies
between two commits, and in long sequences of legal calls. That is what is
modelled here.

## 1. Inventory

Paths are relative to `backend/app` unless they say otherwise.

| Component | State | Operations | Talks to | What is hard | What makes it correct | Module |
|---|---|---|---|---|---|---|
| Running approvals (`workflow/`) | `workflow_instances`, `workflow_actions` | start, approve, reject (end or return for rework), delegate, cancel, comment, escalate by hand or by the hourly task | started and read by procurement, contracts, estimating, safety; the celery sweep | overlapping decisions on a stale row, skipping + parallel groups + rework, escalation racing a decision, delegations that outlive their pass | no step skipped, nobody decides who may not, outcome final, somebody can always act, overdue approvals attended | `WorkflowEngine`, `ApprovalContract` |
| Workflow definitions (`workflow/`) | `workflow_definitions`, `workflow_steps` | create, edit, activate, deactivate | instances | two activations at once; an edit racing the first start | steps fixed once used | `Approvals` |
| Scheduled sweeps (`workflow/tasks.py`, `modules/inv/tasks.py`, `modules/eqp/tasks.py`), tenant context (`middleware/tenant_context.py`) | app.tenant_id of a transaction; due approvals, reorder levels, transfers | hourly escalation, daily reorder requests, daily cutovers | every tenant's rows, the beat schedule in `extensions.py` | a commit or rollback ends the context; one tenant's failure; overlap; death of a worker | rows written under their own tenant, batches whole, everyone served, nothing applied twice | `TenantSweep` |
| Inventory (`modules/inv`) | stock items, FIFO layers, transfers, reservations, counts, waste, item codes, batches, serial numbers, reorder levels | receive, issue, waste, reserve, release, transfer, two returns, count, adjust, valuation method | procurement, sales and manufacturing receive and issue through it | read-modify-write of balances, balance and layers kept apart, two commits for waste | goods neither created nor lost, everything valued, reservations covered | `StockLedger` |
| Procurement (`modules/prc`), commitments (`commitments/`) | vendors, RFQs, purchase requests, orders, approval steps, receipt notes, invoice matches | submit, approve, decide a step, issue, confirm receipt, match | workflow engine, inventory | receipt committed before the stock; a request whose approval was rejected | orders issued only when every step agreed; stock arrives once per confirmed line | `Procurement` |
| Vendor portal (`modules/vnp`) | quotations, acknowledgments, uploads, bank changes | quote, revise, decline, acknowledge, upload, ask for a bank change; approve it | procurement | a second bank change while one is open | a vendor is paid where the company agreed | `VendorPortal` |
| Finance (`modules/fin`) | journal entries, payables, receivables, policies, bank lines | post, match, correct by hand, report | all commercial modules | entry and invoice in two commits; a budget read before it is used | entries balance, budgets hold, lines matched once | `GeneralLedger` |
| Sales (`modules/sal`) | settings, orders, deliveries, invoices, payments | confirm, cancel, deliver, invoice, pay | inventory, finance | a locked row whose loaded copy is stale | never more delivered than ordered nor more paid than owed; ledger and invoices agree | `Sales`, `MCOverlap` |
| Fuel (`modules/fuel`) | tanks, purchases, issues, flags | buy, confirm, issue, countersign, dip, flag, escalate | manufacturing, equipment | levels rewritten by four handlers | litres conserved | `Fuel` |
| Manufacturing (`modules/mfg`) | work centres, bills of material, production orders | release, start, complete, cancel | inventory, fuel | one transaction over three modules | all or nothing | `Manufacturing` |
| Workforce (`modules/wfm`) | employment, attendance, timesheets, leave, payroll | record, approve, return, lock, generate, finalize | finance | runs whose periods overlap; sheets that change | each timesheet paid once, as approved | `Workforce` |
| Members and roles (`org/`), sign-in (`auth/`), subscriptions (`billing/`), sign-up and platform (`onboarding/`, `platform_admin/`) | users, sessions, reset tokens, login index, invitations, roles, plan | login, refresh, change, reset; invite, accept, suspend, remove, reactivate; webhook, trial, grant; suspend a tenant | everything | refresh outliving a password; counted seats; removal and return | sessions end with the password; the index names members; seats within the plan | `Accounts` |
| Bids, tenders, estimates (`modules/bdc`, `tbm`, `est`) | leads, opportunities, tenders, steps, estimate versions, budgets | move, decide, submit, reopen, price, generate, revise | contracts, workflow | reopening in the middle of an approval; versions | steps in order; one submitted version | `Bidding` |
| Assistant (`modules/ai`) | extraction jobs | extract, review, reject, commit | estimates | what a machine read gets into an estimate | once, and as reviewed | `Assistant` |
| Contracts (`modules/ctm`), billing (`modules/bil`) | contracts, amendments, retention, advances, certificates, variations, tracking, revenue | award, amend, finalize, bill, approve, certify, pay | workflow, client portal | cumulative quantities over drafts and rejections; effects that wait | no more billed than contracted and varied; amendments add up | `Contracts` |
| Client, subcontractor and vendor accounts (`modules/clp`, `scp`, `vnp`, `auth/portal_reset.py`), data subjects (`dsar/`) | portal users, sessions, tokens, assignments, client actions, requests | login, refresh, reset, decide, ask; verify, export, erase | contracts, billing | a decision committed in three steps; erasure with live sessions | access ends; clients decide only their own | `Portals` |
| Subcontracts (`modules/sub`) | agreements, measurement, certificates, charges, retention, claims | verify, certify, deduct, release, review | subcontractor portal | retention set up late | certificates add up | `Subcontracts` |
| Site diaries (`modules/exe`), fleet (`modules/eqp`), mobile sync (`modules/mfa`) | diaries, work, issues; transfers, maintenance; queue, conflicts | sign, record, escalate; transfer, cut over; submit a batch, resolve | devices, billing | batches repeated, in any order | every record arrives once or is a visible conflict | `Site` |
| Quality (`modules/qms`), safety (`modules/hse`) | inspections, non-conformances, actions, permits, incidents | disposition, complete, verify, close; issue, activate | workflow | closing what was not verified | closed means verified | `Safety`, `Approvals` |
| Survey (`modules/svy`), quarry (`modules/pq`), assets (`modules/ast`) | surfaces, volumes, as-builts; explosives, blasts; schedules, defects | approve, bill, lock; correct, blast; complete, release | billing | money resting on a record that can change | billed from approved designs only | `Survey` |
| Documents (`documents/`), notifications, projects | documents and objects, attachments; notices, preferences; status | two-phase upload, delete, attach; notify, read; update | object storage, portals | upload in several requests; deletion of what is attached | attachments keep their file | `Papers` |
| Planning (`modules/pln`), project control (`modules/pc`), dashboard (`modules/exd`) | activities, dependencies, baselines, delays, indices | schedule, add a dependency, take a baseline, forecast | | float over four kinds of dependency | the critical path is the longest | `Schedule` |
| Mobile app (`mobile/src/sync`, `mobile/src/db`, diary and Today screens) | local diaries, sync queue, known conflicts | save, sync, refresh conflicts | mobile sync | two syncs at once; lost or late requests; the app killed while uploading | what is saved arrives, unless the app is killed while uploading it | `FieldSync` |
| Web frontend, search, migrations | none of their own | | | | | - |

`PROJECT.json` lists every component with its status and every hazard found so
far at its line, also those no property covers.

## 2. How a request is modelled

SQLAlchemy loads rows, the handler computes on the loaded objects, and
`db.session.commit()` writes the columns that changed. Between the load and the
commit other processes may commit. `Requests`, which all modules but the engine
and the sweeps extend, says this once:

- `db` is the committed database: tables are sequences of rows, rows are records.
  `req[p]` is what worker `p` is doing. `past` is history that no handler reads.
- A handler reads `Seen(p)`: the database itself, or with `Concurrent = TRUE` the
  copy it loaded (`Load`). `Commit` writes its new rows back; with overlap it merges
  only the columns in which the new row differs from the one it read and appends
  the rows it inserted (`Save`, `MergeTable`, `MergeRow`).
- A handler that commits more than once uses `CommitThen(p, new, stage, todo)`: the
  first commit, then a step of its own for what is left (`Resuming`). `Abandon`
  covers every refusal and every process that dies between commits: what was
  committed stays, the rest never happens.
- Handlers of a common shape are written with `Create` (insert a row), `Turn` (a
  status from a set to a value), `Amend` (change a row that satisfies a condition)
  and `File` (insert a row that no handler ever changes or reads to decide: only
  its kind is kept, in the table `filed`).
- `MaxRows[t]` bounds each table.

With `Concurrent = FALSE` the models are what the repository's tests exercise, over
every sequence of calls instead of a few, and still with a death between any two
commits. `WorkflowEngine` has the same two steps with its own variables
(`inst`, `log`, `req[p].seen`).

## 3. Modules

### WorkflowEngine, ApprovalContract, WorkflowEngine_proofs

`WorkflowEngine` is one approval. `inst` is its row, `log` the set of its
`workflow_actions`, `req` the requests in flight, `granted` a history variable
used by one property. The actions carry the names of the service functions:
`Start`, `Approve`, `Reject`, `Delegate`, `Cancel`, `Comment`, `Escalate`
(shared by the route and the scheduler), `SweepBegin` for the scheduler's query.
`DueDatePasses` is the clock. A definition is a constant set of steps; amounts,
thresholds, roles, parallel numbers, timeouts, escalation targets and rework
steps are all kept. Dates are abstracted to `none / running / expired`,
`"fresh"` marks a due date just computed. A delegation is looked up by its own
query, later than the row, so `ActionableSteps` reads the log as it is at the
commit. Not kept: comments, client addresses, notifications.

`ApprovalContract` says what an approval promises the module that started it:
it visits the steps of its route in order, is sent back only to earlier ones, is
approved only at the last, and never changes again. `Contract` in
`WorkflowEngine` is the refinement mapping: the status, the applicable step
numbers and the current number.

### TenantSweep, TenantSweep_proofs

The celery tasks. `run[w]` is a worker's task and the state of its database
session: the tenant visited, the tenant the *current transaction* is set to
(`context`), the rows selected, those not looked at yet, the uncommitted changes.
`_as_tenant` issues `SET LOCAL`, which lasts until the transaction ends, and the
listener that sets it again works only inside HTTP requests; hence `Handle` of
the escalation sweep, which commits in the loop, loses it. The policy raises when
`app.tenant_id` is not set (`current_setting` without a default, migration 0031),
hence `GiveUp`. An item becomes due once: a reorder level whose seven days of
cooldown are over counts as a new item.

### Goods and money, composed in Materials

- `StockLedger`. One material in several warehouses. `past.booked` is what entered
  minus what left, `past.wasted` what left as waste, `past.lost` what of it died
  unrecorded with a request.
  Quantities are whole positive numbers; of a unit cost only whether it is zero is
  kept. Stock items exist from the start with quantity 0, as
  `_get_or_create_stock_item` would create them. `Waste` and `RecordWaste` are the
  two commits of `record_waste`, `LoseWaste` the death of a request between them. No handler tells a draft count from a completed
  one, so a count only knows whether it is `adjusted`.
- `Procurement` extends it. `SubmitPurchaseRequest` reads the commitment summary
  (`Committed`, `Remaining`) and may start an approval; how that ends is
  `InstanceEnds`, with every outcome the contract of the engine allows.
  `ConfirmGoodsReceipt` commits the note and its draw-down on the order lines;
  `ReceiveNoteLine` then receives line after line, each in its own transaction.
  A budget of one cost line; prices are whole.
- `VendorPortal` extends it by what a vendor does for itself, on rows that two vendors own.
- `GeneralLedger`. Entries are sequences of lines; accounts a constant chart.
  `PostApInvoice` commits the entry and `RecordApInvoice` the invoice, as the code
  does; the budget it is checked against is whatever its caller states, if it states one. The two statements are operators (`Inflow`, `Outflow`, `NetIncome`).
- `Sales` extends stock and ledger: a delivery issues stock and posts its cost, an
  invoice posts receivable, revenue and VAT, a payment posts cash. VAT is a percentage
  that rounds.
- `Fuel` and `Manufacturing`: litres in tanks; a production run issues components,
  burns fuel and receives the product in one transaction.

### People and papers, composed in Office

- `Workforce`: attendance, timesheets and their states, leave, deductions;
  `GeneratePayrollRun` groups payable sheets by worker.
- `Accounts`: `index` is the table that resolves an e-mail address to a tenant. A
  session is its refresh token with the claim it carries; `under` is the password
  version it goes back to, which only properties read. `Elsewhere` stands for
  addresses other tenants hold.
- `Approvals`: definitions, and the pattern three modules share: `Propose` inserts
  the row in effect or, where an active definition governs its kind, pending with an
  instance; `Finalize` brings the effect once the latest instance is approved. The
  engine is one step (`EngineDecides`), which is what `ApprovalContract` leaves of it.
- `Bidding`, `Assistant`, `Contracts`: from lead to award and from certificate to
  payment. `CreateContractOnAward`, `ApproveCertificate`, `RecordTenderOutcome` have
  two or three commits each (`LinkContract`, `MarkWon`, `CertifyTracking`,
  `RecordTenderOutcome2`). A contract is `Undated` or has a completion date; approved time moves
  a date and does nothing to a contract without one. A certificate names its project in a column of its own,
  and each line comes with the contracted quantity its caller states.
- `Portals`: one model of a portal account for the three portals. The repository
  holds login, session and reset code in three copies that differ in names; `map`
  points different definitions at different copies. The one difference that
  matters, a client's open reset tokens surviving an erasure, is kept. A client decides on
  variations of its contract's project (`VariationProject`) and on certificates of the
  project they name (`CertificateProject`); the run starts from one that names the project of
  the other contract and from one that names none.
- `Subcontracts`, `Site`, `Safety`, `Survey`, `Papers`: a status machine for each kind
  of row, with the rows they read of each other. `SubmitSyncBatch` takes a sequence of
  records, any of which may have been sent before. A record that passes the checks and that the
  database refuses (`Breaks`: the app sends any number typed as the workforce) takes its whole batch
  with it, the conflict that was to tell of it included; a batch is served only if it is
  `Storable`. The percentage a subcontract certificate retains is that of the retention row, once there
  is one, before that the agreement's. `Papers` keeps what the object
  store holds (`ObjectArrives`, at any time: the URL outlives what becomes of the row) apart from what the row says.
- `FieldSync` extends `Site` by the device. `phone` is its SQLite database, `run` where
  each of its two syncs is (the one `handleSave` ends with and the one of the Sync now
  button), step by step between the awaited writes; `late` holds uploads the app has
  given up after 15 seconds and the server may get yet. `Deliver` and `DeliverLate`
  are `SubmitSyncBatch` of `Site`, and to the app a batch that cannot be stored is a request that failed. `Kill` may come between any two writes and notes in
  `lost`, a history variable, what was being saved or marked `syncing`.
- `Schedule`: `recalculate_schedule` with its forward and backward pass as recursive
  functions over the activities, for all four types of dependency and negative lags.
  `CriticalPathIsTheLongest` compares it with the paths of the network, listed one by one.

A behaviour of `Materials` or `Office` exercises one part of the system, chosen
at the start (`part`), over the whole database. Parts that take rows other parts
make start from such rows (`Prepared`), all of them reachable: an awarded tender with
its contract, a submitted certificate, an estimate turned into a budget. Each part
names the routes it composes (`StockNext`, `PurchasingNext`, ...), so that parts
that do interact, such as deliveries with stock and ledger, are explored together.
`MCMaterials` and `MCOffice` give both a small tenant; `MCOverlap` is `MCMaterials` with
overlapping requests. `Requests_proofs`, `Materials_proofs`, `Documents_proofs` and
`Books_proofs` extend one another, `Office_proofs` extends the first and `Consent_proofs`
that; all are described in section 5.

## 4. Runs

| Run | Shows | Bounds |
|---|---|---|
| `workflow_serial` | Type, `NoStepSkipped`, `NoOutsiderDecides`, `NeverStuck`, `EscalationIsOfTheStep`, `TerminalIsFinal`, `EscalatedOnce` and the refinement `ImplementsContract` | three users, two roles, three chains, two amounts or none, 5 logged actions, 1.2 million states |
| `workflow_concurrent` | `NoStepSkipped`, `NoOutsiderDecides` and `NeverStuck`, which survive overlap, and `OverdueIsAttended`; types are left to the theorem `TypeCorrect` | two workers and the scheduler, a request begins while the log holds fewer than 2 actions, so up to 4 entries and three requests in flight |
| `sweep_pass` | Isolation, whole batches, no double application, progress | one worker, two tenants, six items, one that raises, one passed over, one death |
| `materials_serial` | 13 properties of goods and money, below | 11 parts, two warehouses, 1 or 2 units, two rows of most tables (`MCMaxRows`), both valuation methods, budgets of 1 and 2 or none, 330 000 states |
| `office_serial` | 9 properties of people and papers, below | 36 parts, two rows of most tables, three sessions, three activities with two dependencies (lags in `MCLags`: FS 0 or a lead of two days, SS and FF 0, SF a lead); contracts with and without a date; a device with two diaries of one day, one of them with a number the database refuses, two queued entries, one late upload; 530 000 states |

Why these bounds suffice for the interesting cases: a chain with three numbers has
a skipped middle, a return for rework and a re-approval; five logged actions
fit an escalation, a delegation, a rejection and two approvals; two workers and
the scheduler make every pair of handlers overlap. In the composed runs two rows
of a table are what "the other one" needs: two receipts of an order, two payments
of an invoice, two payroll runs over overlapping periods, two certificates against
one quantity, a second bank change while the first is open, an invitation to the
address of a removed member who comes back. Three sessions fit a login, its
refresh and the refresh of that; three activities fit a chain and a shorter
one beside it (with leads of two days for all four types, 94 000 states of that part alone,
`CriticalPathIsTheLongest` holds as well). An agreement retains 50 % and its retention
row 100 %, so which of the two is used shows in the sums. The certificates entered while billing name one project, which nothing
there looks at; the clients' part has one that names the other contract's project and one that names none. Two queued entries on the device are two diaries of one day, one of
which becomes a conflict, or one diary saved twice; with a batch size of 2 they go
up together, so the second chunk of a run is never reached here (with a size of 1, or
with three entries and 4.2 million states, `FieldWorkArrives` holds as well: runs made
once and not kept). The larger claim, for every value of the constants, is what the
theorems are for.

Bounds that only keep the instance finite: `MaxLog`, `MaxCrashes`, `MaxOwned`,
`MaxLayers`, `MaxDocuments` (transfers, reservations, counts and units of waste together),
`MaxCounts`, `MaxRows`, `MaxLitres`, `MaxPasswords`, `MaxChanges`. Runs with `CHECK_DEADLOCK FALSE` stop where a bound is
used up or the approval ended; `sweep_pass` never stops and has it on. The `materials`
runs swap the two warehouses by symmetry, they have no liveness property.

What the composed runs say, beyond one type invariant each. All are
checked for requests that do not overlap; * marks those that nothing in the code (no
lock, no constraint) would keep if they did.

| Property | Meaning |
|---|---|
| `BooksBalance` * | On hand and on the road is what entered minus what left |
| `WasteIsRecordedOnce` | The rows of the waste table, what a request between its two commits is still to write and what was lost with requests that died there make up what left the stock as waste |
| `LayersMoveWithBalance` * | Under FIFO, receipts and issues move layers and balance alike |
| `ReservedWithinStock` * | No reservation is made beyond what the others leave |
| `OrdersAndPayeesApproved` * | An order's status follows all of its approval steps; bank details in force are those last approved |
| `GoodsReceivedAsNoted` * | Order lines are drawn down by what confirmed notes say, and stock never gets more than that, deaths included |
| `LedgerReconciles` * | Accounts sum to zero over all modules' postings; receivable accounts equal what invoices leave open; no entry has two payables |
| `EntryMatchedOnce` *, `HardBlockHolds` * | An entry settles one bank line; under a hard block no payable takes its cost code beyond the budget its caller states, whatever was charged unchecked before |
| `OrderFollowsDeliveries` *, `SettledWhenPaid` * | Order columns and status follow deliveries and invoices; a receivable is paid exactly when its invoice is |
| `FuelConserved` * | Tanks hold deliveries less issues plus corrections |
| `PayrollPaysTimesheetsOnce` * | A payroll line pays exactly the sheets of its run, and they do not change below it |
| `AccessEnds` | No address leads to somebody removed; no session outlives the password it was begun under, nor a portal user's erasure |
| `ConsentComesFirst` * | One definition of a kind is active and those used stand; amendments, budget revisions and permits take effect after their own approval and once; a contract ends when it was to end plus the approved extensions, or was never given a date; tender steps are decided in order; clients decide on variations and certificates of their own projects only |
| `MoneyFollowsAgreement` * | No more is billed than was varied on top of the most anybody stated as contracted; subcontract certificates add up to retention and charges; volumes are billed from approved designs |
| `SignOffsHold` * | Closed reports were verified; a record from the field has at most one entry, which is one row or one conflict; attached files keep their rows; machine-read data enters an estimate once and as reviewed |
| `FieldWorkArrives` | A draft the server has not got is queued or in the hands of a running sync, through lost requests and answers, late deliveries, batches the server cannot store and two syncs at once; only what was being saved or uploaded when the app was killed may stay behind. What the device shows as synced or in conflict is so at the server |
| `SeatsGrowWithinLimit` * | Members are added into seats the plan has |
| `CriticalPathIsTheLongest` | For every type of dependency and leads: an activity starts when the longest path to it says, and is critical if and only if it is on a path to an activity without successors over no earlier than any other path |

Seven runs each show a disagreement between what the repository says and what it
does (details and quotations in `PROJECT.json`, "findings"):

- `workflow_parallel_group`: one approve satisfies all steps of a parallel group.
- `workflow_delegation_pass`: a delegation survives a return for rework.
- `workflow_overlap_final`: an approval that is final changes its status when a
  request that read it as pending commits later.
- `sweep_complete`: the escalation sweep handles one approval per tenant and pass
  and leaves the rest, because its first commit ends the tenant context. Progress
  over several passes still holds (`DueIsHandled`).
- `sweep_overlap`: two overlapping cutover sweeps apply the same transfer twice.
- `stock_valued`: a return to a yard moves stock without its cost.
- `invoice_overpaid`: two overlapping payments exceed an invoice although the row is
  locked: the locking query returns the object loaded before, with its old columns.

Also seen while modelling, with no text of the repository that claims otherwise, so
recorded as hazards and not as runs: with overlapping requests `BooksBalance`
fails within a few steps (two receipts, one lost); a purchase request whose approval was rejected stays submitted for good;
an invoice may be matched against another order's receipt; with leads, or dependencies other
than finish-to-start, an activity may end the project and still be given float, so that nothing is
critical; time approved for a contract without a completion date extends nothing; a payable with a cost code and
no stated budget passes any hard block.

One more contradicts a docstring and is a hazard of `PROJECT.json` without a run. `_apply_sync_entry` says "On ANY
failure, creates a ConflictRecord"; after a flush that failed there is no rollback, so
`submit_sync_batch` cannot commit, the batch is lost without a conflict and the device sends it again
for ever. The model follows the code; `SignOffsHold` and `FieldWorkArrives` say what still holds then.

On the device, an app killed while entries are `syncing` never sends them again
(`lost` in `FieldWorkArrives`); of two saves of one diary uploaded together the
second entry stays `syncing` for good, as `chunk.find` returns the first for both
answers, and the server keeps the first text; a conflict resolved at the server is
never taken off the device's list, since only unresolved ones are fetched; and when
that fetch fails the Sync now button stays disabled until the app is restarted.

Each property of a passing run has a mutant: a plausible mistake in one mapped
definition (its operator stands just before the definition, marked `Mutant`)
that makes TLC find the property violated.

### Conditions that the properties carry

`NoStepSkipped` assumes that `reject_to_step` does not point forward and
`NeverStuck` that it names a step the amount needs; the API validates neither.
Both are stated per instance inside the property (`RejectsGoBack`,
`ReworkStaysOnRoute`), and `workflow_concurrent` includes a chain that breaks the
second. `NeverStuck` also relies on the chains of the runs naming roles somebody
holds. The refinement is checked on chains that satisfy both.

### Fairness

`OverdueIsAttended` assumes `WF(SweepBegin)` and `SF(Escalate(Beat))`: celery beat
starts the task every hour for as long as it runs, and a pass that is started
again and again is not for ever cut off before its commit. Users are never fair.
`DueIsHandled` assumes that beat keeps sending every task (strong, as the one
worker is busy with others in between) and that a living worker proceeds through
its loop. No order of tenants or rows is assumed, since the queries have none; a
death is bounded by `MaxCrashes`. Strong fairness of one task is justified by
the queue being first in, first out.

## 5. Theorems

All are proved for every set of users, roles, workers, chains, tenants and items
that satisfies `WorkflowAssumption` or `SweepAssumption` (the types of the
constants and the distinctness of markers such as `NoStep` and `NoTenant`).

`WorkflowEngine_proofs`:

- `TypeCorrect`. `TypeOK` alone is not inductive: a commit merges the row that was
  read into the row that is stored, so every request must hold a row of this very
  instance (`Frame`). `CommitKeepsFrame` does the merge once, `HandlersCommit`
  reduces the seven handlers to it.
- `NoStepIsEverSkipped`, with or without overlapping requests. `Progress`
  demands that the stored row *and every row still in some request's memory*
  presuppose only approvals in the log. An old row may be written back over a
  newer one, column by column: it is safe because the log never shrinks and
  because a stale row is cleared too (`CommitKeepsProgress`, `ApprovalClears`).
  The least applicable number exists by well-foundedness of < (`EarliestIsLeast`).
- `OutsidersNeverDecide`, with or without overlapping requests: an action is
  logged under the number of the row the decision was made on, and grants in the
  log are never taken back.
- `SerialOutcomeIsFinal` assumes `~ Concurrent`. `Serial`: one request in flight at
  most, and what it read is what is stored. `workflow_overlap_final` shows that the
  assumption is needed.
- `SomebodyCanAlwaysAct` (`NeverStuck`), with or without overlapping requests.
  `Located`: the stored row and every row in a request's memory wait at a step that
  applies to the amount, because an old step number may be written back. Assumes
  `ApproversExist`: every approver named is a user or a role somebody holds.
- `SerialEscalatesOnce`, `SerialEscalationsAreOfTheirStep` and
  `SerialEngineKeepsContract` assume `~ Concurrent` and rest on `Serial`: a commit
  stores what the handler computed (`SerialCommit`), so `ApprovalOutcomes`,
  `RejectionOutcomes`, `OtherOutcomes` and `QuietSteps` say what a step may do to the
  row, and each theorem reads its case off them. The contract also needs
  `ChainsAreSound`: step numbers are positive, and a rejection returns to a step that
  applies and was reached. The API checks neither; the chains of `workflow_serial`
  satisfy both.

`TenantSweep_proofs`: `SessionsAreInOrder` proves `TypeOK` with `Turn`, which says
for each worker how its session relates to the tenant it visits: the batch and
the changes are that tenant's, what was committed belongs to tenants no longer
to be visited, and in the sweeps that commit once the uncommitted changes are
exactly the actionable rows already looked at. From it follow
`SweepsWriteUnderOwnTenant` and `BatchesAreWhole`; `WhoCommits` lists the two
actions that commit. Any number of workers, worker deaths included.

- `EveryTurnServes` (`EveryTenantIsServed`), any number of workers. The escalation
  sweep loses its tenant context at its first commit, so the batch it began is
  left; `Served` says that it has escalated something by then or has only looked at
  rows it could not act on. `WhoLeaves`: a turn ends by giving up on a row or by
  leaving after the last one; the death of a worker ends the run, not the turn.
- `OneWorkerAppliesOnce` (`AppliedOnce`) assumes one worker. `StillDue`: what the
  session selected and has not committed is due in the table too. With a second
  worker that is false, and `sweep_overlap` shows the consequence.

### Goods and money

The theorems of `Materials_proofs`, `Documents_proofs` and `Books_proofs` are about `Materials`, the
composition that `materials_serial` explores, for every set of workers, warehouses,
quantities, prices, users, tanks, days and accounts, every chart and every bound
(`RequestsAssumption` to `FuelAssumption`: types of the constants, quantities positive).
All assume `~ Concurrent`, as the run does: with overlapping requests most of them
are false. Deaths between the commits of a handler are included.

`Requests_proofs` is the ground.

- Sums. `SumFunctionOnSet` is a fold over a function defined by `CHOOSE`, so what it
  computes needs induction. The library's induction theorems take an operator as a
  parameter; `NatSetInduction` and `PartInduction` are the same for a *set* of numbers,
  resp. of parts of a finite set, and follow from the well-foundedness of <. From
  them: a sum is whole, changes by what one row changes, grows by a row that is added, is
  the same over equal values, and does not depend on the order of picking (`SumByPick`
  and what follows it).
- Tables. What `Append` and an update of a row leave of a sequence (`TableInsert`,
  `TableUpdate`), also of a whole sequence of inserted rows (`TableInserts`).
- Requests. `SerialRows`: without overlap a handler reads the committed database and
  `Commit` stores what it computed. `Alone`: at most one request is under way.
  `Touches(p, names)` and `Keeps(names)`: a request that ends and writes only some
  tables. `Under`: a sum over the rows that name another row, for order lines,
  deliveries and payments.

`Materials_proofs` begins with what each handler of stock does to balances, layers and transfers.
`Books(s, t, entry)` says that a handler moves the stock in `s` to `t` and that `entry`
is what its receipts, issues or adjustments book. `FifoTakesAll` and
`LayersAfterConsume`: FIFO takes what was asked, over however many layers.

It then carries that through all eleven parts. The invariant is
`MaterialsSound`: the books are in balance (`StockSound`), waste is
accounted for (`WasteSound`), a request in the middle of receiving names lines of its own note
(`ReceivingTyped`), and the rows of orders, sales and production runs are typed. It has one
lemma per part of `Next` (`StockPartStep`, `PurchasingStep`, `SalesStep`,
`ProductionStep`, ...), which `PartStep` puts together. `WasteSound` says what was wasted is recorded,
still to be recorded by the one request between its commits, or lost; nobody else issues waste
(`WasteRests`), and the other parts begin when no request does (`BeginsAtRest`).

- `StockBooksBalance`, `WasteIsAccountedFor`, `LayersStayInSync` (an action
  property) and `ReservationsStayCovered` (another).

`Documents_proofs` adds, each to that invariant, what orders, payees, receipt notes and
fuel deliveries say.

- `OrdersAndPayeesAreApproved`. `OrdersSound`: the steps of an order have different
  numbers, and where one is decided all before it are approved, none after a rejected one.
  `BankSound`: the details in force differ from the registered ones by the changes that
  were approved, each of which started from what was in force.
- `GoodsAreReceivedAsNoted`. `ReceivedSound`: a line is drawn down by the sum over the
  confirmed notes' lines. `LandingSound` is the part a death can hurt: what has
  landed plus what the request that receives *is still to land* is at most what
  confirmed notes brought; so a request that dies loses goods and never doubles them.
- `FuelIsConserved`. `FuelSound` sums levels, deliveries and issues over three tables; a
  production run that burns fuel in its own transaction is one of the writers.

`Books_proofs` does the same for orders, invoices, bank lines, the ledger and budgets.

- `OrdersFollowDeliveries`, `InvoicesSettleWhenPaid`. `BooksAgree` is `Served` (an order
  and the sums over its deliveries and invoices) and `Settled` (an invoice, the sum of its
  payments and the status of its own receivable).
- `EntriesAreMatchedOnce`. `LinesApart`: no two bank lines name the same entry, 0 being none.
- `LedgerAndBooksReconcile`. A posting is known by entry and line, so the lines of all
  entries are one function `LedgerOf`; `Reconciled` says of it that all accounts sum to zero
  and, where `AccountsApart`, the receivable ones to what is due less what is paid. An entry that adds two or
  three lines adds their weight (`AccountsSum` and what follows it), whatever VAT rounds to. `LedgerSound`
  adds that settings name a receivable account, and `PayablesSound` that a request
  between the two commits of a payable holds an entry no payable names yet. The theorem
  assumes `AccountsApart`: the chart is finite, the fixed accounts are in it and none of them is
  used for receivables. The settings route checks only that the account is one of the tenant's; a
  tenant that chooses its cash account breaks the equation.
- `HardBlocksHold`. `Charged` sums what the lines of a cost code debit to expense
  accounts. A payable is charged to the code it was checked against and to no other
  (`PayableIsCharged`), so with a stated budget it stays within it (`BlockAfterPayable`); no other
  step that posts an entry leaves a payable between its commits, since all begin when nobody
  is at work (`PostedAtRest`, `BlockAfterStep`). It needs no `AccountsApart`.

### People and papers

`Office_proofs` is about `Office`, the composition `office_serial` explores, for every set
of addresses, plans, devices, batches and bounds, again with `~ Concurrent`.

- The frames come first: which tables the handlers of each of the thirty-six parts write
  (`StaffKeeps`, ..., `DeviceKeeps`). `PartTables` lists the tables of each part and `PartKeeps` says that a
  request of a part writes no others; so but for accounts, portals and data subject requests
  none says who may come in (`OthersLetNobodyIn`). An invariant of `Office` is then looked for only where its
  tables are written.
- `AccessEndsWhenItShould`. The invariant is `AccessSound`. `MembersSound` needs more than the
  property: no password is older than its change and no claim younger than the password of
  its user, for otherwise a reset could bring an old claim back to life. `PortalsSound`
  compares the claim with the time of the last change, and adds that an erased user is
  inactive. `DeviceTyped` is there because a batch the app uploads is a fold over a
  sequence: the app's entries are one, whatever the sync was interrupted by (`DeviceStaysTyped`).
- `MoneyFollowsWhatWasAgreed`. The invariant is `MoneySound`, in four parts. `BilledSound`: a
  certificate's gross is the sum of its own lines, and the lines of all that were not
  rejected are within the contract and its approved variations. A line is checked against
  `cumulative_billed`, which counts the certificates that are not rejected, so a rejected one must
  stay so and an approved variation must too: the lemmas about those sums (`BilledWithLine`,
  `AgreedIsWhole`) carry the argument. `RetentionSound`: what is withheld
  is under its cap and what is recouped under its advance. `SubcontractSound`: what an agreement
  holds, with what was certified before it was set up, is the sum over its certificates, and what
  all certificates deduct is the sum of the back charges that are marked deducted. `SurveySound`: a volume that is official was surveyed against an
  approved surface, which only an official one can be billed from. The contracted quantity of a line is whatever its caller states up to the constant `Contracted`,
  and the sum over all lines is bounded by that constant and the variations. The theorem uses `OfficeAssumption`, that what
  is billed where the clients' part starts (`Submitted`) is within it.
- `PayrollPaysOnce` (`PayrollPaysTimesheetsOnce`). The invariant is `PayrollSound`: a timesheet has been
  taken by no run, or by one that exists and is then approved or locked, so that no correction
  reaches it; a line is the sum of the timesheets of its run and worker, and a run that of its lines. A run inserts
  a line for each worker, in the order a fold over the workers takes, so `RowsAreInserted` shows of
  every such fold what rows it leaves and what a column of them adds up to; the new run's number belongs to no earlier
  line, so the sums of earlier runs stay (`PayAfterRun`). It uses that deductions are whole
  numbers (`WorkforceAssumption`), their sign being of no matter.

`Consent_proofs` goes on, about the same composition.

- `SignOffsAreEarned` (`SignOffsHold`). The invariant is `SignOffsSound`, in four parts, each with one
  lemma per route that writes its tables. `PapersSound`: an attached file is uploaded and its
  organisation's, and a portal upload that waits for its second commit names a file that is still
  pending, so nobody can have attached it (`StampSound`). `CorrectiveSound`: a closed
  non-conformance has a verified action and a closed incident's own action is verified;
  an action that was verified must stay so. `ExtractionSound`: a job names
  an item exactly when it is committed, two jobs never the same one, and the item's quantity is the
  reviewed one, whatever estimating does to items beside it. `RecordsSound`: a record from the field has one entry, an entry in
  conflict one conflict and a day one diary; a batch the database refuses leaves all of that as it was. A batch is a fold over its records, so this part
  is stated of a state `s`: `RecordAccepted` is one record, `BatchAccounted` any number of them, by the
  least prefix that breaks it (`GreatestInduction`); late deliveries are batches too (`RecordsAfterDevice`).
- `ConsentIsSoughtFirst` (`ConsentComesFirst`). The invariant is `ConsentSound`, in four parts.
  `ApprovalsSound`: a record has at most one approval, in one of four statuses, whose chain is that of its
  definition; a record in a status of effect has no approval but an approved one. That one is stated
  over `Governed`, the three kinds of record with their tables, so that a step of the engine
  (`ApprovalsAfterWorkflow`) is proved once. `AmendmentsSound`: a contract is worth its award plus the
  amendments that took effect, as sums over the rows (`AddedUp`), and, given a date at the award, ends
  that much later (`ContractHolds`, `DateToExtend`); an amendment takes effect
  in the commit that changes the contract (`AmendmentTakesEffect`), with or without a workflow.
  `TendersSound`: a step is decided only after those before it were approved; reopening makes
  all of a tender's pending, never one of them. `ClientsSound`: a recorded decision is that of a client assigned to
  the project of the variation's contract, or to the one the certificate names, and the record stands as they decided. A certificate's decision is recorded two
  commits after it was made, so the invariant also says of a request in between that what
  it is about to record holds already (`RecordingSound`), which a worker that dies there leaves true.
- `FieldWorkAlwaysArrives` (`FieldWorkArrives`). The invariant is `PhoneSound`: what a
  running sync has in hand are entries of the queue, and those it was answered about have arrived; an entry marked synced or in conflict, or a diary
  shown so, is so at the server; a draft the app has not lost has arrived, is being saved, or waits, as a pending
  entry or in the hands of a sync. An answer is handled from what the sync
  took before the queue went on, so the invariant speaks of the chunk, not of the queue as it is
  when the answer comes. On the server's side `BatchArrives` shows that every record of a batch of any length has
  arrived when it is done and that `Grows`, nothing taken before is undone, again by the least prefix
  of the fold that breaks it; it needs one entry for a record, which `SignOffsSound` gives. The steps
  of every other part leave the device alone.

### Only model-checked

`OverdueIsAttended` and `DueIsHandled`: liveness under fairness is out of the prover's
reach. The row types `TypeOK` of `Materials` and of `Office`, beyond those the
proofs need, have not been attempted: they would say of every column of every table what
the invariants above say of those they use.
`CriticalPathIsTheLongest` says what recursive functions compute for every input and
stays with TLC.

## 6. Not modelled, and why

- The mobile app's login, project choice and displays, the web frontend
  and search have no state of their own; migrations are the ground for the unique
  constraints and policies the modules rely on.
- Rows that are only ever created: warehouses, materials, employees, casual workers,
  accounts, equipment, subcontractors are constants of the modules.
- Reads: dashboards, aging, utilisation, exports, summaries, earned value. Where a
  handler decides on a computed figure (commitments, spent amounts, available
  stock, seats) it is modelled.
- E-mails, calls to the payment provider and to the mail server. A webhook is an
  action that may come at any time and again; the length of the period it buys
  is left out.
- `refresh_overdue_status`: it looks for a due date that no code sets.
- Several approvals at once (they share no rows), rounding of Numeric(18, 4), the
  size of costs, currencies, quantities that are not positive.
- Permissions of a role, and which role may call a route: authorisation is a table
  lookup in front of every handler. Where a handler itself decides who may act (the
  engine, portals, invitations, the rules for handing out roles) it is modelled.

## 7. Plan

1. The types in `Materials` and `Office` in full, on the frames that are there.
2. A refinement for `FieldSync`: a set of captured records, each of which only moves
   to recorded or to conflict.
3. An abstract `MaterialContract`, implemented by the parts of `MCMaterials`: every
   confirmed document moves its goods once.
4. Overlap for `MCOffice`: which of its invariants survive two requests, as
   `workflow_concurrent` does for the engine.
