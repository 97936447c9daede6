------------------------------ MODULE Workforce ------------------------------
(***************************************************************************)
(* Workforce (modules/wfm): employees and casual workers, attendance,      *)
(* timesheets with their approval, leave, and the payroll runs that pay    *)
(* approved timesheets.                                                    *)
(*                                                                         *)
(* A period is an interval of days.  Training, medical, competency and     *)
(* certification records are added and looked up, never changed.           *)
(***************************************************************************)
EXTENDS Requests

CONSTANTS
    Staff,      \* ids of employees; the other workers are casuals
    Casuals,
    WorkDays,   \* the days of attendance and of payroll periods
    SheetPeriods, \* the periods, first and last day, that timesheets cover
    Hours,      \* hours_or_units
    Rates,      \* rate_applied
    Deductions  \* statutory deduction rules a tenant may configure

ASSUME WorkforceAssumption ==
    /\ Hours \subseteq Nat /\ Rates \subseteq Nat /\ WorkDays \subseteq Nat
    /\ Staff \cap Casuals = {}
    /\ \A d \in Deductions : d.n \in Int

People == Staff \cup Casuals

Employee == [status |-> "active", projects |-> {}]

CasualWorker == [status |-> "active"]

AttendanceRecord(who, day, in, out) == [who |-> who, day |-> day, in |-> in, out |-> out]

\* run is 0 until a payroll run takes the timesheet.
Timesheet(who, from, to, hours, rate) ==
    [status |-> "pending_approval", who |-> who, from |-> from, to |-> to,
     hours |-> hours, rate |-> rate, gross |-> hours * rate, run |-> 0]

LeaveRequest(who, days) == [status |-> "pending", who |-> who, days |-> days]

LeaveEntitlement(who, days) == [who |-> who, days |-> days]

\* Training, medical, competency and certification records; expires is a day.
PersonalRecord(kind, who, expires) == [kind |-> kind, who |-> who, expires |-> expires]

\* A percentage of the gross pay, or a fixed amount.
StatutoryDeductionRule(percentage, n, casuals) == [percentage |-> percentage, n |-> n, casuals |-> casuals]

PayrollRun(from, to, gross, deductions) ==
    [status |-> "draft", from |-> from, to |-> to, gross |-> gross, deductions |-> deductions]

PayrollLine(run, who, gross, deductions) ==
    [run |-> run, who |-> who, gross |-> gross, deductions |-> deductions]

WorkforceTables ==
    [employee |-> [w \in Staff |-> Employee], casual |-> [w \in Casuals |-> CasualWorker],
     attendance |-> <<>>, timesheet |-> <<>>, leave |-> <<>>, entitlement |-> <<>>,
     record |-> <<>>, rule |-> <<>>, payroll |-> <<>>, payline |-> <<>>]

-----------------------------------------------------------------------------
(* Employees and attendance *)

UpdateEmployee(p, w, status) ==
    Amend(p, "employee", w, LAMBDA e : TRUE, LAMBDA e : [e EXCEPT !.status = status])

TerminateEmployee(p, w) == Turn(p, "employee", w, {"active"}, "inactive")

ReactivateEmployee(p, w) == Turn(p, "employee", w, {"inactive"}, "active")

AssignProject(p, w, project) ==
    Amend(p, "employee", w, LAMBDA e : TRUE, LAMBDA e : [e EXCEPT !.projects = @ \cup {project}])

TransferProject(p, w, old, new) ==
    Amend(p, "employee", w, LAMBDA e : TRUE,
          LAMBDA e : [e EXCEPT !.projects = (@ \ {old}) \cup {new}])

EmployeeRoutes(p) ==
    \E w \in Staff :
        \/ TerminateEmployee(p, w)
        \/ ReactivateEmployee(p, w)
        \/ \E a \in {"active", "inactive"} : UpdateEmployee(p, w, a)
        \/ \E j \in {"p1", "p2"} : AssignProject(p, w, j) \/ \E k \in {"p1", "p2"} : TransferProject(p, w, j, k)

Attended(s, w, day) == \E k \in DOMAIN s.attendance : s.attendance[k].who = w /\ s.attendance[k].day = day

\* Checking in looks for no earlier record of the day.
RecordAttendance(p, w, day, in, out) == Create(p, "attendance", AttendanceRecord(w, day, in, out))

CorrectAttendance(p, k, in, out) ==
    Amend(p, "attendance", k, LAMBDA a : TRUE, LAMBDA a : [a EXCEPT !.in = @ \/ in, !.out = @ \/ out])

MarkAbsent(p, w, day) ==
    /\ ~ Attended(Seen(p), w, day)
    /\ Create(p, "attendance", AttendanceRecord(w, day, FALSE, FALSE))

\* A crew in one call: workers who have a record for the day are passed over.
RecordAttendanceBulk(p, crew, day) ==
    LET fresh == {w \in crew : ~ Attended(Seen(p), w, day)}
    IN /\ Serving(p)
       /\ Len(db.attendance) + Cardinality(fresh) <= MaxRows.attendance
       /\ Commit(p, [Seen(p) EXCEPT !.attendance =
            FoldSet(LAMBDA w, rows : Append(rows, AttendanceRecord(w, day, TRUE, TRUE)), @, fresh)])

AttendanceRoutes(p) ==
    \/ \E w \in People, day \in WorkDays :
         MarkAbsent(p, w, day) \/ \E out \in BOOLEAN : RecordAttendance(p, w, day, TRUE, out)
    \/ \E k \in 1..MaxRows.attendance, in, out \in BOOLEAN : CorrectAttendance(p, k, in, out)
    \/ \E crew \in SUBSET People, day \in WorkDays : RecordAttendanceBulk(p, crew, day)

-----------------------------------------------------------------------------
(* Timesheets *)

GenerateTimesheet(p, w, from, to, hours, rate) ==
    Create(p, "timesheet", Timesheet(w, from, to, hours, rate))

ApproveTimesheet(p, k) == Turn(p, "timesheet", k, {"pending_approval"}, "approved")

RejectTimesheet(p, k) == Turn(p, "timesheet", k, {"pending_approval"}, "rejected")

ReturnTimesheet(p, k) == Turn(p, "timesheet", k, {"pending_approval"}, "returned")

ResubmitTimesheet(p, k) == Turn(p, "timesheet", k, {"returned"}, "pending_approval")

LockTimesheet(p, k) == Turn(p, "timesheet", k, {"approved"}, "locked")

UpdateTimesheet(p, k, hours, rate) ==
    Amend(p, "timesheet", k, LAMBDA t : t.status \in {"pending_approval", "returned"},
          LAMBDA t : [t EXCEPT !.hours = hours, !.rate = rate, !.gross = hours * rate])

TimesheetRoutes(p) ==
    \/ \E w \in People, d \in SheetPeriods, h \in Hours, r \in Rates :
         GenerateTimesheet(p, w, d[1], d[2], h, r)
    \/ \E k \in 1..MaxRows.timesheet :
         \/ ApproveTimesheet(p, k)
         \/ RejectTimesheet(p, k)
         \/ ReturnTimesheet(p, k)
         \/ ResubmitTimesheet(p, k)
         \/ LockTimesheet(p, k)
         \/ \E h \in Hours, r \in Rates : UpdateTimesheet(p, k, h, r)

\* allocate_labor_cost: locked timesheets are not counted.
LaborCost(s) ==
    SumOf(s.timesheet, "gross", {k \in DOMAIN s.timesheet : s.timesheet[k].status = "approved"})

-----------------------------------------------------------------------------
(* Leave and personal records *)

CreateLeaveRequest(p, w, days) == Create(p, "leave", LeaveRequest(w, days))

DecideLeaveRequest(p, k, decision) == Turn(p, "leave", k, {"pending"}, decision)

CancelLeaveRequest(p, k) == Turn(p, "leave", k, {"pending", "approved"}, "cancelled")

\* uq_wfm_leave_entitlements_emp_type_year
SetLeaveEntitlement(p, w, days) ==
    LET set == {k \in Rows(p, "entitlement") : Row(p, "entitlement", k).who = w}
    IN \/ /\ set = {}
          /\ \A k \in DOMAIN db.entitlement : db.entitlement[k].who # w
          /\ Create(p, "entitlement", LeaveEntitlement(w, days))
       \/ \E k \in set : Amend(p, "entitlement", k, LAMBDA e : TRUE, LAMBDA e : [e EXCEPT !.days = days])

\* get_leave_balance_detail: nothing keeps what remains from going below zero.
RemainingLeave(s, w) ==
    SumOf(s.entitlement, "days", {k \in DOMAIN s.entitlement : s.entitlement[k].who = w})
        - SumOf(s.leave, "days", {k \in DOMAIN s.leave : s.leave[k].who = w /\ s.leave[k].status = "approved"})

LeaveRoutes(p) ==
    \/ \E w \in Staff, d \in {1, 2} : CreateLeaveRequest(p, w, d) \/ SetLeaveEntitlement(p, w, d)
    \/ \E k \in 1..MaxRows.leave :
         \/ \E d \in {"approved", "rejected"} : DecideLeaveRequest(p, k, d)
         \/ CancelLeaveRequest(p, k)

RecordKinds == {"training", "medical", "competency", "certification"}

RecordRoutes(p) ==
    \E kind \in RecordKinds, w \in Staff, day \in WorkDays :
        Create(p, "record", PersonalRecord(kind, w, day))

\* get_active_certification: the one that expires last, expired or not.
ActiveCertification(s, w) ==
    LET all == {k \in DOMAIN s.record : s.record[k].kind = "certification" /\ s.record[k].who = w}
    IN {k \in all : \A j \in all : s.record[j].expires <= s.record[k].expires}

-----------------------------------------------------------------------------
(* Payroll *)

DeductedFrom(s, w, gross) ==
    SumFunctionOnSet(
        [k \in DOMAIN s.rule |->
            IF s.rule[k].percentage THEN (gross * s.rule[k].n) \div 100 ELSE s.rule[k].n],
        {k \in DOMAIN s.rule : w \in Casuals => s.rule[k].casuals})

Gross(s, sheets) == SumOf(s.timesheet, "gross", sheets)

\* Mutant: a timesheet that was paid is payable again.
Payable_again(s, from, to) ==
    {k \in DOMAIN s.timesheet :
        /\ from <= s.timesheet[k].from /\ s.timesheet[k].to <= to
        /\ s.timesheet[k].status \in {"approved", "locked"}}

Payable(s, from, to) ==
    {k \in DOMAIN s.timesheet :
        /\ from <= s.timesheet[k].from /\ s.timesheet[k].to <= to
        /\ s.timesheet[k].run = 0
        /\ s.timesheet[k].status \in {"approved", "locked"}}

\* One line more for each worker that is paid.
WithLines(lines, line) == FoldSet(LAMBDA w, all : Append(all, line[w]), lines, DOMAIN line)

\* Periods of two runs may overlap, only the same period is refused
\* (uq_wfm_payroll_runs_period).
GeneratePayrollRun(p, from, to) ==
    LET s == Seen(p)
        run == Len(s.payroll) + 1
        sheets == Payable(s, from, to)
        paid == {s.timesheet[k].who : k \in sheets}
        grossOf(w) == Gross(s, {k \in sheets : s.timesheet[k].who = w})
        line == [w \in paid |-> PayrollLine(run, w, grossOf(w), DeductedFrom(s, w, grossOf(w)))]
    IN /\ Serving(p)
       /\ Room("payroll")
       /\ \A k \in DOMAIN db.payroll : db.payroll[k].from # from \/ db.payroll[k].to # to
       /\ Commit(p, [s EXCEPT
            !.timesheet = [k \in DOMAIN @ |->
                IF k \in sheets THEN [s.timesheet[k] EXCEPT !.run = run] ELSE s.timesheet[k]],
            !.payline = WithLines(@, line),
            !.payroll = Append(@, PayrollRun(from, to, SumFunction([w \in paid |-> line[w].gross]),
                                             SumFunction([w \in paid |-> line[w].deductions])))])

\* Refused while a linked timesheet is pending: no linked one ever is again.
FinalizePayrollRun(p, k) ==
    /\ \A j \in Rows(p, "timesheet") :
         Row(p, "timesheet", j).run = k => Row(p, "timesheet", j).status # "pending_approval"
    /\ Turn(p, "payroll", k, {"draft"}, "finalized")

PayrollRoutes(p) ==
    \/ \E from, to \in WorkDays : from <= to /\ GeneratePayrollRun(p, from, to)
    \/ \E k \in 1..MaxRows.payroll : FinalizePayrollRun(p, k)
    \/ \E r \in Deductions : Create(p, "rule", StatutoryDeductionRule(r.percentage, r.n, r.casuals))

StaffNext(p) == EmployeeRoutes(p) \/ AttendanceRoutes(p)

LeaveNext(p) == LeaveRoutes(p) \/ RecordRoutes(p)

PayrollNext(p) == TimesheetRoutes(p) \/ PayrollRoutes(p)

-----------------------------------------------------------------------------
(* Properties *)

WorkforceTypeOK ==
    /\ \A w \in Staff : db.employee[w].status \in {"active", "inactive"}
    /\ \A k \in DOMAIN db.timesheet :
         /\ db.timesheet[k].status \in {"pending_approval", "approved", "rejected", "returned", "locked"}
         /\ db.timesheet[k].gross = db.timesheet[k].hours * db.timesheet[k].rate
    /\ \A k \in DOMAIN db.leave : db.leave[k].status \in {"pending", "approved", "rejected", "cancelled"}

\* A payroll line pays a worker exactly the timesheets of its run, and every run
\* adds up: no timesheet is paid twice by runs whose periods overlap, and none
\* changes under a run that has paid it.  Holds while requests do not overlap.
PayrollPaysTimesheetsOnce ==
    /\ \A l \in DOMAIN db.payline :
         LET line == db.payline[l]
             sheets == {k \in DOMAIN db.timesheet : db.timesheet[k].run = line.run
                                                    /\ db.timesheet[k].who = line.who}
         IN line.gross = Gross(db, sheets) /\ \A k \in sheets : db.timesheet[k].status \in {"approved", "locked"}
    /\ \A r \in DOMAIN db.payroll :
         LET lines == {l \in DOMAIN db.payline : db.payline[l].run = r}
         IN /\ db.payroll[r].gross = SumOf(db.payline, "gross", lines)
            /\ db.payroll[r].deductions = SumOf(db.payline, "deductions", lines)
=============================================================================
