------------------------------ MODULE Schedule ------------------------------
(***************************************************************************)
(* Planning (modules/pln): activities, their dependencies, the critical    *)
(* path computed over them, baselines and delay events; and the project    *)
(* controls and dashboards that are filed (modules/pc, modules/exd).       *)
(*                                                                         *)
(* The activities are those under one root of the work breakdown.  Dates   *)
(* are whole days; early_finish, late_finish, total_float_days follow from *)
(* early_start, late_start and the duration, which no handler changes.     *)
(***************************************************************************)
EXTENDS Requests

CONSTANTS
    Starts,     \* planned_start of an activity
    Durations,  \* duration_days
    Lags        \* lag_days tried with each type of dependency; negative is a lead

DependencyTypes == {"FS", "SS", "FF", "SF"}

ASSUME ScheduleAssumption ==
    /\ Starts \subseteq Int /\ Durations \subseteq Nat \ {0}
    /\ Lags \in [DependencyTypes -> SUBSET Int]

\* es and ls are NULL until the activity is scheduled.
Activity(start, duration) ==
    [planned |-> start, duration |-> duration, scheduled |-> FALSE, es |-> 0, ls |-> 0, critical |-> FALSE]

ActivityDependency(a, b, type, lag) == [pred |-> a, succ |-> b, type |-> type, lag |-> lag]

\* finishes: the planned or calculated finish of each activity at the time.
Baseline(finishes) == [current |-> FALSE, finishes |-> finishes]

DelayEvent(a, critical) == [activity |-> a, flagged |-> critical]

\* cpi: the index exists, and is not zero.
EVMSnapshot(cpi) == [cpi |-> cpi]

ScheduleTables == [activity |-> <<>>, dependency |-> <<>>, baseline |-> <<>>, delay |-> <<>>, evm |-> <<>>]

PlnPapers == {"wbs_node", "resource_assignment", "look_ahead_plan", "look_ahead_item"}

ControlPapers ==
    {"risk_register_entry", "delay_analysis_summary", "cash_flow_forecast"}

DashboardPapers == {"dashboard_widget", "dashboard_configuration"}

-----------------------------------------------------------------------------
(* The critical path method *)

Into(s, a) == {d \in DOMAIN s.dependency : s.dependency[d].succ = a}

OutOf(s, a) == {d \in DOMAIN s.dependency : s.dependency[d].pred = a}

\* _topological_order finds an order: every set of activities has one that none
\* of the set precedes.
Acyclic(s) ==
    \A S \in (SUBSET DOMAIN s.activity) \ {{}} :
        \E a \in S : \A d \in Into(s, a) : s.dependency[d].pred \notin S

\* What dependency d asks of the start of its successor.
EarliestFor(s, d, start) ==
    LET dep == s.dependency[d]
        predStart == start[dep.pred]
        predFinish == predStart + s.activity[dep.pred].duration
        length == s.activity[dep.succ].duration
    IN CASE dep.type = "FS" -> predFinish + dep.lag
         [] dep.type = "SS" -> predStart + dep.lag
         [] dep.type = "FF" -> predFinish + dep.lag - length
         [] dep.type = "SF" -> predStart + dep.lag - length

\* planned_start counts only where nothing precedes.
EarlyStarts(s) ==
    LET start[a \in DOMAIN s.activity] ==
          IF Into(s, a) = {} THEN s.activity[a].planned
          ELSE Max({EarliestFor(s, d, start) : d \in Into(s, a)})
    IN [a \in DOMAIN s.activity |-> start[a]]

ProjectFinish(s, early) == Max({early[a] + s.activity[a].duration : a \in DOMAIN early})

\* What dependency d leaves of the late finish of its predecessor.
LatestFor(s, d, late) ==
    LET dep == s.dependency[d]
        succStart == late[dep.succ]
        succFinish == succStart + s.activity[dep.succ].duration
        length == s.activity[dep.pred].duration
    IN CASE dep.type = "FS" -> succStart - dep.lag
         [] dep.type = "SS" -> succStart - dep.lag + length
         [] dep.type = "FF" -> succFinish - dep.lag
         [] dep.type = "SF" -> succFinish - dep.lag + length

LateStartsBy(s, finish, Tightest(_)) ==
    LET late[a \in DOMAIN s.activity] ==
          (IF OutOf(s, a) = {} THEN finish ELSE Tightest({LatestFor(s, d, late) : d \in OutOf(s, a)}))
            - s.activity[a].duration
    IN [a \in DOMAIN s.activity |-> late[a]]

\* Mutant: the loosest of the successors decides.
LateStarts_loosest(s, finish) == LateStartsBy(s, finish, Max)

\* Whoever has successors is bound by them alone, not by the project's finish.
LateStarts(s, finish) == LateStartsBy(s, finish, Min)

RecalculateSchedule(p) ==
    LET s == Seen(p)
    IN /\ Serving(p)
       /\ s.activity # <<>>
       /\ Acyclic(s)
       /\ \E early \in {EarlyStarts(s)} :
          \E late \in {LateStarts(s, ProjectFinish(s, early))} :
            Commit(p, [s EXCEPT !.activity =
              [a \in DOMAIN @ |-> [@[a] EXCEPT !.scheduled = TRUE, !.es = early[a], !.ls = late[a],
                                                !.critical = late[a] <= early[a]]]])

\* The pair of activities is unique (uq_pln_activity_deps_pair).
AddDependency(p, a, b) ==
    /\ Room("dependency")
    /\ a # b
    /\ \A d \in DOMAIN db.dependency : <<db.dependency[d].pred, db.dependency[d].succ>> # <<a, b>>
    /\ \E type \in DependencyTypes : \E lag \in Lags[type] :
         Create(p, "dependency", ActivityDependency(a, b, type, lag))

CreateActivity(p) ==
    \E start \in Starts, duration \in Durations : Create(p, "activity", Activity(start, duration))

NetworkRoutes(p) ==
    \/ CreateActivity(p)
    \/ \E a, b \in Rows(p, "activity") : AddDependency(p, a, b)
    \/ RecalculateSchedule(p)

-----------------------------------------------------------------------------
(* Baselines, delays, project controls *)

FinishOf(a) == a.duration + (IF a.scheduled THEN a.es ELSE a.planned)

\* The baseline and its mark are one commit.
CreateBaseline(p, mark) ==
    LET s == Seen(p)
        row == Baseline([a \in DOMAIN s.activity |-> FinishOf(s.activity[a])])
    IN /\ Serving(p) /\ Room("baseline")
       /\ s.activity # <<>>
       /\ Commit(p, [s EXCEPT !.baseline =
            IF mark
            THEN Append([b \in DOMAIN @ |-> [@[b] EXCEPT !.current = FALSE]], [row EXCEPT !.current = TRUE])
            ELSE Append(@, row)])

MarkBaselineCurrent(p, k) ==
    /\ Serving(p)
    /\ k \in Rows(p, "baseline")
    /\ Commit(p, [Seen(p) EXCEPT !.baseline = [b \in DOMAIN @ |-> [@[b] EXCEPT !.current = (b = k)]]])

\* The flag is what the last calculation said, however old.
RecordDelayEvent(p, a) == Create(p, "delay", DelayEvent(a, a # 0 /\ Row(p, "activity", a).critical))

GenerateForecast(p, k, method) ==
    /\ k \in Rows(p, "evm")
    /\ method = "cpi_based" => Row(p, "evm", k).cpi
    /\ File(p, "forecast_at_completion")

BaselineRoutes(p) ==
    \/ \E mark \in BOOLEAN : CreateBaseline(p, mark)
    \/ \E k \in 1..MaxRows.baseline : MarkBaselineCurrent(p, k)
    \/ \E a \in {0} \union Rows(p, "activity") : RecordDelayEvent(p, a)

ControlNext(p) == RecalculateSchedule(p) \/ BaselineRoutes(p)

FileForPlan(p) ==
    \/ \E kind \in PlnPapers \union DashboardPapers \union ControlPapers : File(p, kind)
    \/ \E cpi \in BOOLEAN : Create(p, "evm", EVMSnapshot(cpi))
    \/ \E k \in 1..MaxRows.evm, method \in {"cpi_based", "atypical_variance", "manual"} : GenerateForecast(p, k, method)

-----------------------------------------------------------------------------
(* Properties *)

ScheduleTypeOK ==
    /\ \A a \in DOMAIN db.activity :
         db.activity[a].scheduled /\ db.activity[a].critical => db.activity[a].ls <= db.activity[a].es
    /\ Cardinality({b \in DOMAIN db.baseline : db.baseline[b].current}) <= 1

\* How long after its predecessor starts dependency d lets its successor start.
Gap(s, d) ==
    LET dep == s.dependency[d]
    IN dep.lag + (IF dep.type \in {"FS", "FF"} THEN s.activity[dep.pred].duration ELSE 0)
               - (IF dep.type \in {"FF", "SF"} THEN s.activity[dep.succ].duration ELSE 0)

Sources(s) == {a \in DOMAIN s.activity : Into(s, a) = {}}

\* Dependencies each of which begins where the one before ends, the first at an
\* activity that waits for none.
DependencyChains(s) ==
    LET dep == s.dependency
    IN {c \in UNION {[1..m -> DOMAIN dep] : m \in 1..Len(dep)} :
          /\ dep[c[1]].pred \in Sources(s)
          /\ \A i \in 2..Len(c) : dep[c[i]].pred = dep[c[i - 1]].succ}

\* To where, over which activities, and when the last of them starts if this path
\* alone decides.
Paths(s) ==
    {[to |-> a, on |-> {a}, start |-> s.activity[a].planned] : a \in Sources(s)}
    \cup {LET first == s.dependency[c[1]].pred
          IN [to |-> s.dependency[c[Len(c)]].succ,
              on |-> {first} \cup {s.dependency[d].succ : d \in Range(c)},
              start |-> s.activity[first].planned + SumFunction([i \in DOMAIN c |-> Gap(s, c[i])])]
          : c \in DependencyChains(s)}

\* Each activity starts when the longest path to it says.  It is critical if and
\* only if it is on a path to the end of the network that is over no earlier than
\* any other: under a lead, or a type other than finish-to-start, an activity that
\* has successors may end the project, and then no activity need be critical.
ScheduledBy(activity, paths, ends) ==
    LET over(path) == path.start + activity[path.to].duration
        decisive == {path \in paths : path.to \in ends /\ \A x \in paths : over(x) <= over(path)}
    IN /\ \A a \in DOMAIN activity : activity[a].es = Max({path.start : path \in {x \in paths : x.to = a}})
       /\ {a \in DOMAIN activity : activity[a].critical} = UNION {path.on : path \in decisive}

\* A calculation (recalculate_schedule) finds the longest paths, whatever the types
\* and lags of the dependencies, leads included, and whatever it found before.
CriticalPathIsTheLongest ==
    [][ Len(db'.activity) = Len(db.activity) /\ db'.activity # db.activity =>
          \E paths \in {Paths(db')} :
             ScheduledBy(db'.activity, paths, {a \in DOMAIN db'.activity : OutOf(db', a) = {}}) ]_db
=============================================================================
