-------------------------- MODULE TenantSweep_proofs --------------------------
(***************************************************************************)
(* Safety of the tenant sweeps for any number of workers, tenants and      *)
(* items.  The argument rests on one fact about a session, Turn: a batch   *)
(* sweep keeps its context for the whole of a tenant's turn and has every  *)
(* row it looked at and could act on in its open transaction, while the    *)
(* escalation sweep never has anything in its open transaction.            *)
(***************************************************************************)
EXTENDS TenantSweep, TLAPS

\* The state of one worker's session between two of its steps.
TurnOf(r) ==
    /\ r.tenant = NoTenant => r.dirty = {}
    /\ r.task = "escalate" => r.dirty = {}
    /\ r.task # "escalate" => r.context = r.tenant
    /\ r.task # "escalate" /\ r.tenant # NoTenant =>
         r.dirty = (r.batch \ r.todo) \cap Actionable
    /\ r.tenant # NoTenant => r.tenant \notin r.left
    /\ r.tenant # NoTenant => \A i \in r.batch : TenantOf[i] = r.tenant
    /\ r.task # "escalate" /\ r.tenant # NoTenant => \A i \in r.did : TenantOf[i] # r.tenant
    /\ \A i \in r.did : TenantOf[i] \notin r.left

Turn == \A w \in Workers : TurnOf(run[w])

\* What TypeOK says of one session.
SessionOK(r) ==
    /\ r \in Sessions
    /\ r.context \in {r.tenant, NoTenant}
    /\ r.todo \subseteq r.batch
    /\ \A i \in r.todo \cup r.dirty : TenantOf[i] = r.tenant

\* A worker that does nothing has a well-formed session (the start of a task,
\* its end and a crash all leave this one).
LEMMA AsleepIsOK == SessionOK(Asleep) /\ TurnOf(Asleep)
  BY SweepAssumption DEF SessionOK, Asleep, Sessions, TurnOf, Tasks

\* It is enough to look at the one session a step changes.
LEMMA OneSession ==
    ASSUME TypeOK, Turn, NEW w \in Workers, NEW r, Set(w, r), SessionOK(r), TurnOf(r),
           row' \in [Items -> {"idle", "due", "done"}], crashes' \in 0..MaxCrashes
    PROVE  TypeOK' /\ Turn'
<1>1. run' \in [Workers -> Sessions]
  BY DEF Set, TypeOK, SessionOK
<1>2. ASSUME NEW v \in Workers
      PROVE  SessionOK(run'[v]) /\ TurnOf(run'[v])
  <2>1. CASE v = w
    BY <2>1 DEF Set, TypeOK
  <2>2. CASE v # w
    BY <2>2 DEF Set, TypeOK, Turn, SessionOK
  <2> QED BY <2>1, <2>2
<1> QED BY <1>1, <1>2 DEF TypeOK, Turn, SessionOK, TurnOf

\* TypeOK and Turn hold for good: every step of every sweep, a failure and a
\* crash included, leaves the session of its worker in order.
LEMMA TurnIsInductive == TypeOK /\ Turn /\ [Next]_vars => TypeOK' /\ Turn'
<1> SUFFICES ASSUME TypeOK, Turn, [Next]_vars PROVE TypeOK' /\ Turn'
  OBVIOUS
<1>0. /\ \A w \in Workers : SessionOK(run[w]) /\ TurnOf(run[w])
      /\ row \in [Items -> {"idle", "due", "done"}]
      /\ crashes \in 0..MaxCrashes
  BY DEF TypeOK, Turn, SessionOK
<1>1. CASE UNCHANGED vars
  BY <1>1 DEF vars, TypeOK, Turn, TurnOf
<1>2. ASSUME NEW i \in Items, BecomesDue(i) PROVE TypeOK' /\ Turn'
  BY <1>2 DEF BecomesDue, TypeOK, Turn, TurnOf
<1>3. ASSUME NEW w \in Workers, NEW t \in Tasks, Start(w, t) PROVE TypeOK' /\ Turn'
  <2> DEFINE r == [Asleep EXCEPT !.task = t, !.left = Tenants]
  <2>1. SessionOK(r) /\ TurnOf(r)
    BY AsleepIsOK, SweepAssumption DEF SessionOK, Asleep, Sessions, TurnOf
  <2> QED BY <2>1, <1>0, <1>3, OneSession DEF Start
<1>4. ASSUME NEW w \in Workers, NEW t \in Tenants, Visit(w, t) PROVE TypeOK' /\ Turn'
  <2> DEFINE rows == DueRows(t, run[w].task)
             r == [run[w] EXCEPT !.left = @ \ {t}, !.tenant = t, !.context = t,
                                 !.batch = rows, !.todo = rows]
  <2>0. rows \subseteq Items /\ \A i \in rows : TenantOf[i] = t
    BY DEF DueRows
  <2>1. SessionOK(r)
    <3>1. run[w] \in Sessions /\ run[w].dirty = {}
      BY <1>0, <1>4 DEF SessionOK, Visit, TurnOf
    <3>2. r \in Sessions
      BY <3>1, <2>0 DEF Sessions
    <3>3. r.context = t /\ r.tenant = t /\ r.todo = rows /\ r.batch = rows /\ r.dirty = {}
      BY <3>1 DEF Sessions
    <3> QED BY <3>2, <3>3, <2>0 DEF SessionOK
  <2>2. TurnOf(r)
    BY <2>0, <1>0, <1>4, SweepAssumption DEF SessionOK, Sessions, Visit, TurnOf
  <2> QED BY <2>1, <2>2, <1>0, <1>4, OneSession DEF Visit
<1>5. ASSUME NEW w \in Workers, NEW i \in Items, PassOver(w, i) PROVE TypeOK' /\ Turn'
  <2> DEFINE r == [run[w] EXCEPT !.todo = @ \ {i}]
  <2>1. SessionOK(r) /\ TurnOf(r)
    BY <1>0, <1>5 DEF SessionOK, Sessions, PassOver, TurnOf
  <2> QED BY <2>1, <1>0, <1>5, OneSession DEF PassOver
<1>6. ASSUME NEW w \in Workers, NEW i \in Items, Handle(w, i) PROVE TypeOK' /\ Turn'
  <2> DEFINE r == [run[w] EXCEPT !.todo = @ \ {i}]
             e == [r EXCEPT !.did = @ \cup {i}, !.context = NoTenant]
             b == [r EXCEPT !.dirty = @ \cup {i}]
  <2>0. /\ i \in run[w].todo /\ i \in Actionable /\ i \in run[w].batch
        /\ TenantOf[i] = run[w].tenant
        /\ run[w].tenant \in Tenants
    BY <1>0, <1>6, SweepAssumption DEF Handle, SessionOK, Sessions
  <2>1. CASE run[w].task = "escalate"
    <3>1. Set(w, e) /\ Complete({i}) /\ UNCHANGED crashes
      BY <1>6, <2>1 DEF Handle, CommitsEach
    <3>2. /\ SessionOK(run[w]) /\ TurnOf(run[w])
          /\ run[w] \in Sessions
          /\ e \in Sessions
          /\ e.task = run[w].task /\ e.tenant = run[w].tenant /\ e.left = run[w].left
          /\ e.batch = run[w].batch /\ e.dirty = run[w].dirty
          /\ e.todo = run[w].todo \ {i} /\ e.did = run[w].did \cup {i} /\ e.context = NoTenant
      BY <1>0, <2>0 DEF SessionOK, Sessions
    <3>4. SessionOK(e)
      BY <3>2 DEF SessionOK
    <3>5. TurnOf(e)
      BY <3>2, <2>0, <2>1, SweepAssumption DEF TurnOf
    <3>3. row' \in [Items -> {"idle", "due", "done"}]
      BY <1>0, <3>1 DEF Complete
    <3> QED BY <3>1, <3>3, <3>4, <3>5, <1>0, OneSession
  <2>2. CASE run[w].task # "escalate"
    <3>1. Set(w, b) /\ UNCHANGED <<row, crashes>>
      BY <1>6, <2>2 DEF Handle, CommitsEach
    <3>2. SessionOK(b)
      BY <1>0, <2>0, <2>2 DEF SessionOK, Sessions
    <3>3. TurnOf(b)
      BY <1>0, <2>0, <2>2, SweepAssumption DEF SessionOK, Sessions, TurnOf
    <3> QED BY <3>1, <3>2, <3>3, <1>0, OneSession
  <2> QED BY <2>1, <2>2
<1>7. ASSUME NEW w \in Workers, NEW i \in Items, GiveUp(w, i) PROVE TypeOK' /\ Turn'
  <2> DEFINE r == [run[w] EXCEPT !.tenant = NoTenant, !.context = NoTenant,
                                 !.todo = {}, !.dirty = {}]
  <2>1. SessionOK(r) /\ TurnOf(r)
    BY <1>0, <1>7 DEF SessionOK, Sessions, GiveUp, TurnOf
  <2> QED BY <2>1, <1>0, <1>7, OneSession DEF GiveUp
<1>8. ASSUME NEW w \in Workers, Leave(w) PROVE TypeOK' /\ Turn'
  <2> DEFINE r == [run[w] EXCEPT !.tenant = NoTenant, !.context = NoTenant,
                                 !.dirty = {}, !.did = @ \cup run[w].dirty]
  <2>1. SessionOK(r) /\ TurnOf(r)
    BY <1>0, <1>8 DEF SessionOK, Sessions, Leave, TurnOf
  <2>2. row' \in [Items -> {"idle", "due", "done"}]
    BY <1>0, <1>8 DEF Leave, Complete
  <2> QED BY <2>1, <2>2, <1>0, <1>8, OneSession DEF Leave
<1>9. ASSUME NEW w \in Workers, Return(w) PROVE TypeOK' /\ Turn'
  BY <1>0, <1>9, AsleepIsOK, OneSession DEF Return
<1>10. ASSUME NEW w \in Workers, Crash(w) PROVE TypeOK' /\ Turn'
  <2>1. crashes' \in 0..MaxCrashes
    BY <1>0, <1>10, SweepAssumption DEF Crash
  <2> QED BY <2>1, <1>0, <1>10, AsleepIsOK, OneSession DEF Crash
<1> QED BY <1>1, <1>2, <1>3, <1>4, <1>5, <1>6, <1>7, <1>8, <1>9, <1>10 DEF Next

\* Every session a worker can get into is well formed (TypeOK), whatever
\* fails, dies or overlaps.
THEOREM SessionsAreInOrder == Spec => [](TypeOK /\ Turn)
<1>1. Init => TypeOK /\ Turn
  BY SweepAssumption, AsleepIsOK DEF Init, TypeOK, Turn, SessionOK
<1> QED BY <1>1, TurnIsInductive, PTL DEF Spec

\* A step that commits something is the end of a batch sweep's turn or one
\* escalation.
LEMMA WhoCommits ==
    ASSUME TypeOK, Turn, [Next]_vars, NEW w \in Workers, Committed(w) # {}
    PROVE  \/ /\ run[w].task = "escalate"
              /\ \E i \in run[w].todo : run[w].context = run[w].tenant /\ Committed(w) \subseteq {i}
           \/ /\ run[w].task # "escalate"
              /\ run[w].tenant # NoTenant
              /\ run[w].todo = {}
              /\ Committed(w) = run[w].dirty
<1>0. /\ \A v \in Workers : SessionOK(run[v]) /\ TurnOf(run[v])
      /\ run \in [Workers -> Sessions]
  BY DEF TypeOK, Turn, SessionOK
<1>1. ~ UNCHANGED run
  BY DEF Committed
<1>2. PICK v \in Workers :
         \/ \E t \in Tasks : Start(v, t)
         \/ \E t \in Tenants : Visit(v, t)
         \/ \E i \in Items : PassOver(v, i) \/ Handle(v, i) \/ GiveUp(v, i)
         \/ Leave(v)
         \/ Return(v)
         \/ Crash(v)
  BY <1>1 DEF Next, vars, BecomesDue
<1>3. v = w
  BY <1>0, <1>2 DEF Committed, Set, Start, Visit, PassOver, Handle, GiveUp, Leave, Return, Crash
<1>4. ASSUME NEW r, Set(w, r), r.did \subseteq run[w].did PROVE FALSE
  BY <1>0, <1>4 DEF Committed, Set
<1>5. CASE \E t \in Tasks : Start(w, t)
  BY <1>0, <1>4, <1>5 DEF Start, Asleep, Sessions
<1>6. CASE \E t \in Tenants : Visit(w, t)
  BY <1>0, <1>4, <1>6 DEF Visit, Sessions
<1>7. CASE \E i \in Items : PassOver(w, i) \/ GiveUp(w, i)
  BY <1>0, <1>4, <1>7 DEF PassOver, GiveUp, Sessions
<1>8. CASE \E i \in Items : Handle(w, i)
  <2>1. PICK i \in Items : Handle(w, i)
    BY <1>8
  <2>2. CASE run[w].task = "escalate"
    <3>1. Committed(w) \subseteq {i}
      <4> DEFINE e == [[run[w] EXCEPT !.todo = @ \ {i}] EXCEPT !.did = @ \cup {i},
                                                              !.context = NoTenant]
      <4>1. run' = [run EXCEPT ![w] = e]
        BY <2>1, <2>2 DEF Handle, CommitsEach, Set
      <4>2. e.did = run[w].did \cup {i}
        BY <1>0 DEF Sessions
      <4>3. run'[w] = e
        BY <4>1, <1>0
      <4> QED BY <4>2, <4>3 DEF Committed
    <3> QED BY <3>1, <2>1, <2>2 DEF Handle
  <2>3. CASE run[w].task # "escalate"
    BY <2>1, <2>3, <1>0, <1>4 DEF Handle, CommitsEach, Sessions
  <2> QED BY <2>2, <2>3
<1>9. CASE Leave(w)
  <2> DEFINE r == [run[w] EXCEPT !.tenant = NoTenant, !.context = NoTenant,
                                 !.dirty = {}, !.did = @ \cup run[w].dirty]
  <2>1. Set(w, r) /\ run[w].tenant # NoTenant /\ run[w].todo = {}
    BY <1>9 DEF Leave
  <2>2. run'[w].did = run[w].did \cup run[w].dirty
    BY <2>1, <1>0 DEF Set, Sessions
  <2>3. run[w].dirty # {}
    BY <2>2 DEF Committed
  <2>4. run[w].task # "escalate" /\ run[w].dirty \cap run[w].did = {}
    BY <1>0, <2>1, <2>3 DEF TurnOf, SessionOK
  <2> QED BY <2>1, <2>2, <2>4 DEF Committed
<1>10. CASE Return(w) \/ Crash(w)
  BY <1>0, <1>4, <1>10 DEF Return, Crash, Asleep, Sessions
<1> QED BY <1>2, <1>3, <1>5, <1>6, <1>7, <1>8, <1>9, <1>10

\* A sweep never writes a row outside a transaction of the row's own tenant,
\* although escalate_instance ends that transaction in the middle of its loop.
THEOREM SweepsWriteUnderOwnTenant == Spec => WritesUnderOwnTenant
<1>1. ASSUME TypeOK, Turn, [Next]_vars, NEW w \in Workers, NEW i \in Committed(w)
      PROVE  run[w].context = TenantOf[i]
  <2>1. SessionOK(run[w]) /\ TurnOf(run[w])
    BY <1>1 DEF TypeOK, Turn, SessionOK
  <2>2. Committed(w) # {}
    BY <1>1
  <2> QED BY <2>1, <2>2, <1>1, WhoCommits DEF SessionOK, TurnOf
<1>2. TypeOK /\ Turn /\ [Next]_vars =>
        [\A w \in Workers : \A i \in Committed(w) : run[w].context = TenantOf[i]]_vars
  BY <1>1
<1> QED BY <1>2, SessionsAreInOrder, PTL DEF Spec, WritesUnderOwnTenant

\* A reorder or cutover sweep commits a tenant's actionable rows together or
\* not at all.
THEOREM BatchesAreWhole == Spec => BatchIsWhole
<1>1. ASSUME TypeOK, Turn, [Next]_vars, NEW w \in Workers,
             run[w].task \in {"reorder", "cutover"}, Committed(w) # {}
      PROVE  Committed(w) = run[w].batch \cap Actionable
  <2>1. TurnOf(run[w])
    BY <1>1 DEF Turn
  <2> QED BY <2>1, <1>1, WhoCommits DEF TurnOf
<1>2. TypeOK /\ Turn /\ [Next]_vars =>
        [\A w \in Workers :
            run[w].task \in {"reorder", "cutover"} =>
                Committed(w) = {} \/ Committed(w) = run[w].batch \cap Actionable]_vars
  BY <1>1
<1> QED BY <1>2, SessionsAreInOrder, PTL DEF Spec, BatchIsWhole

-----------------------------------------------------------------------------
(* No tenant's turn ends empty-handed *)

\* What an escalation sweep has to show for the part of a turn that is over:
\* having lost its context or looked at a row it could act on, it has escalated.
ServedBy(r) ==
    r.task = "escalate" /\ r.tenant # NoTenant =>
        \/ r.did \cap r.batch # {}
        \/ r.context = r.tenant /\ (r.batch \ r.todo) \cap Actionable = {}

Served == \A w \in Workers : ServedBy(run[w])

\* It is enough to look at the one session a step changes.
LEMMA OneServed ==
    ASSUME TypeOK, Served, NEW w \in Workers, NEW r, Set(w, r), ServedBy(r)
    PROVE  Served'
<1>1. ASSUME NEW v \in Workers PROVE ServedBy(run'[v])
  BY DEF Set, TypeOK, Served
<1> QED BY <1>1 DEF Served, ServedBy

\* Served holds for good: a sweep loses its context only by escalating.
LEMMA ServedIsInductive == TypeOK /\ Turn /\ Served /\ [Next]_vars => Served'
<1> SUFFICES ASSUME TypeOK, Turn, Served, [Next]_vars PROVE Served'
  OBVIOUS
<1>0. \A w \in Workers : run[w] \in Sessions /\ SessionOK(run[w]) /\ TurnOf(run[w]) /\ ServedBy(run[w])
  BY DEF TypeOK, Turn, SessionOK, Served
<1>a. ServedBy(Asleep)
  BY DEF ServedBy, Asleep
<1>1. CASE UNCHANGED run
  BY <1>1 DEF Served, ServedBy
<1>2. ASSUME NEW w \in Workers, NEW t \in Tasks, Start(w, t) PROVE Served'
  <2>1. ServedBy([Asleep EXCEPT !.task = t, !.left = Tenants])
    BY DEF ServedBy, Asleep
  <2> QED BY <2>1, <1>2, OneServed DEF Start
<1>3. ASSUME NEW w \in Workers, NEW t \in Tenants, Visit(w, t) PROVE Served'
  <2> DEFINE rows == DueRows(t, run[w].task)
             r == [run[w] EXCEPT !.left = @ \ {t}, !.tenant = t, !.context = t,
                                 !.batch = rows, !.todo = rows]
  <2>1. ServedBy(r)
    BY <1>0 DEF ServedBy, Sessions
  <2> QED BY <2>1, <1>3, OneServed DEF Visit
<1>4. ASSUME NEW w \in Workers, NEW i \in Items, PassOver(w, i) PROVE Served'
  <2>1. ServedBy([run[w] EXCEPT !.todo = @ \ {i}])
    BY <1>0, <1>4 DEF ServedBy, Sessions, PassOver
  <2> QED BY <2>1, <1>4, OneServed DEF PassOver
<1>5. ASSUME NEW w \in Workers, NEW i \in Items, Handle(w, i) PROVE Served'
  <2> DEFINE r == [run[w] EXCEPT !.todo = @ \ {i}]
             e == [r EXCEPT !.did = @ \cup {i}, !.context = NoTenant]
             b == [r EXCEPT !.dirty = @ \cup {i}]
  <2>1. CASE run[w].task = "escalate"
    <3>1. i \in run[w].batch
      BY <1>0, <1>5 DEF Handle, SessionOK
    <3>2. e.did = run[w].did \cup {i} /\ e.batch = run[w].batch
      BY <1>0 DEF Sessions
    <3>3. ServedBy(e)
      BY <3>1, <3>2 DEF ServedBy
    <3> QED BY <3>3, <2>1, <1>5, OneServed DEF Handle, CommitsEach
  <2>2. CASE run[w].task # "escalate"
    <3>1. b.task = run[w].task
      BY <1>0 DEF Sessions
    <3>2. ServedBy(b)
      BY <3>1, <2>2 DEF ServedBy
    <3> QED BY <3>2, <2>2, <1>5, OneServed DEF Handle, CommitsEach
  <2> QED BY <2>1, <2>2
<1>6. ASSUME NEW w \in Workers, NEW i \in Items, GiveUp(w, i) PROVE Served'
  <2>1. ServedBy([run[w] EXCEPT !.tenant = NoTenant, !.context = NoTenant, !.todo = {}, !.dirty = {}])
    BY <1>0 DEF ServedBy, Sessions
  <2> QED BY <2>1, <1>6, OneServed DEF GiveUp
<1>7. ASSUME NEW w \in Workers, Leave(w) PROVE Served'
  <2>1. ServedBy([run[w] EXCEPT !.tenant = NoTenant, !.context = NoTenant,
                                !.dirty = {}, !.did = @ \cup run[w].dirty])
    BY <1>0 DEF ServedBy, Sessions
  <2> QED BY <2>1, <1>7, OneServed DEF Leave
<1>8. ASSUME NEW w \in Workers, Return(w) \/ Crash(w) PROVE Served'
  BY <1>8, <1>a, OneServed DEF Return, Crash
<1> QED BY <1>1, <1>2, <1>3, <1>4, <1>5, <1>6, <1>7, <1>8 DEF Next, BecomesDue, vars

\* Of a step that ends a tenant's turn: it gives up on a row, or it is the commit
\* after the last one.
LEMMA WhoLeaves ==
    ASSUME TypeOK, [Next]_vars, NEW w \in Workers,
           run[w].tenant # NoTenant, run'[w].tenant = NoTenant, run'[w].task = run[w].task
    PROVE  Leave(w) \/ \E i \in Items : GiveUp(w, i)
<1>0. /\ run \in [Workers -> Sessions]
      /\ \A v \in Workers : run[v].context \in {run[v].tenant, NoTenant}
  BY DEF TypeOK
<1>1. PICK v \in Workers :
         \/ \E t \in Tasks : Start(v, t)
         \/ \E t \in Tenants : Visit(v, t)
         \/ \E i \in Items : PassOver(v, i) \/ Handle(v, i) \/ GiveUp(v, i)
         \/ Leave(v)
         \/ Return(v)
         \/ Crash(v)
  BY DEF Next, vars, BecomesDue
<1>2. v = w
  BY <1>0, <1>1 DEF Set, Start, Visit, PassOver, Handle, GiveUp, Leave, Return, Crash
<1>3. ASSUME NEW r, Set(w, r) PROVE run'[w] = r
  BY <1>0, <1>3 DEF Set
<1>4. CASE \E t \in Tasks : Start(w, t)
  BY <1>0, <1>3, <1>4 DEF Start, Asleep, Tasks
<1>5. CASE \E t \in Tenants : Visit(w, t)
  BY <1>5 DEF Visit
<1>6. ASSUME NEW i \in Items, PassOver(w, i) PROVE FALSE
  BY <1>0, <1>3, <1>6 DEF PassOver, Sessions
<1>7. ASSUME NEW i \in Items, Handle(w, i) PROVE FALSE
  BY <1>0, <1>3, <1>7 DEF Handle, Sessions
<1>8. CASE Return(w) \/ Crash(w)
  BY <1>0, <1>3, <1>8 DEF Return, Crash, Asleep
<1> QED BY <1>1, <1>2, <1>4, <1>5, <1>6, <1>7, <1>8

\* No tenant's turn ends empty-handed unless one of its rows raised, although the
\* escalation sweep cannot go on after its first commit: any number of workers,
\* overlapping runs included.
THEOREM EveryTurnServes == Spec => EveryTenantIsServed
<1>1. ASSUME TypeOK, Turn, Served, [Next]_vars, NEW w \in Workers,
             run[w].tenant # NoTenant, run'[w].tenant = NoTenant, run'[w].task = run[w].task,
             run[w].batch \cap Actionable # {}, run[w].batch \cap Failing = {}
      PROVE  run'[w].did \cap run[w].batch # {}
  <2>0. run[w] \in Sessions /\ SessionOK(run[w]) /\ TurnOf(run[w]) /\ ServedBy(run[w])
    BY <1>1 DEF TypeOK, Turn, SessionOK, Served
  <2>1. CASE Leave(w)
    <3>1. run'[w].did = run[w].did \cup run[w].dirty /\ run[w].todo = {}
      BY <1>1, <2>0, <2>1 DEF Leave, Set, TypeOK, Sessions
    <3>2. CASE run[w].task = "escalate"
      BY <1>1, <2>0, <3>1, <3>2 DEF ServedBy
    <3>3. CASE run[w].task # "escalate"
      BY <1>1, <2>0, <3>1, <3>3 DEF TurnOf
    <3> QED BY <3>2, <3>3
  <2>2. CASE \E i \in Items : GiveUp(w, i)
    <3>1. run[w].context # run[w].tenant
      BY <1>1, <2>0, <2>2 DEF GiveUp, SessionOK
    <3>2. run'[w].did = run[w].did
      BY <1>1, <2>0, <2>2 DEF GiveUp, Set, TypeOK, Sessions
    <3>3. run[w].task = "escalate"
      BY <2>0, <3>1 DEF TurnOf
    <3> QED BY <1>1, <2>0, <3>1, <3>2, <3>3 DEF ServedBy
  <2> QED BY <1>1, <2>1, <2>2, WhoLeaves
<1>2. TypeOK /\ Turn /\ Served /\ [Next]_vars =>
        [\A w \in Workers :
            (/\ run[w].tenant # NoTenant
             /\ run'[w].tenant = NoTenant
             /\ run'[w].task = run[w].task
             /\ run[w].batch \cap Actionable # {}
             /\ run[w].batch \cap Failing = {})
                => run'[w].did \cap run[w].batch # {}]_vars
  BY <1>1
<1>3. Init => Served
  BY DEF Init, Served, ServedBy, Asleep
<1> QED BY <1>2, <1>3, ServedIsInductive, SessionsAreInOrder, PTL DEF Spec, EveryTenantIsServed

-----------------------------------------------------------------------------
(* Nothing is applied twice, with one worker *)

\* What a session has selected and not yet committed is still due.
StillDue == \A w \in Workers : \A i \in run[w].todo \cup run[w].dirty : row[i] = "due"

\* With one worker nobody else can handle what the session holds.
LEMMA StillDueIsInductive ==
    ASSUME \A v, w \in Workers : v = w
    PROVE  TypeOK /\ Turn /\ StillDue /\ [Next]_vars => StillDue'
<1> SUFFICES ASSUME TypeOK, Turn, StillDue, [Next]_vars PROVE StillDue'
  OBVIOUS
<1>0. /\ \A w \in Workers : run[w] \in Sessions /\ SessionOK(run[w]) /\ TurnOf(run[w])
      /\ row \in [Items -> {"idle", "due", "done"}]
      /\ run \in [Workers -> Sessions]
  BY DEF TypeOK, Turn, SessionOK
<1>1. CASE UNCHANGED vars
  BY <1>1 DEF vars, StillDue
<1>2. ASSUME NEW i \in Items, BecomesDue(i) PROVE StillDue'
  BY <1>0, <1>2 DEF BecomesDue, StillDue, Sessions
<1>3. ASSUME NEW w \in Workers, NEW r, Set(w, r),
             \A i \in r.todo \cup r.dirty : row'[i] = "due"
      PROVE  StillDue'
  BY <1>0, <1>3 DEF Set, StillDue
<1>4. ASSUME NEW w \in Workers, NEW t \in Tasks, Start(w, t) PROVE StillDue'
  BY <1>3, <1>4 DEF Start, Asleep
<1>5. ASSUME NEW w \in Workers, NEW t \in Tenants, Visit(w, t) PROVE StillDue'
  <2> DEFINE rows == DueRows(t, run[w].task)
             r == [run[w] EXCEPT !.left = @ \ {t}, !.tenant = t, !.context = t,
                                 !.batch = rows, !.todo = rows]
  <2>1. r.todo = rows /\ r.dirty = {}
    BY <1>0, <1>5 DEF Sessions, Visit, TurnOf
  <2>2. \A i \in rows : row[i] = "due"
    BY DEF DueRows
  <2> QED BY <2>1, <2>2, <1>3, <1>5 DEF Visit
<1>6. ASSUME NEW w \in Workers, NEW i \in Items, PassOver(w, i) \/ GiveUp(w, i) PROVE StillDue'
  BY <1>0, <1>3, <1>6 DEF PassOver, GiveUp, Sessions, StillDue
<1>7. ASSUME NEW w \in Workers, NEW i \in Items, Handle(w, i) PROVE StillDue'
  <2> DEFINE r == [run[w] EXCEPT !.todo = @ \ {i}]
             e == [r EXCEPT !.did = @ \cup {i}, !.context = NoTenant]
             b == [r EXCEPT !.dirty = @ \cup {i}]
  <2>1. CASE run[w].task = "escalate"
    <3>1. e.todo = run[w].todo \ {i} /\ e.dirty = {}
      BY <1>0, <2>1 DEF Sessions, TurnOf
    <3>2. \A j \in e.todo : row'[j] = "due"
      BY <1>0, <1>7, <2>1, <3>1 DEF Handle, CommitsEach, Complete, StillDue, Sessions
    <3> QED BY <3>1, <3>2, <1>3, <1>7, <2>1 DEF Handle, CommitsEach
  <2>2. CASE run[w].task # "escalate"
    <3>1. b.todo = run[w].todo \ {i} /\ b.dirty = run[w].dirty \cup {i} /\ i \in run[w].todo
      BY <1>0, <1>7 DEF Sessions, Handle
    <3> QED BY <3>1, <1>3, <1>7, <2>2 DEF Handle, CommitsEach, StillDue
  <2> QED BY <2>1, <2>2
<1>8. ASSUME NEW w \in Workers, Leave(w) PROVE StillDue'
  <2> DEFINE r == [run[w] EXCEPT !.tenant = NoTenant, !.context = NoTenant,
                                 !.dirty = {}, !.did = @ \cup run[w].dirty]
  <2>1. r.todo = {} /\ r.dirty = {}
    BY <1>0, <1>8 DEF Sessions, Leave
  <2> QED BY <2>1, <1>3, <1>8 DEF Leave
<1>9. ASSUME NEW w \in Workers, Return(w) \/ Crash(w) PROVE StillDue'
  BY <1>3, <1>9 DEF Return, Crash, Asleep
<1> QED BY <1>1, <1>2, <1>4, <1>5, <1>6, <1>7, <1>8, <1>9 DEF Next

\* One worker never escalates, orders or cuts over the same row twice, through any
\* number of runs, failures and deaths.  sweep_overlap shows what a second does.
THEOREM OneWorkerAppliesOnce ==
    ASSUME \A v, w \in Workers : v = w
    PROVE  Spec => AppliedOnce
<1>1. ASSUME TypeOK, Turn, StillDue, [Next]_vars, NEW w \in Workers, NEW i \in Committed(w)
      PROVE  row[i] = "due"
  <2>1. Committed(w) # {}
    BY <1>1
  <2>2. CASE run[w].task = "escalate"
    BY <1>1, <2>1, <2>2, WhoCommits DEF StillDue
  <2>3. CASE run[w].task # "escalate"
    BY <1>1, <2>1, <2>3, WhoCommits DEF StillDue
  <2> QED BY <2>2, <2>3
<1>2. TypeOK /\ Turn /\ StillDue /\ [Next]_vars =>
        [\A w \in Workers : \A i \in Committed(w) : row[i] = "due"]_vars
  BY <1>1
<1>3. Init => StillDue
  BY DEF Init, StillDue, Asleep
<1>4. TypeOK /\ Turn /\ StillDue /\ [Next]_vars => StillDue'
  BY StillDueIsInductive
<1> QED BY <1>2, <1>3, <1>4, SessionsAreInOrder, PTL DEF Spec, AppliedOnce
=============================================================================
