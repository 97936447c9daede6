----------------------- MODULE WorkflowEngine_proofs ------------------------
(***************************************************************************)
(* Theorems about WorkflowEngine for every set of users, workers and step  *)
(* chains, whether or not requests overlap.                                *)
(*                                                                         *)
(* The inductive invariant has three layers: the types together with the   *)
(* frame of every request in flight (it read a row of this very instance), *)
(* the approvals a row's position presupposes, and the right of everyone   *)
(* in the log to be there.                                                 *)
(***************************************************************************)
EXTENDS WorkflowEngine, WellFoundedInduction, TLAPS

-----------------------------------------------------------------------------
(* Step numbers *)

\* A nonempty set of step numbers has a least one, which Earliest names: what
\* sorted(...) in _next_applicable_step_number returns first.
LEMMA EarliestIsLeast ==
    ASSUME NEW S \in SUBSET Nat, S # {}
    PROVE  /\ Earliest(S) \in S
           /\ Earliest(S) \in Nat
           /\ \A n \in S : Earliest(S) <= n
<1>1. OpToRel(<, Nat) = {ss \in Nat \X Nat : ss[1] < ss[2]}
  BY Zenon DEF OpToRel
<1>2. \E m \in S : \A n \in S : ~ (<<n, m>> \in {ss \in Nat \X Nat : ss[1] < ss[2]})
  <2>1. \E m \in S : \A n \in S : ~ (<<n, m>> \in OpToRel(<, Nat))
    BY NatLessThanWellFounded, WFMin, Zenon
  <2>2. QED
    BY <2>1, <1>1, Zenon
<1>3. PICK m \in S : \A n \in S : ~ (<<n, m>> \in {ss \in Nat \X Nat : ss[1] < ss[2]})
  BY <1>2
<1>4. ASSUME NEW n \in S PROVE m <= n
  <2>1. ~ (n < m)
    <3>1. /\ <<n, m>> \in Nat \X Nat
          /\ <<n, m>>[1] = n
          /\ <<n, m>>[2] = m
      OBVIOUS
    <3>2. QED
      BY <3>1, <1>3, Zenon
  <2>2. QED
    BY <2>1
<1>5. QED
  BY <1>4 DEF Earliest

\* Every step of a chain an instance may run under is well formed.
LEMMA StepsAreTyped ==
    ASSUME NEW i \in Instances, NEW number, NEW s \in StepsAt(i, number)
    PROVE  /\ s \in i.chain
           /\ s.num = number
           /\ s.num \in Nat
           /\ s.rejectTo \in Nat \cup {NoStep}
BY WorkflowAssumption DEF StepsAt, ApplicableSteps, Instances

\* The step numbers after a given one are natural numbers, so the least of them exists.
LEMMA NumbersAreNat ==
    ASSUME NEW i \in Instances, NEW number
    PROVE  NumbersAfter(i, number) \in SUBSET Nat
BY WorkflowAssumption DEF NumbersAfter, Route, ApplicableSteps, Instances

\* Whatever step the search returns is at the instance's current number.
LEMMA ActionableAreCurrent ==
    ASSUME NEW i, NEW u, NEW s \in ActionableSteps(i, u)
    PROVE  s \in StepsAt(i, i.cur)
BY DEF ActionableSteps, NamedSteps, TargetSteps

-----------------------------------------------------------------------------
(* Types, and the frame of the requests in flight *)

\* A row a request may have in memory of the instance that is stored.
OfThisInstance(r) ==
    /\ r.status # "none"
    /\ r.chain = inst.chain
    /\ r.amount = inst.amount
    /\ r.starter = inst.starter

\* Before the instance exists nothing was logged and no request works on it;
\* afterwards every request works on a row of it.
Frame ==
    /\ inst.status = "none" => log = {} /\ \A p \in Processes : req[p] = Idle
    /\ \A p \in Processes : req[p] # Idle => OfThisInstance(req[p].seen)

\* What a handler may hand to Commit as the new row.
Writable(r) ==
    /\ r.status \in {"pending"} \cup Terminal
    /\ r.cur \in Nat
    /\ r.due \in Dues \cup {"fresh"}
    /\ r.esc \in BOOLEAN

\* The row a request in flight read is a well-formed row of the same instance.
LEMMA SeenIsTyped ==
    ASSUME TypeOK, Frame, NEW p \in Processes, req[p] # Idle
    PROVE  /\ req[p].seen \in Instances
           /\ req[p].user \in Users \cup {System}
           /\ Writable(req[p].seen)
           /\ OfThisInstance(req[p].seen)
BY DEF TypeOK, Frame, Requests, Instances, Writable, OfThisInstance, Dues, Terminal

\* Writing a row column by column over the stored one keeps the types, the
\* identity of the instance, and the frame of every other request.
LEMMA CommitKeepsFrame ==
    ASSUME TypeOK, Frame, NEW p \in Processes, req[p] # Idle,
           NEW new, Writable(new), NEW action \in Actions,
           NEW grants \in SUBSET Users,
           Commit(p, new, action, grants)
    PROVE  /\ TypeOK' /\ Frame'
           /\ inst'.chain = inst.chain /\ inst'.amount = inst.amount
           /\ inst'.status \in {new.status, inst.status}
           /\ inst'.cur \in {new.cur, inst.cur}
           /\ log' = log \cup {action}
           /\ \A q \in Processes : req'[q] # Idle => req'[q] = req[q] /\ req[q] # Idle
<1> DEFINE seen == req[p].seen
<1>1. /\ seen \in Instances /\ OfThisInstance(seen)
      /\ inst \in Instances /\ inst.status # "none"
  BY SeenIsTyped DEF TypeOK, Frame
<1>2. inst' = Save(seen, new)
  BY DEF Commit
<1>3. /\ inst' \in Instances
      /\ inst'.chain = inst.chain /\ inst'.amount = inst.amount
      /\ inst'.starter = inst.starter
      /\ inst'.status \in {new.status, inst.status}
      /\ inst'.cur \in {new.cur, inst.cur}
      /\ inst'.status # "none"
  <2>1. /\ inst'.status = Column(seen.status, new.status, inst.status)
        /\ inst'.cur = Column(seen.cur, new.cur, inst.cur)
        /\ inst'.due = IF new.due = "fresh" THEN "running"
                       ELSE Column(seen.due, new.due, inst.due)
        /\ inst'.esc = Column(seen.esc, new.esc, inst.esc)
        /\ inst'.chain = inst.chain /\ inst'.amount = inst.amount
        /\ inst'.starter = inst.starter
        /\ inst' = [status |-> inst'.status, chain |-> inst.chain, amount |-> inst.amount,
                    cur |-> inst'.cur, due |-> inst'.due, esc |-> inst'.esc,
                    starter |-> inst.starter]
    BY <1>1, <1>2 DEF Save, Instances
  <2>2. /\ inst'.status \in {new.status, inst.status}
        /\ inst'.cur \in {new.cur, inst.cur}
        /\ inst'.due \in {new.due, inst.due, "running"} \ {"fresh"} \/ inst'.due = inst.due
        /\ inst'.esc \in {new.esc, inst.esc}
    BY <2>1 DEF Column
  <2>3. /\ inst'.status \in {"pending"} \cup Terminal
        /\ inst'.cur \in Nat
        /\ inst'.due \in Dues
        /\ inst'.esc \in BOOLEAN
    BY <1>1, <2>2 DEF Writable, Instances, Dues
  <2>4. inst' \in Instances
    BY <1>1, <2>1, <2>3 DEF Instances
  <2>5. inst'.status # "none"
    BY <2>3 DEF Terminal
  <2>6. QED
    BY <2>1, <2>2, <2>4, <2>5
<1>4. req' = [req EXCEPT ![p] = Idle]
  BY DEF Commit
<1>5. Idle \in Requests
  BY DEF Idle, Requests, NoInstance, Instances, Dues
<1>6. TypeOK'
  BY <1>3, <1>4, <1>5 DEF TypeOK, Commit
<1>7. \A q \in Processes : req'[q] # Idle => req'[q] = req[q] /\ req[q] # Idle
  BY <1>4 DEF TypeOK
<1>8. Frame'
  BY <1>3, <1>7 DEF Frame, OfThisInstance
<1>9. QED
  BY <1>3, <1>6, <1>7, <1>8 DEF Commit

\* Entering a step (_enter_step) yields a row that may be written back.
LEMMA EnterStepIsWritable ==
    ASSUME NEW i \in Instances, i.status # "none", NEW number \in Nat
    PROVE  /\ Writable(EnterStep(i, number))
           /\ EnterStep(i, number).cur = number
           /\ EnterStep(i, number).status = i.status
BY DEF EnterStep, StepDueAt, Writable, Instances, Dues, Terminal

\* What approve_step makes of the row it read may be written back.
LEMMA AfterApprovalIsWritable ==
    ASSUME NEW i \in Instances, i.status # "none", NEW actions
    PROVE  Writable(AfterApproval(i, actions))
<1>1. Writable(i)
  BY DEF Writable, Instances, Dues, Terminal
<1>2. Writable([i EXCEPT !.status = "approved", !.due = "none"])
  BY DEF Writable, Instances, Dues, Terminal
<1>3. NumbersAfter(i, i.cur) # {} => Earliest(NumbersAfter(i, i.cur)) \in Nat
  BY NumbersAreNat, EarliestIsLeast
<1>4. QED
  BY <1>1, <1>2, <1>3, EnterStepIsWritable DEF AfterApproval

\* What reject_step makes of the row it read may be written back.
LEMMA AfterRejectionIsWritable ==
    ASSUME NEW i \in Instances, i.status # "none",
           NEW s, s.rejectTo \in Nat \cup {NoStep}
    PROVE  Writable(AfterRejection(i, s))
<1>1. Writable([i EXCEPT !.status = "rejected", !.due = "none"])
  BY DEF Writable, Instances, Dues, Terminal
<1>2. QED
  BY <1>1, EnterStepIsWritable DEF AfterRejection

\* The outcomes of a request's last step: it commits one of the rows a handler
\* computes, together with its action.
CommitsSomething(p) ==
    \E new, action, grants :
        /\ req[p] # Idle
        /\ Writable(new)
        /\ action \in Actions
        /\ grants \in SUBSET Users
        /\ Commit(p, new, action, grants)

\* Every handler ends in one commit of a writable row and a well-formed action:
\* the invariance proofs need only look at Commit.
LEMMA HandlersCommit ==
    ASSUME TypeOK, Frame, NEW p \in Processes,
           \/ Approve(p) \/ Reject(p) \/ \E to \in Delegates : Delegate(p, to)
           \/ Cancel(p) \/ Comment(p) \/ Escalate(p)
    PROVE  CommitsSomething(p)
<1> DEFINE seen == req[p].seen
           user == req[p].user
<1>1. req[p] # Idle
  <2>1. req[p].op # "idle"
    BY DEF Approve, Reject, Delegate, Cancel, Comment, Escalate
  <2>2. QED
    BY <2>1 DEF Idle
<1>2. /\ seen \in Instances /\ seen.status # "none" /\ seen.cur \in Nat
      /\ user \in Users \cup {System} /\ Writable(seen)
  BY <1>1, SeenIsTyped DEF OfThisInstance, Instances
<1>3. /\ \A type \in Operations, to \in Users \cup {System} :
            Action(type, seen.cur, user, to) \in Actions
      /\ granted \in SUBSET Users
      /\ Delegates \subseteq Users
  BY <1>2, WorkflowAssumption DEF Action, Actions, TypeOK
<1>4. CASE Approve(p)
  BY <1>1, <1>2, <1>3, <1>4, AfterApprovalIsWritable
     DEF Approve, CommitsSomething, Operations, Decisions
<1>5. CASE Reject(p)
  <2>1. PICK step \in ActionableSteps(seen, user) :
           Commit(p, AfterRejection(seen, step), Action("reject", step.num, user, System),
                  IF step.rejectTo # NoStep THEN {} ELSE granted)
    BY <1>5 DEF Reject
  <2>2. step.num = seen.cur /\ step.rejectTo \in Nat \cup {NoStep}
    BY <1>2, ActionableAreCurrent, StepsAreTyped
  <2>3. QED
    BY <1>1, <1>2, <1>3, <2>1, <2>2, AfterRejectionIsWritable
       DEF CommitsSomething, Operations, Decisions
<1>6. CASE \E to \in Delegates : Delegate(p, to)
  BY <1>1, <1>2, <1>3, <1>6 DEF Delegate, CommitsSomething, Operations, Decisions
<1>7. CASE Cancel(p)
  <2>1. Writable([seen EXCEPT !.status = "cancelled", !.due = "none"])
    BY <1>2 DEF Writable, Instances, Dues, Terminal
  <2>2. QED
    BY <1>1, <1>2, <1>3, <1>7, <2>1 DEF Cancel, CommitsSomething, Operations
<1>8. CASE Comment(p)
  BY <1>1, <1>2, <1>3, <1>8 DEF Comment, CommitsSomething, Operations
<1>9. CASE Escalate(p)
  <2>1. Writable([seen EXCEPT !.esc = TRUE])
    BY <1>2 DEF Writable, Instances, Dues, Terminal
  <2>2. QED
    BY <1>1, <1>2, <1>3, <1>9, <2>1 DEF Escalate, CommitsSomething, Operations
<1>10. QED
  BY <1>4, <1>5, <1>6, <1>7, <1>8, <1>9

\* The first step number entered by start_workflow_instance.
LEMMA StartEntersFirst ==
    ASSUME NEW u \in Users, NEW chain \in Chains, NEW amount \in Amounts \cup {NoAmount},
           Start(u, chain, amount)
    PROVE  /\ inst'.status = "pending" /\ inst'.chain = chain /\ inst'.amount = amount
           /\ inst' \in Instances
           /\ \A n \in Route(chain, amount) : n < inst'.cur => n = 0
<1> DEFINE i == [NoInstance EXCEPT !.status = "pending", !.chain = chain,
                                   !.amount = amount, !.starter = u]
<1>1. /\ i \in Instances /\ i.chain = chain /\ i.amount = amount /\ i.status = "pending"
      /\ i.esc = FALSE /\ i.starter = u
  BY DEF NoInstance, Instances, Dues, Terminal
<1> HIDE DEF i
<1>2. /\ NumbersAfter(i, 0) # {}
      /\ inst' = [i EXCEPT !.cur = Earliest(NumbersAfter(i, 0)),
                           !.due = IF StepDueAt(i, Earliest(NumbersAfter(i, 0))) = "fresh"
                                   THEN "running" ELSE "none"]
  BY DEF Start, i
<1>3. /\ Earliest(NumbersAfter(i, 0)) \in Nat
      /\ \A n \in NumbersAfter(i, 0) : Earliest(NumbersAfter(i, 0)) <= n
      /\ NumbersAfter(i, 0) \in SUBSET Nat
  BY <1>1, <1>2, NumbersAreNat, EarliestIsLeast
<1>4. /\ inst' \in Instances /\ inst'.cur = Earliest(NumbersAfter(i, 0))
      /\ inst'.status = "pending" /\ inst'.chain = chain /\ inst'.amount = amount
  BY <1>1, <1>2, <1>3 DEF Instances, Dues
<1>5. Route(chain, amount) \subseteq Nat
  BY WorkflowAssumption DEF Route, ApplicableSteps
<1>6. ASSUME NEW n \in Route(chain, amount), n < inst'.cur PROVE n = 0
  <2>1. n > 0 => n \in NumbersAfter(i, 0)
    BY <1>1, <1>5 DEF NumbersAfter
  <2>2. QED
    BY <1>3, <1>4, <1>5, <1>6, <2>1
<1>7. QED
  BY <1>4, <1>6

\* Types, and the agreement of every snapshot with the instance, survive every step.
LEMMA FrameIsInductive == TypeOK /\ Frame /\ [Next]_vars => TypeOK' /\ Frame'
<1> SUFFICES ASSUME TypeOK, Frame, [Next]_vars PROVE TypeOK' /\ Frame'
  OBVIOUS
<1>1. ASSUME NEW u \in Users, NEW chain \in Chains, NEW amount \in Amounts \cup {NoAmount},
             Start(u, chain, amount)
      PROVE  TypeOK' /\ Frame'
  BY <1>1, StartEntersFirst DEF Start, TypeOK, Frame
<1>2. ASSUME NEW w \in Workers, NEW u \in Users, NEW op \in Operations, Begin(w, u, op)
      PROVE  TypeOK' /\ Frame'
  <2>1. [op |-> op, user |-> u, seen |-> inst] \in Requests
    BY DEF Requests, TypeOK
  <2>2. inst.status # "none"
    BY <1>2 DEF Begin
  <2>3. QED
    BY <1>2, <2>1, <2>2 DEF Begin, TypeOK, Frame, OfThisInstance
<1>3. CASE SweepBegin
  <2>1. [op |-> "escalate", user |-> System, seen |-> inst] \in Requests
    BY DEF Requests, TypeOK, Operations
  <2>2. inst.status # "none"
    BY <1>3 DEF SweepBegin, Overdue
  <2>3. QED
    BY <1>3, <2>1, <2>2 DEF SweepBegin, TypeOK, Frame, OfThisInstance
<1>4. ASSUME NEW p \in Processes, CommitsSomething(p)
      PROVE  TypeOK' /\ Frame'
  BY <1>4, CommitKeepsFrame DEF CommitsSomething
<1>5. ASSUME NEW p \in Processes, Abandon(p)
      PROVE  TypeOK' /\ Frame'
  <2>1. Idle \in Requests
    BY DEF Idle, Requests, NoInstance, Instances, Dues
  <2>2. QED
    BY <1>5, <2>1 DEF Abandon, TypeOK, Frame, OfThisInstance
<1>6. CASE DueDatePasses
  BY <1>6 DEF DueDatePasses, TypeOK, Frame, OfThisInstance, Instances, Dues
<1>7. CASE UNCHANGED vars
  BY <1>7 DEF vars, TypeOK, Frame, OfThisInstance
<1>8. Workers \subseteq Processes
  BY DEF Processes
<1>9. QED
  BY <1>1, <1>2, <1>3, <1>4, <1>5, <1>6, <1>7, <1>8, HandlersCommit DEF Next

\* The row, the log and the requests in flight are well formed, always.
THEOREM TypeCorrect == Spec => [](TypeOK /\ Frame)
<1>1. Init => TypeOK /\ Frame
  BY DEF Init, TypeOK, Frame, Idle, NoInstance, Instances, Requests, Dues
<1>2. QED
  BY <1>1, FrameIsInductive, PTL DEF Spec

-----------------------------------------------------------------------------
(* No step number is passed without an approval *)

\* What the position of a row presupposes of the log.
Cleared(r) ==
    \A n \in Route(inst.chain, inst.amount) \ {0} :
        (n < r.cur \/ r.status = "approved") => ApprovedAt(n)

\* The stored row and every row a request still has in memory.  Without the
\* second part the invariant is not inductive: an old row may be written back.
Progress ==
    RejectsGoBack(inst.chain) =>
        /\ Cleared(inst)
        /\ \A p \in Processes : req[p] # Idle => Cleared(req[p].seen)

\* Columns of two cleared rows make a cleared row.
LEMMA CommitKeepsProgress ==
    ASSUME TypeOK, Frame, Progress, RejectsGoBack(inst.chain),
           NEW p \in Processes, req[p] # Idle,
           NEW new, Writable(new), NEW action \in Actions, NEW grants \in SUBSET Users,
           Commit(p, new, action, grants),
           \A n \in Route(inst.chain, inst.amount) \ {0} :
              (n < new.cur \/ new.status = "approved") =>
                  \E a \in log \cup {action} : a.type = "approve" /\ a.step = n
    PROVE  Progress'
<1>1. /\ inst'.chain = inst.chain /\ inst'.amount = inst.amount
      /\ inst'.status \in {new.status, inst.status}
      /\ inst'.cur \in {new.cur, inst.cur}
      /\ log' = log \cup {action}
      /\ \A q \in Processes : req'[q] # Idle => req'[q] = req[q] /\ req[q] # Idle
  BY CommitKeepsFrame
<1>2. \A n : ApprovedAt(n) => ApprovedAt(n)'
  BY <1>1 DEF ApprovedAt
<1>3. Cleared(inst)'
  BY <1>1, <1>2 DEF Progress, Cleared, ApprovedAt
<1>4. ASSUME NEW q \in Processes, req'[q] # Idle PROVE Cleared(req[q].seen)'
  BY <1>1, <1>2, <1>4 DEF Progress, Cleared
<1>5. QED
  BY <1>1, <1>3, <1>4 DEF Progress

\* approve_step advances to the least applicable number after the one it
\* approved, so nothing lies in between.
LEMMA ApprovalClears ==
    ASSUME TypeOK, Frame, Progress, RejectsGoBack(inst.chain),
           NEW p \in Processes, req[p] # Idle,
           NEW action, action.type = "approve", action.step = req[p].seen.cur,
           NEW n \in Route(inst.chain, inst.amount) \ {0},
           \/ n < AfterApproval(req[p].seen, log \cup {action}).cur
           \/ AfterApproval(req[p].seen, log \cup {action}).status = "approved"
    PROVE  \E a \in log \cup {action} : a.type = "approve" /\ a.step = n
<1> DEFINE seen == req[p].seen
           later == NumbersAfter(seen, seen.cur)
           new == AfterApproval(seen, log \cup {action})
<1>1. /\ seen \in Instances /\ seen.cur \in Nat /\ seen.status # "none"
      /\ seen.chain = inst.chain /\ seen.amount = inst.amount
      /\ Cleared(seen)
  BY SeenIsTyped DEF OfThisInstance, Instances, Progress
<1>2. Route(seen.chain, seen.amount) \subseteq Nat
  BY <1>1, WorkflowAssumption DEF Route, ApplicableSteps, Instances
<1>3. n < seen.cur \/ n = seen.cur \/ n \in later
  BY <1>1, <1>2 DEF NumbersAfter
<1>4. CASE n < seen.cur
  BY <1>1, <1>4 DEF Cleared, ApprovedAt
<1>5. CASE n = seen.cur
  BY <1>5
<1>6. CASE n \in later
  <2>1. later # {} /\ later \in SUBSET Nat
    BY <1>6, <1>1, NumbersAreNat
  <2>2. Earliest(later) \in Nat /\ Earliest(later) <= n
    BY <1>6, <2>1, EarliestIsLeast
  <2>3. CASE new = seen
    <3>1. n < seen.cur \/ seen.status = "approved"
      BY <2>3
    <3>2. QED
      BY <1>1, <3>1 DEF Cleared, ApprovedAt
  <2>4. CASE new = EnterStep(seen, Earliest(later))
    <3>1. new.cur = Earliest(later) /\ new.status = seen.status
      BY <1>1, <2>2, <2>4, EnterStepIsWritable
    <3>2. n < Earliest(later) \/ seen.status = "approved"
      BY <3>1
    <3>3. seen.status = "approved"
      BY <3>2, <2>2, <2>1, <1>6
    <3>4. QED
      BY <1>1, <3>3 DEF Cleared, ApprovedAt
  <2>5. QED
    BY <2>1, <2>3, <2>4 DEF AfterApproval
<1>7. QED
  BY <1>3, <1>4, <1>5, <1>6

\* Progress, the strengthening of NoStepSkipped that also speaks of the rows read
\* by requests still in flight, survives every step.
LEMMA ProgressIsInductive == TypeOK /\ Frame /\ Progress /\ [Next]_vars => Progress'
<1> SUFFICES ASSUME TypeOK, Frame, Progress, [Next]_vars, RejectsGoBack(inst'.chain)
             PROVE  Progress'
  BY DEF Progress
<1> USE DEF Processes
<1>1. ASSUME NEW u \in Users, NEW chain \in Chains, NEW amount \in Amounts \cup {NoAmount},
             Start(u, chain, amount)
      PROVE  Progress'
  <2>1. inst.status = "none"
    BY <1>1 DEF Start
  <2>2. \A p \in Processes : req'[p] = Idle
    BY <1>1, <2>1 DEF Start, Frame
  <2>3. Cleared(inst)'
    BY <1>1, StartEntersFirst DEF Cleared
  <2>4. QED
    BY <2>2, <2>3 DEF Progress
<1>2. ASSUME inst'.chain = inst.chain, inst'.amount = inst.amount,
             inst'.cur = inst.cur, inst'.status = inst.status, log' = log,
             \A q \in Processes : req'[q] # Idle =>
                 \/ req[q] # Idle /\ req'[q] = req[q]
                 \/ req'[q].seen = inst
      PROVE  Progress'
  BY <1>2 DEF Progress, Cleared, ApprovedAt
<1>3. ASSUME NEW w \in Workers, NEW u \in Users, NEW op \in Operations, Begin(w, u, op)
      PROVE  Progress'
  BY <1>2, <1>3 DEF Begin, TypeOK
<1>4. CASE SweepBegin
  BY <1>2, <1>4 DEF SweepBegin, TypeOK
<1>5. ASSUME NEW p \in Processes, Abandon(p) PROVE Progress'
  BY <1>2, <1>5 DEF Abandon, TypeOK
<1>6. CASE DueDatePasses
  BY <1>2, <1>6 DEF DueDatePasses, TypeOK, Instances
<1>7. CASE UNCHANGED vars
  BY <1>2, <1>7 DEF vars
<1>8. ASSUME NEW p \in Processes,
             \/ Approve(p) \/ Reject(p) \/ \E to \in Delegates : Delegate(p, to)
             \/ Cancel(p) \/ Comment(p) \/ Escalate(p)
      PROVE  Progress'
  <2> DEFINE seen == req[p].seen
             user == req[p].user
  <2>1. PICK new0, action0, grants0 :
           /\ req[p] # Idle /\ Writable(new0) /\ action0 \in Actions
           /\ grants0 \in SUBSET Users /\ Commit(p, new0, action0, grants0)
    BY <1>8, HandlersCommit DEF CommitsSomething
  <2>2. inst'.chain = inst.chain
    BY <2>1, CommitKeepsFrame
  <2>3. RejectsGoBack(inst.chain)
    BY <2>2
  <2>4. /\ seen \in Instances /\ seen.cur \in Nat /\ Writable(seen) /\ seen.status # "none"
        /\ user \in Users \cup {System} /\ Cleared(seen)
        /\ seen.chain = inst.chain /\ seen.amount = inst.amount
    BY <2>1, <2>3, SeenIsTyped DEF OfThisInstance, Progress, Instances
  <2>5. /\ \A type \in Operations, to \in Users \cup {System} :
              Action(type, seen.cur, user, to) \in Actions
        /\ granted \in SUBSET Users
        /\ Delegates \subseteq Users
    BY <2>4, WorkflowAssumption DEF Action, Actions, TypeOK
  <2>6. ASSUME NEW new, Writable(new), new.cur <= seen.cur,
               new.status = "approved" => seen.status = "approved",
               NEW type \in Operations, NEW to \in Users \cup {System},
               NEW grants \in SUBSET Users,
               Commit(p, new, Action(type, seen.cur, user, to), grants)
        PROVE  Progress'
    <3>1. ASSUME NEW n \in Route(inst.chain, inst.amount) \ {0},
                 n < new.cur \/ new.status = "approved"
          PROVE  \E a \in log \cup {Action(type, seen.cur, user, to)} :
                     a.type = "approve" /\ a.step = n
      <4>1. n \in Nat /\ new.cur \in Nat
        BY <2>4, <2>6, WorkflowAssumption
           DEF Route, ApplicableSteps, Instances, TypeOK, Writable
      <4>2. n < seen.cur \/ seen.status = "approved"
        BY <2>4, <2>6, <3>1, <4>1
      <4>3. QED
        BY <2>4, <4>2 DEF Cleared, ApprovedAt
    <3>2. QED
      BY <2>1, <2>3, <2>5, <2>6, <3>1, CommitKeepsProgress
  <2>7. CASE Approve(p)
    <3> DEFINE action == Action("approve", seen.cur, user, System)
               new == AfterApproval(seen, log \cup {action})
    <3>1. /\ Commit(p, new, action, IF new.cur # seen.cur THEN {} ELSE granted)
          /\ action \in Actions
          /\ action.type = "approve" /\ action.step = seen.cur
          /\ (IF new.cur # seen.cur THEN {} ELSE granted) \in SUBSET Users
      BY <2>5, <2>7 DEF Approve, Operations, Decisions, Action
    <3>2. Writable(new)
      BY <2>4, AfterApprovalIsWritable
    <3>3. \A n \in Route(inst.chain, inst.amount) \ {0} :
              (n < new.cur \/ new.status = "approved") =>
                  \E a \in log \cup {action} : a.type = "approve" /\ a.step = n
      BY <2>1, <2>3, <3>1, ApprovalClears
    <3> HIDE DEF new, action
    <3>4. QED
      BY <2>1, <2>3, <3>1, <3>2, <3>3, CommitKeepsProgress
  <2>8. CASE Reject(p)
    <3>1. PICK step \in ActionableSteps(seen, user) :
             Commit(p, AfterRejection(seen, step), Action("reject", step.num, user, System),
                    IF step.rejectTo # NoStep THEN {} ELSE granted)
      BY <2>8 DEF Reject
    <3>2. /\ step \in seen.chain /\ step.num = seen.cur
          /\ step.rejectTo \in Nat \cup {NoStep}
      BY <2>4, ActionableAreCurrent, StepsAreTyped
    <3>3. step.rejectTo # NoStep => step.rejectTo \in Nat /\ step.rejectTo <= seen.cur
      BY <2>3, <2>4, <3>2 DEF RejectsGoBack
    <3> DEFINE new == AfterRejection(seen, step)
    <3>4. /\ new.cur <= seen.cur
          /\ new.status = "approved" => seen.status = "approved"
      <4>1. CASE step.rejectTo # NoStep
        <5>1. new = EnterStep(seen, step.rejectTo)
          BY <4>1 DEF AfterRejection
        <5>2. QED
          BY <5>1, <4>1, <3>3, <2>4, EnterStepIsWritable
      <4>2. CASE step.rejectTo = NoStep
        BY <4>2, <2>4 DEF AfterRejection, Instances
      <4>3. QED
        BY <4>1, <4>2
    <3>5. Writable(new)
      BY <2>4, <3>2, AfterRejectionIsWritable
    <3>6. (IF step.rejectTo # NoStep THEN {} ELSE granted) \in SUBSET Users
      BY <2>5
    <3>7. "reject" \in Operations /\ Commit(p, new, Action("reject", seen.cur, user, System),
                    IF step.rejectTo # NoStep THEN {} ELSE granted)
      BY <3>1, <3>2 DEF Operations, Decisions
    <3> HIDE DEF new
    <3>8. QED
      BY <2>6, <3>4, <3>5, <3>6, <3>7
  <2>9. CASE \E to \in Delegates : Delegate(p, to)
    BY <2>4, <2>5, <2>6, <2>9 DEF Delegate, Operations, Decisions
  <2>10. CASE Cancel(p)
    <3> DEFINE new == [seen EXCEPT !.status = "cancelled", !.due = "none"]
    <3>1. /\ Writable(new) /\ new.cur <= seen.cur /\ new.status # "approved"
          /\ Commit(p, new, Action("cancel", seen.cur, user, System), granted)
      BY <2>4, <2>10 DEF Cancel, Instances, Writable, Dues, Terminal
    <3> HIDE DEF new
    <3>2. QED
      BY <2>5, <2>6, <3>1 DEF Operations
  <2>11. CASE Comment(p)
    BY <2>4, <2>5, <2>6, <2>11 DEF Comment, Operations
  <2>12. CASE Escalate(p)
    <3> DEFINE new == [seen EXCEPT !.esc = TRUE]
    <3>1. /\ Writable(new) /\ new.cur <= seen.cur /\ new.status = seen.status
          /\ Commit(p, new, Action("escalate", seen.cur, user, System), granted)
      BY <2>4, <2>12 DEF Escalate, Instances, Writable, Dues, Terminal
    <3> HIDE DEF new
    <3>2. QED
      BY <2>5, <2>6, <3>1 DEF Operations
  <2>13. QED
    BY <1>8, <2>7, <2>8, <2>9, <2>10, <2>11, <2>12
<1>9. QED
  BY <1>1, <1>3, <1>4, <1>5, <1>6, <1>7, <1>8 DEF Next

\* Whatever requests overlap, an approval of a chain whose rejections go back
\* never gets past a step number at which nobody approved.
THEOREM NoStepIsEverSkipped == Spec => []NoStepSkipped
<1>1. Init => Progress
  BY DEF Init, Progress, Cleared, NoInstance, Route, ApplicableSteps
<1>2. TypeOK /\ Frame /\ Progress => NoStepSkipped
  BY DEF Progress, Cleared, NoStepSkipped
<1>3. QED
  BY <1>1, <1>2, TypeCorrect, ProgressIsInductive, PTL DEF Spec

-----------------------------------------------------------------------------
(* Everyone in the log had a right to be there *)

Entitled(number, u) ==
    Named(number, u) \/ u \in DelegatedTo(number) \/ Targeted(number, u)

\* The search returns a step only to someone entitled at that number.
LEMMA ActionableIsEntitled ==
    ASSUME TypeOK, Frame, NEW p \in Processes, req[p] # Idle,
           NEW u, ActionableSteps(req[p].seen, u) # {}
    PROVE  Entitled(req[p].seen.cur, u)
BY SeenIsTyped
   DEF OfThisInstance, ActionableSteps, NamedSteps, TargetSteps, StepsAt, Entitled,
       Named, Targeted

\* Committing an action of somebody entitled keeps every logged decision entitled.
LEMMA CommitKeepsEntitlement ==
    ASSUME TypeOK, Frame, NoOutsiderDecides, NEW p \in Processes, req[p] # Idle,
           NEW new, Writable(new), NEW action \in Actions, NEW grants \in SUBSET Users,
           Commit(p, new, action, grants),
           action.type \in Decisions => Entitled(action.step, action.actor)
    PROVE  NoOutsiderDecides'
<1>1. /\ inst'.chain = inst.chain /\ inst'.amount = inst.amount
      /\ log' = log \cup {action}
  BY CommitKeepsFrame
<1>2. ASSUME NEW n, NEW u, Entitled(n, u) PROVE Entitled(n, u)'
  BY <1>1, <1>2 DEF Entitled, Named, Targeted, DelegatedTo
<1>3. ASSUME NEW a \in log', a.type \in Decisions PROVE Entitled(a.step, a.actor)
  BY <1>1, <1>3 DEF NoOutsiderDecides, Entitled
<1>4. QED
  BY <1>2, <1>3 DEF NoOutsiderDecides, Entitled

\* Every step of the engine keeps NoOutsiderDecides.
LEMMA EntitlementIsInductive ==
    TypeOK /\ Frame /\ NoOutsiderDecides /\ [Next]_vars => NoOutsiderDecides'
<1> SUFFICES ASSUME TypeOK, Frame, NoOutsiderDecides, [Next]_vars
             PROVE  NoOutsiderDecides'
  OBVIOUS
<1> USE DEF Processes
<1>1. ASSUME NEW u \in Users, NEW chain \in Chains, NEW amount \in Amounts \cup {NoAmount},
             Start(u, chain, amount)
      PROVE  NoOutsiderDecides'
  BY <1>1 DEF Start, Frame, NoOutsiderDecides
<1>2. ASSUME inst'.chain = inst.chain, inst'.amount = inst.amount, log' = log
      PROVE  NoOutsiderDecides'
  BY <1>2 DEF NoOutsiderDecides, Named, Targeted, DelegatedTo
<1>3. ASSUME NEW p \in Processes,
             \/ Approve(p) \/ Reject(p) \/ \E to \in Delegates : Delegate(p, to)
             \/ Cancel(p) \/ Comment(p) \/ Escalate(p)
      PROVE  NoOutsiderDecides'
  <2> DEFINE seen == req[p].seen
             user == req[p].user
  <2>1. PICK new, action, grants :
           /\ req[p] # Idle /\ Writable(new) /\ action \in Actions
           /\ grants \in SUBSET Users /\ Commit(p, new, action, grants)
    BY <1>3, HandlersCommit DEF CommitsSomething
  <2>2. /\ log' = log \cup {action}
        /\ inst'.chain = inst.chain /\ inst'.amount = inst.amount
    BY <2>1, CommitKeepsFrame
  <2>3. ASSUME NEW own, log' = log \cup {own},
               own.type \in Decisions => Entitled(own.step, own.actor)
        PROVE  NoOutsiderDecides'
    <3>1. CASE action = own
      BY <2>1, <2>3, <3>1, CommitKeepsEntitlement
    <3>2. CASE action # own
      <4>1. log' = log
        BY <2>2, <2>3, <3>2
      <4>2. QED
        BY <1>2, <2>2, <4>1
    <3>3. QED
      BY <2>2, <2>3, <3>1, <3>2
  <2>4. CASE Approve(p) \/ \E to \in Delegates : Delegate(p, to)
    <3>1. ActionableSteps(seen, user) # {}
      BY <2>4 DEF Approve, Delegate
    <3>2. Entitled(seen.cur, user)
      BY <2>1, <3>1, ActionableIsEntitled
    <3>3. CASE Approve(p)
      <4>1. log' = log \cup {Action("approve", seen.cur, user, System)}
        BY <3>3 DEF Approve, Commit
      <4>2. QED
        BY <2>3, <3>2, <4>1 DEF Action
    <3>4. CASE \E to \in Delegates : Delegate(p, to)
      <4>1. PICK to \in Delegates : log' = log \cup {Action("delegate", seen.cur, user, to)}
        BY <3>4 DEF Delegate, Commit
      <4>2. QED
        BY <2>3, <3>2, <4>1 DEF Action
    <3>5. QED
      BY <2>4, <3>3, <3>4
  <2>5. CASE Reject(p)
    <3>1. PICK step \in ActionableSteps(seen, user) :
             log' = log \cup {Action("reject", step.num, user, System)}
      BY <2>5 DEF Reject, Commit
    <3>2. step.num = seen.cur
      BY <2>1, SeenIsTyped, ActionableAreCurrent, StepsAreTyped
    <3>3. Entitled(seen.cur, user)
      BY <2>1, <3>1, ActionableIsEntitled
    <3>4. QED
      BY <2>3, <3>1, <3>2, <3>3 DEF Action
  <2>6. CASE Cancel(p) \/ Comment(p) \/ Escalate(p)
    <3>1. PICK type \in {"cancel", "comment", "escalate"} :
             log' = log \cup {Action(type, seen.cur, user, System)}
      BY <2>6 DEF Cancel, Comment, Escalate, Commit
    <3>2. Action(type, seen.cur, user, System).type \notin Decisions
      BY DEF Action, Decisions
    <3>3. QED
      BY <2>3, <3>1, <3>2
  <2>7. QED
    BY <1>3, <2>4, <2>5, <2>6
<1>4. ASSUME NEW w \in Workers, NEW u \in Users, NEW op \in Operations, Begin(w, u, op)
      PROVE  NoOutsiderDecides'
  BY <1>2, <1>4 DEF Begin
<1>5. CASE SweepBegin
  BY <1>2, <1>5 DEF SweepBegin
<1>6. ASSUME NEW p \in Processes, Abandon(p) PROVE NoOutsiderDecides'
  BY <1>2, <1>6 DEF Abandon
<1>7. CASE DueDatePasses
  BY <1>2, <1>7 DEF DueDatePasses, TypeOK, Instances
<1>8. CASE UNCHANGED vars
  BY <1>2, <1>8 DEF vars
<1>9. QED
  BY <1>1, <1>3, <1>4, <1>5, <1>6, <1>7, <1>8 DEF Next

\* Only an approver of the step, someone it was delegated to or its escalation
\* target ever decides at a step, whatever requests overlap.
THEOREM OutsidersNeverDecide == Spec => []NoOutsiderDecides
<1>1. Init => NoOutsiderDecides
  BY DEF Init, NoOutsiderDecides
<1>2. QED
  BY <1>1, TypeCorrect, EntitlementIsInductive, PTL DEF Spec

-----------------------------------------------------------------------------
(* One request at a time *)

\* A single request is in flight, and the row it read is the stored one (the
\* clock apart); whatever it is going to decide, the instance is pending.
Serial ==
    /\ \A p, q \in Processes : req[p] # Idle /\ req[q] # Idle => p = q
    /\ \A p \in Processes : req[p] # Idle =>
         /\ req[p].seen.status = inst.status
         /\ req[p].seen.cur = inst.cur
         /\ req[p].seen.esc = inst.esc
         /\ req[p].op # "comment" => inst.status = "pending"

\* While requests do not overlap, the row a request read is the row in the database.
LEMMA SerialIsInductive ==
    ASSUME ~ Concurrent
    PROVE  TypeOK /\ Frame /\ Serial /\ [Next]_vars => Serial'
<1> SUFFICES ASSUME TypeOK, Frame, Serial, [Next]_vars PROVE Serial'
  OBVIOUS
<1> USE DEF Processes
<1>1. ASSUME NEW u \in Users, NEW chain \in Chains, NEW amount \in Amounts \cup {NoAmount},
             Start(u, chain, amount)
      PROVE  Serial'
  BY <1>1 DEF Start, Frame, Serial
<1>2. ASSUME NEW p \in Processes, MayBegin(p), NEW r,
             req' = [req EXCEPT ![p] = r], r.seen = inst, inst' = inst,
             r.op # "comment" => inst.status = "pending"
      PROVE  Serial'
  BY <1>2 DEF MayBegin, Serial, TypeOK
<1>3. ASSUME NEW w \in Workers, NEW u \in Users, NEW op \in Operations, Begin(w, u, op)
      PROVE  Serial'
  <2> DEFINE r == [op |-> op, user |-> u, seen |-> inst]
  <2>1. /\ MayBegin(w) /\ req' = [req EXCEPT ![w] = r] /\ inst' = inst
        /\ r.seen = inst
        /\ r.op # "comment" => inst.status = "pending"
    BY <1>3 DEF Begin
  <2> HIDE DEF r
  <2>2. QED
    BY <1>2, <2>1
<1>4. CASE SweepBegin
  <2> DEFINE r == [op |-> "escalate", user |-> System, seen |-> inst]
  <2>1. /\ MayBegin(Beat) /\ req' = [req EXCEPT ![Beat] = r] /\ inst' = inst
        /\ r.seen = inst
        /\ inst.status = "pending"
    BY <1>4 DEF SweepBegin, Overdue
  <2> HIDE DEF r
  <2>2. QED
    BY <1>2, <2>1
<1>5. ASSUME NEW p \in Processes, req[p] # Idle, req' = [req EXCEPT ![p] = Idle]
      PROVE  Serial'
  BY <1>5 DEF Serial, TypeOK
<1>6. ASSUME NEW p \in Processes,
             \/ Approve(p) \/ Reject(p) \/ \E to \in Delegates : Delegate(p, to)
             \/ Cancel(p) \/ Comment(p) \/ Escalate(p)
      PROVE  Serial'
  <2>1. req[p] # Idle /\ req' = [req EXCEPT ![p] = Idle]
    BY <1>6, HandlersCommit DEF CommitsSomething, Commit
  <2>2. QED
    BY <1>5, <2>1
<1>7. ASSUME NEW p \in Processes, Abandon(p) PROVE Serial'
  BY <1>5, <1>7 DEF Abandon
<1>8. CASE DueDatePasses
  BY <1>8 DEF DueDatePasses, Serial, TypeOK, Instances
<1>9. CASE UNCHANGED vars
  BY <1>9 DEF vars, Serial
<1>10. QED
  BY <1>1, <1>3, <1>4, <1>6, <1>7, <1>8, <1>9 DEF Next

\* Hence no step taken by a request served alone changes a final status.
LEMMA FinalStep ==
    TypeOK /\ Frame /\ Serial /\ [Next]_vars =>
        (inst.status \in Terminal => inst'.status = inst.status)
<1> SUFFICES ASSUME TypeOK, Frame, Serial, [Next]_vars, inst.status \in Terminal
             PROVE  inst'.status = inst.status
  OBVIOUS
<1> USE DEF Processes
<1>1. inst.status # "none" /\ inst.status # "pending"
  BY DEF Terminal
<1>2. ASSUME NEW p \in Processes,
             \/ Approve(p) \/ Reject(p) \/ \E to \in Delegates : Delegate(p, to)
             \/ Cancel(p) \/ Comment(p) \/ Escalate(p)
      PROVE  inst'.status = inst.status
  <2>1. req[p] # Idle
    BY <1>2, HandlersCommit DEF CommitsSomething
  <2>2. req[p].op = "comment"
    BY <1>1, <2>1 DEF Serial
  <2>3. Comment(p)
    BY <1>2, <2>2 DEF Approve, Reject, Delegate, Cancel, Escalate
  <2>4. inst' = Save(req[p].seen, req[p].seen)
    BY <2>3 DEF Comment, Commit
  <2>5. QED
    BY <2>4 DEF Save, Column, TypeOK, Instances
<1>3. CASE DueDatePasses
  BY <1>3 DEF DueDatePasses, TypeOK, Instances
<1>4. QED
  BY <1>1, <1>2, <1>3 DEF Next, Start, Begin, SweepBegin, Abandon, vars

\* Served one at a time, no request ever changes the outcome of an approval.
THEOREM SerialOutcomeIsFinal ==
    ASSUME ~ Concurrent
    PROVE  Spec => TerminalIsFinal
<1>1. Init => Serial
  BY DEF Init, Serial
<1>2. TypeOK /\ Frame /\ Serial /\ [Next]_vars => Serial'
  BY SerialIsInductive
<1>3. TypeOK /\ Frame /\ Serial /\ [Next]_vars =>
        [inst.status \in Terminal => inst'.status = inst.status]_vars
  BY FinalStep
<1>4. QED
  BY <1>1, <1>2, <1>3, TypeCorrect, PTL DEF Spec, TerminalIsFinal
-----------------------------------------------------------------------------
(* Somebody can always act, whatever requests overlap; and, with requests  *)
(* served one at a time, escalations belong to the step they were made at  *)
(* and the engine implements ApprovalContract.                             *)


\* What the database holds after a commit, column by column.
LEMMA CommitSaves ==
    ASSUME TypeOK, NEW p \in Processes, NEW new, NEW action, NEW grants,
           Commit(p, new, action, grants)
    PROVE  /\ inst'.status = Column(req[p].seen.status, new.status, inst.status)
           /\ inst'.cur = Column(req[p].seen.cur, new.cur, inst.cur)
           /\ inst'.esc = Column(req[p].seen.esc, new.esc, inst.esc)
           /\ inst'.chain = inst.chain
           /\ inst'.amount = inst.amount
           /\ log' = log \cup {action}
           /\ \A q \in Processes : req'[q] # Idle => req'[q] = req[q]
BY DEF Commit, Save, TypeOK, Instances

\* The columns of a row after a step is entered.
LEMMA EnteredStep ==
    ASSUME NEW i \in Instances, NEW number
    PROVE  /\ EnterStep(i, number).cur = number
           /\ EnterStep(i, number).status = i.status
           /\ EnterStep(i, number).esc = FALSE
BY DEF EnterStep, Instances

\* What a request that is about to commit works on.
LEMMA HandlersAreBusy ==
    ASSUME TypeOK, Frame, NEW p \in Processes,
           \/ Approve(p) \/ Reject(p) \/ \E to \in Delegates : Delegate(p, to)
           \/ Cancel(p) \/ Comment(p) \/ Escalate(p)
    PROVE  /\ req[p] # Idle
           /\ req[p].seen \in Instances
           /\ req[p].seen.chain = inst.chain
           /\ req[p].seen.amount = inst.amount
           /\ inst.status # "none"
           /\ inst.chain \in Chains \cup {{}}
           /\ inst.amount \in Amounts \cup {NoAmount}
<1>1. req[p] # Idle
  BY HandlersCommit DEF CommitsSomething
<1> QED BY <1>1, SeenIsTyped DEF OfThisInstance, Frame, TypeOK, Instances

-----------------------------------------------------------------------------
(* Somebody can always act *)

OnRoute(r) == r.cur \in Route(inst.chain, inst.amount)

\* The stored row and every row in some request's memory wait at a step that
\* applies: an old column may be written back.
Located ==
    inst.status # "none" /\ ReworkStaysOnRoute(inst) =>
        /\ OnRoute(inst)
        /\ \A p \in Processes : req[p] # Idle => OnRoute(req[p].seen)

\* A commit writes a step number on the route or leaves the one it read.
LEMMA HandlersStayOnRoute ==
    ASSUME TypeOK, Frame, Located, ReworkStaysOnRoute(inst), NEW p \in Processes,
           \/ Approve(p) \/ Reject(p) \/ \E to \in Delegates : Delegate(p, to)
           \/ Cancel(p) \/ Comment(p) \/ Escalate(p)
    PROVE  Located'
<1> DEFINE seen == req[p].seen
           user == req[p].user
<1>1. /\ req[p] # Idle /\ seen \in Instances /\ inst.status # "none"
      /\ seen.chain = inst.chain /\ seen.amount = inst.amount
      /\ OnRoute(seen) /\ OnRoute(inst)
  BY HandlersAreBusy DEF Located
<1>2. ASSUME NEW new, NEW action, NEW grants, Commit(p, new, action, grants),
             new.cur \in Route(inst.chain, inst.amount)
      PROVE  Located'
  <2>1. /\ inst'.cur \in {new.cur, inst.cur}
        /\ inst'.chain = inst.chain /\ inst'.amount = inst.amount
        /\ \A q \in Processes : req'[q] # Idle => req'[q] = req[q]
    BY <1>2, CommitSaves DEF Column
  <2>2. \A q \in Processes : req'[q] # Idle => OnRoute(req[q].seen)
    BY <2>1, <1>1 DEF Located
  <2> QED BY <1>1, <1>2, <2>1, <2>2 DEF Located, OnRoute
<1>3. CASE Approve(p)
  <2>1. PICK action, grants : Commit(p, AfterApproval(seen, log \cup {action}), action, grants)
    BY <1>3 DEF Approve
  <2> DEFINE later == NumbersAfter(seen, seen.cur)
  <2>2. ASSUME later # {} PROVE Earliest(later) \in Route(inst.chain, inst.amount)
    <3>1. later \in SUBSET Nat
      BY <1>1, NumbersAreNat
    <3>2. Earliest(later) \in later
      BY <2>2, <3>1, EarliestIsLeast
    <3> QED BY <1>1, <3>2 DEF NumbersAfter
  <2>3. [seen EXCEPT !.status = "approved", !.due = "none"].cur = seen.cur
    BY <1>1 DEF Instances
  <2>4. AfterApproval(seen, log \cup {action}).cur \in Route(inst.chain, inst.amount)
    BY <1>1, <2>2, <2>3, EnteredStep DEF AfterApproval, OnRoute
  <2> QED BY <1>2, <2>1, <2>4
<1>4. CASE Reject(p)
  <2>1. PICK step \in ActionableSteps(seen, user) :
           \E action, grants : Commit(p, AfterRejection(seen, step), action, grants)
    BY <1>4 DEF Reject
  <2>2. step \in ApplicableSteps(inst.chain, inst.amount)
    BY <1>1, ActionableAreCurrent DEF StepsAt
  <2>3. step.rejectTo # NoStep => step.rejectTo \in Route(inst.chain, inst.amount)
    BY <2>2 DEF ReworkStaysOnRoute
  <2>4. [seen EXCEPT !.status = "rejected", !.due = "none"].cur = seen.cur
    BY <1>1 DEF Instances
  <2>5. AfterRejection(seen, step).cur \in Route(inst.chain, inst.amount)
    BY <1>1, <2>3, <2>4, EnteredStep DEF AfterRejection, OnRoute
  <2> QED BY <1>2, <2>1, <2>5
<1>5. CASE (\E to \in Delegates : Delegate(p, to)) \/ Comment(p)
  BY <1>1, <1>2, <1>5 DEF Delegate, Comment, OnRoute
<1>6. CASE Cancel(p)
  <2>1. [seen EXCEPT !.status = "cancelled", !.due = "none"].cur = seen.cur
    BY <1>1 DEF Instances
  <2> QED BY <1>1, <1>2, <1>6, <2>1 DEF Cancel, OnRoute
<1>7. CASE Escalate(p)
  <2>1. [seen EXCEPT !.esc = TRUE].cur = seen.cur
    BY <1>1 DEF Instances
  <2> QED BY <1>1, <1>2, <1>7, <2>1 DEF Escalate, OnRoute
<1> QED BY <1>3, <1>4, <1>5, <1>6, <1>7

\* start_workflow_instance enters a step that applies.
LEMMA StartIsOnRoute ==
    ASSUME NEW u \in Users, NEW chain \in Chains, NEW amount \in Amounts \cup {NoAmount},
           Start(u, chain, amount)
    PROVE  /\ inst'.cur = Earliest({n \in Route(chain, amount) : n > 0})
           /\ inst'.cur \in Route(chain, amount)
           /\ inst'.status = "pending" /\ inst'.esc = FALSE
           /\ inst'.chain = chain /\ inst'.amount = amount
<1> DEFINE i == [NoInstance EXCEPT !.status = "pending", !.chain = chain,
                                   !.amount = amount, !.starter = u]
           first == Earliest(NumbersAfter(i, 0))
<1>1. i \in Instances /\ i.chain = chain /\ i.amount = amount /\ i.esc = FALSE
  BY DEF NoInstance, Instances, Dues, Terminal
<1> HIDE DEF i
<1>2. /\ NumbersAfter(i, 0) # {}
      /\ inst' = [i EXCEPT !.cur = first,
                           !.due = IF StepDueAt(i, first) = "fresh" THEN "running" ELSE "none"]
  BY DEF Start, i
<1>3. first \in NumbersAfter(i, 0)
  BY <1>1, <1>2, NumbersAreNat, EarliestIsLeast
<1>4. NumbersAfter(i, 0) = {n \in Route(chain, amount) : n > 0}
  BY <1>1 DEF NumbersAfter
<1>5. inst'.cur = first /\ inst'.esc = FALSE
  BY <1>1, <1>2 DEF Instances
<1> QED BY <1>3, <1>4, <1>5, StartEntersFirst

\* Every step keeps the rows on the route.
LEMMA LocatedIsInductive == TypeOK /\ Frame /\ Located /\ [Next]_vars => Located'
<1> SUFFICES ASSUME TypeOK, Frame, Located, [Next]_vars PROVE Located'
  OBVIOUS
<1> USE DEF Processes
<1>1. ASSUME NEW u \in Users, NEW chain \in Chains, NEW amount \in Amounts \cup {NoAmount},
             Start(u, chain, amount)
      PROVE  Located'
  <2>1. inst'.cur \in Route(chain, amount) /\ inst'.chain = chain /\ inst'.amount = amount
    BY <1>1, StartIsOnRoute
  <2>2. \A p \in Processes : req'[p] = Idle
    BY <1>1 DEF Start, Frame
  <2> QED BY <2>1, <2>2 DEF Located, OnRoute
<1>2. ASSUME inst'.chain = inst.chain, inst'.amount = inst.amount,
             inst'.cur = inst.cur, inst'.status = inst.status,
             \A q \in Processes : req'[q] # Idle =>
                 \/ req[q] # Idle /\ req'[q] = req[q]
                 \/ req'[q].seen = inst
      PROVE  Located'
  BY <1>2 DEF Located, OnRoute, ReworkStaysOnRoute
<1>3. ASSUME NEW w \in Workers, NEW u \in Users, NEW op \in Operations, Begin(w, u, op)
      PROVE  Located'
  BY <1>2, <1>3 DEF Begin, TypeOK
<1>4. CASE SweepBegin
  BY <1>2, <1>4 DEF SweepBegin, TypeOK
<1>5. ASSUME NEW p \in Processes, Abandon(p) PROVE Located'
  BY <1>2, <1>5 DEF Abandon, TypeOK
<1>6. CASE DueDatePasses
  BY <1>2, <1>6 DEF DueDatePasses, TypeOK, Instances
<1>7. CASE UNCHANGED vars
  BY <1>2, <1>7 DEF vars
<1>8. ASSUME NEW p \in Processes,
             \/ Approve(p) \/ Reject(p) \/ \E to \in Delegates : Delegate(p, to)
             \/ Cancel(p) \/ Comment(p) \/ Escalate(p)
      PROVE  Located'
  <2>1. PICK new, action, grants : Commit(p, new, action, grants)
    BY <1>8, HandlersCommit DEF CommitsSomething
  <2>2. inst'.chain = inst.chain /\ inst'.amount = inst.amount
    BY <2>1, CommitSaves
  <2>3. CASE ReworkStaysOnRoute(inst)
    BY <1>8, <2>3, HandlersStayOnRoute
  <2>4. CASE ~ ReworkStaysOnRoute(inst)
    BY <2>2, <2>4 DEF Located, ReworkStaysOnRoute
  <2> QED BY <2>3, <2>4
<1> QED BY <1>1, <1>3, <1>4, <1>5, <1>6, <1>7, <1>8 DEF Next

\* Every approver named in a definition is a user or a role somebody holds.
ApproversExist == \A chain \in Chains : \A s \in chain : \E u \in Users : Matches(s.approver, u)

\* There is always somebody who may approve a pending instance, whatever requests
\* overlap, if every approver named is somebody and rework returns to steps that
\* apply.
THEOREM SomebodyCanAlwaysAct ==
    ASSUME ApproversExist
    PROVE  Spec => []NeverStuck
<1>1. Init => Located
  BY DEF Init, Located, NoInstance
<1>2. ASSUME TypeOK, Located, inst.status = "pending", ReworkStaysOnRoute(inst)
      PROVE  \E u \in Users : ActionableSteps(inst, u) # {}
  <2>1. inst.cur \in Route(inst.chain, inst.amount)
    BY <1>2 DEF Located, OnRoute
  <2>2. PICK s \in StepsAt(inst, inst.cur) : TRUE
    BY <2>1 DEF Route, StepsAt
  <2>3. s \in inst.chain /\ inst.chain \in Chains
    BY <1>2, <2>2 DEF StepsAt, ApplicableSteps, TypeOK, Instances
  <2>4. PICK u \in Users : Matches(s.approver, u)
    BY <2>3 DEF ApproversExist
  <2>5. s \in NamedSteps(inst, u)
    BY <2>2, <2>4 DEF NamedSteps
  <2> QED BY <2>2, <2>5 DEF ActionableSteps
<1>3. TypeOK /\ Located => NeverStuck
  BY <1>2 DEF NeverStuck
<1> QED BY <1>1, <1>3, TypeCorrect, LocatedIsInductive, PTL DEF Spec

-----------------------------------------------------------------------------
(* One request at a time: a commit stores the row that was computed *)

\* Requests served alone: what is stored after a commit is the handler's row.
LEMMA SerialCommit ==
    ASSUME TypeOK, Serial, NEW p \in Processes, req[p] # Idle,
           NEW new, NEW action, NEW grants, Commit(p, new, action, grants)
    PROVE  /\ inst'.status = new.status
           /\ inst'.cur = new.cur
           /\ inst'.esc = new.esc
           /\ inst'.chain = inst.chain
           /\ inst'.amount = inst.amount
           /\ log' = log \cup {action}
BY CommitSaves DEF Serial, Column

\* What approve_step may leave behind: the row as it was, the approved row, or the
\* next step of the route.
LEMMA ApprovalOutcomes ==
    ASSUME TypeOK, Frame, Serial, NEW p \in Processes, Approve(p)
    PROVE  /\ inst'.chain = inst.chain /\ inst'.amount = inst.amount
           /\ inst.status = "pending" /\ OnRoute(inst)
           /\ log' = log \cup {Action("approve", inst.cur, req[p].user, System)}
           /\ LET later == {n \in Route(inst.chain, inst.amount) : n > inst.cur}
              IN  \/ /\ inst'.status = inst.status
                     /\ inst'.cur = inst.cur /\ inst'.esc = inst.esc
                  \/ /\ later = {} /\ inst'.status = "approved"
                     /\ inst'.cur = inst.cur /\ inst'.esc = inst.esc
                  \/ /\ later # {} /\ inst'.status = inst.status
                     /\ inst'.cur = Earliest(later) /\ inst'.esc = FALSE
<1> DEFINE seen == req[p].seen
           action == Action("approve", seen.cur, req[p].user, System)
           new == AfterApproval(seen, log \cup {action})
           later == NumbersAfter(seen, seen.cur)
<1>1. /\ req[p] # Idle /\ seen \in Instances
      /\ seen.chain = inst.chain /\ seen.amount = inst.amount
      /\ seen.status = inst.status /\ seen.cur = inst.cur /\ seen.esc = inst.esc
  BY HandlersAreBusy DEF Serial
<1>2. inst.status = "pending"
  BY <1>1 DEF Serial, Approve
<1>3. Commit(p, new, action, IF new.cur # seen.cur THEN {} ELSE granted)
  BY DEF Approve
<1>4. later = {n \in Route(inst.chain, inst.amount) : n > inst.cur}
  BY <1>1 DEF NumbersAfter
<1>5. OnRoute(inst)
  <2>1. PICK s \in StepsAt(seen, seen.cur) : TRUE
    BY ActionableAreCurrent DEF Approve
  <2> QED BY <1>1, <2>1 DEF OnRoute, Route, StepsAt
<1>6. \/ new = seen
      \/ later = {} /\ new = [seen EXCEPT !.status = "approved", !.due = "none"]
      \/ later # {} /\ new = EnterStep(seen, Earliest(later))
  BY DEF AfterApproval
<1>7. \/ new.status = seen.status /\ new.cur = seen.cur /\ new.esc = seen.esc
      \/ later = {} /\ new.status = "approved" /\ new.cur = seen.cur /\ new.esc = seen.esc
      \/ later # {} /\ new.status = seen.status /\ new.cur = Earliest(later) /\ new.esc = FALSE
  <2> DEFINE approved == [seen EXCEPT !.status = "approved", !.due = "none"]
             next == Earliest(later)
  <2>1. approved.status = "approved" /\ approved.cur = seen.cur /\ approved.esc = seen.esc
    BY <1>1 DEF Instances
  <2>2. /\ EnterStep(seen, next).status = seen.status /\ EnterStep(seen, next).cur = next
        /\ EnterStep(seen, next).esc = FALSE
    BY <1>1, EnteredStep
  <2> HIDE DEF new, later, next, approved
  <2>3. CASE later # {} /\ new = EnterStep(seen, next)
    BY <2>2, <2>3 DEF next
  <2>4. CASE later = {} /\ new = approved
    BY <2>1, <2>4
  <2> QED BY <1>6, <2>3, <2>4 DEF approved, next
<1> HIDE DEF new, later
<1>8. /\ inst'.status = new.status /\ inst'.cur = new.cur /\ inst'.esc = new.esc
      /\ inst'.chain = inst.chain /\ inst'.amount = inst.amount
      /\ log' = log \cup {action}
  BY <1>1, <1>3, SerialCommit
<1> QED BY <1>1, <1>2, <1>4, <1>5, <1>7, <1>8

\* What reject_step may leave behind: a step to rework, or the rejected row.
LEMMA RejectionOutcomes ==
    ASSUME TypeOK, Frame, Serial, NEW p \in Processes, Reject(p)
    PROVE  /\ inst'.chain = inst.chain /\ inst'.amount = inst.amount
           /\ inst.status = "pending"
           /\ log' = log \cup {Action("reject", inst.cur, req[p].user, System)}
           /\ \/ \E s \in StepsAt(inst, inst.cur) :
                    /\ s.rejectTo # NoStep /\ inst'.status = inst.status
                    /\ inst'.cur = s.rejectTo /\ inst'.esc = FALSE
              \/ /\ inst'.status = "rejected"
                 /\ inst'.cur = inst.cur /\ inst'.esc = inst.esc
<1> DEFINE seen == req[p].seen
           user == req[p].user
<1>1. /\ req[p] # Idle /\ seen \in Instances
      /\ seen.chain = inst.chain /\ seen.amount = inst.amount
      /\ seen.status = inst.status /\ seen.cur = inst.cur /\ seen.esc = inst.esc
  BY HandlersAreBusy DEF Serial
<1>2. inst.status = "pending"
  BY <1>1 DEF Serial, Reject
<1>3. PICK s \in ActionableSteps(seen, user) :
         Commit(p, AfterRejection(seen, s), Action("reject", s.num, user, System),
                IF s.rejectTo # NoStep THEN {} ELSE granted)
  BY DEF Reject
<1>4. s \in StepsAt(inst, inst.cur) /\ s.num = inst.cur
  BY <1>1, ActionableAreCurrent DEF StepsAt
<1> DEFINE new == AfterRejection(seen, s)
<1>5. \/ s.rejectTo # NoStep /\ new.status = seen.status /\ new.cur = s.rejectTo /\ new.esc = FALSE
      \/ new.status = "rejected" /\ new.cur = seen.cur /\ new.esc = seen.esc
  BY <1>1, EnteredStep DEF AfterRejection, Instances
<1> HIDE DEF new
<1>6. /\ inst'.status = new.status /\ inst'.cur = new.cur /\ inst'.esc = new.esc
      /\ inst'.chain = inst.chain /\ inst'.amount = inst.amount
      /\ log' = log \cup {Action("reject", s.num, user, System)}
  BY <1>1, <1>3, SerialCommit DEF new
<1> QED BY <1>1, <1>2, <1>4, <1>5, <1>6

\* The other handlers leave the row at its step.
LEMMA OtherOutcomes ==
    ASSUME TypeOK, Frame, Serial, NEW p \in Processes,
           \/ \E to \in Delegates : Delegate(p, to)
           \/ Cancel(p) \/ Comment(p) \/ Escalate(p)
    PROVE  /\ inst'.chain = inst.chain /\ inst'.amount = inst.amount /\ inst'.cur = inst.cur
           /\ \/ inst'.status = inst.status
              \/ inst.status = "pending" /\ inst'.status = "cancelled"
           /\ \E a : /\ log' = log \cup {a} /\ a.step = inst.cur /\ a.actor = req[p].user
                     /\ \/ /\ a.type = "escalate" /\ ~ inst.esc /\ inst'.esc
                        \/ /\ a.type \in {"delegate", "cancel", "comment"}
                           /\ inst'.esc = inst.esc
                     /\ a.type = "delegate" => ActionableSteps(req[p].seen, req[p].user) # {}
<1> DEFINE seen == req[p].seen
           user == req[p].user
<1>1. /\ req[p] # Idle /\ seen \in Instances
      /\ seen.status = inst.status /\ seen.cur = inst.cur /\ seen.esc = inst.esc
  BY HandlersAreBusy DEF Serial
<1>2. \A type, to : /\ Action(type, seen.cur, user, to).type = type
                    /\ Action(type, seen.cur, user, to).step = seen.cur
                    /\ Action(type, seen.cur, user, to).actor = user
  BY DEF Action
<1>3. CASE \E to \in Delegates : Delegate(p, to)
  <2>1. PICK to, grants :
           Commit(p, seen, Action("delegate", seen.cur, user, to), grants)
    BY <1>3 DEF Delegate
  <2>2. ActionableSteps(seen, user) # {}
    BY <1>3 DEF Delegate
  <2> DEFINE a == Action("delegate", seen.cur, user, to)
  <2>3. a.type = "delegate" /\ a.step = inst.cur /\ a.actor = user
    BY <1>1, <1>2
  <2> HIDE DEF a
  <2> QED BY <1>1, <2>1, <2>2, <2>3, SerialCommit DEF a
<1>4. CASE Comment(p)
  <2> DEFINE a == Action("comment", seen.cur, user, System)
  <2>1. Commit(p, seen, a, granted)
    BY <1>4 DEF Comment
  <2>2. a.type = "comment" /\ a.step = inst.cur /\ a.actor = user
    BY <1>1, <1>2
  <2> HIDE DEF a
  <2> QED BY <1>1, <2>1, <2>2, SerialCommit
<1>5. CASE Cancel(p)
  <2> DEFINE a == Action("cancel", seen.cur, user, System)
             new == [seen EXCEPT !.status = "cancelled", !.due = "none"]
  <2>1. Commit(p, new, a, granted) /\ inst.status = "pending"
    BY <1>1, <1>5 DEF Cancel, Serial
  <2>2. a.type = "cancel" /\ a.step = inst.cur /\ a.actor = user
    BY <1>1, <1>2
  <2>3. new.status = "cancelled" /\ new.cur = seen.cur /\ new.esc = seen.esc
    BY <1>1 DEF Instances
  <2> HIDE DEF a, new
  <2> QED BY <1>1, <2>1, <2>2, <2>3, SerialCommit
<1>6. CASE Escalate(p)
  <2> DEFINE a == Action("escalate", seen.cur, user, System)
             new == [seen EXCEPT !.esc = TRUE]
  <2>1. Commit(p, new, a, granted) /\ ~ inst.esc
    BY <1>1, <1>6 DEF Escalate
  <2>2. a.type = "escalate" /\ a.step = inst.cur /\ a.actor = user
    BY <1>1, <1>2
  <2>3. new.status = seen.status /\ new.cur = seen.cur /\ new.esc = TRUE
    BY <1>1 DEF Instances
  <2> HIDE DEF a, new
  <2> QED BY <1>1, <2>1, <2>2, <2>3, SerialCommit
<1> QED BY <1>3, <1>4, <1>5, <1>6

\* The steps that are no commit leave the row alone, its clock apart, and the log.
LEMMA QuietSteps ==
    ASSUME TypeOK,
           \/ \E w \in Workers, u \in Users, op \in Operations : Begin(w, u, op)
           \/ \E p \in Processes : Abandon(p)
           \/ SweepBegin \/ DueDatePasses \/ UNCHANGED vars
    PROVE  /\ inst'.status = inst.status /\ inst'.cur = inst.cur /\ inst'.esc = inst.esc
           /\ inst'.chain = inst.chain /\ inst'.amount = inst.amount
           /\ log' = log
BY DEF Begin, Abandon, SweepBegin, DueDatePasses, vars, TypeOK, Instances

-----------------------------------------------------------------------------
(* One request at a time: a step is escalated once, and for itself *)

\* A step is escalated at most once while the instance is at it, by hand and by the
\* scheduler together, if requests do not overlap.
THEOREM SerialEscalatesOnce ==
    ASSUME ~ Concurrent
    PROVE  Spec => EscalatedOnce
<1>1. ASSUME TypeOK, Frame, Serial, [Next]_vars, NEW a \in log' \ log, a.type = "escalate"
      PROVE  ~ inst.esc /\ inst'.esc
  <2> USE DEF Processes
  <2>1. log' # log
    BY <1>1
  <2>2. PICK p \in Processes :
           \/ Approve(p) \/ Reject(p)
           \/ \/ \E to \in Delegates : Delegate(p, to)
              \/ Cancel(p) \/ Comment(p) \/ Escalate(p)
    BY <1>1, <2>1, QuietSteps DEF Next, Start
  <2>3. CASE Approve(p)
    <3>1. log' = log \cup {Action("approve", inst.cur, req[p].user, System)}
      BY <1>1, <2>3, ApprovalOutcomes
    <3>2. a = Action("approve", inst.cur, req[p].user, System)
      BY <1>1, <3>1
    <3>3. a.type = "approve"
      BY <3>2 DEF Action
    <3> QED BY <1>1, <3>3
  <2>4. CASE Reject(p)
    <3>1. log' = log \cup {Action("reject", inst.cur, req[p].user, System)}
      BY <1>1, <2>4, RejectionOutcomes
    <3>2. a = Action("reject", inst.cur, req[p].user, System)
      BY <1>1, <3>1
    <3>3. a.type = "reject"
      BY <3>2 DEF Action
    <3> QED BY <1>1, <3>3
  <2>5. CASE \/ \E to \in Delegates : Delegate(p, to)
             \/ Cancel(p) \/ Comment(p) \/ Escalate(p)
    <3>1. PICK b : /\ log' = log \cup {b}
                   /\ \/ b.type = "escalate" /\ ~ inst.esc /\ inst'.esc
                      \/ b.type \in {"delegate", "cancel", "comment"}
      BY <1>1, <2>5, OtherOutcomes
    <3> QED BY <1>1, <3>1
  <2> QED BY <2>2, <2>3, <2>4, <2>5
<1>2. TypeOK /\ Frame /\ Serial /\ [Next]_vars =>
        [\A a \in log' \ log : a.type = "escalate" => ~ inst.esc /\ inst'.esc]_vars
  BY <1>1
<1>3. Init => Serial
  BY DEF Init, Serial
<1>4. TypeOK /\ Frame /\ Serial /\ [Next]_vars => Serial'
  BY SerialIsInductive
<1> QED BY <1>2, <1>3, <1>4, TypeCorrect, PTL DEF Spec, EscalatedOnce

\* The right to decide at a step that an escalation gives needs that escalation.
RightfullyAt(number, u) ==
    \/ Named(number, u)
    \/ u \in DelegatedTo(number)
    \/ Targeted(number, u) /\ EscalatedAt(number)

\* Committing an action keeps everyone's right; the new one has to have it.
LEMMA CommitKeepsRights ==
    ASSUME EscalationIsOfTheStep,
           inst'.chain = inst.chain, inst'.amount = inst.amount,
           NEW a, log' = log \cup {a},
           a.type \in Decisions => RightfullyAt(a.step, a.actor),
           inst'.esc => EscalatedAt(inst'.cur) \/ (a.type = "escalate" /\ a.step = inst'.cur)
    PROVE  EscalationIsOfTheStep'
<1>1. ASSUME NEW n PROVE EscalatedAt(n) => EscalatedAt(n)'
  BY DEF EscalatedAt
<1>2. ASSUME NEW n, NEW u, RightfullyAt(n, u) PROVE RightfullyAt(n, u)'
  BY <1>1, <1>2 DEF RightfullyAt, Named, Targeted, DelegatedTo
<1>3. ASSUME NEW b \in log', b.type \in Decisions PROVE RightfullyAt(b.step, b.actor)
  BY <1>3 DEF EscalationIsOfTheStep, RightfullyAt
<1>4. (inst.esc => EscalatedAt(inst.cur))'
  BY <1>1 DEF EscalatedAt
<1> QED BY <1>2, <1>3, <1>4 DEF EscalationIsOfTheStep, RightfullyAt

\* The search finds a step only for somebody with that right.
LEMMA ActionableIsRightful ==
    ASSUME TypeOK, Frame, Serial, EscalationIsOfTheStep,
           NEW p \in Processes, req[p] # Idle,
           NEW u, ActionableSteps(req[p].seen, u) # {}
    PROVE  RightfullyAt(inst.cur, u)
<1>1. /\ req[p].seen.chain = inst.chain /\ req[p].seen.amount = inst.amount
      /\ req[p].seen.cur = inst.cur /\ req[p].seen.esc = inst.esc
  BY SeenIsTyped DEF OfThisInstance, Serial
<1> QED BY <1>1
     DEF EscalationIsOfTheStep, RightfullyAt, ActionableSteps, NamedSteps, TargetSteps,
         StepsAt, Named, Targeted

\* Every step taken alone keeps escalations with their steps.
LEMMA EscalationStays ==
    TypeOK /\ Frame /\ Serial /\ EscalationIsOfTheStep /\ [Next]_vars => EscalationIsOfTheStep'
<1> SUFFICES ASSUME TypeOK, Frame, Serial, EscalationIsOfTheStep, [Next]_vars
             PROVE  EscalationIsOfTheStep'
  OBVIOUS
<1> USE DEF Processes
<1>1. ASSUME NEW u \in Users, NEW chain \in Chains, NEW amount \in Amounts \cup {NoAmount},
             Start(u, chain, amount)
      PROVE  EscalationIsOfTheStep'
  <2>1. inst'.esc = FALSE
    BY <1>1, StartIsOnRoute
  <2>2. log' = {}
    BY <1>1 DEF Start, Frame
  <2> QED BY <2>1, <2>2 DEF EscalationIsOfTheStep
<1>2. ASSUME NEW p \in Processes, Approve(p) PROVE EscalationIsOfTheStep'
  <2> DEFINE a == Action("approve", inst.cur, req[p].user, System)
  <2>1. a.step = inst.cur /\ a.actor = req[p].user
    BY DEF Action
  <2>2. RightfullyAt(inst.cur, req[p].user)
    BY <1>2, HandlersAreBusy, ActionableIsRightful DEF Approve
  <2>3. log' = log \cup {a} /\ inst'.chain = inst.chain /\ inst'.amount = inst.amount
    BY <1>2, ApprovalOutcomes
  <2>4. inst'.esc = FALSE \/ (inst'.esc = inst.esc /\ inst'.cur = inst.cur)
    BY <1>2, ApprovalOutcomes
  <2>5. inst'.esc => EscalatedAt(inst'.cur)
    BY <2>4 DEF EscalationIsOfTheStep
  <2> HIDE DEF a
  <2> QED BY <2>1, <2>2, <2>3, <2>5, CommitKeepsRights
<1>3. ASSUME NEW p \in Processes, Reject(p) PROVE EscalationIsOfTheStep'
  <2> DEFINE a == Action("reject", inst.cur, req[p].user, System)
  <2>1. a.step = inst.cur /\ a.actor = req[p].user
    BY DEF Action
  <2>2. ActionableSteps(req[p].seen, req[p].user) # {}
    BY <1>3 DEF Reject
  <2>3. RightfullyAt(inst.cur, req[p].user)
    BY <1>3, <2>2, HandlersAreBusy, ActionableIsRightful
  <2>4. log' = log \cup {a} /\ inst'.chain = inst.chain /\ inst'.amount = inst.amount
    BY <1>3, RejectionOutcomes
  <2>5. inst'.esc = FALSE \/ (inst'.esc = inst.esc /\ inst'.cur = inst.cur)
    BY <1>3, RejectionOutcomes
  <2>6. inst'.esc => EscalatedAt(inst'.cur)
    BY <2>5 DEF EscalationIsOfTheStep
  <2> HIDE DEF a
  <2> QED BY <2>1, <2>3, <2>4, <2>6, CommitKeepsRights
<1>4. ASSUME NEW p \in Processes,
             \/ \E to \in Delegates : Delegate(p, to)
             \/ Cancel(p) \/ Comment(p) \/ Escalate(p)
      PROVE  EscalationIsOfTheStep'
  <2>1. PICK a : /\ log' = log \cup {a} /\ a.step = inst.cur /\ a.actor = req[p].user
                 /\ \/ a.type = "escalate"
                    \/ a.type \in {"delegate", "cancel", "comment"} /\ inst'.esc = inst.esc
                 /\ a.type = "delegate" => ActionableSteps(req[p].seen, req[p].user) # {}
    BY <1>4, OtherOutcomes
  <2>2. inst'.chain = inst.chain /\ inst'.amount = inst.amount /\ inst'.cur = inst.cur
    BY <1>4, OtherOutcomes
  <2>3. a.type \in Decisions => RightfullyAt(a.step, a.actor)
    <3>1. SUFFICES ASSUME a.type = "delegate" PROVE RightfullyAt(inst.cur, req[p].user)
      BY <2>1 DEF Decisions
    <3> QED BY <1>4, <2>1, <3>1, HandlersAreBusy, ActionableIsRightful
  <2>4. inst'.esc => EscalatedAt(inst'.cur) \/ (a.type = "escalate" /\ a.step = inst'.cur)
    BY <2>1, <2>2 DEF EscalationIsOfTheStep
  <2> QED BY <2>1, <2>2, <2>3, <2>4, CommitKeepsRights
<1>5. CASE \/ \E w \in Workers, u \in Users, op \in Operations : Begin(w, u, op)
           \/ \E p \in Processes : Abandon(p)
           \/ SweepBegin \/ DueDatePasses \/ UNCHANGED vars
  <2>1. /\ inst'.cur = inst.cur /\ inst'.esc = inst.esc
        /\ inst'.chain = inst.chain /\ inst'.amount = inst.amount /\ log' = log
    BY <1>5, QuietSteps
  <2> QED BY <2>1 DEF EscalationIsOfTheStep, EscalatedAt, Named, Targeted, DelegatedTo
<1> QED BY <1>1, <1>2, <1>3, <1>4, <1>5 DEF Next

\* Whoever decided as an escalation target decided at a step that had been
\* escalated, and escalated_at never outlives its step, if requests do not overlap.
THEOREM SerialEscalationsAreOfTheirStep ==
    ASSUME ~ Concurrent
    PROVE  Spec => []EscalationIsOfTheStep
<1>1. Init => Serial /\ EscalationIsOfTheStep
  BY DEF Init, Serial, EscalationIsOfTheStep, NoInstance
<1>2. TypeOK /\ Frame /\ Serial /\ [Next]_vars => Serial'
  BY SerialIsInductive
<1> QED BY <1>1, <1>2, TypeCorrect, EscalationStays, PTL DEF Spec

-----------------------------------------------------------------------------
(* One request at a time: the engine keeps its contract *)

\* Step numbers are positive, and a rejection returns to a step of the route that
\* the instance has reached.  Neither is checked by the API.
ChainsAreSound ==
    \A chain \in Chains, amount \in Amounts \cup {NoAmount} :
        \A s \in ApplicableSteps(chain, amount) :
            /\ s.num > 0
            /\ s.rejectTo # NoStep => s.rejectTo \in Route(chain, amount) /\ s.rejectTo <= s.num

\* Every step of the engine is one of the contract, or changes nothing it speaks of.
LEMMA StepsKeepContract ==
    ASSUME ChainsAreSound, TypeOK, Frame, Serial, [Next]_vars
    PROVE  [Contract!Next]_(Contract!contractVars)
<1> USE DEF Processes
<1> DEFINE route == Route(inst.chain, inst.amount)
<1>1. ASSUME inst'.status = inst.status, inst'.cur = inst.cur,
             inst'.chain = inst.chain, inst'.amount = inst.amount
      PROVE  UNCHANGED Contract!contractVars
  BY <1>1 DEF Contract!contractVars
<1>2. ASSUME NEW u \in Users, NEW chain \in Chains, NEW amount \in Amounts \cup {NoAmount},
             Start(u, chain, amount)
      PROVE  Contract!Open
  <2>1. /\ inst'.cur = Earliest({n \in Route(chain, amount) : n > 0})
        /\ inst'.cur \in Route(chain, amount)
        /\ inst'.status = "pending" /\ inst'.chain = chain /\ inst'.amount = amount
    BY <1>2, StartIsOnRoute
  <2>2. {n \in Route(chain, amount) : n > 0} = Route(chain, amount)
    BY DEF ChainsAreSound, Route
  <2>3. inst.status = "none"
    BY <1>2 DEF Start
  <2> QED BY <2>1, <2>2, <2>3 DEF Contract!Open, Contract!First, Earliest
<1>3. ASSUME NEW p \in Processes, Approve(p)
      PROVE  Contract!Advance \/ Contract!Approve \/ UNCHANGED Contract!contractVars
  <2> DEFINE later == {n \in route : n > inst.cur}
  <2>1. /\ inst'.chain = inst.chain /\ inst'.amount = inst.amount
        /\ inst.status = "pending" /\ inst.cur \in route
    BY <1>3, ApprovalOutcomes DEF OnRoute
  <2>2. \/ inst'.status = inst.status /\ inst'.cur = inst.cur
        \/ later = {} /\ inst'.status = "approved" /\ inst'.cur = inst.cur
        \/ later # {} /\ inst'.status = inst.status /\ inst'.cur = Earliest(later)
    BY <1>3, ApprovalOutcomes
  <2>3. later = Contract!After(inst.cur) /\ Earliest(later) = Contract!First(later)
    BY DEF Contract!After, Contract!First, Earliest
  <2>4. CASE later = {} /\ inst'.status = "approved" /\ inst'.cur = inst.cur
    BY <2>1, <2>3, <2>4 DEF Contract!Approve
  <2>5. CASE later # {} /\ inst'.status = inst.status /\ inst'.cur = Earliest(later)
    BY <2>1, <2>3, <2>5 DEF Contract!Advance
  <2> QED BY <1>1, <2>1, <2>2, <2>4, <2>5
<1>4. ASSUME NEW p \in Processes, Reject(p)
      PROVE  Contract!SendBack \/ Contract!Close \/ UNCHANGED Contract!contractVars
  <2>1. /\ inst'.chain = inst.chain /\ inst'.amount = inst.amount /\ inst.status = "pending"
    BY <1>4, RejectionOutcomes
  <2>2. CASE inst'.status = "rejected" /\ inst'.cur = inst.cur
    BY <2>1, <2>2 DEF Contract!Close
  <2>3. ASSUME NEW s \in StepsAt(inst, inst.cur), s.rejectTo # NoStep,
               inst'.status = inst.status, inst'.cur = s.rejectTo
        PROVE  Contract!SendBack \/ UNCHANGED Contract!contractVars
    <3>1. s \in ApplicableSteps(inst.chain, inst.amount) /\ s.num = inst.cur /\ inst.cur \in Nat
      BY <2>3 DEF StepsAt, TypeOK, Instances
    <3>2. inst.chain \in Chains /\ inst.amount \in Amounts \cup {NoAmount}
      BY <3>1 DEF ApplicableSteps, TypeOK, Instances
    <3>3. s.rejectTo \in route /\ s.rejectTo <= inst.cur /\ s.rejectTo \in Nat
      BY <2>3, <3>1, <3>2, WorkflowAssumption DEF ChainsAreSound, ApplicableSteps
    <3> QED BY <1>1, <2>1, <2>3, <3>1, <3>3 DEF Contract!SendBack
  <2> QED BY <1>4, <2>2, <2>3, RejectionOutcomes
<1>5. ASSUME NEW p \in Processes,
             \/ \E to \in Delegates : Delegate(p, to)
             \/ Cancel(p) \/ Comment(p) \/ Escalate(p)
      PROVE  Contract!Close \/ UNCHANGED Contract!contractVars
  <2>1. /\ inst'.chain = inst.chain /\ inst'.amount = inst.amount /\ inst'.cur = inst.cur
        /\ \/ inst'.status = inst.status
           \/ inst.status = "pending" /\ inst'.status = "cancelled"
    BY <1>5, OtherOutcomes
  <2> QED BY <1>1, <2>1 DEF Contract!Close
<1>6. CASE \/ \E w \in Workers, u \in Users, op \in Operations : Begin(w, u, op)
           \/ \E p \in Processes : Abandon(p)
           \/ SweepBegin \/ DueDatePasses \/ UNCHANGED vars
  BY <1>1, <1>6, QuietSteps
<1> QED BY <1>2, <1>3, <1>4, <1>5, <1>6 DEF Next, Contract!Next

\* The engine implements ApprovalContract if requests do not overlap: it visits the
\* steps of the route in order, is sent back only to one it reached, is approved
\* from the last, and then nothing changes.
THEOREM SerialEngineKeepsContract ==
    ASSUME ~ Concurrent, ChainsAreSound
    PROVE  Spec => ImplementsContract
<1>1. Init => Serial
  BY DEF Init, Serial
<1>2. Init => Contract!Init
  BY DEF Init, NoInstance, Contract!Init, Route, ApplicableSteps
<1>3. TypeOK /\ Frame /\ Serial /\ [Next]_vars => Serial'
  BY SerialIsInductive
<1>4. TypeOK /\ Frame /\ Serial /\ [Next]_vars => [Contract!Next]_(Contract!contractVars)
  BY StepsKeepContract
<1> QED BY <1>1, <1>2, <1>3, <1>4, TypeCorrect, PTL DEF Spec, ImplementsContract, Contract!Spec
=============================================================================
