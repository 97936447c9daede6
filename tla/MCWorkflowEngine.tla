-------------------------- MODULE MCWorkflowEngine --------------------------
(***************************************************************************)
(* Small instances of WorkflowEngine for TLC.  Three people: u1 holds role *)
(* r1, u2 holds role r2, u3 holds no role and is the person delegated to.  *)
(***************************************************************************)
EXTENDS WorkflowEngine, TLC

CONSTANTS u1, u2, u3, r1, r2

MCUsers == {u1, u2, u3}
MCRoles == {r1, r2}
MCRoleOf == (u1 :> r1) @@ (u2 :> r2) @@ (u3 :> NoRole)

Step(num, approver) ==
    [num |-> num, approver |-> approver, min |-> NoBound, max |-> NoBound,
     timed |-> FALSE, auto |-> FALSE, targets |-> {}, rejectTo |-> NoStep]

Timed(step, targets) ==
    [step EXCEPT !.timed = TRUE, !.auto = TRUE, !.targets = targets]

\* Two steps in sequence, the first escalated when overdue, the second
\* returned for rework.
Sequential ==
    {Timed(Step(1, r1), {u3}), [Timed(Step(2, u2), {r1}) EXCEPT !.rejectTo = 1]}

\* Step 2 is only for amounts of 2 and more, so 1 goes from step 1 to step 3.
Threshold ==
    {Step(1, r1), [Step(2, r2) EXCEPT !.min = 2], [Step(3, u1) EXCEPT !.rejectTo = 1]}

\* Both steps of number 1 must approve, then step 2.
Parallel == {Step(1, u1), Step(1, r2), Step(2, u2)}

MCChains == {Sequential, Threshold, Parallel}

\* The chain for overlapping requests: escalations on both of the first two
\* steps, the second skipped without an amount, rework from the later ones.
Mixed ==
    {Timed(Step(1, r1), {u3}),
     [Timed(Step(2, u2), {r1}) EXCEPT !.min = 2, !.rejectTo = 1],
     [Step(3, u2) EXCEPT !.rejectTo = 1]}

\* A rejection at step 2 returns to step 1, which no amount this small needs.
OffRoute == {[Step(1, r1) EXCEPT !.min = 3], [Step(2, u2) EXCEPT !.rejectTo = 1]}

MCOverlapChains == {Mixed, OffRoute}
=============================================================================
