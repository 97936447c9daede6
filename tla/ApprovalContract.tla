-------------------------- MODULE ApprovalContract --------------------------
(***************************************************************************)
(* What an approval promises to the module that started it, with nobody's  *)
(* identity, clock or database in sight.  An approval is given a route,    *)
(* the step numbers it has to clear, and visits them in increasing order:  *)
(* it may be sent back to a step of the route it has already reached, it   *)
(* is approved only from the last step, and once it is approved, rejected  *)
(* or cancelled nothing ever changes again.                                *)
(***************************************************************************)
EXTENDS Naturals

VARIABLES phase, route, at

contractVars == <<phase, route, at>>

\* The steps of the route that come after n, and the first step of a set.
After(n) == {m \in route : m > n}
First(S) == CHOOSE m \in S : \A n \in S : m <= n

Init ==
    /\ phase = "none"
    /\ route = {}
    /\ at = 0

Open ==
    /\ phase = "none"
    /\ phase' = "pending"
    /\ route' # {}
    /\ at' = First(route')

Advance ==
    /\ phase = "pending"
    /\ After(at) # {}
    /\ at' = First(After(at))
    /\ UNCHANGED <<phase, route>>

SendBack ==
    /\ phase = "pending"
    /\ at' \in route
    /\ at' < at
    /\ UNCHANGED <<phase, route>>

Approve ==
    /\ phase = "pending"
    /\ at \in route
    /\ After(at) = {}
    /\ phase' = "approved"
    /\ UNCHANGED <<route, at>>

Close ==
    /\ phase = "pending"
    /\ phase' \in {"rejected", "cancelled"}
    /\ UNCHANGED <<route, at>>

Next == Open \/ Advance \/ SendBack \/ Approve \/ Close

Spec == Init /\ [][Next]_contractVars
=============================================================================
