----------------------------- MODULE MCOverlap -----------------------------
(***************************************************************************)
(* MCMaterials with requests that overlap: a worker's handler may run on   *)
(* rows it loaded before others committed.                                 *)
(***************************************************************************)
EXTENDS MCMaterials

NextOverlapping ==
    \/ Next
    \/ UNCHANGED part /\ \E p \in Workers : Load(p)

SpecOverlapping == Init /\ [][NextOverlapping]_<<part, vars>>
=============================================================================
