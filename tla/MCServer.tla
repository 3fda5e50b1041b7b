------------------------------ MODULE MCServer ------------------------------
(* Small instances of Server for TLC.                                       *)
EXTENDS Server, TLC

CONSTANTS r1, r2

OneRequest == {r1}
TwoRequests == {r1, r2}

\* Every request has an id of its own; that of r2 is negative.
OneId == r1 :> 0
DistinctIds == r1 :> 0 @@ r2 :> -1

\* r2 comes with the id of r1, which the host may do once r1 is answered.
ReusedId == r1 :> 1 @@ r2 :> 1
=============================================================================
