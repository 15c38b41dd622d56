------------------------------ MODULE MCZoxide ------------------------------
(* Bounds for ZoxideSource and for ZoxideRecords: both policies, every     *)
(* failure, every launch location.  The calls of the Builder and the bytes *)
(* of one output share no variable; half says which of the two moves.      *)
EXTENDS ZoxideSource, ZoxideRecords

VARIABLE half

BothPolicies == {"cached", "fresh"}
AllFailures == FailureKinds
AllLocations == {"inner", "root", "drive root"}

MCInit ==
    /\ Init /\ RecordsInit
    /\ \/ half = "source" /\ output = <<>>
       \/ half = "records" /\ policy = "cached" /\ timed

MCNext ==
    /\ UNCHANGED half
    /\ \/ half = "source" /\ Next /\ UNCHANGED recordsVars
       \/ half = "records" /\ RecordsNext /\ UNCHANGED vars

MCSpec == MCInit /\ [][MCNext]_<<vars, recordsVars, half>> /\ Fairness
=============================================================================
