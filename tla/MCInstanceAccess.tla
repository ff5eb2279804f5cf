-------------------------- MODULE MCInstanceAccess --------------------------
(* One client with two requests at a time, a script with two versions.     *)
EXTENDS InstanceAccess, TLC

MCHashOf == [v \in 1..MaxVersions |-> IF v = 1 THEN "A" ELSE "B"]
MCOwnerSets == {{}, {"run"}}
Symmetry == Permutations(Requests)
=============================================================================
