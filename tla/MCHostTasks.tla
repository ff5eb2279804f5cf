---------------------------- MODULE MCHostTasks ----------------------------
(* HostTasks with two runners of the same Windows identity.               *)
EXTENDS HostTasks

MCIdentityOf == [r \in Runners |-> "i1"]
=============================================================================
