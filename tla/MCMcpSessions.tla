---------------------------- MODULE MCMcpSessions ----------------------------
(* McpSessions with a read and a write, and limits that an owner changes.  *)
EXTENDS McpSessions

MCCalls == Operations \X {1, 2}
MCSettings == {[maxConcurrency |-> 1, maxQueueSize |-> 2, queueTimeout |-> 1],
               [maxConcurrency |-> 2, maxQueueSize |-> 1, queueTimeout |-> 1]}
=============================================================================
