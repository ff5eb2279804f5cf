------------------------------ MODULE LockFile ------------------------------
(***************************************************************************)
(* The daemon's single-instance guard (lockfile.ts): a file created        *)
(* exclusively, into which its owner then writes its pid.  Each system     *)
(* call is a step.  Processes start once, crash at any point, and find an  *)
(* old lock or none; pids are not reused.                                  *)
(***************************************************************************)
EXTENDS Integers, FiniteSets

CONSTANT Procs   \* the daemons started, by pid

VARIABLES file,  \* the lockfile: who created it and whether its pid is in it, or NoFile
          pc     \* where each process is

vars == <<file, pc>>

NoFile == [owner |-> "nobody", written |-> FALSE]
Stale == [owner |-> "the crashed", written |-> TRUE]

\* Where a process is alive: in acquireLock, as a running daemon, or releasing the lock.
Alive == {"create", "write", "inspect", "remove", "recreate", "rewrite", "reinspect",
          "running", "release", "unlink"}
AliveHolder(p) == /\ file.owner \in Procs \ {p} /\ file.written /\ pc[file.owner] \in Alive

Init ==
  /\ file \in {NoFile, Stale}
  /\ pc = [p \in Procs |-> "new"]

-----------------------------------------------------------------------------
At(p, from, to) == pc[p] = from /\ pc' = [pc EXCEPT ![p] = to]

Start(p) == At(p, "new", "create") /\ UNCHANGED file

(* openSync 'wx' of tryCreateLock, the first and the second time.          *)
Create(p) ==
  \/ /\ file = NoFile /\ file' = [owner |-> p, written |-> FALSE]
     /\ At(p, "create", "write") \/ At(p, "recreate", "rewrite")
  \/ /\ file # NoFile /\ UNCHANGED file
     /\ At(p, "create", "inspect") \/ At(p, "recreate", "reinspect")

\* The pid goes into the file p created, whether or not it is still the lockfile.
Write(p) ==
  /\ At(p, "write", "running") \/ At(p, "rewrite", "running")
  /\ file' = IF file.owner = p THEN [file EXCEPT !.written = TRUE] ELSE file

(* acquireLock refuses for a live holder and reclaims the lock otherwise.  *)
Inspect(p) ==
  /\ \/ AliveHolder(p) /\ (At(p, "inspect", "refused") \/ At(p, "reinspect", "refused"))
     \/ ~AliveHolder(p) /\ (At(p, "inspect", "remove") \/ At(p, "reinspect", "refused"))
  /\ UNCHANGED file

Remove(p) == At(p, "remove", "recreate") /\ file' = NoFile

(* release, when the daemon stops or fails to start: the file is removed   *)
(* if it names this process or nobody.                                     *)
Release(p) ==
  /\ \/ At(p, "running", "release")
     \/ /\ file = NoFile \/ file.owner = p \/ ~file.written
        /\ At(p, "release", "unlink")
     \/ /\ file # NoFile /\ file.owner # p /\ file.written
        /\ At(p, "release", "stopped")
  /\ UNCHANGED file

Unlink(p) == At(p, "unlink", "stopped") /\ file' = NoFile

Crash(p) == pc[p] \in Alive /\ pc' = [pc EXCEPT ![p] = "crashed"] /\ UNCHANGED file

Next ==
  \E p \in Procs : \/ Start(p) \/ Create(p) \/ Write(p) \/ Inspect(p) \/ Remove(p)
                   \/ Release(p) \/ Unlink(p) \/ Crash(p)

Spec == Init /\ [][Next]_vars

-----------------------------------------------------------------------------
(* lockfile.ts:5-6: "if the holder is alive it refuses to start a rival    *)
(* writer": two daemons never run on one store.                            *)
OneDaemon == Cardinality({p \in Procs : pc[p] = "running"}) <= 1
=============================================================================
