---------------------------- MODULE HostScripts ----------------------------
(***************************************************************************)
(* Approved host scripts: the control plane's broker (hostScripts.ts) for  *)
(* one script task, and the desktop that executes it (hostScriptIpc.ts,    *)
(* hostScriptRunner.ts).  The owner drafts and publishes versions, grants  *)
(* callers the published one, and tests any; a caller's run is queued,     *)
(* leased to the desktop, executed there and completed.                    *)
(*                                                                         *)
(* A broker request is one transaction that first sweeps what was revoked  *)
(* or is overdue.  The desktop awaits its requests one by one, so          *)
(* everything else may happen between two of its steps.  Of time only the  *)
(* passing of deadlines is kept ("late"), in the order in which they nest. *)
(***************************************************************************)
EXTENDS Integers

CONSTANTS Callers,      \* ids of host_task_apps, those of instance clients
          MaxVersions, HashOf,    \* the definition hash of each saved version
          MaxGrants, MaxJobs

ASSUME ScriptAssumption ==
  /\ MaxVersions \in Nat \ {0} /\ MaxGrants \in Nat /\ MaxJobs \in Nat
  /\ HashOf \in [1..MaxVersions -> STRING]
  /\ "owner" \notin Callers /\ "none" \notin Callers

Owner == "owner"
None == "none"
Grants == 1..MaxGrants
Jobs == 1..MaxJobs

VARIABLES
  standing,  \* of an instance client: "absent", "valid", "expired" or "revoked"
  caller,    \* its row of host_task_apps: "absent", "live" or "revoked"
  task,      \* the host_script_tasks row: live, published and latest version
  grant,     \* host_script_grants
  job,       \* host_script_jobs, by created_at
  runner,    \* run() of the desktop: its phase, its job, and whether it was aborted
  ran        \* how often a process was started for each job

scriptVars == <<task, grant, job, runner, ran>>

NoGrant == [app |-> None, hash |-> None, revoked |-> FALSE, late |-> FALSE]
NoJob == [app |-> None, grant |-> 0, version |-> 0, state |-> "absent", late |-> FALSE]
Idle == [phase |-> "idle", job |-> 0, aborted |-> FALSE]

Active == {"queued", "running"}
Open == Active \cup {"finished"}    \* "finished" is "succeeded" or "failed": both keep an answer
Ended == {"cancelled", "expired"}

ScriptInit ==
  /\ task = [live |-> TRUE, published |-> 1, latest |-> 1]
  /\ grant = [g \in Grants |-> NoGrant]
  /\ job = [j \in Jobs |-> NoJob]
  /\ runner = Idle
  /\ ran = [j \in Jobs |-> 0]

-----------------------------------------------------------------------------
(* sweep of hostTasks.ts: callers whose client lost its access, then       *)
(* cleanup of the jobs.  (A version's hash never changes: it is inserted   *)
(* once.)                                                                  *)
SweptCallers ==
  [c \in Callers |-> IF caller[c] = "live" /\ standing[c] \in {"expired", "revoked"}
                     THEN "revoked" ELSE caller[c]]

GrantHolds(b, grants) ==
  /\ grants[b.grant].app = b.app /\ grants[b.grant].hash = HashOf[b.version]
  /\ ~grants[b.grant].revoked /\ ~grants[b.grant].late

WithdrawnButPublished(b, t, callers, grants) ==   \* faulty: callers and grants are not looked at
  \/ ~t.live
  \/ b.app # Owner /\ HashOf[t.published] # HashOf[b.version]
Withdrawn(b, t, callers, grants) ==
  \/ ~t.live
  \/ /\ b.app # Owner
     /\ \/ callers[b.app] # "live" \/ ~GrantHolds(b, grants)
        \/ HashOf[t.published] # HashOf[b.version]

\* terminate(): of an ended job nothing matters but that it ended.
Terminated(state) == [NoJob EXCEPT !.state = state]

\* cleanup(), over the tables as the request leaves them.
CleanedRetrying(t, callers, grants) ==   \* faulty: a run is given out again when its lease ends
  [j \in Jobs |->
     LET b == job[j] IN
     IF b.state \in Open /\ Withdrawn(b, t, callers, grants) THEN Terminated("cancelled")
     ELSE IF b.state = "running" /\ b.late THEN [b EXCEPT !.state = "queued", !.late = FALSE]
     ELSE IF b.state \in Open /\ b.late THEN Terminated("expired") ELSE b]
Cleaned(t, callers, grants) ==
  [j \in Jobs |->
     LET b == job[j] IN
     IF b.state \in Open /\ Withdrawn(b, t, callers, grants) THEN Terminated("cancelled")
     ELSE IF b.state \in Open /\ b.late THEN Terminated("expired") ELSE b]

SweptJobs == Cleaned(task, SweptCallers, grant)

\* What every request does before anything else, and the 30 second timer does alone.
Swept == caller' = SweptCallers /\ job' = SweptJobs
Sweep == Swept /\ UNCHANGED <<standing, task, grant, runner, ran>>

-----------------------------------------------------------------------------
(* The owner's requests.  Saving the definition of the latest version once *)
(* more changes nothing.                                                   *)
SaveDraft ==
  /\ task.live /\ task.latest < MaxVersions
  /\ task' = [task EXCEPT !.latest = @ + 1]
  /\ Swept
  /\ UNCHANGED <<standing, grant, runner, ran>>

\* Of a revoked grant only its caller is kept.
Revoked(G) == [g \in Grants |-> IF g \in G THEN [NoGrant EXCEPT !.app = grant[g].app, !.revoked = TRUE]
                                ELSE grant[g]]
GrantsOf(c) == {g \in Grants : grant[g].app = c}

Publish(v) ==
  /\ task.live /\ v <= task.latest /\ v # task.published
  /\ task' = [task EXCEPT !.published = v]
  /\ grant' = Revoked({g \in Grants : grant[g] # NoGrant})
  /\ caller' = SweptCallers
  /\ job' = Cleaned(task', SweptCallers, grant')
  /\ UNCHANGED <<standing, runner, ran>>

RevokeTask ==
  /\ task.live
  /\ task' = [task EXCEPT !.live = FALSE]
  /\ caller' = SweptCallers
  /\ job' = Cleaned(task', SweptCallers, grant)
  /\ UNCHANGED <<standing, grant, runner, ran>>

\* The owner grants the published version, up to 24 hours; older grants end.
GrantCaller(g, c) ==
  /\ grant[g] = NoGrant /\ \A h \in Grants : h < g => grant[h] # NoGrant
  /\ task.live /\ SweptCallers[c] = "live"
  /\ grant' = [Revoked(GrantsOf(c)) EXCEPT ![g] =
                 [NoGrant EXCEPT !.app = c, !.hash = HashOf[task.published]]]
  /\ caller' = SweptCallers
  /\ job' = Cleaned(task, SweptCallers, Revoked(GrantsOf(c)))
  /\ UNCHANGED <<standing, task, runner, ran>>

RevokeGrant(g) ==
  /\ grant[g] # NoGrant /\ ~grant[g].revoked
  /\ grant' = Revoked({g})
  /\ caller' = SweptCallers
  /\ job' = Cleaned(task, SweptCallers, grant')
  /\ UNCHANGED <<standing, task, runner, ran>>

\* The broker's administrator revokes a caller; its script jobs end with the next sweep.
RevokeCaller(c) ==
  /\ SweptCallers[c] = "live"
  /\ caller' = [SweptCallers EXCEPT ![c] = "revoked"]
  /\ job' = SweptJobs
  /\ UNCHANGED <<standing, task, grant, runner, ran>>

-----------------------------------------------------------------------------
(* A run is requested: by a caller, of the published version and under a   *)
(* grant, or by the owner, of any version.  One run of each may be active. *)
(* (The limit of ten runs a minute refuses more.)                          *)
IsNext(j) == job[j].state = "absent" /\ \A i \in Jobs : i < j => job[i].state # "absent"

UsableGrants(c) ==
  {g \in GrantsOf(c) : grant[g].hash = HashOf[task.published]
                       /\ ~grant[g].revoked /\ ~grant[g].late}

MayRequest(j, c) ==
  /\ IsNext(j) /\ task.live
  /\ \A i \in Jobs : SweptJobs[i].state \in Active => SweptJobs[i].app # c

Requested(c, g, v) == [NoJob EXCEPT !.app = c, !.grant = g, !.version = v, !.state = "queued"]

CallerRuns(j, c) ==
  /\ MayRequest(j, c)
  /\ standing[c] = "valid" /\ SweptCallers[c] = "live"
  /\ \E g \in UsableGrants(c) : job' = [SweptJobs EXCEPT ![j] = Requested(c, g, task.published)]
  /\ caller' = SweptCallers
  /\ UNCHANGED <<standing, task, grant, runner, ran>>

OwnerRuns(j, v) ==
  /\ MayRequest(j, Owner) /\ v <= task.latest
  /\ job' = [SweptJobs EXCEPT ![j] = Requested(Owner, 0, v)]
  /\ caller' = SweptCallers
  /\ UNCHANGED <<standing, task, grant, runner, ran>>

-----------------------------------------------------------------------------
(* The desktop, one run at a time: claim the oldest queued job, or request *)
(* a test and claim it in the same transaction.                            *)
Oldest(jobs) == {j \in Jobs : /\ jobs[j].state = "queued"
                              /\ \A i \in Jobs : jobs[i].state = "queued" => j <= i}

ClaimNextUnswept ==   \* faulty: what a revocation did not cancel itself is still queued
  /\ runner = Idle
  /\ \E j \in Oldest(job) :
       /\ job' = [job EXCEPT ![j].state = "running"]
       /\ runner' = [Idle EXCEPT !.phase = "answered", !.job = j]
  /\ UNCHANGED <<standing, caller, task, grant, ran>>
ClaimNext ==
  /\ runner = Idle
  /\ \E j \in Oldest(SweptJobs) :
       /\ job' = [SweptJobs EXCEPT ![j].state = "running"]
       /\ runner' = [Idle EXCEPT !.phase = "answered", !.job = j]
  /\ caller' = SweptCallers
  /\ UNCHANGED <<standing, task, grant, ran>>

TestVersion(j, v) ==
  /\ runner = Idle
  /\ MayRequest(j, Owner) /\ v <= task.latest
  /\ job' = [SweptJobs EXCEPT ![j] = [Requested(Owner, 0, v) EXCEPT !.state = "running"]]
  /\ runner' = [Idle EXCEPT !.phase = "answered", !.job = j]
  /\ caller' = SweptCallers
  /\ UNCHANGED <<standing, task, grant, ran>>

\* executeHostScript: no process when aborted already, or when the lease has run out.
Start ==
  /\ runner.phase = "answered"
  /\ \/ /\ ~runner.aborted /\ ~job[runner.job].late
        /\ runner' = [runner EXCEPT !.phase = "running"]
        /\ ran' = [ran EXCEPT ![runner.job] = @ + 1]
     \/ /\ runner.aborted \/ job[runner.job].late
        /\ runner' = [Idle EXCEPT !.phase = "ended", !.job = runner.job]
        /\ UNCHANGED ran
  /\ UNCHANGED <<standing, caller, task, grant, job>>

\* Stop runner, sign out, a disabled feature, or the chat's own signal.
Abort ==
  /\ runner.phase \in {"answered", "running"} /\ ~runner.aborted
  /\ runner' = [runner EXCEPT !.aborted = TRUE]
  /\ UNCHANGED <<standing, caller, task, grant, job, ran>>

\* Every 500 ms the job is read, which sweeps; it is aborted unless it is still running.
Poll ==
  /\ runner.phase = "running"
  /\ Swept
  /\ runner' = [runner EXCEPT !.aborted = @ \/ SweptJobs[runner.job].state # "running"]
  /\ UNCHANGED <<standing, task, grant, ran>>

\* The process exits, is killed by an abort, or by the timer at its deadline.
ProcessEnds ==
  /\ runner.phase = "running"
  /\ runner' = [Idle EXCEPT !.phase = "ended", !.job = runner.job]
  /\ UNCHANGED <<standing, caller, task, grant, job, ran>>

ReadBack ==
  /\ runner.phase = "ended"
  /\ Swept
  /\ runner' = IF SweptJobs[runner.job].state = "running"
               THEN [runner EXCEPT !.phase = "checked"] ELSE Idle
  /\ UNCHANGED <<standing, task, grant, ran>>

\* The lease token is that of the job's only lease.
Complete ==
  /\ runner.phase = "checked"
  /\ job' = IF SweptJobs[runner.job].state = "running"
            THEN [SweptJobs EXCEPT ![runner.job].state = "finished"] ELSE SweptJobs
  /\ caller' = SweptCallers
  /\ runner' = Idle
  /\ UNCHANGED <<standing, task, grant, ran>>

(* The environment was switched, a request failed, or the desktop quit,    *)
(* which kills the process: the lease is left to run out.                  *)
GiveUp ==
  /\ runner # Idle
  /\ runner' = Idle
  /\ UNCHANGED <<standing, caller, task, grant, job, ran>>

-----------------------------------------------------------------------------
(* Deadlines pass.  A lease ends with its job, and a job with its grant.   *)
JobLapses(j) ==
  /\ job[j].state \in Open /\ ~job[j].late
  /\ job' = [job EXCEPT ![j].late = TRUE]
  /\ UNCHANGED <<standing, caller, task, grant, runner, ran>>

GrantLapses(g) ==
  /\ grant[g] # NoGrant /\ ~grant[g].revoked /\ ~grant[g].late
  /\ grant' = [grant EXCEPT ![g].late = TRUE]
  /\ job' = [j \in Jobs |-> IF job[j].grant = g /\ job[j].state \in Active
                            THEN [job[j] EXCEPT !.late = TRUE] ELSE job[j]]
  /\ UNCHANGED <<standing, caller, task, runner, ran>>

Versions == 1..MaxVersions

DesktopNext ==
  \/ ClaimNext \/ Start \/ Abort \/ Poll \/ ProcessEnds \/ ReadBack \/ Complete \/ GiveUp
  \/ \E j \in Jobs, v \in Versions : TestVersion(j, v)

ScriptNext ==
  \/ Sweep \/ SaveDraft \/ RevokeTask \/ DesktopNext
  \/ \E v \in Versions : Publish(v)
  \/ \E g \in Grants : RevokeGrant(g) \/ GrantLapses(g) \/ \E c \in Callers : GrantCaller(g, c)
  \/ \E c \in Callers : RevokeCaller(c)
  \/ \E j \in Jobs : JobLapses(j) \/ \E v \in Versions : OwnerRuns(j, v)

-----------------------------------------------------------------------------
ScriptTypeOK ==
  /\ standing \in [Callers -> {"absent", "valid", "expired", "revoked"}]
  /\ caller \in [Callers -> {"absent", "live", "revoked"}]
  /\ task \in [live : BOOLEAN, published : Versions, latest : Versions]
  /\ task.published <= task.latest
  /\ grant \in [Grants -> [app : Callers \cup {None}, hash : {HashOf[v] : v \in Versions} \cup {None},
                           revoked : BOOLEAN, late : BOOLEAN]]
  /\ job \in [Jobs -> [app : Callers \cup {Owner, None}, grant : 0..MaxGrants,
                       version : 0..MaxVersions, state : Open \cup Ended \cup {"absent"},
                       late : BOOLEAN]]
  /\ runner \in [phase : {"idle", "answered", "running", "ended", "checked"}, job : 0..MaxJobs,
                 aborted : BOOLEAN]
  /\ (runner.phase = "idle") = (runner.job = 0)
  /\ ran \in [Jobs -> Nat]

(* Whatever was published, granted again, revoked or claimed since, a      *)
(* caller's run that is queued, running or has a readable answer is of the *)
(* published definition and under an unrevoked grant for it; and no grant  *)
(* waits for the day its definition is published again (README.md:1813,    *)
(* publication "revokes old grants and cancels affected caller jobs").     *)
OnlyPublishedRuns ==
  /\ \A g \in Grants : grant[g] # NoGrant /\ ~grant[g].revoked =>
                        grant[g].hash = HashOf[task.published]
  /\ \A j \in Jobs : job[j].state \in Open /\ job[j].app # Owner =>
       LET g == job[j].grant IN
       /\ task.live
       /\ HashOf[job[j].version] = HashOf[task.published]
       /\ g \in GrantsOf(job[j].app) /\ ~grant[g].revoked

(* A run handed to the desktop is approved at that moment: the client's    *)
(* access, its caller row, the grant and its time all stand, although a    *)
(* lapse, a revoked token or a revoked caller cancels nothing by itself.   *)
HandedOutOnlyWhileApproved ==
  [][\A j \in Jobs :
       job[j].state = "queued" /\ job'[j].state = "running" /\ job[j].app # Owner =>
         /\ standing[job[j].app] = "valid" /\ caller[job[j].app] = "live"
         /\ ~grant[job[j].grant].late]_<<job, standing, caller, grant>>

(* A script may have side effects: whatever is lost, aborted or late, no   *)
(* run is started twice, and a run that may still be handed out was never  *)
(* started (README.md:1581, "Runs are not automatically retried").         *)
RunsOnce ==
  \A j \in Jobs : ran[j] <= 1 /\ (job[j].state \in {"absent", "queued"} => ran[j] = 0)
=============================================================================
