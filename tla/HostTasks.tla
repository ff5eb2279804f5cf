----------------------------- MODULE HostTasks -----------------------------
(***************************************************************************)
(* The control plane's host task broker (hostTasks.ts): apps request jobs, *)
(* the owner grants an app a runner identity for a while, runners of that  *)
(* identity claim jobs under a lease, and the app reads the result.        *)
(*                                                                         *)
(* Every request is one synchronous transaction that first sweeps expired  *)
(* and revoked work, so an action is a whole request.  What is concurrent  *)
(* are the parties: a runner may answer any claim it was ever given,       *)
(* however late, and revocations and deadlines fall between any two        *)
(* requests.  Deadlines are counted down; 0 is "<= now" in the code.       *)
(***************************************************************************)
EXTENDS Integers, Sequences

CONSTANTS Apps, Runners, Grants, Jobs,
          Identities, IdentityOf,  \* the Windows identity of each registered runner
          MaxAttempts,             \* 3
          LeaseTime,               \* 60 s
          JobTime, ResultTime, RequestPause,
          GrantTimes               \* for how long the owner may grant

None == "none"

ASSUME TaskAssumption ==
  /\ IdentityOf \in [Runners -> Identities]
  /\ None \notin Apps \cup Runners \cup Grants    \* ids are generated
  /\ MaxAttempts \in Nat \ {0} /\ LeaseTime \in Nat \ {0} /\ JobTime \in Nat \ {0}
  /\ ResultTime \in Nat \ {0} /\ RequestPause \in Nat \ {0} /\ GrantTimes \subseteq Nat \ {0}

VARIABLES
  job,       \* host_task_jobs
  requested, \* its rows by created_at, oldest first
  grant,     \* host_task_grants
  appLive,   \* the apps without revoked_at
  runnerLive,\* the runners without revoked_at
  pause,     \* the time until an app may request again
  claimed,   \* the runner that was given each attempt of a job, or None
  read       \* the jobs whose result its app was given

vars == <<job, requested, grant, appLive, runnerLive, pause, claimed, read>>

\* The job of no request: state "absent".  "left" is the time to expires_at, "until" the
\* time to lease_until of a running and to result_until of a succeeded job; "result" is the
\* attempt that submitted the stored result, 0 for NULL.
Absent == [state |-> "absent", app |-> None, grant |-> None, generation |-> 0, left |-> 0,
           attempt |-> 0, runner |-> None, until |-> 0, result |-> 0]
NoGrant == [app |-> None, identity |-> None, left |-> 0, generation |-> 0, revoked |-> FALSE]

Active == {"queued", "running"}
Granted == Active \cup {"succeeded"}
Unfinished == Granted \cup {"awaiting-approval"}
Terminal == {"cancelled", "denied", "expired", "failed", "acknowledged"}

Least(S) == CHOOSE m \in S : \A n \in S : m <= n

Init ==
  /\ job = [j \in Jobs |-> Absent] /\ requested = <<>>
  /\ grant = [g \in Grants |-> NoGrant]
  /\ appLive = Apps /\ runnerLive = Runners
  /\ pause = [a \in Apps |-> 0]
  /\ claimed = [j \in Jobs |-> [n \in 1..MaxAttempts |-> None]]
  /\ read = {}

-----------------------------------------------------------------------------
(* terminate erases the result and the lease.  The grant, the runner and   *)
(* the deadline of an ended job stay in its row and are not read again.    *)
TerminatedWithResult(b, state) ==   \* faulty: the result is kept
  [Absent EXCEPT !.state = state, !.app = b.app, !.attempt = b.attempt, !.result = b.result]
Terminated(b, state) == [Absent EXCEPT !.state = state, !.app = b.app, !.attempt = b.attempt]

\* The grants an app can use now; issuing one revokes the others.
Usable(a) == {g \in Grants : grant[g].app = a /\ ~grant[g].revoked /\ grant[g].left > 0}

(* sweep, for a job.  The hash of the grant's row changes only with its     *)
(* generation.                                                             *)
GrantHolds(b) ==
  /\ b.grant \in Usable(b.app)
  /\ grant[b.grant].generation = b.generation

Withdrawn(b) == b.app \notin appLive \/ (b.runner # None /\ b.runner \notin runnerLive)

LapsedByItself(b) ==   \* faulty: a stored result outlives its grant
  \/ b.state # "succeeded" /\ b.left = 0
  \/ b.state \in Active /\ ~GrantHolds(b)
  \/ b.state = "succeeded" /\ b.until = 0
  \/ b.state = "running" /\ b.until = 0 /\ b.attempt >= MaxAttempts
LapsedOnceGranted(b) ==   \* faulty: a job nobody approves never expires
  \/ b.state \in Active /\ b.left = 0
  \/ b.state \in Granted /\ ~GrantHolds(b)
  \/ b.state = "succeeded" /\ b.until = 0
  \/ b.state = "running" /\ b.until = 0 /\ b.attempt >= MaxAttempts
Lapsed(b) ==
  \/ b.state # "succeeded" /\ b.left = 0
  \/ b.state \in Granted /\ ~GrantHolds(b)
  \/ b.state = "succeeded" /\ b.until = 0
  \/ b.state = "running" /\ b.until = 0 /\ b.attempt >= MaxAttempts

Approvable(b) ==
  /\ b.state = "awaiting-approval"
  /\ Usable(b.app) # {}
  /\ \A k \in Jobs : job[k].app = b.app => job[k].state \notin Active
ApprovedKeepingDeadline(b, g) ==   \* faulty: the job may outlive its grant
  [b EXCEPT !.state = "queued", !.grant = g, !.generation = grant[g].generation]
Approved(b, g) ==
  [b EXCEPT !.state = "queued", !.grant = g, !.generation = grant[g].generation,
            !.left = Least({@, grant[g].left})]

Requeued(b) == [b EXCEPT !.state = "queued", !.runner = None, !.until = 0]

Swept(b) ==
  CASE b.state \notin Unfinished -> b
    [] b.state \in Unfinished /\ Withdrawn(b) -> Terminated(b, "cancelled")
    [] b.state \in Unfinished /\ ~Withdrawn(b) /\ Lapsed(b) -> Terminated(b, "expired")
    [] OTHER -> IF Approvable(b) THEN Approved(b, CHOOSE g \in Usable(b.app) : TRUE)
                ELSE IF b.state = "running" /\ b.until = 0 THEN Requeued(b)
                ELSE b

SweptJobs == [j \in Jobs |-> Swept(job[j])]

(* The 30 second timer, and every request that is refused or only reads.   *)
Cleanup ==
  /\ job' = SweptJobs
  /\ UNCHANGED <<requested, grant, appLive, runnerLive, pause, claimed, read>>

-----------------------------------------------------------------------------
(* App requests.  POST /requests under a new idempotency key; the key of   *)
(* an older job returns that job.  (Of the limits on how often an app may  *)
(* ask only the shortest is kept; the others refuse more.)                 *)
IsNew(j) == job[j].state = "absent"

Request(j, a) ==
  /\ IsNew(j) /\ a \in appLive /\ pause[a] = 0
  /\ \A k \in Jobs : job[k].app = a =>
       IF Usable(a) # {} THEN SweptJobs[k].state \notin Active
       ELSE SweptJobs[k].state # "awaiting-approval"
  /\ LET asked == [Absent EXCEPT !.state = "awaiting-approval", !.app = a, !.left = JobTime] IN
       job' = [SweptJobs EXCEPT ![j] = IF Usable(a) = {} THEN asked
                                       ELSE Approved(asked, CHOOSE g \in Usable(a) : TRUE)]
  /\ requested' = Append(requested, j)
  /\ pause' = [pause EXCEPT ![a] = RequestPause]
  /\ UNCHANGED <<grant, appLive, runnerLive, claimed, read>>

\* GET results
ReadResult(j) ==
  /\ job[j].app \in appLive /\ SweptJobs[j].state = "succeeded"
  /\ SweptJobs[j].result = SweptJobs[j].attempt
  /\ read' = read \cup {j}
  /\ job' = SweptJobs
  /\ UNCHANGED <<requested, grant, appLive, runnerLive, pause, claimed>>

\* POST ack and cancel; both may be repeated.
Settle(j) ==
  /\ job[j].app \in appLive
  /\ \/ /\ SweptJobs[j].state \in {"succeeded", "acknowledged"}
        /\ job' = [SweptJobs EXCEPT ![j] = Terminated(@, "acknowledged")]
     \/ /\ SweptJobs[j].state \in Unfinished \cup {"cancelled"}
        /\ job' = [SweptJobs EXCEPT ![j] = Terminated(@, "cancelled")]
  /\ UNCHANGED <<requested, grant, appLive, runnerLive, pause, claimed, read>>

-----------------------------------------------------------------------------
(* Runner requests.                                                        *)
Matches(r, g) == grant[g].identity = IdentityOf[r]

Claimable(r) ==
  {i \in 1..Len(requested) :
     LET b == SweptJobs[requested[i]] IN
     b.state = "queued" /\ ~grant[b.grant].revoked /\ Matches(r, b.grant)}

\* The lease ends with the job and with the grant.
Lease(b) == Least({LeaseTime, b.left, grant[b.grant].left})

Claim(r) ==
  /\ r \in runnerLive /\ Claimable(r) # {}
  /\ LET j == requested[Least(Claimable(r))]
         b == SweptJobs[j]
     IN  /\ job' = [SweptJobs EXCEPT ![j] = [b EXCEPT
                      !.state = "running", !.attempt = @ + 1, !.runner = r, !.until = Lease(b)]]
         /\ claimed' = [claimed EXCEPT ![j] = [n \in DOMAIN @ |->
                          IF n = b.attempt + 1 THEN r ELSE @[n]]]
  /\ UNCHANGED <<requested, grant, appLive, runnerLive, pause, read>>

(* lease(), for attempt n of job j.  The token of an attempt is known to   *)
(* the runner that was given it and to nobody else.                        *)
HoldsAnyLease(r, j, n) ==   \* faulty: neither the attempt nor its token is compared
  job[j].state = "running" /\ job[j].runner = r /\ job[j].until > 0
HoldsLease(r, j, n) ==
  /\ job[j].state = "running" /\ job[j].runner = r /\ job[j].until > 0
  /\ job[j].attempt = n
  /\ Matches(r, job[j].grant)

Answers(r, j, n) ==
  /\ r \in runnerLive /\ claimed[j][n] = r
  /\ HoldsLease(r, j, n)
  /\ SweptJobs[j].state = "running"
  /\ UNCHANGED <<requested, grant, appLive, runnerLive, pause, claimed, read>>

Result(r, j, n) ==
  /\ Answers(r, j, n)
  /\ job' = [SweptJobs EXCEPT ![j].state = "succeeded", ![j].result = n, ![j].until = ResultTime,
                                ![j].left = 0]   \* expires_at is not read any more

\* "needs-sign-in" ends a job as "failed" does.
Failure(r, j, n) ==
  /\ Answers(r, j, n)
  /\ job' = [SweptJobs EXCEPT ![j] = Terminated(@, "failed")]

-----------------------------------------------------------------------------
(* Owner requests.  A revocation terminates the work that depends on it.   *)
RevokedGrants(G) ==
  [g \in Grants |-> IF g \in G /\ ~grant[g].revoked
                    THEN [grant[g] EXCEPT !.revoked = TRUE, !.generation = @ + 1]
                    ELSE grant[g]]

JobsOfGrantsRunning(G) ==   \* faulty: a stored result is forgotten
  {j \in Jobs : SweptJobs[j].state \in Active /\ SweptJobs[j].grant \in G}
JobsOfGrants(G) == {j \in Jobs : SweptJobs[j].state \in Granted /\ SweptJobs[j].grant \in G}

Cancelled(K) == [j \in Jobs |-> IF j \in K THEN Terminated(SweptJobs[j], "cancelled")
                                ELSE SweptJobs[j]]

Grant(g, a, i, t) ==
  /\ grant[g] = NoGrant /\ a \in appLive
  /\ LET old == {h \in Grants : grant[h].app = a /\ ~grant[h].revoked} IN
       /\ grant' = [RevokedGrants(old) EXCEPT ![g] =
                      [app |-> a, identity |-> i, left |-> t, generation |-> 1, revoked |-> FALSE]]
       /\ job' = Cancelled(JobsOfGrants(old))
  /\ UNCHANGED <<requested, appLive, runnerLive, pause, claimed, read>>

RevokeGrant(g) ==
  /\ grant[g] # NoGrant
  /\ grant' = RevokedGrants({g})
  /\ job' = Cancelled(JobsOfGrants({g}))
  /\ UNCHANGED <<requested, appLive, runnerLive, pause, claimed, read>>

RevokeApp(a) ==
  /\ grant' = RevokedGrants({g \in Grants : grant[g].app = a})
  /\ job' = Cancelled({j \in Jobs : SweptJobs[j].app = a /\ SweptJobs[j].state \in Unfinished})
  /\ appLive' = appLive \ {a}
  /\ UNCHANGED <<requested, runnerLive, pause, claimed, read>>

RevokeRunner(r) ==
  /\ runnerLive' = runnerLive \ {r}
  /\ job' = Cancelled({j \in Jobs : SweptJobs[j].runner = r
                                    /\ SweptJobs[j].state \in {"running", "succeeded"}})
  /\ UNCHANGED <<requested, grant, appLive, pause, claimed, read>>

\* Deny does not look at the job's state.
Deny(j) ==
  /\ job[j] # Absent
  /\ job' = [SweptJobs EXCEPT ![j] = Terminated(@, "denied")]
  /\ UNCHANGED <<requested, grant, appLive, runnerLive, pause, claimed, read>>

Less(n) == IF n = 0 THEN 0 ELSE n - 1
Tick ==
  /\ job' = [j \in Jobs |-> [job[j] EXCEPT !.left = Less(@), !.until = Less(@)]]
  /\ grant' = [g \in Grants |-> IF grant[g].revoked THEN grant[g]
                                ELSE [grant[g] EXCEPT !.left = Less(@)]]
  /\ pause' = [a \in Apps |-> Less(pause[a])]
  /\ UNCHANGED <<requested, appLive, runnerLive, claimed, read>>

-----------------------------------------------------------------------------
Next ==
  \/ Cleanup \/ Tick
  \/ \E j \in Jobs : \/ \E a \in Apps : Request(j, a)
                     \/ ReadResult(j) \/ Settle(j) \/ Deny(j)
                     \/ \E r \in Runners, n \in 1..MaxAttempts : Result(r, j, n) \/ Failure(r, j, n)
  \/ \E r \in Runners : Claim(r) \/ RevokeRunner(r)
  \/ \E a \in Apps : RevokeApp(a)
  \/ \E g \in Grants : \/ RevokeGrant(g)
                       \/ \E a \in Apps, i \in Identities, t \in GrantTimes : Grant(g, a, i, t)

Spec == Init /\ [][Next]_vars

\* Time passes and the maintenance timer fires.  No party is obliged to do anything.
FairSpec == Spec /\ WF_vars(Tick) /\ WF_vars(Cleanup)

-----------------------------------------------------------------------------
JobRows == [state : Unfinished \cup Terminal \cup {"absent"}, app : Apps \cup {None},
            grant : Grants \cup {None}, generation : Nat, left : 0..JobTime,
            attempt : 0..MaxAttempts, runner : Runners \cup {None}, until : Nat,
            result : 0..MaxAttempts]
GrantRows == [app : Apps \cup {None}, identity : Identities \cup {None}, left : Nat,
              generation : Nat, revoked : BOOLEAN]

(* Types; the two unique indexes of the table hold, so that no sweep is    *)
(* ever rolled back by them; and a result exists only in a succeeded job.  *)
TaskTypeOK ==
  /\ job \in [Jobs -> JobRows]
  /\ requested \in Seq(Jobs)
  /\ grant \in [Grants -> GrantRows]
  /\ appLive \subseteq Apps /\ runnerLive \subseteq Runners
  /\ pause \in [Apps -> 0..RequestPause]
  /\ claimed \in [Jobs -> [1..MaxAttempts -> Runners \cup {None}]]
  /\ read \subseteq Jobs
  /\ \A j, k \in Jobs : j # k /\ job[j].app = job[k].app =>
       /\ job[j].state \in Active => job[k].state \notin Active
       /\ job[j].state = "awaiting-approval" => job[k].state # "awaiting-approval"
  /\ \A j \in Jobs : job[j].result # 0 <=> job[j].state = "succeeded"

(* Nothing outlives a revocation: a granted job's grant is the unrevoked   *)
(* one it was bound to, issued to its app, and the runner that holds or    *)
(* held it is of the grant's identity and not revoked (hostTasks.ts,       *)
(* revoke and sweep; README.md:2374, "Revocation invalidates future        *)
(* dispatch and late results").                                            *)
RevocationHolds ==
  \A j \in Jobs : LET b == job[j] IN
    /\ b.state \in Granted =>
         /\ b.app \in appLive /\ grant[b.grant].app = b.app
         /\ ~grant[b.grant].revoked /\ grant[b.grant].generation = b.generation
    /\ b.state \in {"running", "succeeded"} =>
         b.runner \in runnerLive /\ grant[b.grant].identity = IdentityOf[b.runner]

(* Deadlines nest: the lease ends with the job, and the job with its       *)
(* grant; no lease is longer than LeaseTime, so a runner never works on    *)
(* past what the owner granted (README.md:2405-2411).                      *)
DeadlinesNest ==
  \A j \in Jobs : LET b == job[j] IN
    /\ b.state \in Active => b.left <= grant[b.grant].left
    /\ b.state = "running" => b.until <= LeaseTime /\ b.until <= b.left

(* Fencing: the stored result is that of the newest attempt, submitted by  *)
(* the runner that attempt was given to; and no job is given out more than *)
(* MaxAttempts times, each attempt to one runner (README.md:2373, a        *)
(* previous attempt must not complete a newer lease).                      *)
Fenced ==
  \A j \in Jobs : LET b == job[j] IN
    /\ \A n \in 1..MaxAttempts : claimed[j][n] # None <=> n <= b.attempt
    /\ b.state \in {"running", "succeeded"} => b.attempt > 0 /\ claimed[j][b.attempt] = b.runner
    /\ b.state = "succeeded" => b.result = b.attempt
    /\ b.state = "queued" => b.attempt < MaxAttempts

(* The app is given a result only while its own access, its grant, the     *)
(* runner and the retention time all stand, whatever was not swept yet     *)
(* ("Expired results cannot be released", README.md:2413).                 *)
ReleasedOnlyWhileGranted ==
  [][\A j \in read' \ read :
       /\ job[j].app \in appLive /\ job[j].until > 0 /\ job[j].runner \in runnerLive
       /\ job[j].grant \in Usable(job[j].app)]_vars

(* Every job ends, even if no runner and no app ever answers.              *)
JobsEnd == \A j \in Jobs : job[j].state \in Unfinished ~> job[j].state \in Terminal
=============================================================================
