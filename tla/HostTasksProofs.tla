-------------------------- MODULE HostTasksProofs --------------------------
(***************************************************************************)
(* What is proved about the host task broker, for any apps, runners,       *)
(* grants, jobs, identities and times: its rows and unique indexes, that   *)
(* nothing outlives a revocation or a deadline it depends on, that leases  *)
(* fence, and that no result is released without what it was granted for.  *)
(***************************************************************************)
EXTENDS HostTasks, WellFoundedInduction, TLAPS

\* A row, with the runners its attempts were given to, against the other tables.
RowSound(b, c) ==
  /\ b \in JobRows
  /\ b.state \in {"absent", "awaiting-approval"} => b.attempt = 0
  /\ b.state \in Unfinished => b.app \in Apps
  /\ b.result # 0 <=> b.state = "succeeded"
  /\ \A n \in 1..MaxAttempts : c[n] # None <=> n <= b.attempt
  /\ b.state \in {"running", "succeeded"} => b.attempt > 0 /\ c[b.attempt] = b.runner
  /\ b.state = "succeeded" => b.result = b.attempt
  /\ b.state = "queued" => b.attempt < MaxAttempts

Bound(b, grants) ==
  /\ b.state \in Granted =>
       /\ b.grant \in Grants /\ grants[b.grant].app = b.app
       /\ ~grants[b.grant].revoked /\ grants[b.grant].generation = b.generation
  /\ b.state \in {"running", "succeeded"} => grants[b.grant].identity = IdentityOf[b.runner]
  /\ b.state \in Active => b.left <= grants[b.grant].left
  /\ b.state = "running" => b.until <= LeaseTime /\ b.until <= b.left

Live(b, apps, runners) ==
  /\ b.state \in Granted => b.app \in apps
  /\ b.state \in {"running", "succeeded"} => b.runner \in runners

\* The two unique indexes.
Unique(rows) ==
  \A j, k \in Jobs : j # k /\ rows[j].app = rows[k].app =>
    /\ rows[j].state \in Active => rows[k].state \notin Active
    /\ rows[j].state = "awaiting-approval" => rows[k].state # "awaiting-approval"

OtherTypes ==
  /\ requested \in Seq(Jobs)
  /\ grant \in [Grants -> GrantRows]
  /\ appLive \subseteq Apps /\ runnerLive \subseteq Runners
  /\ pause \in [Apps -> 0..RequestPause]
  /\ claimed \in [Jobs -> [1..MaxAttempts -> Runners \cup {None}]]
  /\ read \subseteq Jobs

Sound(b, c, grants, apps, runners) == RowSound(b, c) /\ Bound(b, grants) /\ Live(b, apps, runners)

TaskInv ==
  /\ job \in [Jobs -> JobRows] /\ OtherTypes /\ Unique(job)
  /\ \A j \in Jobs : Sound(job[j], claimed[j], grant, appLive, runnerLive)

-----------------------------------------------------------------------------
(* The least of some numbers.                                              *)
LEMMA LeastIs ==
  ASSUME NEW S, S \subseteq Nat, S # {}
  PROVE  Least(S) \in S /\ \A n \in S : Least(S) <= n
<1> DEFINE Smaller == OpToRel(<, Nat)
<1>1. \A x, y \in Nat : y < x => <<y, x>> \in Smaller
  BY DEF OpToRel
<1>2. IsWellFoundedOn(Smaller, Nat)
  BY NatLessThanWellFounded
<1> HIDE DEF Smaller
<1>3. PICK m \in S : \A n \in S : <<n, m>> \notin Smaller
  BY <1>2, WFMin
<1>4. ASSUME NEW n \in S PROVE m <= n
  <2>1. m \in Nat /\ n \in Nat /\ ~(n < m)
    BY <1>1, <1>3
  <2> QED
    BY <2>1
<1> QED
  BY <1>4 DEF Least

(* Rows that are ended depend on nothing.                                  *)
LEMMA TerminatedSound ==
  ASSUME NEW b, NEW c, RowSound(b, c), NEW s \in Terminal
  PROVE  /\ Terminated(b, s) \in JobRows /\ Terminated(b, s).state = s /\ Terminated(b, s).app = b.app
         /\ \A grants, apps, runners : Sound(Terminated(b, s), c, grants, apps, runners)
<1> DEFINE t == Terminated(b, s)
<1>1. /\ t.state = s /\ t.app = b.app /\ t.attempt = b.attempt /\ t.result = 0
  BY DEF Terminated, Absent
<1>2. t \in JobRows
  <2>1. /\ b.app \in Apps \cup {None} /\ b.attempt \in 0..MaxAttempts
        /\ 0 \in 0..JobTime /\ 0 \in 0..MaxAttempts /\ s \in Unfinished \cup Terminal \cup {"absent"}
    BY TaskAssumption DEF RowSound, JobRows
  <2> QED
    BY <2>1 DEF Terminated, Absent, JobRows
<1>3. s \notin Unfinished /\ s # "absent"
  BY DEF Terminal, Unfinished, Granted, Active
<1> HIDE DEF t
<1>4. RowSound(t, c)
  BY <1>1, <1>2, <1>3 DEF RowSound, Unfinished, Granted, Active
<1>5. \A grants, apps, runners : Bound(t, grants) /\ Live(t, apps, runners)
  BY <1>1, <1>3 DEF Bound, Live, Unfinished, Granted, Active
<1> QED
  BY <1>1, <1>2, <1>4, <1>5 DEF Sound, t
(* The sweep: what it makes of a row that is sound is sound.               *)
LEMMA ApprovedSound ==
  ASSUME OtherTypes, NEW b, NEW c, RowSound(b, c), b.state = "awaiting-approval",
         NEW g \in Usable(b.app), b.app \in appLive
  PROVE  /\ Approved(b, g) \in JobRows /\ Approved(b, g).state = "queued" /\ Approved(b, g).app = b.app
         /\ Sound(Approved(b, g), c, grant, appLive, runnerLive)
<1> DEFINE n == Approved(b, g)
<1>1. b \in JobRows /\ b.left \in Nat /\ b.attempt = 0 /\ b.result = 0
  BY TaskAssumption DEF RowSound, JobRows, Unfinished, Granted, Active
<1>2. /\ g \in Grants /\ grant[g] \in GrantRows /\ grant[g].left \in Nat /\ grant[g].generation \in Nat
      /\ grant[g].app = b.app /\ ~grant[g].revoked
  BY DEF OtherTypes, Usable, GrantRows
<1>3. /\ Least({b.left, grant[g].left}) \in {b.left, grant[g].left}
      /\ Least({b.left, grant[g].left}) <= b.left /\ Least({b.left, grant[g].left}) <= grant[g].left
  BY <1>1, <1>2, LeastIs
<1>4. Least({b.left, grant[g].left}) \in 0..JobTime
  BY <1>1, <1>2, <1>3, TaskAssumption DEF JobRows
<1>5. n \in JobRows
  BY <1>1, <1>2, <1>4 DEF Approved, JobRows, Unfinished, Granted, Active
<1>6. /\ n.state = "queued" /\ n.app = b.app /\ n.grant = g /\ n.generation = grant[g].generation
      /\ n.left <= grant[g].left /\ n.attempt = 0 /\ n.result = 0
  BY <1>1, <1>3 DEF Approved, JobRows
<1> HIDE DEF n
<1>7. RowSound(n, c)
  BY <1>5, <1>6, <1>1, TaskAssumption DEF RowSound, Unfinished, Granted, Active, OtherTypes
<1>8. Bound(n, grant) /\ Live(n, appLive, runnerLive)
  BY <1>2, <1>6 DEF Bound, Live, Granted, Active
<1> QED
  BY <1>5, <1>6, <1>7, <1>8 DEF Sound, n

LEMMA RequeuedSound ==
  ASSUME NEW b, NEW c, Sound(b, c, grant, appLive, runnerLive), b.state = "running", b.attempt < MaxAttempts
  PROVE  /\ Requeued(b) \in JobRows /\ Requeued(b).state = "queued" /\ Requeued(b).app = b.app
         /\ Sound(Requeued(b), c, grant, appLive, runnerLive)
<1> DEFINE n == Requeued(b)
<1>1. b \in JobRows
  BY DEF Sound, RowSound
<1>2. /\ n \in JobRows /\ n.state = "queued" /\ n.app = b.app /\ n.grant = b.grant
      /\ n.generation = b.generation /\ n.left = b.left /\ n.attempt = b.attempt /\ n.result = b.result
  BY <1>1 DEF Requeued, JobRows, Unfinished, Granted, Active
<1> HIDE DEF n
<1>3. RowSound(n, c)
  BY <1>2 DEF Sound, RowSound, Unfinished, Granted, Active
<1>4. Bound(n, grant) /\ Live(n, appLive, runnerLive)
  BY <1>2 DEF Sound, Bound, Live, Granted, Active
<1> QED
  BY <1>2, <1>3, <1>4 DEF Sound, n

\* What one sweep may do to a job.
LEMMA SweptSound ==
  ASSUME TaskInv, NEW j \in Jobs
  PROVE  LET n == SweptJobs[j] IN
         /\ n \in JobRows /\ n.app = job[j].app
         /\ Sound(n, claimed[j], grant, appLive, runnerLive)
         /\ n.state \in Active => job[j].state \in Active \/ Approvable(job[j])
         /\ n.state \in {"awaiting-approval", "running", "succeeded", "absent"} => n = job[j]
         /\ job[j].state \notin Unfinished => n = job[j]
         /\ n.state \in {"running", "succeeded"} => ~Lapsed(job[j]) /\ job[j].until # 0
<1> DEFINE b == job[j]
           n == SweptJobs[j]
<1>1. b \in JobRows /\ RowSound(b, claimed[j]) /\ Sound(b, claimed[j], grant, appLive, runnerLive)
  BY DEF TaskInv, Sound
<1>2. n = Swept(b)
  BY DEF SweptJobs
<1>3. CASE b.state \notin Unfinished
  <2>1. n = b
    BY <1>2, <1>3 DEF Swept
  <2> QED
    BY <1>1, <1>3, <2>1 DEF Unfinished, Granted, Active
<1>4. CASE b.state \in Unfinished /\ (Withdrawn(b) \/ Lapsed(b))
  <2>1. PICK s \in {"cancelled", "expired"} : n = Terminated(b, s)
    BY <1>2, <1>4 DEF Swept
  <2>2. s \in Terminal /\ s \notin Active
    BY DEF Terminal, Active
  <2>3. n \in JobRows /\ n.app = b.app /\ n.state = s /\ Sound(n, claimed[j], grant, appLive, runnerLive)
    BY <1>1, <2>1, <2>2, TerminatedSound
  <2> QED
    BY <1>4, <2>2, <2>3
<1>5. CASE b.state \in Unfinished /\ ~Withdrawn(b) /\ ~Lapsed(b)
  <2>1. n = IF Approvable(b) THEN Approved(b, CHOOSE g \in Usable(b.app) : TRUE)
            ELSE IF b.state = "running" /\ b.until = 0 THEN Requeued(b) ELSE b
    BY <1>2, <1>5 DEF Swept
  <2>2. CASE Approvable(b)
    <3> DEFINE g == CHOOSE h \in Usable(b.app) : TRUE
    <3>1. g \in Usable(b.app) /\ b.state = "awaiting-approval" /\ b.app \in appLive
      BY <1>5, <2>2 DEF Approvable, Withdrawn
    <3>2. n = Approved(b, g)
      BY <2>1, <2>2
    <3> HIDE DEF g
    <3>3. n \in JobRows /\ n.state = "queued" /\ n.app = b.app /\ Sound(n, claimed[j], grant, appLive, runnerLive)
      BY <1>1, <3>1, <3>2, ApprovedSound DEF TaskInv
    <3> QED
      BY <1>5, <2>2, <3>3
  <2>3. CASE ~Approvable(b) /\ b.state = "running" /\ b.until = 0
    <3>1. b.attempt < MaxAttempts
      BY <1>1, <1>5, <2>3, TaskAssumption DEF Lapsed, JobRows
    <3>2. n = Requeued(b)
      BY <2>1, <2>3
    <3>3. n \in JobRows /\ n.state = "queued" /\ n.app = b.app /\ Sound(n, claimed[j], grant, appLive, runnerLive)
      BY <1>1, <2>3, <3>1, <3>2, RequeuedSound
    <3> QED
      BY <1>5, <2>3, <3>3 DEF Active
  <2>4. CASE ~Approvable(b) /\ ~(b.state = "running" /\ b.until = 0)
    <3>1. n = b
      BY <2>1, <2>4
    <3> QED
      BY <1>1, <1>5, <2>4, <3>1 DEF Lapsed
  <2> QED
    BY <2>2, <2>3, <2>4
<1> QED
  BY <1>3, <1>4, <1>5

LEMMA SweptUnique ==
  ASSUME TaskInv
  PROVE  Unique(SweptJobs)
<1> SUFFICES ASSUME NEW j \in Jobs, NEW k \in Jobs, j # k, SweptJobs[j].app = SweptJobs[k].app
             PROVE  /\ SweptJobs[j].state \in Active => SweptJobs[k].state \notin Active
                    /\ SweptJobs[j].state = "awaiting-approval" => SweptJobs[k].state # "awaiting-approval"
  BY DEF Unique
<1>1. /\ job[j].app = job[k].app
      /\ SweptJobs[j].state \in Active => job[j].state \in Active \/ Approvable(job[j])
      /\ SweptJobs[k].state \in Active => job[k].state \in Active \/ Approvable(job[k])
      /\ SweptJobs[j].state = "awaiting-approval" => job[j].state = "awaiting-approval"
      /\ SweptJobs[k].state = "awaiting-approval" => job[k].state = "awaiting-approval"
  BY SweptSound
<1>2. /\ job[j].state \in Active => job[k].state \notin Active
      /\ job[j].state = "awaiting-approval" => job[k].state # "awaiting-approval"
  BY <1>1 DEF TaskInv, Unique
<1> QED
  BY <1>1, <1>2 DEF Approvable
-----------------------------------------------------------------------------
(* A request after its sweep: it ends jobs, or writes one row.             *)
LEMMA EndingStep ==
  ASSUME TaskInv, OtherTypes', UNCHANGED claimed, NEW K, NEW s \in Terminal,
         job' = [k \in Jobs |-> IF k \in K THEN Terminated(SweptJobs[k], s) ELSE SweptJobs[k]],
         \A k \in Jobs : k \notin K => Bound(SweptJobs[k], grant') /\ Live(SweptJobs[k], appLive', runnerLive')
  PROVE  TaskInv'
<1>1. ASSUME NEW k \in Jobs
      PROVE  /\ job'[k] \in JobRows /\ job'[k].app = SweptJobs[k].app
             /\ Sound(job'[k], claimed'[k], grant', appLive', runnerLive')
             /\ job'[k] = SweptJobs[k] \/ job'[k].state \in Terminal
  <2>1. SweptJobs[k] \in JobRows /\ RowSound(SweptJobs[k], claimed[k])
    BY SweptSound DEF Sound
  <2>2. CASE k \in K
    BY <2>1, <2>2, TerminatedSound
  <2>3. CASE k \notin K
    BY <2>1, <2>3 DEF Sound
  <2> QED
    BY <2>2, <2>3
<1>2. Unique(job')
  <2>1. \A t \in Terminal : t \notin Active /\ t # "awaiting-approval"
    BY DEF Terminal, Active
  <2> QED
    BY <1>1, <2>1, SweptUnique DEF Unique
<1> QED
  BY <1>1, <1>2 DEF TaskInv

LEMMA OneRowStep ==
  ASSUME TaskInv, OtherTypes', UNCHANGED <<grant, appLive, runnerLive>>, NEW j \in Jobs, NEW b,
         job' = [SweptJobs EXCEPT ![j] = b],
         \A k \in Jobs : k # j => claimed'[k] = claimed[k],
         Sound(b, claimed'[j], grant, appLive, runnerLive),
         \A k \in Jobs : k # j /\ SweptJobs[k].app = b.app =>
           /\ b.state \in Active => SweptJobs[k].state \notin Active
           /\ b.state = "awaiting-approval" => SweptJobs[k].state # "awaiting-approval"
  PROVE  TaskInv'
<1>1. /\ SweptJobs \in [Jobs -> JobRows]
      /\ \A k \in Jobs : Sound(SweptJobs[k], claimed[k], grant, appLive, runnerLive)
  <2>1. \A k \in Jobs : SweptJobs[k] \in JobRows
    BY SweptSound
  <2> QED
    BY <2>1, SweptSound DEF SweptJobs
<1>2. \A k \in Jobs : job'[k] = IF k = j THEN b ELSE SweptJobs[k]
  BY <1>1
<1>3. job' \in [Jobs -> JobRows]
  BY <1>1 DEF Sound, RowSound
<1>4. \A k \in Jobs : Sound(job'[k], claimed'[k], grant', appLive', runnerLive')
  BY <1>1, <1>2
<1>5. Unique(job')
  BY <1>2, SweptUnique DEF Unique
<1> QED
  BY <1>3, <1>4, <1>5 DEF TaskInv

\* Nothing but the swept rows.
LEMMA SweepStep ==
  ASSUME TaskInv, OtherTypes', job' = SweptJobs, UNCHANGED <<claimed, grant, appLive, runnerLive>>
  PROVE  TaskInv'
<1> DEFINE K == {}
<1>1. job' = [k \in Jobs |-> IF k \in K THEN Terminated(SweptJobs[k], "cancelled") ELSE SweptJobs[k]]
  BY DEF SweptJobs
<1>2. "cancelled" \in Terminal
  BY DEF Terminal
<1>3. \A k \in Jobs : k \notin K => Bound(SweptJobs[k], grant') /\ Live(SweptJobs[k], appLive', runnerLive')
  BY SweptSound DEF Sound
<1> HIDE DEF K
<1> QED
  BY <1>1, <1>2, <1>3, EndingStep

\* One job ends.
LEMMA EndedStep ==
  ASSUME TaskInv, OtherTypes', NEW j \in Jobs, NEW s \in Terminal,
         job' = [SweptJobs EXCEPT ![j] = Terminated(@, s)],
         UNCHANGED <<claimed, grant, appLive, runnerLive>>
  PROVE  TaskInv'
<1>1. job' = [k \in Jobs |-> IF k \in {j} THEN Terminated(SweptJobs[k], s) ELSE SweptJobs[k]]
  BY DEF SweptJobs
<1> QED
  BY <1>1, SweptSound, EndingStep DEF Sound

-----------------------------------------------------------------------------
(* The requests of apps.                                                   *)
LEMMA RequestStep ==
  ASSUME TaskInv, NEW j \in Jobs, NEW a \in Apps, Request(j, a)
  PROVE  TaskInv'
<1> DEFINE asked == [Absent EXCEPT !.state = "awaiting-approval", !.app = a, !.left = JobTime]
           g == CHOOSE h \in Usable(a) : TRUE
           b == IF Usable(a) = {} THEN asked ELSE Approved(asked, g)
<1>1. /\ job[j].state = "absent" /\ a \in appLive /\ job' = [SweptJobs EXCEPT ![j] = b]
      /\ requested' = Append(requested, j) /\ pause' = [pause EXCEPT ![a] = RequestPause]
      /\ UNCHANGED <<grant, appLive, runnerLive, claimed, read>>
  BY DEF Request, IsNew
<1>2. OtherTypes'
  BY <1>1, TaskAssumption DEF TaskInv, OtherTypes
<1>3. /\ asked \in JobRows /\ asked.state = "awaiting-approval" /\ asked.app = a /\ asked.attempt = 0
      /\ asked.result = 0
  <2>1. JobTime \in 0..JobTime /\ 0 \in 0..MaxAttempts /\ 0 \in Nat
        /\ "awaiting-approval" \in Unfinished \cup Terminal \cup {"absent"}
    BY TaskAssumption DEF Unfinished
  <2> QED
    BY ONLY <2>1, a \in Apps DEF Absent, JobRows
<1> HIDE DEF asked
<1>4. Sound(asked, claimed[j], grant, appLive, runnerLive)
  <2>1. \A n \in 1..MaxAttempts : claimed[j][n] # None <=> n <= 0
    BY <1>1 DEF TaskInv, Sound, RowSound
  <2>2. RowSound(asked, claimed[j])
    BY <1>3, <2>1, TaskAssumption DEF RowSound
  <2> QED
    BY <1>3, <2>2 DEF Sound, Bound, Live, Granted, Active
<1>5. /\ Sound(b, claimed[j], grant, appLive, runnerLive) /\ b.app = a
      /\ IF Usable(a) = {} THEN b.state = "awaiting-approval" ELSE b.state = "queued"
  <2>1. CASE Usable(a) = {}
    BY <1>3, <1>4, <2>1
  <2>2. CASE Usable(a) # {}
    <3>1. g \in Usable(a) /\ b = Approved(asked, g)
      BY <2>2
    <3> HIDE DEF g, b
    <3>2. OtherTypes /\ RowSound(asked, claimed[j])
      BY <1>4 DEF TaskInv, Sound
    <3> QED
      BY <1>1, <1>3, <2>2, <3>1, <3>2, ApprovedSound
  <2> QED
    BY <2>1, <2>2
<1> HIDE DEF b
<1>6. ASSUME NEW k \in Jobs, k # j, SweptJobs[k].app = b.app
      PROVE  /\ b.state \in Active => SweptJobs[k].state \notin Active
             /\ b.state = "awaiting-approval" => SweptJobs[k].state # "awaiting-approval"
  <2>1. job[k].app = a
    BY <1>5, <1>6, SweptSound
  <2>2. IF Usable(a) # {} THEN SweptJobs[k].state \notin Active
        ELSE SweptJobs[k].state # "awaiting-approval"
    BY <2>1 DEF Request
  <2> QED
    BY <1>5, <2>2 DEF Active
<1> QED
  BY <1>1, <1>2, <1>5, <1>6, OneRowStep

LEMMA AppSteps ==
  ASSUME TaskInv, NEW j \in Jobs, ReadResult(j) \/ Settle(j) \/ Deny(j)
  PROVE  TaskInv'
<1>1. OtherTypes' /\ UNCHANGED <<claimed, grant, appLive, runnerLive>>
  BY DEF ReadResult, Settle, Deny, TaskInv, OtherTypes
<1>2. CASE ReadResult(j)
  BY <1>1, <1>2, SweepStep DEF ReadResult
<1>3. CASE Settle(j) \/ Deny(j)
  <2>1. \E s \in Terminal : job' = [SweptJobs EXCEPT ![j] = Terminated(@, s)]
    BY <1>3 DEF Settle, Deny, Terminal
  <2> QED
    BY <1>1, <2>1, EndedStep
<1> QED
  BY <1>2, <1>3
-----------------------------------------------------------------------------
(* The requests of runners.                                                *)
LEMMA ClaimedJob ==
  ASSUME TaskInv, NEW r \in Runners, Claimable(r) # {}
  PROVE  LET j == requested[Least(Claimable(r))] IN
         j \in Jobs /\ SweptJobs[j].state = "queued" /\ Matches(r, SweptJobs[j].grant)
<1>1. requested \in Seq(Jobs) /\ Claimable(r) \subseteq 1..Len(requested)
  BY DEF TaskInv, OtherTypes, Claimable
<1>2. Claimable(r) \subseteq Nat
  BY <1>1
<1>3. Least(Claimable(r)) \in Claimable(r)
  BY <1>2, LeastIs
<1>4. ASSUME NEW i \in Claimable(r)
      PROVE  requested[i] \in Jobs /\ SweptJobs[requested[i]].state = "queued"
             /\ Matches(r, SweptJobs[requested[i]].grant)
  <2>1. i \in 1..Len(requested)
    BY <1>1
  <2>2. requested[i] \in Jobs
    BY <1>1, <2>1
  <2> QED
    BY <2>2 DEF Claimable
<1> QED
  BY <1>3, <1>4

LEMMA ClaimStep ==
  ASSUME TaskInv, NEW r \in Runners, Claim(r)
  PROVE  TaskInv'
<1>0. PICK j \in Jobs : /\ j = requested[Least(Claimable(r))]
                        /\ SweptJobs[j].state = "queued" /\ Matches(r, SweptJobs[j].grant)
  BY ClaimedJob DEF Claim
<1> DEFINE b == SweptJobs[j]
           n == [b EXCEPT !.state = "running", !.attempt = @ + 1, !.runner = r, !.until = Lease(b)]
<1>1. j \in Jobs /\ b.state = "queued" /\ Matches(r, b.grant)
  BY <1>0
<1>2. /\ r \in runnerLive /\ job' = [SweptJobs EXCEPT ![j] = n]
      /\ claimed' = [claimed EXCEPT ![j] = [m \in DOMAIN @ |-> IF m = b.attempt + 1 THEN r ELSE @[m]]]
      /\ UNCHANGED <<requested, grant, appLive, runnerLive, pause, read>>
  BY <1>0 DEF Claim
<1>3. b \in JobRows /\ Sound(b, claimed[j], grant, appLive, runnerLive) /\ OtherTypes
  BY <1>1, SweptSound DEF TaskInv
<1>4. /\ b.attempt \in 0..MaxAttempts /\ b.attempt < MaxAttempts /\ b.attempt + 1 \in 1..MaxAttempts
      /\ b.grant \in Grants /\ grant[b.grant] \in GrantRows /\ grant[b.grant].identity = IdentityOf[r]
      /\ b.left \in 0..JobTime /\ b.app \in appLive
  BY <1>1, <1>3, TaskAssumption
     DEF Sound, RowSound, Bound, Live, Granted, Active, JobRows, OtherTypes, Matches
<1>5. /\ claimed[j] \in [1..MaxAttempts -> Runners \cup {None}]
      /\ claimed'[j] = [m \in 1..MaxAttempts |-> IF m = b.attempt + 1 THEN r ELSE claimed[j][m]]
      /\ \A k \in Jobs : k # j => claimed'[k] = claimed[k]
      /\ claimed' \in [Jobs -> [1..MaxAttempts -> Runners \cup {None}]]
  BY <1>1, <1>2, <1>3 DEF OtherTypes
<1>6. OtherTypes'
  BY <1>2, <1>3, <1>5 DEF OtherTypes
<1>7. Lease(b) \in Nat /\ Lease(b) <= LeaseTime /\ Lease(b) <= b.left
  <2>1. {LeaseTime, b.left, grant[b.grant].left} \subseteq Nat
    BY <1>4, TaskAssumption DEF GrantRows
  <2> QED
    BY <2>1, LeastIs DEF Lease
<1>8. /\ n \in JobRows /\ n.state = "running" /\ n.app = b.app /\ n.grant = b.grant
      /\ n.generation = b.generation /\ n.left = b.left /\ n.attempt = b.attempt + 1 /\ n.runner = r
      /\ n.until = Lease(b) /\ n.result = b.result
  <2>1. b.attempt + 1 \in 0..MaxAttempts /\ "running" \in Unfinished
    BY <1>4 DEF Unfinished, Granted, Active
  <2> QED
    BY <1>3, <1>7, <2>1 DEF JobRows
<1>9. RowSound(n, claimed'[j])
  <2>1. None \notin Runners
    BY TaskAssumption
  <2>2. \A m \in 1..MaxAttempts : claimed'[j][m] # None <=> m <= n.attempt
    BY <1>3, <1>4, <1>5, <1>8, <2>1 DEF Sound, RowSound
  <2>3. n.attempt > 0 /\ claimed'[j][n.attempt] = n.runner
    BY <1>4, <1>5, <1>8
  <2> QED
    BY <1>1, <1>3, <1>8, <2>2, <2>3 DEF Sound, RowSound, Unfinished, Granted, Active
<1>10. Bound(n, grant) /\ Live(n, appLive, runnerLive)
  BY <1>1, <1>2, <1>3, <1>4, <1>7, <1>8 DEF Sound, Bound, Live, Granted, Active
<1>11. ASSUME NEW k \in Jobs, k # j, SweptJobs[k].app = n.app
       PROVE  /\ n.state \in Active => SweptJobs[k].state \notin Active
              /\ n.state = "awaiting-approval" => SweptJobs[k].state # "awaiting-approval"
  BY <1>1, <1>8, <1>11, SweptUnique DEF Unique, Active
<1>12. Sound(n, claimed'[j], grant, appLive, runnerLive)
  BY <1>9, <1>10 DEF Sound
<1>13. /\ j \in Jobs /\ job' = [SweptJobs EXCEPT ![j] = n] /\ UNCHANGED <<grant, appLive, runnerLive>>
       /\ \A k \in Jobs : k # j => claimed'[k] = claimed[k]
  BY <1>1, <1>2, <1>5
<1> HIDE DEF n
<1>14. \A k \in Jobs : k # j /\ SweptJobs[k].app = n.app =>
         /\ n.state \in Active => SweptJobs[k].state \notin Active
         /\ n.state = "awaiting-approval" => SweptJobs[k].state # "awaiting-approval"
  BY <1>11
<1> QED
  BY <1>6, <1>12, <1>13, <1>14, OneRowStep

LEMMA ResultStep ==
  ASSUME TaskInv, NEW r \in Runners, NEW j \in Jobs, NEW m \in 1..MaxAttempts, Result(r, j, m)
  PROVE  TaskInv'
<1> DEFINE b == SweptJobs[j]
           n == [b EXCEPT !.state = "succeeded", !.result = m, !.until = ResultTime, !.left = 0]
<1>1. /\ b = job[j] /\ b.state = "running" /\ b.attempt = m
      /\ b \in JobRows /\ Sound(b, claimed[j], grant, appLive, runnerLive)
  BY SweptSound DEF Result, Answers, HoldsLease
<1>2. UNCHANGED <<requested, grant, appLive, runnerLive, pause, claimed, read>>
  BY DEF Result, Answers
<1>3. OtherTypes'
  BY <1>2 DEF TaskInv, OtherTypes
<1>4. job' = [SweptJobs EXCEPT ![j] = n]
  BY DEF Result, SweptJobs
<1>5. /\ n \in JobRows /\ n.state = "succeeded" /\ n.app = b.app /\ n.grant = b.grant
      /\ n.generation = b.generation /\ n.attempt = b.attempt /\ n.runner = b.runner /\ n.result = m
  <2>1. m \in 0..MaxAttempts /\ ResultTime \in Nat /\ 0 \in 0..JobTime /\ "succeeded" \in Unfinished
    BY TaskAssumption DEF Unfinished, Granted
  <2> QED
    BY <1>1, <2>1 DEF JobRows
<1>6. RowSound(n, claimed'[j])
  BY <1>1, <1>2, <1>5 DEF Sound, RowSound, Unfinished, Granted, Active
<1>7. Bound(n, grant) /\ Live(n, appLive, runnerLive)
  BY <1>1, <1>5 DEF Sound, Bound, Live, Granted, Active
<1>8. n.state \notin Active /\ n.state # "awaiting-approval"
  BY <1>5 DEF Active
<1> HIDE DEF n
<1> QED
  BY <1>2, <1>3, <1>4, <1>6, <1>7, <1>8, OneRowStep DEF Sound

LEMMA FailureStep ==
  ASSUME TaskInv, NEW r \in Runners, NEW j \in Jobs, NEW m \in 1..MaxAttempts, Failure(r, j, m)
  PROVE  TaskInv'
<1>1. OtherTypes' /\ UNCHANGED <<claimed, grant, appLive, runnerLive>>
  BY DEF Failure, Answers, TaskInv, OtherTypes
<1>2. job' = [SweptJobs EXCEPT ![j] = Terminated(@, "failed")] /\ "failed" \in Terminal
  BY DEF Failure, Terminal
<1> QED
  BY <1>1, <1>2, EndedStep
-----------------------------------------------------------------------------
(* The requests of the owner.                                              *)
LEMMA RevokedGrantRows ==
  ASSUME grant \in [Grants -> GrantRows], NEW G
  PROVE  /\ RevokedGrants(G) \in [Grants -> GrantRows]
         /\ \A g \in Grants : g \notin G => RevokedGrants(G)[g] = grant[g]
         /\ \A g \in Grants : RevokedGrants(G)[g].app = grant[g].app
<1>1. \A g \in Grants :
        LET n == [grant[g] EXCEPT !.revoked = TRUE, !.generation = @ + 1] IN
        n \in GrantRows /\ n.app = grant[g].app
  <2> SUFFICES ASSUME NEW g \in Grants
               PROVE  LET n == [grant[g] EXCEPT !.revoked = TRUE, !.generation = @ + 1] IN
                      n \in GrantRows /\ n.app = grant[g].app
    OBVIOUS
  <2>1. grant[g] \in GrantRows /\ grant[g].generation + 1 \in Nat
    BY DEF GrantRows
  <2> QED
    BY <2>1 DEF GrantRows
<1> QED
  BY <1>1 DEF RevokedGrants

\* Revoking ends what the sweep leaves of the work that depends on it.
LEMMA OwnerStep ==
  ASSUME TaskInv, OtherTypes', UNCHANGED claimed, NEW K, job' = Cancelled(K),
         \A k \in Jobs : k \notin K => /\ Bound(SweptJobs[k], grant')
                                     /\ Live(SweptJobs[k], appLive', runnerLive')
  PROVE  TaskInv'
<1>1. "cancelled" \in Terminal
  BY DEF Terminal
<1> QED
  BY <1>1, EndingStep DEF Cancelled

LEMMA GrantStep ==
  ASSUME TaskInv, NEW g \in Grants, NEW a \in Apps, NEW i \in Identities, NEW t \in GrantTimes,
         Grant(g, a, i, t)
  PROVE  TaskInv'
<1> DEFINE old == {h \in Grants : grant[h].app = a /\ ~grant[h].revoked}
           new == [app |-> a, identity |-> i, left |-> t, generation |-> 1, revoked |-> FALSE]
<1>1. /\ grant[g] = NoGrant /\ grant' = [RevokedGrants(old) EXCEPT ![g] = new]
      /\ job' = Cancelled(JobsOfGrants(old))
      /\ UNCHANGED <<requested, appLive, runnerLive, pause, claimed, read>>
  BY DEF Grant
<1>2. grant \in [Grants -> GrantRows]
  BY DEF TaskInv, OtherTypes
<1>3. new \in GrantRows
  BY TaskAssumption DEF GrantRows
<1>4. /\ grant' \in [Grants -> GrantRows]
      /\ \A h \in Grants : h \notin old /\ h # g => grant'[h] = grant[h]
  <2> HIDE DEF old, new
  <2> QED
    BY <1>1, <1>2, <1>3, RevokedGrantRows
<1>5. OtherTypes'
  BY <1>1, <1>4 DEF TaskInv, OtherTypes
<1>6. ASSUME NEW k \in Jobs, k \notin JobsOfGrants(old)
      PROVE  Bound(SweptJobs[k], grant') /\ Live(SweptJobs[k], appLive', runnerLive')
  <2>1. Sound(SweptJobs[k], claimed[k], grant, appLive, runnerLive)
    BY SweptSound
  <2>2. CASE SweptJobs[k].state \in Granted
    <3>1. /\ SweptJobs[k].grant \in Grants /\ SweptJobs[k].grant \notin old
          /\ grant[SweptJobs[k].grant].app = SweptJobs[k].app /\ SweptJobs[k].app \in Apps
      BY <1>6, <2>1, <2>2 DEF JobsOfGrants, Sound, Bound, RowSound, Unfinished
    <3>2. SweptJobs[k].grant # g
      BY <1>1, <3>1, TaskAssumption DEF NoGrant
    <3> QED
      BY <1>1, <1>4, <2>1, <3>1, <3>2 DEF Sound, Bound, Live
  <2>3. CASE SweptJobs[k].state \notin Granted
    BY <2>3 DEF Bound, Live, Granted, Active
  <2> QED
    BY <2>2, <2>3
<1> QED
  BY <1>1, <1>5, <1>6, OwnerStep

LEMMA RevokeGrantStep ==
  ASSUME TaskInv, NEW g \in Grants, RevokeGrant(g)
  PROVE  TaskInv'
<1>1. /\ grant' = RevokedGrants({g}) /\ job' = Cancelled(JobsOfGrants({g}))
      /\ UNCHANGED <<requested, appLive, runnerLive, pause, claimed, read>>
  BY DEF RevokeGrant
<1>2. grant' \in [Grants -> GrantRows] /\ \A h \in Grants : h # g => grant'[h] = grant[h]
  BY <1>1, RevokedGrantRows DEF TaskInv, OtherTypes
<1>3. OtherTypes'
  BY <1>1, <1>2 DEF TaskInv, OtherTypes
<1>4. ASSUME NEW k \in Jobs, k \notin JobsOfGrants({g})
      PROVE  Bound(SweptJobs[k], grant') /\ Live(SweptJobs[k], appLive', runnerLive')
  <2>1. Bound(SweptJobs[k], grant) /\ Live(SweptJobs[k], appLive, runnerLive)
    BY SweptSound DEF Sound
  <2>2. SweptJobs[k].state \in Granted => SweptJobs[k].grant \in Grants /\ SweptJobs[k].grant # g
    BY <1>4, <2>1 DEF JobsOfGrants, Bound
  <2> QED
    BY <1>1, <1>2, <2>1, <2>2 DEF Bound, Live, Granted, Active
<1> QED
  BY <1>1, <1>3, <1>4, OwnerStep

LEMMA RevokeAppStep ==
  ASSUME TaskInv, NEW a \in Apps, RevokeApp(a)
  PROVE  TaskInv'
<1> DEFINE G == {g \in Grants : grant[g].app = a}
           K == {j \in Jobs : SweptJobs[j].app = a /\ SweptJobs[j].state \in Unfinished}
<1>1. /\ grant' = RevokedGrants(G) /\ job' = Cancelled(K) /\ appLive' = appLive \ {a}
      /\ UNCHANGED <<requested, runnerLive, pause, claimed, read>>
  BY DEF RevokeApp
<1>2. grant' \in [Grants -> GrantRows] /\ \A h \in Grants : grant[h].app # a => grant'[h] = grant[h]
  <2>1. \A h \in Grants : h \in G <=> grant[h].app = a
    OBVIOUS
  <2> HIDE DEF G
  <2> QED
    BY <1>1, <2>1, RevokedGrantRows DEF TaskInv, OtherTypes
<1>3. OtherTypes'
  BY <1>1, <1>2 DEF TaskInv, OtherTypes
<1>4. ASSUME NEW k \in Jobs, k \notin K
      PROVE  Bound(SweptJobs[k], grant') /\ Live(SweptJobs[k], appLive', runnerLive')
  <2>1. Bound(SweptJobs[k], grant) /\ Live(SweptJobs[k], appLive, runnerLive)
    BY SweptSound DEF Sound
  <2>2. SweptJobs[k].state \in Granted =>
          /\ SweptJobs[k].grant \in Grants /\ grant[SweptJobs[k].grant].app # a /\ SweptJobs[k].app # a
    BY <1>4, <2>1 DEF Bound, Unfinished
  <2> QED
    BY <1>1, <1>2, <2>1, <2>2 DEF Bound, Live, Granted, Active
<1> HIDE DEF K
<1> QED
  BY <1>1, <1>3, <1>4, OwnerStep

LEMMA RevokeRunnerStep ==
  ASSUME TaskInv, NEW r \in Runners, RevokeRunner(r)
  PROVE  TaskInv'
<1> DEFINE K == {j \in Jobs : SweptJobs[j].runner = r /\ SweptJobs[j].state \in {"running", "succeeded"}}
<1>1. /\ job' = Cancelled(K) /\ runnerLive' = runnerLive \ {r}
      /\ UNCHANGED <<requested, grant, appLive, pause, claimed, read>>
  BY DEF RevokeRunner
<1>2. OtherTypes'
  BY <1>1 DEF TaskInv, OtherTypes
<1>3. ASSUME NEW k \in Jobs, k \notin K
      PROVE  Bound(SweptJobs[k], grant') /\ Live(SweptJobs[k], appLive', runnerLive')
  <2>1. Bound(SweptJobs[k], grant) /\ Live(SweptJobs[k], appLive, runnerLive)
    BY SweptSound DEF Sound
  <2> QED
    BY <1>1, <1>3, <2>1 DEF Bound, Live
<1> HIDE DEF K
<1> QED
  BY <1>1, <1>2, <1>3, OwnerStep
-----------------------------------------------------------------------------
(* Time passes for all deadlines alike, so they stay nested.               *)
LEMMA LessIs ==
  /\ \A n \in Nat : Less(n) \in Nat /\ Less(n) <= n
  /\ \A m, n \in Nat : m <= n => Less(m) <= Less(n)
BY DEF Less

LEMMA TickStep ==
  ASSUME TaskInv, Tick
  PROVE  TaskInv'
<1>1. /\ job' = [j \in Jobs |-> [job[j] EXCEPT !.left = Less(@), !.until = Less(@)]]
      /\ grant' = [g \in Grants |-> IF grant[g].revoked THEN grant[g]
                                    ELSE [grant[g] EXCEPT !.left = Less(@)]]
      /\ pause' = [a \in Apps |-> Less(pause[a])]
      /\ UNCHANGED <<requested, appLive, runnerLive, claimed, read>>
  BY DEF Tick
<1>2. ASSUME NEW g \in Grants
      PROVE  /\ grant[g] \in GrantRows /\ grant'[g] \in GrantRows
             /\ grant'[g].app = grant[g].app /\ grant'[g].identity = grant[g].identity
             /\ grant'[g].generation = grant[g].generation /\ grant'[g].revoked = grant[g].revoked
             /\ ~grant[g].revoked => grant'[g].left = Less(grant[g].left)
  <2>1. grant[g] \in GrantRows /\ Less(grant[g].left) \in Nat
    BY LessIs DEF TaskInv, OtherTypes, GrantRows
  <2> QED
    BY <1>1, <2>1 DEF GrantRows
<1>3. ASSUME NEW j \in Jobs
      PROVE  /\ job'[j] \in JobRows /\ job'[j].state = job[j].state /\ job'[j].app = job[j].app
             /\ Sound(job'[j], claimed'[j], grant', appLive', runnerLive')
  <2> DEFINE b == job[j]
             n == [b EXCEPT !.left = Less(@), !.until = Less(@)]
  <2>1. b \in JobRows /\ Sound(b, claimed[j], grant, appLive, runnerLive)
    BY DEF TaskInv
  <2>2. b.left \in Nat /\ b.until \in Nat /\ Less(b.left) \in 0..JobTime /\ Less(b.until) \in Nat
    BY <2>1, LessIs, TaskAssumption DEF JobRows
  <2>3. /\ n \in JobRows /\ n.state = b.state /\ n.app = b.app /\ n.grant = b.grant
        /\ n.generation = b.generation /\ n.left = Less(b.left) /\ n.attempt = b.attempt
        /\ n.runner = b.runner /\ n.until = Less(b.until) /\ n.result = b.result
    BY <2>1, <2>2 DEF JobRows
  <2>4. job'[j] = n
    BY <1>1
  <2> HIDE DEF n
  <2>5. RowSound(n, claimed'[j])
    BY <1>1, <2>1, <2>3 DEF Sound, RowSound
  <2>6. b.state \in Granted => b.grant \in Grants /\ ~grant[b.grant].revoked
    BY <2>1 DEF Sound, Bound
  <2>7. b.state \in Active => n.left <= grant'[n.grant].left
    <3>1. SUFFICES ASSUME b.state \in Active PROVE n.left <= grant'[n.grant].left
      OBVIOUS
    <3>2. b.grant \in Grants /\ ~grant[b.grant].revoked /\ b.left <= grant[b.grant].left
      BY <2>1, <2>6, <3>1 DEF Sound, Bound, Granted
    <3>3. grant[b.grant].left \in Nat /\ grant'[b.grant].left = Less(grant[b.grant].left)
      BY <1>2, <3>2 DEF GrantRows
    <3> QED
      BY <2>2, <2>3, <3>2, <3>3, LessIs
  <2>8. b.state = "running" => n.until <= LeaseTime /\ n.until <= n.left
    <3>1. SUFFICES ASSUME b.state = "running" PROVE n.until <= LeaseTime /\ n.until <= n.left
      OBVIOUS
    <3>2. b.until <= LeaseTime /\ b.until <= b.left /\ LeaseTime \in Nat
      BY <2>1, <3>1, TaskAssumption DEF Sound, Bound
    <3>3. Less(b.until) <= b.until /\ Less(b.until) <= Less(b.left)
      BY <2>2, <3>2, LessIs
    <3> QED
      BY <2>2, <2>3, <3>2, <3>3
  <2>9. Bound(n, grant') /\ Live(n, appLive', runnerLive')
    BY <1>1, <1>2, <2>1, <2>3, <2>6, <2>7, <2>8 DEF Sound, Bound, Live, Granted, Active
  <2> QED
    BY <2>3, <2>4, <2>5, <2>9 DEF Sound
<1>4. Unique(job')
  BY <1>3 DEF TaskInv, Unique
<1>5. pause' \in [Apps -> 0..RequestPause]
  <2>1. \A a \in Apps : Less(pause[a]) \in 0..RequestPause
    BY LessIs, TaskAssumption DEF TaskInv, OtherTypes
  <2> QED
    BY <1>1, <2>1
<1>6. job' \in [Jobs -> JobRows] /\ grant' \in [Grants -> GrantRows]
  BY <1>1, <1>2, <1>3
<1>7. OtherTypes'
  BY <1>1, <1>5, <1>6 DEF TaskInv, OtherTypes
<1> QED
  BY <1>3, <1>4, <1>6, <1>7 DEF TaskInv

-----------------------------------------------------------------------------
LEMMA TaskInit ==
  Init => TaskInv
<1> SUFFICES ASSUME Init PROVE TaskInv
  OBVIOUS
<1>1. Absent \in JobRows /\ NoGrant \in GrantRows
  <2>1. 0 \in 0..JobTime /\ 0 \in 0..MaxAttempts
    BY TaskAssumption
  <2> QED
    BY <2>1 DEF Absent, NoGrant, JobRows, GrantRows
<1>2. OtherTypes
  BY <1>1, TaskAssumption DEF Init, OtherTypes
<1>3. \A j \in Jobs : job[j] = Absent
  BY DEF Init
<1>4. /\ Absent.state = "absent" /\ Absent.attempt = 0 /\ Absent.result = 0
      /\ "absent" \notin Unfinished
  BY DEF Absent, Unfinished, Granted, Active
<1>5. ASSUME NEW j \in Jobs PROVE Sound(job[j], claimed[j], grant, appLive, runnerLive)
  <2>1. \A n \in 1..MaxAttempts : claimed[j][n] = None
    BY DEF Init
  <2>2. RowSound(Absent, claimed[j])
    BY <1>1, <1>4, <2>1, TaskAssumption DEF RowSound
  <2> QED
    BY <1>3, <1>4, <2>2 DEF Sound, Bound, Live, Unfinished, Granted
<1>6. Unique(job)
  BY <1>3, <1>4 DEF Unique, Active
<1> QED
  BY <1>1, <1>2, <1>5, <1>6 DEF TaskInv, Init

LEMMA TaskStep ==
  TaskInv /\ [Next]_vars => TaskInv'
<1> SUFFICES ASSUME TaskInv, [Next]_vars PROVE TaskInv'
  OBVIOUS
<1>1. CASE Cleanup
  BY <1>1, SweepStep DEF Cleanup, TaskInv, OtherTypes
<1>2. CASE UNCHANGED vars
  BY <1>2 DEF vars, TaskInv, OtherTypes
<1> QED
  BY <1>1, <1>2, TickStep, RequestStep, AppSteps, ResultStep, FailureStep, ClaimStep, RevokeRunnerStep,
     RevokeAppStep, RevokeGrantStep, GrantStep DEF Next

-----------------------------------------------------------------------------
(* The inductive invariant of the broker.                                  *)
THEOREM TaskInvariant == Spec => []TaskInv
BY TaskInit, TaskStep, PTL DEF Spec

(* Types hold, and so do the unique indexes of host_task_jobs: one active  *)
(* and one waiting job of an app, also after a sweep that approves.        *)
THEOREM TaskTypeCorrect == Spec => []TaskTypeOK
<1>1. TaskInv => TaskTypeOK
  BY DEF TaskInv, OtherTypes, Unique, Sound, RowSound, TaskTypeOK
<1> QED
  BY <1>1, TaskInvariant, PTL

(* Nothing that is granted outlives its app, its grant or its runner.      *)
THEOREM RevocationsHold == Spec => []RevocationHolds
<1>1. TaskInv => RevocationHolds
  BY DEF TaskInv, Sound, Bound, Live, RevocationHolds
<1> QED
  BY <1>1, TaskInvariant, PTL

(* A lease ends with its job and a job with its grant, however time passes *)
(* between grants, approvals and claims.                                   *)
THEOREM DeadlinesAreNested == Spec => []DeadlinesNest
<1>1. TaskInv => DeadlinesNest
  BY DEF TaskInv, Sound, Bound, DeadlinesNest
<1> QED
  BY <1>1, TaskInvariant, PTL

(* The stored result is of the newest attempt and of the runner that was   *)
(* given it, and no job has more than MaxAttempts.                         *)
THEOREM LeasesFence == Spec => []Fenced
<1>1. TaskInv => Fenced
  BY DEF TaskInv, Sound, RowSound, Fenced
<1> QED
  BY <1>1, TaskInvariant, PTL

(* An app reads a result only while its access, its grant, the runner and  *)
(* the retention time all stand: what the sweep of the request left.       *)
THEOREM ReleasesAreGranted == Spec => ReleasedOnlyWhileGranted
<1> DEFINE Released ==
      \A j \in read' \ read :
        /\ job[j].app \in appLive /\ job[j].until > 0 /\ job[j].runner \in runnerLive
        /\ job[j].grant \in Usable(job[j].app)
<1>1. TaskInv /\ [Next]_vars => [Released]_vars
  <2> SUFFICES ASSUME TaskInv, Next, NEW j \in read' \ read
               PROVE  /\ job[j].app \in appLive /\ job[j].until > 0 /\ job[j].runner \in runnerLive
                      /\ job[j].grant \in Usable(job[j].app)
    OBVIOUS
  <2>1. j \in Jobs /\ ReadResult(j)
    BY DEF Next, Cleanup, Tick, Request, ReadResult, Settle, Deny, Result, Failure, Answers, Claim,
           RevokeRunner, RevokeApp, RevokeGrant, Grant
  <2>2. SweptJobs[j].state = "succeeded" /\ job[j].app \in appLive
    BY <2>1 DEF ReadResult
  <2>3. SweptJobs[j] = job[j] /\ ~Lapsed(job[j]) /\ job[j].until # 0
    BY <2>1, <2>2, SweptSound
  <2>4. job[j].runner \in runnerLive /\ job[j].until \in Nat
    BY <2>1, <2>2, <2>3 DEF TaskInv, Sound, Live, JobRows
  <2>5. job[j].grant \in Usable(job[j].app)
    BY <2>2, <2>3 DEF Lapsed, GrantHolds, Granted
  <2> QED
    BY <2>2, <2>3, <2>4, <2>5
<1> QED
  BY <1>1, TaskInvariant, PTL DEF Spec, ReleasedOnlyWhileGranted
=============================================================================
