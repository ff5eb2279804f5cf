------------------------ MODULE InstanceAccessProofs ------------------------
(***************************************************************************)
(* What is proved about host scripts and the clients that may run them,    *)
(* for any callers, versions, grants, jobs and requests: only what is      *)
(* published and approved is kept, handed out and run, each run once;      *)
(* renewals restore nothing; and who was revoked or may only read stays    *)
(* so.                                                                     *)
(***************************************************************************)
EXTENDS InstanceAccess, TLAPS

JobRows == [app : Callers \cup {Owner, None}, grant : 0..MaxGrants, version : 0..MaxVersions,
            state : Open \cup Ended \cup {"absent"}, late : BOOLEAN]
GrantRows == [app : Callers \cup {None}, hash : {HashOf[v] : v \in Versions} \cup {None},
              revoked : BOOLEAN, late : BOOLEAN]
Phases == {"idle", "answered", "running", "ended", "checked"}
RequestRows ==
  [state : {"absent", "denied", "consumed"} \cup Outstanding, purpose : {"access", "permissions"},
   client : Callers \cup {None}, access : {"read", "write"}, permissions : SUBSET Permissions,
   flow : {None, "open", "coded", "lapsed"}, basis : SUBSET Permissions]

\* OnlyPublishedRuns, one job and one grant at a time: an open job has a caller, or the owner.
JobHolds(b, t, grants) ==
  b.state \in Open =>
    /\ b.app \in Callers \cup {Owner}
    /\ b.app # Owner =>
         /\ t.live /\ HashOf[b.version] = HashOf[t.published]
         /\ b.grant \in Grants /\ grants[b.grant].app = b.app /\ ~grants[b.grant].revoked
JobsHold == \A j \in Jobs : JobHolds(job[j], task, grant)
GrantsArePublished ==
  \A g \in Grants : grant[g] # NoGrant /\ ~grant[g].revoked => grant[g].hash = HashOf[task.published]

\* What the desktop has in hand was claimed, and is started once.
RunnerSound ==
  runner.phase # "idle" =>
    /\ runner.job \in Jobs /\ job[runner.job].state \notin {"absent", "queued"}
    /\ runner.phase = "answered" => ran[runner.job] = 0

\* Only clients that were admitted have a row among the callers.
CallersStand == \A c \in Callers : caller[c] # "absent" => standing[c] # "absent"

ScriptInv ==
  ScriptTypeOK /\ JobsHold /\ GrantsArePublished /\ RunnerSound /\ RunsOnce /\ CallersStand

ClientTypes ==
  /\ request \in [Requests -> RequestRows]
  /\ access \in [Callers -> {"read", "write"}] /\ permitted \in [Callers -> SUBSET Permissions]
  /\ oauth \subseteq {c \in Callers : standing[c] # "absent"}

\* An outstanding request of a client has the client's level, and no OAuth request to read asks for more.
RequestsSound ==
  \A r \in Requests : request[r].state \in Outstanding =>
    /\ request[r].client # None => request[r].flow = None /\ standing[request[r].client] # "absent"
    /\ request[r].purpose = "permissions" => request[r].client # None
    /\ request[r].purpose = "access" =>
         /\ request[r].client # None => request[r].access = access[request[r].client]
         /\ request[r].access = "read" /\ (request[r].flow # None \/ request[r].client \in oauth)
              => request[r].permissions = {}

ClientInv == ClientTypes /\ RenewalsAreCurrent /\ ReadOnlyStaysReadOnly /\ RequestsSound
AccessInv == ScriptInv /\ ClientInv

-----------------------------------------------------------------------------
(* The rows the operations write.                                          *)
LEMMA ScriptTypes ==
  ScriptTypeOK <=>
    /\ standing \in [Callers -> {"absent", "valid", "expired", "revoked"}]
    /\ caller \in [Callers -> {"absent", "live", "revoked"}]
    /\ task \in [live : BOOLEAN, published : Versions, latest : Versions]
    /\ task.published <= task.latest
    /\ grant \in [Grants -> GrantRows]
    /\ job \in [Jobs -> JobRows]
    /\ runner \in [phase : Phases, job : 0..MaxJobs, aborted : BOOLEAN]
    /\ (runner.phase = "idle") = (runner.job = 0)
    /\ ran \in [Jobs -> Nat]
BY DEF ScriptTypeOK, GrantRows, JobRows, Phases

LEMMA RowFacts ==
  /\ NoGrant \in GrantRows /\ NoGrant.app = None /\ ~NoGrant.revoked
  /\ NoJob \in JobRows /\ NoJob.state = "absent"
  /\ None \notin Callers /\ Owner \notin Callers
  /\ \A s \in Ended : Terminated(s) \in JobRows /\ Terminated(s).state = s
<1>1. NoGrant \in GrantRows /\ NoGrant.app = None /\ ~NoGrant.revoked
  BY DEF NoGrant, GrantRows, None
<1>2. NoJob \in JobRows /\ NoJob.state = "absent"
  BY ScriptAssumption DEF NoJob, JobRows
<1>3. None \notin Callers /\ Owner \notin Callers
  BY ScriptAssumption DEF None, Owner
<1>4. \A s \in Ended : Terminated(s) \in JobRows /\ Terminated(s).state = s
  BY <1>2 DEF Terminated, JobRows
<1> QED
  BY <1>1, <1>2, <1>3, <1>4

(* cleanup leaves a row as it is or ends it, and ends whatever is          *)
(* withdrawn or late.                                                      *)
LEMMA CleanedRows ==
  ASSUME job \in [Jobs -> JobRows], NEW t, NEW callers, NEW grants
  PROVE  /\ Cleaned(t, callers, grants) \in [Jobs -> JobRows]
         /\ \A j \in Jobs : LET n == Cleaned(t, callers, grants)[j] IN
              /\ n = job[j] \/ (job[j].state \in Open /\ n.state \in Ended)
              /\ n.state \in Open => n = job[j] /\ ~job[j].late /\ ~Withdrawn(job[j], t, callers, grants)
<1>1. /\ Terminated("cancelled") \in JobRows /\ Terminated("expired") \in JobRows
      /\ Terminated("cancelled").state \in Ended /\ Terminated("expired").state \in Ended
  BY RowFacts DEF Ended
<1>2. Open \cap Ended = {}
  BY DEF Open, Ended, Active
<1>3. ASSUME NEW j \in Jobs
      PROVE  LET n == Cleaned(t, callers, grants)[j] IN
             /\ n \in JobRows
             /\ n = job[j] \/ (job[j].state \in Open /\ n.state \in Ended)
             /\ n.state \in Open => n = job[j] /\ ~job[j].late /\ ~Withdrawn(job[j], t, callers, grants)
  <2> DEFINE n == Cleaned(t, callers, grants)[j]
             w == Withdrawn(job[j], t, callers, grants)
  <2>1. n = IF job[j].state \in Open /\ w THEN Terminated("cancelled")
            ELSE IF job[j].state \in Open /\ job[j].late THEN Terminated("expired") ELSE job[j]
    BY DEF Cleaned
  <2> HIDE DEF n, w
  <2>2. n \in JobRows /\ (n = job[j] \/ (job[j].state \in Open /\ n.state \in Ended))
    BY <1>1, <2>1
  <2>3. n.state \in Open => n = job[j] /\ ~job[j].late /\ ~w
    BY <1>1, <1>2, <2>1
  <2> QED
    BY <2>2, <2>3 DEF n, w
<1> QED
  BY <1>3 DEF Cleaned

LEMMA RevokedRows ==
  ASSUME grant \in [Grants -> GrantRows], NEW G
  PROVE  /\ Revoked(G) \in [Grants -> GrantRows]
         /\ \A g \in Grants : /\ Revoked(G)[g].app = grant[g].app
                              /\ g \in G => Revoked(G)[g].revoked
                              /\ g \notin G => Revoked(G)[g] = grant[g]
<1>1. ASSUME NEW g \in Grants
      PROVE  LET n == [NoGrant EXCEPT !.app = grant[g].app, !.revoked = TRUE]
             IN  n \in GrantRows /\ n.app = grant[g].app /\ n.revoked
  BY RowFacts DEF GrantRows
<1> QED
  BY <1>1 DEF Revoked

\* A job that cleanup leaves open is sound for the tables it was given.
LEMMA CleanedSound ==
  ASSUME ScriptInv, NEW t, NEW callers, NEW grants
  PROVE  \A j \in Jobs : LET n == Cleaned(t, callers, grants)[j] IN
           n.state \in Open =>
             /\ JobHolds(n, t, grants) /\ ~n.late
             /\ n.app # Owner => callers[n.app] = "live" /\ ~grants[n.grant].late
<1> SUFFICES ASSUME NEW j \in Jobs, Cleaned(t, callers, grants)[j].state \in Open
             PROVE  LET n == Cleaned(t, callers, grants)[j] IN
                    /\ JobHolds(n, t, grants) /\ ~n.late
                    /\ n.app # Owner => callers[n.app] = "live" /\ ~grants[n.grant].late
  OBVIOUS
<1> DEFINE n == Cleaned(t, callers, grants)[j]
<1>1. n = job[j] /\ ~job[j].late /\ ~Withdrawn(job[j], t, callers, grants)
  BY CleanedRows, ScriptTypes DEF ScriptInv
<1> HIDE DEF n
<1>2. JobHolds(job[j], task, grant)
  BY DEF ScriptInv, JobsHold
<1> QED
  BY <1>1, <1>2 DEF JobHolds, Withdrawn, GrantHolds, n

LEMMA SweptCallerRows ==
  ASSUME ScriptInv
  PROVE  /\ SweptCallers \in [Callers -> {"absent", "live", "revoked"}]
         /\ \A c \in Callers :
              /\ SweptCallers[c] # "absent" => standing[c] # "absent"
              /\ SweptCallers[c] = "live" => caller[c] = "live" /\ standing[c] = "valid"
BY ScriptTypes DEF ScriptInv, SweptCallers, CallersStand

\* No step takes a job back, and the desktop goes on with what it has.
LEMMA RunsKept ==
  ASSUME ScriptInv, UNCHANGED ran,
         \A j \in Jobs : job'[j].state \in {"absent", "queued"} => job[j].state \in {"absent", "queued"},
         runner'.phase # "idle" => /\ runner.phase # "idle" /\ runner'.job = runner.job
                                   /\ runner'.phase = "answered" => runner.phase = "answered"
  PROVE  RunnerSound' /\ RunsOnce'
BY DEF ScriptInv, RunnerSound, RunsOnce

-----------------------------------------------------------------------------
(* The requests that do no more to the jobs than cleanup does.             *)
LEMMA BrokerStep ==
  ASSUME ScriptInv, UNCHANGED <<standing, ran>>,
         caller' = SweptCallers, job' = Cleaned(task', SweptCallers, grant'),
         task' \in [live : BOOLEAN, published : Versions, latest : Versions],
         task'.published <= task'.latest,
         grant' \in [Grants -> GrantRows], GrantsArePublished',
         runner' \in [phase : Phases, job : 0..MaxJobs, aborted : BOOLEAN],
         (runner'.phase = "idle") = (runner'.job = 0),
         runner'.phase # "idle" => /\ runner.phase # "idle" /\ runner'.job = runner.job
                                   /\ runner'.phase = "answered" => runner.phase = "answered"
  PROVE  ScriptInv'
<1>1. job \in [Jobs -> JobRows]
  BY ScriptTypes DEF ScriptInv
<1>2. /\ job' \in [Jobs -> JobRows]
      /\ \A j \in Jobs : job'[j] = job[j] \/ job'[j].state \in Ended
  BY <1>1, CleanedRows
<1>3. ScriptTypeOK'
  <2>1. ran \in [Jobs -> Nat] /\ standing \in [Callers -> {"absent", "valid", "expired", "revoked"}]
    BY ScriptTypes DEF ScriptInv
  <2> QED
    BY <1>2, <2>1, SweptCallerRows, ScriptTypes DEF ScriptTypeOK, GrantRows, JobRows, Phases
<1>4. JobsHold'
  BY CleanedSound DEF JobsHold, JobHolds
<1>5. RunnerSound' /\ RunsOnce'
  BY <1>2, RunsKept DEF Ended
<1>6. CallersStand'
  BY SweptCallerRows DEF CallersStand
<1> QED
  BY <1>3, <1>4, <1>5, <1>6 DEF ScriptInv
LEMMA RevokingGrants ==
  ASSUME ScriptInv, NEW G, grant' = Revoked(G), UNCHANGED task
  PROVE  grant' \in [Grants -> GrantRows] /\ GrantsArePublished'
<1>1. \A g \in Grants : Revoked(G)[g].revoked \/ Revoked(G)[g] = grant[g]
  BY RevokedRows, ScriptTypes DEF ScriptInv
<1> QED
  BY <1>1, RevokedRows, ScriptTypes DEF ScriptInv, GrantsArePublished

LEMMA BrokerSteps ==
  ASSUME ScriptInv, \/ Sweep \/ SaveDraft \/ RevokeTask \/ Poll \/ ReadBack
                    \/ \E v \in Versions : Publish(v)
                    \/ \E g \in Grants : RevokeGrant(g)
  PROVE  ScriptInv'
<1> USE ScriptTypes, ScriptAssumption DEF ScriptInv
<1>1. ASSUME UNCHANGED grant, task'.published = task.published
      PROVE  grant' \in [Grants -> GrantRows] /\ GrantsArePublished'
  BY <1>1 DEF GrantsArePublished
<1>2. CASE Sweep
  BY <1>1, <1>2, BrokerStep DEF Sweep, Swept, SweptJobs
<1>3. CASE SaveDraft
  <2>1. /\ task' \in [live : BOOLEAN, published : Versions, latest : Versions]
        /\ task'.published <= task'.latest /\ task'.published = task.published
    <3>1. /\ task \in [live : BOOLEAN, published : Versions, latest : Versions]
          /\ task.published <= task.latest
      OBVIOUS
    <3>2. task.latest + 1 \in Versions /\ task.published <= task.latest + 1
      BY <1>3, <3>1 DEF SaveDraft, Versions
    <3>3. task' = [task EXCEPT !.latest = task.latest + 1]
      BY <1>3 DEF SaveDraft
    <3> QED
      BY <3>1, <3>2, <3>3
  <2>2. job' = Cleaned(task', SweptCallers, grant')
    BY <1>3 DEF SaveDraft, Swept, SweptJobs, Cleaned, Withdrawn, GrantHolds
  <2> QED
    BY <1>1, <1>3, <2>1, <2>2, BrokerStep DEF SaveDraft, Swept
<1>4. CASE RevokeTask
  <2>1. /\ task' \in [live : BOOLEAN, published : Versions, latest : Versions]
        /\ task'.published <= task'.latest /\ task'.published = task.published
    BY <1>4 DEF RevokeTask
  <2> QED
    BY <1>1, <1>4, <2>1, BrokerStep DEF RevokeTask
<1>5. CASE Poll
  <2>1. /\ runner' \in [phase : Phases, job : 0..MaxJobs, aborted : BOOLEAN]
        /\ runner'.phase = "running" /\ runner'.job = runner.job
    BY <1>5 DEF Poll, Phases
  <2> QED
    BY <1>1, <1>5, <2>1, BrokerStep DEF Poll, Swept, SweptJobs
<1>6. CASE ReadBack
  <2>1. /\ runner' \in [phase : Phases, job : 0..MaxJobs, aborted : BOOLEAN]
        /\ (runner'.phase = "idle") = (runner'.job = 0)
        /\ runner'.phase # "idle" => runner'.phase = "checked" /\ runner'.job = runner.job
    <3>1. Idle \in [phase : Phases, job : 0..MaxJobs, aborted : BOOLEAN]
      BY DEF Idle, Phases
    <3>2. /\ runner \in [phase : Phases, job : 0..MaxJobs, aborted : BOOLEAN]
          /\ runner.phase = "ended" /\ runner.job # 0
      BY <1>6 DEF ReadBack
    <3>3. runner' = Idle \/ runner' = [runner EXCEPT !.phase = "checked"]
      BY <1>6 DEF ReadBack
    <3>4. CASE runner' = Idle
      BY <3>1, <3>4 DEF Idle
    <3>5. CASE runner' = [runner EXCEPT !.phase = "checked"]
      BY <3>2, <3>5 DEF Phases
    <3> QED
      BY <3>3, <3>4, <3>5
  <2> QED
    BY <1>1, <1>6, <2>1, BrokerStep DEF ReadBack, Swept, SweptJobs
<1>7. ASSUME NEW v \in Versions, Publish(v)
      PROVE  ScriptInv'
  <2>1. /\ task' \in [live : BOOLEAN, published : Versions, latest : Versions]
        /\ task'.published <= task'.latest
    BY <1>7 DEF Publish, Versions
  <2>2. grant' \in [Grants -> GrantRows] /\ GrantsArePublished'
    <3>1. \A g \in Grants : grant'[g].revoked \/ grant'[g] = NoGrant
      BY <1>7, RevokedRows DEF Publish
    <3> QED
      BY <1>7, <3>1, RevokedRows DEF Publish, GrantsArePublished
  <2> QED
    BY <1>7, <2>1, <2>2, BrokerStep DEF Publish
<1>8. ASSUME NEW g \in Grants, RevokeGrant(g)
      PROVE  ScriptInv'
  BY <1>8, RevokingGrants, BrokerStep DEF RevokeGrant
<1> QED
  BY <1>2, <1>3, <1>4, <1>5, <1>6, <1>7, <1>8

-----------------------------------------------------------------------------
(* The requests that do more.                                              *)
LEMMA GrantCallerStep ==
  ASSUME ScriptInv, NEW h \in Grants, NEW c \in Callers, GrantCaller(h, c)
  PROVE  ScriptInv'
<1> USE ScriptTypes DEF ScriptInv
<1> DEFINE older == Revoked(GrantsOf(c))
           new == [NoGrant EXCEPT !.app = c, !.hash = HashOf[task.published]]
<1>1. /\ older \in [Grants -> GrantRows]
      /\ \A g \in Grants : older[g].app = grant[g].app /\ (older[g].revoked \/ older[g] = grant[g])
  BY RevokedRows
<1>2. new \in GrantRows /\ new.app = c /\ ~new.revoked /\ new.hash = HashOf[task.published]
  BY RowFacts DEF GrantRows
<1>3. UNCHANGED <<standing, task, runner, ran>> /\ caller' = SweptCallers
  BY DEF GrantCaller
<1> HIDE DEF new
<1>4. grant' = [older EXCEPT ![h] = new] /\ grant[h] = NoGrant
  BY DEF GrantCaller, new
<1>5. grant' \in [Grants -> GrantRows] /\ GrantsArePublished'
  BY <1>1, <1>2, <1>3, <1>4 DEF GrantsArePublished
<1>6. job' = Cleaned(task, SweptCallers, older)
  BY DEF GrantCaller
<1> HIDE DEF older
<1>7. /\ job' \in [Jobs -> JobRows]
      /\ \A j \in Jobs : job'[j] = job[j] \/ job'[j].state \in Ended
  BY <1>6, CleanedRows
<1>8. ScriptTypeOK'
  BY <1>3, <1>5, <1>7, SweptCallerRows DEF ScriptTypeOK, GrantRows, JobRows, Phases
<1>9. ASSUME NEW j \in Jobs PROVE JobHolds(job'[j], task', grant')
  <2>1. JobHolds(job'[j], task, older)
    BY <1>6, CleanedSound DEF JobHolds
  <2>2. older[h].app = None /\ None \notin Callers
    BY <1>1, <1>4, RowFacts
  <2> QED
    BY <1>1, <1>3, <1>4, <2>1, <2>2 DEF JobHolds
<1>10. RunnerSound' /\ RunsOnce'
  BY <1>3, <1>7, RunsKept DEF Ended
<1>11. CallersStand'
  BY <1>3, SweptCallerRows DEF CallersStand
<1> QED
  BY <1>5, <1>8, <1>9, <1>10, <1>11 DEF JobsHold

\* A broker request after its sweep: what the sweep left, and perhaps one job more or further on.
LEMMA RequestStep ==
  ASSUME ScriptInv, NEW j \in Jobs, NEW b \in JobRows,
         UNCHANGED <<standing, task, grant>>, caller' = SweptCallers,
         job' = [SweptJobs EXCEPT ![j] = b], JobHolds(b, task, grant)
  PROVE  /\ caller' \in [Callers -> {"absent", "live", "revoked"}] /\ CallersStand'
         /\ job' \in [Jobs -> JobRows] /\ JobsHold' /\ GrantsArePublished'
         /\ \A i \in Jobs : i # j => job'[i] = job[i] \/ job'[i].state \in Ended
         /\ job'[j] = b
<1>1. /\ SweptJobs \in [Jobs -> JobRows]
      /\ \A i \in Jobs : SweptJobs[i] = job[i] \/ SweptJobs[i].state \in Ended
  BY CleanedRows, ScriptTypes DEF SweptJobs, ScriptInv
<1>2. \A i \in Jobs : JobHolds(SweptJobs[i], task, grant)
  BY CleanedSound DEF SweptJobs, JobHolds
<1>3. JobsHold'
  BY <1>1, <1>2 DEF JobsHold
<1>4. GrantsArePublished'
  BY DEF ScriptInv, GrantsArePublished
<1> QED
  BY <1>1, <1>3, <1>4, SweptCallerRows DEF CallersStand
LEMMA RevokeCallerStep ==
  ASSUME ScriptInv, NEW c \in Callers, RevokeCaller(c)
  PROVE  ScriptInv'
<1> USE ScriptTypes DEF ScriptInv
<1>1. /\ job' \in [Jobs -> JobRows]
      /\ \A j \in Jobs : job'[j] = job[j] \/ job'[j].state \in Ended
  BY CleanedRows DEF RevokeCaller, SweptJobs
<1>2. caller' \in [Callers -> {"absent", "live", "revoked"}] /\ CallersStand'
  BY SweptCallerRows DEF RevokeCaller, CallersStand
<1>3. ScriptTypeOK'
  BY <1>1, <1>2 DEF RevokeCaller, ScriptTypeOK, GrantRows, JobRows, Phases
<1>4. JobsHold' /\ GrantsArePublished'
  BY CleanedSound DEF RevokeCaller, SweptJobs, JobsHold, JobHolds, GrantsArePublished
<1>5. RunnerSound' /\ RunsOnce'
  BY <1>1, RunsKept DEF RevokeCaller, Ended
<1> QED
  BY <1>2, <1>3, <1>4, <1>5

\* The next row was never used.
LEMMA RunRequests ==
  ASSUME ScriptInv, NEW j \in Jobs,
         \/ \E c \in Callers : CallerRuns(j, c)
         \/ \E v \in Versions : OwnerRuns(j, v)
  PROVE  ScriptInv'
<1> USE ScriptTypes DEF ScriptInv
<1>1. ASSUME NEW c \in Callers \cup {Owner}, NEW g \in 0..MaxGrants, NEW v \in Versions
      PROVE  Requested(c, g, v) \in JobRows /\ Requested(c, g, v).state = "queued"
             /\ Requested(c, g, v).app = c /\ Requested(c, g, v).grant = g
             /\ Requested(c, g, v).version = v
  <2>1. v \in 0..MaxVersions
    BY ScriptAssumption DEF Versions
  <2>2. "queued" \in Open
    BY DEF Open, Active
  <2> QED
    BY <2>1, <2>2 DEF Requested, NoJob, JobRows
<1>2. PICK b \in JobRows : /\ b.state = "queued" /\ JobHolds(b, task, grant)
                           /\ job' = [SweptJobs EXCEPT ![j] = b]
  <2>1. ASSUME NEW c \in Callers, CallerRuns(j, c)
        PROVE  \E b \in JobRows : /\ b.state = "queued" /\ JobHolds(b, task, grant)
                                  /\ job' = [SweptJobs EXCEPT ![j] = b]
    <3>1. PICK g \in UsableGrants(c) : job' = [SweptJobs EXCEPT ![j] = Requested(c, g, task.published)]
      BY <2>1 DEF CallerRuns
    <3>2. g \in Grants /\ g \in 0..MaxGrants /\ grant[g].app = c /\ ~grant[g].revoked /\ task.live
      BY <2>1, <3>1, ScriptAssumption DEF UsableGrants, GrantsOf, Grants, CallerRuns, MayRequest
    <3>3. task.published \in Versions
      OBVIOUS
    <3> DEFINE b == Requested(c, g, task.published)
    <3>4. /\ b \in JobRows /\ b.state = "queued" /\ b.app = c /\ b.grant = g
          /\ b.version = task.published
      BY <1>1, <3>2, <3>3
    <3> HIDE DEF b
    <3>5. JobHolds(b, task, grant)
      BY <3>2, <3>4 DEF JobHolds
    <3> QED
      BY <3>1, <3>4, <3>5 DEF b
  <2>2. ASSUME NEW v \in Versions, OwnerRuns(j, v)
        PROVE  \E b \in JobRows : /\ b.state = "queued" /\ JobHolds(b, task, grant)
                                  /\ job' = [SweptJobs EXCEPT ![j] = b]
    <3> DEFINE b == Requested(Owner, 0, v)
    <3>1. 0 \in 0..MaxGrants /\ Owner \in Callers \cup {Owner}
      BY ScriptAssumption
    <3>2. b \in JobRows /\ b.state = "queued" /\ b.app = Owner
      BY ONLY <1>1, <2>2, <3>1
    <3>3. job' = [SweptJobs EXCEPT ![j] = b]
      BY <2>2 DEF OwnerRuns
    <3> HIDE DEF b
    <3>4. JobHolds(b, task, grant)
      BY <3>2 DEF JobHolds
    <3> QED
      BY <3>2, <3>3, <3>4
  <2> QED
    BY <2>1, <2>2
<1>3. /\ UNCHANGED <<standing, task, grant, runner, ran>> /\ caller' = SweptCallers
      /\ job[j].state = "absent"
  BY DEF CallerRuns, OwnerRuns, MayRequest, IsNext
<1>4. /\ caller' \in [Callers -> {"absent", "live", "revoked"}] /\ CallersStand'
      /\ job' \in [Jobs -> JobRows] /\ JobsHold' /\ GrantsArePublished'
      /\ \A i \in Jobs : i # j => job'[i] = job[i] \/ job'[i].state \in Ended
      /\ job'[j] = b
  BY <1>2, <1>3, RequestStep
<1>5. ScriptTypeOK'
  BY <1>3, <1>4 DEF ScriptTypeOK, GrantRows, JobRows, Phases
<1>6. RunnerSound' /\ RunsOnce'
  BY <1>3, <1>4, RunsKept DEF Ended
<1> QED
  BY <1>4, <1>5, <1>6

\* A job in the desktop's hand is not one that waits, so it was not started.
LEMMA HandedOut ==
  ASSUME ScriptInv, NEW j \in Jobs, UNCHANGED ran, runner' = [Idle EXCEPT !.phase = "answered", !.job = j],
         job'[j].state = "running", job[j].state \in {"absent", "queued"},
         \A i \in Jobs : i # j => job'[i] = job[i] \/ job'[i].state \in Ended
  PROVE  /\ runner' \in [phase : Phases, job : 0..MaxJobs, aborted : BOOLEAN]
         /\ (runner'.phase = "idle") = (runner'.job = 0)
         /\ RunnerSound' /\ RunsOnce'
<1>1. runner'.phase = "answered" /\ runner'.job = j /\ runner'.aborted = FALSE
  BY DEF Idle
<1>2. j \in 0..MaxJobs /\ j # 0
  BY ScriptAssumption DEF Jobs
<1>3. ran[j] = 0
  BY DEF ScriptInv, RunsOnce
<1>4. RunsOnce'
  BY DEF ScriptInv, RunsOnce, Ended
<1>5. RunnerSound'
  BY <1>1, <1>3 DEF RunnerSound
<1>6. runner' \in [phase : Phases, job : 0..MaxJobs, aborted : BOOLEAN]
  BY <1>2 DEF Idle, Phases
<1> QED
  BY <1>1, <1>2, <1>4, <1>5, <1>6
LEMMA ClaimNextStep ==
  ASSUME ScriptInv, ClaimNext
  PROVE  ScriptInv'
<1> USE ScriptTypes DEF ScriptInv
<1>1. PICK j \in Oldest(SweptJobs) : /\ job' = [SweptJobs EXCEPT ![j].state = "running"]
                                     /\ runner' = [Idle EXCEPT !.phase = "answered", !.job = j]
  BY DEF ClaimNext
<1>2. UNCHANGED <<standing, task, grant, ran>> /\ caller' = SweptCallers
  BY DEF ClaimNext
<1>3. /\ SweptJobs \in [Jobs -> JobRows]
      /\ j \in Jobs /\ SweptJobs[j].state = "queued" /\ SweptJobs[j] = job[j]
      /\ JobHolds(job[j], task, grant)
  BY CleanedRows, CleanedSound DEF SweptJobs, Oldest, Open, Active, Ended
<1> DEFINE b == [job[j] EXCEPT !.state = "running"]
<1>4. b \in JobRows /\ b.state = "running" /\ JobHolds(b, task, grant)
  BY <1>3 DEF JobRows, JobHolds, Open, Active
<1>5. job' = [SweptJobs EXCEPT ![j] = b]
  BY <1>1, <1>3
<1> HIDE DEF b
<1>6. /\ caller' \in [Callers -> {"absent", "live", "revoked"}] /\ CallersStand'
      /\ job' \in [Jobs -> JobRows] /\ JobsHold' /\ GrantsArePublished'
      /\ \A i \in Jobs : i # j => job'[i] = job[i] \/ job'[i].state \in Ended
      /\ job'[j] = b
  BY <1>2, <1>3, <1>4, <1>5, RequestStep
<1>7. /\ runner' \in [phase : Phases, job : 0..MaxJobs, aborted : BOOLEAN]
      /\ (runner'.phase = "idle") = (runner'.job = 0)
      /\ RunnerSound' /\ RunsOnce'
  BY <1>1, <1>2, <1>3, <1>4, <1>6, HandedOut
<1>8. ScriptTypeOK'
  BY <1>2, <1>6, <1>7 DEF ScriptTypeOK, GrantRows, JobRows, Phases
<1> QED
  BY <1>6, <1>7, <1>8

LEMMA TestVersionStep ==
  ASSUME ScriptInv, NEW j \in Jobs, NEW v \in Versions, TestVersion(j, v)
  PROVE  ScriptInv'
<1> USE ScriptTypes DEF ScriptInv
<1> DEFINE b == [Requested(Owner, 0, v) EXCEPT !.state = "running"]
<1>1. /\ job' = [SweptJobs EXCEPT ![j] = b] /\ runner' = [Idle EXCEPT !.phase = "answered", !.job = j]
      /\ UNCHANGED <<standing, task, grant, ran>> /\ caller' = SweptCallers
      /\ job[j].state = "absent"
  BY DEF TestVersion, MayRequest, IsNext
<1>2. b \in JobRows /\ b.state = "running" /\ b.app = Owner
  <2>1. v \in 0..MaxVersions /\ 0 \in 0..MaxGrants /\ "running" \in Open
    BY ScriptAssumption DEF Versions, Open, Active
  <2> QED
    BY ONLY <2>1 DEF Requested, NoJob, JobRows
<1> HIDE DEF b
<1>3. JobHolds(b, task, grant)
  BY <1>2 DEF JobHolds
<1>4. /\ caller' \in [Callers -> {"absent", "live", "revoked"}] /\ CallersStand'
      /\ job' \in [Jobs -> JobRows] /\ JobsHold' /\ GrantsArePublished'
      /\ \A i \in Jobs : i # j => job'[i] = job[i] \/ job'[i].state \in Ended
      /\ job'[j] = b
  BY <1>1, <1>2, <1>3, RequestStep
<1>5. /\ runner' \in [phase : Phases, job : 0..MaxJobs, aborted : BOOLEAN]
      /\ (runner'.phase = "idle") = (runner'.job = 0)
      /\ RunnerSound' /\ RunsOnce'
  BY <1>1, <1>2, <1>4, HandedOut
<1>6. ScriptTypeOK'
  BY <1>1, <1>4, <1>5 DEF ScriptTypeOK, GrantRows, JobRows, Phases
<1> QED
  BY <1>4, <1>5, <1>6

LEMMA CompleteStep ==
  ASSUME ScriptInv, Complete
  PROVE  ScriptInv'
<1> USE ScriptTypes DEF ScriptInv
<1> DEFINE j == runner.job
           b == IF SweptJobs[j].state = "running" THEN [SweptJobs[j] EXCEPT !.state = "finished"]
                ELSE SweptJobs[j]
<1>1. UNCHANGED <<standing, task, grant, ran>> /\ caller' = SweptCallers /\ runner' = Idle /\ j \in Jobs
  BY DEF Complete, RunnerSound
<1>2. /\ SweptJobs \in [Jobs -> JobRows] /\ JobHolds(SweptJobs[j], task, grant)
      /\ SweptJobs[j] = job[j] \/ SweptJobs[j].state \in Ended
  BY <1>1, CleanedRows, CleanedSound DEF SweptJobs, JobHolds
<1>3. /\ b \in JobRows /\ JobHolds(b, task, grant)
      /\ b.state \in {"absent", "queued"} => job[j].state \in {"absent", "queued"}
  BY <1>1, <1>2 DEF JobRows, JobHolds, Open, Active, Ended
<1>4. job' = [SweptJobs EXCEPT ![j] = b]
  BY <1>1, <1>2 DEF Complete
<1> HIDE DEF b
<1>5. /\ caller' \in [Callers -> {"absent", "live", "revoked"}] /\ CallersStand'
      /\ job' \in [Jobs -> JobRows] /\ JobsHold' /\ GrantsArePublished'
      /\ \A i \in Jobs : i # j => job'[i] = job[i] \/ job'[i].state \in Ended
      /\ job'[j] = b
  BY <1>1, <1>3, <1>4, RequestStep
<1>6. RunnerSound' /\ RunsOnce'
  BY <1>1, <1>3, <1>5, RunsKept DEF Ended, Idle
<1>7. ScriptTypeOK'
  BY <1>1, <1>5, ScriptAssumption DEF ScriptTypeOK, GrantRows, JobRows, Phases, Idle
<1> QED
  BY <1>5, <1>6, <1>7
-----------------------------------------------------------------------------
(* The desktop's own steps, and the deadlines.                             *)
LEMMA DesktopSteps ==
  ASSUME ScriptInv, Start \/ Abort \/ ProcessEnds \/ GiveUp
  PROVE  ScriptInv'
<1> USE ScriptTypes DEF ScriptInv
<1>1. UNCHANGED <<standing, caller, task, grant, job>>
  BY DEF Start, Abort, ProcessEnds, GiveUp
<1>2. JobsHold' /\ GrantsArePublished' /\ CallersStand'
  BY <1>1 DEF JobsHold, JobHolds, GrantsArePublished, CallersStand
<1>3. ran \in [Jobs -> Nat] /\ runner \in [phase : Phases, job : 0..MaxJobs, aborted : BOOLEAN]
  OBVIOUS
<1>4. CASE Start
  <2>1. runner.phase = "answered" /\ runner.job \in Jobs /\ runner.job # 0
        /\ job[runner.job].state \notin {"absent", "queued"} /\ ran[runner.job] = 0
    BY <1>3, <1>4, ScriptAssumption DEF Start, RunnerSound, Jobs
  <2>2. /\ runner' \in [phase : Phases, job : 0..MaxJobs, aborted : BOOLEAN]
        /\ runner'.phase \in {"running", "ended"} /\ runner'.job = runner.job
    <3>1. [runner EXCEPT !.phase = "running"] \in [phase : Phases, job : 0..MaxJobs, aborted : BOOLEAN]
      BY <1>3 DEF Phases
    <3>2. [Idle EXCEPT !.phase = "ended", !.job = runner.job]
             \in [phase : Phases, job : 0..MaxJobs, aborted : BOOLEAN]
      BY <1>3 DEF Idle, Phases
    <3> QED
      BY <1>3, <1>4, <3>1, <3>2 DEF Start, Idle
  <2>3. ran' \in [Jobs -> Nat] /\ \A j \in Jobs : ran'[j] = ran[j] \/ (j = runner.job /\ ran'[j] = 1)
    BY <1>3, <1>4, <2>1 DEF Start
  <2>4. RunnerSound' /\ RunsOnce'
    BY <1>1, <2>1, <2>2, <2>3 DEF RunnerSound, RunsOnce
  <2>5. ScriptTypeOK'
    BY <1>1, <2>1, <2>2, <2>3 DEF ScriptTypeOK, GrantRows, JobRows, Phases
  <2> QED
    BY <1>2, <2>4, <2>5
<1>5. CASE Abort \/ ProcessEnds \/ GiveUp
  <2>1. /\ UNCHANGED ran /\ runner' \in [phase : Phases, job : 0..MaxJobs, aborted : BOOLEAN]
        /\ \/ runner' = Idle
           \/ /\ runner'.phase # "idle" /\ runner.phase # "idle" /\ runner'.job = runner.job
              /\ runner'.phase = "answered" => runner.phase = "answered"
    <3>1. CASE Abort
      BY <1>3, <3>1 DEF Abort
    <3>2. CASE ProcessEnds
      BY <1>3, <3>2 DEF ProcessEnds, Idle, Phases
    <3>3. CASE GiveUp
      BY <3>3, ScriptAssumption DEF GiveUp, Idle, Phases
    <3> QED
      BY <1>5, <3>1, <3>2, <3>3
  <2>2. RunnerSound' /\ RunsOnce'
    BY <1>1, <2>1, RunsKept DEF Idle
  <2>3. (runner'.phase = "idle") = (runner'.job = 0)
    BY <2>1 DEF Idle
  <2>4. ScriptTypeOK'
    BY <1>1, <1>3, <2>1, <2>3 DEF ScriptTypeOK, GrantRows, JobRows, Phases
  <2> QED
    BY <1>2, <2>2, <2>4
<1> QED
  BY <1>4, <1>5

LEMMA LapseSteps ==
  ASSUME ScriptInv, \/ \E j \in Jobs : JobLapses(j)
                    \/ \E g \in Grants : GrantLapses(g)
  PROVE  ScriptInv'
<1> DEFINE SameJob(j) == /\ job'[j].state = job[j].state /\ job'[j].app = job[j].app
                         /\ job'[j].grant = job[j].grant /\ job'[j].version = job[j].version
           SameGrant(g) == /\ grant'[g].app = grant[g].app /\ grant'[g].hash = grant[g].hash
                           /\ grant'[g].revoked = grant[g].revoked
                           /\ grant[g] = NoGrant => grant'[g] = NoGrant
<1>1. job \in [Jobs -> JobRows] /\ grant \in [Grants -> GrantRows]
  BY ScriptTypes DEF ScriptInv
<1>2. /\ UNCHANGED <<standing, caller, task, runner, ran>>
      /\ job' \in [Jobs -> JobRows] /\ \A j \in Jobs : SameJob(j)
      /\ grant' \in [Grants -> GrantRows] /\ \A g \in Grants : SameGrant(g)
  <2>1. \A b \in JobRows : LET n == [b EXCEPT !.late = TRUE] IN
          n \in JobRows /\ n.state = b.state /\ n.app = b.app /\ n.grant = b.grant /\ n.version = b.version
    BY DEF JobRows
  <2>2. CASE \E j \in Jobs : JobLapses(j)
    BY <1>1, <2>1, <2>2 DEF JobLapses
  <2>3. CASE \E g \in Grants : GrantLapses(g)
    <3>1. PICK h \in Grants : GrantLapses(h)
      BY <2>3
    <3>2. job' \in [Jobs -> JobRows] /\ \A j \in Jobs : SameJob(j)
      BY <1>1, <2>1, <3>1 DEF GrantLapses
    <3>3. LET n == [grant[h] EXCEPT !.late = TRUE] IN
          n \in GrantRows /\ n.app = grant[h].app /\ n.hash = grant[h].hash /\ n.revoked = grant[h].revoked
      BY <1>1 DEF GrantRows
    <3>4. grant' \in [Grants -> GrantRows] /\ \A g \in Grants : SameGrant(g)
      BY <1>1, <3>1, <3>3 DEF GrantLapses
    <3> QED
      BY <3>1, <3>2, <3>4 DEF GrantLapses
  <2> QED
    BY <2>2, <2>3
<1>3. ScriptTypeOK'
  BY <1>2, ScriptTypes DEF ScriptInv, ScriptTypeOK, GrantRows, JobRows, Phases
<1>4. JobsHold'
  BY <1>2 DEF ScriptInv, JobsHold, JobHolds
<1>5. GrantsArePublished' /\ CallersStand'
  BY <1>2 DEF ScriptInv, GrantsArePublished, CallersStand
<1>6. RunnerSound' /\ RunsOnce'
  BY <1>2, RunsKept
<1> QED
  BY <1>3, <1>4, <1>5, <1>6 DEF ScriptInv

LEMMA ScriptStep ==
  ASSUME ScriptInv, ScriptNext
  PROVE  ScriptInv'
BY BrokerSteps, GrantCallerStep, RevokeCallerStep, RunRequests, ClaimNextStep, TestVersionStep,
   CompleteStep, DesktopSteps, LapseSteps
   DEF ScriptNext, DesktopNext
-----------------------------------------------------------------------------
(* The clients' operations, as far as they touch callers, grants and jobs. *)
LEMMA RevokingTools ==
  ASSUME ScriptInv, NEW c \in Callers, RevokeToolGrants(c), UNCHANGED <<task, runner, ran>>
  PROVE  /\ grant' \in [Grants -> GrantRows] /\ GrantsArePublished'
         /\ job' \in [Jobs -> JobRows] /\ JobsHold' /\ RunnerSound' /\ RunsOnce'
         /\ \A g \in Grants : grant'[g] = grant[g] \/ grant'[g].revoked
<1>1. job \in [Jobs -> JobRows] /\ grant \in [Grants -> GrantRows]
  BY ScriptTypes DEF ScriptInv
<1>2. grant' = Revoked(GrantsOf(c))
  BY DEF RevokeToolGrants
<1>3. grant' \in [Grants -> GrantRows] /\ GrantsArePublished'
  BY <1>2, RevokingGrants
<1>4. /\ job' \in [Jobs -> JobRows]
      /\ \A j \in Jobs : IF job[j].app = c /\ job[j].state \in Open THEN job'[j].state \in Ended
                         ELSE job'[j] = job[j]
  BY <1>1, RowFacts DEF RevokeToolGrants, Ended
<1>5. ASSUME NEW j \in Jobs PROVE JobHolds(job'[j], task', grant')
  <2>1. JobHolds(job[j], task, grant) /\ (job'[j].state \in Open => job'[j] = job[j] /\ job[j].app # c)
    BY <1>4 DEF ScriptInv, JobsHold, Open, Active, Ended
  <2>2. \A g \in Grants : grant[g].app # c => grant'[g] = grant[g]
    BY <1>1, <1>2, RevokedRows DEF GrantsOf
  <2> QED
    BY <2>1, <2>2 DEF JobHolds
<1>6. RunnerSound' /\ RunsOnce'
  BY <1>4, RunsKept DEF Ended
<1>7. \A g \in Grants : grant'[g] = grant[g] \/ grant'[g].revoked
  BY <1>1, <1>2, RevokedRows
<1> QED
  BY <1>3, <1>4, <1>5, <1>6, <1>7 DEF JobsHold

LEMMA ClientStepKeepsScripts ==
  ASSUME ScriptInv, UNCHANGED <<task, runner, ran>>,
         UNCHANGED <<grant, job>> \/ \E c \in Callers : RevokeToolGrants(c),
         standing' \in [Callers -> {"absent", "valid", "expired", "revoked"}],
         caller' \in [Callers -> {"absent", "live", "revoked"}], CallersStand'
  PROVE  ScriptInv'
<1>1. /\ grant' \in [Grants -> GrantRows] /\ GrantsArePublished'
      /\ job' \in [Jobs -> JobRows] /\ JobsHold' /\ RunnerSound' /\ RunsOnce'
  <2>1. CASE UNCHANGED <<grant, job>>
    <3>1. GrantsArePublished' /\ JobsHold' /\ RunnerSound' /\ RunsOnce'
      BY <2>1 DEF ScriptInv, GrantsArePublished, JobsHold, JobHolds, RunnerSound, RunsOnce
    <3> QED
      BY <2>1, <3>1, ScriptTypes DEF ScriptInv
  <2>2. CASE \E c \in Callers : RevokeToolGrants(c)
    BY <2>2, RevokingTools
  <2> QED
    BY <2>1, <2>2
<1>2. ScriptTypeOK'
  BY <1>1, ScriptTypes DEF ScriptInv, ScriptTypeOK, GrantRows, JobRows, Phases
<1> QED
  BY <1>1, <1>2 DEF ScriptInv

-----------------------------------------------------------------------------
(* Requests.                                                               *)
LEMMA RequestRowFacts ==
  /\ NoRequest \in RequestRows /\ NoRequest.state = "absent"
  /\ \A row \in RequestRows, s \in {"denied", "consumed"} :
       Closed(row, s) \in RequestRows /\ Closed(row, s).state = s
  /\ \A level \in {"read", "write"} : DefaultPermissions(level) \subseteq Permissions
<1>1. NoRequest \in RequestRows /\ NoRequest.state = "absent"
  BY DEF NoRequest, RequestRows
<1> QED
  BY <1>1 DEF Closed, RequestRows, DefaultPermissions, Permissions

LEMMA DeniedRows ==
  ASSUME request \in [Requests -> RequestRows], NEW R
  PROVE  /\ Deny(request, R) \in [Requests -> RequestRows]
         /\ \A r \in Requests :
              /\ Deny(request, R)[r] = request[r] \/ Deny(request, R)[r].state \notin Outstanding
              /\ r \in R => Deny(request, R)[r].state \notin Outstanding
<1>1. \A r \in Requests : /\ Closed(request[r], "denied") \in RequestRows
                          /\ Closed(request[r], "denied").state \notin Outstanding
  BY RequestRowFacts DEF Outstanding
<1> QED
  BY <1>1 DEF Deny

\* One row is written that is sound, and that is an open renewal only if it was this one before.
LEMMA RowStep ==
  ASSUME ClientInv, NEW r \in Requests, NEW row \in RequestRows, KeepsClients,
         request' = [request EXCEPT ![r] = row],
         row.state \in Outstanding =>
           /\ row.client # None => row.flow = None /\ standing[row.client] # "absent"
           /\ row.purpose = "permissions" => row.client # None
           /\ row.purpose = "access" =>
                /\ row.client # None => /\ row.access = access[row.client]
                                        /\ IsOpenRenewal(r) /\ row.client = request[r].client
                                        /\ row.basis = request[r].basis
                /\ row.access = "read" /\ (row.flow # None \/ row.client \in oauth) => row.permissions = {}
  PROVE  ClientInv'
<1>1. ClientTypes'
  BY DEF ClientInv, ClientTypes, KeepsClients
<1>2. \A q \in Requests : request'[q] = IF q = r THEN row ELSE request[q]
  BY DEF ClientInv, ClientTypes
<1>3. RequestsSound'
  BY <1>2 DEF ClientInv, RequestsSound, KeepsClients
<1>4. ReadOnlyStaysReadOnly'
  BY DEF ClientInv, ReadOnlyStaysReadOnly, KeepsClients
<1>5. \A q \in Requests : IsOpenRenewal(q)' =>
        IsOpenRenewal(q) /\ request'[q].client = request[q].client /\ request'[q].basis = request[q].basis
  BY <1>2 DEF IsOpenRenewal
<1>6. RenewalsAreCurrent'
  BY <1>5 DEF ClientInv, RenewalsAreCurrent, Of, KeepsClients
<1> QED
  BY <1>1, <1>3, <1>4, <1>6 DEF ClientInv

\* Rows are closed, and at most one client is written.
LEMMA ClosingStep ==
  ASSUME ClientInv, NEW c,
         request' \in [Requests -> RequestRows],
         \A r \in Requests : request'[r] = request[r] \/ request'[r].state \notin Outstanding,
         permitted' \in [Callers -> SUBSET Permissions], access' \in [Callers -> {"read", "write"}],
         \A d \in Callers : d # c => permitted'[d] = permitted[d] /\ access'[d] = access[d],
         permitted'[c] # permitted[c] => \A r \in Of(request, c) : ~IsOpenRenewal(r)',
         access'[c] # access[c] => standing[c] = "absent",
         \A d \in Callers : standing[d] # "absent" => standing'[d] # "absent",
         \/ oauth' = oauth
         \/ oauth' = oauth \cup {c} /\ c \in Callers /\ standing[c] = "absent" /\ standing'[c] # "absent",
         c \in oauth' /\ access'[c] = "read" => permitted'[c] = {}
  PROVE  ClientInv'
<1>1. ClientTypes'
  BY DEF ClientInv, ClientTypes
<1>2. \A r \in Requests : request'[r].state \in Outstanding => request'[r] = request[r]
  OBVIOUS
<1>3. ReadOnlyStaysReadOnly'
  BY DEF ClientInv, ClientTypes, ReadOnlyStaysReadOnly
<1>4. RequestsSound'
  <2> SUFFICES ASSUME NEW r \in Requests, request'[r].state \in Outstanding
               PROVE  /\ request'[r].client # None =>
                            request'[r].flow = None /\ standing'[request'[r].client] # "absent"
                      /\ request'[r].purpose = "permissions" => request'[r].client # None
                      /\ request'[r].purpose = "access" =>
                           /\ request'[r].client # None => request'[r].access = access'[request'[r].client]
                           /\ request'[r].access = "read"
                                /\ (request'[r].flow # None \/ request'[r].client \in oauth')
                                => request'[r].permissions = {}
    BY DEF RequestsSound
  <2>1. request'[r] = request[r] /\ request[r].client \in Callers \cup {None}
    BY <1>2 DEF ClientInv, ClientTypes, RequestRows
  <2>2. request[r].client # None =>
          /\ standing[request[r].client] # "absent"
          /\ access'[request[r].client] = access[request[r].client]
          /\ request[r].client \in oauth' => request[r].client \in oauth
    BY <2>1 DEF ClientInv, RequestsSound
  <2>3. request[r].client \in oauth' => request[r].client \in oauth
    <3>1. None \notin oauth'
      BY <1>1, RowFacts DEF ClientTypes
    <3> QED
      BY <2>2, <3>1
  <2> QED
    BY <2>1, <2>2, <2>3 DEF ClientInv, RequestsSound
<1>5. RenewalsAreCurrent'
  <2>1. ASSUME NEW r \in Requests, IsOpenRenewal(r)'
        PROVE  /\ IsOpenRenewal(r) /\ request'[r] = request[r]
               /\ permitted'[request[r].client] = permitted[request[r].client]
    <3>1. IsOpenRenewal(r) /\ request'[r] = request[r] /\ request[r].client \in Callers
      BY <1>2, <2>1 DEF IsOpenRenewal, ClientInv, ClientTypes, RequestRows
    <3>2. request[r].client = c => permitted'[c] = permitted[c]
      BY <2>1 DEF Of
    <3> QED
      BY <3>1, <3>2
  <2> QED
    BY <2>1 DEF ClientInv, RenewalsAreCurrent, Of
<1> QED
  BY <1>1, <1>3, <1>4, <1>5 DEF ClientInv
LEMMA UnchangedScripts ==
  ASSUME ScriptInv, KeepsScripts, UNCHANGED standing
  PROVE  ScriptInv'
BY DEF KeepsScripts, scriptVars, ScriptInv, ScriptTypeOK, JobsHold, JobHolds, GrantsArePublished,
       RunnerSound, RunsOnce, CallersStand, GrantsOf

LEMMA UnchangedClients ==
  ASSUME ClientInv, UNCHANGED <<standing, accessVars>>
  PROVE  ClientInv'
BY DEF accessVars, ClientInv, ClientTypes, RenewalsAreCurrent, ReadOnlyStaysReadOnly, RequestsSound,
       IsOpenRenewal, Of

-----------------------------------------------------------------------------
(* One step for each operation on one request.                             *)
LEMMA RequestSteps ==
  ASSUME ClientInv, NEW r \in Requests,
         \/ \E level \in {"read", "write"}, flow \in {None, "open"} : RequestAccess(r, level, flow)
         \/ \E c \in Callers, P \in OwnerSets : RequestPermissions(r, c, P)
         \/ ApproveAccess(r)
         \/ \E P \in OwnerSets : EditRequest(r, P)
         \/ ReturnCode(r) \/ RequestLapses(r) \/ CodeLapses(r)
  PROVE  ClientInv'
<1>1. /\ request \in [Requests -> RequestRows] /\ request[r] \in RequestRows
      /\ permitted \in [Callers -> SUBSET Permissions]
  BY DEF ClientInv, ClientTypes
<1>2. request[r].state \in Outstanding =>
        /\ request[r].client # None => request[r].flow = None /\ standing[request[r].client] # "absent"
        /\ request[r].purpose = "permissions" => request[r].client # None
        /\ request[r].purpose = "access" =>
             /\ request[r].client # None => request[r].access = access[request[r].client]
             /\ request[r].access = "read" /\ (request[r].flow # None \/ request[r].client \in oauth)
                  => request[r].permissions = {}
  BY DEF ClientInv, RequestsSound
<1>3. ASSUME NEW level \in {"read", "write"}, NEW flow \in {None, "open"}, RequestAccess(r, level, flow)
      PROVE  ClientInv'
  <2> DEFINE row == [NoRequest EXCEPT !.state = "pending", !.access = level, !.flow = flow,
                                      !.permissions = DefaultPermissions(level)]
  <2>1. /\ row \in RequestRows /\ row.state = "pending" /\ row.client = None /\ row.purpose = "access"
        /\ row.access = "read" => row.permissions = {}
    BY RequestRowFacts DEF RequestRows, NoRequest, DefaultPermissions, Outstanding
  <2>2. request' = [request EXCEPT ![r] = row] /\ KeepsClients
    BY <1>3 DEF RequestAccess
  <2> HIDE DEF row
  <2> QED
    BY <2>1, <2>2, RowStep
<1>4. ASSUME NEW c \in Callers, NEW P \in OwnerSets, RequestPermissions(r, c, P)
      PROVE  ClientInv'
  <2> DEFINE row == [NoRequest EXCEPT !.state = "pending", !.purpose = "permissions", !.client = c,
                                      !.permissions = P \ permitted[c]]
  <2>1. P \subseteq Permissions
    BY AccessAssumption
  <2>2. /\ row \in RequestRows /\ row.client = c /\ row.purpose = "permissions" /\ row.flow = None
    BY <2>1, RequestRowFacts DEF RequestRows, NoRequest, Outstanding
  <2>3. request' = [request EXCEPT ![r] = row] /\ KeepsClients /\ standing[c] = "valid"
    BY <1>4 DEF RequestPermissions
  <2>4. c # None
    BY RowFacts
  <2> HIDE DEF row
  <2> QED
    BY <2>2, <2>3, <2>4, RowStep
<1>5. CASE ApproveAccess(r)
  <2> DEFINE row == [request[r] EXCEPT !.state = "approved"]
  <2>1. /\ row \in RequestRows /\ request[r].state \in Outstanding /\ request[r].purpose = "access"
        /\ request' = [request EXCEPT ![r] = row] /\ KeepsClients
    BY <1>1, <1>5 DEF ApproveAccess, Reviewable, RequestRows, Outstanding
  <2>2. row.client = request[r].client /\ row.flow = request[r].flow /\ row.purpose = request[r].purpose
        /\ row.access = request[r].access /\ row.permissions = request[r].permissions
        /\ row.basis = request[r].basis
    BY <1>1 DEF RequestRows
  <2> HIDE DEF row
  <2> QED
    BY <1>2, <2>1, <2>2, RowStep DEF IsOpenRenewal
<1>6. ASSUME NEW P \in OwnerSets, EditRequest(r, P)
      PROVE  ClientInv'
  <2> DEFINE row == [request[r] EXCEPT !.permissions = P]
  <2>1. P \subseteq Permissions
    BY AccessAssumption
  <2>2. /\ row \in RequestRows /\ request[r].state \in Outstanding /\ request[r].purpose = "access"
        /\ request' = [request EXCEPT ![r] = row] /\ KeepsClients /\ ~RefusedToRequest(r, P)
    BY <1>1, <1>6, <2>1 DEF EditRequest, RequestRows
  <2>3. row.client = request[r].client /\ row.flow = request[r].flow /\ row.purpose = request[r].purpose
        /\ row.access = request[r].access /\ row.permissions = P /\ row.basis = request[r].basis
    BY <1>1 DEF RequestRows
  <2> HIDE DEF row
  <2> QED
    BY <1>2, <2>2, <2>3, RowStep DEF IsOpenRenewal, RefusedToRequest
<1>7. CASE ReturnCode(r) \/ CodeLapses(r)
  <2>1. PICK f \in {"coded", "lapsed"} : request' = [request EXCEPT ![r].flow = f]
    BY <1>7 DEF ReturnCode, CodeLapses
  <2> DEFINE row == [request[r] EXCEPT !.flow = f]
  <2>2. row \in RequestRows /\ request' = [request EXCEPT ![r] = row] /\ KeepsClients
        /\ request[r].flow # None
    BY <1>1, <1>7, <2>1 DEF ReturnCode, CodeLapses, RequestRows, None
  <2>3. row.client = request[r].client /\ row.state = request[r].state
        /\ row.purpose = request[r].purpose /\ row.access = request[r].access
        /\ row.permissions = request[r].permissions
    BY <1>1 DEF RequestRows
  <2> HIDE DEF row
  <2> QED
    BY <1>2, <2>2, <2>3, RowStep
<1>8. CASE RequestLapses(r)
  BY <1>8, RequestRowFacts, RowStep DEF RequestLapses, Outstanding
<1> QED
  BY <1>3, <1>4, <1>5, <1>6, <1>7, <1>8

LEMMA RenewalStep ==
  ASSUME ClientInv, NEW r \in Requests, NEW c \in Callers, RequestRenewal(r, c)
  PROVE  ClientInv'
<1>1. /\ request \in [Requests -> RequestRows] /\ access[c] \in {"read", "write"}
      /\ permitted[c] \subseteq Permissions /\ c # None
  BY RowFacts DEF ClientInv, ClientTypes
<1> DEFINE rest == Deny(request, Of(request, c))
           row == [NoRequest EXCEPT !.state = "pending", !.client = c, !.access = access[c],
                                    !.permissions = permitted[c], !.basis = permitted[c]]
<1>2. /\ row \in RequestRows /\ row.client = c /\ row.purpose = "access" /\ row.flow = None
      /\ row.access = access[c] /\ row.permissions = permitted[c] /\ row.basis = permitted[c]
  BY <1>1, RequestRowFacts DEF RequestRows, NoRequest, Outstanding
<1>3. /\ rest \in [Requests -> RequestRows]
      /\ \A q \in Requests : /\ rest[q] = request[q] \/ rest[q].state \notin Outstanding
                             /\ q \in Of(request, c) => rest[q].state \notin Outstanding
  BY <1>1, DeniedRows
<1>4. request' = [rest EXCEPT ![r] = row] /\ KeepsClients /\ standing[c] \in {"valid", "expired"}
  BY DEF RequestRenewal
<1> HIDE DEF rest, row
<1>5. \A q \in Requests : request'[q].state \in Outstanding =>
        (q = r /\ request'[q] = row) \/ (request'[q] = request[q] /\ request[q].client # c)
  <2>1. \A q \in Requests : request'[q] = IF q = r THEN row ELSE rest[q]
    BY <1>3, <1>4
  <2>2. \A q \in Requests : q \in Of(request, c) <=> request[q].client = c
    BY DEF Of
  <2> SUFFICES ASSUME NEW q \in Requests, request'[q].state \in Outstanding, q # r
               PROVE  request'[q] = request[q] /\ request[q].client # c
    BY <2>1
  <2>3. request'[q] = rest[q]
    BY <2>1
  <2>4. rest[q] = request[q] /\ q \notin Of(request, c)
    BY <1>3, <2>3
  <2> QED
    BY <2>2, <2>3, <2>4
<1>6. ClientTypes'
  BY <1>2, <1>3, <1>4 DEF ClientInv, ClientTypes, KeepsClients
<1>7. c \in oauth /\ access[c] = "read" => permitted[c] = {}
  BY DEF ClientInv, ReadOnlyStaysReadOnly
<1>8. RequestsSound'
  BY <1>1, <1>2, <1>4, <1>5, <1>7 DEF ClientInv, RequestsSound, KeepsClients
<1>9. ReadOnlyStaysReadOnly'
  BY <1>4 DEF ClientInv, ReadOnlyStaysReadOnly, KeepsClients
<1>10. RenewalsAreCurrent'
  BY <1>2, <1>4, <1>5 DEF ClientInv, RenewalsAreCurrent, IsOpenRenewal, Of, KeepsClients
<1> QED
  BY <1>6, <1>8, <1>9, <1>10 DEF ClientInv
LEMMA EnsuringToolCaller ==
  ASSUME ScriptInv, NEW c \in Callers, standing'[c] # "absent",
         \A d \in Callers : standing[d] # "absent" => standing'[d] # "absent",
         \/ EnsureToolCaller(c) \/ UNCHANGED caller \/ caller' = [caller EXCEPT ![c] = "live"]
  PROVE  caller' \in [Callers -> {"absent", "live", "revoked"}] /\ CallersStand'
BY ScriptTypes DEF ScriptInv, EnsureToolCaller, CallersStand

LEMMA RefuseStep ==
  ASSUME AccessInv, NEW r \in Requests, Refuse(r)
  PROVE  AccessInv'
<1>1. ScriptInv'
  BY UnchangedScripts DEF AccessInv, Refuse, KeepsClients
<1>2. ClientTypes /\ ClientInv
  BY DEF AccessInv, ClientInv
<1>3. /\ request' \in [Requests -> RequestRows]
      /\ \A q \in Requests : request'[q] = request[q] \/ request'[q].state \notin Outstanding
  BY <1>2, DeniedRows DEF Refuse, ClientTypes
<1>4. ClientInv'
  <2>1. UNCHANGED <<standing, access, permitted, oauth>>
    BY DEF Refuse, KeepsClients
  <2>2. None \notin oauth
    BY <1>2, RowFacts DEF ClientTypes
  <2> QED
    BY <1>2, <1>3, <2>1, <2>2, ClosingStep DEF ClientTypes
<1> QED
  BY <1>1, <1>4 DEF AccessInv

LEMMA ApprovePermissionsStep ==
  ASSUME AccessInv, NEW r \in Requests, ApprovePermissions(r)
  PROVE  AccessInv'
<1> DEFINE c == request[r].client
           rest == Deny(request, {q \in Of(request, c) : request[q].purpose = "access"})
<1>1. ScriptInv /\ ClientInv /\ ClientTypes
  BY DEF AccessInv, ClientInv
<1>2. /\ c \in Callers /\ standing[c] = "valid" /\ request[r].state \in Outstanding
      /\ request[r] \in RequestRows /\ request[r].permissions \subseteq Permissions
  BY <1>1 DEF ClientInv, ClientTypes, RequestsSound, ApprovePermissions, Reviewable, Outstanding, RequestRows
<1>3. /\ rest \in [Requests -> RequestRows]
      /\ \A q \in Requests :
           /\ rest[q] = request[q] \/ rest[q].state \notin Outstanding
           /\ q \in {p \in Of(request, c) : request[p].purpose = "access"} => rest[q].state \notin Outstanding
  BY <1>1, DeniedRows DEF ClientTypes
<1>4. Closed(rest[r], "consumed") \in RequestRows /\ Closed(rest[r], "consumed").state \notin Outstanding
  BY <1>3, RequestRowFacts DEF Outstanding
<1>5. request' = [rest EXCEPT ![r] = Closed(rest[r], "consumed")]
  BY <1>3 DEF ApprovePermissions
<1> HIDE DEF rest
<1>6. /\ request' \in [Requests -> RequestRows]
      /\ \A q \in Requests : request'[q] = request[q] \/ request'[q].state \notin Outstanding
      /\ \A q \in Of(request, c) : ~IsOpenRenewal(q)'
  <2>1. request' \in [Requests -> RequestRows]
    BY <1>3, <1>4, <1>5
  <2>2. \A q \in Requests : request'[q] = rest[q] \/ request'[q].state \notin Outstanding
    BY <1>3, <1>4, <1>5
  <2>3. ASSUME NEW q \in Of(request, c), IsOpenRenewal(q)' PROVE FALSE
    <3>1. q \in Requests /\ request'[q].state \in Outstanding /\ request'[q].purpose = "access"
      BY <2>3 DEF Of, IsOpenRenewal
    <3>2. rest[q] = request'[q] /\ rest[q] = request[q]
      BY <1>3, <2>2, <3>1
    <3> QED
      BY <1>3, <3>1, <3>2
  <2> QED
    BY <1>3, <2>1, <2>2, <2>3
<1>7. /\ permitted' = [permitted EXCEPT ![c] = permitted[c] \cup request[r].permissions]
      /\ UNCHANGED <<standing, access, oauth, scriptVars>>
      /\ ~RefusedToClient(c, request[r].permissions)
      /\ EnsureToolCaller(c) \/ UNCHANGED caller
  BY DEF ApprovePermissions
<1>8. ScriptInv'
  BY <1>1, <1>2, <1>7, EnsuringToolCaller, ClientStepKeepsScripts, ScriptTypes DEF ScriptInv, scriptVars
<1>9. ClientInv'
  <2>1. /\ permitted' \in [Callers -> SUBSET Permissions]
        /\ \A d \in Callers : d # c => permitted'[d] = permitted[d]
        /\ permitted'[c] = permitted[c] \cup request[r].permissions
    BY <1>1, <1>2, <1>7 DEF ClientTypes
  <2>2. c \in oauth' /\ access'[c] = "read" => permitted'[c] = {}
    BY <1>1, <1>2, <1>7, <2>1 DEF RefusedToClient, ClientInv, ReadOnlyStaysReadOnly
  <2> QED
    BY <1>1, <1>2, <1>6, <1>7, <2>1, <2>2, ClosingStep DEF ClientTypes
<1> QED
  BY <1>8, <1>9 DEF AccessInv
\* Editing or revoking a client closes all it asked for.
LEMMA ClosedForClient ==
  ASSUME ClientInv, NEW c, request' = Deny(request, Of(request, c))
  PROVE  /\ request' \in [Requests -> RequestRows]
         /\ \A q \in Requests : request'[q] = request[q] \/ request'[q].state \notin Outstanding
         /\ \A q \in Of(request, c) : ~IsOpenRenewal(q)'
<1>1. request \in [Requests -> RequestRows]
  BY DEF ClientInv, ClientTypes
<1> QED
  BY <1>1, DeniedRows DEF IsOpenRenewal, Of

LEMMA EditClientStep ==
  ASSUME AccessInv, NEW c \in Callers, NEW P \in OwnerSets, EditClient(c, P)
  PROVE  AccessInv'
<1>1. ScriptInv /\ ClientInv /\ ClientTypes
  BY DEF AccessInv, ClientInv
<1>2. /\ UNCHANGED <<standing, access, oauth, task, runner, ran>> /\ standing[c] = "valid"
      /\ permitted' = [permitted EXCEPT ![c] = P] /\ P \in SUBSET Permissions
      /\ request' = Deny(request, Of(request, c)) /\ ~RefusedToClient(c, P)
      /\ \/ EnsureToolCaller(c) /\ UNCHANGED <<grant, job>>
         \/ RevokeToolGrants(c) /\ UNCHANGED caller
  BY AccessAssumption DEF EditClient
<1>3. ScriptInv'
  BY <1>1, <1>2, EnsuringToolCaller, ClientStepKeepsScripts, ScriptTypes DEF ScriptInv
<1>4. ClientInv'
  <2>1. /\ permitted' \in [Callers -> SUBSET Permissions] /\ permitted'[c] = P
        /\ \A d \in Callers : d # c => permitted'[d] = permitted[d]
    BY <1>1, <1>2 DEF ClientTypes
  <2>2. c \in oauth' /\ access'[c] = "read" => permitted'[c] = {}
    BY <1>2, <2>1 DEF RefusedToClient
  <2> QED
    BY <1>1, <1>2, <2>1, <2>2, ClosedForClient, ClosingStep DEF ClientTypes
<1> QED
  BY <1>3, <1>4 DEF AccessInv

LEMMA RevokingSteps ==
  ASSUME AccessInv, NEW c \in Callers, RevokeClient(c) \/ RevokeToken(c) \/ ClientLapses(c)
  PROVE  AccessInv'
<1>1. ScriptInv /\ ClientInv /\ ClientTypes
  BY DEF AccessInv, ClientInv
<1>2. standing \in [Callers -> {"absent", "valid", "expired", "revoked"}]
  BY <1>1, ScriptTypes DEF ScriptInv
<1>3. /\ UNCHANGED <<caller, access, permitted, oauth, task, runner, ran>>
      /\ standing' \in [Callers -> {"absent", "valid", "expired", "revoked"}]
      /\ \A d \in Callers : standing[d] # "absent" => standing'[d] # "absent"
      /\ UNCHANGED <<grant, job>> \/ RevokeToolGrants(c)
      /\ request' = request \/ request' = Deny(request, Of(request, c))
  BY <1>2 DEF RevokeClient, RevokeToken, ClientLapses, accessVars, scriptVars
<1>4. CallersStand'
  BY <1>1, <1>3 DEF ScriptInv, CallersStand
<1>5. ScriptInv'
  BY <1>1, <1>3, <1>4, ClientStepKeepsScripts, ScriptTypes DEF ScriptInv
<1>6. /\ request' \in [Requests -> RequestRows]
      /\ \A q \in Requests : request'[q] = request[q] \/ request'[q].state \notin Outstanding
  BY <1>1, <1>3, ClosedForClient DEF ClientTypes
<1>7. c \in oauth' /\ access'[c] = "read" => permitted'[c] = {}
  BY <1>1, <1>3 DEF ClientInv, ReadOnlyStaysReadOnly
<1>8. ClientInv'
  BY <1>1, <1>3, <1>6, <1>7, ClosingStep DEF ClientTypes
<1> QED
  BY <1>5, <1>8 DEF AccessInv

(* A claim: what a request that may be claimed says of its client, and     *)
(* what issuing its credential makes of that client.                       *)
LEMMA IssueStep ==
  ASSUME AccessInv, NEW r \in Requests, NEW c \in Callers, NEW renews \in BOOLEAN,
         Claims(r, c, renews), Issue(r, c, renews), request' = Consumed(r, c),
         oauth' = oauth \/ (oauth' = oauth \cup {c} /\ request[r].flow # None)
  PROVE  AccessInv'
<1>1. ScriptInv /\ ClientInv /\ ClientTypes
  BY DEF AccessInv, ClientInv
<1>2. /\ request[r] \in RequestRows /\ request[r].state \in Outstanding /\ request[r].purpose = "access"
      /\ IF renews THEN request[r].client = c /\ c # None /\ standing[c] # "absent"
                   ELSE request[r].client = None /\ standing[c] = "absent"
  BY <1>1, RowFacts DEF Claims, Claimable, ClientInv, ClientTypes, RequestsSound, Outstanding
<1>3. /\ standing' = [standing EXCEPT ![c] = "valid"] /\ UNCHANGED <<task, runner, ran>>
      /\ access' = [access EXCEPT ![c] = IF renews THEN access[c] ELSE request[r].access]
      /\ permitted' = [permitted EXCEPT ![c] = request[r].permissions]
      /\ UNCHANGED <<grant, job>> \/ RevokeToolGrants(c)
      /\ EnsureToolCaller(c) \/ UNCHANGED caller \/ caller' = [caller EXCEPT ![c] = "live"]
  BY DEF Issue
<1>4. /\ standing' \in [Callers -> {"absent", "valid", "expired", "revoked"}] /\ standing'[c] = "valid"
      /\ \A d \in Callers : standing[d] # "absent" => standing'[d] # "absent"
  BY <1>1, <1>3, ScriptTypes DEF ScriptInv
<1>5. ScriptInv'
  BY <1>1, <1>3, <1>4, EnsuringToolCaller, ClientStepKeepsScripts
<1>6. /\ access' \in [Callers -> {"read", "write"}] /\ permitted' \in [Callers -> SUBSET Permissions]
      /\ \A d \in Callers : d # c => permitted'[d] = permitted[d] /\ access'[d] = access[d]
      /\ access'[c] = (IF renews THEN access[c] ELSE request[r].access)
      /\ permitted'[c] = request[r].permissions
  BY <1>1, <1>2, <1>3 DEF ClientTypes, RequestRows
<1>7. /\ request' \in [Requests -> RequestRows]
      /\ \A q \in Requests : request'[q] = request[q] \/ request'[q].state \notin Outstanding
      /\ \A q \in Of(request, c) : ~IsOpenRenewal(q)'
  <2> DEFINE rest == Deny(request, Of(request, c) \ {r})
  <2>1. /\ rest \in [Requests -> RequestRows]
        /\ \A q \in Requests :
             /\ rest[q] = request[q] \/ rest[q].state \notin Outstanding
             /\ q \in Of(request, c) \ {r} => rest[q].state \notin Outstanding
    BY <1>1, DeniedRows DEF ClientTypes
  <2>2. Closed(rest[r], "consumed") \in RequestRows /\ Closed(rest[r], "consumed").state \notin Outstanding
    BY <2>1, RequestRowFacts DEF Outstanding
  <2>3. request' = [rest EXCEPT ![r] = Closed(rest[r], "consumed")]
    BY <2>1 DEF Consumed
  <2> HIDE DEF rest
  <2>4. /\ request' \in [Requests -> RequestRows]
        /\ \A q \in Requests : request'[q] = IF q = r THEN Closed(rest[r], "consumed") ELSE rest[q]
    BY <2>1, <2>2, <2>3
  <2>5. \A q \in Of(request, c) : q \in Requests /\ request'[q].state \notin Outstanding
    BY <2>1, <2>2, <2>4 DEF Of
  <2> QED
    BY <2>1, <2>2, <2>4, <2>5 DEF IsOpenRenewal
<1>8. ~renews => c \notin oauth
  BY <1>1, <1>2 DEF ClientTypes
<1>9. oauth' # oauth => ~renews /\ oauth' = oauth \cup {c}
  BY <1>1, <1>2 DEF ClientInv, RequestsSound
<1>10. c \in oauth' /\ access'[c] = "read" => permitted'[c] = {}
  BY <1>1, <1>2, <1>6, <1>8, <1>9 DEF ClientInv, RequestsSound
<1>11. ClientInv'
  BY <1>1, <1>2, <1>4, <1>6, <1>7, <1>9, <1>10, ClosingStep
<1> QED
  BY <1>5, <1>11 DEF AccessInv
-----------------------------------------------------------------------------
(* Every behaviour keeps the invariant.                                    *)
LEMMA AccessInit ==
  Init => AccessInv
<1> SUFFICES ASSUME Init PROVE AccessInv
  OBVIOUS
<1>1. /\ standing = [c \in Callers |-> "absent"] /\ caller = [c \in Callers |-> "absent"]
      /\ task = [live |-> TRUE, published |-> 1, latest |-> 1]
      /\ grant = [g \in Grants |-> NoGrant] /\ job = [j \in Jobs |-> NoJob]
      /\ runner = Idle /\ ran = [j \in Jobs |-> 0]
      /\ request = [r \in Requests |-> NoRequest]
      /\ access = [c \in Callers |-> "read"] /\ permitted = [c \in Callers |-> {}] /\ oauth = {}
  BY DEF Init, ScriptInit
<1>2. ScriptTypeOK
  <2>1. 1 \in Versions
    BY ScriptAssumption DEF Versions
  <2>2. task \in [live : BOOLEAN, published : Versions, latest : Versions] /\ task.published <= task.latest
    BY <1>1, <2>1
  <2>3. /\ runner \in [phase : Phases, job : 0..MaxJobs, aborted : BOOLEAN]
        /\ (runner.phase = "idle") = (runner.job = 0)
    BY <1>1, ScriptAssumption DEF Idle, Phases
  <2> QED
    BY <1>1, <2>2, <2>3, RowFacts DEF ScriptTypeOK, GrantRows, JobRows, Phases
<1>3. JobsHold /\ GrantsArePublished /\ RunnerSound /\ RunsOnce /\ CallersStand
  <2>1. "absent" \notin Open
    BY DEF Open, Active
  <2>2. JobsHold
    BY <1>1, <2>1, RowFacts DEF JobsHold, JobHolds
  <2> QED
    BY <1>1, <2>2 DEF GrantsArePublished, RunnerSound, RunsOnce, CallersStand, Idle
<1>4. ClientTypes
  BY <1>1, RequestRowFacts DEF ClientTypes
<1>5. \A r \in Requests : request[r].state \notin Outstanding
  BY <1>1, RequestRowFacts DEF Outstanding
<1>6. RenewalsAreCurrent /\ ReadOnlyStaysReadOnly /\ RequestsSound
  BY <1>1, <1>5 DEF RenewalsAreCurrent, ReadOnlyStaysReadOnly, RequestsSound, IsOpenRenewal
<1> QED
  BY <1>2, <1>3, <1>4, <1>6 DEF AccessInv, ScriptInv, ClientInv

LEMMA ClaimSteps ==
  ASSUME AccessInv, NEW r \in Requests, NEW c \in Callers, Claim(r, c) \/ Exchange(r, c)
  PROVE  AccessInv'
<1>1. PICK renews \in BOOLEAN : Claims(r, c, renews) /\ Issue(r, c, renews)
  BY DEF Claim, Exchange
<1>2. request' = Consumed(r, c) /\ (oauth' = oauth \/ (oauth' = oauth \cup {c} /\ request[r].flow # None))
  BY DEF Claim, Exchange, None
<1> QED
  BY <1>1, <1>2, IssueStep

LEMMA AccessStep ==
  AccessInv /\ [Next]_vars => AccessInv'
<1> SUFFICES ASSUME AccessInv, [Next]_vars PROVE AccessInv'
  OBVIOUS
<1> USE DEF AccessInv
<1>1. CASE UNCHANGED vars
  BY <1>1, UnchangedScripts, UnchangedClients DEF vars, KeepsScripts
<1>2. ASSUME NEW r \in Requests,
             \/ \E level \in {"read", "write"}, flow \in {None, "open"} : RequestAccess(r, level, flow)
             \/ \E c \in Callers, P \in OwnerSets : RequestPermissions(r, c, P)
             \/ ApproveAccess(r)
             \/ \E P \in OwnerSets : EditRequest(r, P)
             \/ ReturnCode(r) \/ RequestLapses(r) \/ CodeLapses(r)
      PROVE  AccessInv'
  <2>1. KeepsScripts /\ UNCHANGED standing
    BY <1>2 DEF RequestAccess, RequestPermissions, ApproveAccess, EditRequest, ReturnCode, RequestLapses,
                CodeLapses, KeepsClients
  <2> QED
    BY <1>2, <2>1, RequestSteps, UnchangedScripts
<1>3. ASSUME NEW r \in Requests, NEW c \in Callers, RequestRenewal(r, c)
      PROVE  AccessInv'
  <2>1. KeepsScripts /\ UNCHANGED standing
    BY <1>3 DEF RequestRenewal, KeepsClients
  <2> QED
    BY <1>3, <2>1, RenewalStep, UnchangedScripts
<1>4. ASSUME NEW r \in Requests, NEW c \in Callers, Claim(r, c) \/ Exchange(r, c)
      PROVE  AccessInv'
  BY <1>4, ClaimSteps
<1>5. ASSUME NEW r \in Requests, Refuse(r) \/ ApprovePermissions(r)
      PROVE  AccessInv'
  BY <1>5, RefuseStep, ApprovePermissionsStep
<1>6. ASSUME NEW c \in Callers, \/ \E P \in OwnerSets : EditClient(c, P)
                               \/ RevokeClient(c) \/ RevokeToken(c) \/ ClientLapses(c)
      PROVE  AccessInv'
  BY <1>6, EditClientStep, RevokingSteps
<1>7. ASSUME NEW c \in Callers, NEW j \in Jobs, ClientRuns(j, c)
      PROVE  AccessInv'
  <2>1. CallerRuns(j, c) /\ UNCHANGED <<standing, accessVars>>
    BY <1>7 DEF ClientRuns, CallerRuns
  <2> QED
    BY <2>1, RunRequests, UnchangedClients
<1>8. CASE ScriptNext /\ UNCHANGED accessVars
  <2>1. UNCHANGED standing
    BY <1>8 DEF ScriptNext, DesktopNext, Sweep, SaveDraft, RevokeTask, ClaimNext, Start, Abort, Poll,
                ProcessEnds, ReadBack, Complete, GiveUp, TestVersion, Publish, RevokeGrant, GrantLapses,
                GrantCaller, RevokeCaller, JobLapses, OwnerRuns
  <2> QED
    BY <1>8, <2>1, ScriptStep, UnchangedClients
<1> QED
  BY <1>1, <1>2, <1>3, <1>4, <1>5, <1>6, <1>7, <1>8 DEF Next
-----------------------------------------------------------------------------
(* Only a claim of the desktop takes a job out of the queue to run it.     *)
LEMMA OnlyClaimHandsOut ==
  ASSUME ScriptInv, [Next]_vars, NEW j \in Jobs, job[j].state = "queued", job'[j].state = "running"
  PROVE  ClaimNext
<1>1. job \in [Jobs -> JobRows]
  BY ScriptTypes DEF ScriptInv
<1>2. ASSUME NEW t, NEW callers, NEW grants
      PROVE  Cleaned(t, callers, grants)[j].state # "running"
  BY <1>1, CleanedRows DEF Ended
<1>3. SweptJobs \in [Jobs -> JobRows] /\ SweptJobs[j].state # "running"
  BY <1>1, <1>2, CleanedRows DEF SweptJobs
<1>4. UNCHANGED job => FALSE
  OBVIOUS
<1>5. ASSUME NEW i \in Jobs, \/ \E c \in Callers : CallerRuns(i, c)
                             \/ \E v \in Versions : OwnerRuns(i, v) \/ TestVersion(i, v)
      PROVE  FALSE
  <2>1. job[i].state = "absent" /\ \E b : job' = [SweptJobs EXCEPT ![i] = b]
    BY <1>5 DEF CallerRuns, OwnerRuns, TestVersion, MayRequest, IsNext
  <2> QED
    BY <1>3, <2>1
<1>6. ASSUME NEW c \in Callers, RevokeToolGrants(c)
      PROVE  FALSE
  BY <1>6, RowFacts DEF RevokeToolGrants, Ended
<1>7. ASSUME \/ Sweep \/ SaveDraft \/ RevokeTask \/ Poll \/ ReadBack
             \/ \E v \in Versions : Publish(v)
             \/ \E g \in Grants : RevokeGrant(g)
             \/ \E g \in Grants, c \in Callers : GrantCaller(g, c)
             \/ \E c \in Callers : RevokeCaller(c)
      PROVE  FALSE
  <2>1. \/ job' = Cleaned(task, SweptCallers, grant) \/ job' = Cleaned(task', SweptCallers, grant)
        \/ job' = Cleaned(task, SweptCallers, grant') \/ job' = Cleaned(task', SweptCallers, grant')
        \/ \E c \in Callers : job' = Cleaned(task, SweptCallers, Revoked(GrantsOf(c)))
    BY <1>7 DEF Sweep, SaveDraft, RevokeTask, Poll, ReadBack, Publish, RevokeGrant, GrantCaller,
               RevokeCaller, Swept, SweptJobs
  <2> QED
    BY <1>2, <2>1
<1>8. CASE Complete
  BY <1>3, <1>8 DEF Complete
<1>9. ASSUME \/ \E i \in Jobs : JobLapses(i)
             \/ \E g \in Grants : GrantLapses(g)
      PROVE  FALSE
  <2>1. \A b \in JobRows : [b EXCEPT !.late = TRUE].state = b.state
    BY DEF JobRows
  <2> QED
    BY <1>1, <1>9, <2>1 DEF JobLapses, GrantLapses
<1>10. CASE ScriptNext
  BY <1>4, <1>5, <1>7, <1>8, <1>9, <1>10
     DEF ScriptNext, DesktopNext, Start, Abort, ProcessEnds, GiveUp
<1>11. ASSUME NEW c \in Callers, NEW r \in Requests, Claim(r, c) \/ Exchange(r, c)
       PROVE  FALSE
  BY <1>4, <1>6, <1>11 DEF Claim, Exchange, Issue
<1>12. ASSUME NEW c \in Callers, \/ \E P \in OwnerSets : EditClient(c, P)
                                \/ RevokeClient(c) \/ RevokeToken(c) \/ ClientLapses(c)
                                \/ \E i \in Jobs : ClientRuns(i, c)
       PROVE  FALSE
  BY <1>4, <1>5, <1>6, <1>12 DEF EditClient, RevokeClient, RevokeToken, ClientLapses, ClientRuns, scriptVars
<1>13. ASSUME NEW r \in Requests,
              \/ \E level \in {"read", "write"}, flow \in {None, "open"} : RequestAccess(r, level, flow)
              \/ \E c \in Callers : \/ RequestRenewal(r, c)
                                    \/ \E P \in OwnerSets : RequestPermissions(r, c, P)
              \/ Refuse(r) \/ ApproveAccess(r) \/ ApprovePermissions(r)
              \/ \E P \in OwnerSets : EditRequest(r, P)
              \/ ReturnCode(r) \/ RequestLapses(r) \/ CodeLapses(r)
       PROVE  FALSE
  BY <1>4, <1>13 DEF RequestAccess, RequestRenewal, RequestPermissions, Refuse, ApproveAccess,
     ApprovePermissions, EditRequest, ReturnCode, RequestLapses, CodeLapses, KeepsScripts, scriptVars
<1> QED
  BY <1>4, <1>10, <1>11, <1>12, <1>13 DEF Next, vars, scriptVars
-----------------------------------------------------------------------------
(* The inductive invariant of host scripts and the clients that run them.  *)
THEOREM AccessInvariant == Spec => []AccessInv
BY AccessInit, AccessStep, PTL DEF Spec

(* Types hold, and only admitted clients count as signed in through OAuth. *)
THEOREM AccessTypeCorrect == Spec => []AccessTypeOK
<1>1. AccessInv => AccessTypeOK
  BY DEF AccessInv, ScriptInv, ClientInv, ClientTypes, AccessTypeOK, RequestRows
<1> QED
  BY <1>1, AccessInvariant, PTL

(* A caller's run that is queued, running or answered is of the published  *)
(* definition and under an unrevoked grant for it, for any versions (also  *)
(* of equal definitions), callers, grants and jobs (hostScripts.ts).       *)
THEOREM OnlyPublishedRunsAlways == Spec => []OnlyPublishedRuns
<1>1. AccessInv => OnlyPublishedRuns
  BY DEF AccessInv, ScriptInv, JobsHold, JobHolds, GrantsArePublished, OnlyPublishedRuns, GrantsOf
<1> QED
  BY <1>1, AccessInvariant, PTL

(* No job is started twice, whatever the desktop loses or gives up.        *)
THEOREM RunsAreNotRetried == Spec => []RunsOnce
<1>1. AccessInv => RunsOnce
  BY DEF AccessInv, ScriptInv
<1> QED
  BY <1>1, AccessInvariant, PTL

(* A client's outstanding renewal is one, and asks for what it has now.    *)
THEOREM RenewalsStayCurrent == Spec => []RenewalsAreCurrent
<1>1. AccessInv => RenewalsAreCurrent
  BY DEF AccessInv, ClientInv
<1> QED
  BY <1>1, AccessInvariant, PTL

(* Who signed in through OAuth to read never gets another permission.      *)
THEOREM ReadersStayReaders == Spec => []ReadOnlyStaysReadOnly
<1>1. AccessInv => ReadOnlyStaysReadOnly
  BY DEF AccessInv, ClientInv
<1> QED
  BY <1>1, AccessInvariant, PTL

(* The desktop is handed a caller's job only while client, caller row,     *)
(* grant and time all stand: the sweep before each claim has cancelled     *)
(* every other job, though the events that ended them had not.             *)
THEOREM HandedOutApproved == Spec => HandedOutOnlyWhileApproved
<1> DEFINE Approved ==
      \A j \in Jobs :
        job[j].state = "queued" /\ job'[j].state = "running" /\ job[j].app # Owner =>
          /\ standing[job[j].app] = "valid" /\ caller[job[j].app] = "live"
          /\ ~grant[job[j].grant].late
<1>1. AccessInv /\ [Next]_vars => [Approved]_<<job, standing, caller, grant>>
  <2> SUFFICES ASSUME AccessInv, [Next]_vars, NEW j \in Jobs,
                      job[j].state = "queued", job'[j].state = "running", job[j].app # Owner
               PROVE  /\ standing[job[j].app] = "valid" /\ caller[job[j].app] = "live"
                      /\ ~grant[job[j].grant].late
    OBVIOUS
  <2>1. ScriptInv /\ job \in [Jobs -> JobRows]
    BY ScriptTypes DEF AccessInv, ScriptInv
  <2>2. ClaimNext
    BY <2>1, OnlyClaimHandsOut
  <2>3. SweptJobs[j] = job[j] /\ job[j].state \in Open
    <3>1. SweptJobs \in [Jobs -> JobRows] /\ (SweptJobs[j] = job[j] \/ SweptJobs[j].state \in Ended)
      BY <2>1, CleanedRows DEF SweptJobs
    <3>2. PICK k \in Oldest(SweptJobs) : job' = [SweptJobs EXCEPT ![k].state = "running"]
      BY <2>2 DEF ClaimNext
    <3>3. SweptJobs[j].state \notin Ended
      BY <3>1, <3>2 DEF Oldest, Ended
    <3> QED
      BY <3>1, <3>3 DEF Open, Active
  <2>4. JobHolds(job[j], task, grant) /\ SweptCallers[job[j].app] = "live" /\ ~grant[job[j].grant].late
    BY <2>1, <2>3, CleanedSound DEF SweptJobs
  <2>5. job[j].app \in Callers
    BY <2>3, <2>4 DEF JobHolds
  <2> QED
    BY <2>1, <2>4, <2>5, SweptCallerRows
<1> QED
  BY <1>1, AccessInvariant, PTL DEF Spec, HandedOutOnlyWhileApproved

(* A revoked client keeps its standing and its permissions for ever, also  *)
(* when only its token was revoked and its requests were not closed        *)
(* (claimApproved of instanceAccess.ts).                                   *)
THEOREM RevokedClientsStayOut == Spec => RevokedStaysOut
<1> DEFINE StaysOut ==
      \A c \in Callers : standing[c] = "revoked" =>
        standing'[c] = "revoked" /\ permitted'[c] = permitted[c]
<1>1. AccessInv /\ [Next]_vars => [StaysOut]_<<standing, permitted>>
  <2> SUFFICES ASSUME AccessInv, [Next]_vars, NEW c \in Callers, standing[c] = "revoked"
               PROVE  standing'[c] = "revoked" /\ permitted'[c] = permitted[c]
    OBVIOUS
  <2>1. /\ standing \in [Callers -> {"absent", "valid", "expired", "revoked"}]
        /\ permitted \in [Callers -> SUBSET Permissions]
    BY ScriptTypes DEF AccessInv, ScriptInv, ClientInv, ClientTypes
  <2>2. CASE UNCHANGED <<standing, permitted>>
    BY <2>2
  <2>3. ASSUME NEW r \in Requests, NEW d \in Callers, Claim(r, d) \/ Exchange(r, d)
        PROVE  standing'[c] = "revoked" /\ permitted'[c] = permitted[c]
    <3>1. PICK renews \in BOOLEAN : Claims(r, d, renews) /\ Issue(r, d, renews)
      BY <2>3 DEF Claim, Exchange
    <3>2. d # c
      BY <3>1 DEF Claims
    <3> QED
      BY <2>1, <3>1, <3>2 DEF Issue
  <2>4. ASSUME NEW r \in Requests, ApprovePermissions(r)
        PROVE  standing'[c] = "revoked" /\ permitted'[c] = permitted[c]
    BY <2>1, <2>4 DEF ApprovePermissions
  <2>5. ASSUME NEW d \in Callers, \/ \E P \in OwnerSets : EditClient(d, P)
                                 \/ RevokeClient(d) \/ RevokeToken(d) \/ ClientLapses(d)
        PROVE  standing'[c] = "revoked" /\ permitted'[c] = permitted[c]
    BY <2>1, <2>5 DEF EditClient, RevokeClient, RevokeToken, ClientLapses, accessVars
  <2>6. ASSUME NEW r \in Requests,
               \/ \E level \in {"read", "write"}, flow \in {None, "open"} : RequestAccess(r, level, flow)
               \/ \E d \in Callers : \/ RequestRenewal(r, d)
                                     \/ \E P \in OwnerSets : RequestPermissions(r, d, P)
               \/ Refuse(r) \/ ApproveAccess(r)
               \/ \E P \in OwnerSets : EditRequest(r, P)
               \/ ReturnCode(r) \/ RequestLapses(r) \/ CodeLapses(r)
        PROVE  UNCHANGED <<standing, permitted>>
    BY <2>6 DEF RequestAccess, RequestRenewal, RequestPermissions, Refuse, ApproveAccess, EditRequest,
       ReturnCode, RequestLapses, CodeLapses, KeepsClients
  <2>7. ASSUME \/ \E d \in Callers, j \in Jobs : ClientRuns(j, d)
               \/ ScriptNext /\ UNCHANGED accessVars
        PROVE  UNCHANGED <<standing, permitted>>
    BY <2>7 DEF ClientRuns, CallerRuns, ScriptNext, DesktopNext, Sweep, SaveDraft, RevokeTask, ClaimNext,
       Start, Abort, Poll, ProcessEnds, ReadBack, Complete, GiveUp, TestVersion, Publish, RevokeGrant,
       GrantLapses, GrantCaller, RevokeCaller, JobLapses, OwnerRuns, accessVars
  <2> QED
    BY <2>2, <2>3, <2>4, <2>5, <2>6, <2>7 DEF Next, vars, accessVars
<1> QED
  BY <1>1, AccessInvariant, PTL DEF Spec, RevokedStaysOut
=============================================================================
