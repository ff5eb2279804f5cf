-------------------------- MODULE LiveViewProofs --------------------------
(***************************************************************************)
(* What is proved about the desktop window, for any documents, fields,     *)
(* calls in flight and bounds.  First the autosave queue by itself: types, *)
(* that no edit is lost, that a clean editor shows what is stored, and     *)
(* that a switch of environments loses nothing unless it is asked for on   *)
(* the connection screen.  Then the tabs it edits:                         *)
(* they show their own environment, keep drafts and never go back.         *)
(***************************************************************************)
EXTENDS LiveView, TLAPS

(* Where the newest edit of a field is: in the patch, or else in the       *)
(* running save, or else in the store.                                     *)
Newest ==
  \A k \in Keys, f \in Fields :
    /\ patch[k][f] # 0 => patch[k][f] = edited[k][f]
    /\ patch[k][f] = 0 /\ saving[k][f] # 0 => saving[k][f] = edited[k][f]
    /\ patch[k][f] = 0 /\ saving[k][f] = 0 => stored[k][f] = edited[k][f]

(* A save that is not running carries nothing, and one that is committed   *)
(* is in the store.                                                        *)
Carried ==
  \A k \in Keys :
    /\ call[k] = "none" => saving[k] = Empty
    /\ \A f \in Fields : call[k] = "committed" /\ saving[k][f] # 0 => stored[k][f] = saving[k][f]

DirtyMeansEntry == \A k \in Keys : IsDirty(k) <=> entry[k]

SaveInv == SaveTypeOK /\ Newest /\ Carried /\ DirtyMeansEntry

-----------------------------------------------------------------------------
(* Merging two patches gives a patch.                                      *)
LEMMA MergeIsPatch ==
  ASSUME NEW p \in Patch, NEW q \in Patch
  PROVE  /\ Merge(p, q) \in Patch /\ Empty \in Patch
         /\ \A f \in Fields : Merge(p, q)[f] = IF q[f] # 0 THEN q[f] ELSE p[f]
         /\ \A f \in Fields : Empty[f] = 0
BY SaveAssumption DEF Merge, Empty, Patch

(* Two patches with the same fields are the same.                          *)
LEMMA SamePatch ==
  ASSUME NEW p \in Patch, NEW q \in Patch, \A f \in Fields : p[f] = q[f]
  PROVE  p = q
BY DEF Patch

(* A document without an entry has its newest edits in the store.          *)
LEMMA NoEntryMeansStored ==
  ASSUME SaveInv, NEW k \in Keys, ~entry[k]
  PROVE  stored[k] = edited[k]
<1>1. patch[k] = Empty /\ call[k] = "none" /\ saving[k] = Empty
  BY DEF SaveInv, SaveTypeOK, Carried
<1>2. \A f \in Fields : stored[k][f] = edited[k][f]
  BY <1>1 DEF SaveInv, Newest, Empty
<1>3. stored[k] \in Patch /\ edited[k] \in Patch
  BY DEF SaveInv, SaveTypeOK
<1> QED
  BY <1>2, <1>3, SamePatch

-----------------------------------------------------------------------------
(* The invariant holds initially.                                          *)
LEMMA SaveInvInit == SaveInit => SaveInv
<1> SUFFICES ASSUME SaveInit PROVE SaveInv
  OBVIOUS
<1>1. Empty \in Patch /\ \A f \in Fields : Empty[f] = 0
  BY SaveAssumption DEF Empty, Patch
<1>2. SaveTypeOK
  BY <1>1, SaveAssumption DEF SaveInit, SaveTypeOK
<1>3. Newest /\ Carried /\ DirtyMeansEntry
  BY <1>1 DEF SaveInit, Newest, Carried, DirtyMeansEntry, IsDirty
<1> QED
  BY <1>2, <1>3 DEF SaveInv

(* An edit keeps the invariant: the patch carries the newest edit.         *)
LEMMA EditKeeps ==
  ASSUME SaveInv, NEW k \in Keys, NEW f \in Fields, Edit(k, f)
  PROVE  SaveInv'
<1> USE SaveAssumption DEF Edit, flushVars
<1>1. edited[k][f] + 1 \in 1..MaxEdits
  BY DEF SaveInv, SaveTypeOK, Patch
<1>2. /\ patch' \in [Keys -> Patch] /\ edited' \in [Keys -> Patch]
      /\ patch'[k] # Empty
  BY <1>1 DEF SaveInv, SaveTypeOK, Patch, Empty
<1>3. SaveTypeOK'
  BY <1>2 DEF SaveInv, SaveTypeOK, flushVars
<1>4. Newest'
  BY <1>1 DEF SaveInv, Newest, SaveTypeOK, Patch
<1>5. Carried' /\ DirtyMeansEntry'
  BY DEF SaveInv, Carried, SaveTypeOK, DirtyMeansEntry, IsDirty
<1> QED
  BY <1>3, <1>4, <1>5 DEF SaveInv

(* A timer that fires keeps the invariant.                                 *)
LEMMA TimerKeeps ==
  ASSUME SaveInv, NEW k \in Keys, TimerFires(k)
  PROVE  SaveInv'
<1> USE DEF TimerFires, FlushKeys
<1>1. SaveTypeOK'
  BY DEF SaveInv, SaveTypeOK
<1>2. Newest' /\ Carried' /\ DirtyMeansEntry'
  BY DEF SaveInv, Newest, Carried, DirtyMeansEntry, IsDirty
<1> QED
  BY <1>1, <1>2 DEF SaveInv

(* A save that begins keeps the invariant: it carries the patch.           *)
LEMMA BeginKeeps ==
  ASSUME SaveInv, NEW k \in Keys, BeginSave(k)
  PROVE  SaveInv'
<1> USE DEF BeginSave
<1>1. Empty \in Patch /\ \A f \in Fields : Empty[f] = 0
  BY SaveAssumption DEF Empty, Patch
<1>2. SaveTypeOK'
  BY <1>1 DEF SaveInv, SaveTypeOK
<1>3. Newest'
  BY <1>1 DEF SaveInv, Newest, Carried, SaveTypeOK
<1>4. Carried' /\ DirtyMeansEntry'
  BY DEF SaveInv, Carried, SaveTypeOK, DirtyMeansEntry, IsDirty
<1> QED
  BY <1>2, <1>3, <1>4 DEF SaveInv

(* The store's commit keeps the invariant.                                 *)
LEMMA CommitKeeps ==
  ASSUME SaveInv, NEW k \in Keys, StoreCommits(k)
  PROVE  SaveInv'
<1> USE DEF StoreCommits, flushVars
<1> DEFINE s == Merge(stored[k], saving[k])
<1>1. s \in Patch /\ \A f \in Fields : s[f] = IF saving[k][f] # 0 THEN saving[k][f] ELSE stored[k][f]
  BY MergeIsPatch DEF SaveInv, SaveTypeOK
<1>2. stored' = [stored EXCEPT ![k] = s]
  OBVIOUS
<1> HIDE DEF s
<1>3. SaveTypeOK'
  BY <1>1, <1>2 DEF SaveInv, SaveTypeOK
<1>4. Newest'
  BY <1>1, <1>2 DEF SaveInv, Newest, SaveTypeOK
<1>5. Carried' /\ DirtyMeansEntry'
  BY <1>1, <1>2 DEF SaveInv, Carried, SaveTypeOK, DirtyMeansEntry, IsDirty
<1> QED
  BY <1>3, <1>4, <1>5 DEF SaveInv

(* A save that succeeds keeps the invariant: what it carried is stored.    *)
LEMMA SucceedKeeps ==
  ASSUME SaveInv, NEW k \in Keys, SaveSucceeds(k)
  PROVE  SaveInv'
<1> USE DEF SaveSucceeds, NothingBehind, Settled
<1>1. Empty \in Patch /\ \A f \in Fields : Empty[f] = 0
  BY SaveAssumption DEF Empty, Patch
<1>2. SaveTypeOK'
  <2>1. /\ entry' \in [Keys -> BOOLEAN] /\ latest' \subseteq Keys
        /\ status' \in [Keys -> {"idle", "pending", "saving", "saved", "error"}]
    BY DEF SaveInv, SaveTypeOK
  <2>2. /\ call' \in [Keys -> {"none", "sent", "committed"}] /\ saving' \in [Keys -> Patch]
        /\ awaits' \in [Keys -> {"none", "queued", "running"}]
    BY <1>1 DEF SaveInv, SaveTypeOK
  <2>3. \A j \in Keys : (timer'[j] \/ queued'[j] \/ call'[j] # "none" \/ patch'[j] # Empty) => entry'[j]
    BY DEF SaveInv, SaveTypeOK
  <2>4. UNCHANGED <<patch, timer, queued, failed, signedIn, flush, edited, stored, failures>>
    OBVIOUS
  <2> HIDE DEF SaveSucceeds
  <2> QED
    BY <2>1, <2>2, <2>3, <2>4 DEF SaveInv, SaveTypeOK
<1>3. Newest'
  BY <1>1 DEF SaveInv, Newest, Carried, SaveTypeOK
<1>4. Carried'
  BY <1>1 DEF SaveInv, Carried, SaveTypeOK
<1>5. DirtyMeansEntry'
  BY DEF SaveInv, SaveTypeOK, DirtyMeansEntry, IsDirty
<1> QED
  BY <1>2, <1>3, <1>4, <1>5 DEF SaveInv

(* A save that fails keeps the invariant: its patch goes back.             *)
LEMMA RejectKeeps ==
  ASSUME SaveInv, NEW k \in Keys, SaveRejected(k), failures' \in 0..MaxFailures
  PROVE  SaveInv'
<1> USE DEF SaveRejected, Settled
<1> DEFINE p == Merge(saving[k], patch[k])
<1>1. /\ p \in Patch /\ Empty \in Patch
      /\ \A f \in Fields : p[f] = IF patch[k][f] # 0 THEN patch[k][f] ELSE saving[k][f]
      /\ \A f \in Fields : Empty[f] = 0
  BY MergeIsPatch DEF SaveInv, SaveTypeOK
<1>2. patch' = [patch EXCEPT ![k] = p]
  OBVIOUS
<1>3. entry[k]
  BY DEF SaveInv, SaveTypeOK
<1> HIDE DEF p
<1>4. SaveTypeOK'
  BY <1>1, <1>2, <1>3, SaveAssumption DEF SaveInv, SaveTypeOK
<1>5. Newest'
  BY <1>1, <1>2 DEF SaveInv, Newest, SaveTypeOK
<1>6. Carried' /\ DirtyMeansEntry'
  BY <1>1, <1>3 DEF SaveInv, Carried, SaveTypeOK, DirtyMeansEntry, IsDirty
<1> QED
  BY <1>4, <1>5, <1>6 DEF SaveInv

LEMMA FailKeeps ==
  ASSUME SaveInv, NEW k \in Keys, SaveFails(k)
  PROVE  SaveInv'
BY RejectKeeps, SaveAssumption DEF SaveFails, SaveRefused, SaveInv, SaveTypeOK

(* A round of flushAll keeps the invariant.                                *)
LEMMA RoundKeeps ==
  ASSUME SaveInv, FlushRound, flush' \in {"idle", "leaving", "waiting"}
  PROVE  SaveInv'
<1> USE DEF FlushRound, FlushKeys
<1>1. SaveTypeOK'
  BY DEF SaveInv, SaveTypeOK
<1>2. Newest' /\ Carried' /\ DirtyMeansEntry'
  BY DEF SaveInv, Newest, Carried, DirtyMeansEntry, IsDirty
<1> QED
  BY <1>1, <1>2 DEF SaveInv

(* Leaving the environment keeps the invariant, whatever was pending.      *)
LEMMA ClearKeeps ==
  ASSUME SaveInv, ClearQueue, flush' \in {"idle", flush}
  PROVE  SaveInv'
<1> USE DEF ClearQueue
<1>1. Empty \in Patch /\ \A f \in Fields : Empty[f] = 0
  BY SaveAssumption DEF Empty, Patch
<1>2. SaveTypeOK'
  BY <1>1 DEF SaveInv, SaveTypeOK
<1>3. Newest' /\ Carried' /\ DirtyMeansEntry'
  BY <1>1 DEF Newest, Carried, DirtyMeansEntry, IsDirty
<1> QED
  BY <1>2, <1>3 DEF SaveInv

LEMMA LeaveKeeps ==
  ASSUME SaveInv, LeaveEnvironment \/ LeaveSignedOut
  PROVE  SaveInv'
BY ClearKeeps DEF LeaveEnvironment, LeaveSignedOut

(* The end of a flush and of a session keep the invariant.                 *)
LEMMA SessionKeeps ==
  ASSUME SaveInv, FlushEnds \/ SignOut \/ SignIn
  PROVE  SaveInv'
<1>1. signedIn' \in BOOLEAN
  BY DEF FlushEnds, SignOut, SignIn, SaveInv, SaveTypeOK
<1>3. flush' \in {"idle", "leaving", "waiting"} /\ latest' \subseteq Keys
  BY DEF FlushEnds, SignOut, SignIn, SaveInv, SaveTypeOK
<1>4. UNCHANGED <<queueVars, status, awaits, edited, stored, failures>>
  BY DEF FlushEnds, SignOut, SignIn
<1>5. SaveTypeOK'
  BY <1>1, <1>3, <1>4 DEF queueVars, SaveInv, SaveTypeOK
<1>2. Newest' /\ Carried' /\ DirtyMeansEntry'
  BY <1>4 DEF queueVars, SaveInv, Newest, Carried, DirtyMeansEntry, IsDirty
<1> QED
  BY <1>5, <1>2 DEF SaveInv

(* Every step keeps the invariant.                                         *)
LEMMA SaveInvNext == SaveInv /\ [SaveNext]_saveVars => SaveInv'
<1> SUFFICES ASSUME SaveInv, [SaveNext]_saveVars PROVE SaveInv'
  OBVIOUS
<1>1. ASSUME NEW k \in Keys, NEW f \in Fields, Edit(k, f) PROVE SaveInv'
  BY <1>1, EditKeeps
<1>2. ASSUME NEW k \in Keys, TimerFires(k) PROVE SaveInv'
  BY <1>2, TimerKeeps
<1>3. ASSUME NEW k \in Keys, BeginSave(k) PROVE SaveInv'
  BY <1>3, BeginKeeps
<1>4. ASSUME NEW k \in Keys, StoreCommits(k) PROVE SaveInv'
  BY <1>4, CommitKeeps
<1>5. ASSUME NEW k \in Keys, SaveSucceeds(k) PROVE SaveInv'
  BY <1>5, SucceedKeeps
<1>6. ASSUME NEW k \in Keys, SaveFails(k) PROVE SaveInv'
  BY <1>6, FailKeeps
<1>7. CASE FlushAll("leaving") \/ FlushAll("waiting")
  BY <1>7, RoundKeeps DEF FlushAll
<1>8. CASE FlushAgain
  BY <1>8, RoundKeeps DEF FlushAgain, SaveInv, SaveTypeOK
<1>9. CASE FlushReturns \/ FlushThrows \/ SignOut \/ SignIn
  BY <1>9, SessionKeeps DEF FlushReturns, FlushThrows
<1>10. CASE LeaveEnvironment \/ LeaveSignedOut
  BY <1>10, LeaveKeeps
<1>11. CASE UNCHANGED saveVars
  BY <1>11 DEF saveVars, queueVars, flushVars, SaveInv, SaveTypeOK, Newest, Carried, DirtyMeansEntry, IsDirty
<1> QED
  BY <1>1, <1>2, <1>3, <1>4, <1>5, <1>6, <1>7, <1>8, <1>9, <1>10, <1>11 DEF SaveNext

(* The inductive invariant is invariant.                                   *)
THEOREM SaveInvariant == SaveSpec => []SaveInv
<1> QED
  BY SaveInvInit, SaveInvNext, PTL DEF SaveSpec

-----------------------------------------------------------------------------
(* Type correctness, and whatever is pending has an entry.                 *)
THEOREM SaveTypeCorrect == SaveSpec => []SaveTypeOK
<1>1. SaveInv => SaveTypeOK
  BY DEF SaveInv
<1> QED
  BY <1>1, SaveInvariant, PTL

(* No edit is lost, whatever saves fail and however they interleave.       *)
THEOREM EditsKept == SaveSpec => []NoEditLost
<1>1. SaveInv => NoEditLost
  BY DEF SaveInv, Newest, NoEditLost
<1> QED
  BY <1>1, SaveInvariant, PTL

(* A document is shown as saved only once its newest edits are stored.     *)
THEOREM CleanIsStored == SaveSpec => []CleanMeansStored
<1>1. SaveInv => CleanMeansStored
  BY NoEntryMeansStored DEF SaveInv, DirtyMeansEntry, CleanMeansStored
<1> QED
  BY <1>1, SaveInvariant, PTL

(* A switch made while signed in, or asked for while signed in, loses no   *)
(* edit (switchEnvironment); one asked for on the connection screen may.   *)
THEOREM LeavingIsSafe == SaveSpec => LeavingLosesNothing
<1> DEFINE Kept == \A k \in Keys : edited[k] # Empty /\ edited'[k] = Empty /\ (signedIn \/ flush' # flush)
                                    => stored[k] = edited[k]
<1>1. SaveInv /\ [SaveNext]_saveVars => [Kept]_saveVars
  <2> SUFFICES ASSUME SaveInv, SaveNext, NEW k \in Keys, edited[k] # Empty, edited'[k] = Empty,
                      signedIn \/ flush' # flush
               PROVE  stored[k] = edited[k]
    OBVIOUS
  <2>1. ASSUME NEW j \in Keys, NEW f \in Fields, Edit(j, f) PROVE edited'[k] = edited[k] \/ edited'[k][f] # 0
    <3>1. edited[j][f] \in Nat /\ edited \in [Keys -> Patch]
      BY SaveAssumption DEF SaveInv, SaveTypeOK, Patch
    <3>2. edited'[j][f] = edited[j][f] + 1
      BY <2>1, <3>1 DEF Edit, Patch
    <3>3. k # j => edited'[k] = edited[k]
      BY <2>1, <3>1 DEF Edit
    <3> QED
      BY <3>1, <3>2, <3>3
  <2>2. \A f \in Fields : Empty[f] = 0
    BY DEF Empty
  <2>3. ~(\E j \in Keys, f \in Fields : Edit(j, f))
    BY <2>1, <2>2
  <2>4. CASE LeaveEnvironment
    BY <2>4, NoEntryMeansStored DEF LeaveEnvironment, Drained
  <2>5. ~LeaveSignedOut
    BY DEF LeaveSignedOut
  <2>6. CASE ~LeaveEnvironment
    <3>1. edited' = edited
      BY <2>3, <2>5, <2>6 DEF SaveNext, TimerFires, BeginSave, StoreCommits, SaveSucceeds, SaveFails, SaveRefused,
                        SaveRejected, FlushAll, FlushAgain, FlushRound, FlushReturns, FlushThrows, FlushEnds,
                        SignOut, SignIn
    <3> QED
      BY <3>1
  <2> QED
    BY <2>4, <2>6
<1> QED
  BY <1>1, SaveInvariant, PTL DEF SaveSpec, LeavingLosesNothing

-----------------------------------------------------------------------------
(* The window.  The queue's invariant holds in it as well; the store's     *)
(* versions bound what tabs show and what calls bring.                     *)
StorePart ==
  /\ clock \in Nat \ {0} /\ version \in [Keys -> 1..clock] /\ alive \subseteq Keys
  /\ generation \in Nat

TabPart ==
  /\ shown \in [Keys -> 0..clock] /\ origin \in [Keys -> Nat]
  /\ \A k \in Keys : shown[k] <= version[k] /\ (shown[k] # 0 => origin[k] = generation)

\* The answer of a save is no older than what its tab shows, as long as it is under way.
SavePart ==
  /\ readBack \in [Keys -> Nat]
  /\ \A k \in Keys : readBack[k] # 0 =>
       call[k] = "committed" /\ shown[k] <= readBack[k] /\ readBack[k] <= version[k]

\* A call of generation g, or of an earlier one, in a store with the versions v.
CallSound(c, g, v) ==
  c.is => /\ c.key \in Keys /\ c.generation <= g
          /\ c.generation = g /\ c.result \notin {Unread, Missing} => c.result <= v[c.key]

CallPart == fetch \in [Slots -> Calls] /\ \A s \in Slots : CallSound(fetch[s], generation, version)

LoopPart ==
  /\ cursor \in 1..clock \cup {Undefined, Unwatched}
  /\ gone \subseteq Keys /\ deferred \subseteq Keys /\ pending \in [is : BOOLEAN, gone : SUBSET Keys]
  /\ railFetch \in Calls /\ armed \in BOOLEAN
  /\ loop \in {"idle", "prelude", "refreshing"} /\ ~(armed /\ loop # "idle")

RoundsPart == (railFetch.by = "round" \/ \E s \in Slots : fetch[s].by = "round") => loop = "refreshing"

\* While another environment is entered no tab is open, nothing is saved,
\* and all calls in flight are of the environments left.
WindowPart ==
  /\ window \in {"open", "leaving", "entered"}
  /\ window # "open" => /\ \A k \in Keys : shown[k] = 0 /\ ~entry[k]
                        /\ \A s \in Slots : fetch[s].is => fetch[s].generation < generation

ViewInv ==
  /\ SaveInv /\ StorePart /\ TabPart /\ SavePart /\ CallPart
  /\ LoopPart /\ RoundsPart /\ WindowPart

-----------------------------------------------------------------------------
(* Calls.                                                                  *)
LEMMA CallsAre ==
  ASSUME generation \in Nat, NEW k \in Keys \cup {{}}, NEW by \in {"round", "alone"}
  PROVE  /\ Call(k, by) \in Calls /\ Call(k, by).by = by /\ Call(k, by).result = Unread
         /\ Call(k, by).key = k /\ Call(k, by).generation = generation
         /\ NoFetch \in Calls /\ NoFetch.by = "alone" /\ ~NoFetch.is
BY DEF Call, NoFetch, Calls

LEMMA AbandonedIs ==
  ASSUME NEW c \in Calls, NEW g, NEW v, CallSound(c, g, v)
  PROVE  Abandoned(c) \in Calls /\ Abandoned(c).by # "round" /\ CallSound(Abandoned(c), g, v)
<1>1. CASE c.by = "round"
  <2> DEFINE a == [c EXCEPT !.by = "abandoned"]
  <2>1. Abandoned(c) = a
    BY <1>1 DEF Abandoned
  <2>2. a \in Calls /\ a.by = "abandoned"
    BY DEF Calls
  <2>3. a.is = c.is /\ a.key = c.key /\ a.generation = c.generation /\ a.result = c.result
    BY DEF Calls
  <2> HIDE DEF a
  <2> QED
    BY <2>1, <2>2, <2>3 DEF CallSound
<1>2. CASE c.by # "round"
  BY <1>2 DEF Abandoned
<1> QED
  BY <1>1, <1>2

\* A call stays sound while the store's versions grow, or another environment is selected.
LEMMA SoundLater ==
  ASSUME NEW c \in Calls, NEW g \in Nat, NEW v, NEW v2, CallSound(c, g, v), NEW g2 \in {g, g + 1},
         v \in [Keys -> Nat], v2 \in [Keys -> Nat],
         g2 = g => \A k \in Keys : v[k] <= v2[k]
  PROVE  CallSound(c, g2, v2)
<1>1. c.generation \in Nat /\ c.result \in Nat \cup {Unread, Missing}
  BY DEF Calls
<1> QED
  BY <1>1 DEF CallSound

LEMMA StartedFetches ==
  ASSUME StorePart, CallPart, NEW K \in SUBSET Keys, NEW by \in {"round", "alone"}, StartFetches(K, by)
  PROVE  /\ fetch' \in [Slots -> Calls]
         /\ \A s \in Slots : CallSound(fetch'[s], generation, version)
         /\ \A s \in Slots : fetch'[s].by = "round" => fetch[s].by = "round" \/ by = "round"
<1>1. ASSUME NEW s \in Slots
      PROVE  fetch'[s] = fetch[s] \/ \E k \in K : fetch'[s] = Call(k, by)
  BY DEF StartFetches, CallPart
<1>2. \A k \in K : Call(k, by) \in Calls /\ Call(k, by).by = by /\ CallSound(Call(k, by), generation, version)
  BY CallsAre DEF StorePart, CallSound
<1>3. \A s \in Slots : fetch'[s] \in Calls
  BY <1>1, <1>2 DEF CallPart
<1>4. fetch' = [s \in Slots |-> fetch'[s]]
  BY DEF StartFetches
<1>5. fetch' \in [Slots -> Calls]
  BY <1>3, <1>4
<1> QED
  BY <1>1, <1>2, <1>5 DEF CallPart

LEMMA StartedRail ==
  ASSUME StorePart, LoopPart, NEW by \in {"round", "alone"}, StartRail(by)
  PROVE  railFetch' \in Calls /\ (railFetch'.by = "round" => railFetch.by = "round" \/ by = "round")
BY CallsAre DEF StorePart, LoopPart, StartRail

-----------------------------------------------------------------------------
(* The queue's steps in the window, where the save of a deleted document   *)
(* is rejected whatever failures are left.                                 *)
LEMMA SaveErrsIs ==
  ASSUME SaveInv, NEW k \in Keys, SaveErrs(k)
  PROVE  SaveRejected(k) /\ failures' \in 0..MaxFailures
BY SaveAssumption DEF SaveErrs, SaveFails, SaveRefused, SaveInv, SaveTypeOK

LEMMA WindowKeepsQueue == SaveInv /\ [Next]_vars => SaveInv'
<1> SUFFICES ASSUME SaveInv, [Next]_vars PROVE SaveInv'
  OBVIOUS
<1>1. ASSUME NEW k \in Keys, NEW f \in Fields, EditOpen(k, f) PROVE SaveInv'
  BY <1>1, EditKeeps DEF EditOpen
<1>2. ASSUME NEW k \in Keys, QueueSteps(k) PROVE SaveInv'
  BY <1>2, TimerKeeps, BeginKeeps DEF QueueSteps
<1>3. ASSUME NEW k \in Keys, SaveCommits(k) PROVE SaveInv'
  BY <1>3, CommitKeeps DEF SaveCommits
<1>4. ASSUME NEW k \in Keys, SaveAnswered(k) PROVE SaveInv'
  BY <1>4, SucceedKeeps DEF SaveAnswered
<1>5. ASSUME NEW k \in Keys, SaveErrs(k) PROVE SaveInv'
  BY <1>5, SaveErrsIs, RejectKeeps
<1>6. CASE SwitchEnvironment \/ SessionLost \/ Connected
  BY <1>6, LeaveKeeps, SessionKeeps DEF SwitchEnvironment, SessionLost, Connected
<1>7. ASSUME UNCHANGED saveVars PROVE SaveInv'
  <2>1. [SaveNext]_saveVars
    BY <1>7
  <2> QED
    BY <2>1, SaveInvNext
<1>8. ASSUME NEW k \in Keys, ExternalWrite(k) \/ ReadSaved(k) PROVE UNCHANGED saveVars
  BY <1>8 DEF ExternalWrite, ReadSaved
<1>9. ASSUME NEW s \in Slots, ReadDocument(s) \/ Fetched(s) \/ FetchFails(s) PROVE UNCHANGED saveVars
  BY <1>9 DEF ReadDocument, Fetched, FetchFails
<1>10. CASE ChangeEvent \/ WatchLost \/ QueueTimer \/ Refresh \/ RefreshStale \/ RefreshFails \/ RefreshEnds
             \/ ReadRail \/ RailAnswers \/ EnvironmentAnswers \/ WatchAgain \/ UNCHANGED vars
  <2>1. UNCHANGED saveVars
    BY <1>10 DEF ChangeEvent, WatchLost, QueueTimer, Refresh, RefreshStale, RefreshFails, RefreshEnds,
                 ReadRail, RailAnswers, EnvironmentAnswers, WatchAgain, vars
  <2> QED
    BY <1>7, <2>1
<1> QED
  BY <1>1, <1>2, <1>3, <1>4, <1>5, <1>6, <1>7, <1>8, <1>9, <1>10 DEF Next

\* In the window a document whose save runs is dirty.
LEMMA RunningIsDirty ==
  ASSUME SaveInv, NEW k \in Keys, call[k] # "none" PROVE IsDirty(k) /\ entry[k]
BY DEF SaveInv, SaveTypeOK, DirtyMeansEntry

-----------------------------------------------------------------------------
(* What a step may do to the store: nothing, a write, or another store.    *)
Written(k) ==
  /\ clock' = clock + 1 /\ version' = [version EXCEPT ![k] = clock + 1]
  /\ alive' \subseteq alive /\ generation' = generation

StoreStep ==
  \/ UNCHANGED <<clock, version, alive, generation>>
  \/ \E k \in Keys : Written(k)
  \/ SwitchEnvironment \/ EnvironmentAnswers

LEMMA StepOfStore == [Next]_vars => StoreStep
<1> SUFFICES ASSUME [Next]_vars PROVE StoreStep
  OBVIOUS
<1>1. ASSUME NEW k \in Keys, ExternalWrite(k) \/ SaveCommits(k) PROVE Written(k)
  BY <1>1 DEF ExternalWrite, SaveCommits, Written, windowState
<1>2. ASSUME NEW k \in Keys, \/ ReadSaved(k) \/ SaveAnswered(k) \/ SaveErrs(k) \/ QueueSteps(k)
                             \/ \E f \in Fields : EditOpen(k, f)
      PROVE  UNCHANGED <<clock, version, alive, generation>>
  BY <1>2 DEF ReadSaved, SaveAnswered, SaveErrs, QueueSteps, EditOpen, storeState, windowState, viewVars
<1>3. ASSUME NEW s \in Slots, ReadDocument(s) \/ Fetched(s) \/ FetchFails(s)
      PROVE  UNCHANGED <<clock, version, alive, generation>>
  BY <1>3 DEF ReadDocument, Fetched, FetchFails, storeState, windowState
<1>4. ASSUME \/ ChangeEvent \/ WatchLost \/ QueueTimer \/ Refresh \/ RefreshStale \/ RefreshFails \/ RefreshEnds
             \/ ReadRail \/ RailAnswers \/ SessionLost \/ Connected \/ WatchAgain \/ UNCHANGED vars
      PROVE  UNCHANGED <<clock, version, alive, generation>>
  BY <1>4 DEF ChangeEvent, WatchLost, QueueTimer, Refresh, RefreshStale, RefreshFails, RefreshEnds,
              ReadRail, RailAnswers, SessionLost, Connected, WatchAgain, storeState, windowState, viewVars, vars
<1> QED
  BY <1>1, <1>2, <1>3, <1>4 DEF Next, StoreStep

LEMMA StoreKeeps ==
  ASSUME StorePart, StoreStep
  PROVE  /\ StorePart' /\ (SwitchEnvironment => generation' = generation + 1)
         /\ generation' \in {generation, generation + 1}
         /\ generation' = generation /\ ~EnvironmentAnswers
              => clock <= clock' /\ \A k \in Keys : version[k] <= version'[k]
<1>1. CASE UNCHANGED <<clock, version, alive, generation>> /\ ~SwitchEnvironment
  BY <1>1 DEF StorePart
<1>2. ASSUME NEW k \in Keys, Written(k), ~SwitchEnvironment
      PROVE  /\ StorePart' /\ generation' = generation
             /\ clock <= clock' /\ \A j \in Keys : version[j] <= version'[j]
  <2>1. clock \in Nat \ {0} /\ version \in [Keys -> 1..clock] /\ generation' = generation
        /\ clock' = clock + 1 /\ version' = [version EXCEPT ![k] = clock + 1]
    BY <1>2 DEF StorePart, Written
  <2>2. \A j \in Keys : version'[j] = IF j = k THEN clock + 1 ELSE version[j]
    BY <2>1
  <2>3. \A j \in Keys : version[j] \in 1..clock /\ version'[j] \in 1..clock' /\ version[j] <= version'[j]
    BY <2>1, <2>2
  <2>4. version' = [j \in Keys |-> version'[j]]
    BY <2>1
  <2>5. version' \in [Keys -> 1..clock']
    BY <2>3, <2>4
  <2> QED
    BY <1>2, <2>1, <2>3, <2>5 DEF StorePart, Written
<1>3. CASE SwitchEnvironment
  <2>1. ~EnvironmentAnswers \/ generation' # generation
    BY <1>3 DEF SwitchEnvironment, StorePart
  <2> QED
    BY <1>3, <2>1 DEF SwitchEnvironment, storeState, StorePart
<1>4. CASE EnvironmentAnswers /\ ~SwitchEnvironment
  BY <1>4 DEF EnvironmentAnswers, StorePart
<1> QED
  BY <1>1, <1>2, <1>3, <1>4 DEF StoreStep

-----------------------------------------------------------------------------
(* What a step may do to the tabs: nothing, a refresh, the answer of a     *)
(* call or of a save, or the tabs of an environment left or entered.       *)
TabStep ==
  \/ UNCHANGED <<shown, origin>>
  \/ Refresh \/ SwitchEnvironment \/ Connected
  \/ \E s \in Slots : Fetched(s)
  \/ \E k \in Keys : SaveAnswered(k)

LEMMA StepOfTabs == [Next]_vars => TabStep
<1> SUFFICES ASSUME [Next]_vars PROVE TabStep
  OBVIOUS
<1>1. ASSUME NEW k \in Keys, \/ ExternalWrite(k) \/ SaveCommits(k) \/ ReadSaved(k) \/ SaveErrs(k) \/ QueueSteps(k)
                             \/ \E f \in Fields : EditOpen(k, f)
      PROVE  UNCHANGED <<shown, origin>>
  BY <1>1 DEF ExternalWrite, SaveCommits, ReadSaved, SaveErrs, QueueSteps, EditOpen, tabState, viewVars
<1>2. ASSUME NEW s \in Slots, ReadDocument(s) \/ FetchFails(s)
      PROVE  UNCHANGED <<shown, origin>>
  BY <1>2 DEF ReadDocument, FetchFails, tabState
<1>3. ASSUME \/ ChangeEvent \/ WatchLost \/ QueueTimer \/ RefreshStale \/ RefreshFails \/ RefreshEnds
             \/ ReadRail \/ RailAnswers \/ EnvironmentAnswers \/ SessionLost \/ WatchAgain \/ UNCHANGED vars
      PROVE  UNCHANGED <<shown, origin>>
  BY <1>3 DEF ChangeEvent, WatchLost, QueueTimer, RefreshStale, RefreshFails, RefreshEnds,
              ReadRail, RailAnswers, EnvironmentAnswers, SessionLost, WatchAgain, tabState, viewVars, vars
<1> QED
  BY <1>1, <1>2, <1>3 DEF Next, TabStep

(* What a tab shows after a step: what it showed, nothing if it had no     *)
(* draft, something newer if it had none, the answer of its save, after    *)
(* which it has none, or what is read for it in the environment entered.   *)
TabChange(k) ==
  \/ shown'[k] = shown[k] /\ origin'[k] = origin[k]
  \/ shown'[k] = 0 /\ origin'[k] = origin[k] /\ ~IsDirty(k)
  \/ /\ ~IsDirty(k) /\ shown[k] # 0 /\ shown'[k] \in shown[k]..version[k] /\ origin'[k] = generation
  \/ /\ readBack[k] # 0 /\ ~IsDirty(k)' /\ shown'[k] = readBack[k] /\ origin'[k] = generation
  \/ /\ ~IsDirty(k) /\ shown[k] = 0 /\ shown'[k] \in {0, version[k]} /\ origin'[k] = generation
  \/ SwitchEnvironment

LEMMA TabsChange ==
  ASSUME ViewInv, [Next]_vars
  PROVE  /\ shown' = [d \in Keys |-> shown'[d]] /\ origin' = [d \in Keys |-> origin'[d]] /\ \A k \in Keys : TabChange(k)
         /\ UNCHANGED <<shown, origin>> \/ SwitchEnvironment \/ UNCHANGED <<clock, version, alive, generation>>
<1>0. shown \in [Keys -> Nat] /\ origin \in [Keys -> Nat]
  BY DEF ViewInv, TabPart, StorePart
<1>1. CASE UNCHANGED <<shown, origin>>
  BY <1>0, <1>1 DEF TabChange
<1>2. CASE SwitchEnvironment
  <2>1. shown' = [d \in Keys |-> 0] /\ origin' = origin
    BY <1>2 DEF SwitchEnvironment
  <2> QED
    BY <1>0, <1>2, <2>1 DEF TabChange
<1>3. CASE Refresh
  BY <1>0, <1>3 DEF TabChange, Refresh, storeState, windowState
<1>4. ASSUME NEW s \in Slots, Fetched(s)
      PROVE  /\ shown' = [d \in Keys |-> shown'[d]] /\ origin' = [d \in Keys |-> origin'[d]] /\ \A d \in Keys : TabChange(d)
             /\ UNCHANGED <<clock, version, alive, generation>>
  <2> DEFINE k == fetch[s].key
             n == fetch[s].result
  <2>1. UNCHANGED <<clock, version, alive, generation>>
    BY <1>4 DEF Fetched, storeState, windowState
  <2>2. /\ k \in Keys /\ n \in Nat /\ shown[k] \in Nat /\ version[k] \in Nat
        /\ fetch[s].generation = generation => n <= version[k]
    BY <1>4 DEF Fetched, ViewInv, CallPart, CallSound, TabPart, StorePart, Calls
  <2>3. CASE ~Applies(s)
    BY <1>0, <1>4, <2>1, <2>3 DEF Fetched, TabChange
  <2>4. CASE Applies(s)
    <3>1. /\ shown' = [shown EXCEPT ![k] = n] /\ origin' = [origin EXCEPT ![k] = generation]
          /\ ~IsDirty(k) /\ shown[k] # 0 /\ n >= shown[k] /\ n <= version[k]
      BY <1>4, <2>2, <2>4 DEF Fetched, Applies
    <3>2. n \in shown[k]..version[k]
      BY <2>2, <3>1
    <3> HIDE DEF k, n
    <3> QED
      BY <1>0, <2>1, <2>2, <3>1, <3>2 DEF TabChange
  <2> QED
    BY <2>3, <2>4
<1>5. ASSUME NEW k \in Keys, SaveAnswered(k)
      PROVE  /\ shown' = [d \in Keys |-> shown'[d]] /\ origin' = [d \in Keys |-> origin'[d]] /\ \A j \in Keys : TabChange(j)
             /\ UNCHANGED <<clock, version, alive, generation>>
  <2>1. UNCHANGED <<clock, version, alive, generation>> /\ readBack[k] # 0 /\ SaveSucceeds(k)
    BY <1>5 DEF SaveAnswered, storeState, windowState
  <2>2. CASE UNCHANGED <<shown, origin>>
    BY <1>0, <2>1, <2>2 DEF TabChange
  <2>3. ASSUME NothingBehind(k), shown' = [shown EXCEPT ![k] = readBack[k]],
               origin' = [origin EXCEPT ![k] = generation]
        PROVE  /\ shown' = [d \in Keys |-> shown'[d]] /\ origin' = [d \in Keys |-> origin'[d]] /\ \A j \in Keys : TabChange(j)
    <3>1. status' = [status EXCEPT ![k] = "saved"] /\ DOMAIN status = Keys
      BY <2>1, <2>3 DEF SaveSucceeds, ViewInv, SaveInv, SaveTypeOK
    <3>2. ~IsDirty(k)'
      BY <3>1 DEF IsDirty
    <3> QED
      BY <1>0, <2>1, <2>3, <3>2 DEF TabChange
  <2> QED
    BY <1>5, <2>1, <2>2, <2>3 DEF SaveAnswered, tabState
<1>6. CASE Connected
  <2>1. UNCHANGED <<clock, version, alive, generation, status>>
    BY <1>6 DEF Connected, SignIn, storeState, windowState
  <2>2. CASE UNCHANGED <<shown, origin>>
    BY <1>1, <2>2
  <2>3. ASSUME LoadWorkspace, window = "entered" PROVE \A k \in Keys : TabChange(k)
    <3>1. \A k \in Keys : shown[k] = 0 /\ ~IsDirty(k)
      BY <2>3 DEF ViewInv, WindowPart, SaveInv, DirtyMeansEntry
    <3>2. \A k \in Keys : shown'[k] \in {0, version[k]} /\ origin'[k] = generation
      BY <2>3 DEF LoadWorkspace
    <3> QED
      BY <3>1, <3>2 DEF TabChange
  <2> QED
    BY <1>6, <2>1, <2>2, <2>3 DEF Connected, LoadWorkspace
<1> QED
  BY <1>1, <1>2, <1>3, <1>4, <1>5, <1>6, StepOfTabs DEF TabStep

LEMMA TabsKeep ==
  ASSUME ViewInv, [Next]_vars
  PROVE  TabPart'
<1>0. StorePart /\ TabPart /\ SavePart /\ WindowPart /\ StoreStep
  BY StepOfStore DEF ViewInv
<1>1. StorePart' /\ (generation' = generation /\ ~EnvironmentAnswers => \A k \in Keys : version[k] <= version'[k])
  BY <1>0, StoreKeeps
<1>2. CASE SwitchEnvironment
  BY <1>0, <1>2 DEF SwitchEnvironment, storeState, TabPart, StorePart
<1>4. CASE EnvironmentAnswers /\ ~SwitchEnvironment
  <2>1. UNCHANGED <<shown, origin, generation>> /\ \A k \in Keys : shown[k] = 0
    BY <1>0, <1>4 DEF EnvironmentAnswers, tabState, WindowPart
  <2>2. clock' = 1 /\ version' = [k \in Keys |-> 1]
    BY <1>4 DEF EnvironmentAnswers
  <2> QED
    BY <1>0, <2>1, <2>2 DEF TabPart
<1>3. CASE ~SwitchEnvironment /\ ~EnvironmentAnswers
  <2>1. generation' = generation
    BY <1>0, <1>3 DEF StoreStep, Written
  <2>2. ASSUME NEW k \in Keys
        PROVE  /\ shown'[k] \in 0..clock' /\ origin'[k] \in Nat
               /\ shown'[k] <= version'[k] /\ (shown'[k] # 0 => origin'[k] = generation')
    <3>1. /\ version[k] \in Nat /\ version'[k] \in 1..clock' /\ version[k] <= version'[k] /\ clock' \in Nat
          /\ shown[k] \in Nat /\ shown[k] <= version[k] /\ origin[k] \in Nat /\ generation \in Nat
          /\ shown[k] # 0 => origin[k] = generation
          /\ readBack[k] \in Nat /\ (readBack[k] # 0 => readBack[k] <= version[k])
      BY <1>0, <1>1, <1>3, <2>1 DEF StorePart, TabPart, SavePart
    <3>2. TabChange(k)
      BY TabsChange
    <3>3. shown'[k] \in Nat /\ origin'[k] \in Nat /\ shown'[k] <= version[k] /\ (shown'[k] # 0 => origin'[k] = generation)
      BY <1>3, <3>1, <3>2 DEF TabChange
    <3> QED
      BY <2>1, <3>1, <3>3
  <2>3. shown' = [d \in Keys |-> shown'[d]] /\ origin' = [d \in Keys |-> origin'[d]]
    BY TabsChange
  <2> QED
    BY <2>2, <2>3 DEF TabPart
<1> QED
  BY <1>2, <1>3, <1>4

-----------------------------------------------------------------------------
(* Saves and their answers.                                                *)
SaveChange(k) ==
  \/ readBack'[k] = 0
  \/ readBack'[k] = readBack[k] /\ call'[k] = call[k]
  \/ call'[k] = "committed" /\ readBack'[k] = version[k] /\ UNCHANGED <<shown, version>>

LEMMA SavesChange ==
  ASSUME ViewInv, [Next]_vars
  PROVE  readBack' = [d \in Keys |-> readBack'[d]] /\ \A k \in Keys : SaveChange(k)
<1>0. /\ readBack \in [Keys -> Nat] /\ DOMAIN readBack = Keys /\ DOMAIN call = Keys
      /\ \A k \in Keys : readBack[k] # 0 => call[k] = "committed"
  BY DEF ViewInv, SavePart, SaveInv, SaveTypeOK
<1>1. ASSUME NEW j \in Keys, QueueSteps(j) \/ SaveCommits(j)
      PROVE  readBack' = [d \in Keys |-> readBack'[d]] /\ \A k \in Keys : SaveChange(k)
  <2>1. readBack' = readBack /\ (call' = call \/ (call[j] # "committed" /\ \E x : call' = [call EXCEPT ![j] = x]))
    BY <1>1 DEF QueueSteps, TimerFires, BeginSave, SaveCommits, StoreCommits, viewVars
  <2> QED
    BY <1>0, <2>1 DEF SaveChange
<1>2. ASSUME NEW j \in Keys, SaveAnswered(j) \/ SaveErrs(j)
      PROVE  readBack' = [d \in Keys |-> readBack'[d]] /\ \A k \in Keys : SaveChange(k)
  <2>1. readBack' = [readBack EXCEPT ![j] = 0] /\ call' = [call EXCEPT ![j] = "none"]
    BY <1>2 DEF SaveAnswered, SaveErrs, SaveSucceeds, SaveFails, SaveRefused, SaveRejected
  <2> QED
    BY <1>0, <2>1 DEF SaveChange
<1>3. ASSUME NEW j \in Keys, ReadSaved(j)
      PROVE  readBack' = [d \in Keys |-> readBack'[d]] /\ \A k \in Keys : SaveChange(k)
  <2>1. /\ readBack' = [readBack EXCEPT ![j] = version[j]] /\ call[j] = "committed"
        /\ UNCHANGED <<call, shown, version>>
    BY <1>3 DEF ReadSaved, saveVars, queueVars, storeState, tabState
  <2> QED
    BY <1>0, <2>1 DEF SaveChange
<1>4. CASE SwitchEnvironment
  BY <1>4 DEF SwitchEnvironment, SaveChange
<1>5. ASSUME UNCHANGED <<readBack, call>>
      PROVE  readBack' = [d \in Keys |-> readBack'[d]] /\ \A k \in Keys : SaveChange(k)
  BY <1>0, <1>5 DEF SaveChange
<1>6. ASSUME NEW j \in Keys, ExternalWrite(j) \/ \E f \in Fields : EditOpen(j, f) PROVE UNCHANGED <<readBack, call>>
  BY <1>6 DEF ExternalWrite, EditOpen, Edit, saveVars, queueVars, viewVars
<1>7. ASSUME NEW s \in Slots, ReadDocument(s) \/ Fetched(s) \/ FetchFails(s) PROVE UNCHANGED <<readBack, call>>
  BY <1>7 DEF ReadDocument, Fetched, FetchFails, saveVars, queueVars
<1>8. ASSUME \/ ChangeEvent \/ WatchLost \/ QueueTimer \/ Refresh \/ RefreshStale \/ RefreshFails \/ RefreshEnds
             \/ ReadRail \/ RailAnswers \/ EnvironmentAnswers \/ SessionLost \/ Connected \/ WatchAgain \/ UNCHANGED vars
      PROVE  UNCHANGED <<readBack, call>>
  BY <1>8 DEF ChangeEvent, WatchLost, QueueTimer, Refresh, RefreshStale, RefreshFails, RefreshEnds,
              ReadRail, RailAnswers, EnvironmentAnswers, SessionLost, Connected, WatchAgain,
              SignOut, SignIn, saveVars, queueVars, viewVars, vars
<1> QED
  BY <1>1, <1>2, <1>3, <1>4, <1>5, <1>6, <1>7, <1>8 DEF Next

LEMMA SavesKeep ==
  ASSUME ViewInv, [Next]_vars, SaveInv'
  PROVE  SavePart'
<1>0. StorePart /\ TabPart /\ SavePart /\ StoreStep /\ SaveInv /\ WindowPart
  BY StepOfStore DEF ViewInv
<1>1. StorePart' /\ (generation' = generation /\ ~EnvironmentAnswers => \A k \in Keys : version[k] <= version'[k])
  BY <1>0, StoreKeeps
<1>2. ASSUME NEW k \in Keys
      PROVE  /\ readBack'[k] \in Nat
             /\ readBack'[k] # 0 =>
                  call'[k] = "committed" /\ shown'[k] <= readBack'[k] /\ readBack'[k] <= version'[k]
  <2>0. /\ version[k] \in Nat /\ version'[k] \in Nat /\ shown[k] \in Nat /\ shown[k] <= version[k]
        /\ readBack[k] \in Nat
        /\ readBack[k] # 0 => call[k] = "committed" /\ shown[k] <= readBack[k] /\ readBack[k] <= version[k]
    BY <1>0, <1>1 DEF StorePart, TabPart, SavePart
  <2>1. CASE readBack'[k] = 0
    BY <2>1
  <2>2. CASE call'[k] = "committed" /\ readBack'[k] = version[k] /\ UNCHANGED <<shown, version>>
    BY <2>0, <2>2
  <2>3. CASE readBack'[k] = readBack[k] /\ call'[k] = call[k] /\ readBack[k] # 0
    <3>1. call[k] = "committed" /\ IsDirty(k)
      BY <1>0, <2>0, <2>3, RunningIsDirty
    <3>2. IsDirty(k)'
      BY <2>3, <3>1 DEF SaveInv, SaveTypeOK, DirtyMeansEntry
    <3>3. ~SwitchEnvironment /\ ~EnvironmentAnswers
      BY <1>0, <2>3, <3>1, RunningIsDirty DEF SwitchEnvironment, EnvironmentAnswers, WindowPart
    <3>4. version[k] <= version'[k]
      BY <1>0, <1>1, <3>3 DEF StoreStep, Written
    <3>5. shown'[k] = shown[k] \/ shown'[k] = 0
      BY <3>1, <3>2, <3>3, TabsChange DEF TabChange
    <3> QED
      BY <2>0, <2>3, <3>1, <3>4, <3>5
  <2> QED
    BY <2>1, <2>2, <2>3, SavesChange DEF SaveChange
<1>3. readBack' = [d \in Keys |-> readBack'[d]]
  BY SavesChange
<1> QED
  BY <1>2, <1>3 DEF SavePart

-----------------------------------------------------------------------------
(* Calls in flight.  A round's calls are started by Refresh alone.         *)
CallsStep ==
  /\ fetch' \in [Slots -> Calls]
  /\ \A s \in Slots : CallSound(fetch'[s], generation', version')
  /\ \A s \in Slots : fetch'[s].by = "round" => fetch[s].by = "round" \/ Refresh

LEMMA CallsKeep ==
  ASSUME ViewInv, [Next]_vars
  PROVE  CallsStep
<1>0. /\ StorePart /\ StoreStep /\ CallPart /\ WindowPart /\ StorePart' /\ generation' \in {generation, generation + 1}
      /\ generation' = generation /\ ~EnvironmentAnswers => \A k \in Keys : version[k] <= version'[k]
  BY StepOfStore, StoreKeeps DEF ViewInv
<1>1. version \in [Keys -> Nat] /\ version' \in [Keys -> Nat] /\ generation \in Nat
  BY <1>0 DEF StorePart
<1>2. ASSUME UNCHANGED fetch, ~EnvironmentAnswers
      PROVE  CallsStep
  <2>1. \A s \in Slots : fetch[s] \in Calls /\ CallSound(fetch[s], generation, version)
    BY <1>0 DEF CallPart
  <2>2. \A s \in Slots : CallSound(fetch[s], generation', version')
    BY <1>0, <1>1, <1>2, <2>1, SoundLater
  <2> QED
    BY <1>0, <1>2, <2>2 DEF CallsStep, CallPart
<1>3. ASSUME NEW t \in Slots, ReadDocument(t)
      PROVE  CallsStep
  <2> DEFINE k == fetch[t].key
             n == IF k \in alive THEN version[k] ELSE Missing
             c == [fetch[t] EXCEPT !.result = n]
  <2>1. fetch' = [fetch EXCEPT ![t] = c] /\ UNCHANGED <<clock, version, alive, generation>> /\ fetch[t].is
    BY <1>3 DEF ReadDocument, storeState, windowState
  <2>2. k \in Keys /\ n \in Nat \cup {Missing} /\ fetch[t] \in Calls /\ fetch[t].generation <= generation
        /\ (n # Missing => n = version[k])
    BY <1>0, <2>1 DEF CallPart, CallSound, StorePart
  <2> HIDE DEF n
  <2>3. c \in Calls /\ c.by = fetch[t].by /\ c.key = k /\ c.result = n /\ c.generation = fetch[t].generation
    BY <2>2 DEF Calls
  <2> HIDE DEF c
  <2>4. CallSound(c, generation, version)
    BY <1>1, <2>2, <2>3 DEF CallSound, Missing
  <2> HIDE DEF k
  <2> QED
    BY <1>0, <2>1, <2>3, <2>4 DEF CallsStep, CallPart
<1>4. ASSUME NEW t \in Slots, Fetched(t) \/ (FetchFails(t) /\ fetch[t].by # "round")
      PROVE  CallsStep
  <2>1. fetch' = [fetch EXCEPT ![t] = NoFetch] /\ UNCHANGED <<clock, version, alive, generation>>
    BY <1>4 DEF Fetched, FetchFails, storeState, windowState
  <2>2. NoFetch \in Calls /\ NoFetch.by = "alone" /\ ~NoFetch.is
    BY DEF NoFetch, Calls
  <2> QED
    BY <1>0, <2>1, <2>2 DEF CallsStep, CallPart, CallSound
<1>5. ASSUME NEW t \in Slots, FetchFails(t), fetch[t].by = "round"
      PROVE  CallsStep
  <2>1. /\ fetch' = [s \in Slots |-> IF s = t THEN NoFetch ELSE Abandoned(fetch[s])]
        /\ UNCHANGED <<clock, version, alive, generation>>
    BY <1>5 DEF FetchFails, storeState, windowState
  <2>2. NoFetch \in Calls /\ NoFetch.by = "alone" /\ ~NoFetch.is
    BY DEF NoFetch, Calls
  <2>3. \A s \in Slots : /\ Abandoned(fetch[s]) \in Calls /\ Abandoned(fetch[s]).by # "round"
                         /\ CallSound(Abandoned(fetch[s]), generation, version)
    BY <1>0, AbandonedIs DEF CallPart
  <2>4. CallSound(NoFetch, generation, version)
    BY <2>2 DEF CallSound
  <2> QED
    BY <2>1, <2>2, <2>3, <2>4 DEF CallsStep
<1>6. CASE Refresh
  <2>1. PICK K \in SUBSET Keys : StartFetches(K, "round")
    BY <1>6 DEF Refresh
  <2>2. UNCHANGED <<clock, version, alive, generation>>
    BY <1>6 DEF Refresh, storeState, windowState
  <2> QED
    BY <1>0, <1>6, <2>1, <2>2, StartedFetches DEF CallsStep
<1>7. ASSUME NEW k \in Keys, SaveAnswered(k)
      PROVE  CallsStep
  <2>1. UNCHANGED <<clock, version, alive, generation>>
    BY <1>7 DEF SaveAnswered, storeState, windowState
  <2>2. CASE StartFetches({k}, "alone")
    BY <1>0, <2>1, <2>2, StartedFetches DEF CallsStep
  <2>3. UNCHANGED fetch \/ StartFetches({k}, "alone")
    BY <1>7 DEF SaveAnswered, Saved
  <2>4. ASSUME UNCHANGED fetch PROVE CallsStep
    BY <1>0, <2>1, <2>4 DEF CallsStep, CallPart
  <2> QED
    BY <2>2, <2>3, <2>4
<1>8. ASSUME NEW k \in Keys, \/ ExternalWrite(k) \/ SaveCommits(k) \/ ReadSaved(k) \/ SaveErrs(k) \/ QueueSteps(k)
                             \/ \E f \in Fields : EditOpen(k, f)
      PROVE  UNCHANGED fetch
  BY <1>8 DEF ExternalWrite, SaveCommits, ReadSaved, SaveErrs, QueueSteps, EditOpen, viewVars
<1>9. ASSUME \/ ChangeEvent \/ WatchLost \/ QueueTimer \/ RefreshStale \/ RefreshFails \/ RefreshEnds
             \/ ReadRail \/ RailAnswers \/ SwitchEnvironment \/ SessionLost \/ Connected \/ WatchAgain
             \/ UNCHANGED vars
      PROVE  UNCHANGED fetch
  BY <1>9 DEF ChangeEvent, WatchLost, QueueTimer, RefreshStale, RefreshFails, RefreshEnds,
              ReadRail, RailAnswers, SwitchEnvironment, SessionLost, Connected, WatchAgain, viewVars, vars
<1>10. CASE EnvironmentAnswers
  <2>1. UNCHANGED <<fetch, generation>> /\ window # "open"
    BY <1>10 DEF EnvironmentAnswers
  <2>2. \A s \in Slots : fetch[s] \in Calls /\ CallSound(fetch[s], generation, version)
    BY <1>0 DEF CallPart
  <2>3. \A s \in Slots : fetch[s].is => fetch[s].generation < generation /\ fetch[s].generation \in Nat
    BY <1>0, <2>1, <2>2 DEF WindowPart, Calls
  <2>4. \A s \in Slots : CallSound(fetch[s], generation, version')
    BY <1>1, <2>2, <2>3 DEF CallSound
  <2> QED
    BY <1>0, <2>1, <2>4 DEF CallsStep, CallPart
<1> QED
  BY <1>2, <1>3, <1>4, <1>5, <1>6, <1>7, <1>8, <1>9, <1>10 DEF Next

(* While another environment is entered nothing opens a tab, starts a save *)
(* or reads a document.                                                    *)
LEMMA WindowKeeps ==
  ASSUME ViewInv, [Next]_vars
  PROVE  WindowPart'
<1>0. /\ StorePart /\ SavePart /\ CallPart /\ WindowPart /\ SaveInv
      /\ shown \in [Keys -> Nat] /\ fetch \in [Slots -> Calls] /\ generation \in Nat
  BY DEF ViewInv, TabPart, StorePart, CallPart
<1>1. CASE SwitchEnvironment
  <2>1. \A k \in Keys : shown'[k] = 0 /\ ~entry'[k]
    BY <1>1 DEF SwitchEnvironment, LeaveEnvironment, LeaveSignedOut, ClearQueue
  <2>2. UNCHANGED fetch /\ generation' = generation + 1 /\ window' = "leaving"
    BY <1>1 DEF SwitchEnvironment
  <2>3. \A s \in Slots : fetch[s].is => fetch[s].generation <= generation /\ fetch[s].generation \in Nat
    BY <1>0 DEF CallPart, CallSound, Calls
  <2> QED
    BY <1>0, <2>1, <2>2, <2>3 DEF WindowPart
<1>2. ASSUME ~SwitchEnvironment
      PROVE  \/ UNCHANGED windowState
             \/ EnvironmentAnswers
             \/ Connected /\ LoadWorkspace
  <2>1. ASSUME NEW k \in Keys, \/ ExternalWrite(k) \/ SaveCommits(k) \/ ReadSaved(k) \/ SaveAnswered(k)
                               \/ SaveErrs(k) \/ QueueSteps(k) \/ \E f \in Fields : EditOpen(k, f)
        PROVE  UNCHANGED windowState
    BY <2>1 DEF ExternalWrite, SaveCommits, ReadSaved, SaveAnswered, SaveErrs, QueueSteps, EditOpen, viewVars
  <2>2. ASSUME NEW s \in Slots, ReadDocument(s) \/ Fetched(s) \/ FetchFails(s) PROVE UNCHANGED windowState
    BY <2>2 DEF ReadDocument, Fetched, FetchFails
  <2>3. ASSUME \/ ChangeEvent \/ WatchLost \/ QueueTimer \/ Refresh \/ RefreshStale \/ RefreshFails
               \/ RefreshEnds \/ ReadRail \/ RailAnswers \/ SessionLost \/ WatchAgain \/ UNCHANGED vars
        PROVE  UNCHANGED windowState
    BY <2>3 DEF ChangeEvent, WatchLost, QueueTimer, Refresh, RefreshStale, RefreshFails, RefreshEnds,
                ReadRail, RailAnswers, SessionLost, WatchAgain, viewVars, vars
  <2>4. CASE Connected
    BY <2>4 DEF Connected, windowState
  <2> QED
    BY <1>2, <2>1, <2>2, <2>3, <2>4 DEF Next
<1>3. CASE Connected /\ LoadWorkspace
  BY <1>3 DEF LoadWorkspace, WindowPart
<1>4. CASE window = "open" /\ UNCHANGED windowState
  BY <1>4 DEF windowState, WindowPart
<1>5. ASSUME window # "open", ~SwitchEnvironment, UNCHANGED windowState \/ EnvironmentAnswers
      PROVE  WindowPart'
  <2>1. /\ generation' = generation /\ window' \in {"leaving", "entered"}
        /\ \A k \in Keys : /\ shown[k] = 0 /\ ~entry[k] /\ ~timer[k] /\ ~queued[k] /\ call[k] = "none"
                           /\ readBack[k] = 0
        /\ \A s \in Slots : fetch[s].is => fetch[s].generation < generation
    BY <1>0, <1>5 DEF EnvironmentAnswers, windowState, WindowPart, SavePart, SaveInv, SaveTypeOK
  <2>2. ASSUME UNCHANGED <<shown, entry>>,
               \A s \in Slots : fetch'[s].is => fetch[s].is /\ fetch'[s].generation = fetch[s].generation
        PROVE  WindowPart'
    BY <2>1, <2>2 DEF WindowPart
  <2>3. ASSUME NEW k \in Keys
        PROVE  /\ ~QueueSteps(k) /\ ~SaveCommits(k) /\ ~ReadSaved(k) /\ ~SaveAnswered(k) /\ ~SaveErrs(k)
               /\ ~(\E f \in Fields : EditOpen(k, f))
    BY <2>1 DEF QueueSteps, TimerFires, BeginSave, SaveCommits, StoreCommits, ReadSaved, SaveAnswered,
                SaveErrs, SaveFails, SaveRefused, SaveRejected, EditOpen
  <2>4. ASSUME NEW t \in Slots, ReadDocument(t) PROVE WindowPart'
    <3>1. PICK n : fetch' = [fetch EXCEPT ![t].result = n]
      BY <2>4 DEF ReadDocument
    <3>2. ASSUME NEW s \in Slots PROVE fetch'[s].is = fetch[s].is /\ fetch'[s].generation = fetch[s].generation
      <4>1. fetch'[s] = IF s = t THEN [fetch[s] EXCEPT !.result = n] ELSE fetch[s]
        BY <1>0, <3>1
      <4>2. /\ [fetch[s] EXCEPT !.result = n].is = fetch[s].is
            /\ [fetch[s] EXCEPT !.result = n].generation = fetch[s].generation
        BY <1>0 DEF Calls
      <4> QED
        BY <4>1, <4>2
    <3> QED
      BY <2>2, <2>4, <3>2 DEF ReadDocument, tabState, saveVars, queueVars
  <2>5. ASSUME NEW t \in Slots, Fetched(t) PROVE WindowPart'
    <3>1. fetch' = [fetch EXCEPT ![t] = NoFetch] /\ UNCHANGED entry
      BY <2>5 DEF Fetched, saveVars, queueVars
    <3>2. fetch[t].key \in Keys
      BY <1>0, <2>5 DEF Fetched, CallPart, CallSound
    <3>3. UNCHANGED shown
      BY <2>1, <2>5, <3>2 DEF Fetched, Applies
    <3> QED
      BY <1>0, <2>2, <3>1, <3>3 DEF NoFetch
  <2>6. ASSUME NEW t \in Slots, FetchFails(t) PROVE WindowPart'
    <3>1. \A s \in Slots : fetch'[s] \in {NoFetch, fetch[s], Abandoned(fetch[s])}
      BY <1>0, <2>6 DEF FetchFails
    <3>2. ASSUME NEW s \in Slots PROVE Abandoned(fetch[s]).is = fetch[s].is
                                       /\ Abandoned(fetch[s]).generation = fetch[s].generation
      BY <1>0 DEF Abandoned, Calls
    <3> QED
      BY <2>2, <2>6, <3>1, <3>2 DEF FetchFails, NoFetch, tabState, saveVars, queueVars
  <2>7. CASE Refresh
    <3>1. UNCHANGED shown
      BY <1>0, <2>1, <2>7 DEF Refresh
    <3>2. PICK K \in SUBSET {k \in Keys : shown[k] # 0} : StartFetches(K, "round")
      BY <2>7 DEF Refresh
    <3>3. K = {}
      BY <2>1, <3>2
    <3>4. \A s \in Slots : fetch'[s] = fetch[s]
      BY <3>2, <3>3 DEF StartFetches
    <3> QED
      BY <2>2, <2>7, <3>1, <3>4 DEF Refresh, saveVars, queueVars
  <2>8. ASSUME UNCHANGED <<shown, entry, fetch>> PROVE WindowPart'
    BY <2>2, <2>8
  <2>9. ASSUME NEW k \in Keys, ExternalWrite(k) PROVE UNCHANGED <<shown, entry, fetch>>
    BY <2>9 DEF ExternalWrite, tabState, saveVars, queueVars
  <2>10. CASE Connected
    <3>1. window' # "open"
      BY <2>1
    <3> QED
      BY <2>8, <2>10, <3>1 DEF Connected, LoadWorkspace, SignIn, queueVars
  <2>11. ASSUME \/ ChangeEvent \/ WatchLost \/ QueueTimer \/ RefreshStale \/ RefreshFails
                \/ RefreshEnds \/ ReadRail \/ RailAnswers \/ EnvironmentAnswers \/ SessionLost \/ WatchAgain
                \/ UNCHANGED vars
         PROVE  UNCHANGED <<shown, entry, fetch>>
    BY <2>11 DEF ChangeEvent, WatchLost, QueueTimer, RefreshStale, RefreshFails, RefreshEnds, ReadRail, RailAnswers,
                 EnvironmentAnswers, SessionLost, SignOut, WatchAgain, tabState, saveVars, queueVars, viewVars, vars
  <2> QED
    BY <1>5, <2>3, <2>4, <2>5, <2>6, <2>7, <2>8, <2>9, <2>10, <2>11 DEF Next
<1>6. EnvironmentAnswers => window # "open"
  BY DEF EnvironmentAnswers
<1> QED
  BY <1>1, <1>2, <1>3, <1>4, <1>5, <1>6

-----------------------------------------------------------------------------
(* The queue of changes, its loop and the rail.                            *)
LEMMA NextRoundKeeps ==
  ASSUME LoopPart, NextRound, generation \in Nat
  PROVE  /\ loop' \in {"idle", "prelude"} /\ gone' \subseteq Keys
         /\ pending' \in [is : BOOLEAN, gone : SUBSET Keys]
<1>1. pending \in [is : BOOLEAN, gone : SUBSET Keys] /\ gone \subseteq Keys
  BY DEF LoopPart
<1>2. pending.gone \subseteq Keys
  BY <1>1
<1>3. NoChange \in [is : BOOLEAN, gone : SUBSET Keys]
  BY DEF NoChange
<1> QED
  BY <1>1, <1>2, <1>3 DEF NextRound, TakeChange

LEMMA LoopKeeps ==
  ASSUME ViewInv, [Next]_vars
  PROVE  LoopPart' /\ RoundsPart'
<1>0. /\ StorePart /\ StoreStep /\ CallPart /\ StorePart' /\ LoopPart /\ RoundsPart
      /\ generation' = generation /\ ~EnvironmentAnswers => clock <= clock'
  BY StepOfStore, StoreKeeps DEF ViewInv
<1>1. /\ clock \in Nat \ {0} /\ clock' \in Nat \ {0} /\ generation \in Nat
      /\ NoFetch \in Calls /\ NoFetch.by = "alone"
  BY <1>0 DEF StorePart, NoFetch, Calls
\* What starts no round leaves the rounds where they are.
<1>2. ASSUME ~Refresh, loop' = loop, railFetch'.by = "round" => railFetch.by = "round"
      PROVE  RoundsPart'
  BY <1>0, <1>2, CallsKeep DEF CallsStep, RoundsPart
<1>3. ASSUME NEW k \in Keys, \/ ExternalWrite(k) \/ SaveCommits(k) \/ ReadSaved(k) \/ QueueSteps(k)
                             \/ \E f \in Fields : EditOpen(k, f)
      PROVE  LoopPart' /\ RoundsPart'
  <2>1. UNCHANGED <<cursor, gone, deferred, pending, railFetch, armed, loop, fetch>>
    BY <1>3 DEF ExternalWrite, SaveCommits, ReadSaved, QueueSteps, EditOpen, viewVars, tabState, loopState, railState
  <2>2. clock <= clock'
    BY <1>1, <1>3 DEF ExternalWrite, SaveCommits, ReadSaved, QueueSteps, EditOpen, viewVars, storeState
  <2> QED
    BY <1>0, <1>1, <2>1, <2>2 DEF LoopPart, RoundsPart
<1>4. ASSUME NEW k \in Keys, SaveAnswered(k) \/ SaveErrs(k)
      PROVE  LoopPart' /\ RoundsPart'
  <2>1. /\ UNCHANGED <<cursor, gone, pending, armed, loop, clock>> /\ deferred' \subseteq deferred
        /\ UNCHANGED railFetch \/ StartRail("alone")
    BY <1>4 DEF SaveAnswered, SaveErrs, Saved, storeState, loopState, tabState
  <2>2. railFetch' \in Calls /\ (railFetch'.by = "round" => railFetch.by = "round")
    BY <1>0, <2>1, StartedRail DEF LoopPart
  <2>3. \A s \in Slots : fetch'[s].by = "round" => fetch[s].by = "round"
    <3>1. CASE SaveErrs(k)
      BY <3>1 DEF SaveErrs
    <3>2. CASE SaveAnswered(k)
      BY <1>0, <3>2, StartedFetches DEF SaveAnswered, Saved
    <3> QED
      BY <1>4, <3>1, <3>2
  <2> QED
    BY <1>0, <2>1, <2>2, <2>3 DEF LoopPart, RoundsPart
<1>5. ASSUME NEW s \in Slots, ReadDocument(s) \/ Fetched(s) \/ (FetchFails(s) /\ fetch[s].by # "round")
      PROVE  LoopPart' /\ RoundsPart'
  <2>1. UNCHANGED <<cursor, gone, pending, railFetch, armed, loop, clock>>
    BY <1>5 DEF ReadDocument, Fetched, FetchFails, storeState, loopState, railState
  <2>2. deferred' \subseteq Keys
    BY <1>0, <1>5 DEF ReadDocument, Fetched, FetchFails, tabState, LoopPart, CallPart, CallSound
  <2>3. \A t \in Slots : fetch'[t].by = "round" => fetch[t].by = "round"
    <3>1. \/ fetch' = [fetch EXCEPT ![s] = NoFetch]
          \/ \E n : fetch' = [fetch EXCEPT ![s].result = n]
      BY <1>5 DEF ReadDocument, Fetched, FetchFails
    <3>2. fetch \in [Slots -> Calls]
      BY <1>0 DEF CallPart
    <3>3. CASE fetch' = [fetch EXCEPT ![s] = NoFetch]
      BY <1>1, <3>2, <3>3
    <3>4. ASSUME NEW n, fetch' = [fetch EXCEPT ![s].result = n], NEW t \in Slots
          PROVE  fetch'[t].by = fetch[t].by
      <4>1. fetch'[t] = IF t = s THEN [fetch[t] EXCEPT !.result = n] ELSE fetch[t]
        BY <3>2, <3>4
      <4>2. [fetch[t] EXCEPT !.result = n].by = fetch[t].by
        BY <3>2 DEF Calls
      <4> QED
        BY <4>1, <4>2
    <3> QED
      BY <3>1, <3>3, <3>4
  <2> QED
    BY <1>0, <2>1, <2>2, <2>3 DEF LoopPart, RoundsPart
\* A round that fails leaves none of its calls awaited.
<1>6. ASSUME NEW s \in Slots, FetchFails(s), fetch[s].by = "round"
      PROVE  LoopPart' /\ RoundsPart'
  <2>1. /\ UNCHANGED <<cursor, deferred, armed, clock>> /\ NextRound
        /\ railFetch' = Abandoned(railFetch)
        /\ fetch' = [t \in Slots |-> IF t = s THEN NoFetch ELSE Abandoned(fetch[t])]
    BY <1>6 DEF FetchFails, storeState, tabState
  <2>2. loop = "refreshing" /\ ~armed
    BY <1>0, <1>6 DEF RoundsPart, LoopPart
  <2>3. \A c \in Calls : Abandoned(c) \in Calls /\ Abandoned(c).by # "round"
    <3> SUFFICES ASSUME NEW c \in Calls PROVE Abandoned(c) \in Calls /\ Abandoned(c).by # "round"
      OBVIOUS
    <3> DEFINE a == [c EXCEPT !.by = "abandoned"]
    <3>1. a \in Calls /\ a.by = "abandoned"
      BY DEF Calls
    <3> HIDE DEF a
    <3>2. Abandoned(c) = IF c.by = "round" THEN a ELSE c
      BY DEF Abandoned, a
    <3> QED
      BY <3>1, <3>2
  <2>4. railFetch' \in Calls /\ railFetch'.by # "round" /\ \A t \in Slots : fetch'[t].by # "round"
    BY <1>0, <1>1, <2>1, <2>3 DEF LoopPart, CallPart
  <2> QED
    BY <1>0, <1>1, <2>1, <2>2, <2>4, NextRoundKeeps DEF LoopPart, RoundsPart
<1>7. CASE ChangeEvent
  <2>1. UNCHANGED <<gone, deferred, railFetch, loop, clock, fetch>>
    BY <1>7 DEF ChangeEvent, storeState, tabState, loopState, railState
  <2>2. cursor' \in 1..clock
    <3>1. CASE cursor > 0
      <4>1. cursor \in 1..clock
        BY <1>0, <3>1 DEF LoopPart, Undefined, Unwatched
      <4>2. cursor # Undefined
        BY <1>1, <4>1 DEF Undefined
      <4>3. PICK v \in (cursor + 1)..clock : cursor' = v
        BY <1>7, <4>2, Zenon DEF ChangeEvent
      <4> QED
        BY <1>1, <4>1, <4>3
    <3>2. CASE cursor = Undefined
      BY <1>1, <1>7, <3>2 DEF ChangeEvent, Undefined
    <3> QED
      BY <1>7, <3>1, <3>2 DEF ChangeEvent
  <2>3. PICK D \in SUBSET Keys : Enqueue(D)
    BY <1>7 DEF ChangeEvent
  <2>4. pending' \in [is : BOOLEAN, gone : SUBSET Keys] /\ armed' = (armed \/ loop = "idle")
    BY <1>0, <2>3 DEF Enqueue, LoopPart
  <2> QED
    BY <1>0, <2>1, <2>2, <2>4 DEF LoopPart, RoundsPart
<1>8. CASE WatchLost \/ UNCHANGED vars
  BY <1>0, <1>1, <1>8 DEF WatchLost, storeState, tabState, loopState, railState, viewVars, vars, LoopPart, RoundsPart
<1>9. CASE QueueTimer
  BY <1>0, <1>9 DEF QueueTimer, TakeChange, NoChange, storeState, tabState, railState, LoopPart, RoundsPart
<1>10. CASE Refresh
  <2>1. /\ UNCHANGED <<cursor, pending, armed, gone, clock>> /\ loop = "prelude" /\ loop' = "refreshing"
        /\ deferred' \subseteq Keys /\ StartRail("round")
    BY <1>0, <1>10 DEF Refresh, storeState, LoopPart
  <2>2. railFetch' \in Calls
    BY <1>0, <2>1, StartedRail
  <2> QED
    BY <1>0, <2>1, <2>2 DEF LoopPart, RoundsPart
<1>11. CASE RefreshStale \/ RefreshFails \/ RefreshEnds
  <2>1. UNCHANGED <<cursor, deferred, railFetch, armed, clock, fetch>> /\ NextRound
    BY <1>11 DEF RefreshStale, RefreshFails, RefreshEnds, storeState, tabState, railState
  <2>2. loop # "idle" /\ railFetch.by # "round" /\ \A s \in Slots : fetch[s].by # "round"
    BY <1>0, <1>11 DEF RefreshStale, RefreshFails, RefreshEnds, RoundsPart
  <2> QED
    BY <1>0, <1>1, <2>1, <2>2, NextRoundKeeps DEF LoopPart, RoundsPart
<1>12. CASE ReadRail \/ RailAnswers
  <2>1. UNCHANGED <<cursor, gone, deferred, pending, armed, loop, clock, fetch>>
    BY <1>12 DEF ReadRail, RailAnswers, storeState, tabState, loopState
  <2>2. railFetch' \in Calls /\ (railFetch'.by = "round" => railFetch.by = "round")
    BY <1>0, <1>1, <1>12 DEF ReadRail, RailAnswers, LoopPart, Calls
  <2> QED
    BY <1>0, <2>1, <2>2 DEF LoopPart, RoundsPart
<1>13. CASE SwitchEnvironment
  <2>1. /\ pending' = NoChange /\ armed' = FALSE /\ deferred' = {} /\ railFetch' = NoFetch
        /\ UNCHANGED <<cursor, clock, gone, loop, fetch>>
    BY <1>13 DEF SwitchEnvironment, storeState, loopState
  <2> QED
    BY <1>0, <1>1, <2>1 DEF LoopPart, RoundsPart, NoChange
<1>14. CASE EnvironmentAnswers
  <2>1. cursor' = Unwatched /\ UNCHANGED <<gone, deferred, pending, armed, loop, fetch>>
    BY <1>14 DEF EnvironmentAnswers, tabState, loopState
  <2>2. railFetch' \in Calls /\ railFetch'.by = railFetch.by
    BY <1>0, <1>14 DEF EnvironmentAnswers, LoopPart, Calls, Foreign
  <2> QED
    BY <1>0, <2>1, <2>2 DEF LoopPart, RoundsPart
<1>15. CASE Connected
  <2>1. /\ UNCHANGED <<clock, gone, deferred, pending, armed, loop, fetch>>
        /\ UNCHANGED <<cursor, railFetch>> \/ (cursor' = Undefined /\ StartRail("alone"))
    BY <1>15 DEF Connected, LoadWorkspace, storeState, loopState
  <2>2. railFetch' \in Calls /\ (railFetch'.by = "round" => railFetch.by = "round")
    BY <1>0, <2>1, StartedRail DEF LoopPart
  <2> QED
    BY <1>0, <2>1, <2>2 DEF LoopPart, RoundsPart
<1>16. CASE SessionLost \/ WatchAgain
  BY <1>0, <1>1, <1>16 DEF SessionLost, WatchAgain, storeState, tabState, loopState, railState, LoopPart, RoundsPart
<1> QED
  BY <1>3, <1>4, <1>5, <1>6, <1>7, <1>8, <1>9, <1>10, <1>11, <1>12, <1>13,
     <1>14, <1>15, <1>16 DEF Next

-----------------------------------------------------------------------------
(* The invariant of the window.                                            *)
LEMMA ViewInvInit == Init => ViewInv
<1> SUFFICES ASSUME Init PROVE ViewInv
  OBVIOUS
<1>1. SaveInv
  BY SaveInvInit DEF Init
<1>2. StorePart /\ TabPart /\ SavePart
  BY DEF Init, StorePart, TabPart, SavePart
<1>3. NoFetch \in Calls /\ NoFetch.by = "alone" /\ ~NoFetch.is
  BY DEF NoFetch, Calls
<1>4. CallPart
  BY <1>3 DEF Init, CallPart, CallSound
<1>5. LoopPart /\ RoundsPart /\ WindowPart
  BY <1>3 DEF Init, LoopPart, RoundsPart, WindowPart, NoChange
<1> QED
  BY <1>1, <1>2, <1>4, <1>5 DEF ViewInv

LEMMA ViewInvNext == ViewInv /\ [Next]_vars => ViewInv'
<1> SUFFICES ASSUME ViewInv, [Next]_vars PROVE ViewInv'
  OBVIOUS
<1>1. SaveInv'
  BY WindowKeepsQueue DEF ViewInv
<1>2. StorePart'
  BY StepOfStore, StoreKeeps DEF ViewInv
<1>3. TabPart' /\ SavePart' /\ LoopPart' /\ RoundsPart' /\ WindowPart'
  BY <1>1, TabsKeep, SavesKeep, LoopKeeps, WindowKeeps
<1>4. CallPart'
  BY CallsKeep DEF CallsStep, CallPart
<1> QED
  BY <1>1, <1>2, <1>3, <1>4 DEF ViewInv

(* The queue's invariant, and that versions bound what tabs show, what     *)
(* calls bring and what saves answer.                                      *)
THEOREM ViewInvariant == Spec => []ViewInv
<1> QED
  BY ViewInvInit, ViewInvNext, PTL DEF Spec

(* Types; a round's calls are in flight only while the round runs, and the *)
(* timer and the loop of the change queue are never both at work           *)
(* (documentChanges.ts).                                                   *)
THEOREM ViewTypeCorrect == Spec => []ViewTypeOK
<1>1. ViewInv => ViewTypeOK
  BY DEF ViewInv, StorePart, TabPart, CallPart, LoopPart, RoundsPart, WindowPart, ViewTypeOK
<1> QED
  BY <1>1, ViewInvariant, PTL

(* The window's traffic takes no edit away from the autosave queue, also   *)
(* when saves are rejected for a document deleted meanwhile.               *)
THEOREM WindowKeepsEdits == Spec => [](NoEditLost /\ CleanMeansStored)
<1>1. ViewInv => NoEditLost /\ CleanMeansStored
  BY NoEntryMeansStored DEF ViewInv, SaveInv, Newest, NoEditLost, DirtyMeansEntry, CleanMeansStored
<1> QED
  BY <1>1, ViewInvariant, PTL

(* A tab shows the selected environment (environmentGeneration).           *)
THEOREM TabsShowTheirEnvironment == Spec => []OwnEnvironment
<1>1. ViewInv => OwnEnvironment
  BY DEF ViewInv, TabPart, OwnEnvironment
<1> QED
  BY <1>1, ViewInvariant, PTL

(* A draft is neither replaced nor closed by a live update.                *)
THEOREM DraftsAreKept == Spec => DraftKept
<1>1. ViewInv /\ [Next]_vars => [\A k \in Keys : IsDirty(k) /\ IsDirty(k)' => shown'[k] = shown[k]]_vars
  <2> SUFFICES ASSUME ViewInv, [Next]_vars, NEW k \in Keys, IsDirty(k), IsDirty(k)'
               PROVE  shown'[k] = shown[k]
    OBVIOUS
  <2>1. ~SwitchEnvironment
    BY DEF SwitchEnvironment, LeaveEnvironment, LeaveSignedOut, ClearQueue, IsDirty
  <2> QED
    BY <2>1, TabsChange DEF TabChange
<1> QED
  BY <1>1, ViewInvariant, PTL DEF Spec, DraftKept

(* No tab goes back to an older version of its document.                   *)
THEOREM TabsNeverGoBack == Spec => NeverBackwards
<1>1. ViewInv /\ [Next]_vars =>
        [\A k \in Keys : generation' = generation /\ shown'[k] # 0 => shown'[k] >= shown[k]]_vars
  <2> SUFFICES ASSUME ViewInv, [Next]_vars, NEW k \in Keys, generation' = generation, shown'[k] # 0
               PROVE  shown'[k] >= shown[k]
    OBVIOUS
  <2>1. /\ generation \in Nat /\ shown[k] \in Nat /\ version[k] \in Nat /\ readBack[k] \in Nat
        /\ readBack[k] # 0 => shown[k] <= readBack[k]
    BY DEF ViewInv, StorePart, TabPart, SavePart
  <2>2. ~SwitchEnvironment
    BY <2>1 DEF SwitchEnvironment
  <2>3. TabChange(k)
    BY TabsChange
  <2> QED
    BY <2>1, <2>2, <2>3 DEF TabChange
<1> QED
  BY <1>1, ViewInvariant, PTL DEF Spec, NeverBackwards
=============================================================================
