------------------------------ MODULE SaveQueue ------------------------------
(***************************************************************************)
(* The desktop's autosave queue (documentSaveQueue.ts) with the callbacks  *)
(* App.svelte gives it.  Edits of a document are merged into a patch; after *)
(* a pause the patch is saved, one save of a document at a time.  A save   *)
(* may fail before or after the store committed it.  Leaving the           *)
(* environment clears the queue, and flushes it before that if the user    *)
(* was signed in when asking for the switch; the editor is open only to a  *)
(* user who is signed in.                                                  *)
(*                                                                         *)
(* The edits of a field are numbered, so that a patch says which edit of   *)
(* each field it carries; 0 stands for a field that is not in the patch.   *)
(***************************************************************************)
EXTENDS Integers

CONSTANTS Keys,        \* documents, by kind and id
          Fields,      \* the fields a patch can have
          MaxEdits,    \* bound on the number of edits of a field
          MaxFailures  \* bound on the number of saves that fail while signed in

ASSUME SaveAssumption == MaxEdits \in Nat /\ MaxFailures \in Nat

VARIABLES
  entry,     \* the key has an entry
  patch,     \* entry.patch
  timer,     \* entry.timer is armed
  queued,    \* entry.queued: an operation waits for the chain
  call,      \* the running operation's save: "none", "sent" or "committed"
  saving,    \* the patch it saves
  failed,    \* entry.error is set
  status,    \* documentSaveStates[key]
  signedIn,  \* instanceConnection.authenticated
  flush,     \* flushAll: "idle", "leaving" for switchEnvironment, "waiting" for another caller
  awaits,    \* the operation of each key it awaits: "none", "queued" or "running"
  latest,    \* the keys whose chain is still the one it took
  edited,    \* the newest edit of each field
  stored,    \* the newest edit of each field that the store committed
  failures

queueVars == <<entry, patch, timer, queued, call, saving, failed>>
flushVars == <<signedIn, flush, awaits, latest>>
saveVars == <<queueVars, status, flushVars, edited, stored, failures>>

Patch == [Fields -> 0..MaxEdits]
Empty == [f \in Fields |-> 0]

\* { ...older, ...newer }, and a faulty variant that lets the older value win.
MergeOlderWins(older, newer) == [f \in Fields |-> IF older[f] # 0 THEN older[f] ELSE newer[f]]
Merge(older, newer) == [f \in Fields |-> IF newer[f] # 0 THEN newer[f] ELSE older[f]]

\* documentIsDirty
IsDirty(k) == status[k] \in {"pending", "saving", "error"}

SaveInit ==
  /\ entry = [k \in Keys |-> FALSE]
  /\ patch = [k \in Keys |-> Empty]
  /\ timer = [k \in Keys |-> FALSE]
  /\ queued = [k \in Keys |-> FALSE]
  /\ call = [k \in Keys |-> "none"]
  /\ saving = [k \in Keys |-> Empty]
  /\ failed = [k \in Keys |-> FALSE]
  /\ status = [k \in Keys |-> "idle"]
  /\ signedIn = TRUE
  /\ flush = "idle"
  /\ awaits = [k \in Keys |-> "none"]
  /\ latest = {}
  /\ edited = [k \in Keys |-> Empty]
  /\ stored = [k \in Keys |-> Empty]
  /\ failures = 0

-----------------------------------------------------------------------------
(* schedule: the user edits field f.                                       *)
Edit(k, f) ==
  /\ signedIn
  /\ edited[k][f] < MaxEdits
  /\ edited' = [edited EXCEPT ![k][f] = @ + 1]
  /\ entry' = [entry EXCEPT ![k] = TRUE]
  /\ patch' = [patch EXCEPT ![k][f] = edited[k][f] + 1]
  /\ failed' = [failed EXCEPT ![k] = FALSE]
  /\ timer' = [timer EXCEPT ![k] = TRUE]
  /\ status' = [status EXCEPT ![k] = "pending"]
  /\ UNCHANGED <<queued, call, saving, flushVars, stored, failures>>

(* flush, for the keys K: their timers are spent and each gets one         *)
(* operation at the end of its chain, unless one already waits there.      *)
(* (Faulty variant first: a running save is taken to cover the new edits.) *)
FlushKeysUnlessSaving(K) ==
  /\ timer' = [k \in Keys |-> timer[k] /\ k \notin K]
  /\ queued' = [k \in Keys |-> queued[k] \/ (k \in K /\ call[k] = "none")]
FlushKeys(K) ==
  /\ timer' = [k \in Keys |-> timer[k] /\ k \notin K]
  /\ queued' = [k \in Keys |-> queued[k] \/ k \in K]

TimerFires(k) ==
  /\ timer[k]
  /\ FlushKeys({k})
  /\ latest' = IF queued[k] THEN latest ELSE latest \ {k}
  /\ UNCHANGED <<entry, patch, call, saving, failed, status, signedIn, flush, awaits, edited, stored,
                 failures>>

(* The chain has come to the queued operation: it takes the patch.         *)
BeginSave(k) ==
  /\ queued[k] /\ call[k] = "none"
  /\ queued' = [queued EXCEPT ![k] = FALSE]
  /\ call' = [call EXCEPT ![k] = "sent"]
  /\ saving' = [saving EXCEPT ![k] = patch[k]]
  /\ patch' = [patch EXCEPT ![k] = Empty]
  /\ failed' = [failed EXCEPT ![k] = FALSE]
  /\ status' = [status EXCEPT ![k] = "saving"]
  /\ awaits' = [awaits EXCEPT ![k] = IF @ = "queued" THEN "running" ELSE @]
  /\ UNCHANGED <<entry, timer, signedIn, flush, latest, edited, stored, failures>>

(* The control plane commits the patch; the main process then reads the    *)
(* document again for its answer.                                          *)
StoreCommits(k) ==
  /\ call[k] = "sent"
  /\ call' = [call EXCEPT ![k] = "committed"]
  /\ stored' = [stored EXCEPT ![k] = Merge(@, saving[k])]
  /\ UNCHANGED <<entry, patch, timer, queued, saving, failed, status, flushVars, edited, failures>>

\* The operation's end is the end of the chain, with no newer intent behind it
\* (faulty variant first: the armed timer is not looked at).
NothingBehindButTimer(k) == ~queued[k] /\ patch[k] = Empty
NothingBehind(k) == ~queued[k] /\ ~timer[k] /\ patch[k] = Empty

\* What the end of an operation does to a flushAll that awaits it.
Settled(k) == awaits' = [awaits EXCEPT ![k] = IF @ = "running" THEN "none" ELSE @]

SaveSucceeds(k) ==
  /\ call[k] = "committed"
  /\ call' = [call EXCEPT ![k] = "none"]
  /\ saving' = [saving EXCEPT ![k] = Empty]
  /\ \/ /\ NothingBehind(k)
        /\ entry' = [entry EXCEPT ![k] = FALSE]
        /\ status' = [status EXCEPT ![k] = "saved"]
        /\ latest' = latest \ {k}
     \/ ~NothingBehind(k) /\ UNCHANGED <<entry, status, latest>>
  /\ Settled(k)
  /\ UNCHANGED <<patch, timer, queued, failed, signedIn, flush, edited, stored, failures>>

(* The save is rejected, or its answer is lost after the commit: the patch *)
(* goes back under what was edited since.                                  *)
SaveRejected(k) ==
  /\ call[k] # "none"
  /\ call' = [call EXCEPT ![k] = "none"]
  /\ saving' = [saving EXCEPT ![k] = Empty]
  /\ patch' = [patch EXCEPT ![k] = Merge(saving[k], @)]
  /\ failed' = [failed EXCEPT ![k] = TRUE]
  /\ status' = IF queued[k] \/ timer[k] THEN status ELSE [status EXCEPT ![k] = "error"]
  /\ Settled(k)
  /\ UNCHANGED <<entry, timer, queued, signedIn, flush, latest, edited, stored>>

\* Signed out, every save that the control plane had not admitted before is refused.
SaveRefused(k) == ~signedIn /\ SaveRejected(k) /\ UNCHANGED failures

SaveFails(k) ==
  \/ failures < MaxFailures /\ failures' = failures + 1 /\ SaveRejected(k)
  \/ SaveRefused(k)

-----------------------------------------------------------------------------
\* The loop condition of flushAll: entries.size > 0 no longer holds (faulty variant first).
DrainedOfTimers == \A k \in Keys : ~timer[k]
Drained == \A k \in Keys : ~entry[k]

(* One round of flushAll: every armed timer is flushed at once, and the    *)
(* chains are taken as they then are.                                      *)
FlushRound ==
  /\ ~Drained
  /\ FlushKeys({k \in Keys : timer[k]})
  /\ awaits' = [k \in Keys |-> IF queued'[k] THEN "queued"
                               ELSE IF call[k] # "none" THEN "running" ELSE "none"]
  /\ latest' = {k \in Keys : entry[k]}
  /\ UNCHANGED <<entry, patch, call, saving, failed, status, signedIn, edited, stored, failures>>

(* switchEnvironment, or another caller, asks for a flush.  The newest one *)
(* is followed: what a second flush adds to a switch's is that timers fire *)
(* early, which TimerFires may do anyway.                                  *)
FlushAll(by) ==
  /\ signedIn /\ flush # "leaving" /\ (flush = "idle" \/ by = "leaving")
  /\ FlushRound
  /\ flush' = by

AllSettled == flush # "idle" /\ \A k \in Keys : awaits[k] = "none"
Rejected == \E k \in latest : ~timer[k] /\ failed[k]

FlushAgain == AllSettled /\ ~Rejected /\ FlushRound /\ UNCHANGED flush

FlushEnds ==
  /\ flush' = "idle" /\ latest' = {}
  /\ UNCHANGED <<queueVars, status, signedIn, awaits, edited, stored, failures>>

FlushReturns == flush = "waiting" /\ AllSettled /\ ~Rejected /\ Drained /\ FlushEnds

(* flushAll throws: the environment is not left.                           *)
FlushThrows == AllSettled /\ Rejected /\ FlushEnds

(* resetEnvironmentState: the queue and the save states are cleared.  An   *)
(* operation still in the chain is inactive, and its answer is ignored.    *)
(* The documents are others from now on, and nobody is signed in to them.  *)
ClearQueue ==
  /\ entry' = [k \in Keys |-> FALSE] /\ patch' = [k \in Keys |-> Empty]
  /\ timer' = [k \in Keys |-> FALSE] /\ queued' = [k \in Keys |-> FALSE]
  /\ call' = [k \in Keys |-> "none"] /\ saving' = [k \in Keys |-> Empty]
  /\ failed' = [k \in Keys |-> FALSE] /\ status' = [k \in Keys |-> "idle"]
  /\ edited' = [k \in Keys |-> Empty] /\ stored' = [k \in Keys |-> Empty]
  /\ awaits' = [k \in Keys |-> "none"] /\ latest' = {}
  /\ signedIn' = FALSE
  /\ UNCHANGED failures

(* switchEnvironment while signed in: flushAll has returned, at once if    *)
(* nothing is pending, and the queue is cleared before anything else runs. *)
LeaveEnvironment ==
  /\ Drained
  /\ \/ flush = "leaving" /\ AllSettled /\ ~Rejected /\ flush' = "idle"
     \/ flush # "leaving" /\ signedIn /\ UNCHANGED flush
  /\ ClearQueue

(* switchEnvironment while signed out, from the connection screen: there   *)
(* is no flush, and an edit that is not stored yet goes with the queue.    *)
LeaveSignedOut == ~signedIn /\ ClearQueue /\ UNCHANGED flush

(* The session ends (expired, revoked or signed out), and the connection   *)
(* screen takes the editor's place; or the user signs in again.            *)
SignOut ==
  /\ signedIn /\ signedIn' = FALSE
  /\ UNCHANGED <<queueVars, status, flush, awaits, latest, edited, stored, failures>>
SignIn ==
  /\ ~signedIn /\ signedIn' = TRUE
  /\ UNCHANGED <<queueVars, status, flush, awaits, latest, edited, stored, failures>>

SaveNext ==
  \/ \E k \in Keys : \/ \E f \in Fields : Edit(k, f)
                     \/ TimerFires(k) \/ BeginSave(k)
                     \/ StoreCommits(k) \/ SaveSucceeds(k) \/ SaveFails(k)
  \/ FlushAll("leaving") \/ FlushAll("waiting")
  \/ FlushAgain \/ FlushReturns \/ FlushThrows
  \/ LeaveEnvironment \/ LeaveSignedOut \/ SignOut \/ SignIn

SaveSpec == SaveInit /\ [][SaveNext]_saveVars

(* Timers fire, operations start in turn, every save is answered, and a    *)
(* flushAll whose promises have settled runs on.  Nothing obliges the user *)
(* to edit, to sign in or to ask for a switch.                             *)
SaveFairness ==
  /\ \A k \in Keys : /\ WF_saveVars(TimerFires(k)) /\ WF_saveVars(BeginSave(k))
                     /\ WF_saveVars(StoreCommits(k) \/ SaveRefused(k))
                     /\ WF_saveVars(SaveSucceeds(k))
  /\ WF_saveVars(FlushAgain) /\ WF_saveVars(FlushReturns) /\ WF_saveVars(FlushThrows)
  /\ WF_saveVars(flush = "leaving" /\ LeaveEnvironment)

FairSaveSpec == SaveSpec /\ SaveFairness

-----------------------------------------------------------------------------
(* Types, and the shape of an entry: whatever is pending has one.          *)
SaveTypeOK ==
  /\ entry \in [Keys -> BOOLEAN] /\ timer \in [Keys -> BOOLEAN]
  /\ queued \in [Keys -> BOOLEAN] /\ failed \in [Keys -> BOOLEAN]
  /\ patch \in [Keys -> Patch] /\ saving \in [Keys -> Patch]
  /\ call \in [Keys -> {"none", "sent", "committed"}]
  /\ status \in [Keys -> {"idle", "pending", "saving", "saved", "error"}]
  /\ signedIn \in BOOLEAN /\ flush \in {"idle", "leaving", "waiting"}
  /\ awaits \in [Keys -> {"none", "queued", "running"}]
  /\ latest \subseteq Keys
  /\ edited \in [Keys -> Patch] /\ stored \in [Keys -> Patch]
  /\ failures \in 0..MaxFailures
  /\ \A k \in Keys : (timer[k] \/ queued[k] \/ call[k] # "none" \/ patch[k] # Empty) => entry[k]

(* No edit is ever dropped: the newest edit of a field is in the patch, in *)
(* the running save, or committed, through every interleaving of edits,    *)
(* failures, retries and flushes (documentSaveQueue.ts, flush).            *)
NoEditLost ==
  \A k \in Keys, f \in Fields :
    edited[k][f] \in {patch[k][f], saving[k][f], stored[k][f]}

(* The editor is clean exactly while nothing is left to save: "saved" is   *)
(* shown only once the newest edit is committed, and a refresh may replace *)
(* the document only then (documentIsDirty).                               *)
CleanMeansStored ==
  \A k \in Keys : /\ IsDirty(k) <=> entry[k]
                  /\ ~IsDirty(k) => stored[k] = edited[k]

(* A switch of environments loses no edit if it is made while signed in,   *)
(* or was asked for while signed in and ends its flush only after the      *)
(* session: every edit that goes with the queue is in the store            *)
(* (App.svelte, switchEnvironment).  Only the switch asked for on the      *)
(* connection screen may drop edits.                                       *)
LeavingLosesNothing ==
  [][\A k \in Keys : edited[k] # Empty /\ edited'[k] = Empty /\ (signedIn \/ flush' # flush)
                       => stored[k] = edited[k]]_saveVars

(* An edited document does not stay pending or saving for ever.            *)
EventuallySettled ==
  \A k \in Keys : status[k] \in {"pending", "saving"} ~> status[k] \in {"saved", "error", "idle"}
=============================================================================
