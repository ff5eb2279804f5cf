------------------------------ MODULE LiveView ------------------------------
(***************************************************************************)
(* One desktop window: the open documents and the Active rail, kept up to  *)
(* date by the change events the main process forwards, while the user     *)
(* edits through the SaveQueue, is signed out and in again, and switches   *)
(* environments.                                                           *)
(*                                                                         *)
(* A document's content is its resource version.  The watch is the one     *)
(* ChangeFeed promises: an event covers every write up to some version     *)
(* and follows the previous event without a gap, or is a reset.            *)
(***************************************************************************)
EXTENDS SaveQueue, FiniteSets

CONSTANTS Slots,        \* bound on refreshOpenDocument calls in flight
          MaxWrites,    \* bound on writes of other clients
          MaxErrors,    \* bound on failed reads, lost watches and lost sessions
          MaxSwitches   \* bound on environment switches

ASSUME ViewAssumption == MaxWrites \in Nat /\ MaxErrors \in Nat /\ MaxSwitches \in Nat

VARIABLES
  clock,       \* the resource version of the selected environment's store
  version,     \* the version of each document in that store
  alive,       \* the documents that are not deleted in that store
  cursor,      \* the version up to which change events were enqueued, Undefined or Unwatched
  shown,       \* the version each open tab shows, 0 when the document has no tab
  origin,      \* the environment generation the shown version was read in
  pending,     \* the queue's pending change, or NoChange
  armed,       \* the queue's 100 ms timer
  loop,        \* the queue's flush loop: "idle", "prelude" or "refreshing"
  epoch,       \* the generation in which the loop's current change was taken
  gone,        \* the documents deleted according to the loop's current change
  fetch,       \* refreshOpenDocument calls in flight
  readBack,    \* the version a save's answer carries, 0 until it was read
  deferred,    \* deferredDocumentRefreshes
  liveError,   \* liveUpdateError is shown
  generation,  \* environmentGeneration
  window,      \* "open"; in switchEnvironment "leaving", then "entered" till the tabs are restored
  rail,        \* the Active rail shows every write of the selected store
  railFetch,   \* the call of getActivePanel in flight, or NoFetch
  writes, errors

storeState == <<clock, version, alive>>
tabState == <<shown, origin, deferred>>
loopState == <<loop, epoch, gone>>
railState == <<rail, railFetch>>
windowState == <<generation, window>>
viewVars == <<storeState, cursor, tabState, pending, armed, loopState, fetch, readBack,
              liveError, windowState, railState, writes, errors>>
vars == <<saveVars, viewVars>>

Undefined == -1   \* the cursor of a watch that begins with a reset
Unwatched == -4   \* the cursor while no watch runs
Unread == -2      \* the result of a call the control plane has not answered
Missing == -3     \* its result for a deleted document
Foreign == 0      \* its result from the store of the environment left
NoChange == [is |-> FALSE, gone |-> {}]

\* A call is awaited by the loop's "round", was started "alone", or is "abandoned" by its round.
NoFetch == [is |-> FALSE, key |-> {}, generation |-> 0, result |-> Unread, by |-> "alone"]
Call(k, by) == [is |-> TRUE, key |-> k, generation |-> generation, result |-> Unread, by |-> by]
Abandoned(c) == IF c.by = "round" THEN [c EXCEPT !.by = "abandoned"] ELSE c

Init ==
  /\ SaveInit
  /\ clock = 1 /\ version = [k \in Keys |-> 1] /\ alive = Keys
  /\ cursor = Undefined
  /\ shown = [k \in Keys |-> 1] /\ origin = [k \in Keys |-> 0]
  /\ pending = NoChange /\ armed = FALSE
  /\ loop = "idle" /\ epoch = 0 /\ gone = {}
  /\ fetch = [s \in Slots |-> NoFetch]
  /\ readBack = [k \in Keys |-> 0]
  /\ deferred = {} /\ liveError = FALSE /\ generation = 0 /\ window = "open"
  /\ rail = TRUE /\ railFetch = NoFetch
  /\ writes = 0 /\ errors = 0

-----------------------------------------------------------------------------
\* A call fails: signed out, all may but those the control plane admitted before.
Fails ==
  \/ errors < MaxErrors /\ errors' = errors + 1
  \/ ~signedIn /\ window = "open" /\ UNCHANGED errors

(* Other clients write or delete documents in the selected store.          *)
ExternalWrite(k) ==
  /\ k \in alive /\ writes < MaxWrites /\ writes' = writes + 1
  /\ clock' = clock + 1
  /\ version' = [version EXCEPT ![k] = clock + 1]
  /\ alive' \in {alive, alive \ {k}}
  /\ rail' = FALSE
  /\ UNCHANGED <<saveVars, cursor, tabState, pending, armed, loopState, fetch, readBack,
                 liveError, windowState, railFetch, errors>>

(* handleDocumentChanges and enqueue: the event joins the pending change.  *)
Enqueue(deleted) ==
  /\ pending' = [is |-> TRUE, gone |-> pending.gone \cup deleted]
  /\ armed' = (armed \/ loop = "idle")
  /\ liveError' = FALSE

ChangeEvent ==
  /\ \/ /\ cursor > 0
        /\ \E v \in (cursor + 1)..clock :
             /\ cursor' = v
             /\ Enqueue({k \in Keys \ alive : cursor < version[k] /\ version[k] <= v})
     \/ cursor = Undefined /\ cursor' = clock /\ Enqueue({})
  /\ UNCHANGED <<saveVars, storeState, tabState, loopState, fetch, readBack, windowState,
                 railState, writes, errors>>

\* The watch is lost; the main process reports it and will begin with a reset.
WatchLost ==
  /\ cursor > 0 /\ Fails
  /\ cursor' = Undefined
  /\ liveError' = TRUE
  /\ UNCHANGED <<saveVars, storeState, tabState, pending, armed, loopState, fetch, readBack,
                 windowState, railState, writes>>

-----------------------------------------------------------------------------
(* flush of the change queue: take the pending change, or end the loop.    *)
TakeChange ==
  /\ pending' = NoChange
  /\ loop' = "prelude" /\ epoch' = generation /\ gone' = pending.gone

NextRound ==
  \/ pending.is /\ TakeChange
  \/ ~pending.is /\ loop' = "idle" /\ epoch' = 0 /\ gone' = {} /\ UNCHANGED pending

QueueTimer ==
  /\ armed /\ loop = "idle"
  /\ armed' = FALSE
  /\ TakeChange
  /\ UNCHANGED <<saveVars, storeState, cursor, tabState, fetch, readBack, liveError, windowState,
                 railState, writes, errors>>

\* refreshActive: nothing happens while a refresh of the rail is in flight.
StartRail(by) == railFetch' = IF railFetch.is THEN railFetch ELSE Call({}, by)

\* refreshOpenDocument is called for the documents K, none of which has a draft.
StartFetches(K, by) ==
  LET free == {s \in Slots : ~fetch[s].is}
      slot == CHOOSE f \in [K -> free] : \A j, k \in K : f[j] = f[k] => j = k
  IN  /\ Cardinality(K) <= Cardinality(free)
      /\ fetch' = [s \in Slots |-> IF \E k \in K : slot[k] = s
                                   THEN Call(CHOOSE k \in K : slot[k] = s, by)
                                   ELSE fetch[s]]

(* refreshChangedDocuments once the agent messages and journals are        *)
(* reloaded: close deleted tabs without a draft, then reload the rail and  *)
(* every open document that has no draft.                                  *)
Refresh ==
  /\ loop = "prelude" /\ epoch = generation
  /\ LET open == {k \in Keys : shown[k] # 0}
         closed == {k \in open \cap gone : ~IsDirty(k)}
         drafts == {k \in open : IsDirty(k)}
     IN  /\ shown' = [k \in Keys |-> IF k \in closed THEN 0 ELSE shown[k]]
         /\ deferred' = deferred \cup drafts
         /\ liveError' = (liveError \/ drafts \cap gone # {})
         /\ StartFetches(open \ (closed \cup drafts), "round")
  /\ StartRail("round")
  /\ loop' = "refreshing"
  /\ UNCHANGED <<saveVars, storeState, cursor, origin, pending, armed, epoch, gone, readBack,
                 windowState, rail, writes, errors>>

\* The environment was switched during the prelude: the change is dropped.
RefreshStale ==
  /\ loop = "prelude" /\ epoch # generation
  /\ NextRound
  /\ UNCHANGED <<saveVars, storeState, cursor, tabState, armed, fetch, readBack, liveError,
                 windowState, railState, writes, errors>>

\* Reloading messages or journals fails: the change is dropped with an error.
RefreshFails ==
  /\ loop = "prelude" /\ Fails
  /\ liveError' = (liveError \/ epoch = generation)
  /\ NextRound
  /\ UNCHANGED <<saveVars, storeState, cursor, tabState, armed, fetch, readBack, windowState,
                 railState, writes>>

\* Promise.all of refreshChangedDocuments is fulfilled.
RefreshEnds ==
  /\ loop = "refreshing"
  /\ \A s \in Slots : fetch[s].by # "round"
  /\ railFetch.by # "round"
  /\ NextRound
  /\ UNCHANGED <<saveVars, storeState, cursor, tabState, armed, fetch, readBack, liveError,
                 windowState, railState, writes, errors>>

-----------------------------------------------------------------------------
\* The control plane answers an openResource call.
ReadDocument(s) ==
  /\ fetch[s].is /\ fetch[s].result = Unread
  /\ fetch' = [fetch EXCEPT ![s].result =
                 IF fetch[s].key \in alive THEN version[fetch[s].key] ELSE Missing]
  /\ UNCHANGED <<saveVars, storeState, cursor, tabState, pending, armed, loopState, readBack,
                 liveError, windowState, railState, writes, errors>>

(* refreshOpenDocument after its await: not for another environment, not   *)
(* over a draft, not over a newer version.  The three variants before it   *)
(* each forget one of these tests, to see a property fail.                 *)
AppliesToDraft(s) ==
  /\ fetch[s].generation = generation
  /\ shown[fetch[s].key] # 0 /\ fetch[s].result >= shown[fetch[s].key]
AppliesToNewer(s) ==
  /\ fetch[s].generation = generation
  /\ ~IsDirty(fetch[s].key)
  /\ shown[fetch[s].key] # 0
AppliesToAnyEnvironment(s) ==
  /\ ~IsDirty(fetch[s].key)
  /\ shown[fetch[s].key] # 0 /\ fetch[s].result >= shown[fetch[s].key]
Applies(s) ==
  /\ fetch[s].generation = generation
  /\ ~IsDirty(fetch[s].key)
  /\ shown[fetch[s].key] # 0 /\ fetch[s].result >= shown[fetch[s].key]

Fetched(s) ==
  /\ fetch[s].is /\ fetch[s].result \notin {Unread, Missing}
  /\ LET k == fetch[s].key IN
       /\ \/ /\ Applies(s)
             /\ shown' = [shown EXCEPT ![k] = fetch[s].result]
             /\ origin' = [origin EXCEPT ![k] = fetch[s].generation]
          \/ ~Applies(s) /\ UNCHANGED <<shown, origin>>
       /\ deferred' = IF fetch[s].generation = generation /\ IsDirty(k)
                        THEN deferred \cup {k} ELSE deferred
  /\ fetch' = [fetch EXCEPT ![s] = NoFetch]
  /\ UNCHANGED <<saveVars, storeState, cursor, pending, armed, loopState, readBack, liveError,
                 windowState, railState, writes, errors>>

(* The call rejects: the document is gone, or the read failed.  Rejecting  *)
(* an awaited call ends the round at once; the other calls run on.         *)
FetchFails(s) ==
  /\ fetch[s].is
  /\ \/ fetch[s].result = Missing /\ UNCHANGED errors
     \/ fetch[s].result # Missing /\ Fails
  /\ \/ /\ fetch[s].by = "round"
        /\ fetch' = [t \in Slots |-> IF t = s THEN NoFetch ELSE Abandoned(fetch[t])]
        /\ railFetch' = Abandoned(railFetch)
        /\ liveError' = (liveError \/ epoch = generation)
        /\ NextRound
     \/ /\ fetch[s].by # "round"
        /\ fetch' = [fetch EXCEPT ![s] = NoFetch]
        /\ liveError' = (liveError \/ fetch[s].by = "alone")
        /\ UNCHANGED <<railFetch, pending, loopState>>
  /\ UNCHANGED <<saveVars, storeState, cursor, tabState, armed, readBack, windowState, rail,
                 writes>>

-----------------------------------------------------------------------------
\* getActivePanel reads the store, and its answer, if there is one, is shown.
ReadRail ==
  /\ railFetch.is /\ railFetch.result = Unread
  /\ railFetch' = [railFetch EXCEPT !.result = clock]
  /\ UNCHANGED <<saveVars, storeState, cursor, tabState, pending, armed, loopState, fetch,
                 readBack, liveError, windowState, rail, writes, errors>>

RailAnswers ==
  /\ railFetch.is
  /\ \/ railFetch.result # Unread /\ rail' = (railFetch.result = clock) /\ UNCHANGED errors
     \/ Fails /\ UNCHANGED rail
  /\ railFetch' = NoFetch
  /\ UNCHANGED <<saveVars, storeState, cursor, tabState, pending, armed, loopState, fetch,
                 readBack, liveError, windowState, writes>>

-----------------------------------------------------------------------------
(* The SaveQueue at work on the documents of this window.                  *)
EditOpen(k, f) == shown[k] # 0 /\ Edit(k, f) /\ UNCHANGED viewVars

QueueSteps(k) == (TimerFires(k) \/ BeginSave(k)) /\ UNCHANGED viewVars

\* topicUpdate is one write of the store.
SaveCommits(k) ==
  /\ k \in alive
  /\ StoreCommits(k)
  /\ clock' = clock + 1 /\ version' = [version EXCEPT ![k] = clock + 1]
  /\ rail' = FALSE
  /\ UNCHANGED <<alive, cursor, tabState, pending, armed, loopState, fetch, readBack, liveError,
                 windowState, railFetch, writes, errors>>

\* The main process reads the saved document for its answer.
ReadSaved(k) ==
  /\ call[k] = "committed" /\ readBack[k] = 0 /\ k \in alive
  /\ readBack' = [readBack EXCEPT ![k] = version[k]]
  /\ UNCHANGED <<saveVars, storeState, cursor, tabState, pending, armed, loopState, fetch,
                 liveError, windowState, railState, writes, errors>>

(* onSaved, when nothing newer waits: show the answer, make up for a       *)
(* refresh put off by the draft, and refresh the rail.  (The variant       *)
(* before it forgets the refresh, to see EventuallyFresh fail.)            *)
SavedDeferralForgotten(k) ==
  /\ deferred' = deferred \ {k}
  /\ UNCHANGED fetch
Saved(k) ==
  /\ deferred' = deferred \ {k}
  /\ IF k \in deferred THEN StartFetches({k}, "alone") ELSE UNCHANGED fetch

SaveAnswered(k) ==
  /\ readBack[k] # 0
  /\ SaveSucceeds(k)
  /\ readBack' = [readBack EXCEPT ![k] = 0]
  /\ \/ /\ NothingBehind(k)
        /\ shown' = [shown EXCEPT ![k] = readBack[k]]
        /\ origin' = [origin EXCEPT ![k] = generation]
        /\ Saved(k)
        /\ StartRail("alone")
     \/ ~NothingBehind(k) /\ UNCHANGED <<tabState, fetch, railFetch>>
  /\ UNCHANGED <<storeState, cursor, pending, armed, loopState, liveError, windowState, rail,
                 writes, errors>>

\* The save of a deleted document is always rejected.
SaveErrs(k) ==
  /\ SaveFails(k) \/ (k \notin alive /\ readBack[k] = 0 /\ SaveRejected(k) /\ UNCHANGED failures)
  /\ readBack' = [readBack EXCEPT ![k] = 0]
  /\ IF queued[k] \/ timer[k] THEN UNCHANGED railFetch ELSE StartRail("alone")
  /\ UNCHANGED <<storeState, cursor, tabState, pending, armed, loopState, fetch, liveError,
                 windowState, rail, writes, errors>>

(* switchEnvironment up to its first await: the queues are cleared and the *)
(* tabs closed.  Calls in flight and the loop stay behind, and so do, for  *)
(* now, the selected environment and the events on their way from it.      *)
(* (The flush before only makes timers fire early, which TimerFires may do *)
(* anyway; SaveQueue models its rounds.)                                   *)
SwitchEnvironment ==
  /\ generation < MaxSwitches
  /\ LeaveEnvironment \/ LeaveSignedOut
  /\ generation' = generation + 1 /\ window' = "leaving"
  /\ shown' = [k \in Keys |-> 0] /\ readBack' = [k \in Keys |-> 0]
  /\ pending' = NoChange /\ armed' = FALSE
  /\ deferred' = {} /\ liveError' = FALSE
  /\ rail' = FALSE /\ railFetch' = NoFetch
  /\ UNCHANGED <<storeState, cursor, origin, loopState, fetch, writes, errors>>

(* The main process, which has stopped the watch, answers: the other       *)
(* environment is selected.  (If it cannot be, the window stays as it is.) *)
EnvironmentAnswers ==
  /\ window = "leaving" /\ window' = "entered"
  /\ cursor' = Unwatched
  /\ clock' = 1 /\ version' = [k \in Keys |-> 1] /\ alive' = Keys
  /\ rail' = FALSE
  /\ railFetch' = IF railFetch.result = Unread THEN railFetch ELSE [railFetch EXCEPT !.result = Foreign]
  /\ UNCHANGED <<saveVars, tabState, pending, armed, loopState, fetch, readBack, liveError,
                 generation, writes, errors>>

(* The session is lost: the main process stops the watch.                  *)
SessionLost ==
  /\ errors < MaxErrors /\ errors' = errors + 1
  /\ SignOut
  /\ cursor' = Unwatched
  /\ UNCHANGED <<storeState, tabState, pending, armed, loopState, fetch, readBack, liveError,
                 windowState, railState, writes>>

\* loadAuthenticatedWorkspace: the rail, the tabs if they are not open, and last the watch.
LoadWorkspace ==
  /\ window' = "open" /\ cursor' = Undefined
  /\ StartRail("alone")
  /\ \/ window = "open" /\ UNCHANGED <<shown, origin>>
     \/ /\ window = "entered"
        /\ shown' = [k \in Keys |-> IF k \in alive THEN version[k] ELSE 0]
        /\ origin' = [k \in Keys |-> generation]

(* The user is signed in, at once in the environment entered or later on   *)
(* the connection screen, which flushes the queue first: what failed there *)
(* is not tried again, and the flush throws before anything is loaded.     *)
Connected ==
  /\ window # "leaving"
  /\ SignIn
  /\ \/ LoadWorkspace
     \/ (\E k \in Keys : failed[k]) /\ UNCHANGED <<window, cursor, shown, origin, railFetch>>
  /\ UNCHANGED <<storeState, deferred, pending, armed, loopState, fetch, readBack, liveError,
                 generation, rail, writes, errors>>

\* While an error of the live updates is shown, the poll or the user starts the watch.
WatchAgain ==
  /\ signedIn /\ liveError
  /\ cursor = Unwatched /\ cursor' = Undefined
  /\ UNCHANGED <<saveVars, storeState, tabState, pending, armed, loopState, fetch, readBack,
                 liveError, windowState, railState, writes, errors>>

-----------------------------------------------------------------------------
Next ==
  \/ \E k \in Keys : \/ ExternalWrite(k)
                     \/ \E f \in Fields : EditOpen(k, f)
                     \/ QueueSteps(k) \/ SaveCommits(k) \/ ReadSaved(k)
                     \/ SaveAnswered(k) \/ SaveErrs(k)
  \/ \E s \in Slots : ReadDocument(s) \/ Fetched(s) \/ FetchFails(s)
  \/ ChangeEvent \/ WatchLost
  \/ QueueTimer \/ Refresh \/ RefreshStale \/ RefreshFails \/ RefreshEnds
  \/ ReadRail \/ RailAnswers
  \/ SwitchEnvironment \/ EnvironmentAnswers
  \/ SessionLost \/ Connected \/ WatchAgain

Spec == Init /\ [][Next]_vars

(* Events arrive, timers fire, calls are answered and promises go on; a    *)
(* save, a read and the loop of the change queue each take one step after  *)
(* the other.  Nothing obliges the user, other clients, or an error.       *)
SaveSteps(k) ==
  SaveCommits(k) \/ ReadSaved(k) \/ SaveAnswered(k) \/ ((k \notin alive \/ ~signedIn) /\ SaveErrs(k))
ReadSteps(s) ==
  ReadDocument(s) \/ Fetched(s) \/ ((fetch[s].result = Missing \/ ~signedIn) /\ FetchFails(s))
LoopSteps == QueueTimer \/ Refresh \/ RefreshStale \/ RefreshEnds
RailSteps == ReadRail \/ ((railFetch.result # Unread \/ ~signedIn) /\ RailAnswers)

Fairness ==
  /\ \A k \in Keys : WF_vars(QueueSteps(k)) /\ WF_vars(SaveSteps(k))
  /\ \A s \in Slots : WF_vars(ReadSteps(s))
  /\ WF_vars(ChangeEvent) /\ WF_vars(LoopSteps) /\ WF_vars(RailSteps)

FairSpec == Spec /\ Fairness

-----------------------------------------------------------------------------
(* Types; a call is awaited by a round only while the round runs, and the  *)
(* queue's timer and its loop are never both at work (LiveUpdateQueue).    *)
Calls == [is : BOOLEAN, key : Keys \cup {{}}, generation : Nat,
          result : Nat \cup {Unread, Missing}, by : {"round", "alone", "abandoned"}]
ViewTypeOK ==
  /\ clock \in Nat /\ version \in [Keys -> 1..clock] /\ alive \subseteq Keys
  /\ cursor \in 1..clock \cup {Undefined, Unwatched}
  /\ window \in {"open", "leaving", "entered"}
  /\ shown \in [Keys -> 0..clock]
  /\ gone \subseteq Keys /\ deferred \subseteq Keys /\ pending.gone \subseteq Keys
  /\ fetch \in [Slots -> Calls] /\ railFetch \in Calls
  /\ loop \in {"idle", "prelude", "refreshing"} /\ ~(armed /\ loop # "idle")
  /\ (railFetch.by = "round" \/ \E s \in Slots : fetch[s].by = "round") => loop = "refreshing"

(* A tab shows what was read in the selected environment, whatever calls   *)
(* of the previous one are still in flight (environmentGeneration).        *)
OwnEnvironment == \A k \in Keys : shown[k] # 0 => origin[k] = generation

(* While a document has a draft, no live update replaces or closes it      *)
(* (README.md:1064, "preserved rather than overwritten").                  *)
DraftKept ==
  [][\A k \in Keys : IsDirty(k) /\ IsDirty(k)' => shown'[k] = shown[k]]_vars

(* What a tab shows never goes back to an older version of the document,   *)
(* in whatever order answers of refreshes and saves arrive.                *)
NeverBackwards ==
  [][\A k \in Keys : generation' = generation /\ shown'[k] # 0 => shown'[k] >= shown[k]]_vars

(* Once writes stop, an open tab without a draft shows the newest version  *)
(* of its document, or an error is shown; the tab of a deleted document is *)
(* closed or an error is shown.  This is so while a watch runs: none does  *)
(* while signed out, or once Connected has thrown.                         *)
EventuallyFresh ==
  \A k \in Keys :
    []<>(\/ cursor = Unwatched
         \/ shown[k] = 0 \/ IsDirty(k) \/ liveError \/ (k \in alive /\ shown[k] = version[k]))

(* README.md:1062: "External MCP writes refresh the Active rail and open   *)
(* documents, coalescing bursts of changes": once writes stop, the rail    *)
(* shows a state of the store that has them all.                           *)
RailEventuallyFresh == []<>rail
=============================================================================
