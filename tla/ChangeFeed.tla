----------------------------- MODULE ChangeFeed -----------------------------
(***************************************************************************)
(* GET /changes: the control plane's commit-driven change feed together    *)
(* with the long-polling loop of the desktops that watch it.               *)
(*                                                                         *)
(* The store is reduced to what the feed sees of it: every transaction     *)
(* stamps the documents it wrote with consecutive versions and tells its   *)
(* listeners after the commit, in the same turn of the event loop.  The    *)
(* feed keeps the last HistoryLimit changes.  A poll is answered at once   *)
(* when its cursor differs from the feed's version and is parked           *)
(* otherwise.  The daemon may close the feed while it still serves         *)
(* requests, exit with polls parked, crash, and start again with an empty  *)
(* history after migrations that write without telling anyone.             *)
(***************************************************************************)
EXTENDS Integers, Sequences

CONSTANTS Docs, Watchers,
          HistoryLimit,  \* 256 in the code
          MaxVersion,    \* bound on the number of writes
          MaxFaults      \* bound on lost polls, feed closings and exits

ASSUME FeedAssumption ==
  /\ HistoryLimit \in Nat \ {0}
  /\ MaxVersion \in Nat
  /\ MaxFaults \in Nat

VARIABLES
  resourceVersion, \* store_meta.resource_version
  docVersion,      \* the resource_version of each document, 0 while it has no row
  feed,            \* "open"; "closed": unsubscribed, HTTP still served; "down"
  version,         \* the feed's version
  history,         \* the feed's replay window, oldest change first
  watch,           \* where each watcher's loop is
  since,           \* the loop's version variable
  answer,          \* the response on its way to a watcher
  seen,            \* the version of each document when onChange last made it be read
  faults

vars == <<resourceVersion, docVersion, feed, version, history,
          watch, since, answer, seen, faults>>
storeVars == <<resourceVersion, docVersion>>
feedVars == <<feed, version, history>>

Undefined == -1
Change == [id : Docs, resourceVersion : Nat]
Answer == [resourceVersion : Nat, reset : BOOLEAN, changes : SUBSET Change]
NoAnswer == [resourceVersion |-> 0, reset |-> FALSE, changes |-> {}]

\* The documents one transaction writes, in order; updateDocuments refuses duplicates.
Batches == UNION {{b \in [1..n -> Docs] : \A i, j \in 1..n : b[i] = b[j] => i = j} :
                    n \in 1..MaxVersion}

-----------------------------------------------------------------------------
(* snapshot(cursor): the answer of a feed with version v and changes h.    *)
(* The change that took the store from its start to h[1] may be missing,   *)
(* so a cursor below h[1].resourceVersion - 1 cannot be replayed.          *)
(* The two variants before it are faulty, to see properties fail.          *)
ReplayFloorOffByOne(v, h) == IF h = <<>> THEN v ELSE h[1].resourceVersion - 2
ReplayFloorOfRestartLost(v, h) == IF h = <<>> THEN 0 ELSE h[1].resourceVersion - 1
ReplayFloor(v, h) == IF h = <<>> THEN v ELSE h[1].resourceVersion - 1

Snapshot(cursor, v, h) ==
  LET reset == \/ cursor = Undefined
               \/ cursor > v
               \/ cursor < v /\ cursor < ReplayFloor(v, h)
  IN  [resourceVersion |-> v,
       reset |-> reset,
       changes |-> IF reset THEN {}
                   ELSE {c \in {h[i] : i \in 1..Len(h)} : c.resourceVersion > cursor}]

\* The last n elements of s: history.splice(0, history.length - n).
LastN(s, n) == IF Len(s) <= n THEN s ELSE SubSeq(s, Len(s) - n + 1, Len(s))

\* notifyDocumentsChanged turns the written rows into change entries.
ChangesOf(b) == [i \in 1..Len(b) |-> [id |-> b[i], resourceVersion |-> resourceVersion + i]]

\* Every parked poll is answered from a feed with version v and changes h.
RespondAll(v, h) ==
  /\ watch' = [w \in Watchers |-> IF watch[w] = "parked" THEN "answered" ELSE watch[w]]
  /\ answer' = [w \in Watchers |-> IF watch[w] = "parked" THEN Snapshot(since[w], v, h)
                                   ELSE answer[w]]

-----------------------------------------------------------------------------
Init ==
  /\ resourceVersion = 0
  /\ docVersion = [d \in Docs |-> 0]
  /\ feed = "open"
  /\ version = 0
  /\ history = <<>>
  /\ watch = [w \in Watchers |-> "idle"]
  /\ since = [w \in Watchers |-> Undefined]
  /\ answer = [w \in Watchers |-> NoAnswer]
  /\ seen = [w \in Watchers |-> [d \in Docs |-> 0]]
  /\ faults = 0

(* A transaction of the store: one version per document, and one           *)
(* notification with all of them once it has committed.                    *)
Stamp(b) ==
  /\ resourceVersion' = resourceVersion + Len(b)
  /\ docVersion' = [d \in Docs |->
       IF \E i \in 1..Len(b) : b[i] = d
         THEN resourceVersion + CHOOSE i \in 1..Len(b) : b[i] = d
         ELSE docVersion[d]]

\* onChange of the feed's listener; the faulty variant does not answer the parked polls.
NotifyListenersOnly(b) ==
  /\ history' = LastN(history \o ChangesOf(b), HistoryLimit)
  /\ version' = resourceVersion + Len(b)
  /\ UNCHANGED <<watch, answer>>

NotifyListeners(b) ==
  /\ history' = LastN(history \o ChangesOf(b), HistoryLimit)
  /\ version' = resourceVersion + Len(b)
  /\ RespondAll(version', history')

Commit(b) ==
  /\ feed # "down"
  /\ resourceVersion + Len(b) <= MaxVersion
  /\ Stamp(b)
  /\ \/ feed = "open" /\ NotifyListeners(b)
     \/ feed = "closed" /\ UNCHANGED <<history, version, watch, answer>>
  /\ UNCHANGED <<feed, since, seen, faults>>

(* handle: answer at once unless the poll's cursor is the feed's version.  *)
Poll(w) ==
  /\ watch[w] = "idle" /\ feed # "down"
  /\ \/ /\ since[w] # version
        /\ watch' = [watch EXCEPT ![w] = "answered"]
        /\ answer' = [answer EXCEPT ![w] = Snapshot(since[w], version, history)]
     \/ /\ since[w] = version
        /\ watch' = [watch EXCEPT ![w] = "parked"]
        /\ UNCHANGED answer
  /\ UNCHANGED <<storeVars, feedVars, since, seen, faults>>

(* The 25 second timer of a parked poll.                                   *)
PollTimeout(w) ==
  /\ watch[w] = "parked"
  /\ watch' = [watch EXCEPT ![w] = "answered"]
  /\ answer' = [answer EXCEPT ![w] = Snapshot(since[w], version, history)]
  /\ UNCHANGED <<storeVars, feedVars, since, seen, faults>>

-----------------------------------------------------------------------------
(* watchDocumentChanges handles a response.  onChange carries no content:  *)
(* the desktop reads everything again on a reset, and the named documents  *)
(* otherwise, so it gets at least the versions they have now.              *)
Told(w, a) ==
  [d \in Docs |-> IF a.reset \/ \E c \in a.changes : c.id = d THEN docVersion[d]
                  ELSE seen[w][d]]

Deliver(w) ==
  /\ watch[w] = "answered"
  /\ LET a == answer[w] IN
       /\ seen' = IF a.reset \/ a.resourceVersion # since[w]
                    THEN [seen EXCEPT ![w] = Told(w, a)]
                    ELSE seen
       /\ since' = [since EXCEPT ![w] = a.resourceVersion]
  /\ watch' = [watch EXCEPT ![w] = "idle"]
  /\ answer' = [answer EXCEPT ![w] = NoAnswer]
  /\ UNCHANGED <<storeVars, feedVars, faults>>

\* A poll or its response is lost, times out after 35 seconds, or is answered with an
\* HTTP error such as 401: watchDocumentChanges throws and its version variable is gone.
Lose(w) ==
  /\ watch[w] # "backoff"
  /\ \/ feed = "down" /\ watch[w] = "idle" /\ UNCHANGED faults
     \/ faults < MaxFaults /\ faults' = faults + 1
  /\ watch' = [watch EXCEPT ![w] = "backoff"]
  /\ since' = [since EXCEPT ![w] = Undefined]
  /\ answer' = [answer EXCEPT ![w] = NoAnswer]
  /\ UNCHANGED <<storeVars, feedVars, seen>>

(* startDocumentChanges waits 1 to 30 seconds and watches again.           *)
Retry(w) ==
  /\ watch[w] = "backoff"
  /\ watch' = [watch EXCEPT ![w] = "idle"]
  /\ UNCHANGED <<storeVars, feedVars, since, answer, seen, faults>>

-----------------------------------------------------------------------------
(* close: stop listening to the store and answer what is parked.  The HTTP *)
(* server keeps accepting polls until the sessions are closed.             *)
CloseFeed ==
  /\ feed = "open"
  /\ faults < MaxFaults /\ faults' = faults + 1
  /\ feed' = "closed"
  /\ RespondAll(version, history)
  /\ UNCHANGED <<storeVars, version, history, since, seen>>

(* The process ends, after a close or without one: parked connections are  *)
(* dropped and their fetches throw; a response already sent still arrives. *)
Exit ==
  /\ \/ feed = "closed" /\ UNCHANGED faults
     \/ feed = "open" /\ faults < MaxFaults /\ faults' = faults + 1
  /\ feed' = "down"
  /\ watch' = [w \in Watchers |-> IF watch[w] = "parked" THEN "backoff" ELSE watch[w]]
  /\ since' = [w \in Watchers |-> IF watch[w] = "parked" THEN Undefined ELSE since[w]]
  /\ UNCHANGED <<storeVars, version, history, answer, seen>>

(* A new daemon opens the store, whose migrations may write documents      *)
(* before anyone listens, and creates a feed at the version it then has.   *)
Start ==
  /\ feed = "down"
  /\ \/ UNCHANGED storeVars
     \/ \E d \in Docs : resourceVersion < MaxVersion /\ Stamp(<<d>>)
  /\ feed' = "open"
  /\ version' = resourceVersion'
  /\ history' = <<>>
  /\ UNCHANGED <<watch, since, answer, seen, faults>>

Next ==
  \/ \E b \in Batches : Commit(b)
  \/ \E w \in Watchers :
       Poll(w) \/ PollTimeout(w) \/ Deliver(w) \/ Lose(w) \/ Retry(w)
  \/ CloseFeed \/ Exit \/ Start

Spec == Init /\ [][Next]_vars

(* The desktop's loop runs on; a closing daemon exits and is started       *)
(* again.  Nothing obliges a store write, a fault or a poll timeout.       *)
Fairness ==
  /\ \A w \in Watchers : /\ WF_vars(Poll(w)) /\ WF_vars(Deliver(w)) /\ WF_vars(Retry(w))
                         /\ WF_vars(feed = "down" /\ Lose(w))
  /\ WF_vars(feed = "closed" /\ Exit)
  /\ WF_vars(Start)

FairSpec == Spec /\ Fairness

-----------------------------------------------------------------------------
(* Every variable has its type, and the replay window keeps its bound.     *)
TypeOK ==
  /\ resourceVersion \in Nat
  /\ docVersion \in [Docs -> Nat]
  /\ feed \in {"open", "closed", "down"}
  /\ version \in Nat
  /\ history \in Seq(Change) /\ Len(history) <= HistoryLimit
  /\ watch \in [Watchers -> {"idle", "parked", "answered", "backoff"}]
  /\ since \in [Watchers -> Nat \cup {Undefined}]
  /\ answer \in [Watchers -> Answer]
  /\ seen \in [Watchers -> [Docs -> Nat]]
  /\ faults \in 0..MaxFaults

(* A watcher whose cursor is at version v was told of the newest write of  *)
(* every document whose newest write is at or below v: no trimmed history, *)
(* restart, silent migration or closed feed makes it miss one (the reset   *)
(* rule of snapshot, documentChangeFeed.ts).                               *)
NoSilentMiss ==
  \A w \in Watchers : since[w] # Undefined =>
    \A d \in Docs : docVersion[d] <= since[w] => seen[w][d] = docVersion[d]

(* The abstract promise of the live-update path.                           *)
Promise == INSTANCE ChangeNotification WITH cursor <- since
Notifies == Promise!Spec

(* Once faults stop, every committed write is eventually handed to every   *)
(* watcher's onChange, also across a restart of the daemon.                *)
EventuallyTold ==
  \A w \in Watchers, d \in Docs, n \in 1..MaxVersion :
    docVersion[d] = n ~> seen[w][d] >= n
=============================================================================
