--------------------------- MODULE EmbeddingIndex ---------------------------
(***************************************************************************)
(* The index of embeddings of an instance (topicEmbeddings.ts), the        *)
(* background indexer and the semantic search that use it                  *)
(* (embeddingIndexer.ts), and the host service that computes vectors, one  *)
(* request at a time (embeddingHostService.ts).  Documents are written     *)
(* while vectors are computed, an external worker may fetch and submit     *)
(* work through the MCP tools, the operator pauses, disables and retries,  *)
(* requests fail, hang and are aborted, and the control plane restarts.    *)
(*                                                                         *)
(* A version is only ever compared with the current one, so a copy of a    *)
(* document (work, an index row) carries whether its version is current.   *)
(* A text is the title and body that are hashed and embedded; the vectors  *)
(* of a row are those of its "text", whose hash is its content_hash.       *)
(***************************************************************************)
EXTENDS Naturals, FiniteSets

CONSTANTS Docs, Texts,
          MaxRepairs,   \* rows one call of nextEmbeddingWork repairs at most
          MaxWrites,    \* bounds: writes of documents,
          MaxChanges,   \* changes of the settings, the Search feature or access,
          MaxSearches,  \* searches,
          MaxFaults     \* failed, lost or invalid answers, and restarts

ASSUME IndexAssumption == MaxRepairs \in Nat \ {0} /\ IsFiniteSet(Docs) /\ Texts # {}

VARIABLES
  doc,        \* the documents of an indexed kind
  row,        \* topic_embedding_index, with its passages
  settings,   \* instance_embedding_settings: enabled, paused (a host is installed)
  features,   \* what the tools read at each call: the Search feature, and the caller's access
  indexer,    \* EmbeddingIndexer: stopped, halted, timer, and the work of the running tick
  request,    \* the /embed request of the tick and of the search
  search,     \* a call of wm-semantic-search
  busy,       \* the host service's flag
  worker,     \* work an external indexer holds
  used        \* how much of each bound is used

vars == <<doc, row, settings, features, indexer, request, search, busy, worker, used>>

None == [none |-> TRUE]
Clients == {"indexer", "search"}
\* A request waits for the host ("sent", "served"), or has its answer.
Failures == {"failed", "invalid", "lost"}   \* HTTP 500, vectors the schema refuses, no answer
Waiting == {"sent", "served"}
Statuses == {"none", "aborted", "refused", "done"} \cup Waiting \cup Failures

Use(bound, max) == used[bound] < max /\ used' = [used EXCEPT ![bound] = @ + 1]

\* (Texts of different documents are never compared, so all may begin with the same.)
Init ==
  /\ doc = [d \in Docs |-> [live |-> TRUE, text |-> CHOOSE t \in Texts : TRUE]]
  /\ row = [d \in Docs |-> None]
  /\ settings \in [enabled : BOOLEAN, paused : BOOLEAN]
  /\ features \in [search : BOOLEAN, access : {TRUE}]
  /\ indexer = [stopped |-> FALSE, halted |-> FALSE, timer |-> TRUE, work |-> None]
  /\ request = [c \in Clients |-> "none"]
  /\ search = "idle" /\ busy = FALSE /\ worker = None
  /\ used = [writes |-> 0, changes |-> 0, searches |-> 0, faults |-> 0]

-----------------------------------------------------------------------------
(* The index (topicEmbeddings.ts).                                         *)
Live == {d \in Docs : doc[d].live}
Indexed(rows) == {d \in Live : rows[d] # None /\ rows[d].current}
Pending(rows) == Live \ Indexed(rows)

\* faulty: the content is not compared
RepairableUnchecked(d) == row[d] # None
\* Documents whose embedded content is what their row was computed from.
Repairable(d) == row[d] # None /\ row[d].text = doc[d].text
Repairs == {d \in Pending(row) : Repairable(d)}

\* nextEmbeddingWork: the rows R are repaired, then the document of W, if any, is handed out.
\* (The newest update goes first; documents written in the same second go in any order.)
NextWork(R, W, rows, work) ==
  /\ R \subseteq Repairs /\ Cardinality(R) <= MaxRepairs
  /\ W \subseteq Pending(row) \ Repairs /\ Cardinality(W) <= 1
  /\ IF W = {} THEN Cardinality(R) = MaxRepairs \/ R = Pending(row)
               ELSE Cardinality(R) < MaxRepairs
  /\ rows = [d \in Docs |-> IF d \in R THEN [row[d] EXCEPT !.current = TRUE] ELSE row[d]]
  /\ work = IF W = {} THEN None
            ELSE LET d == CHOOSE d \in W : TRUE IN [doc |-> d, text |-> doc[d].text, current |-> TRUE]

\* faulty: the version of the work is not compared
SubmittedUnchecked(w) ==
  IF w.doc \in Live THEN [row EXCEPT ![w.doc] = [text |-> w.text, current |-> TRUE]] ELSE row
\* submitEmbeddings: refused unless the document is live at the version of the work.
Submitted(w) ==
  IF w.doc \in Live /\ w.current THEN [row EXCEPT ![w.doc] = [text |-> w.text, current |-> TRUE]] ELSE row

\* A copy of a document after the document was written.
Stale(w, d) == IF w # None /\ w.doc = d THEN [w EXCEPT !.current = FALSE] ELSE w

\* Any write of d gives it a new version; a deleted document's row goes by a trigger.
Write(d, new) ==
  /\ ~indexer.stopped /\ Use("writes", MaxWrites)
  /\ doc' = [doc EXCEPT ![d] = new]
  /\ row' = [row EXCEPT ![d] = IF ~new.live \/ @ = None THEN None
                                 ELSE [text |-> @.text, current |-> FALSE]]
  /\ indexer' = [indexer EXCEPT !.work = Stale(@, d)] /\ worker' = Stale(worker, d)
  /\ UNCHANGED <<settings, features, request, search, busy>>

Edit(d, text) == d \in Live /\ Write(d, [live |-> TRUE, text |-> text])
Delete(d) == d \in Live /\ Write(d, [doc[d] EXCEPT !.live = FALSE])
Restore(d) == d \notin Live /\ Write(d, [doc[d] EXCEPT !.live = TRUE])

\* wm-embeddings-next and wm-embeddings-submit, which need the Search feature.
WorkerFetches ==
  /\ ~indexer.stopped /\ features.search
  /\ \E R, W \in SUBSET Docs : NextWork(R, W, row', worker')
  /\ UNCHANGED <<doc, settings, features, indexer, request, search, busy, used>>
WorkerSubmits ==
  /\ ~indexer.stopped /\ features.search /\ worker # None
  /\ row' = Submitted(worker) /\ worker' = None
  /\ UNCHANGED <<doc, settings, features, indexer, request, search, busy, used>>

-----------------------------------------------------------------------------
(* The background indexer.                                                 *)
Running == request["indexer"] # "none"
Willing == ~indexer.halted /\ settings.enabled /\ ~settings.paused /\ features.search

\* The timer fires: a tick, whose end schedules the next, runs to its request to the host, if any.
Tick ==
  /\ ~indexer.stopped /\ indexer.timer /\ ~Running /\ Willing
  /\ \E R, W \in SUBSET Docs, work \in {None} \cup [doc : Docs, text : Texts, current : {TRUE}] :
       /\ NextWork(R, W, row', work)
       /\ indexer' = [indexer EXCEPT !.timer = (work = None), !.work = work]
       /\ request' = IF work = None THEN request ELSE [request EXCEPT !["indexer"] = "sent"]
  /\ UNCHANGED <<doc, settings, features, search, busy, worker, used>>

\* The timer configure set fires while a tick is running: nothing.
TimerMissed ==
  /\ ~indexer.stopped /\ indexer.timer /\ Running
  /\ indexer' = [indexer EXCEPT !.timer = FALSE]
  /\ UNCHANGED <<doc, row, settings, features, request, search, busy, worker, used>>

\* How a tick ends: it forgets its work, and schedules the next.
\* faulty: an aborted tick does not schedule the next
EndedAbortedSilently(halts) ==
  [indexer EXCEPT !.work = None, !.halted = @ \/ halts,
                  !.timer = IF request["indexer"] = "aborted" THEN @ ELSE ~indexer.stopped]
Ended(halts) == [indexer EXCEPT !.work = None, !.halted = @ \/ halts, !.timer = ~indexer.stopped]

\* The tick goes on with its answer: a 409 or no answer is tried again, anything else halts.
TickEnds ==
  /\ request["indexer"] \notin Waiting \cup {"none"}
  /\ row' = IF request["indexer"] = "done" THEN Submitted(indexer.work) ELSE row
  /\ indexer' = Ended(request["indexer"] \in {"failed", "invalid"})
  /\ request' = [request EXCEPT !["indexer"] = "none"]
  /\ UNCHANGED <<doc, settings, features, search, busy, worker, used>>

\* controller.abort(): the answer, if it has come, no longer counts.
AbortedTick == IF Running THEN [request EXCEPT !["indexer"] = "aborted"] ELSE request

\* wm-embeddings-configure.
\* faulty: the running tick goes on
ConfiguredKeepingTick(action) ==
  /\ request' = request
  /\ indexer' = [indexer EXCEPT !.halted = FALSE, !.timer = TRUE]
Configured(action) ==
  /\ request' = AbortedTick
  /\ indexer' = [indexer EXCEPT !.halted = FALSE, !.timer = TRUE]
Configure(action) ==
  /\ ~indexer.stopped /\ Use("changes", MaxChanges)
  /\ action = "run" => features.search
  /\ settings' = CASE action = "run" -> [enabled |-> TRUE, paused |-> FALSE]   \* enable, resume, retry
                   [] action = "pause" -> [settings EXCEPT !.paused = TRUE]
                   [] action = "disable" -> [enabled |-> FALSE, paused |-> FALSE]
  /\ Configured(action)
  /\ UNCHANGED <<doc, row, features, search, busy, worker>>

\* The Search feature is switched; the caller's credential is revoked or narrowed.
ChangeFeatures(feature) ==
  /\ ~indexer.stopped /\ Use("changes", MaxChanges)
  /\ feature = "access" => features.access
  /\ features' = [features EXCEPT ![feature] = ~@]
  /\ UNCHANGED <<doc, row, settings, indexer, request, search, busy, worker>>

-----------------------------------------------------------------------------
(* Search.                                                                 *)
Ready(rows) == features.search /\ features.access /\ settings.enabled /\ Pending(rows) = {}
Searching == search \in {"asking", "backing_off"}

\* requireReady comes before the first request, before each further one, and before the ranking.
SearchStarts ==
  /\ ~indexer.stopped /\ ~Searching /\ Use("searches", MaxSearches)
  /\ IF Ready(row) /\ Live # {}
     THEN search' = "asking" /\ request' = [request EXCEPT !["search"] = "sent"]
     ELSE search' = (IF Ready(row) THEN "answered" ELSE "refused") /\ UNCHANGED request
  /\ UNCHANGED <<doc, row, settings, features, indexer, busy, worker>>

\* faulty: the documents are not looked at again after the vectors of the query came
RankedUnchecked(status) ==
  CASE status = "refused" -> "backing_off" [] status = "done" -> "answered" [] OTHER -> "refused"
Ranked(status) ==
  CASE status = "refused" -> "backing_off"
    [] status = "done" /\ Ready(row) -> "answered"
    [] OTHER -> "refused"

SearchGoesOn ==
  /\ search = "asking" /\ request["search"] \notin Waiting
  /\ search' = Ranked(request["search"])
  /\ request' = [request EXCEPT !["search"] = "none"]
  /\ UNCHANGED <<doc, row, settings, features, indexer, busy, worker, used>>

SearchRetries ==
  /\ search = "backing_off"
  /\ IF Ready(row) THEN search' = "asking" /\ request' = [request EXCEPT !["search"] = "sent"]
                   ELSE search' = "refused" /\ UNCHANGED request
  /\ UNCHANGED <<doc, row, settings, features, indexer, busy, worker, used>>

\* The caller cancels, or the 60 seconds for the inference pass.
SearchCancelled ==
  /\ Searching
  /\ search' = "refused" /\ request' = [request EXCEPT !["search"] = "none"]
  /\ UNCHANGED <<doc, row, settings, features, indexer, busy, worker, used>>

-----------------------------------------------------------------------------
(* The host service.                                                       *)
HostReceives(c) ==
  /\ request[c] = "sent"
  /\ request' = [request EXCEPT ![c] = IF busy THEN "refused" ELSE "served"]
  /\ busy' = TRUE
  /\ UNCHANGED <<doc, row, settings, features, indexer, search, worker, used>>

HostAnswers(c) ==
  /\ request[c] = "served"
  /\ \/ request' = [request EXCEPT ![c] = "done"] /\ UNCHANGED used
     \/ \E f \in {"failed", "invalid"} : request' = [request EXCEPT ![c] = f] /\ Use("faults", MaxFaults)
  /\ busy' = FALSE
  /\ UNCHANGED <<doc, row, settings, features, indexer, search, worker>>

\* The connection of a request that was aborted is closed: its inference is stopped.
HostFrees ==
  /\ busy /\ \A c \in Clients : request[c] # "served"
  /\ busy' = FALSE
  /\ UNCHANGED <<doc, row, settings, features, indexer, request, search, worker, used>>

\* No answer comes (a lost connection, the 300 seconds of a tick), or the host service ends.
AnswerLost(c) ==
  /\ request[c] \in Waiting /\ Use("faults", MaxFaults)
  /\ request' = [request EXCEPT ![c] = "lost"]
  /\ UNCHANGED <<doc, row, settings, features, indexer, search, busy, worker>>
HostEnds ==
  /\ \E c \in Clients : request[c] \in Waiting
  /\ Use("faults", MaxFaults)
  /\ request' = [c \in Clients |-> IF request[c] \in Waiting THEN "lost" ELSE request[c]]
  /\ busy' = FALSE
  /\ UNCHANGED <<doc, row, settings, features, indexer, search, worker>>

-----------------------------------------------------------------------------
(* The control plane stops (stop awaits the aborted tick) or crashes; the  *)
(* database stays.                                                         *)
Stop ==
  /\ ~indexer.stopped /\ Use("faults", MaxFaults)
  /\ indexer' = [indexer EXCEPT !.stopped = TRUE, !.timer = FALSE]
  /\ request' = [AbortedTick EXCEPT !["search"] = "none"]
  /\ search' = IF Searching THEN "refused" ELSE search
  /\ UNCHANGED <<doc, row, settings, features, busy, worker>>
Start ==
  /\ indexer.stopped /\ ~Running
  /\ indexer' = [indexer EXCEPT !.stopped = FALSE, !.halted = FALSE, !.timer = TRUE]
  /\ UNCHANGED <<doc, row, settings, features, request, search, busy, worker, used>>

Next ==
  \/ \E d \in Docs : (\E t \in Texts : Edit(d, t)) \/ Delete(d) \/ Restore(d)
  \/ WorkerFetches \/ WorkerSubmits
  \/ Tick \/ TimerMissed \/ TickEnds
  \/ \E a \in {"run", "pause", "disable"} : Configure(a)
  \/ \E f \in {"search", "access"} : ChangeFeatures(f)
  \/ SearchStarts \/ SearchGoesOn \/ SearchRetries \/ SearchCancelled
  \/ \E c \in Clients : HostReceives(c) \/ HostAnswers(c) \/ AnswerLost(c)
  \/ HostFrees \/ HostEnds \/ Stop \/ Start

\* Timers fire, promises go on, and the host service takes and answers what it is sent.
Fairness ==
  /\ WF_vars(Tick) /\ WF_vars(TimerMissed) /\ WF_vars(TickEnds) /\ WF_vars(Start)
  /\ WF_vars(SearchGoesOn) /\ WF_vars(SearchRetries)
  /\ \A c \in Clients : WF_vars(HostReceives(c)) /\ WF_vars(HostAnswers(c))
  /\ WF_vars(HostFrees)

Spec == Init /\ [][Next]_vars
FairSpec == Spec /\ Fairness

-----------------------------------------------------------------------------
Works == {None} \cup [doc : Docs, text : Texts, current : BOOLEAN]

(* Types; a tick that waits for the host has work.                         *)
IndexTypeOK ==
  /\ doc \in [Docs -> [live : BOOLEAN, text : Texts]]
  /\ row \in [Docs -> {None} \cup [text : Texts, current : BOOLEAN]]
  /\ settings \in [enabled : BOOLEAN, paused : BOOLEAN]
  /\ features \in [search : BOOLEAN, access : BOOLEAN]
  /\ indexer \in [stopped : BOOLEAN, halted : BOOLEAN, timer : BOOLEAN, work : Works]
  /\ request \in [Clients -> Statuses]
  /\ search \in {"idle", "asking", "backing_off", "answered", "refused"}
  /\ busy \in BOOLEAN /\ worker \in Works
  /\ Running <=> indexer.work # None

(* Vectors that count as current are those of the document as it is: none  *)
(* computed from an earlier text becomes current, whoever computed it,     *)
(* however late it is submitted, and whatever was written, deleted or      *)
(* restored in between (submitEmbeddings and nextEmbeddingWork).           *)
NoStaleVectors == \A d \in Docs : row[d] # None /\ row[d].current => doc[d].live /\ row[d].text = doc[d].text

(* A search is answered only while Search and Embeddings are on, the       *)
(* caller may still read, and every live document is ranked by vectors of  *)
(* its present text, whatever happened while the query was computed.       *)
AnswersAreWhole ==
  [][search' = "answered" /\ search # "answered" =>
       /\ features.search /\ features.access /\ settings.enabled
       /\ \A d \in Live : row[d] # None /\ row[d].current /\ row[d].text = doc[d].text]_vars

(* Once indexing is paused or disabled (or the process stops) the indexer  *)
(* stores nothing, not even what it was waiting for.                       *)
StopsWhenTold ==
  [][row' # row /\ Running /\ request'["indexer"] = "none" =>
       settings.enabled /\ ~settings.paused /\ ~indexer.stopped]_vars

(* An enabled indexer that is not halted ends with every document indexed, *)
(* after busy, lost and aborted requests, repairs and restarts.            *)
EventuallyIndexed ==
  <>[](Willing /\ ~indexer.stopped) => <>[](Pending(row) = {})
=============================================================================
