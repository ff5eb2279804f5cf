------------------------ MODULE EmbeddingIndexProofs ------------------------
(***************************************************************************)
(* What is proved about the index of embeddings, for any documents, texts  *)
(* and bounds: vectors that count as current are those of the present      *)
(* text, a search is answered from a whole index, and an indexer that was  *)
(* told to stop stores nothing.                                            *)
(***************************************************************************)
EXTENDS EmbeddingIndex, TLAPS

Rows == {None} \cup [text : Texts, current : BOOLEAN]

\* A copy of a document that counts as current shows the document as it is.
TrueCopy(w) == w # None /\ w.current => w.doc \in Live /\ w.text = doc[w.doc].text
TrueRows(rows) == \A d \in Docs : rows[d] # None /\ rows[d].current => doc[d].live /\ rows[d].text = doc[d].text

\* A tick that was not aborted is one the settings still allow.
TickAllowed ==
  Running /\ request["indexer"] # "aborted" => settings.enabled /\ ~settings.paused /\ ~indexer.stopped

IndexInv == IndexTypeOK /\ NoStaleVectors /\ TrueCopy(indexer.work) /\ TrueCopy(worker) /\ TickAllowed

-----------------------------------------------------------------------------
(* A row and a work item are told from None by their fields.               *)
LEMMA NotNone ==
  /\ \A t, c : [text |-> t, current |-> c] # None
  /\ \A d, t, c : [doc |-> d, text |-> t, current |-> c] # None
  /\ \A r \in [text : Texts, current : BOOLEAN] : r # None
  /\ \A w \in [doc : Docs, text : Texts, current : BOOLEAN] : w # None
BY DEF None

(* What nextEmbeddingWork leaves and hands out is true of the documents.   *)
LEMMA NextWorkIsTrue ==
  ASSUME IndexInv, NEW R, NEW W, NEW rows, NEW work, NextWork(R, W, rows, work)
  PROVE  /\ rows \in [Docs -> Rows] /\ TrueRows(rows)
         /\ work \in Works /\ TrueCopy(work)
<1>1. doc \in [Docs -> [live : BOOLEAN, text : Texts]] /\ row \in [Docs -> Rows]
  BY DEF IndexInv, IndexTypeOK, Rows
<1>2. rows = [d \in Docs |-> IF d \in R THEN [row[d] EXCEPT !.current = TRUE] ELSE row[d]]
  BY DEF NextWork
<1>3. ASSUME NEW d \in Docs, d \in R
      PROVE  rows[d] = [text |-> doc[d].text, current |-> TRUE] /\ doc[d].live
  <2>1. doc[d].live /\ row[d] # None /\ row[d].text = doc[d].text
    BY <1>3 DEF NextWork, Repairs, Pending, Repairable, Live
  <2>2. row[d] \in [text : Texts, current : BOOLEAN]
    BY <1>1, <2>1 DEF Rows
  <2> QED
    BY <1>2, <1>3, <2>1, <2>2
<1>4. ASSUME NEW d \in Docs, d \notin R PROVE rows[d] = row[d]
  BY <1>2, <1>4
<1>5. rows \in [Docs -> Rows]
  <2>1. ASSUME NEW d \in Docs PROVE rows[d] \in Rows
    <3>1. CASE d \in R
      <4>1. rows[d] = [text |-> doc[d].text, current |-> TRUE]
        BY <1>3, <3>1
      <4>2. doc[d].text \in Texts
        BY <1>1
      <4> QED
        BY <4>1, <4>2 DEF Rows
    <3> QED
      BY <1>1, <1>4, <3>1
  <2> QED
    BY <1>2, <2>1
<1>6. TrueRows(rows)
  <2>1. ASSUME NEW d \in Docs, rows[d] # None, rows[d].current
        PROVE  doc[d].live /\ rows[d].text = doc[d].text
    <3>1. CASE d \in R
      <4>1. rows[d] = [text |-> doc[d].text, current |-> TRUE]
        BY <1>3, <3>1
      <4>2. doc[d].live
        BY <1>3, <3>1
      <4> QED
        BY <4>1, <4>2
    <3> QED
      BY <1>4, <2>1, <3>1 DEF IndexInv, NoStaleVectors
  <2> QED
    BY <2>1 DEF TrueRows
<1>7. work \in Works /\ TrueCopy(work)
  <2>1. CASE W = {}
    BY <2>1 DEF NextWork, Works, TrueCopy
  <2>2. CASE W # {}
    <3> DEFINE e == CHOOSE d \in W : TRUE
    <3>1. e \in W
      BY <2>2
    <3>2. e \in Live /\ e \in Docs
      BY <3>1 DEF NextWork, Pending, Live
    <3>3. work = [doc |-> e, text |-> doc[e].text, current |-> TRUE]
      BY <2>2 DEF NextWork
    <3> HIDE DEF e
    <3> QED
      BY <1>1, <3>2, <3>3 DEF Works, TrueCopy
  <2> QED
    BY <2>1, <2>2
<1> QED
  BY <1>5, <1>6, <1>7

(* Submitted work that is a true copy makes a true row.                    *)
LEMMA SubmittedIsTrue ==
  ASSUME IndexInv, NEW w \in Works, w # None, TrueCopy(w)
  PROVE  Submitted(w) \in [Docs -> Rows] /\ TrueRows(Submitted(w))
<1>1. w \in [doc : Docs, text : Texts, current : BOOLEAN]
  BY DEF Works
<1>2. row \in [Docs -> Rows] /\ TrueRows(row)
  BY DEF IndexInv, IndexTypeOK, Rows, NoStaleVectors, TrueRows
<1>3. CASE w.doc \in Live /\ w.current
  <2> DEFINE new == [text |-> w.text, current |-> TRUE]
  <2>1. Submitted(w) = [row EXCEPT ![w.doc] = new]
    BY <1>3 DEF Submitted
  <2>2. new \in Rows /\ w.doc \in Docs
    BY <1>1 DEF Rows
  <2>3. doc[w.doc].live /\ new.text = doc[w.doc].text
    BY <1>3, NotNone DEF TrueCopy, Live
  <2>4. Submitted(w) \in [Docs -> Rows]
    BY <1>2, <2>1, <2>2
  <2>5. \A d \in Docs : Submitted(w)[d] = IF d = w.doc THEN new ELSE row[d]
    BY <1>2, <2>1
  <2> HIDE DEF new
  <2> QED
    BY <1>2, <2>3, <2>4, <2>5 DEF TrueRows
<1>4. CASE ~(w.doc \in Live /\ w.current)
  BY <1>2, <1>4 DEF Submitted
<1> QED
  BY <1>3, <1>4

(* A write makes every copy of the document an old one.                    *)
LEMMA WriteKeeps ==
  ASSUME IndexInv, NEW d \in Docs, NEW new \in [live : BOOLEAN, text : Texts], Write(d, new)
  PROVE  IndexInv'
<1> DEFINE was == row[d]
<1>1. doc' = [doc EXCEPT ![d] = new]
  BY DEF Write
<1>2. row' = [row EXCEPT ![d] = IF ~new.live \/ was = None THEN None
                               ELSE [text |-> was.text, current |-> FALSE]]
  BY DEF Write
<1>3. /\ indexer' = [indexer EXCEPT !.work = Stale(indexer.work, d)] /\ worker' = Stale(worker, d)
      /\ UNCHANGED <<settings, features, request, search, busy>>
  BY DEF Write
<1>4. IndexTypeOK
  BY DEF IndexInv
<1>5. ASSUME NEW w \in Works, TrueCopy(w)
      PROVE  Stale(w, d) \in Works /\ TrueCopy(Stale(w, d))' /\ (Stale(w, d) = None <=> w = None)
  <2>1. CASE w = None
    BY <2>1 DEF Stale, TrueCopy, Works
  <2>2. CASE w # None /\ w.doc = d
    <3>1. w \in [doc : Docs, text : Texts, current : BOOLEAN]
      BY <2>2 DEF Works
    <3>2. Stale(w, d) = [doc |-> w.doc, text |-> w.text, current |-> FALSE]
      BY <2>2, <3>1 DEF Stale
    <3> QED
      BY <2>2, <3>1, <3>2, NotNone DEF TrueCopy, Works
  <2>3. CASE w # None /\ w.doc # d
    <3>1. w.doc \in Docs /\ Stale(w, d) = w
      BY <2>3 DEF Works, Stale
    <3> QED
      BY <1>1, <1>4, <1>5, <2>3, <3>1 DEF TrueCopy, Live, IndexTypeOK
  <2> QED
    BY <2>1, <2>2, <2>3
<1>6. row' \in [Docs -> Rows] /\ (row'[d] # None => row'[d].current = FALSE)
  <2>1. CASE ~new.live \/ was = None
    BY <1>2, <1>4, <2>1 DEF IndexTypeOK, Rows
  <2>2. CASE ~(~new.live \/ was = None)
    <3>1. was \in [text : Texts, current : BOOLEAN]
      BY <1>4, <2>2 DEF IndexTypeOK
    <3>2. row' = [row EXCEPT ![d] = [text |-> was.text, current |-> FALSE]]
      BY <1>2, <2>2
    <3>3. row \in [Docs -> Rows] /\ [text |-> was.text, current |-> FALSE] \in Rows
      BY <1>4, <3>1 DEF IndexTypeOK, Rows
    <3>4. row' \in [Docs -> Rows] /\ row'[d] = [text |-> was.text, current |-> FALSE]
      BY <3>2, <3>3
    <3> QED
      BY <3>4
  <2> QED
    BY <2>1, <2>2
<1>7. NoStaleVectors'
  BY <1>1, <1>2, <1>4, <1>6 DEF NoStaleVectors, IndexInv, IndexTypeOK
<1>8. indexer.work \in Works /\ worker \in Works
  BY <1>4 DEF IndexTypeOK
<1>9. /\ indexer'.work = Stale(indexer.work, d) /\ indexer'.stopped = indexer.stopped
      /\ indexer' \in [stopped : BOOLEAN, halted : BOOLEAN, timer : BOOLEAN, work : Works]
  BY <1>3, <1>4, <1>5, <1>8 DEF IndexTypeOK, IndexInv
<1>10. IndexTypeOK'
  BY <1>1, <1>3, <1>4, <1>5, <1>6, <1>8, <1>9 DEF IndexTypeOK, IndexInv, Rows, Running
<1>11. TrueCopy(indexer.work)' /\ TrueCopy(worker)'
  BY <1>3, <1>5, <1>8, <1>9 DEF IndexInv
<1>12. TickAllowed'
  BY <1>3, <1>9 DEF IndexInv, TickAllowed, Running
<1> QED
  BY <1>7, <1>10, <1>11, <1>12 DEF IndexInv

(* A step that writes no document keeps what is true of rows and copies,   *)
(* if what it changes is.                                                  *)
LEMMA TruthKept ==
  ASSUME IndexInv, doc' = doc, TrueRows(row'), TrueCopy(worker'), TrueCopy(indexer'.work)
  PROVE  NoStaleVectors' /\ TrueCopy(worker)' /\ TrueCopy(indexer.work)'
BY DEF TrueRows, TrueCopy, NoStaleVectors, Live

(* The invariant holds initially.                                          *)
LEMMA IndexInvInit == Init => IndexInv
<1> SUFFICES ASSUME Init PROVE IndexInv
  OBVIOUS
<1> USE IndexAssumption DEF Init
<1>1. (CHOOSE t \in Texts : TRUE) \in Texts
  OBVIOUS
<1>2. doc \in [Docs -> [live : BOOLEAN, text : Texts]] /\ features \in [search : BOOLEAN, access : BOOLEAN]
  BY <1>1
<1>3. None \in Works
  BY DEF Works
<1>4. indexer \in [stopped : BOOLEAN, halted : BOOLEAN, timer : BOOLEAN, work : Works] /\ indexer.work = None
  BY <1>3
<1>5. request \in [Clients -> Statuses] /\ ~Running
  BY DEF Clients, Statuses, Running
<1>6. IndexTypeOK
  BY <1>2, <1>3, <1>4, <1>5 DEF IndexTypeOK
<1> QED
  BY <1>4, <1>5, <1>6 DEF IndexInv, NoStaleVectors, TrueCopy, TickAllowed

(* The steps of the external worker.                                       *)
LEMMA WorkerKeeps == IndexInv /\ (WorkerFetches \/ WorkerSubmits) => IndexInv'
<1> SUFFICES ASSUME IndexInv, WorkerFetches \/ WorkerSubmits PROVE IndexInv'
  OBVIOUS
<1>1. UNCHANGED <<doc, settings, features, indexer, request, search, busy>>
  BY DEF WorkerFetches, WorkerSubmits
<1>2. row' \in [Docs -> Rows] /\ TrueRows(row') /\ worker' \in Works /\ TrueCopy(worker')
  <2>1. CASE WorkerFetches
    <3>1. PICK R \in SUBSET Docs, W \in SUBSET Docs : NextWork(R, W, row', worker')
      BY <2>1 DEF WorkerFetches
    <3> QED
      BY <3>1, NextWorkIsTrue
  <2>2. CASE WorkerSubmits
    <3>1. worker \in Works /\ worker # None /\ TrueCopy(worker) /\ row' = Submitted(worker) /\ worker' = None
      BY <2>2 DEF WorkerSubmits, IndexInv, IndexTypeOK
    <3>2. worker' \in Works /\ TrueCopy(worker')
      BY <3>1 DEF Works, TrueCopy
    <3> QED
      BY <3>1, <3>2, SubmittedIsTrue
  <2> QED
    BY <2>1, <2>2
<1>3. IndexTypeOK'
  BY <1>1, <1>2 DEF IndexInv, IndexTypeOK, Rows, Running
<1>4. TrueCopy(indexer'.work)
  BY <1>1 DEF IndexInv
<1>5. TickAllowed'
  BY <1>1 DEF IndexInv, TickAllowed, Running
<1> QED
  BY <1>1, <1>2, <1>3, <1>4, <1>5, TruthKept DEF IndexInv

(* A tick begins only as the settings allow.                               *)
LEMMA TickKeeps == IndexInv /\ Tick => IndexInv'
<1> SUFFICES ASSUME IndexInv, Tick PROVE IndexInv'
  OBVIOUS
<1>1. PICK R \in SUBSET Docs, W \in SUBSET Docs,
           work \in {None} \cup [doc : Docs, text : Texts, current : {TRUE}] :
        /\ NextWork(R, W, row', work)
        /\ indexer' = [indexer EXCEPT !.timer = (work = None), !.work = work]
        /\ request' = IF work = None THEN request ELSE [request EXCEPT !["indexer"] = "sent"]
  BY DEF Tick
<1>2. UNCHANGED <<doc, settings, features, search, busy, worker>>
  BY DEF Tick
<1>3. row' \in [Docs -> Rows] /\ TrueRows(row') /\ work \in Works /\ TrueCopy(work)
  BY <1>1, NextWorkIsTrue
<1>4. IndexTypeOK
  BY DEF IndexInv
<1>5. /\ indexer' \in [stopped : BOOLEAN, halted : BOOLEAN, timer : BOOLEAN, work : Works]
      /\ indexer'.work = work /\ indexer'.stopped = indexer.stopped
  BY <1>1, <1>3, <1>4 DEF IndexTypeOK
<1>6. request' \in [Clients -> Statuses] /\ (Running' <=> work # None)
  BY <1>1, <1>4 DEF Tick, Running, IndexTypeOK, Clients, Statuses, Waiting
<1>7. IndexTypeOK'
  BY <1>2, <1>3, <1>4, <1>5, <1>6 DEF IndexTypeOK, Rows
<1>8. TickAllowed'
  BY <1>2, <1>5 DEF Tick, Willing, TickAllowed
<1> QED
  BY <1>2, <1>3, <1>5, <1>7, <1>8, TruthKept DEF IndexInv

(* A tick that ends stores only what is still true.                        *)
LEMMA TickEndsKeeps == IndexInv /\ TickEnds => IndexInv'
<1> SUFFICES ASSUME IndexInv, TickEnds PROVE IndexInv'
  OBVIOUS
<1>1. UNCHANGED <<doc, settings, features, search, busy, worker>>
  BY DEF TickEnds
<1>2. IndexTypeOK
  BY DEF IndexInv
<1>3. indexer.work \in Works /\ indexer.work # None
  BY <1>2 DEF TickEnds, IndexTypeOK, Running
<1>4. row' \in [Docs -> Rows] /\ TrueRows(row')
  <2>1. row \in [Docs -> Rows] /\ TrueRows(row)
    BY <1>2 DEF IndexInv, IndexTypeOK, Rows, NoStaleVectors, TrueRows
  <2> QED
    BY <1>3, <2>1, SubmittedIsTrue DEF TickEnds, IndexInv
<1>5. /\ indexer' \in [stopped : BOOLEAN, halted : BOOLEAN, timer : BOOLEAN, work : Works]
      /\ indexer'.work = None
  <2>1. indexer' = Ended(request["indexer"] \in {"failed", "invalid"})
    BY DEF TickEnds
  <2>2. (indexer.halted \/ request["indexer"] \in {"failed", "invalid"}) \in BOOLEAN /\ (~indexer.stopped) \in BOOLEAN
    BY Zenon
  <2>3. None \in Works
    BY DEF Works
  <2> QED
    BY <1>2, <2>1, <2>2, <2>3 DEF Ended, IndexTypeOK
<1>6. request' \in [Clients -> Statuses] /\ ~Running'
  BY <1>2 DEF TickEnds, IndexTypeOK, Clients, Statuses, Running
<1>7. IndexTypeOK'
  BY <1>1, <1>2, <1>4, <1>5, <1>6 DEF IndexTypeOK, Rows
<1>8. TickAllowed' /\ TrueCopy(indexer'.work)
  BY <1>5, <1>6 DEF TickAllowed, TrueCopy
<1> QED
  BY <1>1, <1>4, <1>7, <1>8, TruthKept DEF IndexInv

(* Steps that leave documents, rows, work and worker alone keep all but    *)
(* types and what the tick is allowed.                                     *)
LEMMA DataKept ==
  ASSUME IndexInv, UNCHANGED <<doc, row, worker>>, indexer'.work = indexer.work,
         IndexTypeOK', TickAllowed'
  PROVE  IndexInv'
BY DEF IndexInv, NoStaleVectors, TrueCopy, Live

(* configure aborts the tick before the settings change.                   *)
LEMMA ConfigureKeeps ==
  ASSUME IndexInv, NEW a \in {"run", "pause", "disable"}, Configure(a)
  PROVE  IndexInv'
<1>1. UNCHANGED <<doc, row, features, search, busy, worker>>
  BY DEF Configure
<1>2. IndexTypeOK
  BY DEF IndexInv
<1>3. settings' \in [enabled : BOOLEAN, paused : BOOLEAN]
  BY <1>2 DEF Configure, IndexTypeOK
<1>4. /\ indexer' = [indexer EXCEPT !.halted = FALSE, !.timer = TRUE]
      /\ request' = AbortedTick
  BY DEF Configure, Configured
<1>5. /\ indexer' \in [stopped : BOOLEAN, halted : BOOLEAN, timer : BOOLEAN, work : Works]
      /\ indexer'.work = indexer.work
  BY <1>2, <1>4 DEF IndexTypeOK
<1>6. /\ request' \in [Clients -> Statuses] /\ Running' = Running
      /\ Running' => request'["indexer"] = "aborted"
  BY <1>2, <1>4 DEF AbortedTick, IndexTypeOK, Clients, Statuses, Running
<1>7. IndexTypeOK'
  BY <1>1, <1>2, <1>3, <1>5, <1>6 DEF IndexTypeOK
<1>8. TickAllowed'
  BY <1>6 DEF TickAllowed
<1> QED
  BY <1>1, <1>5, <1>7, <1>8, DataKept

(* stop aborts the tick, and a new process begins without one.             *)
LEMMA StopStartKeeps == IndexInv /\ (Stop \/ Start) => IndexInv'
<1> SUFFICES ASSUME IndexInv, Stop \/ Start PROVE IndexInv'
  OBVIOUS
<1>1. UNCHANGED <<doc, row, settings, features, busy, worker>>
  BY DEF Stop, Start
<1>2. IndexTypeOK
  BY DEF IndexInv
<1>3. /\ indexer' \in [stopped : BOOLEAN, halted : BOOLEAN, timer : BOOLEAN, work : Works]
      /\ indexer'.work = indexer.work
  BY <1>2 DEF IndexTypeOK, Stop, Start
<1>4. /\ request' \in [Clients -> Statuses] /\ Running' = Running
      /\ Running' => request'["indexer"] = "aborted"
  <2>1. CASE Stop
    BY <1>2, <2>1 DEF Stop, AbortedTick, IndexTypeOK, Clients, Statuses, Running
  <2>2. CASE Start
    BY <1>2, <2>2 DEF Start, IndexTypeOK, Running
  <2> QED
    BY <2>1, <2>2
<1>5. search' \in {"idle", "asking", "backing_off", "answered", "refused"}
  BY <1>2 DEF IndexTypeOK, Stop, Start
<1>6. IndexTypeOK'
  BY <1>1, <1>2, <1>3, <1>4, <1>5 DEF IndexTypeOK
<1>7. TickAllowed'
  BY <1>4 DEF TickAllowed
<1> QED
  BY <1>1, <1>3, <1>6, <1>7, DataKept

(* The search and the host move requests, and leave the rest alone.        *)
LEMMA RequestsKeep ==
  ASSUME IndexInv, UNCHANGED <<doc, row, settings, features, indexer, worker>>,
         request' \in [Clients -> Statuses],
         search' \in {"idle", "asking", "backing_off", "answered", "refused"}, busy' \in BOOLEAN,
         Running' = Running,
         request'["indexer"] = request["indexer"] \/ request["indexer"] \in Waiting
  PROVE  IndexInv'
<1>1. IndexTypeOK'
  BY DEF IndexInv, IndexTypeOK
<1>2. TickAllowed'
  BY DEF IndexInv, TickAllowed, Waiting, Running
<1> QED
  BY <1>1, <1>2, DataKept

LEMMA SearchKeeps ==
  IndexInv /\ (SearchStarts \/ SearchGoesOn \/ SearchRetries \/ SearchCancelled) => IndexInv'
<1> SUFFICES ASSUME IndexInv, SearchStarts \/ SearchGoesOn \/ SearchRetries \/ SearchCancelled
             PROVE  IndexInv'
  OBVIOUS
<1>1. UNCHANGED <<doc, row, settings, features, indexer, busy, worker>>
  BY DEF SearchStarts, SearchGoesOn, SearchRetries, SearchCancelled
<1>2. IndexTypeOK
  BY DEF IndexInv
<1>3. \E st \in {"none", "sent"} : request' \in {request, [request EXCEPT !["search"] = st]}
  BY DEF SearchStarts, SearchGoesOn, SearchRetries, SearchCancelled
<1>4. request' \in [Clients -> Statuses] /\ request'["indexer"] = request["indexer"]
  BY <1>2, <1>3 DEF IndexTypeOK, Clients, Statuses, Waiting
<1>5. search' \in {"idle", "asking", "backing_off", "answered", "refused"}
  BY <1>2 DEF SearchStarts, SearchGoesOn, SearchRetries, SearchCancelled, Ranked, IndexTypeOK
<1>6. busy' \in BOOLEAN /\ Running' = Running
  BY <1>1, <1>2, <1>4 DEF IndexTypeOK, Running
<1> QED
  BY <1>1, <1>4, <1>5, <1>6, RequestsKeep

LEMMA HostKeeps ==
  ASSUME IndexInv, \/ \E c \in Clients : HostReceives(c) \/ HostAnswers(c) \/ AnswerLost(c)
                   \/ HostFrees \/ HostEnds
  PROVE  IndexInv'
<1>1. UNCHANGED <<doc, row, settings, features, indexer, search, worker>>
  BY DEF HostReceives, HostAnswers, AnswerLost, HostFrees, HostEnds
<1>2. IndexTypeOK
  BY DEF IndexInv
<1>3. /\ request' \in [Clients -> Statuses] /\ Running' = Running
      /\ request'["indexer"] = request["indexer"] \/ request["indexer"] \in Waiting
  <2>1. ASSUME NEW c \in Clients, NEW st \in {"refused", "served", "done", "failed", "invalid", "lost"},
               request[c] \in Waiting, request' = [request EXCEPT ![c] = st]
        PROVE  <1>3
    BY <1>2, <2>1 DEF IndexTypeOK, Clients, Statuses, Waiting, Failures, Running
  <2>2. ASSUME NEW c \in Clients, HostReceives(c) PROVE <1>3
    BY <2>1, <2>2 DEF HostReceives, Waiting
  <2>3. ASSUME NEW c \in Clients, HostAnswers(c) PROVE <1>3
    BY <2>1, <2>3 DEF HostAnswers, Waiting
  <2>4. ASSUME NEW c \in Clients, AnswerLost(c) PROVE <1>3
    BY <2>1, <2>4 DEF AnswerLost
  <2>5. CASE HostFrees
    BY <1>2, <2>5 DEF HostFrees, IndexTypeOK, Running
  <2>6. CASE HostEnds
    BY <1>2, <2>6 DEF HostEnds, IndexTypeOK, Clients, Statuses, Waiting, Failures, Running
  <2> QED
    BY <2>2, <2>3, <2>4, <2>5, <2>6
<1>4. busy' \in BOOLEAN
  BY <1>2 DEF HostReceives, HostAnswers, AnswerLost, HostFrees, HostEnds, IndexTypeOK
<1>5. search' \in {"idle", "asking", "backing_off", "answered", "refused"}
  BY <1>1, <1>2 DEF IndexTypeOK
<1> QED
  BY <1>1, <1>3, <1>4, <1>5, RequestsKeep

(* Every step keeps the invariant.                                         *)
LEMMA IndexInvNext == IndexInv /\ [Next]_vars => IndexInv'
<1> SUFFICES ASSUME IndexInv, [Next]_vars PROVE IndexInv'
  OBVIOUS
<1>1. IndexTypeOK
  BY DEF IndexInv
<1>2. ASSUME NEW d \in Docs, (\E t \in Texts : Edit(d, t)) \/ Delete(d) \/ Restore(d) PROVE IndexInv'
  <2>1. PICK new \in [live : BOOLEAN, text : Texts] : Write(d, new)
    BY <1>1, <1>2 DEF Edit, Delete, Restore, IndexTypeOK
  <2> QED
    BY <2>1, WriteKeeps
<1>3. CASE TimerMissed
  <2>1. UNCHANGED <<doc, row, settings, features, request, search, busy, worker>>
    BY <1>3 DEF TimerMissed
  <2>2. /\ indexer' \in [stopped : BOOLEAN, halted : BOOLEAN, timer : BOOLEAN, work : Works]
        /\ indexer'.work = indexer.work /\ indexer'.stopped = indexer.stopped
    BY <1>1, <1>3 DEF TimerMissed, IndexTypeOK
  <2>3. IndexTypeOK' /\ TickAllowed'
    BY <1>1, <2>1, <2>2 DEF IndexTypeOK, IndexInv, TickAllowed, Running
  <2> QED
    BY <2>1, <2>2, <2>3, DataKept
<1>4. ASSUME NEW f \in {"search", "access"}, ChangeFeatures(f) PROVE IndexInv'
  <2>1. UNCHANGED <<doc, row, settings, indexer, request, search, busy, worker>>
    BY <1>4 DEF ChangeFeatures
  <2>2. features' \in [search : BOOLEAN, access : BOOLEAN]
    BY <1>1, <1>4 DEF ChangeFeatures, IndexTypeOK
  <2>3. IndexTypeOK' /\ TickAllowed'
    BY <1>1, <2>1, <2>2 DEF IndexTypeOK, IndexInv, TickAllowed, Running
  <2> QED
    BY <2>1, <2>3, DataKept
<1>5. CASE UNCHANGED vars
  BY <1>5, DataKept DEF vars, IndexInv, IndexTypeOK, TickAllowed, Running
<1> QED
  BY <1>2, <1>3, <1>4, <1>5, WorkerKeeps, TickKeeps, TickEndsKeeps, ConfigureKeeps, StopStartKeeps,
     SearchKeeps, HostKeeps DEF Next

(* The inductive invariant is invariant.                                   *)
THEOREM IndexInvariant == Spec => []IndexInv
<1> QED
  BY IndexInvInit, IndexInvNext, PTL DEF Spec

-----------------------------------------------------------------------------
(* Type correctness.                                                       *)
THEOREM IndexTypeCorrect == Spec => []IndexTypeOK
<1>1. IndexInv => IndexTypeOK
  BY DEF IndexInv
<1> QED
  BY <1>1, IndexInvariant, PTL

(* No vectors of an earlier text ever count as current.                    *)
THEOREM VectorsAreCurrent == Spec => []NoStaleVectors
<1>1. IndexInv => NoStaleVectors
  BY DEF IndexInv
<1> QED
  BY <1>1, IndexInvariant, PTL

(* A search is answered only from a whole and current index.               *)
THEOREM SearchesAreWhole == Spec => AnswersAreWhole
<1> DEFINE Whole == search' = "answered" /\ search # "answered" =>
                      /\ features.search /\ features.access /\ settings.enabled
                      /\ \A d \in Live : row[d] # None /\ row[d].current /\ row[d].text = doc[d].text
<1>1. IndexInv /\ [Next]_vars => [Whole]_vars
  <2> SUFFICES ASSUME IndexInv, Next, search' = "answered", search # "answered"
               PROVE  /\ features.search /\ features.access /\ settings.enabled
                      /\ \A d \in Live : row[d] # None /\ row[d].current /\ row[d].text = doc[d].text
    OBVIOUS
  <2>1. Ready(row)
    <3>1. CASE SearchStarts
      BY <3>1 DEF SearchStarts
    <3>2. CASE SearchGoesOn
      BY <3>2 DEF SearchGoesOn, Ranked
    <3>3. CASE SearchRetries
      BY <3>3 DEF SearchRetries
    <3>4. SearchStarts \/ SearchGoesOn \/ SearchRetries
      BY DEF Next, Write, Edit, Delete, Restore, WorkerFetches, WorkerSubmits, Tick, TimerMissed, TickEnds,
             Configure, ChangeFeatures, SearchCancelled, HostReceives, HostAnswers, AnswerLost,
             HostFrees, HostEnds, Stop, Start
    <3> QED
      BY <3>1, <3>2, <3>3, <3>4
  <2>2. \A d \in Live : d \in Docs /\ row[d] # None /\ row[d].current
    BY <2>1 DEF Ready, Pending, Indexed, Live
  <2> QED
    BY <2>1, <2>2 DEF Ready, IndexInv, NoStaleVectors
<1> QED
  BY <1>1, IndexInvariant, PTL DEF Spec, AnswersAreWhole

(* An indexer that was told to stop stores nothing.                        *)
THEOREM IndexerStops == Spec => StopsWhenTold
<1> DEFINE Told == row' # row /\ Running /\ request'["indexer"] = "none" =>
                     settings.enabled /\ ~settings.paused /\ ~indexer.stopped
<1>1. IndexInv /\ [Next]_vars => [Told]_vars
  <2> SUFFICES ASSUME IndexInv, Next, row' # row, Running, request'["indexer"] = "none"
               PROVE  settings.enabled /\ ~settings.paused /\ ~indexer.stopped
    OBVIOUS
  <2>1. request["indexer"] # "aborted"
    <3>1. CASE TickEnds
      BY <3>1 DEF TickEnds
    <3>2. TickEnds
      BY DEF Next, Write, Edit, Delete, Restore, WorkerFetches, WorkerSubmits, Tick, TimerMissed, Running,
             Configure, ChangeFeatures, SearchStarts, SearchGoesOn, SearchRetries, SearchCancelled,
             HostReceives, HostAnswers, AnswerLost, HostFrees, HostEnds, Stop, Start
    <3> QED
      BY <3>1, <3>2
  <2> QED
    BY <2>1 DEF IndexInv, TickAllowed
<1> QED
  BY <1>1, IndexInvariant, PTL DEF Spec, StopsWhenTold
=============================================================================
