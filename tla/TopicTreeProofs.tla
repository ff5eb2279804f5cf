-------------------------- MODULE TopicTreeProofs --------------------------
(***************************************************************************)
(* What is proved about topics and workstreams, for any documents, edits,  *)
(* clients and number of writes: types hold, a version names one content,  *)
(* and a topic is focused only where it belongs.                           *)
(***************************************************************************)
EXTENDS TopicTree, TLAPS

\* A copy with the version that is stored shows what is stored.
CopiesTrue ==
  \A c \in Clients : copy[c].doc # None /\ copy[c].version = version[copy[c].doc] => copy[c].spec = spec[copy[c].doc]

TreeInv == TreeTypeOK /\ FocusWithinMembers /\ CopiesTrue

\* What may be stored as d.
Sound(d, s) == s \in SpecsOf(d) /\ (d \in Topics => s.focused \subseteq s.members)

-----------------------------------------------------------------------------
(* Edits lead from specs to specs.                                         *)
LEMMA PatchedIsTopic ==
  ASSUME NEW s \in TopicSpecs, NEW e \in Edits
  PROVE  Patched(s, e) \in TopicSpecs
<1> DEFINE p == Patched(BlankTopic, e)
           q == Patched(s, e)
<1>1. p \in TopicSpecs
  BY EditsAssumption
<1>2. DOMAIN s = {"open", "parents", "members", "focused"} /\ DOMAIN BlankTopic = DOMAIN s
  BY DEF TopicSpecs, BlankTopic
<1>3. \A f \in DOMAIN s : q[f] = IF f \in DOMAIN e THEN p[f] ELSE s[f]
  BY <1>2 DEF Patched
<1>4. q.open \in BOOLEAN /\ q.parents \subseteq Topics /\ q.members \subseteq Workstreams /\ q.focused \subseteq Workstreams
  <2>1. s.open \in BOOLEAN /\ s.parents \subseteq Topics /\ s.members \subseteq Workstreams /\ s.focused \subseteq Workstreams
    BY DEF TopicSpecs
  <2>2. p.open \in BOOLEAN /\ p.parents \subseteq Topics /\ p.members \subseteq Workstreams /\ p.focused \subseteq Workstreams
    BY <1>1 DEF TopicSpecs
  <2> HIDE DEF p, q
  <2>3. q.open \in BOOLEAN
    BY <1>2, <1>3, <2>1, <2>2
  <2> QED
    BY <1>2, <1>3, <2>1, <2>2, <2>3
<1>5. q = [open |-> q.open, parents |-> q.parents, members |-> q.members, focused |-> q.focused]
  BY <1>2 DEF Patched
<1> HIDE DEF p, q
<1> QED
  <2>1. q \in TopicSpecs
    BY <1>4, <1>5 DEF TopicSpecs
  <2> QED
    BY <2>1 DEF q

LEMMA MergedIsTopic ==
  ASSUME NEW s \in TopicSpecs, NEW e \in Edits
  PROVE  Merged(s, e) \in TopicSpecs
<1>1. Patched(s, e) \in TopicSpecs
  BY PatchedIsTopic
<1>2. ASSUME NEW W PROVE [Patched(s, e) EXCEPT !.focused = @ \cap W] \in TopicSpecs
  BY <1>1 DEF TopicSpecs
<1> QED
  BY <1>1, <1>2 DEF Merged

(* A topic spec is sound if its references are valid.                      *)
LEMMA ValidIsSound ==
  ASSUME NEW t \in Topics, NEW s \in TopicSpecs, ReferencesValid(s)
  PROVE  Sound(t, s)
BY DEF Sound, SpecsOf, ReferencesValid

LEMMA StoredIsSound ==
  ASSUME TreeInv, NEW t \in Topics
  PROVE  t \in Docs /\ spec[t] \in TopicSpecs /\ Sound(t, spec[t]) /\ spec[t].focused \subseteq spec[t].members
BY DEF TreeInv, TreeTypeOK, FocusWithinMembers, Sound, SpecsOf, Docs

LEMMA StoredWorkstream ==
  ASSUME TreeInv, NEW w \in Workstreams
  PROVE  w \in Docs \ Topics /\ spec[w] \in WorkstreamSpecs
BY TreeAssumption DEF TreeInv, TreeTypeOK, SpecsOf, Docs

-----------------------------------------------------------------------------
(* What clients hold after a step: what they held, nothing, or a document  *)
(* as it now is.                                                           *)
CopyStep ==
  /\ DOMAIN copy' = Clients
  /\ \A c \in Clients :
       copy'[c] = copy[c] \/ copy'[c] = NoCopy \/ \E d \in Docs : copy'[c] = Envelope(d, spec'[d], version'[d])

(* A step that stamps whatever it changes keeps the invariant.             *)
LEMMA StampedStep ==
  ASSUME TreeInv, NEW D \in SUBSET Docs, Stamp(D),
         state' \in [Docs -> {"absent", "live", "deleted"}],
         DOMAIN spec' = Docs,
         \A d \in D : Sound(d, spec'[d]),
         \A d \in Docs \ D : spec'[d] = spec[d],
         CopyStep
  PROVE  TreeInv'
<1>1. counter \in Nat /\ version \in [Docs -> 0..counter]
  BY DEF TreeInv, TreeTypeOK
<1>2. counter' = counter + 1 /\ counter' \in Nat
  BY <1>1 DEF Stamp
<1>3. \A d \in Docs : version'[d] = IF d \in D THEN counter + 1 ELSE version[d]
  BY DEF Stamp, Numbered
<1>4. version' \in [Docs -> 0..counter']
  <2>1. ASSUME NEW d \in Docs PROVE version'[d] \in 0..counter'
    BY <1>1, <1>2, <1>3
  <2>2. version' = [d \in Docs |-> version'[d]]
    BY DEF Stamp, Numbered
  <2> QED
    BY <2>1, <2>2
<1>5. ASSUME NEW d \in Docs PROVE Sound(d, spec'[d])
  <2>1. Sound(d, spec[d])
    BY DEF TreeInv, TreeTypeOK, FocusWithinMembers, Sound
  <2> QED
    BY <2>1
<1>6. ASSUME NEW c \in Clients, copy'[c].doc # None
      PROVE  /\ copy'[c].doc \in Docs /\ copy'[c].spec \in SpecsOf(copy'[c].doc)
             /\ copy'[c].version \in 0..counter'
             /\ copy'[c].version = version'[copy'[c].doc] => copy'[c].spec = spec'[copy'[c].doc]
  <2>1. CASE copy'[c] = copy[c]
    <3> DEFINE d == copy[c].doc
    <3>1. d \in Docs /\ copy[c].spec \in SpecsOf(d) /\ copy[c].version \in 0..counter
      BY <1>6, <2>1 DEF TreeInv, TreeTypeOK
    <3>2. copy[c].version = version[d] => copy[c].spec = spec[d]
      BY <1>6, <2>1 DEF TreeInv, CopiesTrue
    <3>3. copy[c].version \in 0..counter' /\ copy[c].version # counter + 1
      BY <1>1, <1>2, <3>1
    <3>4. copy[c].version = version'[d] => d \notin D /\ copy[c].version = version[d]
      BY <1>3, <3>1, <3>3
    <3>5. copy[c].version = version'[d] => copy[c].spec = spec'[d]
      BY <3>1, <3>2, <3>4
    <3> QED
      BY <2>1, <3>1, <3>3, <3>5
  <2>2. CASE copy'[c] = NoCopy
    BY <1>6, <2>2 DEF NoCopy, Envelope
  <2>3. CASE \E d \in Docs : copy'[c] = Envelope(d, spec'[d], version'[d])
    BY <1>4, <1>5, <2>3 DEF Envelope, Sound
  <2> QED
    BY <2>1, <2>2, <2>3 DEF CopyStep
<1>7. TreeTypeOK'
  BY <1>2, <1>4, <1>5, <1>6 DEF TreeTypeOK, CopyStep, Sound
<1>8. FocusWithinMembers'
  BY <1>5 DEF FocusWithinMembers, Sound, Docs
<1>9. CopiesTrue'
  BY <1>6 DEF CopiesTrue
<1> QED
  BY <1>7, <1>8, <1>9 DEF TreeInv

LEMMA WriteKeeps ==
  ASSUME TreeInv, NEW new, Write(new), DOMAIN new \subseteq Docs,
         \A d \in DOMAIN new : Sound(d, new[d]), CopyStep
  PROVE  TreeInv'
<1>1. state' \in [Docs -> {"absent", "live", "deleted"}]
  BY DEF Write, TreeInv, TreeTypeOK
<1>2. /\ Stamp(DOMAIN new) /\ DOMAIN spec' = Docs
      /\ \A d \in DOMAIN new : Sound(d, spec'[d])
      /\ \A d \in Docs \ DOMAIN new : spec'[d] = spec[d]
  BY DEF Write
<1> QED
  BY <1>1, <1>2, StampedStep

LEMMA WriteOneKeeps ==
  ASSUME TreeInv, NEW d \in Docs, NEW s, WriteOne(d, s), Sound(d, s), CopyStep
  PROVE  TreeInv'
<1> DEFINE new == [x \in {d} |-> s]
<1>1. Write(new) /\ DOMAIN new \subseteq Docs /\ \A x \in DOMAIN new : Sound(x, new[x])
  BY DEF WriteOne
<1> HIDE DEF new
<1> QED
  BY <1>1, WriteKeeps

LEMMA InsertKeeps ==
  ASSUME TreeInv, NEW d \in Docs, NEW s, Insert(d, s), Sound(d, s), CopyStep
  PROVE  TreeInv'
<1>1. /\ Stamp({d})
      /\ state' \in [Docs -> {"absent", "live", "deleted"}] /\ DOMAIN spec' = Docs
      /\ \A x \in {d} : Sound(x, spec'[x])
      /\ \A x \in Docs \ {d} : spec'[x] = spec[x]
  BY DEF Insert, TreeInv, TreeTypeOK
<1> QED
  BY <1>1, StampedStep

LEMMA SetStateKeeps ==
  ASSUME TreeInv, NEW d \in Docs, NEW from, NEW to \in {"live", "deleted"}, SetState(d, from, to), CopyStep
  PROVE  TreeInv'
<1>1. Sound(d, spec[d])
  BY DEF TreeInv, TreeTypeOK, FocusWithinMembers, Sound
<1>2. /\ Stamp({d})
      /\ state' \in [Docs -> {"absent", "live", "deleted"}] /\ DOMAIN spec' = Docs
      /\ \A x \in {d} : Sound(x, spec'[x])
      /\ \A x \in Docs \ {d} : spec'[x] = spec[x]
  BY <1>1 DEF SetState, TreeInv, TreeTypeOK
<1> QED
  BY <1>2, StampedStep

LEMMA UnchangedCopies == TreeInv /\ UNCHANGED copy => CopyStep
BY DEF TreeInv, TreeTypeOK, CopyStep

LEMMA AnsweredCopies ==
  ASSUME TreeInv, NEW c \in Clients, copy[c].doc \in Docs, Answered(c) PROVE CopyStep
BY DEF TreeInv, TreeTypeOK, CopyStep, Answered

LEMMA CurrentIsLive ==
  ASSUME TreeInv, NEW c \in Clients, Current(c) PROVE copy[c].doc \in Docs /\ copy[c].doc \in Live
BY DEF TreeInv, TreeTypeOK, Current, Live

-----------------------------------------------------------------------------
(* The invariant holds initially.                                          *)
LEMMA TreeInvInit == Init => TreeInv
<1> SUFFICES ASSUME Init PROVE TreeInv
  OBVIOUS
<1>1. PICK f \in InitialContents :
        /\ state = [d \in Docs |-> IF d \in DOMAIN f THEN "live" ELSE "absent"]
        /\ spec = [d \in Docs |-> IF d \in DOMAIN f THEN f[d] ELSE Blank(d)]
  BY DEF Init
<1>2. \A d \in DOMAIN f : f[d] \in SpecsOf(d) /\ (d \in Topics => f[d].focused \subseteq f[d].members)
  BY TreeAssumption
<1>3. ASSUME NEW d \in Docs PROVE Sound(d, spec[d])
  <2>1. Sound(d, Blank(d))
    BY DEF Sound, Blank, BlankTopic, SpecsOf, TopicSpecs, WorkstreamSpecs
  <2> QED
    BY <1>1, <1>2, <2>1 DEF Sound
<1>4. version = [d \in Docs |-> 0] /\ counter = 0 /\ copy = [c \in Clients |-> NoCopy]
  BY DEF Init
<1>5. \A c \in Clients : copy[c].doc = None
  BY <1>4 DEF NoCopy, Envelope
<1>6. TreeTypeOK
  BY <1>1, <1>3, <1>4, <1>5 DEF TreeTypeOK, Sound
<1> QED
  BY <1>3, <1>5, <1>6 DEF TreeInv, FocusWithinMembers, CopiesTrue, Sound, Docs

-----------------------------------------------------------------------------
(* The ws-topic-* and ws-workstream-* tools.                               *)
LEMMA CreateTopicKeeps ==
  ASSUME TreeInv, CopyStep, NEW t \in Topics, NEW e \in Edits, NEW i \in BOOLEAN, CreateTopic(t, e, i)
  PROVE  TreeInv'
<1> DEFINE given == Patched(BlankTopic, e)
           s == IF i THEN [given EXCEPT !.members = Inherited(given)] ELSE given
<1>1. given \in TopicSpecs
  BY EditsAssumption
<1>2. given.parents \subseteq LiveTopics /\ ReferencesValid(s) /\ Insert(t, s)
  BY DEF CreateTopic
<1>3. Inherited(given) \subseteq Workstreams
  <2>1. \A p \in given.parents : spec[p].members \subseteq Workstreams
    BY <1>2, StoredIsSound DEF LiveTopics, TopicSpecs
  <2> HIDE DEF given
  <2> QED
    BY <1>1, <2>1 DEF Inherited, TopicSpecs
<1>4. s \in TopicSpecs
  <2> HIDE DEF given
  <2> QED
    BY <1>1, <1>3 DEF TopicSpecs
<1> HIDE DEF given, s
<1> QED
  BY <1>2, <1>4, ValidIsSound, InsertKeeps DEF Docs

LEMMA UpdateTopicKeeps ==
  ASSUME TreeInv, CopyStep, NEW t \in Topics, NEW e \in Edits, UpdateTopic(t, e)
  PROVE  TreeInv'
<1>1. ReferencesValid(Merged(spec[t], e)) /\ WriteOne(t, Merged(spec[t], e))
  BY DEF UpdateTopic
<1>2. t \in Docs /\ Merged(spec[t], e) \in TopicSpecs
  BY StoredIsSound, MergedIsTopic
<1> QED
  BY <1>1, <1>2, ValidIsSound, WriteOneKeeps

LEMMA CloseTreeKeeps ==
  ASSUME TreeInv, CopyStep, NEW r \in Topics, NEW b \in BOOLEAN, CloseTree(r, b)
  PROVE  TreeInv'
<1> DEFINE tree == Tree(r)
           matched == IF b THEN tree ELSE Exclusive(tree, r)
           closing == {t \in matched : spec[t].open}
           new == [t \in closing |-> [spec[t] EXCEPT !.open = FALSE]]
<1>1. Write(new)
  BY DEF CloseTree
<1>2. closing \subseteq Topics
  BY DEF Tree, Reached, Exclusive
<1>3. ASSUME NEW t \in closing PROVE Sound(t, new[t])
  <2>1. t \in Topics /\ spec[t] \in TopicSpecs /\ spec[t].focused \subseteq spec[t].members
    BY <1>2, StoredIsSound
  <2>2. new[t] = [spec[t] EXCEPT !.open = FALSE]
    OBVIOUS
  <2> HIDE DEF new, closing
  <2> QED
    BY <2>1, <2>2 DEF Sound, SpecsOf, TopicSpecs
<1>4. DOMAIN new = closing /\ closing \subseteq Docs
  BY <1>2 DEF Docs
<1> HIDE DEF new, closing
<1> QED
  BY <1>1, <1>3, <1>4, WriteKeeps

LEMMA TransferKeeps ==
  ASSUME TreeInv, CopyStep, NEW r \in Topics, NEW from \in Workstreams \cup {None}, NEW to \in Workstreams,
         NEW move \in BOOLEAN, Transfer(r, from, to, move)
  PROVE  TreeInv'
<1> DEFINE changed == {t \in Transferred(r, from) : TransferSpec(spec[t], from, to, move) # spec[t]}
           new == [t \in changed |-> TransferSpec(spec[t], from, to, move)]
<1>1. Write(new) /\ from # to
  BY DEF Transfer
<1>2. changed \subseteq Topics
  BY DEF Transferred, Reached
<1>3. ASSUME NEW t \in changed PROVE Sound(t, new[t])
  <2>1. t \in Topics /\ spec[t] \in TopicSpecs /\ spec[t].focused \subseteq spec[t].members
    BY <1>2, StoredIsSound
  <2>2. new[t] = TransferSpec(spec[t], from, to, move)
    OBVIOUS
  <2> HIDE DEF new, changed
  <2> DEFINE left == IF move THEN {from} ELSE {}
  <2>3. new[t] = [spec[t] EXCEPT !.members = (spec[t].members \ left) \cup {to}, !.focused = spec[t].focused \ left]
    BY <2>1, <2>2 DEF TransferSpec, TopicSpecs
  <2>4. new[t] \in TopicSpecs
    <3>1. (spec[t].members \ left) \cup {to} \subseteq Workstreams /\ spec[t].focused \ left \subseteq Workstreams
      BY <2>1 DEF TopicSpecs
    <3> HIDE DEF left
    <3> QED
      BY <2>1, <2>3, <3>1 DEF TopicSpecs
  <2>5. new[t].focused = spec[t].focused \ left /\ new[t].members = (spec[t].members \ left) \cup {to}
    BY <2>1, <2>3 DEF TopicSpecs
  <2> QED
    BY <2>1, <2>4, <2>5 DEF Sound, SpecsOf
<1>4. DOMAIN new = changed /\ changed \subseteq Docs
  BY <1>2 DEF Docs
<1> HIDE DEF new, changed
<1> QED
  BY <1>1, <1>3, <1>4, WriteKeeps

LEMMA WorkstreamIsSound ==
  ASSUME NEW w \in Workstreams, NEW b \in BOOLEAN
  PROVE  w \in Docs /\ Sound(w, [open |-> b])
BY TreeAssumption DEF Docs, Sound, SpecsOf, WorkstreamSpecs

LEMMA ReorderKeeps ==
  ASSUME TreeInv, CopyStep, NEW W \in SUBSET Workstreams, Reorder(W)
  PROVE  TreeInv'
<1> DEFINE new == [w \in W |-> [open |-> TRUE]]
<1>1. Write(new) /\ DOMAIN new \subseteq Docs /\ \A d \in DOMAIN new : Sound(d, new[d])
  BY WorkstreamIsSound DEF Reorder
<1> HIDE DEF new
<1> QED
  BY <1>1, WriteKeeps

LEMMA ToolCallKeeps == TreeInv /\ ToolCall => TreeInv'
<1> SUFFICES ASSUME TreeInv, ToolCall PROVE TreeInv'
  OBVIOUS
<1>1. CopyStep
  BY UnchangedCopies DEF ToolCall
<1>2. CASE \E t \in Topics, e \in Edits : UpdateTopic(t, e)
  BY <1>1, <1>2, UpdateTopicKeeps
<1>3. CASE \E t \in Topics, e \in Edits, i \in BOOLEAN : CreateTopic(t, e, i)
  BY <1>1, <1>3, CreateTopicKeeps
<1>4. CASE \E t \in Topics, b \in BOOLEAN : CloseTree(t, b)
  BY <1>1, <1>4, CloseTreeKeeps
<1>5. CASE \E t \in Topics, from \in Workstreams \cup {None}, to \in Workstreams, move \in BOOLEAN : Transfer(t, from, to, move)
  BY <1>1, <1>5, TransferKeeps
<1>6. CASE \E w \in Workstreams, b \in BOOLEAN : CreateWorkstream(w, b)
  BY <1>1, <1>6, WorkstreamIsSound, InsertKeeps DEF CreateWorkstream
<1>7. CASE \E w \in Workstreams, b \in BOOLEAN : UpdateWorkstream(w, b)
  BY <1>1, <1>7, WorkstreamIsSound, WriteOneKeeps DEF UpdateWorkstream
<1>8. CASE \E W \in SUBSET Workstreams : Reorder(W)
  BY <1>1, <1>8, ReorderKeeps
<1>9. CASE \E d \in Docs : Delete(d) \/ Restore(d)
  BY <1>1, <1>9, SetStateKeeps DEF Delete, Restore
<1> QED
  BY <1>2, <1>3, <1>4, <1>5, <1>6, <1>7, <1>8, <1>9 DEF ToolCall

-----------------------------------------------------------------------------
(* The generic tools.                                                      *)
LEMMA UpdateSeenKeeps ==
  ASSUME TreeInv, NEW c \in Clients, NEW e \in Edits, UpdateSeen(c, e)
  PROVE  TreeInv'
<1> DEFINE d == copy[c].doc
           s == Patched(spec[d], e)
<1>1. /\ d \in Docs /\ CopyStep
      /\ DOMAIN e \subseteq DOMAIN s /\ (d \in Topics => ReferencesValid(s)) /\ WriteOne(d, s)
  BY CurrentIsLive, AnsweredCopies DEF UpdateSeen
<1> HIDE DEF d
<1>2. CASE d \in Topics
  BY <1>1, <1>2, StoredIsSound, PatchedIsTopic, ValidIsSound, WriteOneKeeps
<1>3. CASE d \in Workstreams
  <2>1. spec[d] \in WorkstreamSpecs /\ d \notin Topics
    BY <1>3, StoredWorkstream
  <2>2. DOMAIN spec[d] = {"open"} /\ spec[d].open \in BOOLEAN
    BY <2>1 DEF WorkstreamSpecs
  <2>3. s.open \in BOOLEAN
    <3>1. Patched(BlankTopic, e).open \in BOOLEAN
      BY EditsAssumption DEF TopicSpecs
    <3>2. "open" \in DOMAIN e => Patched(BlankTopic, e).open = e["open"]
      BY DEF Patched, BlankTopic
    <3>3. s.open = IF "open" \in DOMAIN e THEN e["open"] ELSE spec[d].open
      BY <2>2 DEF Patched
    <3> QED
      BY <2>2, <3>1, <3>2, <3>3
  <2>4. s = [open |-> s.open]
    BY <2>2 DEF Patched
  <2> HIDE DEF s
  <2>5. Sound(d, s)
    BY <1>3, <2>3, <2>4, WorkstreamIsSound
  <2> QED
    BY <1>1, <2>5, WriteOneKeeps
<1> QED
  BY <1>1, <1>2, <1>3 DEF Docs

LEMMA SearchAddTopicKeeps ==
  ASSUME TreeInv, NEW c \in Clients, NEW w \in Workstreams, SearchAddTopic(c, w)
  PROVE  TreeInv'
<1> DEFINE t == copy[c].doc
           s == [spec[t] EXCEPT !.members = @ \cup {w}]
<1>1. t \in Topics /\ WriteOne(t, s) /\ t \in Docs /\ CopyStep
  BY CurrentIsLive, AnsweredCopies DEF SearchAddTopic
<1> HIDE DEF t
<1>2. Sound(t, s)
  BY <1>1, StoredIsSound DEF Sound, SpecsOf, TopicSpecs
<1> QED
  BY <1>1, <1>2, WriteOneKeeps

LEMMA DeleteSeenKeeps ==
  ASSUME TreeInv, NEW c \in Clients, DeleteSeen(c)
  PROVE  TreeInv'
<1>1. copy[c].doc \in Docs /\ SetState(copy[c].doc, "live", "deleted")
  BY CurrentIsLive DEF DeleteSeen, Delete
<1>2. CopyStep
  BY DEF DeleteSeen, CopyStep, TreeInv, TreeTypeOK
<1> QED
  BY <1>1, <1>2, SetStateKeeps

LEMMA ReadKeeps ==
  ASSUME TreeInv, NEW c \in Clients, NEW d \in Docs, ReadDocument(c, d)
  PROVE  TreeInv'
<1>1. UNCHANGED <<state, spec, version, counter>> /\ DOMAIN copy' = Clients
  BY DEF ReadDocument, store, TreeInv, TreeTypeOK
<1>2. spec[d] \in SpecsOf(d) /\ version[d] \in 0..counter
  BY DEF TreeInv, TreeTypeOK
<1>3. ASSUME NEW k \in Clients
      PROVE  copy'[k] = copy[k] \/ copy'[k] = Envelope(d, spec[d], version[d])
  BY DEF ReadDocument, TreeInv, TreeTypeOK
<1>4. TreeTypeOK'
  BY <1>1, <1>2, <1>3 DEF TreeInv, TreeTypeOK, Envelope
<1>5. CopiesTrue'
  BY <1>1, <1>3 DEF TreeInv, CopiesTrue, Envelope
<1>6. FocusWithinMembers'
  BY <1>1 DEF TreeInv, FocusWithinMembers
<1> QED
  BY <1>4, <1>5, <1>6 DEF TreeInv

LEMMA TreeInvNext == TreeInv /\ [Next]_vars => TreeInv'
<1> SUFFICES ASSUME TreeInv, [Next]_vars PROVE TreeInv'
  OBVIOUS
<1>1. CASE ToolCall
  BY <1>1, ToolCallKeeps
<1>2. CASE \E c \in Clients : SeenCall(c)
  BY <1>2, UpdateSeenKeeps, SearchAddTopicKeeps, DeleteSeenKeeps DEF SeenCall
<1>3. CASE \E c \in Clients, d \in Docs : ReadDocument(c, d)
  BY <1>3, ReadKeeps
<1>4. CASE UNCHANGED vars
  BY <1>4 DEF vars, TreeInv, TreeTypeOK, FocusWithinMembers, CopiesTrue
<1> QED
  BY <1>1, <1>2, <1>3, <1>4 DEF Next

-----------------------------------------------------------------------------
(* The invariant of the tools on topics: what is stored and copied has its *)
(* type, copies of the stored version show what is stored, and the focus   *)
(* lies within the members.                                                *)
THEOREM TreeInvariant == Spec => []TreeInv
BY TreeInvInit, TreeInvNext, PTL DEF Spec

(* Types hold: documents keep the shape of their kind, whatever edits,     *)
(* batches and transfers write (TreeTypeOK, store.ts).                     *)
THEOREM TreeTypeCorrect == Spec => []TreeTypeOK
<1>1. TreeInv => TreeTypeOK
  BY DEF TreeInv
<1> QED
  BY <1>1, TreeInvariant, PTL

(* A write that gives the version its author has read replaces nothing the *)
(* author has not seen (expectedVersion of store.ts).                      *)
THEOREM NothingUnseenReplaced == Spec => []VersionNamesContent
<1>1. TreeInv => VersionNamesContent
  BY DEF TreeInv, VersionNamesContent, CopiesTrue, Current
<1> QED
  BY <1>1, TreeInvariant, PTL

(* A topic is focused only in workstreams it belongs to.                   *)
THEOREM FocusStaysWithin == Spec => []FocusWithinMembers
<1>1. TreeInv => FocusWithinMembers
  BY DEF TreeInv
<1> QED
  BY <1>1, TreeInvariant, PTL

-----------------------------------------------------------------------------
(* What is reached: it holds the root, leads nowhere else, and lies in     *)
(* whatever holds the root and leads nowhere else.                         *)
LEMMA ReachedIsClosed ==
  ASSUME NEW E \in SUBSET (Topics \X Topics), NEW t \in Topics
  PROVE  t \in Reached(E, t) /\ Reached(E, t) \subseteq Topics /\ Closed(Reached(E, t), E)
<1>1. t \in Reached(E, t) /\ Reached(E, t) \subseteq Topics
  BY DEF Reached
<1>2. ASSUME NEW e \in E, e[1] \in Reached(E, t) PROVE e[2] \in Reached(E, t)
  <2>1. e[2] \in Topics
    OBVIOUS
  <2>2. ASSUME NEW S \in SUBSET Topics, t \in S, Closed(S, E) PROVE e[2] \in S
    BY <1>2, <2>2 DEF Reached, Closed
  <2> QED
    BY <2>1, <2>2 DEF Reached
<1> QED
  BY <1>1, <1>2 DEF Closed

LEMMA ReachedIsLeast ==
  ASSUME NEW E, NEW t, NEW S \in SUBSET Topics, t \in S, Closed(S, E)
  PROVE  Reached(E, t) \subseteq S
BY DEF Reached

\* A tree's topics are live, but for a root that is not.
LEMMA TreeIsLive ==
  ASSUME NEW r \in Topics
  PROVE  r \in Tree(r) /\ Tree(r) \subseteq Topics /\ Tree(r) \subseteq LiveTopics \cup {r}
<1>1. Links(None) \in SUBSET (Topics \X Topics) /\ LiveTopics \subseteq Topics
  BY DEF Links, LiveTopics
<1>2. LiveTopics \cup {r} \in SUBSET Topics
  BY <1>1
<1>3. Closed(LiveTopics \cup {r}, Links(None))
  BY DEF Closed, Links
<1> QED
  BY <1>1, <1>2, <1>3, ReachedIsClosed, ReachedIsLeast DEF Tree

(* What closing a tree takes for exclusive is the root and what no way up  *)
(* that avoids the root leads out of the tree from.                        *)
LEMMA ExclusiveIs ==
  ASSUME TreeInv, NEW r \in Topics, NEW t \in Tree(r)
  PROVE  t \in Exclusive(Tree(r), r) <=> t = r \/ ~SharedWith(t, r)
<1> DEFINE U == Reached(WaysUp(r), t)
<1>1. r \in Tree(r) /\ Tree(r) \subseteq Topics /\ Tree(r) \subseteq LiveTopics \cup {r} /\ t \in Topics
  BY TreeIsLive
<1>2. \A u \in Topics : spec[u].parents \subseteq Topics
  BY StoredIsSound DEF TopicSpecs
<1>3. WaysUp(r) \in SUBSET (Topics \X Topics)
  BY DEF WaysUp, LiveTopics
<1>4. ASSUME t = r PROVE t \in Exclusive(Tree(r), r)
  <2>1. NoOutsideParent({r}, r) /\ {r} \in SUBSET Tree(r)
    BY <1>1 DEF NoOutsideParent
  <2> QED
    BY <1>4, <2>1 DEF Exclusive
<1>5. ASSUME ~SharedWith(t, r) PROVE t \in Exclusive(Tree(r), r)
  <2>1. U \in SUBSET Tree(r)
    BY <1>5 DEF SharedWith
  <2>2. t \in U /\ Closed(U, WaysUp(r))
    BY <1>1, <1>3, ReachedIsClosed
  <2> HIDE DEF U
  <2>3. NoOutsideParent(U, r)
    <3> SUFFICES ASSUME NEW u \in U \ {r}, NEW p \in spec[u].parents PROVE p \in U
      BY DEF NoOutsideParent
    <3>1. u \in LiveTopics \ {r} /\ u \in Topics /\ p \in Topics
      BY <1>1, <1>2, <2>1
    <3>2. <<u, p>> \in WaysUp(r)
      BY <3>1 DEF WaysUp
    <3> QED
      BY <2>2, <3>2 DEF Closed
  <2> QED
    BY <2>1, <2>2, <2>3 DEF Exclusive
<1>6. ASSUME t \in Exclusive(Tree(r), r), t # r PROVE ~SharedWith(t, r)
  <2>1. PICK S \in SUBSET Tree(r) : NoOutsideParent(S, r) /\ t \in S
    BY <1>6 DEF Exclusive
  <2>2. Closed(S, WaysUp(r))
    BY <2>1 DEF Closed, WaysUp, NoOutsideParent
  <2>3. U \subseteq S
    BY <1>1, <2>1, <2>2, ReachedIsLeast
  <2> QED
    BY <2>3 DEF SharedWith
<1> QED
  BY <1>4, <1>5, <1>6

LEMMA ClosingIsExclusive ==
  ASSUME TreeInv, NEW r \in Topics, CloseTree(r, FALSE), NEW t \in Tree(r)
  PROVE  spec'[t].open = (spec[t].open /\ t # r /\ SharedWith(t, r))
<1> DEFINE closing == {u \in Exclusive(Tree(r), r) : spec[u].open}
           new == [u \in closing |-> [spec[u] EXCEPT !.open = FALSE]]
<1>1. Write(new)
  BY DEF CloseTree
<1>2. t \in Topics /\ t \in Docs /\ spec[t] \in TopicSpecs
  BY TreeIsLive, StoredIsSound
<1>3. spec[t].open \in BOOLEAN /\ [spec[t] EXCEPT !.open = FALSE].open = FALSE
  BY <1>2 DEF TopicSpecs
<1>4. spec'[t] = IF t \in closing THEN [spec[t] EXCEPT !.open = FALSE] ELSE spec[t]
  BY <1>1, <1>2 DEF Write
<1>5. t \in closing <=> spec[t].open /\ (t = r \/ ~SharedWith(t, r))
  BY ExclusiveIs
<1> HIDE DEF closing, new
<1>6. CASE t \in closing
  BY <1>3, <1>4, <1>5, <1>6
<1>7. CASE t \notin closing
  BY <1>3, <1>4, <1>5, <1>7
<1> QED
  BY <1>6, <1>7

(* A topic leaves the source only in a transfer that reaches it, which     *)
(* then reaches its live children in the source as well.                   *)
LEMMA TransferIsWhole ==
  ASSUME TreeInv, NEW r \in Topics, NEW from \in Workstreams, NEW to \in Workstreams,
         Transfer(r, from, to, TRUE), NEW p \in LiveTopics, NEW c \in LiveTopics,
         p \in spec[c].parents, from \in spec[p].members, from \in spec[c].members,
         from \notin spec'[p].members
  PROVE  from \notin spec'[c].members /\ to \in spec'[c].members
<1> DEFINE changed == {t \in Transferred(r, from) : TransferSpec(spec[t], from, to, TRUE) # spec[t]}
           new == [t \in changed |-> TransferSpec(spec[t], from, to, TRUE)]
<1>1. Write(new) /\ from # to
  BY DEF Transfer
<1>2. p \in Topics /\ c \in Topics /\ p \in Docs /\ c \in Docs /\ spec[c] \in TopicSpecs
  BY StoredIsSound DEF LiveTopics
<1>3. \A d \in Docs : spec'[d] = IF d \in changed THEN TransferSpec(spec[d], from, to, TRUE) ELSE spec[d]
  BY <1>1 DEF Write
<1>4. p \in Transferred(r, from)
  BY <1>2, <1>3
<1>5. <<p, c>> \in Links(from) /\ Links(from) \in SUBSET (Topics \X Topics)
  BY <1>2 DEF Links, LiveTopics
<1>6. c \in Transferred(r, from)
  BY <1>4, <1>5, ReachedIsClosed DEF Transferred, Closed
<1>7. TransferSpec(spec[c], from, to, TRUE).members = (spec[c].members \ {from}) \cup {to}
  BY <1>2 DEF TransferSpec, TopicSpecs
<1>8. c \in changed
  BY <1>1, <1>6, <1>7
<1> HIDE DEF changed, new
<1> QED
  BY <1>1, <1>2, <1>3, <1>7, <1>8

(* Closing a tree leaves open exactly what somebody else leads to          *)
(* (closeTree.ts).                                                         *)
THEOREM ClosedTreesAreExclusive == Spec => OnlyExclusiveClosed
<1>1. TreeInv => \A r \in Topics : CloseTree(r, FALSE) =>
        \A t \in Tree(r) : spec'[t].open = (spec[t].open /\ t # r /\ SharedWith(t, r))
  BY ClosingIsExclusive
<1>2. TreeInv => [(\E t \in Topics : spec'[t].open # spec[t].open) => \A r \in Topics : CloseTree(r, FALSE) =>
        \A t \in Tree(r) : spec'[t].open = (spec[t].open /\ t # r /\ SharedWith(t, r))]_vars
  BY <1>1
<1> QED
  BY <1>2, TreeInvariant, PTL DEF OnlyExclusiveClosed

(* Moving a tree never leaves a child behind (transfer.ts).                *)
THEOREM MovedTreesStayWhole == Spec => MovesWhole
<1>1. TreeInv => \A r \in Topics, from, to \in Workstreams : Transfer(r, from, to, TRUE) =>
        \A p, c \in LiveTopics :
          p \in spec[c].parents /\ from \in (spec[p].members \cap spec[c].members) /\ from \notin spec'[p].members
            => from \notin spec'[c].members /\ to \in spec'[c].members
  BY TransferIsWhole
<1>2. TreeInv => [(\E t \in Topics : spec'[t].members # spec[t].members) =>
        \A r \in Topics, from, to \in Workstreams : Transfer(r, from, to, TRUE) =>
        \A p, c \in LiveTopics :
          p \in spec[c].parents /\ from \in (spec[p].members \cap spec[c].members) /\ from \notin spec'[p].members
            => from \notin spec'[c].members /\ to \in spec'[c].members]_vars
  BY <1>1
<1> QED
  BY <1>2, TreeInvariant, PTL DEF MovesWhole
=============================================================================
