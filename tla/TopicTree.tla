------------------------------ MODULE TopicTree ------------------------------
(***************************************************************************)
(* Topics and workstreams, and the tools that write them: the ws-topic-*   *)
(* and ws-workstream-* tools (kinds/topic, kinds/workstream), the generic  *)
(* wm-document-* tools and wm-search-add-topic (server.ts), on the         *)
(* versioned writes and batches of store.ts.                               *)
(*                                                                         *)
(* A handler is synchronous, so an action is a whole call.  The ws-* tools *)
(* read what they write in the same call; the generic tools write what     *)
(* their client read in an earlier one.  A refused call changes nothing.   *)
(***************************************************************************)
EXTENDS Integers, FiniteSets

CONSTANTS Topics, Workstreams,   \* document ids
          Clients,               \* callers that read before they write
          Edits,                 \* the patches callers give
          InitialContents,       \* what may be stored in the beginning, by document
          MaxTree,               \* MAX_CLOSE_TREE_TOPICS
          MaxWrites              \* bound of the check

None == "none"
Docs == Topics \cup Workstreams
TopicSpecs == [open : BOOLEAN, parents : SUBSET Topics,
               members : SUBSET Workstreams, focused : SUBSET Workstreams]
WorkstreamSpecs == [open : BOOLEAN]
SpecsOf(d) == IF d \in Topics THEN TopicSpecs ELSE WorkstreamSpecs
BlankTopic == [open |-> TRUE, parents |-> {}, members |-> {}, focused |-> {}]
Blank(d) == IF d \in Topics THEN BlankTopic ELSE [open |-> TRUE]

\* A document as a client got it.
Envelope(d, s, v) == [doc |-> d, spec |-> s, version |-> v]
NoCopy == Envelope(None, BlankTopic, 0)

ASSUME TreeAssumption ==
  /\ Topics \cap Workstreams = {} /\ None \notin Docs /\ MaxTree \in Nat
  /\ \A f \in InitialContents :
       \A d \in DOMAIN f : d \in Docs /\ f[d] \in SpecsOf(d) /\ (d \in Topics => f[d].focused \subseteq f[d].members)

VARIABLES
  state,    \* of a document: "absent", "live" or "deleted"
  spec,     \* of a document
  version,  \* resource_version of a document
  counter,  \* resource_version of the store: the last write's number
  copy      \* of a client: the document it has read last

vars == <<state, spec, version, counter, copy>>
store == <<state, spec, version, counter>>

Init ==
  /\ \E f \in InitialContents :
       /\ state = [d \in Docs |-> IF d \in DOMAIN f THEN "live" ELSE "absent"]
       /\ spec = [d \in Docs |-> IF d \in DOMAIN f THEN f[d] ELSE Blank(d)]
  /\ version = [d \in Docs |-> 0] /\ counter = 0
  /\ copy = [c \in Clients |-> NoCopy]

Live == {d \in Docs : state[d] = "live"}
LiveTopics == Live \cap Topics

-----------------------------------------------------------------------------
(* The store.  One transaction; the documents of a batch get one number,   *)
(* for only the versions of the same document are ever compared.           *)
NumberedFirst(D) == [d \in Docs |-> IF D = {d} THEN counter + 1 ELSE version[d]]   \* faulty: not a batch
Numbered(D) == [d \in Docs |-> IF d \in D THEN counter + 1 ELSE version[d]]

Stamp(D) == counter' = counter + 1 /\ version' = Numbered(D)

Write(new) ==
  /\ Stamp(DOMAIN new)
  /\ spec' = [d \in Docs |-> IF d \in DOMAIN new THEN new[d] ELSE spec[d]]
  /\ UNCHANGED state
WriteOne(d, s) == Write([x \in {d} |-> s])

Insert(d, s) ==
  /\ state[d] = "absent"
  /\ Stamp({d})
  /\ state' = [state EXCEPT ![d] = "live"] /\ spec' = [spec EXCEPT ![d] = s]

SetState(d, from, to) ==
  /\ state[d] = from
  /\ Stamp({d})
  /\ state' = [state EXCEPT ![d] = to] /\ UNCHANGED spec

Patched(s, e) == [f \in DOMAIN s |-> IF f \in DOMAIN e THEN e[f] ELSE s[f]]
ASSUME EditsAssumption == \A e \in Edits : Patched(BlankTopic, e) \in TopicSpecs

\* validateTopicReferences
ReferencesValid(s) == s.parents \cup s.members \subseteq Live /\ s.focused \subseteq s.members

-----------------------------------------------------------------------------
(* What the edges E lead to from r, r itself included.                     *)
Closed(S, E) == \A e \in E : e[1] \in S => e[2] \in S
Reached(E, r) ==
  LET closed == {S \in SUBSET Topics : r \in S /\ Closed(S, E)}
  IN  {t \in Topics : \A S \in closed : t \in S}
Acyclic(E, T) == \A e \in E : e[1] \in T => e[1] \notin Reached(E, e[2])

\* From parents to live children, among the members of a workstream if one is given.
Links(w) ==
  {e \in Topics \X LiveTopics : e[1] \in spec[e[2]].parents /\ (w # None => w \in spec[e[2]].members)}
Tree(r) == Reached(Links(None), r)

-----------------------------------------------------------------------------
(* ws-topic-create: a topic given parents and no workstreams joins theirs. *)
\* The generic wm-document-create stores what it is given (inherit is FALSE).
Inherited(s) == IF s.members = {} THEN UNION {spec[p].members : p \in s.parents} ELSE s.members

CreateTopic(t, e, inherit) ==
  LET given == Patched(BlankTopic, e)
      s == IF inherit THEN [given EXCEPT !.members = Inherited(given)] ELSE given
  IN  given.parents \subseteq LiveTopics /\ ReferencesValid(s) /\ Insert(t, s)

(* ws-topic-update.  New parents must not lead to a cycle, as far as live  *)
(* topics go; new members take the focus with them.                        *)
Ancestry(t, parents) ==
  {e \in LiveTopics \X Topics : e[2] \in (IF e[1] = t THEN parents ELSE spec[e[1]].parents)}
ParentsAllowed(t, parents) ==
  parents \subseteq LiveTopics /\ Acyclic(Ancestry(t, parents), Reached(Ancestry(t, parents), t))

Merged(s, e) ==
  IF "members" \in DOMAIN e /\ "focused" \notin DOMAIN e
  THEN [Patched(s, e) EXCEPT !.focused = @ \cap e.members] ELSE Patched(s, e)

UpdateTopic(t, e) ==
  /\ t \in LiveTopics
  /\ "parents" \in DOMAIN e => ParentsAllowed(t, e.parents)
  /\ ReferencesValid(Merged(spec[t], e))
  /\ WriteOne(t, Merged(spec[t], e))

(* ws-topic-close-tree.  Without shared descendants, what has a parent     *)
(* that is not closed with it stays: the largest set without such topics.  *)
NoOutsideParent(S, r) == \A t \in S \ {r} : spec[t].parents \subseteq S
ExclusiveOnePass(tree, r) == {t \in tree : t = r \/ spec[t].parents \subseteq tree}   \* faulty: no propagation
Exclusive(tree, r) == UNION {S \in SUBSET tree : NoOutsideParent(S, r)}

CloseTree(r, includeShared) ==
  LET tree == Tree(r)
      matched == IF includeShared THEN tree ELSE Exclusive(tree, r)
      closing == {t \in matched : spec[t].open}
  IN  /\ r \in LiveTopics
      /\ Cardinality(tree) <= MaxTree
      /\ Acyclic(Links(None), tree)
      /\ closing # {}
      /\ Write([t \in closing |-> [spec[t] EXCEPT !.open = FALSE]])

(* ws-topic-transfer of a tree, as far as it lies in the source.           *)
TransferredChildren(r, from) == {r} \cup {e[2] : e \in {l \in Links(from) : l[1] = r}}   \* faulty: no further
Transferred(r, from) == Reached(Links(from), r)

TransferSpecFocused(s, from, to, move) ==   \* faulty: stays focused in the source
  [s EXCEPT !.members = (@ \ (IF move THEN {from} ELSE {})) \cup {to}]
TransferSpec(s, from, to, move) ==
  LET left == IF move THEN {from} ELSE {}
  IN  [s EXCEPT !.members = (@ \ left) \cup {to}, !.focused = @ \ left]

Transfer(r, from, to, move) ==
  LET changed == {t \in Transferred(r, from) : TransferSpec(spec[t], from, to, move) # spec[t]}
  IN  /\ from # to /\ {from, to} \subseteq Live \cup {None}
      /\ r \in LiveTopics
      /\ from # None => from \in spec[r].members
      /\ changed # {}
      /\ Write([t \in changed |-> TransferSpec(spec[t], from, to, move)])

-----------------------------------------------------------------------------
(* ws-workstream-create, -update and -reorder; the last opens again what   *)
(* it moves, all in one batch.                                             *)
CreateWorkstream(w, open) == Insert(w, [open |-> open])
UpdateWorkstream(w, open) == w \in Live /\ WriteOne(w, [open |-> open])
Reorder(W) == W # {} /\ W \subseteq Live /\ Write([w \in W |-> [open |-> TRUE]])

(* ws-topic-delete, ws-workstream-delete and wm-document-delete.  Nothing  *)
(* is looked at but the document; messages that refer to it (DocumentStore)*)
(* may have the store refuse.                                              *)
Delete(d) == SetState(d, "live", "deleted")
Restore(d) == SetState(d, "deleted", "live")

-----------------------------------------------------------------------------
(* Clients of the generic tools, which give the version they have read.    *)
Current(c) ==
  copy[c].doc # None /\ state[copy[c].doc] = "live" /\ version[copy[c].doc] = copy[c].version

\* The answer to a client's write is the document it wrote.
Answered(c) == copy' = [copy EXCEPT ![c] = Envelope(@.doc, spec'[@.doc], version'[@.doc])]

ReadDocument(c, d) ==
  /\ d \in Live
  /\ copy' = [copy EXCEPT ![c] = Envelope(d, spec[d], version[d])]
  /\ UNCHANGED store

\* wm-document-update: references are checked, a cycle of parents is not.
UpdateSeen(c, e) ==
  /\ Current(c)
  /\ LET d == copy[c].doc
         s == Patched(spec[d], e)
     IN  DOMAIN e \subseteq DOMAIN s /\ (d \in Topics => ReferencesValid(s)) /\ WriteOne(d, s)
  /\ Answered(c)

\* wm-document-delete with a version
DeleteSeen(c) == Current(c) /\ Delete(copy[c].doc) /\ copy' = [copy EXCEPT ![c] = NoCopy]

\* wm-search-add-topic: membership of an open workstream is added, whatever else the topic refers to.
SearchAddTopic(c, w) ==
  /\ Current(c)
  /\ LET t == copy[c].doc
     IN  /\ t \in Topics /\ w \in Live /\ spec[w].open /\ w \notin spec[t].members
         /\ WriteOne(t, [spec[t] EXCEPT !.members = @ \cup {w}])
  /\ Answered(c)

-----------------------------------------------------------------------------
ToolCall ==
  /\ \/ \E t \in Topics, e \in Edits : UpdateTopic(t, e) \/ \E i \in BOOLEAN : CreateTopic(t, e, i)
     \/ \E t \in Topics, b \in BOOLEAN : CloseTree(t, b)
     \/ \E t \in Topics, to \in Workstreams :
          \/ Transfer(t, None, to, FALSE)
          \/ \E from \in Workstreams, move \in BOOLEAN : Transfer(t, from, to, move)
     \/ \E w \in Workstreams, b \in BOOLEAN : CreateWorkstream(w, b) \/ UpdateWorkstream(w, b)
     \/ \E W \in SUBSET Workstreams : Reorder(W)
     \/ \E d \in Docs : Delete(d) \/ Restore(d)
  /\ UNCHANGED copy

SeenCall(c) ==
  \/ \E e \in Edits : UpdateSeen(c, e)
  \/ \E w \in Workstreams : SearchAddTopic(c, w)
  \/ DeleteSeen(c)

Next ==
  /\ counter < MaxWrites
  /\ ToolCall \/ \E c \in Clients : SeenCall(c) \/ \E d \in Docs : ReadDocument(c, d)

Spec == Init /\ [][Next]_vars

-----------------------------------------------------------------------------
(* Types.                                                                  *)
TreeTypeOK ==
  /\ state \in [Docs -> {"absent", "live", "deleted"}]
  /\ DOMAIN spec = Docs /\ \A d \in Docs : spec[d] \in SpecsOf(d)
  /\ counter \in Nat /\ version \in [Docs -> 0..counter]
  /\ DOMAIN copy = Clients
  /\ \A c \in Clients : copy[c].doc # None => /\ copy[c].doc \in Docs /\ copy[c].spec \in SpecsOf(copy[c].doc)
                                            /\ copy[c].version \in 0..counter

(* A version names one content: whoever holds a document with the version  *)
(* it still has holds what is stored, so a write that gives the version    *)
(* it has read replaces nothing its author has not seen, be it an edit, a  *)
(* batch, a deletion or a restore that came between.                       *)
VersionNamesContent == \A c \in Clients : Current(c) => copy[c].spec = spec[copy[c].doc]

(* A topic is focused only in workstreams it belongs to, also after a      *)
(* transfer, a restore and edits of the one list without the other.        *)
FocusWithinMembers == \A t \in Topics : spec[t].focused \subseteq spec[t].members

(* Closing a tree leaves open exactly the descendants somebody else still  *)
(* leads to: those from which some way up, not through the root, leaves    *)
(* the tree (README.md:1326-1333, closeTree.ts).                           *)
WaysUp(r) == {e \in (LiveTopics \ {r}) \X Topics : e[2] \in spec[e[1]].parents}
SharedWith(t, r) == ~(Reached(WaysUp(r), t) \subseteq Tree(r))
OnlyExclusiveClosed ==
  [][(\E t \in Topics : spec'[t].open # spec[t].open) => \A r \in Topics : CloseTree(r, FALSE) =>
       \A t \in Tree(r) : spec'[t].open = (spec[t].open /\ t # r /\ SharedWith(t, r))]_vars

(* Moving a tree never tears it: a child that was in the source with a     *)
(* parent that has been moved is moved too, whatever else leads to it.     *)
MovesWhole ==
  [][(\E t \in Topics : spec'[t].members # spec[t].members) => \A r \in Topics, from, to \in Workstreams : Transfer(r, from, to, TRUE) =>
       \A p, c \in LiveTopics :
         p \in spec[c].parents /\ from \in (spec[p].members \cap spec[c].members) /\ from \notin spec'[p].members
           => from \notin spec'[c].members /\ to \in spec'[c].members]_vars
=============================================================================
