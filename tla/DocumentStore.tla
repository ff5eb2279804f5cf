--------------------------- MODULE DocumentStore ---------------------------
(***************************************************************************)
(* The rules by which the control plane's document store (store.ts) ties   *)
(* documents together: agents have unique names, agent messages refer to   *)
(* live documents, are unique by dedupe key, and are raised when due.      *)
(*                                                                         *)
(* A transaction of the store is synchronous, so it is an action; clients  *)
(* ask for them in any order.  An update whose expected version is    *)
(* not the document's changes nothing; versions are left to ChangeFeed.    *)
(***************************************************************************)
EXTENDS Integers

CONSTANTS Topics, Agents, Messages,   \* document ids by kind
          Historical,   \* messages that can be there from the beginning, migrated from alerts
          SystemImport, \* the reserved agent that sends what was migrated from alerts
          ImportName,   \* its reserved name
          Names, Keys,
          Specs         \* the specs clients give to messages

None == "none"
Docs == Topics \cup Agents \cup Messages
Contents == [agent : Agents, refs : SUBSET Docs, key : Keys \cup {None},
             status : {"open", "acknowledged", "resolved"}, reminder : BOOLEAN]

ASSUME StoreAssumption ==
  /\ Specs \subseteq Contents /\ Historical \subseteq Messages
  /\ Agents \cap Topics = {} /\ Agents \cap Messages = {} /\ Topics \cap Messages = {}
  /\ SystemImport \in Agents /\ ImportName \in Names /\ None \notin Names

VARIABLES
  state,     \* of a document: "absent", "live" or "deleted" (deleted_at is set)
  name,      \* agent_name_key of an agent, None before it is created
  spec,      \* of a message
  due,       \* the due_at of a reminder has passed
  attention  \* of a message: it is raised

vars == <<state, name, spec, due, attention>>

Live == {d \in Docs : state[d] = "live"}
LiveMessages == Live \cap Messages

\* A migration ran: each migrated message names topics, of which some were deleted before.
Init ==
  /\ \E t \in [Topics -> {"absent", "live", "deleted"}], migrated \in SUBSET Historical :
       /\ state = [d \in Docs |-> IF d \in Topics THEN t[d]
                                  ELSE IF d \in migrated \/ (d = SystemImport /\ migrated # {})
                                       THEN "live" ELSE "absent"]
       /\ name = [a \in Agents |-> IF a = SystemImport /\ migrated # {} THEN ImportName ELSE None]
  /\ spec = [m \in Messages |->
               [agent |-> SystemImport, key |-> None, status |-> "open", reminder |-> FALSE,
                refs |-> {t \in Topics : m \in Historical /\ state[t] # "absent"}]]
  /\ due = [m \in Messages |-> FALSE] /\ attention = [m \in Messages |-> FALSE]

-----------------------------------------------------------------------------
(* validateAgent and validateMessage.  Faulty variants come first.         *)
NameFree(a, n) == \A b \in Live \cap Agents : name[b] = n => b = a

\* The reserved agent and its name stay together.
ValidAgent(a, n) == (a = SystemImport <=> n = ImportName) /\ NameFree(a, n)

\* A migrated message may keep the topics it names, though they are gone.
\* (References to topics stand for the field topics, others for relations.)
Preserved(m) == IF m \in Historical THEN spec[m].refs \cap Topics ELSE {}

OwnersOpen(k) == {m \in LiveMessages : spec[m].key = k /\ spec[m].status = "open"}
Owners(k) == {m \in LiveMessages : spec[m].key = k /\ spec[m].status # "resolved"}

KeyFree(m, s) == s.key = None \/ s.status = "resolved" \/ Owners(s.key) \subseteq {m}

Valid(m, s) ==
  /\ s.agent \in Live
  /\ state[m] # "absent" => s.agent = spec[m].agent
  /\ s.refs \subseteq (Live \ {m}) \cup Preserved(m)
  /\ KeyFree(m, s)

\* The server decides whether a reminder is raised.
Raised(s, past) == s.reminder /\ s.status = "open" /\ past

(* guardMessageReferences: what keeps d from being deleted.  An agent is   *)
(* also kept by deleted messages, which may be restored.                   *)
Mentions(m, d) == spec[m].agent = d \/ d \in spec[m].refs
Referrers(d) ==
  {m \in Messages : Mentions(m, d) /\ (m \in Live \/ (d \in Agents /\ state[m] = "deleted"))}

-----------------------------------------------------------------------------
SetState(d, s) == state' = [state EXCEPT ![d] = s]

\* A message is stored with spec s; its deadline may lie in the past.
Store(m, s) ==
  /\ Valid(m, s)
  /\ spec' = [spec EXCEPT ![m] = s]
  /\ \E past \in BOOLEAN :
       /\ past => s.reminder
       /\ due' = [due EXCEPT ![m] = past]
       /\ attention' = [attention EXCEPT ![m] = Raised(s, past)]
  /\ UNCHANGED name

(* createDocument.  A message whose key is taken returns the owner or is a *)
(* conflict; nothing changes then.                                         *)
CreateTopic(t) == state[t] = "absent" /\ SetState(t, "live") /\ UNCHANGED <<name, spec, due, attention>>
CreateMessage(m, s) ==
  /\ m \notin Historical /\ state[m] = "absent"
  /\ SetState(m, "live") /\ Store(m, s)

NewAgent(a, n) ==
  /\ state[a] = "absent" /\ SetState(a, "live")
  /\ name' = [name EXCEPT ![a] = n]
  /\ UNCHANGED <<spec, due, attention>>

CreateAgent(a, n) == a # SystemImport /\ ValidAgent(a, n) /\ NewAgent(a, n)

(* An Alert without a sender is sent by the System Import agent, which is  *)
(* first created, in a transaction of its own, whether or not the message  *)
(* is then accepted.                                                       *)
EnsureSystemImportAgent == NameFree(SystemImport, ImportName) /\ NewAgent(SystemImport, ImportName)

(* updateDocument                                                          *)
RenameAgent(a, n) ==
  /\ a \in Live /\ ValidAgent(a, n)
  /\ name' = [name EXCEPT ![a] = n]
  /\ UNCHANGED <<state, spec, due, attention>>
UpdateMessage(m, s) == m \in Live /\ Store(m, s) /\ UNCHANGED state

(* deleteDocument                                                          *)
Delete(d) ==
  /\ d \in Live \ {SystemImport}
  /\ d \in Messages => Valid(d, spec[d])
  /\ Referrers(d) = {}
  /\ SetState(d, "deleted")
  /\ UNCHANGED <<name, spec, due, attention>>

(* restoreDocument: the document must be valid again.                      *)
RestorableUnchecked(d) == state[d] = "deleted"
Restorable(d) ==
  /\ state[d] = "deleted"
  /\ d \in Agents => ValidAgent(d, name[d])
  /\ d \in Messages => Valid(d, spec[d])

Restore(d) ==
  /\ Restorable(d)
  /\ SetState(d, "live")
  /\ attention' = [m \in Messages |-> IF m = d THEN Raised(spec[m], due[m]) ELSE attention[m]]
  /\ UNCHANGED <<name, spec, due>>

(* activateDueReminders: every second, each due reminder is written again, *)
(* which raises it.  The first one that is refused ends the sweep.         *)
Due == {m \in LiveMessages : Raised(spec[m], due[m]) /\ ~attention[m]}

ActivateDueReminders ==
  /\ \E S \in SUBSET Due :
       /\ S # {} /\ \A m \in S : Valid(m, spec[m])
       /\ S # Due => \E m \in Due \ S : ~Valid(m, spec[m])
       /\ attention' = [m \in Messages |-> attention[m] \/ m \in S]
  /\ UNCHANGED <<state, name, spec, due>>

DeadlinePasses(m) ==
  /\ state[m] # "absent" /\ spec[m].reminder /\ ~due[m]
  /\ due' = [due EXCEPT ![m] = TRUE]
  /\ UNCHANGED <<state, name, spec, attention>>

-----------------------------------------------------------------------------
Next ==
  \/ \E t \in Topics : CreateTopic(t)
  \/ \E a \in Agents, n \in Names : CreateAgent(a, n) \/ RenameAgent(a, n)
  \/ EnsureSystemImportAgent
  \/ \E m \in Messages, s \in Specs : CreateMessage(m, s) \/ UpdateMessage(m, s)
  \/ \E d \in Docs : Delete(d) \/ Restore(d)
  \/ ActivateDueReminders
  \/ \E m \in Messages : DeadlinePasses(m)

Spec == Init /\ [][Next]_vars

\* The 1 second timer of the reminder sweep.
FairSpec == Spec /\ WF_vars(ActivateDueReminders)

-----------------------------------------------------------------------------
(* Types; only an open reminder whose deadline has passed is raised.       *)
StoreTypeOK ==
  /\ state \in [Docs -> {"absent", "live", "deleted"}]
  /\ name \in [Agents -> Names \cup {None}]
  /\ spec \in [Messages -> Contents]
  /\ due \in [Messages -> BOOLEAN] /\ attention \in [Messages -> BOOLEAN]
  /\ \A m \in Messages : attention[m] => spec[m].reminder /\ spec[m].status = "open" /\ due[m]

(* Every live message stays valid, whatever is deleted, restored, renamed  *)
(* or resolved around it: its sender is a live agent, its references are   *)
(* live documents, or topics its migration preserved, and its dedupe key   *)
(* is its own.  So no later edit, deletion or reminder of it is refused    *)
(* because of what happened to other documents (validateMessage and        *)
(* guardMessageReferences, store.ts).                                      *)
MessagesStayValid == \A m \in LiveMessages : Valid(m, spec[m])

(* A stored message never loses its sender, not even while it is deleted.  *)
SendersStay == \A m \in Messages : state[m] # "absent" => spec[m].agent \in Live

(* No two live agents share a name, however agents are created, renamed    *)
(* and deleted and restored, also under a name taken since (validateAgent).*)
NamesUnique == \A a, b \in Live \cap Agents : name[a] = name[b] => a = b

(* A reminder that is due is raised, unless it is deleted, closed or       *)
(* postponed first: no other message the sweep meets prevents it.          *)
RemindersRaised ==
  \A m \in Messages :
    (m \in Live /\ Raised(spec[m], due[m])) ~> (m \notin Live \/ ~Raised(spec[m], due[m]) \/ attention[m])
=============================================================================
