------------------------ MODULE DocumentStoreProofs ------------------------
(***************************************************************************)
(* What is proved about the document store's reference rules, for any      *)
(* documents, names, keys and specs.  The invariants the run checks are    *)
(* inductive together.                                                     *)
(***************************************************************************)
EXTENDS DocumentStore, TLAPS

StoreInv == StoreTypeOK /\ MessagesStayValid /\ SendersStay /\ NamesUnique

(* A message that is valid stays so while its spec is kept, its references *)
(* and sender live on and nobody else takes its key.                       *)
LEMMA ValidPersists ==
  ASSUME StoreTypeOK, NEW m \in Messages, Valid(m, spec[m]),
         spec'[m] = spec[m],
         Live \cap ({spec[m].agent} \cup spec[m].refs) \subseteq Live',
         KeyFree(m, spec[m])'
  PROVE  Valid(m, spec[m])'
<1>1. spec[m] \in Contents
  BY DEF StoreTypeOK
<1>2. spec[m].refs \subseteq Docs /\ spec[m].agent \in Agents
  BY <1>1 DEF Contents
<1>3. Preserved(m)' = Preserved(m)
  BY DEF Preserved
<1>4. (spec[m].refs \subseteq (Live \ {m}) \cup Preserved(m))'
  BY <1>3 DEF Valid
<1> QED
  BY <1>4 DEF Valid

(* The invariant holds initially.                                          *)
LEMMA StoreInvInit == Init => StoreInv
<1> SUFFICES ASSUME Init PROVE StoreInv
  OBVIOUS
<1> USE StoreAssumption
<1>1. PICK t \in [Topics -> {"absent", "live", "deleted"}], migrated \in SUBSET Historical :
        /\ state = [d \in Docs |-> IF d \in Topics THEN t[d]
                                   ELSE IF d \in migrated \/ (d = SystemImport /\ migrated # {})
                                        THEN "live" ELSE "absent"]
        /\ name = [a \in Agents |-> IF a = SystemImport /\ migrated # {} THEN ImportName ELSE None]
  BY DEF Init
<1>2. spec = [m \in Messages |->
               [agent |-> SystemImport, key |-> None, status |-> "open", reminder |-> FALSE,
                refs |-> {x \in Topics : m \in Historical /\ state[x] # "absent"}]]
  BY DEF Init
<1>3. /\ state \in [Docs -> {"absent", "live", "deleted"}]
      /\ \A m \in Messages : state[m] # "absent" => m \in Historical /\ SystemImport \in Live
      /\ Live \cap Agents \subseteq {SystemImport}
  BY <1>1 DEF Docs, Live
<1>4. StoreTypeOK
  <2>1. name \in [Agents -> Names \cup {None}] /\ due \in [Messages -> BOOLEAN] /\ attention \in [Messages -> BOOLEAN]
    BY <1>1 DEF Init
  <2>2. \A m \in Messages : ~attention[m]
    BY DEF Init
  <2>3. ASSUME NEW m \in Messages PROVE spec[m] \in Contents
    <3>1. {x \in Topics : m \in Historical /\ state[x] # "absent"} \in SUBSET Docs
      BY DEF Docs
    <3> QED
      BY <1>2, <3>1 DEF Contents
  <2>4. spec \in [Messages -> Contents]
    BY <1>2, <2>3
  <2> QED
    BY <1>3, <2>1, <2>2, <2>4 DEF StoreTypeOK
<1>5. SendersStay
  BY <1>2, <1>3 DEF SendersStay
<1>6. NamesUnique
  BY <1>3 DEF NamesUnique
<1>7. \A m \in LiveMessages : Valid(m, spec[m])
  BY <1>2, <1>3 DEF LiveMessages, Live, Valid, KeyFree, Preserved, Docs
<1> QED
  BY <1>4, <1>5, <1>6, <1>7 DEF StoreInv, MessagesStayValid

-----------------------------------------------------------------------------
(* Storing a message, new or live, keeps the invariant: no other message   *)
(* can hold its key, and it refers to what is live.                        *)
LEMMA StoreKeeps ==
  ASSUME StoreInv, NEW m \in Messages, NEW s \in Specs, Store(m, s),
         state' = [state EXCEPT ![m] = "live"]
  PROVE  StoreInv'
<1> USE StoreAssumption
<1>1. /\ s \in Contents /\ Valid(m, s) /\ spec' = [spec EXCEPT ![m] = s]
      /\ name' = name /\ m \in Docs
  BY DEF Store, Docs
<1>2. PICK past \in BOOLEAN :
        /\ past => s.reminder
        /\ due' = [due EXCEPT ![m] = past]
        /\ attention' = [attention EXCEPT ![m] = Raised(s, past)]
  BY DEF Store
<1>3. /\ spec' \in [Messages -> Contents] /\ spec'[m] = s
      /\ \A o \in Messages \ {m} : spec'[o] = spec[o]
      /\ \A d \in Docs : d \in Live' <=> d \in Live \/ d = m
      /\ \A a \in Agents : a \in Live' <=> a \in Live
  BY <1>1 DEF StoreInv, StoreTypeOK, Live, Docs
<1>4. StoreTypeOK'
  BY <1>1, <1>2, <1>3 DEF StoreInv, StoreTypeOK, Raised
<1>5. SendersStay'
  BY <1>1, <1>3 DEF StoreInv, SendersStay, Valid, StoreTypeOK, Contents
<1>6. NamesUnique'
  BY <1>1, <1>3 DEF StoreInv, NamesUnique
<1>7. Valid(m, spec[m])'
  <2>1. s.refs \subseteq (Live' \ {m}) \cup Preserved(m)'
    BY <1>1, <1>3 DEF Valid, Preserved, Live
  <2>2. KeyFree(m, s)'
    BY <1>1, <1>3 DEF Valid, KeyFree, Owners, LiveMessages, Docs
  <2> QED
    BY <1>1, <1>3, <2>1, <2>2 DEF Valid, Live
<1>8. ASSUME NEW o \in LiveMessages', o # m PROVE Valid(o, spec[o])'
  <2>1. o \in LiveMessages /\ o \in Messages /\ Valid(o, spec[o])
    BY <1>3, <1>8 DEF StoreInv, MessagesStayValid, LiveMessages, Docs, Live
  <2>2. KeyFree(o, spec[o])'
    BY <1>1, <1>3, <1>8, <2>1 DEF Valid, KeyFree, Owners, LiveMessages, Docs
  <2>3. Live \subseteq Live'
    BY <1>3 DEF Live
  <2> QED
    BY <1>3, <1>8, <2>1, <2>2, <2>3, ValidPersists DEF StoreInv
<1> QED
  BY <1>4, <1>5, <1>6, <1>7, <1>8 DEF StoreInv, MessagesStayValid

(* Creating a topic keeps the invariant.                                   *)
LEMMA CreateTopicKeeps ==
  ASSUME StoreInv, NEW t \in Topics, CreateTopic(t)
  PROVE  StoreInv'
<1> USE StoreAssumption
<1>1. /\ \A d \in Docs : d \in Live' <=> d \in Live \/ d = t
      /\ LiveMessages' = LiveMessages /\ Live \cap Agents = (Live \cap Agents)'
      /\ \A m \in Messages : state'[m] = state[m]
      /\ UNCHANGED <<name, spec, due, attention>>
      /\ state' \in [Docs -> {"absent", "live", "deleted"}]
  BY DEF CreateTopic, SetState, StoreInv, StoreTypeOK, Live, LiveMessages, Docs
<1>2. StoreTypeOK' /\ SendersStay' /\ NamesUnique'
  BY <1>1 DEF StoreInv, StoreTypeOK, SendersStay, NamesUnique, Contents, Docs
<1>3. ASSUME NEW m \in LiveMessages' PROVE Valid(m, spec[m])'
  <2>1. m \in LiveMessages /\ m \in Messages /\ Live \subseteq Live'
    BY <1>1, <1>3 DEF LiveMessages, Live
  <2>2. Valid(m, spec[m]) /\ KeyFree(m, spec[m])'
    BY <1>1, <2>1 DEF StoreInv, MessagesStayValid, Valid, KeyFree, Owners
  <2> QED
    BY <1>1, <2>1, <2>2, ValidPersists DEF StoreInv
<1> QED
  BY <1>2, <1>3 DEF StoreInv, MessagesStayValid

(* A new agent, registered by a client or reserved, keeps the invariant.   *)
LEMMA NewAgentKeeps ==
  ASSUME StoreInv, NEW a \in Agents, NEW n \in Names, NameFree(a, n), NewAgent(a, n)
  PROVE  StoreInv'
<1> USE StoreAssumption
<1>1. /\ \A d \in Docs : d \in Live' <=> d \in Live \/ d = a
      /\ a \in Docs /\ a \notin Live /\ LiveMessages' = LiveMessages /\ Live \subseteq Live'
      /\ \A m \in Messages : state'[m] = state[m]
      /\ UNCHANGED <<spec, due, attention>>
      /\ name' = [name EXCEPT ![a] = n] /\ name' \in [Agents -> Names \cup {None}]
      /\ state' \in [Docs -> {"absent", "live", "deleted"}]
  BY DEF NewAgent, SetState, StoreInv, StoreTypeOK, Live, LiveMessages, Docs
<1>2. StoreTypeOK'
  BY <1>1 DEF StoreInv, StoreTypeOK
<1>3. SendersStay'
  BY <1>1 DEF StoreInv, SendersStay
<1>4. NamesUnique'
  <2> SUFFICES ASSUME NEW b \in Live' \cap Agents, NEW c \in Live' \cap Agents, name'[b] = name'[c]
               PROVE  b = c
    BY DEF NamesUnique
  <2>1. /\ b \in Docs /\ c \in Docs /\ name'[a] = n
        /\ \A x \in Agents \ {a} : name'[x] = name[x]
    BY <1>1 DEF Docs, StoreInv, StoreTypeOK
  <2> QED
    BY <1>1, <2>1 DEF StoreInv, NamesUnique, NameFree
<1>5. ASSUME NEW m \in LiveMessages' PROVE Valid(m, spec[m])'
  <2>1. m \in LiveMessages /\ m \in Messages
    BY <1>1, <1>5 DEF LiveMessages
  <2>2. Valid(m, spec[m]) /\ KeyFree(m, spec[m])'
    BY <1>1, <2>1 DEF StoreInv, MessagesStayValid, Valid, KeyFree, Owners
  <2> QED
    BY <1>1, <2>1, <2>2, ValidPersists DEF StoreInv
<1> QED
  BY <1>2, <1>3, <1>4, <1>5 DEF StoreInv, MessagesStayValid

(* Renaming an agent keeps the invariant: the name was free.               *)
LEMMA RenameKeeps ==
  ASSUME StoreInv, NEW a \in Agents, NEW n \in Names, RenameAgent(a, n)
  PROVE  StoreInv'
<1>1. /\ UNCHANGED <<state, spec, due, attention>> /\ NameFree(a, n)
      /\ name' = [name EXCEPT ![a] = n] /\ name \in [Agents -> Names \cup {None}]
  BY DEF RenameAgent, ValidAgent, StoreInv, StoreTypeOK
<1>2. StoreTypeOK' /\ SendersStay'
  BY <1>1 DEF StoreInv, StoreTypeOK, SendersStay, Live
<1>3. MessagesStayValid'
  BY <1>1 DEF StoreInv, MessagesStayValid, LiveMessages, Live, Valid, Preserved, KeyFree, Owners
<1>4. NamesUnique'
  BY <1>1 DEF StoreInv, NamesUnique, NameFree, Live
<1> QED
  BY <1>2, <1>3, <1>4 DEF StoreInv

(* Deleting a document keeps the invariant: nothing mentioned it.          *)
LEMMA DeleteKeeps ==
  ASSUME StoreInv, NEW d \in Docs, Delete(d)
  PROVE  StoreInv'
<1> USE StoreAssumption
<1>1. /\ UNCHANGED <<name, spec, due, attention>> /\ Referrers(d) = {}
      /\ state' = [state EXCEPT ![d] = "deleted"] /\ state[d] = "live"
      /\ state \in [Docs -> {"absent", "live", "deleted"}]
  BY DEF Delete, SetState, StoreInv, StoreTypeOK, Live
<1>2. Live' = Live \ {d} /\ LiveMessages' = LiveMessages \ {d}
  BY <1>1 DEF Live, LiveMessages
<1>3. StoreTypeOK'
  BY <1>1 DEF StoreInv, StoreTypeOK
<1>4. NamesUnique'
  BY <1>1, <1>2 DEF StoreInv, NamesUnique
<1>5. SendersStay'
  <2> SUFFICES ASSUME NEW m \in Messages, state'[m] # "absent" PROVE spec[m].agent # d /\ spec[m].agent \in Live
    BY <1>1, <1>2 DEF SendersStay
  <2>1. state[m] # "absent" /\ spec[m].agent \in Live /\ spec[m].agent \in Agents
    BY <1>1 DEF StoreInv, SendersStay, StoreTypeOK, Contents, Docs
  <2>2. m \in Live \/ state[m] = "deleted"
    BY <1>1, <2>1 DEF Live, Docs
  <2> QED
    BY <1>1, <2>1, <2>2 DEF Referrers, Mentions
<1>6. ASSUME NEW m \in LiveMessages' PROVE Valid(m, spec[m])'
  <2>1. m \in LiveMessages /\ m \in Messages /\ m \in Live /\ Valid(m, spec[m])
    BY <1>2, <1>6 DEF StoreInv, MessagesStayValid, LiveMessages
  <2>2. spec[m].agent # d /\ d \notin spec[m].refs
    BY <1>1, <2>1 DEF Referrers, Mentions
  <2>3. KeyFree(m, spec[m])'
    BY <1>1, <1>2, <2>1 DEF Valid, KeyFree, Owners
  <2> QED
    BY <1>1, <1>2, <2>1, <2>2, <2>3, ValidPersists DEF StoreInv
<1> QED
  BY <1>3, <1>4, <1>5, <1>6 DEF StoreInv, MessagesStayValid

(* Restoring a document keeps the invariant: it is validated again, and    *)
(* no live document has taken its name or its key.                         *)
LEMMA RestoreKeeps ==
  ASSUME StoreInv, NEW d \in Docs, Restore(d)
  PROVE  StoreInv'
<1> USE StoreAssumption
<1>1. /\ UNCHANGED <<name, spec, due>> /\ state' = [state EXCEPT ![d] = "live"]
      /\ state \in [Docs -> {"absent", "live", "deleted"}]
      /\ attention' = [m \in Messages |-> IF m = d THEN Raised(spec[m], due[m]) ELSE attention[m]]
      /\ state[d] = "deleted"
      /\ d \in Agents => NameFree(d, name[d])
      /\ d \in Messages => Valid(d, spec[d])
  BY DEF Restore, Restorable, ValidAgent, SetState, StoreInv, StoreTypeOK
<1>2. Live' = Live \cup {d} /\ LiveMessages' = LiveMessages \cup ({d} \cap Messages)
      /\ d \notin Live
  BY <1>1 DEF Live, LiveMessages
<1>3. StoreTypeOK'
  BY <1>1 DEF StoreInv, StoreTypeOK, Raised, Contents
<1>4. SendersStay'
  BY <1>1, <1>2 DEF StoreInv, SendersStay
<1>5. NamesUnique'
  BY <1>1, <1>2 DEF StoreInv, NamesUnique, NameFree
<1>6. ASSUME NEW m \in LiveMessages' PROVE Valid(m, spec[m])'
  <2>1. m \in Messages /\ (m = d \/ m \in LiveMessages) /\ Valid(m, spec[m])
    BY <1>1, <1>2, <1>6 DEF StoreInv, MessagesStayValid, LiveMessages
  <2>2. KeyFree(m, spec[m])'
    BY <1>1, <1>2, <2>1 DEF Valid, KeyFree, Owners, LiveMessages
  <2> QED
    BY <1>1, <1>2, <2>1, <2>2, ValidPersists DEF StoreInv
<1> QED
  BY <1>3, <1>4, <1>5, <1>6 DEF StoreInv, MessagesStayValid

(* Steps that change neither the documents' states, names nor specs keep   *)
(* all but the types.                                                      *)
LEMMA ReferencesKept ==
  ASSUME StoreInv, UNCHANGED <<state, name, spec>>
  PROVE  (MessagesStayValid /\ SendersStay /\ NamesUnique)'
BY DEF StoreInv, MessagesStayValid, SendersStay, NamesUnique, LiveMessages, Live,
       Valid, Preserved, KeyFree, Owners

(* Every step keeps the invariant.                                         *)
LEMMA StoreInvNext == StoreInv /\ [Next]_vars => StoreInv'
<1> SUFFICES ASSUME StoreInv, [Next]_vars PROVE StoreInv'
  OBVIOUS
<1>1. ASSUME NEW t \in Topics, CreateTopic(t) PROVE StoreInv'
  BY <1>1, CreateTopicKeeps
<1>2. ASSUME NEW a \in Agents, NEW n \in Names, RenameAgent(a, n) PROVE StoreInv'
  BY <1>2, RenameKeeps
<1>3. ASSUME NEW m \in Messages, NEW s \in Specs, CreateMessage(m, s) PROVE StoreInv'
  BY <1>3, StoreKeeps DEF CreateMessage, SetState
<1>4. ASSUME NEW m \in Messages, NEW s \in Specs, UpdateMessage(m, s) PROVE StoreInv'
  <2>1. state' = [state EXCEPT ![m] = "live"]
    BY <1>4 DEF UpdateMessage, Live, StoreInv, StoreTypeOK
  <2> QED
    BY <1>4, <2>1, StoreKeeps DEF UpdateMessage
<1>5. ASSUME NEW d \in Docs, Delete(d) PROVE StoreInv'
  BY <1>5, DeleteKeeps
<1>6. ASSUME NEW d \in Docs, Restore(d) PROVE StoreInv'
  BY <1>6, RestoreKeeps
<1>7. CASE ActivateDueReminders
  <2>1. PICK S \in SUBSET Due : attention' = [m \in Messages |-> attention[m] \/ m \in S]
    BY <1>7 DEF ActivateDueReminders
  <2>2. UNCHANGED <<state, name, spec, due>>
    BY <1>7 DEF ActivateDueReminders
  <2>3. StoreTypeOK'
    BY <2>1, <2>2 DEF StoreInv, StoreTypeOK, Due, Raised
  <2> QED
    BY <2>2, <2>3, ReferencesKept DEF StoreInv
<1>8. ASSUME NEW m \in Messages, DeadlinePasses(m) PROVE StoreInv'
  <2>1. StoreTypeOK'
    BY <1>8 DEF DeadlinePasses, StoreInv, StoreTypeOK
  <2> QED
    BY <1>8, <2>1, ReferencesKept DEF DeadlinePasses, StoreInv
<1>9. ASSUME NEW a \in Agents, NEW n \in Names, CreateAgent(a, n) PROVE StoreInv'
  BY <1>9, NewAgentKeeps DEF CreateAgent, ValidAgent
<1>10. CASE EnsureSystemImportAgent
  BY <1>10, NewAgentKeeps, StoreAssumption DEF EnsureSystemImportAgent
<1>11. CASE UNCHANGED vars
  BY <1>11, ReferencesKept DEF vars, StoreInv, StoreTypeOK
<1> QED
  BY <1>1, <1>2, <1>3, <1>4, <1>5, <1>6, <1>7, <1>8, <1>9, <1>10, <1>11 DEF Next

(* The inductive invariant is invariant.                                   *)
THEOREM StoreInvariant == Spec => []StoreInv
<1> QED
  BY StoreInvInit, StoreInvNext, PTL DEF Spec

-----------------------------------------------------------------------------
(* Type correctness; only an open, overdue reminder is raised.             *)
THEOREM StoreTypeCorrect == Spec => []StoreTypeOK
<1>1. StoreInv => StoreTypeOK
  BY DEF StoreInv
<1> QED
  BY <1>1, StoreInvariant, PTL

(* Every live message stays valid whatever happens around it.              *)
THEOREM ReferencesStayValid == Spec => []MessagesStayValid
<1>1. StoreInv => MessagesStayValid
  BY DEF StoreInv
<1> QED
  BY <1>1, StoreInvariant, PTL

(* A stored message never loses its sender.                                *)
THEOREM SendersAreLive == Spec => []SendersStay
<1>1. StoreInv => SendersStay
  BY DEF StoreInv
<1> QED
  BY <1>1, StoreInvariant, PTL

(* No two live agents share a name, however they are created, renamed,     *)
(* deleted and restored (validateAgent).                                   *)
THEOREM AgentNamesUnique == Spec => []NamesUnique
<1>1. StoreInv => NamesUnique
  BY DEF StoreInv
<1> QED
  BY <1>1, StoreInvariant, PTL
=============================================================================
