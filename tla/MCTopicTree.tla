----------------------------- MODULE MCTopicTree -----------------------------
(* TopicTree on a few small trees.                                         *)
EXTENDS TopicTree

CONSTANTS r, a, b, x, v, w

In(P, M) == [open |-> TRUE, parents |-> P, members |-> M, focused |-> M]
Opened == [open |-> TRUE]
MCInitialContents ==
  { \* a chain with a shared middle, all in one workstream
    [d \in {r, a, b, x, v, w} |-> IF d \in Workstreams THEN Opened
       ELSE In(CASE d = a -> {r, x} [] d = b -> {a} [] OTHER -> {}, {v})],
    \* two ways to the same topic, another workstream not yet created
    [d \in {r, a, b, v} |-> IF d \in Workstreams THEN Opened
       ELSE In(CASE d = a -> {r} [] d = b -> {r, a} [] OTHER -> {}, IF d = a THEN {} ELSE {v})] }
MCEdits == [parents : {{}, {b}}] \cup [members : {{}, {w}}] \cup [open : {TRUE}] \cup [focused : {{w}}]
             \cup [parents : {{r, x}}, members : {{v, w}}]
=============================================================================
