-------------------------- MODULE MCDocumentStore --------------------------
(* DocumentStore with one migrated message and a few specs for messages.   *)
EXTENDS DocumentStore

CONSTANTS t1, t2, m2, a1, a2, imp, h1, m1

Plain(a, R) == [agent |-> a, refs |-> R, key |-> None, status |-> "open", reminder |-> FALSE]
MCSpecs == {Plain(a1, {t1, a2}),
            [Plain(imp, {t1}) EXCEPT !.key = "k"],
            [Plain(a2, {h1}) EXCEPT !.reminder = TRUE],
            [Plain(a1, {}) EXCEPT !.key = "k", !.reminder = TRUE],
            [Plain(a1, {t1}) EXCEPT !.key = "k", !.status = "acknowledged", !.reminder = TRUE],
            [Plain(a1, {m1}) EXCEPT !.key = "k", !.status = "resolved"]}
=============================================================================
