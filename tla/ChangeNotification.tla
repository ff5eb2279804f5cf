------------------------- MODULE ChangeNotification -------------------------
(***************************************************************************)
(* What the live-update path of Working Memory promises a desktop, with    *)
(* every mechanism left out.  The store stamps each committed write with   *)
(* the next resource version.  A watcher holds a cursor; moving the cursor *)
(* to v means that the watcher has been told of every document whose       *)
(* newest write is at or below v.  A watcher whose connection failed drops *)
(* its cursor, and must be brought up to date as a whole when it returns.  *)
(***************************************************************************)
EXTENDS Naturals, Integers

CONSTANTS Docs,       \* document ids
          Watchers    \* desktops that long-poll GET /changes

VARIABLES resourceVersion, \* store_meta.resource_version
          docVersion,      \* the resource_version column of each document, 0: no row
          cursor,          \* the version a watcher is up to date with, or Undefined
          seen             \* the newest version of each document a watcher was told of

vars == <<resourceVersion, docVersion, cursor, seen>>

\* A watcher that has not been brought up to date since it (re)connected.
Undefined == -1

Init ==
  /\ resourceVersion \in Nat
  /\ docVersion \in [Docs -> 0..resourceVersion]
  /\ cursor = [w \in Watchers |-> Undefined]
  /\ seen = [w \in Watchers |-> [d \in Docs |-> 0]]

(* One committed transaction: some documents get versions above the old    *)
(* counter and no document gets one above the new counter.                 *)
Write ==
  /\ resourceVersion' \in Nat
  /\ resourceVersion' >= resourceVersion
  /\ docVersion' \in [Docs -> Nat]
  /\ \A d \in Docs :
       \/ docVersion'[d] = docVersion[d]
       \/ resourceVersion < docVersion'[d] /\ docVersion'[d] <= resourceVersion'
  /\ UNCHANGED <<cursor, seen>>

(* The watcher is told of enough documents to move its cursor to v: what   *)
(* it is told is never older than what it knew nor newer than the store.   *)
Notify(w) ==
  /\ \E v \in 0..resourceVersion :
       /\ v >= cursor[w]
       /\ cursor' = [cursor EXCEPT ![w] = v]
       /\ \E known \in [Docs -> 0..resourceVersion] :
            /\ \A d \in Docs :
                 /\ seen[w][d] <= known[d] /\ known[d] <= docVersion[d]
                 /\ docVersion[d] <= v => known[d] = docVersion[d]
            /\ seen' = [seen EXCEPT ![w] = known]
  /\ UNCHANGED <<resourceVersion, docVersion>>

(* The connection of some watchers fails: they lose their cursors.         *)
Disconnect ==
  /\ cursor' \in [Watchers -> Nat \cup {Undefined}]
  /\ \A w \in Watchers : cursor'[w] \in {cursor[w], Undefined}
  /\ UNCHANGED <<resourceVersion, docVersion, seen>>

Next == Write \/ Disconnect \/ \E w \in Watchers : Notify(w)

Spec == Init /\ [][Next]_vars
=============================================================================
