-------------------------- MODULE ChangeFeedProofs --------------------------
(***************************************************************************)
(* Proofs about ChangeFeed: no watcher silently misses a committed write,  *)
(* and the feed with its watchers implements ChangeNotification, for every *)
(* set of documents and watchers and every size of the replay window.      *)
(***************************************************************************)
EXTENDS ChangeFeed, TLAPS

FeedTypes ==
  /\ resourceVersion \in Nat /\ version \in Nat
  /\ docVersion \in [Docs -> Nat]
  /\ history \in Seq(Change)
  /\ since \in [Watchers -> Nat \cup {Undefined}]

(* The feed is never ahead of the store, and level with it while it        *)
(* listens; a watcher's cursor is never ahead of the feed.                 *)
VersionOrder ==
  /\ version <= resourceVersion
  /\ feed = "open" => version = resourceVersion
  /\ \A d \in Docs : docVersion[d] <= resourceVersion
  /\ \A w \in Watchers : since[w] <= version

(* The replay window holds consecutive versions that end at the feed's.    *)
Window(h, v) ==
  /\ Len(h) <= v
  /\ \A i \in 1..Len(h) : h[i].resourceVersion = v - Len(h) + i

HistoryContiguous == Window(history, version)

\* The changes c take the versions after v.
Follows(c, v) == \A i \in 1..Len(c) : c[i].resourceVersion = v + i

\* A window h that ends at v keeps the changes of s that are not older than itself.
Keeps(h, v, s) ==
  \A i \in 1..Len(s) : v - Len(h) < s[i].resourceVersion => \E j \in 1..Len(h) : h[j] = s[i]

(* The newest write of a document is in the window unless it is older than *)
(* the window or newer than the feed.                                      *)
HistoryComplete ==
  \A d \in Docs :
    (version - Len(history) < docVersion[d] /\ docVersion[d] <= version)
      => \E i \in 1..Len(history) :
           history[i].id = d /\ history[i].resourceVersion = docVersion[d]

(* A response a leads a watcher with cursor v to version a.resourceVersion *)
(* without a gap.                                                          *)
Bridges(a, v) ==
  /\ a \in Answer
  /\ a.resourceVersion <= version
  /\ v <= a.resourceVersion
  /\ a.reset \/ /\ v # Undefined
                /\ \A d \in Docs :
                     (v < docVersion[d] /\ docVersion[d] <= a.resourceVersion)
                       => \E c \in a.changes : c.id = d

AnswersBridge ==
  \A w \in Watchers : watch[w] = "answered" => Bridges(answer[w], since[w])

SeenBound == \A w \in Watchers, d \in Docs : seen[w][d] <= docVersion[d]

FeedInv ==
  /\ TypeOK /\ VersionOrder /\ HistoryContiguous /\ HistoryComplete
  /\ AnswersBridge /\ SeenBound /\ NoSilentMiss

\* What makes every answer the feed could give now a bridge.
ReplayInv == FeedTypes /\ VersionOrder /\ HistoryContiguous /\ HistoryComplete
SnapshotsBridge ==
  \A w \in Watchers : Bridges(Snapshot(since[w], version, history), since[w])

-----------------------------------------------------------------------------
(* LastN keeps the newest elements: the tail of the sequence, at most n.   *)
LEMMA LastNProperties ==
  ASSUME NEW s \in Seq(Change), NEW n \in Nat \ {0}
  PROVE  /\ LastN(s, n) \in Seq(Change)
         /\ Len(LastN(s, n)) <= n
         /\ Len(LastN(s, n)) <= Len(s)
         /\ Len(LastN(s, n)) = Len(s) \/ Len(LastN(s, n)) = n
         /\ \A i \in 1..Len(LastN(s, n)) :
              LastN(s, n)[i] = s[Len(s) - Len(LastN(s, n)) + i]
<1>1. CASE Len(s) <= n
  BY <1>1 DEF LastN
<1>2. CASE ~(Len(s) <= n)
  <2>1. /\ Len(s) \in Nat
        /\ Len(s) - n + 1 \in 1..Len(s)
    BY <1>2
  <2>2. LastN(s, n) = SubSeq(s, Len(s) - n + 1, Len(s))
    BY <1>2 DEF LastN
  <2>3. QED
    BY <2>1, <2>2
<1>3. QED
  BY <1>1, <1>2

(* A batch is a nonempty sequence of documents.                            *)
LEMMA BatchProperties ==
  ASSUME NEW b \in Batches
  PROVE  b \in Seq(Docs) /\ Len(b) \in Nat \ {0}
<1>1. PICK n \in 1..MaxVersion : b \in [1..n -> Docs]
  BY DEF Batches
<1>2. n \in Nat \ {0}
  BY FeedAssumption
<1>3. QED
  BY <1>1, <1>2

(* A transaction leaves a document alone or gives it a version above the   *)
(* old counter, the one of its place in the batch.                         *)
LEMMA StampProperties ==
  ASSUME FeedTypes, NEW b \in Seq(Docs), Len(b) \in Nat \ {0}, Stamp(b)
  PROVE  /\ resourceVersion' = resourceVersion + Len(b)
         /\ docVersion' \in [Docs -> Nat]
         /\ \A d \in Docs :
              \/ docVersion'[d] = docVersion[d] /\ \A i \in 1..Len(b) : b[i] # d
              \/ \E i \in 1..Len(b) : b[i] = d /\ docVersion'[d] = resourceVersion + i
<1>1. ASSUME NEW d \in Docs
      PROVE  \/ docVersion'[d] = docVersion[d] /\ \A i \in 1..Len(b) : b[i] # d
             \/ \E i \in 1..Len(b) : b[i] = d /\ docVersion'[d] = resourceVersion + i
  <2>1. CASE \E i \in 1..Len(b) : b[i] = d
    <3>1. (CHOOSE i \in 1..Len(b) : b[i] = d) \in {i \in 1..Len(b) : b[i] = d}
      BY <2>1
    <3>2. docVersion'[d] = resourceVersion + CHOOSE i \in 1..Len(b) : b[i] = d
      BY <2>1 DEF Stamp
    <3>3. QED
      BY <3>1, <3>2
  <2>2. CASE ~ \E i \in 1..Len(b) : b[i] = d
    BY <2>2 DEF Stamp
  <2>3. QED
    BY <2>1, <2>2
<1>2. docVersion' = [d \in Docs |-> docVersion'[d]]
  BY DEF Stamp
<1>3. ASSUME NEW d \in Docs PROVE docVersion'[d] \in Nat
  BY <1>1 DEF FeedTypes
<1>4. docVersion' \in [Docs -> Nat]
  BY <1>2, <1>3
<1>5. QED
  BY <1>1, <1>4 DEF Stamp

(* Every answer the feed gives bridges the gap from the cursor it answers: *)
(* either it is a reset or it names every document written in between.     *)
LEMMA SnapshotsBridgeLemma == ReplayInv => SnapshotsBridge
<1> SUFFICES ASSUME ReplayInv, NEW w \in Watchers
             PROVE  Bridges(Snapshot(since[w], version, history), since[w])
  BY DEF SnapshotsBridge
<1> DEFINE a == Snapshot(since[w], version, history)
<1>1. /\ version \in Nat
      /\ history \in Seq(Change)
      /\ Len(history) \in Nat
      /\ since[w] \in Nat \cup {Undefined}
      /\ since[w] <= version
  BY DEF ReplayInv, FeedTypes, VersionOrder
<1>2. /\ a.resourceVersion = version
      /\ a.reset \in BOOLEAN
      /\ a.changes \subseteq {history[i] : i \in 1..Len(history)}
      /\ a = [resourceVersion |-> a.resourceVersion, reset |-> a.reset, changes |-> a.changes]
  BY DEF Snapshot
<1>3. a.reset <=> \/ since[w] = Undefined
                  \/ since[w] > version
                  \/ since[w] < version /\ since[w] < ReplayFloor(version, history)
  BY DEF Snapshot
<1>4. ~a.reset => a.changes = {c \in {history[i] : i \in 1..Len(history)} : c.resourceVersion > since[w]}
  BY DEF Snapshot
<1>5. {history[i] : i \in 1..Len(history)} \subseteq Change
  BY <1>1
<1>6. a \in Answer
  BY <1>1, <1>2, <1>5 DEF Answer
<1>7. ASSUME ~a.reset, NEW d \in Docs, since[w] < docVersion[d], docVersion[d] <= version
      PROVE  \E c \in a.changes : c.id = d
  <2>1. /\ since[w] # Undefined
        /\ since[w] >= version \/ since[w] >= ReplayFloor(version, history)
        /\ a.changes = {c \in {history[i] : i \in 1..Len(history)} : c.resourceVersion > since[w]}
    <3>1. since[w] # Undefined /\ ~(since[w] < version /\ since[w] < ReplayFloor(version, history))
      BY <1>7, <1>3
    <3>2. ReplayFloor(version, history) \in Int
      BY <1>1, <1>5 DEF ReplayFloor, Change
    <3>3. QED
      BY <1>1, <1>7, <1>4, <3>1, <3>2 DEF Undefined
  <2>2. docVersion[d] \in Nat /\ since[w] \in Nat
    BY <1>1, <2>1 DEF ReplayInv, FeedTypes
  <2>3. since[w] < version
    BY <1>1, <1>7, <2>2
  <2>4. Len(history) # 0
    <3>1. CASE history = <<>>
      BY <3>1, <1>1, <2>1, <2>2, <2>3 DEF ReplayFloor
    <3>2. QED
      BY <3>1, <1>1
  <2>5. ReplayFloor(version, history) = version - Len(history)
    BY <1>1, <2>4 DEF ReplayFloor, ReplayInv, HistoryContiguous, Window
  <2>6. version - Len(history) < docVersion[d]
    BY <1>1, <1>7, <2>1, <2>2, <2>3, <2>5
  <2>7. PICK i \in 1..Len(history) :
          history[i].id = d /\ history[i].resourceVersion = docVersion[d]
    BY <1>7, <2>6 DEF ReplayInv, HistoryComplete
  <2>8. history[i] \in a.changes
    BY <2>1, <2>2, <2>7, <1>7
  <2>9. QED
    BY <2>7, <2>8
<1>8. a.reset \/ since[w] # Undefined
  BY <1>3
<1>9. QED
  BY <1>1, <1>2, <1>6, <1>7, <1>8 DEF Bridges
-----------------------------------------------------------------------------
(* Changes c, appended to a contiguous window h that ends at version v,    *)
(* and trimmed, leave a contiguous window; no change newer than the window *)
(* is lost.                                                                *)
LEMMA TrimmedWindow ==
  ASSUME NEW h \in Seq(Change), NEW c \in Seq(Change), NEW v \in Nat,
         Window(h, v), Follows(c, v),
         NEW n \in Seq(Change), n = LastN(h \o c, HistoryLimit)
  PROVE  /\ Len(n) <= HistoryLimit
         /\ Window(n, v + Len(c))
         /\ Keeps(n, v + Len(c), h)
         /\ Keeps(n, v + Len(c), c)
<1>0. /\ Len(h) <= v
      /\ \A i \in 1..Len(h) : h[i].resourceVersion = v - Len(h) + i
      /\ \A i \in 1..Len(c) : c[i].resourceVersion = v + i
  BY DEF Window, Follows
<1> DEFINE all == h \o c
<1>1. Len(h) \in Nat /\ Len(c) \in Nat
  OBVIOUS
<1>2. all \in Seq(Change)
  OBVIOUS
<1>3. Len(all) = Len(h) + Len(c)
  OBVIOUS
<1>4. \A i \in 1..Len(h) : all[i] = h[i]
  OBVIOUS
<1>5. \A i \in 1..Len(c) : all[Len(h) + i] = c[i]
  OBVIOUS
<1>6. ASSUME NEW i \in 1..Len(all)
      PROVE  all[i].resourceVersion = v - Len(h) + i
  <2>1. CASE i <= Len(h)
    BY <1>0, <1>1, <1>4, <2>1
  <2>2. CASE i > Len(h)
    <3>1. i - Len(h) \in 1..Len(c) /\ i = Len(h) + (i - Len(h))
      BY <1>1, <1>3, <2>2
    <3>2. all[i] = c[i - Len(h)]
      BY <1>5, <3>1
    <3>3. QED
      BY <1>0, <1>1, <3>1, <3>2
  <2>3. QED
    BY <1>1, <2>1, <2>2
<1>7. n = LastN(all, HistoryLimit)
  OBVIOUS
<1> HIDE DEF all
<1>8. /\ Len(n) <= HistoryLimit
      /\ Len(n) <= Len(all)
      /\ \A i \in 1..Len(n) : n[i] = all[Len(all) - Len(n) + i]
  <2>1. HistoryLimit \in Nat \ {0}
    BY FeedAssumption
  <2>2. QED
    BY <1>2, <1>7, <2>1, LastNProperties
<1>9. Len(n) \in Nat
  BY <1>8
<1>10. Len(n) <= v + Len(c)
  BY <1>0, <1>1, <1>3, <1>8, <1>9
<1>11. ASSUME NEW i \in 1..Len(n)
       PROVE  n[i].resourceVersion = v + Len(c) - Len(n) + i
  <2>1. Len(all) - Len(n) + i \in 1..Len(all)
    BY <1>1, <1>3, <1>8, <1>9
  <2>2. n[i].resourceVersion = v - Len(h) + (Len(all) - Len(n) + i)
    BY <1>6, <1>8, <2>1
  <2>3. QED
    BY <1>1, <1>3, <1>9, <2>2
<1>12. ASSUME NEW i \in 1..Len(all), v + Len(c) - Len(n) < all[i].resourceVersion
       PROVE  \E j \in 1..Len(n) : n[j] = all[i]
  <2>1. v + Len(c) - Len(n) < v - Len(h) + i
    BY <1>6, <1>12
  <2>2. i - (Len(all) - Len(n)) \in 1..Len(n)
    BY <1>1, <1>3, <1>8, <1>9, <2>1
  <2>3. n[i - (Len(all) - Len(n))] = all[Len(all) - Len(n) + (i - (Len(all) - Len(n)))]
    BY <1>8, <2>2
  <2>4. Len(all) - Len(n) + (i - (Len(all) - Len(n))) = i
    BY <1>1, <1>3, <1>9
  <2>5. QED
    BY <2>2, <2>3, <2>4
<1>13. ASSUME NEW i \in 1..Len(h), v + Len(c) - Len(n) < h[i].resourceVersion
       PROVE  \E j \in 1..Len(n) : n[j] = h[i]
  <2>1. i \in 1..Len(all) /\ all[i] = h[i]
    BY <1>1, <1>3, <1>4
  <2>2. QED
    BY <1>12, <1>13, <2>1
<1>14. ASSUME NEW i \in 1..Len(c), v + Len(c) - Len(n) < c[i].resourceVersion
       PROVE  \E j \in 1..Len(n) : n[j] = c[i]
  <2>1. Len(h) + i \in 1..Len(all)
    BY <1>1, <1>3
  <2>2. all[Len(h) + i] = c[i]
    BY <1>5
  <2>3. QED
    BY <1>12, <1>14, <2>1, <2>2
<1>15. QED
  BY <1>8, <1>10, <1>11, <1>13, <1>14 DEF Window, Keeps

(* A commit keeps the replay window contiguous and complete, whatever it   *)
(* trims.                                                                  *)
LEMMA CommitKeepsReplay ==
  ASSUME FeedInv, NEW b \in Batches, Commit(b)
  PROVE  ReplayInv' /\ Len(history') <= HistoryLimit
<1>1. b \in Seq(Docs) /\ Len(b) \in Nat \ {0}
  BY BatchProperties
<1>2. FeedTypes /\ VersionOrder /\ HistoryContiguous /\ HistoryComplete
  BY DEF FeedInv, TypeOK, FeedTypes
<1>3. /\ resourceVersion' = resourceVersion + Len(b)
      /\ docVersion' \in [Docs -> Nat]
      /\ \A d \in Docs :
           \/ docVersion'[d] = docVersion[d] /\ \A i \in 1..Len(b) : b[i] # d
           \/ \E i \in 1..Len(b) : b[i] = d /\ docVersion'[d] = resourceVersion + i
  BY <1>1, <1>2, StampProperties DEF Commit
<1>4. resourceVersion' \in Nat /\ \A d \in Docs : docVersion'[d] <= resourceVersion'
  <2>1. resourceVersion' \in Nat
    BY <1>1, <1>2, <1>3 DEF FeedTypes
  <2>2. ASSUME NEW d \in Docs PROVE docVersion'[d] <= resourceVersion'
    <3>1. docVersion[d] \in Nat /\ resourceVersion \in Nat /\ docVersion[d] <= resourceVersion
      BY <1>2 DEF FeedTypes, VersionOrder
    <3>2. CASE docVersion'[d] = docVersion[d]
      BY <1>1, <1>3, <3>1, <3>2
    <3>3. CASE \E i \in 1..Len(b) : b[i] = d /\ docVersion'[d] = resourceVersion + i
      BY <1>1, <1>3, <3>1, <3>3
    <3>4. QED
      BY <1>3, <3>2, <3>3
  <2>3. QED
    BY <2>1, <2>2
<1>5. CASE feed = "closed"
  <2>1. UNCHANGED <<history, version, since, feed>>
    BY <1>5 DEF Commit, NotifyListeners
  <2>2. FeedTypes'
    BY <1>2, <1>3, <1>4, <2>1 DEF FeedTypes
  <2>3. version <= resourceVersion'
    BY <1>1, <1>2, <1>3 DEF FeedTypes, VersionOrder
  <2>4. VersionOrder'
    BY <1>2, <1>4, <1>5, <2>1, <2>3 DEF VersionOrder
  <2>5. HistoryContiguous'
    BY <1>2, <2>1 DEF HistoryContiguous
  <2>6. HistoryComplete'
    <3> SUFFICES ASSUME NEW d \in Docs,
                        version - Len(history) < docVersion'[d], docVersion'[d] <= version
                 PROVE  \E i \in 1..Len(history) :
                          history[i].id = d /\ history[i].resourceVersion = docVersion'[d]
      BY <2>1 DEF HistoryComplete
    <3>1. docVersion'[d] = docVersion[d]
      BY <1>1, <1>2, <1>3 DEF FeedTypes, VersionOrder
    <3>2. QED
      BY <1>2, <3>1 DEF HistoryComplete
  <2>7. Len(history') <= HistoryLimit
    BY <2>1 DEF FeedInv, TypeOK
  <2>8. QED
    BY <2>2, <2>4, <2>5, <2>6, <2>7 DEF ReplayInv
<1>6. CASE feed = "open"
  <2> DEFINE c == ChangesOf(b)
  <2>1. /\ NotifyListeners(b) /\ UNCHANGED <<since, feed>>
        /\ version = resourceVersion
    BY <1>2, <1>6 DEF Commit, VersionOrder
  <2>2. c \in Seq(Change)
    BY <1>1, <1>2 DEF ChangesOf, Change, FeedTypes
  <2>3. /\ Len(c) = Len(b)
        /\ \A i \in 1..Len(c) : c[i].id = b[i] /\ c[i].resourceVersion = version + i
    BY <1>1, <2>1 DEF ChangesOf
  <2>4. /\ version' = version + Len(b)
        /\ resourceVersion' = version'
        /\ version' \in Nat /\ version \in Nat
    BY <1>1, <1>2, <1>3, <2>1 DEF NotifyListeners, FeedTypes
  <2>5. history' = LastN(history \o c, HistoryLimit)
    BY <2>1 DEF NotifyListeners
  <2> HIDE DEF c
  <2>6. /\ history' \in Seq(Change)
        /\ Len(history') <= HistoryLimit
        /\ Window(history', version')
        /\ Keeps(history', version', history)
        /\ Keeps(history', version', c)
    <3>1. history \in Seq(Change)
      BY <1>2 DEF FeedTypes
    <3>2. Window(history, version)
      BY <1>2 DEF HistoryContiguous
    <3>3. Follows(c, version)
      BY <2>3 DEF Follows
    <3>4. version \in Nat /\ version' = version + Len(c)
      BY <2>3, <2>4
    <3>5. history \o c \in Seq(Change) /\ HistoryLimit \in Nat \ {0}
      BY <2>2, <3>1, FeedAssumption
    <3>6. history' \in Seq(Change)
      BY <2>5, <3>5, LastNProperties
    <3>7. QED
      BY <2>2, <2>5, <3>1, <3>2, <3>3, <3>4, <3>6, TrimmedWindow
  <2>7. FeedTypes'
    BY <1>2, <1>3, <1>4, <2>1, <2>4, <2>6 DEF FeedTypes
  <2>8. VersionOrder'
    <3>1. ASSUME NEW w \in Watchers PROVE since'[w] <= version'
      <4>1. since[w] \in Nat \cup {Undefined} /\ since[w] <= version /\ since'[w] = since[w]
        BY <1>2, <2>1 DEF FeedTypes, VersionOrder
      <4>2. QED
        BY <1>1, <2>4, <4>1 DEF Undefined
    <3>2. QED
      BY <1>4, <2>4, <3>1 DEF VersionOrder
  <2>9. HistoryContiguous'
    BY <2>6 DEF HistoryContiguous
  <2>10. HistoryComplete'
    <3> SUFFICES ASSUME NEW d \in Docs,
                        version' - Len(history') < docVersion'[d], docVersion'[d] <= version'
                 PROVE  \E i \in 1..Len(history') :
                          history'[i].id = d /\ history'[i].resourceVersion = docVersion'[d]
      BY DEF HistoryComplete
    <3>1. CASE \E i \in 1..Len(b) : b[i] = d /\ docVersion'[d] = resourceVersion + i
      <4>1. PICK i \in 1..Len(b) : b[i] = d /\ docVersion'[d] = resourceVersion + i
        BY <3>1
      <4>2. c[i].id = d /\ c[i].resourceVersion = docVersion'[d]
        BY <2>1, <2>3, <4>1
      <4>3. PICK j \in 1..Len(history') : history'[j] = c[i]
        BY <2>3, <2>6, <4>2 DEF Keeps
      <4>4. QED
        BY <4>2, <4>3
    <3>2. CASE docVersion'[d] = docVersion[d]
      <4>1. docVersion[d] <= version
        BY <1>2, <2>1 DEF VersionOrder
      <4>2. CASE version - Len(history) < docVersion[d]
        <5>1. PICK i \in 1..Len(history) :
                history[i].id = d /\ history[i].resourceVersion = docVersion[d]
          BY <1>2, <4>1, <4>2 DEF HistoryComplete
        <5>2. PICK j \in 1..Len(history') : history'[j] = history[i]
          BY <2>6, <3>2, <5>1 DEF Keeps
        <5>3. QED
          BY <3>2, <5>1, <5>2
      <4>3. CASE ~(version - Len(history) < docVersion[d])
        <5>1. Len(history') <= Len(history) + Len(b)
          <6>1. history \in Seq(Change)
            BY <1>2 DEF FeedTypes
          <6>2. /\ history \o c \in Seq(Change)
                /\ Len(history \o c) = Len(history) + Len(c)
            BY <2>2, <6>1
          <6>3. Len(history') <= Len(history \o c)
            BY <2>5, <6>2, FeedAssumption, LastNProperties
          <6>4. QED
            BY <2>3, <6>2, <6>3
        <5>2. Len(history) \in Nat /\ Len(history') \in Nat /\ docVersion[d] \in Nat
          BY <1>2, <2>6 DEF FeedTypes
        <5>3. FALSE
          BY <1>1, <2>4, <3>2, <4>3, <5>1, <5>2
        <5>4. QED
          BY <5>3
      <4>4. QED
        BY <4>2, <4>3
    <3>3. QED
      BY <1>3, <3>1, <3>2
  <2>11. QED
    BY <2>6, <2>7, <2>8, <2>9, <2>10 DEF ReplayInv
<1>7. QED
  BY <1>5, <1>6 DEF Commit

-----------------------------------------------------------------------------
LEMMA ReplayOfFeedInv == FeedInv => ReplayInv
  BY DEF FeedInv, ReplayInv, TypeOK, FeedTypes

(* Versions only grow: a document a step writes gets a version above every *)
(* version the feed or a watcher has heard of.                             *)
LEMMA StoreStep ==
  ASSUME FeedInv, [Next]_vars
  PROVE  /\ resourceVersion' \in Nat /\ version' \in Nat
         /\ docVersion' \in [Docs -> Nat]
         /\ resourceVersion <= resourceVersion' /\ version <= version'
         /\ \A d \in Docs : /\ docVersion'[d] <= resourceVersion'
                            /\ \/ docVersion'[d] = docVersion[d]
                               \/ docVersion[d] < docVersion'[d] /\ resourceVersion < docVersion'[d]
<1>1. FeedTypes /\ VersionOrder
  BY DEF FeedInv, TypeOK, FeedTypes
<1>2. ASSUME NEW b \in Seq(Docs), Len(b) \in Nat \ {0}, Stamp(b)
      PROVE  /\ resourceVersion' \in Nat
             /\ docVersion' \in [Docs -> Nat]
             /\ resourceVersion <= resourceVersion'
             /\ \A d \in Docs : /\ docVersion'[d] <= resourceVersion'
                                /\ \/ docVersion'[d] = docVersion[d]
                                   \/ docVersion[d] < docVersion'[d] /\ resourceVersion < docVersion'[d]
  <2>1. /\ resourceVersion' = resourceVersion + Len(b)
        /\ docVersion' \in [Docs -> Nat]
        /\ \A d \in Docs :
             \/ docVersion'[d] = docVersion[d] /\ \A i \in 1..Len(b) : b[i] # d
             \/ \E i \in 1..Len(b) : b[i] = d /\ docVersion'[d] = resourceVersion + i
    BY <1>1, <1>2, StampProperties
  <2>2. resourceVersion \in Nat
    BY <1>1 DEF FeedTypes
  <2>3. ASSUME NEW d \in Docs
        PROVE  /\ docVersion'[d] <= resourceVersion'
               /\ \/ docVersion'[d] = docVersion[d]
                  \/ docVersion[d] < docVersion'[d] /\ resourceVersion < docVersion'[d]
    <3>1. docVersion[d] \in Nat /\ docVersion[d] <= resourceVersion
      BY <1>1 DEF FeedTypes, VersionOrder
    <3>2. CASE docVersion'[d] = docVersion[d]
      BY <1>2, <2>1, <2>2, <3>1, <3>2
    <3>3. CASE \E i \in 1..Len(b) : docVersion'[d] = resourceVersion + i
      BY <1>2, <2>1, <2>2, <3>1, <3>3
    <3>4. QED
      BY <2>1, <3>2, <3>3
  <2>4. QED
    BY <1>2, <2>1, <2>2, <2>3
<1>3. ASSUME NEW b \in Batches, Commit(b)
      PROVE  version' \in Nat /\ version <= version' /\ Stamp(b)
  <2>1. version' = version \/ version' = resourceVersion + Len(b)
    BY <1>3 DEF Commit, NotifyListeners
  <2>2. QED
    BY <1>1, <1>3, <2>1, BatchProperties DEF FeedTypes, VersionOrder, Commit
<1>4. CASE \E b \in Batches : Commit(b)
  BY <1>2, <1>3, <1>4, BatchProperties
<1>5. CASE Start
  <2>1. version' = resourceVersion'
    BY <1>5 DEF Start
  <2>2. CASE UNCHANGED storeVars
    BY <1>1, <2>1, <2>2 DEF storeVars, FeedTypes, VersionOrder
  <2>3. CASE \E d \in Docs : Stamp(<<d>>)
    <3>1. PICK d \in Docs : Stamp(<<d>>)
      BY <2>3
    <3>2. <<d>> \in Seq(Docs) /\ Len(<<d>>) \in Nat \ {0}
      OBVIOUS
    <3>3. version <= resourceVersion /\ version \in Nat /\ resourceVersion \in Nat
      BY <1>1 DEF FeedTypes, VersionOrder
    <3>4. resourceVersion' \in Nat /\ resourceVersion <= resourceVersion'
      BY <1>2, <3>1, <3>2
    <3>5. version <= version'
      BY <2>1, <3>3, <3>4
    <3>6. QED
      BY <1>2, <2>1, <3>1, <3>2, <3>4, <3>5
  <2>4. QED
    BY <1>5, <2>2, <2>3 DEF Start
<1>6. CASE UNCHANGED <<storeVars, version>>
  BY <1>1, <1>6 DEF storeVars, FeedTypes, VersionOrder
<1>7. QED
  BY <1>4, <1>5, <1>6
     DEF Next, vars, Poll, PollTimeout, Deliver, Lose, Retry, CloseFeed, Exit, feedVars, storeVars

(* Every step keeps what makes the feed's answers bridges.                 *)
LEMMA StepKeepsReplay ==
  ASSUME FeedInv, [Next]_vars
  PROVE  ReplayInv' /\ Len(history') <= HistoryLimit
<1>1. ReplayInv /\ Len(history) <= HistoryLimit /\ HistoryLimit \in Nat
  BY ReplayOfFeedInv, FeedAssumption DEF FeedInv, TypeOK
<1>2. CASE \E b \in Batches : Commit(b)
  BY <1>2, CommitKeepsReplay
<1>3. CASE Start
  <2>1. /\ resourceVersion' \in Nat /\ docVersion' \in [Docs -> Nat]
        /\ version <= version' /\ version' \in Nat
        /\ \A d \in Docs : docVersion'[d] <= resourceVersion'
    BY StoreStep
  <2>2. /\ version' = resourceVersion' /\ history' = <<>> /\ since' = since
    BY <1>3 DEF Start
  <2>3. Len(history') = 0 /\ history' \in Seq(Change)
    BY <2>2
  <2>4. FeedTypes'
    BY <1>1, <2>1, <2>2, <2>3 DEF ReplayInv, FeedTypes
  <2>5. VersionOrder'
    <3>1. ASSUME NEW w \in Watchers PROVE since'[w] <= version'
      <4>1. since[w] \in Nat \cup {Undefined} /\ since[w] <= version /\ version \in Nat
        BY <1>1 DEF ReplayInv, FeedTypes, VersionOrder
      <4>2. QED
        BY <2>1, <2>2, <4>1 DEF Undefined
    <3>2. QED
      BY <2>1, <2>2, <3>1 DEF VersionOrder
  <2>6. HistoryContiguous'
    BY <2>1, <2>3 DEF HistoryContiguous, Window
  <2>7. HistoryComplete'
    <3> SUFFICES ASSUME NEW d \in Docs,
                        version' - 0 < docVersion'[d], docVersion'[d] <= version'
                 PROVE  FALSE
      BY <2>3 DEF HistoryComplete
    <3>1. docVersion'[d] \in Nat
      BY <2>1
    <3>2. QED
      BY <2>1, <3>1
  <2>8. QED
    BY <1>1, <2>3, <2>4, <2>5, <2>6, <2>7 DEF ReplayInv
<1>4. ASSUME UNCHANGED <<resourceVersion, docVersion, version, history>>,
             feed' = "open" => feed = "open",
             since' \in [Watchers -> Nat \cup {Undefined}],
             \A w \in Watchers : since'[w] <= version
      PROVE  ReplayInv' /\ Len(history') <= HistoryLimit
  <2>1. FeedTypes' /\ VersionOrder'
    BY <1>1, <1>4 DEF ReplayInv, FeedTypes, VersionOrder
  <2>2. HistoryContiguous' /\ HistoryComplete'
    BY <1>1, <1>4 DEF ReplayInv, HistoryContiguous, HistoryComplete
  <2>3. QED
    BY <1>1, <1>4, <2>1, <2>2 DEF ReplayInv
<1>5. /\ since \in [Watchers -> Nat \cup {Undefined}] /\ version \in Nat
      /\ \A w \in Watchers : since[w] <= version /\ Undefined <= version
  BY <1>1 DEF ReplayInv, FeedTypes, VersionOrder, Undefined
<1>6. ASSUME NEW w \in Watchers, Deliver(w)
      PROVE  ReplayInv' /\ Len(history') <= HistoryLimit
  <2>1. Bridges(answer[w], since[w])
    BY <1>6 DEF Deliver, FeedInv, AnswersBridge
  <2>2. answer[w].resourceVersion \in Nat /\ answer[w].resourceVersion <= version
    BY <2>1 DEF Bridges, Answer
  <2>3. since' = [since EXCEPT ![w] = answer[w].resourceVersion]
    BY <1>6 DEF Deliver
  <2>4. QED
    BY <1>4, <1>5, <1>6, <2>2, <2>3 DEF Deliver, storeVars, feedVars
<1>7. ASSUME NEW w \in Watchers, Lose(w)
      PROVE  ReplayInv' /\ Len(history') <= HistoryLimit
  BY <1>4, <1>5, <1>7 DEF Lose, storeVars, feedVars
<1>8. CASE Exit
  BY <1>4, <1>5, <1>8 DEF Exit, storeVars
<1>9. CASE CloseFeed
  BY <1>4, <1>5, <1>9 DEF CloseFeed, storeVars
<1>10. CASE UNCHANGED <<storeVars, feedVars, since>>
  BY <1>4, <1>5, <1>10 DEF storeVars, feedVars
<1>11. QED
  BY <1>2, <1>3, <1>6, <1>7, <1>8, <1>9, <1>10 DEF Next, vars, Poll, PollTimeout, Retry, storeVars, feedVars

-----------------------------------------------------------------------------
LEMMA InitInv == Init => FeedInv
<1> SUFFICES ASSUME Init PROVE FeedInv
  OBVIOUS
<1>1. Len(history) = 0 /\ history \in Seq(Change)
  BY DEF Init
<1>2. NoAnswer \in Answer
  BY DEF NoAnswer, Answer
<1>3. TypeOK
  BY <1>1, <1>2, FeedAssumption DEF Init, TypeOK, Undefined
<1>4. VersionOrder /\ HistoryContiguous /\ HistoryComplete
  BY <1>1 DEF Init, VersionOrder, HistoryContiguous, Window, HistoryComplete, Undefined
<1>5. AnswersBridge /\ SeenBound /\ NoSilentMiss
  BY DEF Init, AnswersBridge, SeenBound, NoSilentMiss
<1>6. QED
  BY <1>3, <1>4, <1>5 DEF FeedInv

(* An answer on its way stays a bridge, whatever is written meanwhile.     *)
LEMMA BridgesPersist ==
  ASSUME FeedInv, [Next]_vars, NEW w \in Watchers, watch[w] = "answered",
         answer'[w] = answer[w], since'[w] = since[w]
  PROVE  Bridges(answer[w], since[w])'
<1> DEFINE a == answer[w]
<1>0. Bridges(a, since[w]) /\ since[w] \in Nat \cup {Undefined}
  BY DEF FeedInv, AnswersBridge, TypeOK
<1>1. /\ version \in Nat /\ version <= resourceVersion /\ resourceVersion \in Nat
      /\ docVersion \in [Docs -> Nat]
  BY DEF FeedInv, TypeOK, VersionOrder
<1>2. /\ version' \in Nat /\ version <= version' /\ docVersion' \in [Docs -> Nat]
      /\ \A d \in Docs : docVersion'[d] = docVersion[d] \/ resourceVersion < docVersion'[d]
  BY StoreStep
<1>3. a.resourceVersion \in Nat /\ a.resourceVersion <= version
  BY <1>0 DEF Bridges, Answer
<1>4. \A d \in Docs : docVersion'[d] <= a.resourceVersion => docVersion'[d] = docVersion[d]
  BY <1>1, <1>2, <1>3
<1>5. a.resourceVersion <= version'
  BY <1>1, <1>2, <1>3
<1>6. a' = a /\ since'[w] = since[w]
  OBVIOUS
<1>7. QED
  BY <1>0, <1>4, <1>5, <1>6 DEF Bridges

(* What a delivered response does to its watcher, and to nobody else.      *)
LEMMA DeliverTells ==
  ASSUME FeedInv, NEW w \in Watchers, Deliver(w)
  PROVE  /\ seen' \in [Watchers -> [Docs -> Nat]]
         /\ docVersion' = docVersion /\ resourceVersion' = resourceVersion
         /\ \A x \in Watchers, d \in Docs : seen'[x][d] \in {seen[x][d], docVersion[d]}
         /\ \A d \in Docs : docVersion[d] <= since'[w] => seen'[w][d] = docVersion[d]
         /\ \A x \in Watchers \ {w} : since'[x] = since[x] /\ seen'[x] = seen[x]
         /\ since'[w] \in Nat /\ since[w] <= since'[w]
<1>0. TypeOK /\ AnswersBridge /\ NoSilentMiss
  BY DEF FeedInv
<1> DEFINE a == answer[w]
<1>1. /\ since[w] \in Nat \cup {Undefined} /\ docVersion \in [Docs -> Nat]
      /\ since \in [Watchers -> Nat \cup {Undefined}] /\ seen \in [Watchers -> [Docs -> Nat]]
  BY <1>0 DEF TypeOK
<1>2. Bridges(a, since[w])
  BY <1>0 DEF Deliver, AnswersBridge
<1>3. /\ docVersion' = docVersion /\ resourceVersion' = resourceVersion
      /\ since' = [since EXCEPT ![w] = a.resourceVersion]
      /\ seen' = IF a.reset \/ a.resourceVersion # since[w] THEN [seen EXCEPT ![w] = Told(w, a)] ELSE seen
  BY DEF Deliver, storeVars
<1>4. a.resourceVersion \in Nat /\ since[w] <= a.resourceVersion
  BY <1>2 DEF Bridges, Answer
<1>5. /\ Told(w, a) \in [Docs -> Nat]
      /\ \A d \in Docs : Told(w, a)[d] \in {seen[w][d], docVersion[d]}
  BY <1>1 DEF Told
<1>6. /\ seen' \in [Watchers -> [Docs -> Nat]]
      /\ \A x \in Watchers, d \in Docs : seen'[x][d] \in {seen[x][d], docVersion[d]}
      /\ \A x \in Watchers \ {w} : since'[x] = since[x] /\ seen'[x] = seen[x]
  BY <1>1, <1>3, <1>5
<1>7. ASSUME NEW d \in Docs, docVersion[d] <= a.resourceVersion
      PROVE  seen'[w][d] = docVersion[d]
  <2>1. CASE a.reset
    BY <1>1, <1>3, <2>1 DEF Told
  <2>2. CASE ~a.reset /\ docVersion[d] <= since[w]
    <3>1. seen[w][d] = docVersion[d]
      BY <1>0, <1>2, <2>2 DEF NoSilentMiss, Bridges
    <3>2. QED
      BY <1>6, <3>1
  <2>3. CASE ~a.reset /\ ~(docVersion[d] <= since[w])
    <3>1. since[w] \in Nat /\ docVersion[d] \in Nat /\ since[w] < docVersion[d]
      BY <1>1, <1>2, <2>3 DEF Bridges
    <3>2. \E c \in a.changes : c.id = d
      BY <1>2, <1>7, <2>3, <3>1 DEF Bridges
    <3>3. a.resourceVersion # since[w]
      BY <1>4, <1>7, <3>1
    <3>4. QED
      BY <1>1, <1>3, <3>2, <3>3 DEF Told
  <2>4. QED
    BY <2>1, <2>2, <2>3
<1>8. since'[w] = a.resourceVersion
  BY <1>1, <1>3
<1>9. QED
  BY <1>3, <1>4, <1>6, <1>7, <1>8

(* FeedInv is inductive.                                                   *)
LEMMA NextInv == FeedInv /\ [Next]_vars => FeedInv'
<1> SUFFICES ASSUME FeedInv, [Next]_vars PROVE FeedInv'
  OBVIOUS
<1>1. ReplayInv' /\ Len(history') <= HistoryLimit
  BY StepKeepsReplay
<1>2. SnapshotsBridge /\ SnapshotsBridge'
  BY <1>1, ReplayOfFeedInv, SnapshotsBridgeLemma, PTL
<1>3. TypeOK /\ VersionOrder /\ AnswersBridge /\ SeenBound /\ NoSilentMiss
  BY DEF FeedInv
<1>4. /\ docVersion' \in [Docs -> Nat]
      /\ version' \in Nat /\ version <= version' /\ resourceVersion' \in Nat
      /\ \A d \in Docs : /\ docVersion[d] <= docVersion'[d]
                         /\ docVersion'[d] = docVersion[d] \/ resourceVersion < docVersion'[d]
  BY <1>3, StoreStep DEF TypeOK
<1>5. \A w \in Watchers : Snapshot(since[w], version, history) \in Answer
  BY <1>2 DEF SnapshotsBridge, Bridges
<1>6. ASSUME RespondAll(version', history'), since' = since
      PROVE  answer' \in [Watchers -> Answer] /\ AnswersBridge'
  <2>1. ASSUME NEW w \in Watchers
        PROVE  answer'[w] \in Answer /\ (watch'[w] = "answered" => Bridges(answer[w], since[w])')
    <3>1. CASE watch[w] = "parked"
      <4>1. answer'[w] = Snapshot(since'[w], version', history')
        BY <1>6, <3>1 DEF RespondAll
      <4>2. Bridges(Snapshot(since[w], version, history), since[w])'
        BY <1>2 DEF SnapshotsBridge
      <4>3. Bridges(answer[w], since[w])'
        BY <4>1, <4>2
      <4>4. QED
        BY <4>3 DEF Bridges
    <3>2. CASE watch[w] # "parked"
      <4>1. answer'[w] = answer[w] /\ watch'[w] = watch[w] /\ since'[w] = since[w]
        BY <1>6, <3>2 DEF RespondAll
      <4>2. since[w] \in Nat \cup {Undefined} /\ answer[w] \in Answer
        BY <1>3 DEF TypeOK
      <4>3. ASSUME watch[w] = "answered" PROVE Bridges(answer[w], since[w])'
        BY <4>1, <4>3, BridgesPersist
      <4>4. QED
        BY <4>1, <4>2, <4>3
    <3>3. QED
      BY <3>1, <3>2
  <2>2. answer' \in [Watchers -> Answer]
    BY <1>6, <2>1 DEF RespondAll
  <2>3. QED
    BY <2>1, <2>2 DEF AnswersBridge
<1>7. ASSUME NEW w \in Watchers, watch' = [watch EXCEPT ![w] = "answered"],
             answer' = [answer EXCEPT ![w] = Snapshot(since[w], version, history)],
             UNCHANGED <<docVersion, version, since>>
      PROVE  answer' \in [Watchers -> Answer] /\ AnswersBridge'
  BY <1>2, <1>3, <1>5, <1>7 DEF AnswersBridge, SnapshotsBridge, Bridges, TypeOK
<1>8. ASSUME NEW w \in Watchers, UNCHANGED <<docVersion, version>>,
             answer' = [answer EXCEPT ![w] = NoAnswer], watch'[w] # "answered",
             \A x \in Watchers \ {w} : watch'[x] = watch[x] /\ since'[x] = since[x]
      PROVE  answer' \in [Watchers -> Answer] /\ AnswersBridge'
  <2>1. NoAnswer \in Answer
    BY DEF NoAnswer, Answer
  <2>2. QED
    BY <1>3, <1>8, <2>1 DEF AnswersBridge, Bridges, TypeOK
<1>9. AnswersBridge' /\ answer' \in [Watchers -> Answer]
  <2>1. ASSUME NEW b \in Batches, Commit(b)
        PROVE  AnswersBridge' /\ answer' \in [Watchers -> Answer]
    <3>1. CASE feed = "open"
      BY <1>6, <2>1, <3>1 DEF Commit, NotifyListeners
    <3>2. CASE feed = "closed"
      <4>1. UNCHANGED <<watch, answer, since>>
        BY <2>1, <3>2 DEF Commit
      <4>2. ASSUME NEW w \in Watchers, watch[w] = "answered" PROVE Bridges(answer[w], since[w])'
        BY <4>1, <4>2, BridgesPersist
      <4>3. QED
        BY <1>3, <4>1, <4>2 DEF AnswersBridge, TypeOK
    <3>3. QED
      BY <2>1, <3>1, <3>2 DEF Commit
  <2>2. ASSUME NEW w \in Watchers, Poll(w) \/ PollTimeout(w)
        PROVE  AnswersBridge' /\ answer' \in [Watchers -> Answer]
    <3>1. UNCHANGED <<docVersion, version, since>>
      BY <2>2 DEF Poll, PollTimeout, storeVars, feedVars
    <3>2. \/ /\ watch' = [watch EXCEPT ![w] = "answered"]
             /\ answer' = [answer EXCEPT ![w] = Snapshot(since[w], version, history)]
          \/ watch' = [watch EXCEPT ![w] = "parked"] /\ answer' = answer
      BY <2>2 DEF Poll, PollTimeout
    <3>3. CASE watch' = [watch EXCEPT ![w] = "parked"] /\ answer' = answer
      BY <1>3, <3>1, <3>3 DEF AnswersBridge, Bridges, TypeOK
    <3>4. QED
      BY <1>7, <3>1, <3>2, <3>3
  <2>3. ASSUME NEW w \in Watchers, Deliver(w) \/ Lose(w)
        PROVE  AnswersBridge' /\ answer' \in [Watchers -> Answer]
    <3>1. /\ UNCHANGED <<docVersion, version>>
          /\ answer' = [answer EXCEPT ![w] = NoAnswer]
          /\ \E p \in {"idle", "backoff"} : watch' = [watch EXCEPT ![w] = p]
          /\ \E v \in Nat \cup {Undefined} : since' = [since EXCEPT ![w] = v]
      BY <1>3, <2>3 DEF Deliver, Lose, storeVars, feedVars, TypeOK, Answer
    <3>2. /\ watch'[w] # "answered"
          /\ \A x \in Watchers \ {w} : watch'[x] = watch[x] /\ since'[x] = since[x]
      BY <1>3, <3>1 DEF TypeOK
    <3>3. QED
      BY <1>8, <3>1, <3>2
  <2>4. ASSUME NEW w \in Watchers, Retry(w)
        PROVE  AnswersBridge' /\ answer' \in [Watchers -> Answer]
    BY <1>3, <2>4 DEF Retry, storeVars, feedVars, AnswersBridge, Bridges, TypeOK
  <2>5. CASE CloseFeed
    BY <1>6, <2>5 DEF CloseFeed, storeVars
  <2>6. CASE Exit
    BY <1>3, <2>6 DEF Exit, storeVars, AnswersBridge, Bridges, TypeOK
  <2>7. CASE Start
    <3>1. UNCHANGED <<watch, answer, since>>
      BY <2>7 DEF Start
    <3>2. ASSUME NEW w \in Watchers, watch[w] = "answered" PROVE Bridges(answer[w], since[w])'
      BY <3>1, <3>2, BridgesPersist
    <3>3. QED
      BY <1>3, <3>1, <3>2 DEF AnswersBridge, TypeOK
  <2>8. CASE UNCHANGED vars
    BY <1>3, <2>8 DEF vars, AnswersBridge, Bridges, TypeOK
  <2>9. QED
    BY <2>1, <2>2, <2>3, <2>4, <2>5, <2>6, <2>7, <2>8 DEF Next
<1>10. /\ feed' \in {"open", "closed", "down"}
       /\ watch' \in [Watchers -> {"idle", "parked", "answered", "backoff"}]
       /\ faults' \in 0..MaxFaults
  <2>1. /\ feed \in {"open", "closed", "down"}
        /\ watch \in [Watchers -> {"idle", "parked", "answered", "backoff"}]
        /\ faults \in 0..MaxFaults /\ MaxFaults \in Nat
    BY <1>3, FeedAssumption DEF TypeOK
  <2>2. feed' \in {"open", "closed", "down"}
    BY <2>1 DEF Next, vars, Commit, Poll, PollTimeout, Deliver, Lose, Retry, CloseFeed, Exit, Start,
               storeVars, feedVars
  <2>3. faults' = faults \/ (faults < MaxFaults /\ faults' = faults + 1)
    <3>1. ASSUME NEW w \in Watchers, Lose(w)
          PROVE  faults' = faults \/ (faults < MaxFaults /\ faults' = faults + 1)
      BY <3>1 DEF Lose
    <3>2. CloseFeed \/ Exit => faults' = faults \/ (faults < MaxFaults /\ faults' = faults + 1)
      BY DEF CloseFeed, Exit
    <3>3. ASSUME NEW w \in Watchers, Poll(w) \/ PollTimeout(w) \/ Deliver(w) \/ Retry(w)
          PROVE  faults' = faults
      BY <3>3 DEF Poll, PollTimeout, Deliver, Retry
    <3>4. ASSUME NEW b \in Batches, Commit(b) PROVE faults' = faults
      BY <3>4 DEF Commit
    <3>5. Start \/ UNCHANGED vars => faults' = faults
      BY DEF Start, vars
    <3>6. QED
      BY <3>1, <3>2, <3>3, <3>4, <3>5 DEF Next
  <2>4. watch' \in [Watchers -> {"idle", "parked", "answered", "backoff"}]
    <3>1. CASE \E v, h : RespondAll(v, h)
      BY <2>1, <3>1 DEF RespondAll
    <3>2. CASE \E w \in Watchers, p \in {"idle", "parked", "answered", "backoff"} :
                 watch' = [watch EXCEPT ![w] = p]
      BY <2>1, <3>2
    <3>3. CASE Exit
      BY <2>1, <3>3 DEF Exit
    <3>4. CASE watch' = watch
      BY <2>1, <3>4
    <3>5. ASSUME NEW b \in Batches, Commit(b)
          PROVE  watch' = watch \/ \E v, h : RespondAll(v, h)
      BY <3>5 DEF Commit, NotifyListeners
    <3>6. CloseFeed => \E v, h : RespondAll(v, h)
      BY DEF CloseFeed
    <3>7. ASSUME NEW w \in Watchers, Poll(w) \/ PollTimeout(w) \/ Deliver(w) \/ Lose(w) \/ Retry(w)
          PROVE  \E p \in {"idle", "parked", "answered", "backoff"} : watch' = [watch EXCEPT ![w] = p]
      BY <3>7 DEF Poll, PollTimeout, Deliver, Lose, Retry
    <3>8. Start \/ UNCHANGED vars => watch' = watch
      BY DEF Start, vars
    <3>9. QED
      BY <3>1, <3>2, <3>3, <3>4, <3>5, <3>6, <3>7, <3>8 DEF Next
  <2>5. QED
    BY <2>1, <2>2, <2>3, <2>4
<1>11. ASSUME NEW w \in Watchers, Deliver(w)
       PROVE  /\ seen' \in [Watchers -> [Docs -> Nat]]
              /\ docVersion' = docVersion
              /\ \A x \in Watchers, d \in Docs : seen'[x][d] \in {seen[x][d], docVersion[d]}
              /\ \A d \in Docs : docVersion[d] <= since'[w] => seen'[w][d] = docVersion[d]
              /\ \A x \in Watchers \ {w} : since'[x] = since[x] /\ seen'[x] = seen[x]
  BY <1>11, DeliverTells
<1>12. (\A w \in Watchers : ~Deliver(w)) => /\ seen' = seen
                                            /\ \A w \in Watchers : since'[w] \in {since[w], Undefined}
  <2> SUFFICES ASSUME \A w \in Watchers : ~Deliver(w)
               PROVE  seen' = seen /\ \A w \in Watchers : since'[w] \in {since[w], Undefined}
    OBVIOUS
  <2>1. since \in [Watchers -> Nat \cup {Undefined}]
    BY <1>3 DEF TypeOK
  <2>2. CASE UNCHANGED <<seen, since>>
    BY <2>2
  <2>3. ASSUME NEW w \in Watchers, Lose(w)
        PROVE  seen' = seen /\ \A x \in Watchers : since'[x] \in {since[x], Undefined}
    BY <2>1, <2>3 DEF Lose
  <2>4. CASE Exit
    BY <2>1, <2>4 DEF Exit
  <2>5. QED
    BY <2>2, <2>3, <2>4 DEF Next, vars, Commit, Poll, PollTimeout, Retry, CloseFeed, Start
<1>13. seen' \in [Watchers -> [Docs -> Nat]] /\ SeenBound'
  <2>1. /\ seen \in [Watchers -> [Docs -> Nat]] /\ docVersion \in [Docs -> Nat]
        /\ \A w \in Watchers, d \in Docs : seen[w][d] <= docVersion[d]
    BY <1>3 DEF TypeOK, SeenBound
  <2>2. CASE \E w \in Watchers : Deliver(w)
    <3>1. /\ seen' \in [Watchers -> [Docs -> Nat]] /\ docVersion' = docVersion
          /\ \A x \in Watchers, d \in Docs : seen'[x][d] \in {seen[x][d], docVersion[d]}
      BY <1>11, <2>2
    <3>2. QED
      BY <2>1, <3>1 DEF SeenBound
  <2>3. CASE seen' = seen
    <3>1. ASSUME NEW w \in Watchers, NEW d \in Docs PROVE seen'[w][d] <= docVersion'[d]
      <4>1. seen'[w][d] = seen[w][d] /\ seen[w][d] \in Nat /\ seen[w][d] <= docVersion[d]
        BY <2>1, <2>3
      <4>2. docVersion[d] \in Nat /\ docVersion'[d] \in Nat
        BY <1>4, <2>1
      <4>3. docVersion[d] <= docVersion'[d]
        BY <1>4, <4>2
      <4>4. QED
        BY <4>1, <4>2, <4>3
    <3>2. QED
      BY <2>1, <2>3, <3>1 DEF SeenBound
  <2>4. QED
    BY <1>12, <2>2, <2>3
<1>14. NoSilentMiss'
  <2>1. CASE \E w \in Watchers : Deliver(w)
    <3>1. PICK w \in Watchers : Deliver(w)
      BY <2>1
    <3>2. QED
      BY <1>3, <1>11, <3>1 DEF NoSilentMiss
  <2>2. CASE \A w \in Watchers : ~Deliver(w)
    <3> SUFFICES ASSUME NEW w \in Watchers, since'[w] # Undefined, NEW d \in Docs,
                        docVersion'[d] <= since'[w]
                 PROVE  seen'[w][d] = docVersion'[d]
      BY DEF NoSilentMiss
    <3>1. seen' = seen /\ since'[w] = since[w]
      BY <1>12, <2>2
    <3>2. /\ since[w] \in Nat /\ since[w] <= version /\ version <= resourceVersion
          /\ version \in Nat /\ resourceVersion \in Nat
      BY <1>3, <3>1 DEF TypeOK, VersionOrder
    <3>3. docVersion'[d] = docVersion[d]
      BY <1>4, <3>1, <3>2
    <3>4. QED
      BY <1>3, <3>1, <3>3 DEF NoSilentMiss
  <2>3. QED
    BY <2>1, <2>2
<1>15. TypeOK'
  BY <1>1, <1>4, <1>9, <1>10, <1>13 DEF ReplayInv, FeedTypes, TypeOK
<1>16. QED
  BY <1>1, <1>9, <1>13, <1>14, <1>15 DEF FeedInv, ReplayInv

-----------------------------------------------------------------------------
(* The inductive invariant holds in every behaviour.                       *)
THEOREM FeedInvariant == Spec => []FeedInv
<1>1. QED
  BY InitInv, NextInv, PTL DEF Spec

(* Every variable keeps its type, and the replay window its bound.         *)
THEOREM TypeCorrect == Spec => []TypeOK
<1>1. FeedInv => TypeOK
  BY DEF FeedInv
<1>2. QED
  BY <1>1, FeedInvariant, PTL

(* No watcher silently misses a committed write: whatever the size of the  *)
(* replay window, and across closings, crashes and silent migrations.      *)
THEOREM NothingMissed == Spec => []NoSilentMiss
<1>1. FeedInv => NoSilentMiss
  BY DEF FeedInv
<1>2. QED
  BY <1>1, FeedInvariant, PTL

-----------------------------------------------------------------------------
LEMMA InitPromised == Init => Promise!Init
  BY DEF Init, Promise!Init, Undefined, Promise!Undefined

(* Every step of the feed and its watchers is a step of the promise: a     *)
(* write, a notification of one watcher, a failed connection, or nothing.  *)
LEMMA StepPromised == FeedInv /\ FeedInv' /\ [Next]_vars => [Promise!Next]_(Promise!vars)
<1> SUFFICES ASSUME FeedInv, FeedInv', [Next]_vars PROVE [Promise!Next]_(Promise!vars)
  OBVIOUS
<1>1. /\ TypeOK /\ VersionOrder /\ SeenBound
      /\ TypeOK' /\ VersionOrder' /\ SeenBound'
  BY DEF FeedInv
<1>2. CASE (\E b \in Batches : Commit(b)) \/ Start
  <2>1. UNCHANGED <<since, seen>>
    BY <1>2 DEF Commit, Start
  <2>2. /\ resourceVersion' \in Nat /\ docVersion' \in [Docs -> Nat]
        /\ resourceVersion \in Nat /\ resourceVersion <= resourceVersion'
        /\ \A d \in Docs : \/ docVersion'[d] = docVersion[d]
                           \/ resourceVersion < docVersion'[d] /\ docVersion'[d] <= resourceVersion'
    BY <1>1, StoreStep DEF TypeOK
  <2>3. Promise!Write
    BY <2>1, <2>2 DEF Promise!Write
  <2>4. QED
    BY <2>3 DEF Promise!Next
<1>3. ASSUME NEW w \in Watchers, Deliver(w)
      PROVE  Promise!Notify(w)
  <2>1. /\ docVersion' = docVersion /\ resourceVersion' = resourceVersion
        /\ \A d \in Docs : seen'[w][d] \in {seen[w][d], docVersion[d]}
        /\ \A d \in Docs : docVersion[d] <= since'[w] => seen'[w][d] = docVersion[d]
        /\ \A x \in Watchers \ {w} : since'[x] = since[x] /\ seen'[x] = seen[x]
        /\ since'[w] \in Nat /\ since[w] <= since'[w]
    BY <1>3, DeliverTells DEF FeedInv
  <2>2. /\ since \in [Watchers -> Nat \cup {Undefined}] /\ since' \in [Watchers -> Nat \cup {Undefined}]
        /\ seen \in [Watchers -> [Docs -> Nat]] /\ seen' \in [Watchers -> [Docs -> Nat]]
        /\ docVersion \in [Docs -> Nat] /\ resourceVersion \in Nat /\ version' \in Nat
    BY <1>1 DEF TypeOK
  <2>3. since'[w] \in 0..resourceVersion
    <3>1. since'[w] <= version' /\ version' <= resourceVersion'
      BY <1>1 DEF VersionOrder
    <3>2. QED
      BY <2>1, <2>2, <3>1
  <2>4. since' = [since EXCEPT ![w] = since'[w]] /\ seen' = [seen EXCEPT ![w] = seen'[w]]
    BY <2>1, <2>2
  <2>5. ASSUME NEW d \in Docs
        PROVE  /\ seen'[w][d] \in 0..resourceVersion
               /\ seen[w][d] <= seen'[w][d] /\ seen'[w][d] <= docVersion[d]
    <3>1. seen[w][d] <= docVersion[d] /\ docVersion[d] <= resourceVersion
      BY <1>1 DEF SeenBound, VersionOrder
    <3>2. seen[w][d] \in Nat /\ docVersion[d] \in Nat /\ seen'[w][d] \in {seen[w][d], docVersion[d]}
      BY <2>1, <2>2
    <3>3. QED
      BY <2>2, <3>1, <3>2
  <2>6. seen'[w] \in [Docs -> 0..resourceVersion]
    BY <2>2, <2>5
  <2>7. \E known \in [Docs -> 0..resourceVersion] :
          /\ \A d \in Docs : /\ seen[w][d] <= known[d] /\ known[d] <= docVersion[d]
                             /\ docVersion[d] <= since'[w] => known[d] = docVersion[d]
          /\ seen' = [seen EXCEPT ![w] = known]
    BY <2>1, <2>4, <2>5, <2>6
  <2>8. QED
    BY <2>1, <2>3, <2>4, <2>7 DEF Promise!Notify
<1>4. ASSUME UNCHANGED <<resourceVersion, docVersion, seen>>,
             \A w \in Watchers : since'[w] \in {since[w], Undefined}
      PROVE  Promise!Disconnect
  BY <1>1, <1>4 DEF TypeOK, Promise!Disconnect, Undefined, Promise!Undefined
<1>5. ASSUME NEW w \in Watchers, Lose(w)
      PROVE  Promise!Disconnect
  BY <1>1, <1>4, <1>5 DEF Lose, TypeOK, storeVars
<1>6. Exit => Promise!Disconnect
  BY <1>1, <1>4 DEF Exit, TypeOK, storeVars
<1>7. CASE UNCHANGED <<resourceVersion, docVersion, since, seen>>
  BY <1>7 DEF Promise!vars
<1>8. QED
  BY <1>2, <1>3, <1>5, <1>6, <1>7
     DEF Next, vars, Poll, PollTimeout, Retry, CloseFeed, storeVars, Promise!Next

(* The feed with its watchers implements the promise of live update: no    *)
(* watcher's cursor passes a write it was not told of, cursors only move   *)
(* forward or are dropped, and knowledge never goes backwards.             *)
THEOREM Implements == Spec => Notifies
<1>1. QED
  BY InitPromised, StepPromised, FeedInvariant, PTL DEF Spec, Notifies, Promise!Spec
=============================================================================
