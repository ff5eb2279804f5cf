------------------------- MODULE McpSessionsProofs -------------------------
(***************************************************************************)
(* What is proved about tool calls, for any operations, sessions and       *)
(* settings: the queue's shape and its order, that nothing late or beyond  *)
(* the limits is started, that what is refused does not run, and that no   *)
(* write runs twice, whatever expires, is lost or restarts.                *)
(***************************************************************************)
EXTENDS McpSessions, FiniteSetTheorems, TLAPS

\* The queue w holds each call that waits by st once.
Shape(w, st) ==
  /\ w \in Seq(Calls) /\ st \in [Calls -> States]
  /\ \A i, j \in 1..Len(w) : w[i] = w[j] => i = j
  /\ \A c \in Calls : st[c] = "waiting" <=> \E i \in 1..Len(w) : w[i] = c

Rest ==
  /\ settings \in Settings /\ remaining \in [Calls -> Nat]
  /\ blocked \in BOOLEAN /\ stopped \in BOOLEAN
  /\ ticker = (waiting # <<>>) /\ (stopped => waiting = <<>>)

QueueInv == Shape(waiting, state) /\ Rest

\* What the restart of the process does to the queue.
QueueRestart ==
  /\ stopped' = FALSE /\ ticker' = FALSE /\ waiting' = <<>>
  /\ state' = [c \in Calls |-> CASE state[c] = "waiting" -> "shutdown" [] state[c] = "running" -> "finished"
                                 [] OTHER -> state[c]]
  /\ UNCHANGED <<settings, remaining, blocked>>

-----------------------------------------------------------------------------
(* Sequences: what leaves the queue leaves the others in their order.      *)
LEMMA Dropped ==
  ASSUME NEW w \in Seq(Calls), NEW n \in 0..Len(w)
  PROVE  LET v == SubSeq(w, n + 1, Len(w)) IN
         v \in Seq(Calls) /\ Len(v) = Len(w) - n /\ \A i \in 1..Len(v) : v[i] = w[i + n]
OBVIOUS

LEMMA WithoutIs ==
  ASSUME Shape(waiting, state), NEW c \in Calls, state[c] = "waiting"
  PROVE  \E i \in 1..Len(waiting) : LET v == Without(c) IN
           /\ waiting[i] = c
           /\ v \in Seq(Calls) /\ Len(v) = Len(waiting) - 1
           /\ \A k \in 1..Len(v) : v[k] = IF k < i THEN waiting[k] ELSE waiting[k + 1]
<1> DEFINE i == CHOOSE j \in 1..Len(waiting) : waiting[j] = c
           a == SubSeq(waiting, 1, i - 1)
           b == SubSeq(waiting, i + 1, Len(waiting))
<1>1. i \in 1..Len(waiting) /\ waiting[i] = c /\ waiting \in Seq(Calls)
  BY DEF Shape
<1>2. Without(c) = a \o b
  BY DEF Without
<1> HIDE DEF i
<1>3. a \in Seq(Calls) /\ Len(a) = i - 1 /\ \A k \in 1..Len(a) : a[k] = waiting[k]
  BY <1>1
<1>4. b \in Seq(Calls) /\ Len(b) = Len(waiting) - i /\ \A k \in 1..Len(b) : b[k] = waiting[k + i]
  BY <1>1
<1> HIDE DEF a, b
<1>5. /\ a \o b \in Seq(Calls) /\ Len(a \o b) = Len(waiting) - 1
      /\ \A k \in 1..Len(a \o b) : (a \o b)[k] = IF k <= Len(a) THEN a[k] ELSE b[k - Len(a)]
  BY <1>1, <1>3, <1>4
<1>6. \A k \in 1..Len(a \o b) : (a \o b)[k] = IF k < i THEN waiting[k] ELSE waiting[k + 1]
  BY <1>1, <1>3, <1>4, <1>5
<1> QED
  BY <1>1, <1>2, <1>5, <1>6

-----------------------------------------------------------------------------
(* What every pump does to the queue w and the states st it is given.      *)
PumpDone(w, st, limit) ==
  /\ Shape(waiting', state')
  /\ ticker' = (waiting' # <<>>) /\ (stopped => waiting' = <<>>)
  /\ Len(waiting') <= Len(w)
  /\ \A c \in Calls :
       \/ state'[c] = st[c]
       \/ st[c] = "waiting" /\ state'[c] = "expired"
       \/ st[c] = "waiting" /\ state'[c] = "running" /\ remaining[c] > 0 /\ ~blocked /\ ~stopped
  /\ (\E c \in Calls : st[c] = "waiting" /\ state'[c] = "running") => Busy(state') <= limit
  /\ \A c, d \in Calls : Ahead(w, c, d) /\ state'[c] = "waiting" =>
                         state'[d] = "waiting" /\ Ahead(waiting', c, d)

\* What the first n calls of w leave as a pump counts the slots.
LEMMA SlotsCounted ==
  ASSUME NEW w \in Seq(Calls), NEW st, NEW st2, NEW limit \in Nat, NEW n \in 1..Len(w),
         HeadLeaves(w, st, limit, n),
         {c \in Calls : st2[c] = "running"} \subseteq
            {c \in Calls : st[c] = "running"} \cup {w[i] : i \in {j \in 1..n : ~Expired(w[j])}}
  PROVE  Busy(st2) <= limit
<1> DEFINE A == {c \in Calls : st[c] = "running"}
           S == {j \in 1..n : ~Expired(w[j])}
           R == {j \in 1..(n - 1) : ~Expired(w[j])}
           T == {w[i] : i \in S}
           B == {c \in Calls : st2[c] = "running"}
<1>1. IsFiniteSet(A) /\ Cardinality(A) \in Nat
  BY QueueAssumption, FS_Subset, FS_CardinalityType
<1>2. IsFiniteSet(1..(n - 1))
  BY FS_Interval
<1>3. IsFiniteSet(R) /\ Cardinality(R) \in Nat
  <2>1. R \in SUBSET (1..(n - 1))
    OBVIOUS
  <2> HIDE DEF R
  <2> QED
    BY <1>2, <2>1, FS_Subset, FS_CardinalityType
<1>4. /\ IsFiniteSet(R \cup {n})
      /\ Cardinality(R \cup {n}) = IF n \in R THEN Cardinality(R) ELSE Cardinality(R) + 1
  <2> HIDE DEF R
  <2> QED
    BY <1>3, FS_AddElement
<1>5. S \in SUBSET (R \cup {n})
  OBVIOUS
<1>6. IsFiniteSet(S) /\ Cardinality(S) <= Cardinality(R) + 1 /\ Cardinality(S) \in Nat
  <2> HIDE DEF R, S
  <2>1. IsFiniteSet(S) /\ Cardinality(S) <= Cardinality(R \cup {n})
    BY <1>4, <1>5, FS_Subset
  <2> QED
    BY <1>3, <1>4, <2>1, FS_CardinalityType
<1>7. IsFiniteSet(T) /\ Cardinality(T) <= Cardinality(S) /\ Cardinality(T) \in Nat
  <2> DEFINE f == [i \in S |-> w[i]]
  <2>1. f \in Surjection(S, T)
    BY DEF Surjection
  <2> HIDE DEF f, S, T
  <2> QED
    BY <1>6, <2>1, FS_Surjection, FS_CardinalityType
<1>8. /\ IsFiniteSet(A \cup T)
      /\ Cardinality(A \cup T) = Cardinality(A) + Cardinality(T) - Cardinality(A \cap T)
      /\ Cardinality(A \cap T) \in Nat
  <2> HIDE DEF A, T
  <2> QED
    BY <1>1, <1>7, FS_Union, FS_Intersection, FS_CardinalityType
<1>9. Cardinality(B) <= Cardinality(A \cup T) /\ Cardinality(B) \in Nat
  <2>1. B \in SUBSET (A \cup T)
    OBVIOUS
  <2> HIDE DEF A, B, T
  <2> QED
    BY <1>8, <2>1, FS_Subset, FS_CardinalityType
<1>10. Cardinality(A) + Cardinality(R) < limit
  BY DEF HeadLeaves, Busy
<1>11. Busy(st2) = Cardinality(B)
  BY DEF Busy
<1> HIDE DEF A, S, R, T, B
<1> QED
  BY <1>1, <1>3, <1>6, <1>7, <1>8, <1>9, <1>10, <1>11

LEMMA PumpStep ==
  ASSUME NEW w, NEW st, NEW limit \in Nat, NEW ticking \in BOOLEAN,
         Shape(w, st), remaining \in [Calls -> Nat], blocked \in BOOLEAN, stopped \in BOOLEAN,
         stopped => w = <<>> /\ ~ticking,
         ~stopped /\ w # <<>> => ticking,
         Pump(w, st, limit, ticking)
  PROVE  PumpDone(w, st, limit)
<1>0. w \in Seq(Calls) /\ st \in [Calls -> States]
  BY DEF Shape
<1>1. CASE stopped /\ waiting' = w /\ state' = st /\ ticker' = ticking
  <2>1. Shape(waiting', state')
    BY <1>1
  <2>2. w = <<>> /\ ticking = FALSE
    BY <1>1
  <2>3. \A c \in Calls : state'[c] = st[c]
    BY <1>1
  <2>4. \A c, d \in Calls : ~Ahead(w, d, c)
    BY <2>2 DEF Ahead
  <2>5. Len(waiting') <= Len(w)
    BY <1>0, <1>1
  <2> QED
    BY <1>1, <2>1, <2>2, <2>3, <2>4, <2>5 DEF PumpDone
<1>2. ASSUME ~stopped, NEW n \in 0..Len(w),
             \A i \in 1..n : HeadLeaves(w, st, limit, i),
             waiting' = SubSeq(w, n + 1, Len(w)),
             state' = [c \in Calls |-> IF \E i \in 1..n : w[i] = c THEN LeavesAs(c) ELSE st[c]],
             ticker' = (ticking /\ n < Len(w))
      PROVE  PumpDone(w, st, limit)
  <2>0. /\ \A i \in 1..Len(w) : w[i] \in Calls
        /\ \A i, j \in 1..Len(w) : w[i] = w[j] => i = j
        /\ \A c \in Calls : st[c] = "waiting" <=> \E i \in 1..Len(w) : w[i] = c
        /\ Len(w) \in Nat
    BY <1>0 DEF Shape
  <2>1. /\ waiting' \in Seq(Calls) /\ Len(waiting') = Len(w) - n
        /\ \A i \in 1..Len(waiting') : waiting'[i] = w[i + n]
    BY <1>0, <1>2, Dropped
  <2>2. \A c \in Calls : state'[c] = IF \E i \in 1..n : w[i] = c THEN LeavesAs(c) ELSE st[c]
    BY <1>2
  <2>3. \A c \in Calls : LeavesAs(c) = IF remaining[c] = 0 THEN "expired" ELSE "running"
    BY DEF LeavesAs, Expired
  <2>4. state' \in [Calls -> States]
    BY <1>0, <1>2, <2>3 DEF States, Rejections
  <2>5. \A c \in Calls : state'[c] = "waiting" <=> \E i \in 1..Len(w) : w[i] = c /\ i > n
    BY <2>0, <2>2, <2>3
  <2>6. \A c \in Calls : (\E i \in 1..Len(w) : w[i] = c /\ i > n) <=> \E k \in 1..Len(waiting') : waiting'[k] = c
    <3> TAKE c \in Calls
    <3>1. ASSUME NEW i \in 1..Len(w), w[i] = c, i > n
          PROVE  \E k \in 1..Len(waiting') : waiting'[k] = c
      <4>1. i - n \in 1..Len(waiting') /\ waiting'[i - n] = w[i]
        BY <2>0, <2>1, <3>1
      <4> QED
        BY <3>1, <4>1
    <3>2. ASSUME NEW k \in 1..Len(waiting'), waiting'[k] = c
          PROVE  \E i \in 1..Len(w) : w[i] = c /\ i > n
      <4>1. k + n \in 1..Len(w) /\ w[k + n] = waiting'[k] /\ k + n > n
        BY <2>0, <2>1, <3>2
      <4> QED
        BY <3>2, <4>1
    <3> QED
      BY <3>1, <3>2
  <2>7. \A i, j \in 1..Len(waiting') : waiting'[i] = waiting'[j] => i = j
    BY <2>0, <2>1
  <2>8. Shape(waiting', state')
    BY <2>1, <2>4, <2>5, <2>6, <2>7 DEF Shape
  <2>9. ticker' = (waiting' # <<>>)
    <3>1. waiting' # <<>> <=> n < Len(w)
      BY <2>0, <2>1
    <3>2. n < Len(w) => ticking
      BY <1>2, <2>0
    <3> QED
      BY <1>2, <3>1, <3>2
  <2>10. \A c \in Calls : (\E i \in 1..n : w[i] = c /\ ~Expired(c)) => ~blocked
    BY <1>2 DEF HeadLeaves
  <2>11. \A c \in Calls :
            \/ state'[c] = st[c]
            \/ st[c] = "waiting" /\ state'[c] = "expired"
            \/ st[c] = "waiting" /\ state'[c] = "running" /\ remaining[c] > 0 /\ ~blocked /\ ~stopped
    <3> TAKE c \in Calls
    <3>1. CASE \E i \in 1..n : w[i] = c
      <4>1. st[c] = "waiting" /\ state'[c] = LeavesAs(c)
        BY <2>0, <2>2, <3>1
      <4>2. remaining[c] # 0 => remaining[c] > 0 /\ ~blocked
        BY <2>10, <3>1 DEF Expired
      <4> QED
        BY <1>2, <2>3, <4>1, <4>2
    <3> QED
      BY <2>2, <3>1
  <2>12. ASSUME NEW c \in Calls, st[c] = "waiting", state'[c] = "running"
         PROVE  Busy(state') <= limit
    <3>1. \E i \in 1..n : w[i] = c
      BY <2>2, <2>12
    <3>2. n \in 1..Len(w)
      BY <2>0, <3>1
    <3>3. {d \in Calls : state'[d] = "running"} \subseteq
             {d \in Calls : st[d] = "running"} \cup {w[i] : i \in {j \in 1..n : ~Expired(w[j])}}
      <4> SUFFICES ASSUME NEW d \in Calls, state'[d] = "running", st[d] # "running"
                   PROVE  \E i \in {j \in 1..n : ~Expired(w[j])} : d = w[i]
        OBVIOUS
      <4>1. PICK i \in 1..n : w[i] = d
        BY <2>2
      <4>2. ~Expired(d)
        BY <2>2, <2>3, <4>1 DEF Expired
      <4> QED
        BY <4>1, <4>2
    <3>4. HeadLeaves(w, st, limit, n)
      BY <1>2, <3>2
    <3> QED
      BY <1>0, <3>2, <3>3, <3>4, SlotsCounted
  <2>13. ASSUME NEW c \in Calls, NEW d \in Calls, Ahead(w, c, d), state'[c] = "waiting"
         PROVE  state'[d] = "waiting" /\ Ahead(waiting', c, d)
    <3>1. PICK i, j \in 1..Len(w) : i < j /\ w[i] = c /\ w[j] = d
      BY <2>13 DEF Ahead
    <3>2. i > n
      BY <2>0, <2>5, <2>13, <3>1
    <3>3. j > n
      BY <2>0, <3>1, <3>2
    <3>4. state'[d] = "waiting"
      BY <2>5, <3>1, <3>3
    <3>5. i - n \in 1..Len(waiting') /\ j - n \in 1..Len(waiting') /\ i - n < j - n
      BY <2>0, <2>1, <3>1, <3>2, <3>3
    <3>6. waiting'[i - n] = c /\ waiting'[j - n] = d
      BY <2>0, <2>1, <3>1, <3>5
    <3>7. Ahead(waiting', c, d)
      BY <3>5, <3>6 DEF Ahead
    <3> QED
      BY <3>4, <3>7
  <2>14. Len(waiting') <= Len(w)
    BY <2>0, <2>1
  <2> QED
    BY <1>2, <2>8, <2>9, <2>11, <2>12, <2>13, <2>14 DEF PumpDone
<1> QED
  BY <1>1, <1>2 DEF Pump

-----------------------------------------------------------------------------
(* Every step of the queue, and the restart, keeps the invariant and does  *)
(* what the three action properties say.                                   *)
StartsInOrder ==
  \A c, d \in Calls :
       /\ state[c] = "waiting" /\ state'[c] = "waiting"
       /\ state[d] = "new" \/ Ahead(waiting, c, d)
       => /\ state'[d] # "running"
          /\ state'[d] = "waiting" => Ahead(waiting', c, d)

StartsInTime ==
  \A c \in Calls :
       state'[c] = "running" /\ state[c] # "running" =>
         state[c] \in {"new", "waiting"} /\ remaining'[c] > 0

StartsWithinLimits ==
  /\ (\E c \in Calls : state'[c] = "running" /\ state[c] # "running") =>
        Busy(state') <= settings'.maxConcurrency /\ ~blocked /\ ~stopped
  /\ Len(waiting') > Len(waiting) => Len(waiting') <= settings.maxQueueSize

\* Of the calls only those in R may leave "new", and what is refused or has run is settled.
Settles(R) ==
  \A c \in Calls :
    \/ state'[c] = state[c]
    \/ state[c] = "waiting"
    \/ state[c] = "running" /\ state'[c] = "finished"
    \/ state[c] = "new" /\ c \in R

Orderly(R) == QueueInv' /\ StartsInOrder /\ StartsInTime /\ StartsWithinLimits /\ Settles(R)

\* What an operation leaves of the queue before it is pumped: those who stay keep their place,
\* and only the calls in R are let in.
KeepsPlaces(w, st) ==
  \A c, d \in Calls : /\ state[c] = "waiting" /\ st[c] = "waiting"
                      /\ state[d] = "new" \/ Ahead(waiting, c, d)
                      => Ahead(w, c, d) \/ st[d] \notin {"waiting", "running"}
LetsIn(st, R) ==
  \A c \in Calls : /\ st[c] = "running" => state[c] = "running"
                   /\ st[c] = "waiting" => state[c] \in {"new", "waiting"}
                   /\ \/ st[c] = state[c] \/ state[c] = "waiting"
                      \/ state[c] = "running" /\ st[c] = "finished"
                      \/ state[c] = "new" /\ c \in R
StaysInTime == remaining' \in [Calls -> Nat] /\ \A c \in Calls : remaining[c] > 0 => remaining'[c] > 0

LEMMA PumpKeeps ==
  ASSUME QueueInv, NEW R, NEW w, NEW st, NEW ticking \in BOOLEAN,
         Shape(w, st), stopped => w = <<>> /\ ~ticking, ~stopped /\ w # <<>> => ticking,
         settings' \in Settings, Pump(w, st, settings'.maxConcurrency, ticking),
         StaysInTime, blocked' = blocked, stopped' = stopped, KeepsPlaces(w, st), LetsIn(st, R),
         Len(w) > Len(waiting) => Len(w) <= settings.maxQueueSize
  PROVE  Orderly(R)
<1>1. settings'.maxConcurrency \in Nat /\ settings.maxQueueSize \in Nat
  BY QueueAssumption DEF QueueInv, Rest
<1>2. PumpDone(w, st, settings'.maxConcurrency)
  BY <1>1, PumpStep DEF QueueInv, Rest
<1>3. QueueInv'
  BY <1>2 DEF QueueInv, Rest, PumpDone, StaysInTime
<1>4. StartsInOrder
  <2> SUFFICES ASSUME NEW c \in Calls, NEW d \in Calls,
                      state[c] = "waiting", state'[c] = "waiting",
                      state[d] = "new" \/ Ahead(waiting, c, d)
               PROVE  state'[d] # "running" /\ (state'[d] = "waiting" => Ahead(waiting', c, d))
    BY DEF StartsInOrder
  <2>1. st[c] = "waiting"
    BY <1>2 DEF PumpDone, LetsIn
  <2>2. CASE Ahead(w, c, d)
    BY <1>2, <2>2 DEF PumpDone
  <2>3. CASE st[d] \notin {"waiting", "running"}
    BY <1>2, <2>3 DEF PumpDone
  <2> QED
    BY <2>1, <2>2, <2>3 DEF KeepsPlaces
<1>5. StartsInTime
  BY <1>2 DEF PumpDone, StartsInTime, LetsIn, StaysInTime
<1>6. StartsWithinLimits
  <2>1. ASSUME NEW c \in Calls, state'[c] = "running", state[c] # "running"
        PROVE  Busy(state') <= settings'.maxConcurrency /\ ~blocked /\ ~stopped
    BY <1>2, <2>1 DEF PumpDone, LetsIn
  <2>2. ASSUME Len(waiting') > Len(waiting)
        PROVE  Len(waiting') <= settings.maxQueueSize
    <3>1. /\ Len(w) \in Nat /\ Len(waiting) \in Nat /\ Len(waiting') \in Nat
          /\ Len(waiting') <= Len(w)
      BY <1>2, <1>3 DEF PumpDone, QueueInv, Shape
    <3> QED
      BY <1>1, <2>2, <3>1
  <2> QED
    BY <2>1, <2>2 DEF StartsWithinLimits
<1>7. Settles(R)
  BY <1>2 DEF PumpDone, Settles, LetsIn
<1> QED
  BY <1>3, <1>4, <1>5, <1>6, <1>7 DEF Orderly

LEMMA RunKeeps ==
  ASSUME QueueInv, NEW c \in Calls, Run(c)
  PROVE  Orderly({c})
<1>0. state[c] = "new" /\ settings' = settings /\ blocked' = blocked /\ stopped' = stopped
  BY DEF Run
<1>1. ASSUME NEW code \in {"shutdown", "cancelled", "full"}, Refuse(c, code)
      PROVE  Orderly({c})
  <2>1. /\ waiting' = waiting /\ ticker' = ticker /\ remaining' = remaining
        /\ state' = [state EXCEPT ![c] = code]
    BY <1>1 DEF Refuse
  <2>2. \A d \in Calls : state'[d] = IF d = c THEN code ELSE state[d]
    BY <2>1 DEF QueueInv, Shape
  <2>3. Shape(waiting', state')
    BY <1>0, <2>1, <2>2 DEF QueueInv, Shape, States, Rejections
  <2>4. QueueInv'
    BY <1>0, <2>1, <2>3 DEF QueueInv, Rest
  <2>5. \A d \in Calls : state'[d] \in {"waiting", "running"} => state[d] = state'[d] /\ d # c
    BY <2>2
  <2>6. \A e, d \in Calls : Ahead(waiting, e, d) => state[d] = "waiting" /\ Ahead(waiting', e, d)
    BY <2>1 DEF QueueInv, Shape, Ahead
  <2>9. StartsInOrder
    BY <2>5, <2>6 DEF StartsInOrder
  <2>7. StartsInTime
    BY <2>5 DEF StartsInTime
  <2>8. StartsWithinLimits
    BY <2>1, <2>5 DEF StartsWithinLimits, QueueInv, Shape
  <2>10. Settles({c})
    BY <1>0, <2>2 DEF Settles
  <2> QED
    BY <2>4, <2>7, <2>8, <2>9, <2>10 DEF Orderly
<1>2. ASSUME ~stopped, Len(waiting) < settings.maxQueueSize,
             remaining' = [remaining EXCEPT ![c] = settings.queueTimeout],
             Pump(Enqueue(c), [state EXCEPT ![c] = "waiting"], settings.maxConcurrency, TickerArmed)
      PROVE  Orderly({c})
  <2> DEFINE w == Append(waiting, c)
             st == [state EXCEPT ![c] = "waiting"]
  <2>1. /\ waiting \in Seq(Calls) /\ state \in [Calls -> States]
        /\ \A i, j \in 1..Len(waiting) : waiting[i] = waiting[j] => i = j
        /\ \A d \in Calls : state[d] = "waiting" <=> \E i \in 1..Len(waiting) : waiting[i] = d
    BY DEF QueueInv, Shape
  <2>2. /\ w \in Seq(Calls) /\ Len(w) = Len(waiting) + 1 /\ w[Len(waiting) + 1] = c
        /\ \A i \in 1..Len(waiting) : w[i] = waiting[i] /\ i \in 1..Len(w)
        /\ Len(waiting) + 1 \in 1..Len(w)
        /\ Len(waiting) \in Nat
    BY <2>1
  <2>3. st \in [Calls -> States] /\ \A d \in Calls : st[d] = IF d = c THEN "waiting" ELSE state[d]
    BY <2>1 DEF States
  <2>4. \A i \in 1..Len(waiting) : waiting[i] # c
    BY <1>0, <2>1
  <2> HIDE DEF w, st
  <2>5. Shape(w, st)
    <3>1. \A i, j \in 1..Len(w) : w[i] = w[j] => i = j
      BY <2>1, <2>2, <2>4
    <3>2. \A d \in Calls : st[d] = "waiting" <=> \E i \in 1..Len(w) : w[i] = d
      BY <2>1, <2>2, <2>3
    <3> QED
      BY <2>2, <2>3, <3>1, <3>2 DEF Shape
  <2>6. KeepsPlaces(w, st)
    <3> SUFFICES ASSUME NEW e \in Calls, NEW d \in Calls, state[e] = "waiting",
                        state[d] = "new" \/ Ahead(waiting, e, d)
                 PROVE  Ahead(w, e, d) \/ st[d] \notin {"waiting", "running"}
      BY DEF KeepsPlaces
    <3>1. CASE Ahead(waiting, e, d)
      BY <2>2, <3>1 DEF Ahead
    <3>2. CASE state[d] = "new" /\ d # c
      BY <2>3, <3>2
    <3>3. CASE d = c
      <4>1. PICK i \in 1..Len(waiting) : waiting[i] = e
        BY <2>1
      <4>2. i < Len(waiting) + 1
        BY <2>2
      <4> QED
        BY <2>2, <3>3, <4>1, <4>2 DEF Ahead
    <3> QED
      BY <3>1, <3>2, <3>3
  <2>7. LetsIn(st, {c})
    BY <1>0, <2>3 DEF LetsIn
  <2>8. settings \in Settings /\ settings.queueTimeout \in Nat \ {0} /\ settings.maxQueueSize \in Nat
    BY QueueAssumption DEF QueueInv, Rest
  <2>9. StaysInTime
    BY <1>2, <2>8 DEF QueueInv, Rest, StaysInTime
  <2>10. Pump(w, st, settings'.maxConcurrency, TRUE)
    BY <1>0, <1>2 DEF w, st, Enqueue, TickerArmed
  <2>11. Len(w) <= settings.maxQueueSize
    BY <1>2, <2>2, <2>8
  <2>12. /\ stopped => w = <<>> /\ ~TRUE
         /\ ~stopped /\ w # <<>> => TRUE
         /\ settings' \in Settings /\ TRUE \in BOOLEAN
         /\ blocked' = blocked /\ stopped' = stopped
         /\ Len(w) > Len(waiting) => Len(w) <= settings.maxQueueSize
    BY <1>0, <1>2, <2>8, <2>11
  <2> QED
    BY <2>5, <2>6, <2>7, <2>9, <2>10, <2>12, PumpKeeps
<1> QED
  BY <1>0, <1>1, <1>2 DEF Run

LEMMA RemoveKeeps ==
  ASSUME QueueInv, NEW c \in Calls, state[c] = "waiting", NEW code \in {"expired", "cancelled"},
         Remove(c, code), UNCHANGED <<settings, remaining, blocked, stopped>>
  PROVE  Orderly({})
<1> DEFINE w == Without(c)
           st == [state EXCEPT ![c] = code]
<1>1. /\ waiting \in Seq(Calls) /\ state \in [Calls -> States]
      /\ \A i, j \in 1..Len(waiting) : waiting[i] = waiting[j] => i = j
      /\ \A d \in Calls : state[d] = "waiting" <=> \E i \in 1..Len(waiting) : waiting[i] = d
      /\ Len(waiting) \in Nat
  BY DEF QueueInv, Shape
<1>2. PICK i \in 1..Len(waiting) :
            /\ waiting[i] = c
            /\ w \in Seq(Calls) /\ Len(w) = Len(waiting) - 1
            /\ \A k \in 1..Len(w) : w[k] = IF k < i THEN waiting[k] ELSE waiting[k + 1]
  BY WithoutIs DEF QueueInv
<1>3. st \in [Calls -> States] /\ \A d \in Calls : st[d] = IF d = c THEN code ELSE state[d]
  BY <1>1 DEF States, Rejections
<1>4. Pump(w, st, settings'.maxConcurrency, ticker)
  BY DEF Remove
<1> HIDE DEF w, st
<1>5. \A j, k \in 1..Len(w) : w[j] = w[k] => j = k
  <2> SUFFICES ASSUME NEW j \in 1..Len(w), NEW k \in 1..Len(w), w[j] = w[k]
               PROVE  j = k
    OBVIOUS
  <2>1. j \in 1..Len(waiting) /\ k \in 1..Len(waiting) /\ j + 1 \in 1..Len(waiting) /\ k + 1 \in 1..Len(waiting)
    BY <1>1, <1>2
  <2> QED
    BY <1>1, <1>2, <2>1
\* Where a call of the queue that stays is found in what remains.
<1>6. \A j \in 1..Len(waiting) : j # i =>
         LET k == IF j < i THEN j ELSE j - 1 IN k \in 1..Len(w) /\ w[k] = waiting[j]
  BY <1>1, <1>2
<1>7. \A d \in Calls : st[d] = "waiting" <=> \E k \in 1..Len(w) : w[k] = d
  <2> TAKE d \in Calls
  <2>1. ASSUME st[d] = "waiting"
        PROVE  \E k \in 1..Len(w) : w[k] = d
    <3>1. d # c /\ state[d] = "waiting"
      BY <1>3, <2>1
    <3>2. PICK j \in 1..Len(waiting) : waiting[j] = d
      BY <1>1, <3>1
    <3>3. j # i
      BY <1>2, <3>1, <3>2
    <3> QED
      BY <1>6, <3>2, <3>3
  <2>2. ASSUME NEW k \in 1..Len(w), w[k] = d
        PROVE  st[d] = "waiting"
    <3>1. PICK j \in 1..Len(waiting) : waiting[j] = d /\ j # i
      BY <1>1, <1>2, <2>2
    <3> QED
      BY <1>1, <1>2, <1>3, <3>1
  <2> QED
    BY <2>1, <2>2
<1>8. Shape(w, st)
  BY <1>2, <1>3, <1>5, <1>7 DEF Shape
<1>9. KeepsPlaces(w, st)
  <2> SUFFICES ASSUME NEW e \in Calls, NEW d \in Calls, st[e] = "waiting",
                      state[d] = "new" \/ Ahead(waiting, e, d)
               PROVE  Ahead(w, e, d) \/ st[d] \notin {"waiting", "running"}
    BY DEF KeepsPlaces
  <2>1. CASE d = c
    BY <1>3, <2>1
  <2>2. CASE state[d] = "new"
    BY <1>3, <2>2
  <2>3. CASE Ahead(waiting, e, d) /\ d # c
    <3>1. PICK j, k \in 1..Len(waiting) : j < k /\ waiting[j] = e /\ waiting[k] = d
      BY <2>3 DEF Ahead
    <3>2. j # i /\ k # i
      BY <1>2, <1>3, <2>3, <3>1
    <3>3. (IF j < i THEN j ELSE j - 1) < (IF k < i THEN k ELSE k - 1)
      BY <1>1, <3>1, <3>2
    <3> QED
      BY <1>6, <3>1, <3>2, <3>3 DEF Ahead
  <2> QED
    BY <2>1, <2>2, <2>3
<1>10. LetsIn(st, {})
  BY <1>3 DEF LetsIn
<1>11. ~stopped /\ ticker = TRUE
  <2>1. waiting # <<>>
    BY <1>1, <1>2
  <2>2. ticker = (waiting # <<>>) /\ (stopped => waiting = <<>>)
    BY DEF QueueInv, Rest
  <2> QED
    BY <2>1, <2>2
<1>12. settings' \in Settings /\ remaining' = remaining /\ remaining \in [Calls -> Nat]
  BY DEF QueueInv, Rest
<1>13. ~(Len(w) > Len(waiting))
  BY <1>1, <1>2
<1>14. blocked' = blocked /\ stopped' = stopped /\ StaysInTime
  BY <1>12 DEF StaysInTime
<1> QED
  BY <1>4, <1>8, <1>9, <1>10, <1>11, <1>12, <1>13, <1>14, PumpKeeps

LEMMA PumpOnlyKeeps ==
  ASSUME QueueInv, NEW st, st \in [Calls -> States],
         \A c \in Calls : st[c] = state[c] \/ (state[c] = "running" /\ st[c] = "finished"),
         settings' \in Settings, Pump(waiting, st, settings'.maxConcurrency, ticker),
         UNCHANGED <<remaining, blocked, stopped>>
  PROVE  Orderly({})
<1>1. \A c \in Calls : st[c] = "waiting" <=> state[c] = "waiting"
  OBVIOUS
<1>2. Shape(waiting, st)
  BY <1>1 DEF QueueInv, Shape
<1>3. /\ ticker \in BOOLEAN /\ remaining' = remaining /\ remaining \in [Calls -> Nat]
      /\ blocked' = blocked /\ stopped' = stopped
      /\ stopped => waiting = <<>> /\ ~ticker
      /\ ~stopped /\ waiting # <<>> => ticker
  BY DEF QueueInv, Rest
<1>4. StaysInTime
  BY <1>3 DEF StaysInTime
<1>5. KeepsPlaces(waiting, st)
  BY DEF KeepsPlaces
<1>6. LetsIn(st, {})
  BY DEF LetsIn
<1>7. ~(Len(waiting) > Len(waiting))
  BY DEF QueueInv, Shape
<1> QED
  BY <1>2, <1>3, <1>4, <1>5, <1>6, <1>7, PumpKeeps

\* Steps after which no call waits or runs that did not before.
LEMMA QuietKeeps ==
  ASSUME QueueInv, QueueInv', waiting' \in {waiting, <<>>},
         \A c \in Calls : /\ state'[c] \in {"waiting", "running"} => state[c] = state'[c]
                          /\ \/ state'[c] = state[c] \/ state[c] = "waiting"
                             \/ state[c] = "running" /\ state'[c] = "finished"
  PROVE  Orderly({})
<1>1. \A c \in Calls : state'[c] = "waiting" => waiting' = waiting
  BY DEF QueueInv, Shape
<1>2. \A c, d \in Calls : Ahead(waiting, c, d) /\ state'[c] = "waiting" =>
                          state[d] = "waiting" /\ Ahead(waiting', c, d)
  BY <1>1 DEF QueueInv, Shape, Ahead
<1>3. StartsInOrder
  BY <1>2 DEF StartsInOrder
<1>4. StartsInTime
  BY DEF StartsInTime
<1>5. Len(<<>>) = 0 /\ Len(waiting) \in Nat
  BY DEF QueueInv, Shape
<1>6. StartsWithinLimits
  BY <1>5 DEF StartsWithinLimits
<1>7. Settles({})
  BY DEF Settles
<1> QED
  BY <1>3, <1>4, <1>6, <1>7 DEF Orderly

LEMMA EmptiedShape ==
  ASSUME NEW st \in [Calls -> States], \A c \in Calls : st[c] # "waiting"
  PROVE  Shape(<<>>, st)
BY DEF Shape

\* A step of the queue that is no run of a call.
OtherStep ==
  \/ \E c \in Calls : Finish(c) \/ TimerFires(c) \/ Cancel(c)
  \/ \E next \in Settings : Configure(next)
  \/ TickerFires \/ Close \/ Tick \/ HeapChanges \/ QueueRestart \/ UNCHANGED vars

LEMMA QueueSteps ==
  ASSUME QueueInv, OtherStep
  PROVE  Orderly({})
<1>0. state \in [Calls -> States] /\ remaining \in [Calls -> Nat] /\ settings \in Settings
  BY DEF QueueInv, Shape, Rest
<1>1. ASSUME NEW c \in Calls, Finish(c)
      PROVE  Orderly({})
  <2> DEFINE st == [state EXCEPT ![c] = "finished"]
  <2>1. st \in [Calls -> States] /\ \A d \in Calls : st[d] = IF d = c THEN "finished" ELSE state[d]
    BY <1>0 DEF States
  <2>2. /\ settings' = settings /\ UNCHANGED <<remaining, blocked, stopped>> /\ state[c] = "running"
        /\ Pump(waiting, st, settings'.maxConcurrency, ticker)
    BY <1>1 DEF Finish
  <2> HIDE DEF st
  <2> QED
    BY <1>0, <2>1, <2>2, PumpOnlyKeeps
<1>2. ASSUME NEW c \in Calls, TimerFires(c)
      PROVE  Orderly({})
  BY <1>2, RemoveKeeps DEF TimerFires, Expire
<1>3. ASSUME NEW c \in Calls, Cancel(c)
      PROVE  Orderly({})
  BY <1>3, RemoveKeeps DEF Cancel
<1>4. ASSUME TickerFires
      PROVE  Orderly({})
  <2>1. /\ settings' = settings /\ UNCHANGED <<remaining, blocked, stopped>>
        /\ Pump(waiting, state, settings'.maxConcurrency, ticker)
    BY <1>4 DEF TickerFires
  <2> QED
    BY <1>0, <2>1, PumpOnlyKeeps
<1>5. ASSUME NEW next \in Settings, Configure(next)
      PROVE  Orderly({})
  <2>1. /\ settings' = next /\ UNCHANGED <<remaining, blocked, stopped>>
        /\ Pump(waiting, state, settings'.maxConcurrency, ticker)
    BY <1>5 DEF Configure
  <2> QED
    BY <1>0, <2>1, PumpOnlyKeeps
<1>6. CASE Close
  <2>1. \A c \in Calls : state'[c] = IF state[c] = "waiting" THEN "shutdown" ELSE state[c]
    BY <1>6 DEF Close
  <2>2. state' \in [Calls -> States]
    BY <1>0, <1>6 DEF Close, States, Rejections
  <2>3. Shape(waiting', state')
    BY <1>6, <2>1, <2>2, EmptiedShape DEF Close
  <2>4. QueueInv'
    BY <1>6, <2>3 DEF QueueInv, Rest, Close
  <2> QED
    BY <1>6, <2>1, <2>4, QuietKeeps DEF Close
<1>7. CASE QueueRestart
  <2>1. \A c \in Calls : state'[c] = CASE state[c] = "waiting" -> "shutdown" [] state[c] = "running" -> "finished"
                                        [] OTHER -> state[c]
    BY <1>7 DEF QueueRestart
  <2>2. \A c \in Calls : state'[c] # "waiting" /\ state'[c] # "running" /\ state'[c] \in States
    BY <1>0, <2>1 DEF States, Rejections
  <2>3. state' \in [Calls -> States]
    BY <1>7, <2>2 DEF QueueRestart
  <2>4. Shape(waiting', state')
    BY <1>7, <2>2, <2>3, EmptiedShape DEF QueueRestart
  <2>5. QueueInv'
    BY <1>7, <2>4 DEF QueueInv, Rest, QueueRestart
  <2> QED
    BY <1>7, <2>2, <2>5, QuietKeeps DEF QueueRestart
<1>8. CASE Tick
  <2>1. remaining' \in [Calls -> Nat]
    BY <1>0, <1>8 DEF Tick, Expired
  <2>2. UNCHANGED <<settings, waiting, state, ticker, blocked, stopped>>
    BY <1>8 DEF Tick, queueVars
  <2>3. QueueInv'
    BY <2>1, <2>2 DEF QueueInv, Rest, Shape
  <2> QED
    BY <2>2, <2>3, QuietKeeps
<1>9. CASE HeapChanges
  <2>1. UNCHANGED <<settings, waiting, state, ticker, remaining, stopped>> /\ blocked' \in BOOLEAN
    BY <1>9 DEF HeapChanges, queueVars, QueueInv, Rest
  <2>2. QueueInv'
    BY <2>1 DEF QueueInv, Rest, Shape
  <2> QED
    BY <2>1, <2>2, QuietKeeps
<1>10. CASE UNCHANGED vars
  <2>1. QueueInv'
    BY <1>10 DEF vars, QueueInv, Rest, Shape
  <2> QED
    BY <1>10, <2>1, QuietKeeps DEF vars
<1> QED
  BY <1>1, <1>2, <1>3, <1>4, <1>5, <1>6, <1>7, <1>8, <1>9, <1>10 DEF OtherStep

LEMMA QueueInit == Init => QueueInv
<1> SUFFICES ASSUME Init PROVE QueueInv
  OBVIOUS
<1>1. state \in [Calls -> States] /\ \A c \in Calls : state[c] # "waiting"
  BY DEF Init, States
<1>2. Shape(waiting, state)
  BY <1>1, EmptiedShape DEF Init
<1> QED
  BY <1>2 DEF Init, QueueInv, Rest

-----------------------------------------------------------------------------
(* The sessions: what got no further than the wire has not run, and a      *)
(* write's second request follows a first that was rejected.               *)
SessionTypes ==
  /\ at \in [Calls -> {"unsent", "wire", "reading", "queue", "unknown"}]
  /\ stage \in [Operations -> {"idle", "connecting", "sent", "retrying", "failed", "done"}]

OnlyQueuedRun == \A c \in Calls : at[c] # "queue" => state[c] = "new"

RequestsFollow(o) ==
  /\ stage[o] \in {"idle", "connecting"} => at[<<o, 1>>] = "unsent"
  /\ stage[o] = "retrying" => at[<<o, 2>>] = "unsent"
  /\ o \notin Reads /\ (stage[o] = "retrying" \/ at[<<o, 2>>] # "unsent") => at[<<o, 1>>] = "unknown"

SessionInv == QueueInv /\ SessionTypes /\ OnlyQueuedRun /\ \A o \in Operations : RequestsFollow(o)

LEMMA CallsAre == \A c \in Calls : \E o \in Operations : c = <<o, 1>> \/ c = <<o, 2>>
BY SessionsAssumption

LEMMA RequestsAre == \A o \in Operations : <<o, 1>> \in Calls /\ <<o, 2>> \in Calls /\ <<o, 1>> # <<o, 2>>
BY SessionsAssumption

\* What a session's step is to the queue.
LEMMA StepOfQueue ==
  ASSUME [SNext]_allVars
  PROVE  OtherStep \/ \E c \in Calls : at[c] = "reading" /\ at' = [at EXCEPT ![c] = "queue"] /\ Run(c)
<1>1. ASSUME NEW o \in Operations, Begin(o) \/ Retry(o) \/ Fail(o) \/ Succeed(o)
      PROVE  UNCHANGED vars
  BY <1>1 DEF Begin, Retry, Fail, Succeed
<1>2. ASSUME Connected \/ ConnectFails \/ Admit \/ CloseSessions
      PROVE  UNCHANGED vars
  BY <1>2 DEF Connected, ConnectFails, Admit, CloseSessions
<1>3. ASSUME NEW s \in Sessions, CloseConnection(s) \/ IdleExpire(s) \/ Terminate(s)
      PROVE  UNCHANGED vars
  BY <1>3 DEF CloseConnection, IdleExpire, Terminate
<1>4. ASSUME NEW c \in Calls, Arrive(c) \/ Lose(c)
      PROVE  UNCHANGED vars
  BY <1>4 DEF Arrive, Lose
<1>5. ASSUME NEW c \in Calls, Enter(c)
      PROVE  UNCHANGED vars \/ (at[c] = "reading" /\ at' = [at EXCEPT ![c] = "queue"] /\ Run(c))
  BY <1>5 DEF Enter
<1>6. ASSUME NEW c \in Calls, Complete(c) \/ Abort(c)
      PROVE  Finish(c) \/ Cancel(c)
  BY <1>6 DEF Complete, Abort
<1>7. QueueStep => OtherStep
  BY DEF QueueStep, OtherStep
<1>8. Restart => QueueRestart
  BY DEF Restart, QueueRestart
<1>9. UNCHANGED allVars => UNCHANGED vars
  BY DEF allVars
<1> QED
  BY <1>1, <1>2, <1>3, <1>4, <1>5, <1>6, <1>7, <1>8, <1>9 DEF SNext, OtherStep

LEMMA SessionQueue ==
  ASSUME SessionInv, [SNext]_allVars
  PROVE  \E R \in SUBSET Calls : Orderly(R) /\ \A c \in R : at[c] = "reading" /\ at'[c] = "queue"
<1>1. CASE OtherStep
  BY <1>1, QueueSteps DEF SessionInv
<1>2. ASSUME NEW c \in Calls, at[c] = "reading", at' = [at EXCEPT ![c] = "queue"], Run(c)
      PROVE  Orderly({c}) /\ {c} \in SUBSET Calls /\ at'[c] = "queue"
  BY <1>2, RunKeeps DEF SessionInv, SessionTypes
<1> QED
  BY <1>1, <1>2, StepOfQueue

\* What is sent is sent once, as a first request or as a second one.
LEMMA SentKeeps ==
  ASSUME SessionTypes, NEW C \in SUBSET Calls, NEW s, Send(C, s)
  PROVE  /\ \A c \in Calls : at'[c] = IF c \in C THEN "wire" ELSE at[c]
         /\ at' \in [Calls -> {"unsent", "wire", "reading", "queue", "unknown"}]
BY DEF Send, SessionTypes

LEMMA SessionStep == SessionInv /\ [SNext]_allVars => SessionInv'
<1> SUFFICES ASSUME SessionInv, [SNext]_allVars PROVE SessionInv'
  OBVIOUS
<1>1. /\ QueueInv'
      /\ \A c \in Calls : state[c] = "new" /\ at'[c] # "queue" => state'[c] = "new"
  BY SessionQueue DEF Orderly, Settles
<1>2. SessionTypes /\ OnlyQueuedRun /\ \A o \in Operations : RequestsFollow(o)
  BY DEF SessionInv
\* The requests' part, from what becomes of at and stage.
<1>3. ASSUME SessionTypes', \A c \in Calls : at[c] = "queue" => at'[c] = "queue",
             \A o \in Operations : RequestsFollow(o)'
      PROVE  SessionInv'
  BY <1>1, <1>2, <1>3 DEF SessionInv, OnlyQueuedRun
\* Steps of the client that send nothing.
<1>4. ASSUME UNCHANGED at,
             stage' \in [Operations -> {"idle", "connecting", "sent", "retrying", "failed", "done"}],
             \A o \in Operations :
               \/ stage'[o] = stage[o]
               \/ stage'[o] \in {"sent", "failed", "done"}
               \/ stage'[o] = "connecting" /\ stage[o] = "idle"
               \/ /\ stage'[o] = "retrying" /\ at[<<o, 2>>] = "unsent"
                  /\ o \notin Reads => at[<<o, 1>>] = "unknown"
      PROVE  SessionInv'
  <2>1. \A o \in Operations : RequestsFollow(o)'
    BY <1>2, <1>4 DEF RequestsFollow
  <2>2. SessionTypes'
    BY <1>2, <1>4 DEF SessionTypes
  <2> QED
    BY <1>3, <1>4, <2>1, <2>2
\* Steps of the client that send first requests of A and second ones of B.
<1>5. ASSUME NEW A \in SUBSET Operations, NEW B \in SUBSET Operations, NEW s,
             Send({<<o, 1>> : o \in A} \cup {<<o, 2>> : o \in B}, s),
             stage' \in [Operations -> {"idle", "connecting", "sent", "retrying", "failed", "done"}],
             \A o \in A : stage[o] \in {"idle", "connecting"},
             \A o \in B : at[<<o, 2>>] = "unsent" /\ (o \notin Reads => at[<<o, 1>>] = "unknown"),
             A \cap B = {},
             \A o \in Operations : stage'[o] = IF o \in A \cup B THEN "sent" ELSE stage[o]
      PROVE  SessionInv'
  <2> DEFINE C == {<<o, 1>> : o \in A} \cup {<<o, 2>> : o \in B}
  <2>1. C \in SUBSET Calls
    BY RequestsAre
  <2>2. \A o \in Operations : (<<o, 1>> \in C <=> o \in A) /\ (<<o, 2>> \in C <=> o \in B)
    OBVIOUS
  <2>3. Send(C, s)
    BY <1>5
  <2> HIDE DEF C
  <2>4. /\ \A c \in Calls : at'[c] = IF c \in C THEN "wire" ELSE at[c]
        /\ SessionTypes'
    BY <1>2, <1>5, <2>1, <2>3, SentKeeps DEF SessionTypes
  <2>5. \A o \in Operations : RequestsFollow(o)'
    <3> TAKE o \in Operations
    <3>1. /\ at'[<<o, 1>>] = IF o \in A THEN "wire" ELSE at[<<o, 1>>]
          /\ at'[<<o, 2>>] = IF o \in B THEN "wire" ELSE at[<<o, 2>>]
      BY <2>2, <2>4, RequestsAre
    <3>2. RequestsFollow(o) /\ stage'[o] = IF o \in A \cup B THEN "sent" ELSE stage[o]
      BY <1>2, <1>5
    <3>3. CASE o \in A
      BY <1>5, <3>1, <3>2, <3>3 DEF RequestsFollow
    <3>4. CASE o \in B
      BY <1>5, <3>1, <3>2, <3>4 DEF RequestsFollow
    <3>5. CASE o \notin A \cup B
      BY <3>1, <3>2, <3>5 DEF RequestsFollow
    <3> QED
      BY <3>3, <3>4, <3>5
  <2>6. \A c \in Calls : at[c] = "queue" => at'[c] = "queue"
    <3> SUFFICES ASSUME NEW c \in Calls, at[c] = "queue", c \in C
                 PROVE  FALSE
      BY <2>4
    <3>1. PICK o \in Operations : c = <<o, 1>> \/ c = <<o, 2>>
      BY CallsAre
    <3>2. CASE c = <<o, 1>>
      BY <1>2, <1>5, <2>2, <3>2 DEF RequestsFollow
    <3>3. CASE c = <<o, 2>>
      BY <1>5, <2>2, <3>3
    <3> QED
      BY <3>1, <3>2, <3>3
  <2> QED
    BY <1>3, <2>4, <2>5, <2>6
\* Steps of the daemon: a request gets on, and what is unknown or unsent stays so.
<1>6. ASSUME NEW c \in Calls, at[c] \in {"wire", "reading"}, UNCHANGED stage,
             NEW p \in {"reading", "queue", "unknown"}, at' = [at EXCEPT ![c] = p]
      PROVE  SessionInv'
  <2>1. \A d \in Calls : at'[d] = IF d = c THEN p ELSE at[d]
    BY <1>2, <1>6 DEF SessionTypes
  <2>2. SessionTypes'
    BY <1>2, <1>6 DEF SessionTypes
  <2>3. \A o \in Operations : RequestsFollow(o)'
    BY <1>2, <1>6, <2>1, RequestsAre DEF RequestsFollow
  <2> QED
    BY <1>3, <1>6, <2>1, <2>2, <2>3
<1>7. ASSUME UNCHANGED <<at, stage>>
      PROVE  SessionInv'
  BY <1>2, <1>4, <1>7 DEF SessionTypes
<1>8. ASSUME NEW o \in Operations, Begin(o)
      PROVE  SessionInv'
  <2>1. CASE stage' = [stage EXCEPT ![o] = "connecting"] /\ UNCHANGED at
    BY <1>2, <1>4, <1>8, <2>1 DEF Begin, SessionTypes
  <2>2. ASSUME stage' = [stage EXCEPT ![o] = "sent"], Send({<<o, 1>>}, connection)
        PROVE  SessionInv'
    <3>1. {<<o, 1>>} = {<<q, 1>> : q \in {o}} \cup {<<q, 2>> : q \in {}}
      OBVIOUS
    <3>2. Send({<<q, 1>> : q \in {o}} \cup {<<q, 2>> : q \in {}}, connection)
      BY <2>2, <3>1
    <3>3. /\ stage[o] = "idle"
          /\ stage' \in [Operations -> {"idle", "connecting", "sent", "retrying", "failed", "done"}]
          /\ \A q \in Operations : stage'[q] = IF q \in {o} \cup {} THEN "sent" ELSE stage[q]
      BY <1>2, <1>8, <2>2 DEF Begin, SessionTypes
    <3> QED
      BY <1>5, <3>2, <3>3
  <2> QED
    BY <1>8, <2>1, <2>2 DEF Begin, Dispatch
<1>9. ASSUME NEW o \in Operations, Retry(o)
      PROVE  SessionInv'
  <2>1. stage[o] = "sent" /\ at[<<o, 2>>] = "unsent" /\ (o \notin Reads => at[<<o, 1>>] = "unknown")
    BY <1>9, RequestsAre DEF Retry, Current, Again, RejectedAsStale
  <2>2. CASE stage' = [stage EXCEPT ![o] = "retrying"] /\ UNCHANGED at
    BY <1>2, <1>4, <2>1, <2>2 DEF SessionTypes
  <2>3. ASSUME stage' = [stage EXCEPT ![o] = "sent"], Send({<<o, 2>>}, connection')
        PROVE  SessionInv'
    <3>1. {<<o, 2>>} = {<<q, 1>> : q \in {}} \cup {<<q, 2>> : q \in {o}}
      OBVIOUS
    <3>2. Send({<<q, 1>> : q \in {}} \cup {<<q, 2>> : q \in {o}}, connection')
      BY <2>3, <3>1
    <3>3. /\ stage' \in [Operations -> {"idle", "connecting", "sent", "retrying", "failed", "done"}]
          /\ \A q \in Operations : stage'[q] = IF q \in {} \cup {o} THEN "sent" ELSE stage[q]
      BY <1>2, <2>3 DEF SessionTypes
    <3> QED
      BY <1>5, <2>1, <3>2, <3>3
  <2> QED
    BY <1>9, <2>2, <2>3 DEF Retry, Dispatch
<1>10. ASSUME NEW o \in Operations, Fail(o) \/ Succeed(o)
       PROVE  SessionInv'
  BY <1>2, <1>4, <1>10 DEF Fail, Succeed, SessionTypes, wireVars
<1>11. CASE Connected
  <2> DEFINE A == {p \in Operations : stage[p] = "connecting"}
             B == {p \in Operations : stage[p] = "retrying"}
  <2>1. Send({<<o, 1>> : o \in A} \cup {<<o, 2>> : o \in B}, offered)
    BY <1>11 DEF Connected
  <2>2. /\ stage' \in [Operations -> {"idle", "connecting", "sent", "retrying", "failed", "done"}]
        /\ \A o \in Operations : stage'[o] = IF o \in A \cup B THEN "sent" ELSE stage[o]
    BY <1>2, <1>11 DEF Connected, SessionTypes
  <2>3. \A o \in B : at[<<o, 2>>] = "unsent" /\ (o \notin Reads => at[<<o, 1>>] = "unknown")
    BY <1>2 DEF RequestsFollow
  <2>4. A \in SUBSET Operations /\ B \in SUBSET Operations /\ A \cap B = {}
    OBVIOUS
  <2>5. \A o \in A : stage[o] \in {"idle", "connecting"}
    OBVIOUS
  <2> HIDE DEF A, B
  <2> QED
    BY <1>5, <2>1, <2>2, <2>3, <2>4, <2>5
<1>12. CASE ConnectFails
  BY <1>2, <1>4, <1>12 DEF ConnectFails, SessionTypes, wireVars
<1>13. ASSUME NEW c \in Calls, Arrive(c)
       PROVE  SessionInv'
  BY <1>6, <1>13 DEF Arrive, clientVars
<1>14. ASSUME NEW c \in Calls, Enter(c)
       PROVE  SessionInv'
  BY <1>6, <1>14 DEF Enter, clientVars
<1>15. CASE UNCHANGED allVars
  BY <1>7, <1>15 DEF allVars, clientVars, wireVars
<1>16. ASSUME NEW s \in Sessions, CloseConnection(s) \/ IdleExpire(s) \/ Terminate(s)
       PROVE  SessionInv'
  BY <1>7, <1>16 DEF CloseConnection, IdleExpire, Terminate, clientVars, wireVars
<1>17. ASSUME NEW c \in Calls, Complete(c) \/ Abort(c) \/ Lose(c)
       PROVE  SessionInv'
  BY <1>7, <1>17 DEF Complete, Abort, Lose, clientVars, wireVars
<1>18. CASE Admit \/ QueueStep \/ CloseSessions \/ Restart
  BY <1>7, <1>18 DEF Admit, QueueStep, CloseSessions, Restart, clientVars, wireVars
<1> QED
  BY <1>8, <1>9, <1>10, <1>11, <1>12, <1>13, <1>14, <1>15, <1>16, <1>17, <1>18 DEF SNext

LEMMA SessionInit == SInit => SessionInv
BY QueueInit, RequestsAre DEF SInit, Init, SessionInv, SessionTypes, OnlyQueuedRun, RequestsFollow

-----------------------------------------------------------------------------
(* The queue is sound, what has not reached it has not run, and a write's  *)
(* second request follows a first that was rejected.                       *)
THEOREM SessionInvariant == SSpec => []SessionInv
<1> QED
  BY SessionInit, SessionStep, PTL DEF SSpec

(* The queue holds each waiting call once, its ticker is armed exactly     *)
(* while it holds one, and a closed queue is empty.                        *)
THEOREM QueueShape == SSpec => []QueueTypeOK
<1>1. SessionInv => QueueTypeOK
  BY DEF SessionInv, QueueInv, Rest, Shape, QueueTypeOK
<1> QED
  BY <1>1, SessionInvariant, PTL

(* Calls are started in the order of their arrival (pump, toolQueue.ts).   *)
THEOREM OrderHolds == SSpec => FirstComeFirstStarted
<1>1. SessionInv /\ [SNext]_allVars => [StartsInOrder]_vars
  BY SessionQueue DEF Orderly
<1> QED
  BY <1>1, SessionInvariant, PTL DEF SSpec, FirstComeFirstStarted, StartsInOrder

(* No call is started after its deadline.                                  *)
THEOREM NothingStartsLate == SSpec => NoLateStart
<1>1. SessionInv /\ [SNext]_allVars => [StartsInTime]_vars
  BY SessionQueue DEF Orderly
<1> QED
  BY <1>1, SessionInvariant, PTL DEF SSpec, NoLateStart, StartsInTime

(* No call is started or queued beyond the limits in force.                *)
THEOREM LimitsHold == SSpec => WithinLimits
<1>1. SessionInv /\ [SNext]_allVars => [StartsWithinLimits]_vars
  BY SessionQueue DEF Orderly
<1> QED
  BY <1>1, SessionInvariant, PTL DEF SSpec, WithinLimits, StartsWithinLimits

(* What was refused or found no session has not run and never will.        *)
THEOREM RefusalsAreFinal == SSpec => RefusedNotRun
<1>1. SessionInv /\ [SNext]_allVars =>
        [\A c \in Calls : /\ Ran(c) => Ran(c)'
                          /\ state[c] \in Rejections \/ at[c] = "unknown" => state'[c] = state[c] /\ ~Ran(c)]_allVars
  <2> SUFFICES ASSUME SessionInv, [SNext]_allVars, NEW c \in Calls
               PROVE  /\ Ran(c) => Ran(c)'
                      /\ state[c] \in Rejections \/ at[c] = "unknown" => state'[c] = state[c] /\ ~Ran(c)
    OBVIOUS
  <2>1. PICK R \in SUBSET Calls : Orderly(R) /\ \A d \in R : at[d] = "reading" /\ at'[d] = "queue"
    BY SessionQueue
  <2>2. \/ state'[c] = state[c] \/ state[c] = "waiting"
        \/ state[c] = "running" /\ state'[c] = "finished"
        \/ state[c] = "new" /\ at[c] = "reading"
    BY <2>1 DEF Orderly, Settles
  <2>3. at[c] = "unknown" => state[c] = "new"
    BY DEF SessionInv, OnlyQueuedRun
  <2> QED
    BY <2>2, <2>3 DEF Ran, Rejections
<1> QED
  BY <1>1, SessionInvariant, PTL DEF SSpec, RefusedNotRun

(* No write is executed twice.                                             *)
THEOREM WritesRunOnce == SSpec => []AtMostOnce
<1>1. SessionInv => AtMostOnce
  <2> SUFFICES ASSUME SessionInv, NEW o \in Operations \ Reads, Ran(<<o, 1>>), Ran(<<o, 2>>)
               PROVE  FALSE
    BY DEF AtMostOnce
  <2>1. at[<<o, 1>>] = "queue" /\ at[<<o, 2>>] = "queue"
    BY RequestsAre DEF SessionInv, OnlyQueuedRun, Ran
  <2> QED
    BY <2>1 DEF SessionInv, RequestsFollow
<1> QED
  BY <1>1, SessionInvariant, PTL
=============================================================================
