----------------------------- MODULE ToolQueue -----------------------------
(***************************************************************************)
(* The control plane's bounded FIFO queue of MCP tool calls                *)
(* (toolQueue.ts).  A call waits until a slot is free and the heap is      *)
(* below its threshold; it leaves the queue early when its deadline        *)
(* passes, its client cancels it or the daemon closes.  The owner may      *)
(* change the limits at any time.                                          *)
(*                                                                         *)
(* Timers and the ticker are callbacks of the event loop: they may be late *)
(* by any amount.  The variants marked faulty show properties can fail.    *)
(***************************************************************************)
EXTENDS Integers, Sequences, FiniteSets

CONSTANTS Calls,     \* tool calls, each made once
          Settings   \* the settings an owner may save

ASSUME QueueAssumption ==
  /\ IsFiniteSet(Calls)
  /\ Settings \subseteq [maxConcurrency : Nat \ {0}, maxQueueSize : Nat \ {0}, queueTimeout : Nat \ {0}]

VARIABLES
  settings,  \* the saved settings; they apply at once
  waiting,   \* the waiting calls, oldest first
  state,     \* what became of each call
  remaining, \* the time a queued call has left until its deadline
  blocked,   \* the heap is above heapDispatchPausePercent
  ticker,    \* the 100 ms interval is armed
  stopped    \* the queue is closed

vars == <<settings, waiting, state, remaining, blocked, ticker, stopped>>
queueVars == <<waiting, state, ticker>>

Rejections == {"full", "expired", "cancelled", "shutdown"}
States == {"new", "waiting", "running", "finished"} \cup Rejections

Busy(st) == Cardinality({c \in Calls : st[c] = "running"})
Expired(c) == remaining[c] = 0

Init ==
  /\ settings \in Settings
  /\ waiting = <<>>
  /\ state = [c \in Calls |-> "new"]
  /\ remaining = [c \in Calls |-> 1]
  /\ blocked = FALSE /\ ticker = FALSE /\ stopped = FALSE

-----------------------------------------------------------------------------
(* pump, for the queue w and the calls' states st that the pumping         *)
(* operation has left: calls leave at the head, expired ones rejected and  *)
(* others started, until no slot is free, or the heap is too full for a    *)
(* call that has not expired.                                              *)
HeadLeavesUncounted(w, st, limit, i) ==   \* faulty: calls this pump started are not counted
  Busy(st) < limit /\ (Expired(w[i]) \/ ~blocked)
HeadLeaves(w, st, limit, i) ==
  /\ Busy(st) + Cardinality({j \in 1..(i - 1) : ~Expired(w[j])}) < limit
  /\ Expired(w[i]) \/ ~blocked

LeavesAsStarted(c) == "running"   \* faulty: the deadline is left to the timer
LeavesAs(c) == IF Expired(c) THEN "expired" ELSE "running"

\* A closed queue is not pumped; an empty one stops its ticker.
Pump(w, st, limit, ticking) ==
  \/ /\ ~stopped
     /\ \E n \in 0..Len(w) :
          /\ \A i \in 1..n : HeadLeaves(w, st, limit, i)
          /\ n < Len(w) => ~HeadLeaves(w, st, limit, n + 1)
          /\ waiting' = SubSeq(w, n + 1, Len(w))
          /\ state' = [c \in Calls |-> IF \E i \in 1..n : w[i] = c THEN LeavesAs(c) ELSE st[c]]
          /\ ticker' = (ticking /\ n < Len(w))
  \/ stopped /\ waiting' = w /\ state' = st /\ ticker' = ticking

(* remove, of a call that is still waiting                                 *)
WithoutNone(c) == waiting   \* faulty: the call is rejected and left in the queue
Without(c) == LET i == CHOOSE j \in 1..Len(waiting) : waiting[j] = c
              IN  SubSeq(waiting, 1, i - 1) \o SubSeq(waiting, i + 1, Len(waiting))
Remove(c, code) ==
  Pump(Without(c), [state EXCEPT ![c] = code], settings.maxConcurrency, ticker)

-----------------------------------------------------------------------------
(* run: a call is rejected at once, or queued and the queue is pumped.     *)
Refuse(c, code) ==
  /\ state' = [state EXCEPT ![c] = code]
  /\ UNCHANGED <<waiting, ticker, remaining>>

EnqueueFirst(c) == <<c>> \o waiting   \* faulty
Enqueue(c) == Append(waiting, c)

TickerForgotten == ticker   \* faulty: run leaves the ticker as it is
TickerArmed == TRUE

Run(c) ==
  /\ state[c] = "new"
  /\ \/ stopped /\ Refuse(c, "shutdown")
     \/ ~stopped /\ Refuse(c, "cancelled")   \* its signal is aborted already
     \/ ~stopped /\ Len(waiting) >= settings.maxQueueSize /\ Refuse(c, "full")
     \/ /\ ~stopped /\ Len(waiting) < settings.maxQueueSize
        /\ remaining' = [remaining EXCEPT ![c] = settings.queueTimeout]
        /\ Pump(Enqueue(c), [state EXCEPT ![c] = "waiting"], settings.maxConcurrency, TickerArmed)
  /\ UNCHANGED <<settings, blocked, stopped>>

(* finish: the tool's promise settles, whatever its outcome.               *)
Finish(c) ==
  /\ state[c] = "running"
  /\ Pump(waiting, [state EXCEPT ![c] = "finished"], settings.maxConcurrency, ticker)
  /\ UNCHANGED <<settings, remaining, blocked, stopped>>

(* The deadline's timer.                                                   *)
Expire(c) == Remove(c, "expired")

TimerFires(c) ==
  /\ state[c] = "waiting" /\ Expired(c)
  /\ Expire(c)
  /\ UNCHANGED <<settings, remaining, blocked, stopped>>

(* The connection closes, or notifications/cancelled names the call.       *)
Cancel(c) ==
  /\ state[c] = "waiting"
  /\ Remove(c, "cancelled")
  /\ UNCHANGED <<settings, remaining, blocked, stopped>>

TickerFires ==
  /\ ticker
  /\ Pump(waiting, state, settings.maxConcurrency, ticker)
  /\ UNCHANGED <<settings, remaining, blocked, stopped>>

(* configure.  A save based on settings that are no longer the saved ones  *)
(* is rejected and changes nothing.                                        *)
Configure(next) ==
  /\ next # settings
  /\ settings' = next
  /\ Pump(waiting, state, next.maxConcurrency, ticker)
  /\ UNCHANGED <<remaining, blocked, stopped>>

Close ==
  /\ ~stopped
  /\ stopped' = TRUE
  /\ ticker' = FALSE
  /\ waiting' = <<>>
  /\ state' = [c \in Calls |-> IF state[c] = "waiting" THEN "shutdown" ELSE state[c]]
  /\ UNCHANGED <<settings, remaining, blocked>>

\* Time passes; the heap grows, or the collector shrinks it.
Tick ==
  /\ \E c \in Calls : state[c] = "waiting" /\ ~Expired(c)
  /\ remaining' = [c \in Calls |-> IF state[c] = "waiting" /\ ~Expired(c)
                                   THEN remaining[c] - 1 ELSE remaining[c]]
  /\ UNCHANGED <<settings, queueVars, blocked, stopped>>

HeapChanges == blocked' = ~blocked /\ UNCHANGED <<settings, queueVars, remaining, stopped>>

Next ==
  \/ \E c \in Calls : Run(c) \/ Finish(c) \/ TimerFires(c) \/ Cancel(c)
  \/ \E next \in Settings : Configure(next)
  \/ TickerFires \/ Close \/ Tick \/ HeapChanges

Spec == Init /\ [][Next]_vars

(* The event loop runs its callbacks.  No tool is obliged to finish and no *)
(* time to pass.                                                           *)
Fairness == WF_vars(TickerFires) /\ \A c \in Calls : WF_vars(TimerFires(c))

FairSpec == Spec /\ Fairness

-----------------------------------------------------------------------------
(* Types, and the queue's shape: it holds each waiting call once, its      *)
(* ticker is armed exactly while it has something to pump, and a closed    *)
(* queue is empty.                                                         *)
QueueTypeOK ==
  /\ settings \in Settings
  /\ waiting \in Seq(Calls)
  /\ \A i, j \in 1..Len(waiting) : waiting[i] = waiting[j] => i = j
  /\ state \in [Calls -> States]
  /\ {waiting[i] : i \in 1..Len(waiting)} = {c \in Calls : state[c] = "waiting"}
  /\ remaining \in [Calls -> Nat]
  /\ blocked \in BOOLEAN /\ stopped \in BOOLEAN
  /\ ticker = (waiting # <<>>)
  /\ stopped => waiting = <<>>

Ahead(w, c, d) == \E i, j \in 1..Len(w) : i < j /\ w[i] = c /\ w[j] = d

(* First come, first started: a call that arrives queues behind those that *)
(* wait, and no call is started while one ahead of it keeps waiting,       *)
(* whatever is cancelled, expired or reconfigured meanwhile (README.md:    *)
(* 1991, "existing waiters retain FIFO order").                            *)
FirstComeFirstStarted ==
  [][\A c, d \in Calls :
       /\ state[c] = "waiting" /\ state'[c] = "waiting"
       /\ state[d] = "new" \/ Ahead(waiting, c, d)
       => /\ state'[d] # "running"
          /\ state'[d] = "waiting" => Ahead(waiting', c, d)]_vars

(* No call is started once its own deadline has passed, however late the   *)
(* timer is and however the timeout was changed since (README.md:2067,     *)
(* full or expired calls "never run later").                               *)
NoLateStart ==
  [][\A c \in Calls :
       state'[c] = "running" /\ state[c] # "running" =>
         state[c] \in {"new", "waiting"} /\ remaining'[c] > 0]_vars

(* No step starts a call beyond maxConcurrency or queues one beyond        *)
(* maxQueueSize, also when the limits were lowered below what runs and     *)
(* waits; and a call it starts was not held back by the heap.              *)
WithinLimits ==
  [][/\ (\E c \in Calls : state'[c] = "running" /\ state[c] # "running") =>
          Busy(state') <= settings'.maxConcurrency /\ ~blocked /\ ~stopped
     /\ Len(waiting') > Len(waiting) => Len(waiting') <= settings.maxQueueSize]_vars

(* The queue never stalls: while a slot is free and the heap is not too    *)
(* full, the call at its head does not wait for another call or for its    *)
(* deadline.  Nothing tells the queue that the heap has shrunk, so this    *)
(* rests on the ticker.                                                    *)
Resumes ==
  \A c \in Calls :
    (waiting # <<>> /\ waiting[1] = c /\ ~blocked /\ Busy(state) < settings.maxConcurrency)
      ~> (state[c] # "waiting" \/ blocked \/ Busy(state) >= settings.maxConcurrency)
=============================================================================
