----------------------------- MODULE McpSessions -----------------------------
(***************************************************************************)
(* Tool calls from a client to the tool queue: the desktop's MCP client    *)
(* with its one shared connection (controlPlaneClient.ts, mcpLifecycle.ts),*)
(* the daemon's sessions (mcpSessions.ts) and POST and DELETE /mcp         *)
(* (server.ts), on top of ToolQueue, whose calls are the requests sent.    *)
(*                                                                         *)
(* An operation is sent as a request, and as a second one when the client  *)
(* takes its session for expired.  Sessions expire, quotas refuse new      *)
(* ones, the daemon shuts down and restarts, and answers are lost.         *)
(***************************************************************************)
EXTENDS ToolQueue

CONSTANTS Operations,    \* what the desktop calls the client for, each once
          Reads,         \* those that name one of RETRYABLE_READ_TOOLS
          MaxPerClient,  \* maxPerClient of the session policy
          MaxSessions,   \* bound of the check: handshakes admitted
          MaxFaults      \* bound of the check: lost answers and restarts

ASSUME SessionsAssumption ==
  Calls = Operations \X {1, 2} /\ Reads \subseteq Operations /\ {MaxPerClient, MaxSessions, MaxFaults} \subseteq Nat

VARIABLES
  \* the client
  connection,  \* the session of its connection, or None
  asked,       \* a handshake is under way
  offered,     \* the session the daemon has answered it with, or None
  stale,       \* staleConnections
  closing,     \* sessions whose connection is being closed
  stage,       \* of an operation
  \* requests
  at,          \* how far a request got
  via,         \* the session it names
  broken,      \* requests whose answer the client does not get
  \* the daemon
  open,        \* sessions in both maps, sessions and transports
  opened,      \* the last session's number
  shut,        \* the sessions are closed for good
  faults

clientVars == <<connection, asked, offered, stale, closing, stage>>
wireVars == <<at, via, broken>>
sessionVars == <<open, opened, shut, faults>>
allVars == <<vars, clientVars, wireVars, sessionVars>>

None == 0
Sessions == 1..MaxSessions

SInit ==
  /\ Init
  /\ connection = None /\ asked = FALSE /\ offered = None /\ stale = {} /\ closing = {}
  /\ stage = [o \in Operations |-> "idle"]
  /\ at = [c \in Calls |-> "unsent"] /\ via = [c \in Calls |-> None] /\ broken = {}
  /\ open = {} /\ opened = 0 /\ shut = FALSE /\ faults = 0

-----------------------------------------------------------------------------
(* The client.                                                             *)
Current(o) == IF at[<<o, 2>>] = "unsent" THEN <<o, 1>> ELSE <<o, 2>>

Send(C, s) ==
  /\ at' = [c \in Calls |-> IF c \in C THEN "wire" ELSE at[c]]
  /\ via' = [c \in Calls |-> IF c \in C THEN s ELSE via[c]]

\* resetConnection, of the connection that is current, whatever the caller had used
Reset == connection' = None /\ closing' = closing \cup ({connection} \ {None})

(* ensureConnected: a call is sent on the connection there is, or joins    *)
(* the one handshake.                                                      *)
Dispatch(o, n, s, pending) ==
  \/ /\ s # None
     /\ Send({<<o, n>>}, s)
     /\ stage' = [stage EXCEPT ![o] = "sent"] /\ UNCHANGED asked
  \/ /\ s = None
     /\ asked' = TRUE
     /\ stage' = [stage EXCEPT ![o] = pending] /\ UNCHANGED <<at, via>>

Begin(o) ==
  /\ stage[o] = "idle"
  /\ Dispatch(o, 1, connection, "connecting")
  /\ UNCHANGED <<vars, connection, offered, stale, closing, broken, sessionVars>>

Connected ==
  /\ offered # None
  /\ connection' = offered /\ asked' = FALSE /\ offered' = None
  /\ Send({<<o, 1>> : o \in {p \in Operations : stage[p] = "connecting"}}
            \cup {<<o, 2>> : o \in {p \in Operations : stage[p] = "retrying"}}, offered)
  /\ stage' = [o \in Operations |-> IF stage[o] \in {"connecting", "retrying"} THEN "sent" ELSE stage[o]]
  /\ UNCHANGED <<vars, stale, closing, broken, sessionVars>>

\* The daemon is down or refuses, or its answer is lost; a session it opened then may stay.
ConnectFails ==
  /\ asked
  /\ asked' = FALSE /\ offered' = None
  /\ stage' = [o \in Operations |-> IF stage[o] \in {"connecting", "retrying"} THEN "failed" ELSE stage[o]]
  /\ \/ UNCHANGED closing
     \/ offered # None /\ closing' = closing \cup {offered}
  /\ UNCHANGED <<vars, connection, stale, wireVars, sessionVars>>

(* The first request of an operation is given up for a second one when its *)
(* session is explicitly rejected; a read also when its connection is      *)
(* known to be stale, whatever became of the request.                      *)
RejectedAsStale(c) == at[c] = "unknown" /\ c \notin broken
Refused(c) == at[c] = "queue" /\ state[c] \in Rejections /\ c \notin broken
Errs(c) == c \in broken \/ RejectedAsStale(c) \/ Refused(c)

AgainThoughWrite(o) == RejectedAsStale(<<o, 1>>) \/ via[<<o, 1>>] \in stale   \* faulty: writes as well
Again(o) == RejectedAsStale(<<o, 1>>) \/ (o \in Reads /\ via[<<o, 1>>] \in stale)

Retry(o) ==
  LET s == via[<<o, 1>>]
  IN  /\ stage[o] = "sent" /\ Current(o) = <<o, 1>>
      /\ Errs(<<o, 1>>) /\ Again(o)
      /\ stale' = stale \cup {s}
      /\ \/ connection = s /\ Reset
         \/ connection # s /\ UNCHANGED <<connection, closing>>
      /\ Dispatch(o, 2, connection', "retrying")
      /\ UNCHANGED <<vars, offered, broken, sessionVars>>

Fail(o) ==
  /\ stage[o] = "sent"
  /\ Errs(Current(o))
  /\ Current(o) = <<o, 1>> => ~Again(o)
  /\ stage' = [stage EXCEPT ![o] = "failed"]
  /\ Reset
  /\ UNCHANGED <<vars, asked, offered, stale, wireVars, sessionVars>>

Succeed(o) ==
  /\ stage[o] = "sent"
  /\ state[Current(o)] = "finished" /\ Current(o) \notin broken
  /\ stage' = [stage EXCEPT ![o] = "done"]
  /\ UNCHANGED <<vars, connection, asked, offered, stale, closing, wireVars, sessionVars>>

(* closeMcpSession, once DELETE is answered or has timed out: requests     *)
(* that are under way on the connection are aborted.                       *)
CloseConnection(s) ==
  /\ s \in closing
  /\ closing' = closing \ {s}
  /\ broken' = broken \cup {c \in Calls : via[c] = s /\ stage[c[1]] = "sent" /\ Current(c[1]) = c}
  /\ UNCHANGED <<vars, connection, asked, offered, stale, stage, at, via, sessionVars>>

-----------------------------------------------------------------------------
(* The daemon's sessions.                                                  *)
Admit ==
  /\ asked /\ offered = None /\ opened < MaxSessions
  /\ ~shut /\ Cardinality(open) < MaxPerClient
  /\ opened' = opened + 1 /\ offered' = opened' /\ open' = open \cup {opened'}
  /\ UNCHANGED <<vars, connection, asked, stale, closing, stage, wireVars, shut, faults>>

\* What a session's requests are counted from their arrival to their end.
Active(s) == {c \in Calls : via[c] = s /\ (at[c] = "reading" \/ (at[c] = "queue" /\ state[c] \in {"waiting", "running"}))}

IdleExpire(s) ==
  /\ s \in open /\ Active(s) = {}
  /\ open' = open \ {s}
  /\ UNCHANGED <<vars, clientVars, wireVars, opened, shut, faults>>

(* DELETE: what runs goes on without anyone to answer.                     *)
Unanswerable(S) == {c \in Calls : via[c] \in S /\ state[c] = "running"}
Terminate(s) ==
  /\ s \in closing \cap open
  /\ open' = open \ {s}
  /\ broken' = broken \cup Unanswerable({s})
  /\ UNCHANGED <<vars, clientVars, at, via, opened, shut, faults>>

(* POST: the session is looked up when the request arrives, and again when *)
(* its body has been read.                                                 *)
Arrive(c) ==
  /\ at[c] = "wire"
  /\ at' = [at EXCEPT ![c] = IF via[c] \in open THEN "reading" ELSE "unknown"]
  /\ UNCHANGED <<vars, clientVars, via, broken, sessionVars>>

Enter(c) ==
  /\ at[c] = "reading"
  /\ \/ via[c] \in open /\ at' = [at EXCEPT ![c] = "queue"] /\ Run(c) /\ state'[c] # "cancelled"
     \/ via[c] \notin open /\ at' = [at EXCEPT ![c] = "unknown"] /\ UNCHANGED vars
  /\ UNCHANGED <<clientVars, via, broken, sessionVars>>

Complete(c) ==
  /\ Finish(c)
  /\ broken' = IF via[c] \in open THEN broken ELSE broken \cup {c}
  /\ UNCHANGED <<clientVars, at, via, sessionVars>>

\* The request's connection closes.
Abort(c) == c \in broken /\ Cancel(c) /\ UNCHANGED <<clientVars, wireVars, sessionVars>>

QueueStep ==
  /\ \/ \E c \in Calls : TimerFires(c)
     \/ \E next \in Settings : Configure(next)
     \/ TickerFires \/ Close \/ Tick \/ HeapChanges
  /\ UNCHANGED <<clientVars, wireVars, sessionVars>>

(* close, after the queue's: requests find no session any more.            *)
CloseSessions ==
  /\ stopped /\ ~shut
  /\ shut' = TRUE /\ open' = {}
  /\ broken' = broken \cup Unanswerable(Sessions)
  /\ UNCHANGED <<vars, clientVars, at, via, opened, faults>>

(* The process ends, closed or not, and another is started.                *)
Restart ==
  /\ faults < MaxFaults /\ faults' = faults + 1
  /\ open' = {} /\ shut' = FALSE /\ stopped' = FALSE /\ ticker' = FALSE /\ waiting' = <<>>
  /\ state' = [c \in Calls |-> CASE state[c] = "waiting" -> "shutdown" [] state[c] = "running" -> "finished"
                                 [] OTHER -> state[c]]
  /\ broken' = broken \cup {c \in Calls : at[c] \in {"wire", "reading"} \/ state[c] \in {"waiting", "running"}}
  /\ UNCHANGED <<settings, remaining, blocked, clientVars, at, via, opened>>

\* A request or its answer is lost, or has timed out at the client.
Lose(c) ==
  /\ at[c] # "unsent" /\ c \notin broken /\ stage[c[1]] = "sent" /\ Current(c[1]) = c
  /\ faults < MaxFaults /\ faults' = faults + 1
  /\ broken' = broken \cup {c}
  /\ UNCHANGED <<vars, clientVars, at, via, open, opened, shut>>

SNext ==
  \/ \E o \in Operations : Begin(o) \/ Retry(o) \/ Fail(o) \/ Succeed(o)
  \/ Connected \/ ConnectFails \/ Admit
  \/ \E s \in Sessions : CloseConnection(s) \/ IdleExpire(s) \/ Terminate(s)
  \/ \E c \in Calls : Arrive(c) \/ Enter(c) \/ Complete(c) \/ Abort(c) \/ Lose(c)
  \/ QueueStep \/ CloseSessions \/ Restart

SSpec == SInit /\ [][SNext]_allVars

(* As in ToolQueue: the event loop runs the queue's callbacks.             *)
FairSSpec == SSpec /\ Fairness

-----------------------------------------------------------------------------
Ran(c) == state[c] \in {"running", "finished"}

(* No write is executed twice: a second request is sent only when the      *)
(* first has not run and never will, through expiries, quotas, restarts    *)
(* and lost answers (README.md:1939, "Writes are never replayed after a    *)
(* network failure or any other error with an uncertain execution          *)
(* outcome").                                                              *)
AtMostOnce == \A o \in Operations \ Reads : ~(Ran(<<o, 1>>) /\ Ran(<<o, 2>>))

(* What is answered "executed: false", or with an unknown session, has not *)
(* run and does not run later.                                             *)
RefusedNotRun ==
  [][\A c \in Calls : /\ Ran(c) => Ran(c)'
                      /\ state[c] \in Rejections \/ at[c] = "unknown" => state'[c] = state[c] /\ ~Ran(c)]_allVars
=============================================================================
