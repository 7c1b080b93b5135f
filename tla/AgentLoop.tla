----------------------------- MODULE AgentLoop ------------------------------
(***************************************************************************)
(* The main loop of the Linux agent (infrapulse_agent.py): one thread that  *)
(* looks at the clock at the top of the loop, sends a heartbeat and a batch *)
(* of metrics when their intervals have passed by then, and blocks while it *)
(* measures, posts and sleeps.  A slow post of one kind delays the others.  *)
(*                                                                         *)
(* The question is what ServerLiveness assumes of a steady server: do the   *)
(* heartbeats keep the timestamp within the timeout?  Time passes in ticks, *)
(* and a step that blocks takes any number of them up to its limit.         *)
(***************************************************************************)
EXTENDS Naturals, FiniteSets

CONSTANTS
  Host,               \* the server whose agent this is
  Heartbeats,         \* heartbeats that the API may be serving at once
  Timeout,            \* AGENT_HEARTBEAT_TIMEOUT_SECONDS
  HeartbeatInterval,  \* heartbeat_interval
  MetricInterval,     \* interval
  PostTimeout,        \* what a post may take
  RestartDelay,       \* RestartSec of the systemd unit
  ServeTimeout,       \* what the API may take for a heartbeat it has begun
  Losses              \* failures in a row that the agent suffers at most

ASSUME TimeoutAssumption == Timeout \in Nat \ {0}
ASSUME IntervalsAssumption ==
  HeartbeatInterval \in Nat \ {0} /\ MetricInterval \in Nat \ {0}
ASSUME LimitsAssumption ==
  {PostTimeout, RestartDelay, ServeTimeout, Losses} \subseteq Nat
ASSUME HeartbeatsAssumption == "none" \notin Heartbeats /\ "served" \notin Heartbeats

VARIABLES
  phase,   \* where the loop is
  spent,   \* ticks since it got there
  loop,    \* ticks since the top of the loop, where it looked at the clock
  since,   \* since[j]: ticks since last_heartbeat, last_metric_push
  due,     \* the jobs whose interval had passed at the top
  beat,    \* the heartbeat that the agent waits for: "none", "served", or its request
  missed,  \* failures in a row: heartbeats without effect, crashes of the agent
  hbAge,   \* of ServerLiveness: the age of last_heartbeat_at
  inApi    \* the heartbeats in the API, req of ServerLiveness

agent == <<phase, spent, loop, since, due, beat, missed>>
loopVars == <<agent, hbAge, inApi>>

\* The backend as ServerLiveness has it, for a server that is not crash-prone and
\* while no checker run finds it stale.
Backend == INSTANCE ServerLiveness
  WITH Servers <- {Host}, CrashProne <- {}, Checkers <- {},
       Requests <- Heartbeats, req <- inApi,
       alive <- [s \in {Host} |-> TRUE], status <- [s \in {Host} |-> "online"],
       open <- [s \in {Host} |-> 0], handled <- [s \in {Host} |-> FALSE],
       reopened <- [s \in {Host} |-> FALSE],
       run <- [c \in {} |-> {}]

-----------------------------------------------------------------------------
Job == {"heartbeat", "metrics"}
Interval(j) == IF j = "heartbeat" THEN HeartbeatInterval ELSE MetricInterval

\* The phases, and how many ticks each may block.  The logs have none: the tail
\* has no position of a file it has not read, takes the end of the file for it,
\* finds nothing new there and stores no position.  It never has lines to post.
\* That a post ends within PostTimeout is an assumption on the network: urlopen
\* limits each operation on the socket (to connect, to wait for the answer), but
\* neither the look-up of the name nor an answer that arrives bit by bit.
Limit ==
  [top |-> 0, heartbeat |-> PostTimeout, collect |-> 1, push |-> PostTimeout,
   sleep |-> 1, down |-> RestartDelay]
LoopPhase == DOMAIN Limit

\* Ticks are not told apart beyond the longer interval.
Longest == IF HeartbeatInterval > MetricInterval THEN HeartbeatInterval
                                                 ELSE MetricInterval
AtMost(n) == IF n > Longest THEN Longest ELSE n

LoopTypeOK ==
  /\ phase \in LoopPhase
  /\ spent \in Nat /\ spent =< Limit[phase]
  /\ loop \in 0 .. Longest
  /\ since \in [Job -> 0 .. Longest]
  /\ due \subseteq Job
  /\ beat \in {"none", "served"} \cup Heartbeats
  /\ missed \in 0 .. Losses
  /\ Backend!TypeOK

\* A first start: every last_... is 0, long ago; the host is registered.
LoopInit ==
  /\ phase = "top" /\ spent = 0 /\ loop = 0
  /\ since = [j \in Job |-> Longest]
  /\ due = {}
  /\ beat = "none"
  /\ missed = 0
  /\ Backend!Init

-----------------------------------------------------------------------------
Goto(p) == phase' = p /\ spent' = 0
JobOrPause(jobs) ==
  Goto(CASE "heartbeat" \in jobs -> "heartbeat"
         [] jobs = {"metrics"} -> "collect"
         [] OTHER -> "sleep")

TickIf(within) ==
  /\ within
  /\ \A r \in Heartbeats : inApi[r] # Backend!IdleRequest => inApi[r].age < ServeTimeout
  /\ spent' = spent + 1
  /\ loop' = AtMost(loop + 1)
  /\ since' = [j \in Job |-> AtMost(since[j] + 1)]
  /\ hbAge' = [s \in {Host} |-> Backend!Older(hbAge[s])]
  /\ inApi' = [r \in Heartbeats |->
                IF inApi[r] = Backend!IdleRequest THEN inApi[r] ELSE Backend!Aged(inApi[r])]
  /\ UNCHANGED <<phase, due, beat, missed>>

\* Deviation: urlopen without a timeout.
TickUntimed == TickIf(phase \in {"heartbeat", "push"} \/ spent < Limit[phase])

Tick == TickIf(spent < Limit[phase])

\* now = time.time(), which all three conditions use.
Look ==
  /\ phase = "top"
  /\ due' = {j \in Job : since[j] >= Interval(j)}
  /\ loop' = 0
  /\ JobOrPause(due')
  /\ UNCHANGED <<since, beat, missed, hbAge, inApi>>

\* last_... = now, the time at the top.
Done(j) ==
  /\ since' = [since EXCEPT ![j] = loop]
  /\ due' = due \ {j}
  /\ JobOrPause(due')
  /\ UNCHANGED loop

-----------------------------------------------------------------------------
(* The heartbeat.                                                          *)

HeartbeatReads(r) ==
  /\ phase = "heartbeat" /\ beat = "none"
  /\ Backend!RequestReads(r, "heartbeat", Host)
  /\ beat' = r
  /\ UNCHANGED <<phase, spent, loop, since, due, missed, hbAge>>

\* Whether or not the agent still waits for it.
HeartbeatCommits(r) ==
  /\ Backend!RequestCommits(r)
  /\ beat' = IF beat = r THEN "served" ELSE beat
  /\ missed' = IF beat = r THEN 0 ELSE missed
  /\ UNCHANGED <<phase, spent, loop, since, due>>

HeartbeatFails(r) ==
  /\ beat = r => missed < Losses
  /\ Backend!RequestFails(r)
  /\ UNCHANGED <<agent, hbAge>>

\* An answer, an error or the timeout: all the same to the loop.
HeartbeatEnds ==
  /\ phase = "heartbeat"
  /\ IF beat = "served" THEN missed' = missed
     ELSE missed < Losses /\ missed' = missed + 1
  /\ beat' = "none"
  /\ Done("heartbeat")
  /\ UNCHANGED <<hbAge, inApi>>

-----------------------------------------------------------------------------
(* The metrics, the logs and the pause.                                    *)

Collect ==
  /\ phase = "collect"
  /\ Goto("push")
  /\ UNCHANGED <<loop, since, due, beat, missed, hbAge, inApi>>

\* Deviation: a batch that fails is posted again.
PushRetries ==
  /\ phase = "push"
  /\ \/ Goto("push") /\ UNCHANGED <<loop, since, due>>
     \/ Done("metrics")
  /\ UNCHANGED <<beat, missed, hbAge, inApi>>

\* Answered, refused or lost: a batch is not sent again.  A batch that the API
\* ingests sets the status to "online", which it is.
PushEnds ==
  /\ phase = "push"
  /\ Done("metrics")
  /\ UNCHANGED <<beat, missed, hbAge, inApi>>

Wake ==
  /\ phase = "sleep"
  /\ Goto("top")
  /\ UNCHANGED <<loop, since, due, beat, missed, hbAge, inApi>>

-----------------------------------------------------------------------------
\* The process dies, whatever it waits for, and systemd starts it again.  (It may
\* give up on an agent that dies often: such an agent is none of this module's.)
AgentDies ==
  /\ phase # "down" /\ missed < Losses
  /\ Goto("down")
  /\ missed' = missed + 1
  /\ beat' = "none"
  /\ UNCHANGED <<loop, since, due, hbAge, inApi>>

Restart ==
  /\ phase = "down"
  /\ Goto("top")
  /\ loop' = 0
  /\ since' = [j \in Job |-> Longest]
  /\ due' = {}
  /\ UNCHANGED <<beat, missed, hbAge, inApi>>

LoopNext ==
  \/ Tick \/ Look \/ HeartbeatEnds
  \/ \E r \in Heartbeats : HeartbeatReads(r) \/ HeartbeatCommits(r) \/ HeartbeatFails(r)
  \/ Collect \/ PushEnds \/ Wake
  \/ AgentDies \/ Restart

LoopSpec == LoopInit /\ [][LoopNext]_loopVars

-----------------------------------------------------------------------------
(* How long a pass of the loop with a heartbeat may take; the longest time   *)
(* from the top of a pass with a heartbeat to the top of the next one that   *)
(* has one; and what a failure may cost, be it of a heartbeat or a crash.    *)
Pass == 2 * PostTimeout + 2
Round ==
  IF HeartbeatInterval + PostTimeout + 1 > Pass
    THEN HeartbeatInterval + PostTimeout + 1 ELSE Pass
Setback ==
  IF Round > PostTimeout + RestartDelay THEN Round ELSE PostTimeout + RestartDelay

(* How old the timestamp may be, m failures after a heartbeat that was served. *)
Slack(m) == ServeTimeout + m * Setback

(* The timeout leaves room for the failures that the agent suffers.          *)
Margin == Slack(Losses) + Round + PostTimeout =< Timeout

(* The loop keeps the promise that ServerLiveness makes for it: whatever     *)
(* blocks it, its heartbeats reach the API before the timestamp is as old as *)
(* the timeout, so that time never has to wait for it.  Hence no false alarm.*)
KeepsHostSteady == Backend!Spec
=============================================================================
