--------------------------- MODULE ServerLiveness ---------------------------
(***************************************************************************)
(* How the backend decides whether a monitored server is online.           *)
(*                                                                         *)
(* Two writers share servers.status and server_agents.last_heartbeat_at:   *)
(* the agent API (api/v1/agent.py), which serves heartbeats and metric     *)
(* batches, and the Celery task check_agent_heartbeats                     *)
(* (workers/alert_processor.py), which marks silent servers offline and    *)
(* raises an agent_offline alert.  Every handler and every task run is one *)
(* database session that reads, computes, and commits later; the database  *)
(* runs READ COMMITTED, and the ORM's UPDATE names only the columns whose  *)
(* value differs from the one the session loaded.                          *)
(*                                                                         *)
(* Time is abstracted to the age of a timestamp, which saturates one past  *)
(* the timeout: nothing in the code tells larger ages apart.               *)
(***************************************************************************)
EXTENDS Naturals, FiniteSets

CONSTANTS
  Servers,     \* servers with a registered, active agent
  CrashProne,  \* the servers whose agent may stop or be late
  Requests,    \* agent API requests that may be in flight at once
  Checkers,    \* runs of check_agent_heartbeats that may overlap
  Timeout      \* AGENT_HEARTBEAT_TIMEOUT_SECONDS, in ticks

ASSUME ServersAssumption == CrashProne \subseteq Servers
ASSUME TimeoutAssumption == Timeout \in Nat \ {0}
ASSUME CheckersAssumption == IsFiniteSet(Checkers)

VARIABLES
  alive,    \* alive[s]: the agent of s runs and reaches the API
  hbAge,    \* hbAge[s]: age of the agent row's last_heartbeat_at
  status,   \* status[s]: the server row's status
  open,     \* open[s]: number of agent_offline alerts of s still "open" since raised
  handled,  \* handled[s]: some agent_offline alert of s has another status
  reopened, \* reopened[s]: some agent_offline alert of s was set back to "open"
  req,      \* req[r]: what in-flight request r has read
  run       \* run[c]: what checker run c has read and not yet committed

alerts == <<open, handled, reopened>>
vars == <<alive, hbAge, status, alerts, req, run>>

-----------------------------------------------------------------------------
Age == 0 .. Timeout + 1
Status == {"online", "offline"}

\* A heartbeat stands for every handler that also refreshes last_heartbeat_at:
\* /agent/heartbeat, and /agent/register of a host already known.
RequestKind == {"heartbeat", "metrics"}

IdleRequest == [kind |-> "idle"]
ActiveRequest == [kind : RequestKind, server : Servers, loaded : Status, age : Age]

IdleRun == [phase |-> "idle"]
ActiveRun ==
  [phase : {"active"},
   todo : SUBSET Servers,   \* stale agents selected and not looked at yet
   raise : SUBSET Servers,  \* servers for which an alert is pending
   mark : SUBSET Servers]   \* servers whose UPDATE status='offline' is pending

TypeOK ==
  /\ alive \in [Servers -> BOOLEAN]
  /\ hbAge \in [Servers -> Age]
  /\ status \in [Servers -> Status]
  /\ open \in [Servers -> Nat]
  /\ handled \in [Servers -> BOOLEAN]
  /\ reopened \in [Servers -> BOOLEAN]
  /\ req \in [Requests -> ActiveRequest \cup {IdleRequest}]
  /\ run \in [Checkers -> ActiveRun \cup {IdleRun}]

Init ==
  /\ alive = [s \in Servers |-> TRUE]
  /\ hbAge = [s \in Servers |-> 0]
  /\ status = [s \in Servers |-> "online"]
  /\ open = [s \in Servers |-> 0]
  /\ handled = [s \in Servers |-> FALSE]
  /\ reopened = [s \in Servers |-> FALSE]
  /\ req = [r \in Requests |-> IdleRequest]
  /\ run = [c \in Checkers |-> IdleRun]

-----------------------------------------------------------------------------
Older(age) == IF age = Timeout + 1 THEN age ELSE age + 1

\* ServerAgent.last_heartbeat_at < now - timeout
StaleAtTimeout(age) == age >= Timeout         \* deviation: <= for <
Stale(age) == age > Timeout

\* The time a request took when it read is one tick older.
Aged(q) == [kind |-> q.kind, server |-> q.server, loaded |-> q.loaded,
            age |-> Older(q.age)]

(***************************************************************************)
(* The timing the deployment aims for, kept by the servers that are not    *)
(* crash-prone: the heartbeats keep the timestamp within the timeout (they *)
(* come every 60 s against 300 s) and no request outlives the timeout.     *)
(***************************************************************************)
Steady == Servers \ CrashProne

Punctual ==
  /\ \A s \in Steady : hbAge[s] < Timeout
  /\ \A r \in Requests :
       req[r] # IdleRequest /\ req[r].server \in Steady => req[r].age < Timeout

Tick ==
  /\ Punctual
  /\ hbAge' = [s \in Servers |-> Older(hbAge[s])]
  /\ req' = [r \in Requests |->
               IF req[r] = IdleRequest THEN req[r] ELSE Aged(req[r])]
  /\ UNCHANGED <<alive, status, alerts, run>>

AgentStops(s) ==
  /\ s \in CrashProne /\ alive[s]
  /\ alive' = [alive EXCEPT ![s] = FALSE]
  /\ UNCHANGED <<hbAge, status, alerts, req, run>>

\* systemd restarts the agent, which goes on with the token it saved.
AgentRestarts(s) ==
  /\ ~alive[s]
  /\ alive' = [alive EXCEPT ![s] = TRUE]
  /\ UNCHANGED <<hbAge, status, alerts, req, run>>

-----------------------------------------------------------------------------
(* The agent API.  The handler looks the agent up, takes the time, loads   *)
(* the server row, and awaits the database again only in its commit.       *)

RequestReads(r, k, s) ==
  /\ req[r] = IdleRequest
  /\ alive[s]
  /\ req' = [req EXCEPT ![r] =
               [kind |-> k, server |-> s, loaded |-> status[s], age |-> 0]]
  /\ UNCHANGED <<alive, hbAge, status, alerts, run>>

\* Deviation: a handler that stamps the heartbeat and leaves the status alone.
RequestCommitsTimestamp(r) ==
  /\ req[r] # IdleRequest
  /\ hbAge' = IF req[r].kind = "metrics" THEN hbAge
              ELSE [hbAge EXCEPT ![req[r].server] = req[r].age]
  /\ req' = [req EXCEPT ![r] = IdleRequest]
  /\ UNCHANGED <<alive, status, alerts, run>>

\* server.status = "online" reaches the database only if the row was loaded
\* with another status.
RequestCommitsAs(r, word) ==
  /\ req[r] # IdleRequest
  /\ LET q == req[r] IN
       /\ status' = IF q.loaded = word THEN status
                    ELSE [status EXCEPT ![q.server] = word]
       /\ hbAge' = IF q.kind = "metrics" THEN hbAge
                   ELSE [hbAge EXCEPT ![q.server] = q.age]
  /\ req' = [req EXCEPT ![r] = IdleRequest]
  /\ UNCHANGED <<alive, alerts, run>>

\* Deviation: the word that another table has for it.
RequestCommitsActive(r) == RequestCommitsAs(r, "active")

RequestCommits(r) == RequestCommitsAs(r, "online")

\* The API process dies, or the database refuses the commit: get_db rolls back.
RequestFails(r) ==
  /\ req[r] # IdleRequest
  /\ req' = [req EXCEPT ![r] = IdleRequest]
  /\ UNCHANGED <<alive, hbAge, status, alerts, run>>

-----------------------------------------------------------------------------
(* check_agent_heartbeats: one session per run, one commit at its end.     *)

CheckSelects(c) ==
  /\ run[c] = IdleRun
  /\ run' = [run EXCEPT ![c] =
               [phase |-> "active", todo |-> {s \in Servers : Stale(hbAge[s])},
                raise |-> {}, mark |-> {}]]
  /\ UNCHANGED <<alive, hbAge, status, alerts, req>>

\* The look-up of an existing alert asks for its status, and for nothing else.
AlertOpen(s) == open[s] > 0 \/ reopened[s]

\* One iteration of the loop: known ends it before server.status is touched.
Examine(c, s, known) ==
  /\ run[c] # IdleRun
  /\ s \in run[c].todo
  /\ run' = [run EXCEPT ![c] =
               [phase |-> "active",
                todo |-> run[c].todo \ {s},
                raise |-> IF known THEN run[c].raise ELSE run[c].raise \cup {s},
                mark |-> IF known \/ status[s] = "offline" THEN run[c].mark
                         ELSE run[c].mark \cup {s}]]
  /\ UNCHANGED <<alive, hbAge, status, alerts, req>>

\* Deviations: no look-up of an existing alert; a look-up that ignores its status.
CheckExaminesBlindly(c, s) == Examine(c, s, FALSE)
CheckExaminesAnyAlert(c, s) == Examine(c, s, AlertOpen(s) \/ handled[s])

CheckExamines(c, s) == Examine(c, s, AlertOpen(s))

CheckCommits(c) ==
  /\ run[c] # IdleRun
  /\ run[c].todo = {}
  /\ status' = [s \in Servers |-> IF s \in run[c].mark THEN "offline" ELSE status[s]]
  /\ open' = [s \in Servers |-> IF s \in run[c].raise THEN open[s] + 1 ELSE open[s]]
  /\ run' = [run EXCEPT ![c] = IdleRun]
  /\ UNCHANGED <<alive, hbAge, handled, reopened, req>>

\* Deviation: a run committed in two parts, lost between them.
CheckFailsHalfway(c) ==
  /\ run[c] # IdleRun
  /\ status' = [s \in Servers |-> IF s \in run[c].mark THEN "offline" ELSE status[s]]
  /\ run' = [run EXCEPT ![c] = IdleRun]
  /\ UNCHANGED <<alive, hbAge, alerts, req>>

\* An exception or the loss of the worker drops everything the run computed;
\* task_acks_late delivers the task again, and the beat sends another anyway.
CheckFails(c) ==
  /\ run[c] # IdleRun
  /\ run' = [run EXCEPT ![c] = IdleRun]
  /\ UNCHANGED <<alive, hbAge, status, alerts, req>>

-----------------------------------------------------------------------------
(* update_alert_status, which assigns whatever status it is sent.  Its      *)
(* status column behaves as if the whole handler ran at its commit (or,     *)
(* where nothing changes, at its read), so the handler is one step here.    *)

\* Acknowledged, resolved, or anything else.  Of several reopened ones others
\* may remain.
OperatorHandlesAlert(s) ==
  /\ \/ /\ open[s] > 0
        /\ open' = [open EXCEPT ![s] = @ - 1]
        /\ UNCHANGED reopened
     \/ /\ reopened[s]
        /\ reopened' \in {reopened, [reopened EXCEPT ![s] = FALSE]}
        /\ UNCHANGED open
  /\ handled' = [handled EXCEPT ![s] = TRUE]
  /\ UNCHANGED <<alive, hbAge, status, req, run>>

\* Back to "open", which the pages do not offer and the API accepts.  The alert
\* may be one of several.
OperatorReopensAlert(s) ==
  /\ handled[s]
  /\ handled' \in {handled, [handled EXCEPT ![s] = FALSE]}
  /\ reopened' = [reopened EXCEPT ![s] = TRUE]
  /\ UNCHANGED <<alive, hbAge, status, open, req, run>>

-----------------------------------------------------------------------------
Work ==
  \/ \E s \in Servers :
       \/ AgentStops(s) \/ AgentRestarts(s)
       \/ OperatorHandlesAlert(s) \/ OperatorReopensAlert(s)
  \/ \E r \in Requests :
       \/ \E k \in RequestKind, s \in Servers : RequestReads(r, k, s)
       \/ RequestCommits(r)
       \/ RequestFails(r)
  \/ \E c \in Checkers :
       \/ CheckSelects(c)
       \/ \E s \in Servers : CheckExamines(c, s)
       \/ CheckCommits(c)
       \/ CheckFails(c)

Next == Tick \/ Work

Spec == Init /\ [][Next]_vars

(***************************************************************************)
(* Fairness.  Time passes; the beat starts a checker run every minute, a   *)
(* run goes on through its list and, since failures are not permanent,     *)
(* commits again and again; an agent that runs keeps sending heartbeats    *)
(* and the API commits one of them again and again.  Nothing obliges an    *)
(* agent to stop or an operator to act.                                    *)
(***************************************************************************)
HeartbeatCommits(s) ==
  \E r \in Requests :
    /\ req[r] # IdleRequest /\ req[r].kind = "heartbeat" /\ req[r].server = s
    /\ RequestCommits(r)

Fairness ==
  /\ WF_vars(Tick)
  /\ \A c \in Checkers :
       /\ WF_vars(CheckSelects(c))
       /\ SF_vars(CheckCommits(c))
       /\ SF_vars(\E s \in Servers : CheckExamines(c, s))
  /\ \A r \in Requests : SF_vars(RequestCommits(r))
  /\ \A s \in Servers :
       /\ SF_vars(\E r \in Requests : RequestReads(r, "heartbeat", s))
       /\ SF_vars(HeartbeatCommits(s))

FairSpec == Spec /\ Fairness

-----------------------------------------------------------------------------
(* A server is shown offline only if somebody was told: some agent_offline *)
(* alert was raised for it, since the checker commits both together.       *)
OfflineHasAlert ==
  \A s \in Servers : status[s] = "offline" => AlertOpen(s) \/ handled[s]

(* The existence check before the insert does not make the open alert of a *)
(* server unique, but it does bound the duplicates: the alerts that nobody *)
(* has touched never outnumber the runs that can overlap, however long the *)
(* outage, however many runs and whatever operators do with older alerts.  *)
(* (Those set back to "open" come on top: nothing bounds what operators do.)*)
UntouchedAlertsBounded ==
  \A s \in Servers : open[s] =< Cardinality(Checkers)

(* An agent that never stops and is never late is never shown offline and  *)
(* never causes an alert, whatever overlaps.                               *)
NoFalseAlarm ==
  \A s \in Steady :
    status[s] = "online" /\ ~AlertOpen(s) /\ ~handled[s]

(* An agent that stays silent is noticed: from some point on its server is *)
(* shown offline or an offline alert is open, unless operators go on for   *)
(* ever setting an old alert back to "open", which ends the iteration of a *)
(* run before it touches the status, and closing it again.  (Only agents   *)
(* of CrashProne stop.)                                                    *)
SilentAgentNoticed ==
  \A s \in CrashProne :
    <>[](~alive[s]) =>
      \/ <>[](status[s] = "offline" \/ AlertOpen(s))
      \/ []<><<OperatorReopensAlert(s)>>_vars

(* An agent that is back for good has its server shown online again and    *)
(* again, even if slow checker runs mark it offline in between.  (Of the   *)
(* servers that are not crash-prone NoFalseAlarm says more.)               *)
RunningAgentShownOnline ==
  \A s \in CrashProne : <>[]alive[s] => []<>(status[s] = "online")
=============================================================================
