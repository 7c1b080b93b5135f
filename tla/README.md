# InfraPulse AI in TLA+

Specifications of the InfraPulse AI monitoring platform: the backend that receives
heartbeats and metrics from Linux agents, decides which servers are online, raises
alerts and has them analysed by AI providers, mirrors Proxmox clusters, and keeps the
sessions and memberships of its users; the agent's main loop; and the browser's client.

## The system

Nginx forwards to FastAPI (uvicorn, four workers), which keeps everything in
PostgreSQL. A Celery worker (concurrency 4) runs the tasks that Celery beat sends:
polls of Proxmox clusters and heartbeat checks every minute, alert rules every 30
seconds, retention every hour. Linux agents and browsers talk to the API only.

What couples the parts is the database. Every API handler and every task run is *one
ORM session that reads, computes and commits later*, under READ COMMITTED. Nothing
takes an explicit lock and nothing is versioned. Four facts about such a session
decide most of the behaviour, and every module builds them into its actions:

1. between the read and the commit, any number of other sessions commit;
2. a row that a session has loaded is not read again by a second query;
3. an UPDATE names only the columns whose value differs from the *loaded* one, so
   that writing "the same" value writes nothing, whatever the row holds by now;
4. API sessions do not flush before queries (`autoflush=False`), those of the Celery
   tasks do: there a query can take a row lock as a side effect.

### Inventory

| Component | State | Operations | What is hard | What makes it correct |
|---|---|---|---|---|
| Agent API (`api/v1/agent.py`, `servers.py`) | servers, server_agents, registration tokens | register, heartbeat, metrics, logs, create token | overlapping requests of one host, slow commits, lost responses | one token registers once; a running agent's token is accepted; status follows heartbeats |
| Linux agent (`agent/`) | configuration file, process | install, register, save, loop, restart | time-outs and crashes between registering and saving | what a running agent holds is accepted; a spent token readmits nobody |
| Heartbeat checker (`workers/alert_processor.py`) | status, offline alerts | one run a minute | overlapping and failing runs, heartbeats in between | silent servers are noticed, live ones left alone |
| Alert rules (`alert_processor.py`, `alerts.py`) | rules, alerts | evaluate, create/switch/delete rule, acknowledge, resolve | cooldown checked long before the commit, rules deleted under a run | hot servers are alerted, at a bounded rate |
| Proxmox polling (`proxmox_poller.py`, `proxmox.py`) | connections, nodes, VMs | poll, sync by hand, manage connections | overlapping syncs, partial answers, failures after a flush | rows converge to the cluster, status to the truth |
| Sessions (`auth.py`) | refresh tokens, reset tokens, password | login, refresh, logout, forgot, reset | handlers overlapping a reset or logout | rotation is bounded; reset and logout end sessions |
| Login lockout (`auth.py`) | failed_login_attempts, locked_until | login | lost increments | guesses are bounded, nobody is locked early |
| Membership (`organizations.py`, `auth.py`, `dependencies.py`) | accounts, memberships, invitations | register, invite, accept, remove, change role | roles tested on stale copies | the founder stays, removed members stay out |
| Agent main loop (`agent/`) | timers of one thread | heartbeat, measure, push, sleep, restart | every post blocks the others; a heartbeat given up may still be served | a host that runs looks alive |
| Incidents (`incidents.py`) | incidents, links to alerts | create, update, link | updates of loaded copies overlap | resolved_at is stamped once per overlapping handler at most |
| AI analyses (`ai_ops.py`, `services/ai/`) | analyses, ai_analyzed, provider configuration | analyse alert, server, incident; configure | minutes between the reads and the commit | no mark without an analysis; what operators did meanwhile is kept |
| Browser client (`api-client.js`) | tokens in memory and in local storage | call, refresh on 401, login, logout | calls and tabs that share one refresh token | one refresh at a time; nobody is signed out for nothing; a logout ends the session |
| Notifications, retention, queries, users, encryption, demo data, deployment | rows | create, read, update, delete | – | – |

## Modules

| Module | Models | State | Actions |
|---|---|---|---|
| `ServerLiveness` | heartbeats against the checker, operators on the offline alerts | agent alive, age of the heartbeat, status, offline alerts untouched, handled and reopened, what each request and run has read | one per commit and per iteration of the checker's loop; an operator closes an alert or sets it back to open |
| `AgentRegistration` | agent process, its file, the endpoint | token and server rows, file, process, requests | token read, server read, commit; install, start, give up, the two halves of `save`, crash |
| `LimitedToken` | *abstract*: a token redeemed at most `Limit` times | token, uses | issue, expire, redeem |
| `Sessions` | refresh and reset tokens of one user | rows, password version, handlers in flight | two steps per handler; reset has three, with its bulk UPDATE and the row locks that holds |
| `LoginLockout` | the counter and lock of one account | the two columns, logins in flight | load, fail, succeed, abort, passing time |
| `AlertRules` | evaluation runs against operators | rules, hot pairs, alerts by age, runs | load rules, check cooldown, read metrics, commit, lose a run; operators' actions |
| `ProxmoxSync` | polls and syncs of connections | cluster, answers, connection and item rows, row lock, runs | start, collect, flush, commit, fail before or after the flush |
| `Membership` | one organization | accounts, memberships, invitations, requests | authorize, load, write; load invitation, look membership up, join |
| `AgentLoop` | the agent's one thread against the heartbeat endpoint, time in ticks | phase of the loop, time since each job, heartbeats being served | tick, look at the clock, heartbeat read/committed/given up, collect, push, sleep, crash, restart |
| `Analyses` | analyses, alert status, incidents, provider configuration | those rows, handlers in flight | load and commit of each handler, failure; creating an incident |
| `ApiClient` | tabs of one browser, composed with `Sessions` | pairs of tokens in memory and in storage, calls, refreshes | one per answer of the network: call, 401, refresh answered/refused/lost, login, logout, navigation, expiry |

`MC*` modules add symmetry, `*Proofs` modules hold theorems. A definition marked
"Deviation" is a plausible bug in the definition it stands beside: replacing the one
by the other makes TLC refute the property it is about.

Composition:

- `ApiClient` instantiates `Sessions` with a handler per call. Every login, refresh and
  logout of a tab is a handler of that module, with its two steps, and goes on when the
  tab has stopped waiting for it.
- `AgentLoop` instantiates `ServerLiveness` for one host: its heartbeats are requests of
  that module, and its property `KeepsHostSteady` is `ServerLiveness`' own `Spec` with
  `CrashProne` empty. There the guard `Punctual` of `Tick` assumes that the agent of a
  steady server is never late; here nothing stops time for the agent, and the refinement
  discharges the assumption: each tick of the loop must be a tick that `Punctual`
  permits. So `NoFalseAlarm` is about the agent as it is written. `AgentProofs` then puts
  the loop and the checker together, with nothing assumed of either (`MonitoredSpec`).
- `AgentRegistration` and `Sessions` each instantiate `LimitedToken`, for registration
  tokens and for password reset tokens.

The other modules share tables but not columns that another module's guards read: the
checker and the rules both insert alerts, of different kinds; `AlertRules` counts alerts
by age and `Analyses` follows the columns of one; a login touches the lock columns in
`LoginLockout` and inserts a refresh token in `Sessions`, and neither reads what the
other writes. They are checked apart for that reason.

## What the runs show

| Run | Instance | Shows |
|---|---|---|
| `liveness` | 2 servers (one crash-prone), 1 request, 2 checker runs, time-out 1 | an offline server always has an alert behind it; the open alerts that nobody has touched never outnumber overlapping runs (the look-up before the insert does not make them unique: two runs do insert two; those that operators set back to open come on top, without bound); a steady, punctual agent never causes an alarm; a silent agent is noticed for good, unless operators reopen and close old alerts for ever; a running one is shown online again and again, though a slow run may mark it offline in between |
| `registration` | 1 host, 2 tokens, 2 requests | server rows per hostname are bounded; a running agent loses its token only to a later registration; a token is spent at most once per overlapping request; a host left with a spent token, or with none, stays out until it is installed anew |
| `sessions` | 3 refresh tokens, 1 reset token, 2 handlers | rotation cannot fan out; the sessions that survive a reset or logout are exactly excused by an overlap; reset tokens are limited |
| `lockout` | 3 logins, 4 attempts, lockout 1 | lost increments allow fewer than C(MaxAttempts + R - 1, R) wrong guesses before a lock; no lock comes early |
| `alerts` | 1 rule, 2 servers, 2 runs, cooldown 1 | the alerts per server and rule that are younger than the cooldown and were never resolved never outnumber overlapping runs (those taken back from resolved come on top); a deleted rule is silent |
| `alerts_fair` | 1 rule, 2 servers, 1 run | a server that stays hot has an unresolved alert again and again although the cooldown belongs to the whole rule |
| `proxmox` | 1 connection, 1 item, 2 values, 1 poll, 1 sync | the implicit row lock keeps inserts apart; status and inventory settle after stale writes; a deactivated connection is left alone in the end |
| `membership` | 3 users (one platform admin), 2 invitations, 2 requests | the founder stays owner; removed members stay out |
| `analyses` | 1 alert, 1 incident, 1 server, 2 requests, 1 hosted and 1 local provider | `ai_analyzed` never without a completed analysis; an analysis that took minutes does not undo what operators did to its alert; stamps of `resolved_at` never outnumber overlapping handlers |
| `analyses_key` (violation) | same | "Configure via AI Operations → AI Config in the UI" (README.md:220): the page saves its key as `api_key` (and its URL as `base_url`), `_get_provider` looks for `groq_api_key`, `openai_api_key`, `ollama_url`; the analyses of an organization configured there fail |
| `client` | 2 tabs, 2 calls, 2 pairs of tokens | a tab runs two refreshes only after a late call has cleared the promise of a pending one; a refresh is refused only with a reason the client could not know; a logout that met no refresh leaves no live token |
| `agent` | the real intervals in ticks of 5 s, 2 requests, 1 loss in a row | heartbeats reach the database within 300 s whatever blocks the loop: the agent is the punctual one that `ServerLiveness` assumes |

Promises of the documents that the modules show to hold only up to an overlap, each
bounded by a property above and reproduced with a stronger invariant while modelling:

- "a one-time registration token" (`agent.py:44`) registers twice when the agent gives up
  after 15 s, is restarted and asks again while its first request is on its way:
  `ImplementsLimitedToken` bounds it by the requests in flight.
- "Revoke all refresh tokens" (`auth.py:346`): a login that checked the old password
  commits its token after the reset's UPDATE; `SessionsEndUnlessOverlapped` admits that
  and nothing else.
- "Cannot remove organization owner" (`organizations.py:124`): a request that loaded the
  member before its promotion removes the owner. The founder is safe (`FounderStays`).
- "invalidated on logout" (ARCHITECTURE.md:160): a logout whose access token has expired
  is refreshed on the way and repeated with the old body, so that the new refresh token
  stays live. `LogoutEndsSession` covers the logouts that met no refresh.

### Bounds, and why they are enough

Two sessions in flight is the smallest number with every pairwise interleaving of
reads and commits, and each race found here needs two. `liveness` pairs its one request
with two checker runs, since temporal properties forbid symmetry; that later requests
may overtake earlier ones there is covered by the theorems, which hold for any number,
and by `agent`, which has two. `lockout` has three because
its bound grows with them. Ages saturate one past the time-out (or at the cooldown):
the code compares an age with that one constant. `Timeout`, `Cooldown` and `Lockout`
of one tick are enough to put a tick between any two steps of a run, and the proofs
remove them where they exist. `FoundServer` and `ServerAmbiguous` split at two rows,
as `scalar_one_or_none` does. `Tokens`, `ResetTokens` and `Invites` bound what is
issued in one behaviour; runs over them set `CHECK_DEADLOCK FALSE` because a system
whose every token is issued and spent may really stop. `Values` has two elements, so
that an older inventory can be told from a newer one. Counters that grow
(`guesses`, `uses`, `minted`, `password`, `stamps`) are bounded by what the constants
allow, or by the property about them.

`agent` has the numbers of the code: heartbeats every 60 s (12 ticks), metrics every
30 s, a time-out of 300 s (`config.py`), posts of up to 30 s (15 s to connect, 15 s to
answer), `RestartSec=30`. Two are assumptions: the API finishes what it began within a
minute (`ServeTimeout`), and the agent suffers one failure in a row (`Losses`), counting
heartbeats without effect and crashes. The margin is no wider than that: with two
failures in a row the refinement is refuted when posts may take 30 s, and holds when
they take 15 s at most.

`client` needs two calls for a shared refresh and two tabs for a shared storage; with one
tab and three pairs of tokens, so that a refreshed token is refreshed again, the same
properties hold in 157,088 states. The instance with both has no end within minutes.
`Keys` of `Analyses` has the forms of a configuration: without a key, the page's, and the
one that the orchestrator reads.

### Fairness

Weak fairness where a step stays possible until taken: beat sends runs on a schedule
(`celery_app.py:23`), time passes, PostgreSQL grants a row lock when its holder commits.
Strong fairness on commits and on the steps of a run, because failures and lost workers
are neither excluded nor permanent: what is tried again and again succeeds again and
again. No fairness on operators, users, clusters and failures, nor on starting a login,
nor on starting an agent: `infrapulse-agent.service` gives up on one that was started
five times in 300 s (`StartLimitBurst`), and the unit that `install.sh` writes does not.
That a running agent is shown online has "the agent runs for good" for its premise, and
no liveness is claimed of registration. Where a property
needs more, it says so as a premise: `PollsLast` (from some time on no poll of the
beat is lost with its worker) and the quiet operators of `HotServerAlerted`,
`SilentAgentNoticed` and `DeactivatedLeftAlone`.

## What is proved

For every value of the constants, from the named assumptions of the modules only:
what the runs show of two servers, tokens or handlers holds for any number. The
assumptions are that the sets whose elements a bound counts are finite, that time-outs,
cooldowns and limits are natural numbers (and not 0, but for a cooldown), that the
marks for something absent (`NoToken`, `NoRule`, `None`, ...) are none of the things
themselves, and inclusions such as `Founder \in Users`.

Each proof module has the shape: types of the records in flight, `Init` and `Next`
keep the types, lemmas that say what a step does to the rows a property is about, the
inductive invariant with a step per action, the theorem. TLC has checked the
inductive invariants on the instances of the runs before. Every safety property that a
run checks is proved, and so is every refinement. A module of proofs may serve two
components of one source file (`AuthProofs`, `AgentProofs`); `LoginLockout` and
`AgentLoop` have names that can stand beside those of `Sessions` and
`AgentRegistration` for that.

- `ServerLivenessProofs`: `TypeOK`, `OfflineHasAlert`, `UntouchedAlertsBounded`,
  `NoFalseAlarm`. The first two need that every server a run is about to mark
  offline has an alert in the same run. The bound counts the untouched alerts of a server
  together with the runs that are about to insert one: a run passes the look-up only
  when no alert is open, and those ahead of it are among the overlapping runs. A reopened
  alert is not counted and only keeps runs from inserting more.
  `NoFalseAlarm` needs that no request in flight carries an age beyond the time-out
  for a steady server, since the last commit wins, however late.
- `AgentProofs`, on `AgentRegistration`: `TypeOK`, `RowsBounded`, `TokenLostOnlyToLater`,
  `StrandedUntilReinstalled`, `ImplementsLimitedToken`. Types need that a request which found a row finds it again at
  its commit (rows are never removed). `RowsBounded` counts the rows of a host
  together with the requests that saw none and will create one: they are all in flight at
  once. For lost tokens, `AcceptInv` says that no row accepts a token not minted yet and
  that whatever a file or a process holds is accepted by the rows of its host, or
  something later is, through crashes, half-written files and late answers. A stranded
  host stays so because spent tokens stay spent and rows are never removed
  (`SpentStays`), so that a request that is bound to be refused remains so
  (`DoomedStays`) and no registration answers the host's process (`StrandedProcess`).
  The refinement counts redemptions together with the requests past the check of the token.
- `AgentProofs`, on `AgentLoop`: `LoopTypeOK`, and
  `KeepsHostSteady`, the refinement of `ServerLiveness` by the agent's loop, under `Margin`:
  `ServeTimeout + Losses * Setback + Round + PostTimeout =< Timeout`, where `Round` is
  the longest time from one heartbeat's turn of the loop to the next one's,
  `max(HeartbeatInterval + PostTimeout + 1, 2 * PostTimeout + 2)`, and `Setback` what a
  failure costs, `max(Round, PostTimeout + RestartDelay)`. The invariant says how old
  the timestamp may be in each phase, given the failures since the last heartbeat that
  counted, and that the heartbeat is the first post of its turn. The instance of the run
  has the margin (56 of 60 ticks; `MCAgentLoop` has TLC evaluate it). In seconds, with `ServeTimeout` 60, it is
  60 + 91 + 91 + 30 = 272 of 300: one failure in a row is covered, and two are not.
- `AgentProofs`, on both together: `NeverCalledOffline`. In `KeepsHostSteady` the backend
  has no checker, and in `NoFalseAlarm` time waits for a steady server. `MonitoredSpec`
  joins the loop with all of `ServerLiveness` for a crash-prone host, where time waits
  for nobody: they take each step on the timestamp and the requests together, and any
  number of checker runs goes on between those. Under `Margin` no run ever finds the host
  stale, so that its status stays "online" and no alert is raised. `LoopNeverWaits`
  says that the joint steps leave out none of the loop's.
- `AuthProofs`, on `Sessions`: `TypeOK`, `RotationBounded`, `SessionsEndUnlessOverlapped`,
  `ResetTokensLimited`. Rotation counts trades together with the refreshes that have
  loaded the token while it was live; nobody joins them once it is revoked. That
  sessions end rests on `SessionInv`: a handler that no reset or logout has overtaken has
  read the current password or a token of a session that is to go on
  (`HandlersCurrent`); a reset that has revoked leaves no live token but excused ones
  (`ResetComplete`); so a live token that is not excused is of the current password and
  of no session logged out (`LiveCurrent`). Each needs the other two: the window is
  between the bulk UPDATE of a reset and its commit.
- `AuthProofs`, on `LoginLockout`: `LockTypeOK`; `LockNeedsFailures`, since neither the
  counter nor any loaded copy is ahead of the failures committed; and `GuessesBounded`.
  A wrong password that was checked with a copy of value v brings the counter to v + 1,
  up or *down*. Call the logins that hold no copy below w *ahead* of w, once the counter
  has reached w: the guess adds its login to those ahead of v + 1, takes nobody from those
  ahead of less, and may clear those ahead of more. `GuessInv` says that the guesses are
  a sum over the heights w of numbers f[k], k = MaxAttempts - w, where f[k] exceeds
  f[k - 1] by at most `Spread(m, k)`, m being the logins ahead of w. `Climb` shows that
  f[k] stays below `Spread(m + 1, k)`, so that the guess can be counted at its height and
  the lower ones start from 0, and, with all R logins, that the guesses stay below
  `Spread(R + 1, MaxAttempts - 1)`, which is C(MaxAttempts + R - 1, R). TLC has checked
  the sum on the instance of the run. `OneLoginAtATime` is the case R = 1: logins that do
  not overlap are locked out at the limit, as `login` intends.
  `choose` is defined by recursion in the community modules. What it computes is proved
  from the well-foundedness of the natural numbers: `SetInduction` is induction over a
  set, `FactorialDef` says that `factorial` satisfies its equation, `FactorialDivides`
  that the quotient is exact, and `ChooseFacts` has Pascal's rule.
- `AlertRulesProofs`: `TypeOK`, `DeletedRuleSilent`, `AlertRateBounded`. The bound is not
  inductive by itself: the invariant counts the young, never resolved alerts of a rule and
  server together with the runs that hold one, *or* have found the rule not to cool down
  and read the metrics next. A run joins them only while no young alert of its rule
  exists, and time only drops the oldest.
- `ProxmoxSyncProofs`: `TypeOK`, `NoDuplicateInsert`. Between its flush and its commit a
  run holds the lock of the connection's row, and at no other time does it know of an
  item without a row (`WritesLocked`); it is at one of the connections when it does
  (`AtConnection`). So what the autoflush locks by accident orders look-up and insert.
- `MembershipProofs`: `TypeOK`, `FounderStays`, `RemovedStaysOut`. Every copy of the
  founder's row that a request holds says "active owner" and no acceptance takes the
  founder for someone new; an acceptance inserts only where the unique constraint
  finds no row.
- `AnalysesProofs`: `TypeOK`, `AnalyzedHasAnalysis`, `AnalysisKeepsStatus`,
  `StampsBounded`. Each is inductive with the types. The last counts commits together
  with the handlers that have found `resolved_at` empty and will set it: none joins them
  once it is set, so that the sum never grows beyond the handlers that were in flight.
- `ApiClientProofs`: `TypeOK`, `OneRefreshUnlessLate`, `SignedOutForAReason`,
  `LogoutEndsSession`, and that every step of the client is a step of `Sessions` or
  leaves it alone, so that the theorems about `Sessions` hold with this client in front
  of it. All but the refinement rest on `ClientInv`: whoever waits does so for a pending
  refresh of its tab, and without a late call only the promised one is pending
  (`Shared`); a tab that logs in does nothing else, and a logout that met no refresh
  names the token its tab holds (`Apart`), is served with it (`LogoutsServed`) and
  leaves it revoked (`LeftRevoked`); a token on its way in an answer is live and known
  to nobody else (`Secret`); whatever a tab, the storage or a refresh holds is live,
  ended, unsure, or about to be replaced by an answer on its way (`Accounted`).

Only model-checked:

- liveness under fairness (`SilentAgentNoticed`, `RunningAgentShownOnline`,
  `HotServerAlerted`, `StatusSettles`, `InventorySettles`,
  `DeactivatedLeftAlone`): ENABLED and fairness are beyond the proof system. Each also
  needs a count of something that runs down under fairness (ticks, runs that hold an
  older copy, servers left to look at), which is an induction over a temporal formula;
- that the bound of `GuessesBounded` is reached: the run `lockout` is refuted when it is
  lowered by one.

## Abstractions and assumptions

- An expression that loads a related row (`server.agent` at `agent.py:93`, or
  `incident.alerts` where alerts are linked, `incidents.py:63,127`) may be the read it asks
  for or may be refused. As `database.py` configures the session, SQLAlchemy refuses a
  lazy load outside its own greenlet, and for `server.agent` it would do so for a new
  server as for a known one; `tests/test_servers.py:37` expects the registration to
  succeed. The modules have both outcomes (`RegisterFails`, `RequestFails`, or an incident
  that is not created), and claim no liveness of either.
- A status that the code does not name is one value: `update_incident` and
  `update_alert_status` assign any string they are sent.
- `select ... scalar_one_or_none` followed by statements on the same session with no
  other table in between is one step where the data cannot change in between.
- Threshold comparisons are a set of triggering pairs. The version, counts and metric
  rows of a Proxmox sync are left out. A resolved alert is only remembered as closed.
- `ARCHITECTURE.md:140` has a cleared condition resolve its alert. No code does so,
  and the modules do not either: only operators resolve alerts.
- The timeline of an incident is left out: resolving appends to the loaded list in place
  and assigns it to itself (`incidents.py:100`), which is no change and is not stored.
- In `ApiClient` the answer of a login that its tab has left is left out (nobody holds its
  token), and so is the expiry of refresh tokens after 30 days. JavaScript runs to the
  next `await` without interruption, so that one action follows one answer.
- In `AgentLoop` every step that blocks takes any number of ticks up to its limit, and
  the clock of the host only goes forward. The limit of a post is an assumption on the
  network: `urlopen` takes its time-out for each operation on the socket, and bounds
  neither the look-up of a name nor an answer that drips. An agent that systemd gives up
  on is outside the module, which bounds failures in a row by `Losses`. Log lines are never posted: `_tail_file` takes
  the end of a file for its position when it has none and stores none
  (`infrapulse_agent.py:388`), against "tail log files" of ARCHITECTURE.md:87.
- Roles below admin are one role; `platform_admin` as a membership role is no more
  than admin here.

## Not modelled

- Queries, dashboard, audit log, profile, demo data, schema migration, deployment: they
  read, overwrite one row, or run once. The unique constraints of the schema are guards.
- Encryption: cryptography. Metric retention: one delete by age per hour of rows no other
  component reads any more.
- Notifications: rows that nothing dispatches to but the test endpoint; of note, updating
  a channel stores its secrets in the plain `config` column and leaves `config_encrypted`
  as it was. Onboarding: a counter that overlapping requests advance once instead of
  twice, and nothing depends on.
- Log tail and ingestion: the tail has no lines, and what the endpoint would insert only
  queries read back. So the agent's API is modelled in part.
- The metrics themselves: a rule compares with a threshold, which is a set of triggering
  pairs here. `load_high` looks for `load_avg_1m` and the agent sends `load_average_1m`
  (`infrapulse_agent.py:252`), so that such a rule never has a pair.
- The connection pool (`database.py:8`): a handler keeps its connection while a provider
  thinks, and enough analyses starve the heartbeats; it is SQLAlchemy's and counts the
  connections of every handler, of which each module has its own.
- A clock set back on the host of an agent; the poll of a second connection after a
  commit in the error handler has failed (`proxmox_poller.py:148`), which the round a
  minute later makes good.

## Plan

All modules of the plan are written, and the safety properties and the refinements of
the runs are proved. What could be added: joins like `MonitoredSpec` of the other pairs of
modules that share a table (the checker, the rules and the analyses insert and update
rows of one table of alerts, the logins of `Sessions` and of `LoginLockout` are the same
handlers). They share no column that a guard of the other reads, so that such a join
has nothing to assume of either.
