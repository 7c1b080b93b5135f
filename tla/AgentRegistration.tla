-------------------------- MODULE AgentRegistration -------------------------
(***************************************************************************)
(* Registration of Linux agents: the agent process and its configuration   *)
(* file (agent/infrapulse_agent.py), the registration endpoint             *)
(* (api/v1/agent.py), and the tokens an operator creates (servers.py).     *)
(*                                                                         *)
(* The endpoint reads the token, reads the server row, and commits: three  *)
(* steps other requests may come between.  The agent gives up after 15 s,  *)
(* while the API goes on with its request; systemd starts the agent again, *)
(* unless it has started it too often of late, and then nobody does.       *)
(***************************************************************************)
EXTENDS Naturals, Sequences, FiniteSets

CONSTANTS
  Hosts,     \* monitored hosts; each has its own hostname
  Tokens,    \* registration tokens an operator may create
  Requests,  \* /agent/register requests that may be in flight at once
  NoToken

ASSUME NoTokenAssumption == NoToken \notin Tokens
ASSUME RequestsAssumption == IsFiniteSet(Requests)

VARIABLES
  token,  \* token[t]: the agent_registration_tokens row
  uses,   \* uses[t]: how many registrations were committed with t
  minted, \* agent tokens handed out so far; the last one is number minted
  rows,   \* rows[h]: the servers rows with hostname h, each given by the
          \* agent token its server_agents row accepts
  conf,   \* conf[h]: the agent's configuration file
  proc,   \* proc[h]: the agent process
  req     \* req[q]: what in-flight registration q has read

vars == <<token, uses, minted, rows, conf, proc, req>>

-----------------------------------------------------------------------------
TokenState == {"absent", "unused", "used", "expired"}
AgentToken == Nat                 \* 0: none
EmptyConf == [reg |-> NoToken, agent |-> 0]
Down == [phase |-> "down", mem |-> 0]

\* Only a process that was given an agent token, or found one, goes on.
Process ==
  [phase : {"down", "waiting"}, mem : {0}] \cup
  [phase : {"saving", "truncated", "running"}, mem : AgentToken \ {0}]

IdleRequest == [phase |-> "idle"]
ActiveRequest ==
  [phase : {"received", "token", "ready"}, host : Hosts, tok : Tokens,
   create : BOOLEAN,   \* no server row was found: a new one is pending
   client : BOOLEAN]   \* the agent still waits for the response

TypeOK ==
  /\ token \in [Tokens -> TokenState]
  /\ uses \in [Tokens -> Nat]
  /\ minted \in Nat
  /\ rows \in [Hosts -> Seq(AgentToken)]
  /\ conf \in [Hosts -> [reg : Tokens \cup {NoToken}, agent : AgentToken]]
  /\ proc \in [Hosts -> Process]
  /\ req \in [Requests -> ActiveRequest \cup {IdleRequest}]

Init ==
  /\ token = [t \in Tokens |-> "absent"]
  /\ uses = [t \in Tokens |-> 0]
  /\ minted = 0
  /\ rows = [h \in Hosts |-> <<>>]
  /\ conf = [h \in Hosts |-> EmptyConf]
  /\ proc = [h \in Hosts |-> Down]
  /\ req = [q \in Requests |-> IdleRequest]

-----------------------------------------------------------------------------
(* The operator.                                                           *)

CreateToken(t) ==
  /\ token[t] = "absent"
  /\ token' = [token EXCEPT ![t] = "unused"]
  /\ UNCHANGED <<uses, minted, rows, conf, proc, req>>

\* 24 hours later.
ExpireToken(t) ==
  /\ token[t] = "unused"
  /\ token' = [token EXCEPT ![t] = "expired"]
  /\ UNCHANGED <<uses, minted, rows, conf, proc, req>>

\* install.sh writes a fresh configuration with the token it was given, over
\* the one of an agent that may be running.
Install(h, t) ==
  /\ token[t] # "absent"
  /\ conf' = [conf EXCEPT ![h] = [reg |-> t, agent |-> 0]]
  /\ UNCHANGED <<token, uses, minted, rows, proc, req>>

-----------------------------------------------------------------------------
(* The endpoint.                                                           *)

\* The agent whose request ends without a token exits, if it still waits.
Unanswered(q) ==
  /\ req' = [req EXCEPT ![q] = IdleRequest]
  /\ proc' = IF req[q].client THEN [proc EXCEPT ![req[q].host] = Down] ELSE proc
  /\ UNCHANGED <<token, uses, minted, rows, conf>>

AcceptToken(q, ok) ==
  /\ req[q] # IdleRequest /\ req[q].phase = "received"
  /\ ok
  /\ req' = [req EXCEPT ![q] =
               [phase |-> "token", host |-> @.host, tok |-> @.tok,
                create |-> FALSE, client |-> @.client]]
  /\ UNCHANGED <<token, uses, minted, rows, conf, proc>>

\* Deviations: the look-up does not ask for is_used = false; nor for expires_at.
ReadTokenUnfiltered(q) == AcceptToken(q, token[req[q].tok] # "expired")
ReadTokenExpired(q) == AcceptToken(q, token[req[q].tok] # "used")

ReadToken(q) == AcceptToken(q, token[req[q].tok] = "unused")

RefuseToken(q) ==
  /\ req[q] # IdleRequest /\ req[q].phase = "received"
  /\ token[req[q].tok] # "unused"
  /\ Unanswered(q)

FoundServer(q, create) ==
  /\ req[q] # IdleRequest /\ req[q].phase = "token"
  /\ Len(rows[req[q].host]) < 2
  /\ req' = [req EXCEPT ![q] =
               [phase |-> "ready", host |-> @.host, tok |-> @.tok,
                create |-> create, client |-> @.client]]
  /\ UNCHANGED <<token, uses, minted, rows, conf, proc>>

\* Deviation: a server row for every registration.
ReadServerAlwaysNew(q) == FoundServer(q, TRUE)

ReadServer(q) == FoundServer(q, rows[req[q].host] = <<>>)

\* scalar_one_or_none raises MultipleResultsFound: the hostname is stuck.
ServerAmbiguous(q) ==
  /\ req[q] # IdleRequest /\ req[q].phase = "token"
  /\ Len(rows[req[q].host]) >= 2
  /\ Unanswered(q)

\* The server row (new or the one loaded), its agent row with a fresh token,
\* and the registration token are written in one transaction; the response
\* carries the agent token to whoever still waits for it.
RegisterWith(q, hash) ==
  LET h == req[q].host IN
    /\ req[q] # IdleRequest /\ req[q].phase = "ready"
    /\ minted' = minted + 1
    /\ rows' = [rows EXCEPT ![h] =
                  IF req[q].create THEN Append(@, minted + 1)
                  ELSE [@ EXCEPT ![1] = hash]]
    /\ token' = [token EXCEPT ![req[q].tok] = "used"]
    /\ uses' = [uses EXCEPT ![req[q].tok] = @ + 1]
    /\ req' = [req EXCEPT ![q] = IdleRequest]
    /\ proc' = IF req[q].client
               THEN [proc EXCEPT ![h] = [phase |-> "saving", mem |-> minted + 1]]
               ELSE proc
    /\ UNCHANGED conf

\* Deviation: the agent row of a known server keeps its old hash.
RegisterKeepsHash(q) == RegisterWith(q, rows[req[q].host][1])

Register(q) == RegisterWith(q, minted + 1)

\* The API process or the database fails before the commit, or the session
\* refuses the lazy load of server.agent: rolled back.
RegisterFails(q) ==
  /\ req[q] # IdleRequest
  /\ Unanswered(q)

-----------------------------------------------------------------------------
(* The agent.                                                              *)

\* systemd starts it; with only a registration token it registers first.
Start(h, q) ==
  /\ proc[h] = Down
  /\ conf[h].agent = 0 /\ conf[h].reg # NoToken
  /\ req[q] = IdleRequest
  /\ req' = [req EXCEPT ![q] =
               [phase |-> "received", host |-> h, tok |-> conf[h].reg,
                create |-> FALSE, client |-> TRUE]]
  /\ proc' = [proc EXCEPT ![h] = [phase |-> "waiting", mem |-> 0]]
  /\ UNCHANGED <<token, uses, minted, rows, conf>>

ResumeIf(h, found) ==
  /\ proc[h] = Down
  /\ found
  /\ proc' = [proc EXCEPT ![h] = [phase |-> "running", mem |-> conf[h].agent]]
  /\ UNCHANGED <<token, uses, minted, rows, conf, req>>

\* Deviation: the loop begins with whatever the file has.
ResumeWithoutToken(h) == ResumeIf(h, TRUE)

Resume(h) == ResumeIf(h, conf[h].agent # 0)

\* A timeout or a lost connection: "Could not register with server. Exiting."
\* The API does not notice and goes on with the request.
GiveUp(h, q) ==
  /\ proc[h].phase = "waiting"
  /\ req[q] # IdleRequest /\ req[q].host = h /\ req[q].client
  /\ proc' = [proc EXCEPT ![h] = Down]
  /\ req' = [req EXCEPT ![q] =
               [phase |-> @.phase, host |-> h, tok |-> @.tok,
                create |-> @.create, client |-> FALSE]]
  /\ UNCHANGED <<token, uses, minted, rows, conf>>

\* open(path, "w") empties the file; what save writes has no registration_token.
SaveOpens(h) ==
  /\ proc[h].phase = "saving"
  /\ proc' = [proc EXCEPT ![h] = [phase |-> "truncated", mem |-> @.mem]]
  /\ conf' = [conf EXCEPT ![h] = EmptyConf]
  /\ UNCHANGED <<token, uses, minted, rows, req>>

SaveWrites(h) ==
  /\ proc[h].phase = "truncated"
  /\ proc' = [proc EXCEPT ![h] = [phase |-> "running", mem |-> @.mem]]
  /\ conf' = [conf EXCEPT ![h] = [reg |-> NoToken, agent |-> proc[h].mem]]
  /\ UNCHANGED <<token, uses, minted, rows, req>>

Crash(h) ==
  /\ proc[h].phase \in {"saving", "truncated", "running"}
  /\ proc' = [proc EXCEPT ![h] = Down]
  /\ UNCHANGED <<token, uses, minted, rows, conf, req>>

-----------------------------------------------------------------------------
Next ==
  \/ \E t \in Tokens : CreateToken(t) \/ ExpireToken(t)
  \/ \E h \in Hosts :
       \/ \E t \in Tokens : Install(h, t)
       \/ \E q \in Requests : Start(h, q) \/ GiveUp(h, q)
       \/ Resume(h) \/ SaveOpens(h) \/ SaveWrites(h) \/ Crash(h)
  \/ \E q \in Requests :
       \/ ReadToken(q) \/ RefuseToken(q)
       \/ ReadServer(q) \/ ServerAmbiguous(q)
       \/ Register(q) \/ RegisterFails(q)

Spec == Init /\ [][Next]_vars

-----------------------------------------------------------------------------
(* What the check of is_used achieves for "a one-time registration token": *)
(* a token is issued once, refused once used or expired, and registers at  *)
(* most once per request that can be in flight.                            *)
Limited == INSTANCE LimitedToken WITH Limit <- Cardinality(Requests)
ImplementsLimitedToken == Limited!Spec

(* A second row for a hostname stops every later registration of it, so    *)
(* rows never outnumber the requests that can be in flight together.       *)
RowsBounded ==
  \A h \in Hosts : Len(rows[h]) =< Cardinality(Requests)

(* The database accepts the token a running agent sends, unless a later    *)
(* registration of the same host replaced it.                              *)
TokenLostOnlyToLater ==
  \A h \in Hosts : proc[h].phase = "running" =>
    \E i \in DOMAIN rows[h] : rows[h][i] >= proc[h].mem

(* A request that is bound to be refused.                                  *)
Spent(t) == token[t] \in {"used", "expired"}
Doomed(q) ==
  \/ req[q].phase = "received" /\ Spent(req[q].tok)
  \/ req[q].phase # "ready" /\ Len(rows[req[q].host]) >= 2

(* A host whose agent does not run and has no token of its own to run with, *)
(* whose registration token is gone or spent (or whose hostname is stuck),  *)
(* and which waits for nothing but a refusal: a registration was committed  *)
(* that it had given up, or a crash caught the file between its two halves. *)
Stranded(h) ==
  /\ proc[h].phase \in {"down", "waiting"}
  /\ conf[h].agent = 0
  /\ \/ conf[h].reg = NoToken
     \/ Spent(conf[h].reg)
     \/ Len(rows[h]) >= 2
  /\ \A q \in Requests :
       req[q] # IdleRequest /\ req[q].host = h /\ req[q].client => Doomed(q)

(* A spent token lets nobody in, however often systemd starts the agent and *)
(* whatever the requests it gave up still do: a host that is stranded stays *)
(* so until somebody installs it anew.                                      *)
StrandedUntilReinstalled ==
  [][\A h \in Hosts : Stranded(h) => Stranded(h)' \/ conf'[h] # conf[h]]_vars
=============================================================================
