---------------------------- MODULE AgentProofs -----------------------------
(***************************************************************************)
(* Proofs about the Linux agent: AgentRegistration, for any hosts and       *)
(* registration tokens and any finite number of requests in flight, and     *)
(* AgentLoop, for any intervals and limits.                                 *)
(***************************************************************************)
EXTENDS AgentRegistration, AgentLoop, Integers, FiniteSetTheorems, SequenceTheorems,
        TLAPS

InFlight(q) == req[q] # IdleRequest

LEMMA RequestTypes ==
  ASSUME TypeOK, NEW q \in Requests, InFlight(q)
  PROVE  /\ req[q] \in ActiveRequest
         /\ req[q].host \in Hosts /\ req[q].tok \in Tokens
         /\ req[q].create \in BOOLEAN /\ req[q].client \in BOOLEAN
         /\ req[q].phase \in {"received", "token", "ready"}
BY DEF TypeOK, InFlight, ActiveRequest

(* A request that goes on as something else is never taken for an idle one. *)
LEMMA ActiveInFlight == \A r \in ActiveRequest : r # IdleRequest
BY DEF ActiveRequest, IdleRequest

LEMMA UnansweredTypes ==
  ASSUME TypeOK, NEW q \in Requests, InFlight(q), Unanswered(q)
  PROVE  TypeOK'
<1>1. req' \in [Requests -> ActiveRequest \cup {IdleRequest}]
  BY DEF Unanswered, TypeOK
<1>2. Down \in Process
  BY DEF Down, Process
<1>3. proc' \in [Hosts -> Process]
  BY <1>2 DEF Unanswered, TypeOK
<1>4. QED BY <1>1, <1>3 DEF Unanswered, TypeOK

(* A server that was found has a row by the time the request commits.      *)
FoundServerRows ==
  \A q \in Requests :
    InFlight(q) /\ req[q].phase = "ready" /\ ~req[q].create
      => Len(rows[req[q].host]) >= 1

LEMMA RegisterTypes ==
  ASSUME TypeOK, FoundServerRows, NEW q \in Requests, Register(q)
  PROVE  /\ TypeOK'
         /\ \A h \in Hosts :
              Len(rows'[h]) = IF h = req[q].host /\ req[q].create
                                THEN Len(rows[h]) + 1 ELSE Len(rows[h])
         /\ LET s == rows[req[q].host]
                s2 == rows'[req[q].host]
                i == IF req[q].create THEN Len(s) + 1 ELSE 1 IN
              /\ i \in DOMAIN s2 /\ s2[i] = minted + 1
              /\ DOMAIN s2 = DOMAIN s \cup {i}
              /\ \A j \in DOMAIN s : j # i => s2[j] = s[j]
<1> DEFINE h == req[q].host
           s == rows[h]
           s2 == rows'[h]
           i == IF req[q].create THEN Len(s) + 1 ELSE 1
<1>1. InFlight(q) /\ h \in Hosts /\ req[q].tok \in Tokens /\ req[q].phase = "ready"
  BY RequestTypes DEF Register, RegisterWith, InFlight
<1>2. s \in Seq(Nat) /\ minted + 1 \in Nat /\ Len(s) \in Nat /\ DOMAIN s = 1 .. Len(s)
  BY <1>1 DEF TypeOK, AgentToken
<1>3. /\ \A g \in Hosts : g # h => rows'[g] = rows[g]
      /\ s2 = IF req[q].create THEN Append(s, minted + 1)
                              ELSE [s EXCEPT ![1] = minted + 1]
  BY <1>1 DEF Register, RegisterWith, TypeOK
<1> HIDE DEF s, s2
<1>4. /\ s2 \in Seq(Nat)
      /\ Len(s2) = IF req[q].create THEN Len(s) + 1 ELSE Len(s)
      /\ i \in DOMAIN s2 /\ s2[i] = minted + 1
      /\ DOMAIN s2 = DOMAIN s \cup {i}
      /\ \A j \in DOMAIN s : j # i => s2[j] = s[j]
  <2>1. CASE req[q].create
    BY <1>2, <1>3, <2>1, AppendProperties
  <2>2. CASE ~req[q].create
    <3>1. 1 \in 1 .. Len(s)
      BY <1>1, <1>2, <2>2 DEF FoundServerRows, s
    <3>2. s2 = [s EXCEPT ![1] = minted + 1]
      BY <1>3, <2>2
    <3>3. /\ s2 \in Seq(Nat) /\ Len(s2) = Len(s)
          /\ \A j \in 1 .. Len(s) : s2[j] = IF j = 1 THEN minted + 1 ELSE s[j]
      BY <1>2, <3>1, <3>2, ExceptSeq
    <3>4. DOMAIN s2 = 1 .. Len(s) /\ DOMAIN s = DOMAIN s2 \cup {1} /\ 1 \in DOMAIN s2
      BY <1>2, <3>1, <3>3, LenProperties
    <3>5. i = 1
      BY <2>2
    <3> HIDE DEF i
    <3>6. s2[i] = minted + 1 /\ \A j \in DOMAIN s : j # i => s2[j] = s[j]
      BY <1>2, <3>1, <3>3, <3>5
    <3>7. QED BY <2>2, <3>3, <3>4, <3>5, <3>6
  <2>3. QED BY <2>1, <2>2
<1>5. rows' \in [Hosts -> Seq(AgentToken)]
  <2>1. rows' = [rows EXCEPT ![h] = s2]
    BY <1>1 DEF Register, RegisterWith, TypeOK, s2
  <2>2. QED BY <1>4, <2>1 DEF TypeOK, AgentToken
<1>6. token' \in [Tokens -> TokenState] /\ uses' \in [Tokens -> Nat]
  BY <1>1 DEF Register, RegisterWith, TypeOK, TokenState
<1>7. req' \in [Requests -> ActiveRequest \cup {IdleRequest}]
  BY DEF Register, RegisterWith, TypeOK
<1>8. proc' \in [Hosts -> Process]
  <2>1. minted \in Nat
    BY DEF TypeOK
  <2>2. [phase |-> "saving", mem |-> minted + 1] \in Process
    BY <2>1 DEF Process, AgentToken
  <2>3. \/ proc' = proc
        \/ proc' = [proc EXCEPT ![h] = [phase |-> "saving", mem |-> minted + 1]]
    BY DEF Register, RegisterWith
  <2>4. QED BY <1>1, <2>2, <2>3 DEF TypeOK
<1>9. TypeOK'
  BY <1>2, <1>5, <1>6, <1>7, <1>8 DEF Register, RegisterWith, TypeOK
<1>10. \A g \in Hosts :
         Len(rows'[g]) = IF g = h /\ req[q].create THEN Len(rows[g]) + 1 ELSE Len(rows[g])
  BY <1>3, <1>4 DEF s, s2
<1>11. QED BY <1>4, <1>9, <1>10 DEF s, s2

-----------------------------------------------------------------------------
(* Where a request in flight comes from: it was started, or it goes on,      *)
(* perhaps past one of its two reads.                                       *)
LEMMA RequestStep ==
  ASSUME TypeOK, [Next]_vars, NEW p \in Requests, InFlight(p)'
  PROVE  \/ /\ InFlight(p)
            /\ req'[p].host = req[p].host /\ req'[p].tok = req[p].tok
            /\ \/ req'[p].phase = req[p].phase /\ req'[p].create = req[p].create
               \/ ReadToken(p) /\ req'[p].phase = "token"
               \/ /\ ReadServer(p) /\ req'[p].phase = "ready"
                  /\ req'[p].create = (rows[req[p].host] = <<>>)
         \/ \E h \in Hosts :
              /\ Start(h, p) /\ req'[p].phase = "received"
              /\ req'[p].host = h /\ req'[p].tok = conf[h].reg
<1> USE DEF InFlight
<1>1. CASE req'[p] = req[p]
  BY <1>1
<1>2. ASSUME NEW q \in Requests, Unanswered(q)
      PROVE  req'[p] \in {req[p], IdleRequest}
  BY <1>2 DEF Unanswered, TypeOK
<1>3. ASSUME NEW q \in Requests, Register(q)
      PROVE  req'[p] \in {req[p], IdleRequest}
  BY <1>3 DEF Register, RegisterWith, TypeOK
<1>4. ASSUME NEW q \in Requests, RefuseToken(q) \/ ServerAmbiguous(q) \/ RegisterFails(q)
      PROVE  req'[p] \in {req[p], IdleRequest}
  BY <1>2, <1>4 DEF RefuseToken, ServerAmbiguous, RegisterFails
<1>5. ASSUME NEW q \in Requests, ReadToken(q)
      PROVE  req'[p] = req[p]
               \/ /\ p = q /\ InFlight(p) /\ req'[p].phase = "token"
                  /\ req'[p].host = req[p].host /\ req'[p].tok = req[p].tok
  BY <1>5 DEF ReadToken, AcceptToken, TypeOK
<1>6. ASSUME NEW q \in Requests, ReadServer(q)
      PROVE  req'[p] = req[p]
               \/ /\ p = q /\ InFlight(p) /\ req'[p].phase = "ready"
                  /\ req'[p].create = (rows[req[p].host] = <<>>)
                  /\ req'[p].host = req[p].host /\ req'[p].tok = req[p].tok
  BY <1>6 DEF ReadServer, FoundServer, TypeOK
<1>7. ASSUME NEW h \in Hosts, NEW q \in Requests, Start(h, q)
      PROVE  req'[p] = req[p]
               \/ /\ p = q /\ req'[p].phase = "received"
                  /\ req'[p].host = h /\ req'[p].tok = conf[h].reg
  BY <1>7 DEF Start, TypeOK
<1>8. ASSUME NEW h \in Hosts, NEW q \in Requests, GiveUp(h, q)
      PROVE  req'[p] = req[p]
               \/ /\ InFlight(p) /\ req'[p].phase = req[p].phase
                  /\ req'[p].create = req[p].create
                  /\ req'[p].host = req[p].host /\ req'[p].tok = req[p].tok
  BY <1>8 DEF GiveUp, TypeOK
<1>9. ASSUME NEW h \in Hosts,
             \/ \E t \in Tokens : Install(h, t)
             \/ Resume(h) \/ SaveOpens(h) \/ SaveWrites(h) \/ Crash(h)
      PROVE  req' = req
  BY <1>9 DEF Install, Resume, ResumeIf, SaveOpens, SaveWrites, Crash
<1>10. ASSUME NEW t \in Tokens, CreateToken(t) \/ ExpireToken(t)
       PROVE  req' = req
  BY <1>10 DEF CreateToken, ExpireToken
<1>11. CASE UNCHANGED vars
  BY <1>1, <1>11 DEF vars
<1>12. CASE \E q \in Requests : \/ RefuseToken(q) \/ ServerAmbiguous(q)
                               \/ RegisterFails(q) \/ Register(q)
  BY <1>1, <1>3, <1>4, <1>12
<1>13. CASE \E q \in Requests : ReadToken(q) \/ ReadServer(q)
  BY <1>1, <1>5, <1>6, <1>13
<1>14. CASE \E h \in Hosts, q \in Requests : Start(h, q)
  BY <1>1, <1>7, <1>14
<1>15. CASE \E h \in Hosts, q \in Requests : GiveUp(h, q)
  BY <1>1, <1>8, <1>15
<1>16. QED
  BY <1>1, <1>9, <1>10, <1>11, <1>12, <1>13, <1>14, <1>15 DEF Next

-----------------------------------------------------------------------------
LEMMA RowsKept ==
  ASSUME TypeOK, FoundServerRows, [Next]_vars, NEW h \in Hosts
  PROVE  \/ rows'[h] = rows[h]
         \/ \E q \in Requests : Register(q) /\ req[q].host = h
<1>1. ASSUME NEW q \in Requests, Register(q)
      PROVE  rows'[h] = rows[h] \/ req[q].host = h
  BY <1>1 DEF Register, RegisterWith, TypeOK
<1>2. ASSUME NEW q \in Requests,
             \/ ReadToken(q) \/ RefuseToken(q) \/ ReadServer(q) \/ ServerAmbiguous(q)
             \/ RegisterFails(q)
      PROVE  rows' = rows
  BY <1>2 DEF ReadToken, AcceptToken, RefuseToken, ReadServer, FoundServer,
              ServerAmbiguous, RegisterFails, Unanswered
<1>3. ASSUME NEW g \in Hosts,
             \/ \E t \in Tokens : Install(g, t)
             \/ \E q \in Requests : Start(g, q) \/ GiveUp(g, q)
             \/ Resume(g) \/ SaveOpens(g) \/ SaveWrites(g) \/ Crash(g)
      PROVE  rows' = rows
  BY <1>3 DEF Install, Start, GiveUp, Resume, ResumeIf, SaveOpens, SaveWrites, Crash
<1>4. ASSUME NEW t \in Tokens, CreateToken(t) \/ ExpireToken(t)
      PROVE  rows' = rows
  BY <1>4 DEF CreateToken, ExpireToken
<1>5. CASE UNCHANGED vars
  BY <1>5 DEF vars
<1>6. QED BY <1>1, <1>2, <1>3, <1>4, <1>5 DEF Next

LEMMA TypeStep ==
  ASSUME TypeOK, FoundServerRows, [Next]_vars
  PROVE  TypeOK' /\ FoundServerRows'
<1>1. ASSUME NEW t \in Tokens, CreateToken(t) \/ ExpireToken(t)
      PROVE  TypeOK'
  BY <1>1 DEF CreateToken, ExpireToken, TypeOK, TokenState
<1>2. ASSUME NEW h \in Hosts, NEW t \in Tokens, Install(h, t)
      PROVE  TypeOK'
  BY <1>2 DEF Install, TypeOK, AgentToken
<1>3. ASSUME NEW h \in Hosts, NEW q \in Requests, Start(h, q)
      PROVE  TypeOK'
  <2>1. [phase |-> "received", host |-> h, tok |-> conf[h].reg,
         create |-> FALSE, client |-> TRUE] \in ActiveRequest
    BY <1>3 DEF Start, TypeOK, ActiveRequest
  <2>2. req' \in [Requests -> ActiveRequest \cup {IdleRequest}]
    BY <1>3, <2>1 DEF Start, TypeOK
  <2>3. proc' \in [Hosts -> Process]
    BY <1>3 DEF Start, TypeOK, Process
  <2>4. QED BY <1>3, <2>2, <2>3 DEF Start, TypeOK
<1>4. ASSUME NEW h \in Hosts, NEW q \in Requests, GiveUp(h, q)
      PROVE  TypeOK'
  <2>1. InFlight(q)
    BY <1>4 DEF GiveUp, InFlight
  <2>2. [phase |-> req[q].phase, host |-> h, tok |-> req[q].tok,
         create |-> req[q].create, client |-> FALSE] \in ActiveRequest
    BY <2>1, RequestTypes DEF ActiveRequest
  <2>3. req' \in [Requests -> ActiveRequest \cup {IdleRequest}]
    BY <1>4, <2>2 DEF GiveUp, TypeOK
  <2>4. proc' \in [Hosts -> Process]
    BY <1>4 DEF GiveUp, Down, TypeOK, Process
  <2>5. QED BY <1>4, <2>3, <2>4 DEF GiveUp, TypeOK
<1>5. ASSUME NEW h \in Hosts, Resume(h) \/ SaveOpens(h) \/ SaveWrites(h) \/ Crash(h)
      PROVE  TypeOK'
  <2>1. proc[h].mem \in Nat /\ conf[h].agent \in Nat
    BY DEF TypeOK, Process, AgentToken
  <2>2. \E r \in Process : proc' = [proc EXCEPT ![h] = r]
    <3>1. \A m \in Nat \ {0} : /\ [phase |-> "running", mem |-> m] \in Process
                             /\ [phase |-> "truncated", mem |-> m] \in Process
      BY DEF Process, AgentToken
    <3>2. Down \in Process
      BY DEF Down, Process
    <3>3. proc[h].phase \in {"saving", "truncated"} => proc[h].mem # 0
      BY DEF TypeOK, Process
    <3>4. QED BY <1>5, <2>1, <3>1, <3>2, <3>3 DEF Resume, ResumeIf, SaveOpens, SaveWrites, Crash
  <2>3. proc' \in [Hosts -> Process]
    BY <2>2 DEF TypeOK
  <2>4. \/ conf' = conf
        \/ \E m \in Nat : conf' = [conf EXCEPT ![h] = [reg |-> NoToken, agent |-> m]]
    BY <1>5, <2>1 DEF Resume, ResumeIf, SaveOpens, SaveWrites, Crash, EmptyConf
  <2>5. conf' \in [Hosts -> [reg : Tokens \cup {NoToken}, agent : AgentToken]]
    <3>1. \A m \in Nat : [reg |-> NoToken, agent |-> m]
                         \in [reg : Tokens \cup {NoToken}, agent : AgentToken]
      BY DEF AgentToken
    <3>2. ASSUME NEW m \in Nat, conf' = [conf EXCEPT ![h] = [reg |-> NoToken, agent |-> m]]
          PROVE  conf' \in [Hosts -> [reg : Tokens \cup {NoToken}, agent : AgentToken]]
      BY <3>1, <3>2 DEF TypeOK
    <3>3. QED BY <2>4, <3>2 DEF TypeOK
  <2>6. QED BY <1>5, <2>3, <2>5 DEF Resume, ResumeIf, SaveOpens, SaveWrites, Crash, TypeOK
<1>6. ASSUME NEW q \in Requests, ReadToken(q)
      PROVE  TypeOK'
  <2>1. [phase |-> "token", host |-> req[q].host, tok |-> req[q].tok,
         create |-> FALSE, client |-> req[q].client] \in ActiveRequest
    BY <1>6, RequestTypes DEF ReadToken, AcceptToken, InFlight, ActiveRequest
  <2>2. QED BY <1>6, <2>1 DEF ReadToken, AcceptToken, TypeOK
<1>7. ASSUME NEW q \in Requests, ReadServer(q)
      PROVE  TypeOK'
  <2>1. [phase |-> "ready", host |-> req[q].host, tok |-> req[q].tok,
         create |-> rows[req[q].host] = <<>>, client |-> req[q].client] \in ActiveRequest
    BY <1>7, RequestTypes DEF ReadServer, FoundServer, InFlight, ActiveRequest
  <2>2. QED BY <1>7, <2>1 DEF ReadServer, FoundServer, TypeOK
<1>8. ASSUME NEW q \in Requests, RefuseToken(q) \/ ServerAmbiguous(q) \/ RegisterFails(q)
      PROVE  TypeOK'
  <2>1. InFlight(q) /\ Unanswered(q)
    BY <1>8 DEF RefuseToken, ServerAmbiguous, RegisterFails, InFlight
  <2>2. QED BY <2>1, UnansweredTypes
<1>9. ASSUME UNCHANGED vars
      PROVE  TypeOK'
  BY <1>9 DEF vars, TypeOK
<1>10. TypeOK'
  BY <1>1, <1>2, <1>3, <1>4, <1>5, <1>6, <1>7, <1>8, <1>9, RegisterTypes DEF Next
<1>11. \A h \in Hosts : Len(rows'[h]) \in Nat /\ Len(rows'[h]) >= Len(rows[h])
  <2>1. \A h \in Hosts : Len(rows[h]) \in Nat
    BY LenProperties DEF TypeOK
  <2>2. QED BY <2>1, RowsKept, RegisterTypes
<1>12. ASSUME NEW q \in Requests, InFlight(q)', req'[q].phase = "ready", ~req'[q].create
       PROVE  Len(rows'[req'[q].host]) >= 1
  <2>1. InFlight(q) /\ req'[q].host = req[q].host /\ req[q].host \in Hosts
    BY <1>12, RequestStep, RequestTypes
  <2>2. Len(rows[req[q].host]) \in Nat
    BY <2>1, LenProperties DEF TypeOK
  <2>3. Len(rows[req[q].host]) >= 1
    <3>1. CASE req'[q].phase = req[q].phase /\ req'[q].create = req[q].create
      BY <1>12, <2>1, <3>1 DEF FoundServerRows
    <3>2. CASE rows[req[q].host] # <<>>
      BY <2>1, <2>2, <3>2, EmptySeq DEF TypeOK
    <3>3. QED BY <1>12, <3>1, <3>2, RequestStep
  <2>4. QED BY <1>11, <2>1, <2>2, <2>3
<1>13. QED BY <1>10, <1>12 DEF FoundServerRows

LEMMA InitTypes == Init => TypeOK /\ FoundServerRows
<1> SUFFICES ASSUME Init PROVE TypeOK /\ FoundServerRows
  OBVIOUS
<1>1. <<>> \in Seq(AgentToken)
  BY EmptySeq
<1>2. QED BY <1>1 DEF Init, TypeOK, FoundServerRows, TokenState, AgentToken, EmptyConf,
                      Down, Process, InFlight

(* Tokens, rows, agents and requests keep their types; a request that found  *)
(* a server row finds it again when it commits, since no row is removed.     *)
THEOREM TypeCorrect == Spec => []TypeOK
<1>1. TypeOK /\ FoundServerRows /\ [Next]_vars => TypeOK' /\ FoundServerRows'
  BY TypeStep
<1>2. QED BY InitTypes, <1>1, PTL DEF Spec

-----------------------------------------------------------------------------
(* A token that is spent stays so, and rows are never removed.             *)
LEMMA SpentStays ==
  ASSUME TypeOK, FoundServerRows, [Next]_vars
  PROVE  /\ \A t \in Tokens : Spent(t) => Spent(t)'
         /\ \A h \in Hosts : Len(rows[h]) >= 2 => Len(rows'[h]) >= 2
<1>1. ASSUME NEW t \in Tokens, CreateToken(t) \/ ExpireToken(t)
      PROVE  \A u \in Tokens : Spent(u) => Spent(u)'
  BY <1>1 DEF CreateToken, ExpireToken, Spent, TypeOK
<1>2. ASSUME NEW q \in Requests, Register(q)
      PROVE  \A u \in Tokens : Spent(u) => Spent(u)'
  BY <1>2 DEF Register, RegisterWith, Spent, TypeOK
<1>3. ASSUME NEW q \in Requests,
             \/ ReadToken(q) \/ RefuseToken(q) \/ ReadServer(q) \/ ServerAmbiguous(q)
             \/ RegisterFails(q)
      PROVE  token' = token
  BY <1>3 DEF ReadToken, AcceptToken, RefuseToken, ReadServer, FoundServer,
              ServerAmbiguous, RegisterFails, Unanswered
<1>4. ASSUME NEW g \in Hosts,
             \/ \E t \in Tokens : Install(g, t)
             \/ \E q \in Requests : Start(g, q) \/ GiveUp(g, q)
             \/ Resume(g) \/ SaveOpens(g) \/ SaveWrites(g) \/ Crash(g)
      PROVE  token' = token
  BY <1>4 DEF Install, Start, GiveUp, Resume, ResumeIf, SaveOpens, SaveWrites, Crash
<1>5. CASE UNCHANGED vars
  BY <1>5 DEF vars, Spent
<1>6. \A u \in Tokens : Spent(u) => Spent(u)'
  <2>1. CASE token' = token
    BY <2>1 DEF Spent
  <2>2. QED BY <1>1, <1>2, <1>3, <1>4, <1>5, <2>1 DEF Next
<1>7. ASSUME NEW h \in Hosts, Len(rows[h]) >= 2
      PROVE  Len(rows'[h]) >= 2
  <2>1. Len(rows[h]) \in Nat
    BY LenProperties DEF TypeOK
  <2>2. QED BY <1>7, <2>1, RowsKept, RegisterTypes
<1>8. QED BY <1>6, <1>7

(* A request that is doomed stays doomed as long as it is in flight: it goes *)
(* on only past a check that it cannot pass.                                *)
LEMMA DoomedStays ==
  ASSUME TypeOK, FoundServerRows, [Next]_vars, NEW p \in Requests,
         InFlight(p), Doomed(p), InFlight(p)', req'[p].host = req[p].host,
         req'[p].tok = req[p].tok,
         \/ req'[p].phase = req[p].phase
         \/ ReadToken(p) /\ req'[p].phase = "token"
         \/ ReadServer(p) /\ req'[p].phase = "ready"
  PROVE  Doomed(p)'
<1>1. req[p].host \in Hosts /\ req[p].tok \in Tokens
  BY RequestTypes
<1>2. /\ Spent(req[p].tok) => Spent(req[p].tok)'
      /\ Len(rows[req[p].host]) >= 2 => Len(rows'[req[p].host]) >= 2
  BY <1>1, SpentStays
<1>3. CASE req'[p].phase = req[p].phase
  BY <1>2, <1>3 DEF Doomed, Spent
<1>4. CASE ReadToken(p) /\ req'[p].phase = "token"
  <2>1. ~Spent(req[p].tok) /\ req[p].phase = "received"
    BY <1>4 DEF ReadToken, AcceptToken, Spent
  <2>2. QED BY <1>2, <1>4, <2>1 DEF Doomed
<1>5. CASE ReadServer(p) /\ req'[p].phase = "ready"
  <2>1. req[p].phase = "token" /\ Len(rows[req[p].host]) < 2
    BY <1>5 DEF ReadServer, FoundServer
  <2>2. Len(rows[req[p].host]) \in Nat
    BY <1>1, LenProperties DEF TypeOK
  <2>3. QED BY <2>1, <2>2 DEF Doomed
<1>6. QED BY <1>3, <1>4, <1>5

(* What a step does to the process of a host that is stranded: it starts in  *)
(* vain or it goes down, since no registration answers it.                  *)
LEMMA StrandedProcess ==
  ASSUME TypeOK, FoundServerRows, [Next]_vars, NEW h \in Hosts, Stranded(h)
  PROVE  proc'[h].phase \in {"down", "waiting"}
<1>0. /\ proc[h].phase \in {"down", "waiting"} /\ conf[h].agent = 0
      /\ \A q \in Requests : InFlight(q) /\ req[q].host = h /\ req[q].client => Doomed(q)
  BY DEF Stranded, InFlight
<1>1. ASSUME NEW q \in Requests, Register(q)
      PROVE  proc'[h] = proc[h]
  <2>1. InFlight(q) /\ req[q].phase = "ready"
    BY <1>1 DEF Register, RegisterWith, InFlight
  <2>2. ~Doomed(q)
    BY <2>1 DEF Doomed
  <2>3. ~(req[q].host = h /\ req[q].client)
    BY <1>0, <2>1, <2>2
  <2>4. QED BY <1>1, <2>3 DEF Register, RegisterWith, TypeOK
<1>2. ASSUME NEW q \in Requests,
             \/ ReadToken(q) \/ RefuseToken(q) \/ ReadServer(q) \/ ServerAmbiguous(q)
             \/ RegisterFails(q)
      PROVE  proc'[h] \in {proc[h], Down}
  <2>1. proc' = proc \/ proc' = [proc EXCEPT ![req[q].host] = Down]
    BY <1>2 DEF ReadToken, AcceptToken, RefuseToken, ReadServer, FoundServer,
                ServerAmbiguous, RegisterFails, Unanswered
  <2>2. QED BY <2>1 DEF TypeOK
<1>3. ASSUME NEW g \in Hosts, NEW q \in Requests, Start(g, q) \/ GiveUp(g, q)
      PROVE  proc'[h] \in {proc[h], Down, [phase |-> "waiting", mem |-> 0]}
  BY <1>3 DEF Start, GiveUp, TypeOK
<1>4. ASSUME NEW g \in Hosts, Resume(g) \/ SaveOpens(g) \/ SaveWrites(g) \/ Crash(g)
      PROVE  proc'[h] = proc[h]
  <2>1. h # g
    BY <1>0, <1>4 DEF Resume, ResumeIf, SaveOpens, SaveWrites, Crash, Down
  <2>2. QED BY <1>4, <2>1 DEF Resume, ResumeIf, SaveOpens, SaveWrites, Crash, TypeOK
<1>5. ASSUME \/ \E t \in Tokens : CreateToken(t) \/ ExpireToken(t)
             \/ \E g \in Hosts, t \in Tokens : Install(g, t)
             \/ UNCHANGED vars
      PROVE  proc' = proc
  BY <1>5 DEF CreateToken, ExpireToken, Install, vars
<1>6. proc'[h] \in {proc[h], Down, [phase |-> "waiting", mem |-> 0]}
  BY <1>1, <1>2, <1>3, <1>4, <1>5 DEF Next
<1>7. QED BY <1>0, <1>6 DEF Down

(* Only a new request is waited for that nobody waited for before.          *)
LEMMA ClientStays ==
  ASSUME TypeOK, [Next]_vars, NEW p \in Requests, InFlight(p), InFlight(p)', req'[p].client
  PROVE  req[p].client
<1> USE DEF InFlight
<1>1. CASE req'[p] = req[p]
  BY <1>1
<1>2. ASSUME NEW q \in Requests,
             \/ RefuseToken(q) \/ ServerAmbiguous(q) \/ RegisterFails(q) \/ Register(q)
      PROVE  req'[p] \in {req[p], IdleRequest}
  BY <1>2 DEF RefuseToken, ServerAmbiguous, RegisterFails, Unanswered, Register,
              RegisterWith, TypeOK
<1>3. ASSUME NEW q \in Requests, ReadToken(q) \/ ReadServer(q)
      PROVE  req'[p] = req[p] \/ req'[p].client = req[p].client
  <2>1. CASE ReadToken(q)
    BY <2>1 DEF ReadToken, AcceptToken, TypeOK
  <2>2. CASE ReadServer(q)
    <3>1. PICK create : FoundServer(q, create)
      BY <2>2, Zenon DEF ReadServer
    <3>2. QED BY <3>1 DEF FoundServer, TypeOK
  <2>3. QED BY <1>3, <2>1, <2>2
<1>4. ASSUME NEW h \in Hosts, NEW q \in Requests, Start(h, q)
      PROVE  req'[p] = req[p]
  BY <1>4 DEF Start, TypeOK
<1>5. ASSUME NEW h \in Hosts, NEW q \in Requests, GiveUp(h, q)
      PROVE  req'[p] = req[p] \/ ~req'[p].client
  BY <1>5 DEF GiveUp, TypeOK
<1>6. ASSUME \/ \E h \in Hosts : \/ \E t \in Tokens : Install(h, t)
                               \/ Resume(h) \/ SaveOpens(h) \/ SaveWrites(h) \/ Crash(h)
             \/ \E t \in Tokens : CreateToken(t) \/ ExpireToken(t)
             \/ UNCHANGED vars
      PROVE  req' = req
  BY <1>6 DEF Install, Resume, ResumeIf, SaveOpens, SaveWrites, Crash, CreateToken,
              ExpireToken, vars
<1>7. QED BY <1>1, <1>2, <1>3, <1>4, <1>5, <1>6 DEF Next

(* What a step does to the requests that wait for a stranded host: they are  *)
(* doomed still, and a new one has nothing but a spent token to show.        *)
LEMMA StrandedRequests ==
  ASSUME TypeOK, FoundServerRows, [Next]_vars, NEW h \in Hosts, Stranded(h),
         NEW p \in Requests, InFlight(p)', req'[p].host = h, req'[p].client
  PROVE  Doomed(p)'
<1>1. CASE InFlight(p) /\ req'[p].host = req[p].host /\ req'[p].tok = req[p].tok
           /\ \/ req'[p].phase = req[p].phase
              \/ ReadToken(p) /\ req'[p].phase = "token"
              \/ ReadServer(p) /\ req'[p].phase = "ready"
  <2>1. req[p].client
    BY <1>1, ClientStays
  <2>2. Doomed(p)
    BY <1>1, <2>1 DEF Stranded, InFlight
  <2>3. QED BY <1>1, <2>2, DoomedStays
<1>2. ASSUME NEW g \in Hosts, Start(g, p), req'[p].phase = "received",
             req'[p].host = g, req'[p].tok = conf[g].reg
      PROVE  Doomed(p)'
  <2>1. g = h /\ conf[h].reg # NoToken /\ token' = token /\ rows' = rows
    BY <1>2 DEF Start
  <2>2. Spent(conf[h].reg) \/ Len(rows[h]) >= 2
    BY <2>1 DEF Stranded
  <2>3. QED BY <1>2, <2>1, <2>2 DEF Doomed, Spent
<1>3. QED BY <1>1, <1>2, RequestStep

(* A host without an agent token and with nothing left to register with never *)
(* gets back in by itself: neither the requests it gave up nor those of other *)
(* hosts help it, and a new one is refused.  Only Install changes its file.   *)
THEOREM StrandedUntilReinstalledCorrect == Spec => StrandedUntilReinstalled
<1> DEFINE
      Helpless ==
        \A h \in Hosts : Stranded(h) => Stranded(h)' \/ conf'[h] # conf[h]
<1>1. TypeOK /\ FoundServerRows /\ [Next]_vars => TypeOK' /\ FoundServerRows'
  BY TypeStep
<1>2. TypeOK /\ FoundServerRows /\ [Next]_vars => [Helpless]_vars
  <2> SUFFICES ASSUME TypeOK, FoundServerRows, [Next]_vars,
                      NEW h \in Hosts, Stranded(h), conf'[h] = conf[h]
               PROVE  Stranded(h)'
    OBVIOUS
  <2>1. proc'[h].phase \in {"down", "waiting"}
    BY StrandedProcess
  <2>2. conf'[h].agent = 0
    BY DEF Stranded
  <2>3. conf'[h].reg = NoToken \/ Spent(conf[h].reg)' \/ Len(rows'[h]) >= 2
    <3>1. conf[h].reg \in Tokens \cup {NoToken}
      BY DEF TypeOK
    <3>2. CASE conf[h].reg = NoToken
      BY <3>2
    <3>3. CASE conf[h].reg \in Tokens /\ Spent(conf[h].reg)
      <4>1. token'[conf[h].reg] \in {"used", "expired"}
        BY <3>3, SpentStays DEF Spent
      <4>2. QED BY <4>1 DEF Spent
    <3>4. CASE Len(rows[h]) >= 2
      BY <3>4, SpentStays
    <3>5. QED BY <3>1, <3>2, <3>3, <3>4 DEF Stranded
  <2>4. \A q \in Requests : InFlight(q)' /\ req'[q].host = h /\ req'[q].client => Doomed(q)'
    BY StrandedRequests
  <2>5. QED BY <2>1, <2>2, <2>3, <2>4 DEF Stranded, InFlight
<1>3. QED
  BY InitTypes, <1>1, <1>2, PTL DEF Spec, StrandedUntilReinstalled

-----------------------------------------------------------------------------
(* Requests that found no row for h and will create one.                   *)
Creating(h) ==
  {q \in Requests : /\ InFlight(q) /\ req[q].host = h
                    /\ req[q].phase = "ready" /\ req[q].create}

(* A row was created by a request that was in flight with those that still  *)
(* will create one: each of them saw that there was none.                   *)
RowsInv ==
  \A h \in Hosts : Len(rows[h]) + Cardinality(Creating(h)) =< Cardinality(Requests)

THEOREM RowsBoundedCorrect == Spec => []RowsBounded
<1> DEFINE IInv == TypeOK /\ FoundServerRows /\ RowsInv
<1>1. Init => IInv
  <2> SUFFICES ASSUME Init PROVE RowsInv
    BY InitTypes
  <2>1. ASSUME NEW h \in Hosts
        PROVE  Creating(h) = {} /\ Len(rows[h]) = 0
    BY EmptySeq DEF Init, Creating, InFlight
  <2>2. Cardinality(Requests) \in Nat
    BY RequestsAssumption, FS_CardinalityType
  <2>3. \A h \in Hosts : Cardinality(Creating(h)) = 0
    BY <2>1, FS_EmptySet
  <2>4. QED BY <2>1, <2>2, <2>3 DEF RowsInv
<1>2. IInv /\ [Next]_vars => IInv'
  <2> SUFFICES ASSUME IInv, [Next]_vars, NEW h \in Hosts
               PROVE  Len(rows'[h]) + Cardinality(Creating(h)')
                        =< Cardinality(Requests)
    BY TypeStep DEF RowsInv
  <2> DEFINE C == Creating(h)
             D == Creating(h)'
  <2>1. C \subseteq Requests /\ D \subseteq Requests
    BY DEF Creating
  <2>2. /\ IsFiniteSet(C) /\ IsFiniteSet(D)
        /\ Cardinality(C) \in Nat /\ Cardinality(D) \in Nat
        /\ Cardinality(Requests) \in Nat
        /\ Cardinality(D) =< Cardinality(Requests)
    BY <2>1, RequestsAssumption, FS_Subset, FS_CardinalityType
  <2>3. Len(rows[h]) \in Nat /\ Len(rows[h]) + Cardinality(C) =< Cardinality(Requests)
    BY LenProperties DEF TypeOK, RowsInv
  <2> HIDE DEF C, D
  <2>4. ASSUME NEW q \in Requests, Register(q), req[q].host = h, req[q].create
        PROVE  Len(rows'[h]) + Cardinality(D) =< Cardinality(Requests)
    <3>1. q \in C /\ D \subseteq C \ {q}
      <4>1. \A r \in Requests : req'[r] = IF r = q THEN IdleRequest ELSE req[r]
        BY <2>4 DEF Register, RegisterWith, TypeOK
      <4>2. QED BY <2>4, <4>1
                DEF C, D, Creating, InFlight, Register, RegisterWith, IdleRequest
    <3>2. /\ IsFiniteSet(C \ {q})
          /\ Cardinality(C \ {q}) = Cardinality(C) - 1
      BY <2>2, <3>1, FS_RemoveElement
    <3>3. Cardinality(D) =< Cardinality(C) - 1
      BY <3>1, <3>2, FS_Subset
    <3>4. Len(rows'[h]) = Len(rows[h]) + 1
      BY <2>4, RegisterTypes
    <3>5. QED BY <2>2, <2>3, <3>3, <3>4
  <2>5. CASE Len(rows'[h]) = Len(rows[h]) /\ D \subseteq C
    <3>1. Cardinality(D) =< Cardinality(C)
      BY <2>2, <2>5, FS_Subset
    <3>2. QED BY <2>2, <2>3, <2>5, <3>1 DEF D
  <2>6. CASE Len(rows'[h]) = Len(rows[h]) /\ ~(D \subseteq C)
    <3>1. PICK p \in Requests : p \in D /\ p \notin C
      BY <2>1, <2>6 DEF D
    <3>2. /\ InFlight(p)' /\ req'[p].host = h
          /\ req'[p].phase = "ready" /\ req'[p].create
      BY <3>1 DEF D, Creating
    <3>3. ~(/\ InFlight(p) /\ req[p].host = h
            /\ req[p].phase = "ready" /\ req[p].create)
      BY <3>1 DEF C, Creating
    <3>4. rows[h] = <<>>
      BY <3>2, <3>3, RequestStep
    <3>5. Len(rows[h]) = 0
      BY <3>4, EmptySeq
    <3>6. QED BY <2>2, <2>6, <3>5 DEF D
  <2>7. \/ Len(rows'[h]) = Len(rows[h])
        \/ \E q \in Requests : Register(q) /\ req[q].host = h /\ req[q].create
    BY RowsKept, RegisterTypes
  <2>8. QED BY <2>4, <2>5, <2>6, <2>7 DEF D
<1>3. IInv => RowsBounded
  <2> SUFFICES ASSUME IInv, NEW h \in Hosts
               PROVE  Len(rows[h]) =< Cardinality(Requests)
    BY DEF RowsBounded
  <2>1. Creating(h) \subseteq Requests
    BY DEF Creating
  <2>2. Cardinality(Creating(h)) \in Nat /\ Cardinality(Requests) \in Nat
    BY <2>1, RequestsAssumption, FS_Subset, FS_CardinalityType
  <2>3. Len(rows[h]) \in Nat
    BY LenProperties DEF TypeOK
  <2>4. QED BY <2>2, <2>3 DEF RowsInv
<1>4. QED BY <1>1, <1>2, <1>3, PTL DEF Spec

-----------------------------------------------------------------------------
(* A row of h accepts agent token v, or one minted after it.               *)
Accepts(h, v) == \E i \in DOMAIN rows[h] : rows[h][i] >= v

(* No row accepts a token that was not minted yet, and what an agent saved   *)
(* or holds in memory is still accepted, or something later is.             *)
AcceptInv ==
  \A h \in Hosts :
    /\ \A i \in DOMAIN rows[h] : rows[h][i] =< minted
    /\ conf[h].agent # 0 => Accepts(h, conf[h].agent)
    /\ proc[h].phase \in {"saving", "truncated", "running"} =>
         proc[h].mem # 0 /\ Accepts(h, proc[h].mem)

LEMMA RowTypes ==
  ASSUME TypeOK, NEW h \in Hosts
  PROVE  /\ rows[h] \in Seq(Nat)
         /\ \A i \in DOMAIN rows[h] : rows[h][i] \in Nat
         /\ conf[h].agent \in Nat /\ proc[h].mem \in Nat /\ minted \in Nat
BY LenProperties, ElementOfSeq DEF TypeOK, Process, AgentToken

(* A registration replaces an entry by a later token or adds one: what was  *)
(* accepted before still is, or something later is.                         *)
LEMMA AcceptsStep ==
  ASSUME TypeOK, FoundServerRows, AcceptInv, [Next]_vars, NEW h \in Hosts
  PROVE  /\ \A v \in Nat : Accepts(h, v) => Accepts(h, v)'
         /\ \A i \in DOMAIN rows'[h] : rows'[h][i] =< minted'
         /\ \A q \in Requests :
              Register(q) /\ req[q].host = h => Accepts(h, minted)'
<1>1. minted' \in Nat /\ minted =< minted'
  <2>1. ASSUME NEW q \in Requests, Register(q)
        PROVE  minted' = minted + 1
    BY <2>1 DEF Register, RegisterWith
  <2>2. ASSUME NEW q \in Requests,
               \/ ReadToken(q) \/ RefuseToken(q) \/ ReadServer(q) \/ ServerAmbiguous(q)
               \/ RegisterFails(q)
        PROVE  minted' = minted
    BY <2>2 DEF ReadToken, AcceptToken, RefuseToken, ReadServer, FoundServer,
                ServerAmbiguous, RegisterFails, Unanswered
  <2>3. ASSUME NEW g \in Hosts,
               \/ \E t \in Tokens : Install(g, t)
               \/ \E q \in Requests : Start(g, q) \/ GiveUp(g, q)
               \/ Resume(g) \/ SaveOpens(g) \/ SaveWrites(g) \/ Crash(g)
        PROVE  minted' = minted
    BY <2>3 DEF Install, Start, GiveUp, Resume, ResumeIf, SaveOpens, SaveWrites, Crash
  <2>4. ASSUME NEW t \in Tokens, CreateToken(t) \/ ExpireToken(t)
        PROVE  minted' = minted
    BY <2>4 DEF CreateToken, ExpireToken
  <2>5. CASE UNCHANGED vars
    BY <2>5, RowTypes DEF vars
  <2>6. minted' \in {minted, minted + 1}
    BY <2>1, <2>2, <2>3, <2>4, <2>5 DEF Next, vars
  <2>7. QED BY <2>6, RowTypes
<1>2. \A i \in DOMAIN rows[h] : rows[h][i] \in Nat /\ rows[h][i] =< minted
  BY RowTypes DEF AcceptInv
<1>3. CASE /\ rows'[h] = rows[h]
           /\ \A q \in Requests : Register(q) => req[q].host # h
  BY <1>1, <1>2, <1>3, RowTypes DEF Accepts
<1>4. ASSUME NEW q \in Requests, Register(q), req[q].host = h
      PROVE  /\ \A v \in Nat : Accepts(h, v) => Accepts(h, v)'
             /\ \A i \in DOMAIN rows'[h] : rows'[h][i] =< minted'
             /\ Accepts(h, minted)'
  <2> DEFINE i == IF req[q].create THEN Len(rows[h]) + 1 ELSE 1
  <2>1. /\ i \in DOMAIN rows'[h] /\ rows'[h][i] = minted + 1
        /\ DOMAIN rows'[h] = DOMAIN rows[h] \cup {i}
        /\ \A j \in DOMAIN rows[h] : j # i => rows'[h][j] = rows[h][j]
    BY <1>4, RegisterTypes
  <2>2. minted' = minted + 1 /\ minted \in Nat
    BY <1>4, RowTypes DEF Register, RegisterWith
  <2> HIDE DEF i
  <2>3. ASSUME NEW v \in Nat, Accepts(h, v)
        PROVE  Accepts(h, v)'
    <3>1. PICK j \in DOMAIN rows[h] : rows[h][j] >= v
      BY <2>3 DEF Accepts
    <3>2. CASE j = i
      BY <1>2, <2>1, <2>2, <3>1, <3>2 DEF Accepts
    <3>3. CASE j # i
      BY <2>1, <3>1, <3>3 DEF Accepts
    <3>4. QED BY <3>2, <3>3
  <2>4. \A j \in DOMAIN rows'[h] : rows'[h][j] =< minted'
    BY <1>2, <2>1, <2>2
  <2>5. Accepts(h, minted)'
    BY <2>1, <2>2 DEF Accepts
  <2>6. QED BY <2>3, <2>4, <2>5
<1>5. QED BY <1>3, <1>4, RowsKept

(* Where the configuration and the memory of an agent get a token from.    *)
LEMMA AgentStep ==
  ASSUME TypeOK, [Next]_vars, NEW h \in Hosts
  PROVE  /\ \/ conf'[h].agent \in {0, conf[h].agent}
            \/ proc[h].phase = "truncated" /\ conf'[h].agent = proc[h].mem
         /\ proc'[h].phase \in {"saving", "truncated", "running"} =>
              \/ /\ proc[h].phase \in {"saving", "truncated", "running"}
                 /\ proc'[h].mem = proc[h].mem
              \/ conf[h].agent # 0 /\ proc'[h].mem = conf[h].agent
              \/ \E q \in Requests :
                   Register(q) /\ req[q].host = h /\ proc'[h].mem = minted'
<1> DEFINE
      Goal ==
         /\ \/ conf'[h].agent \in {0, conf[h].agent}
            \/ proc[h].phase = "truncated" /\ conf'[h].agent = proc[h].mem
         /\ proc'[h].phase \in {"saving", "truncated", "running"} =>
              \/ /\ proc[h].phase \in {"saving", "truncated", "running"}
                 /\ proc'[h].mem = proc[h].mem
              \/ conf[h].agent # 0 /\ proc'[h].mem = conf[h].agent
              \/ \E q \in Requests :
                   Register(q) /\ req[q].host = h /\ proc'[h].mem = minted'
<1>1. ASSUME NEW q \in Requests, Register(q)
      PROVE  Goal
  BY <1>1 DEF Register, RegisterWith, TypeOK
<1>2. ASSUME NEW q \in Requests,
             \/ ReadToken(q) \/ RefuseToken(q) \/ ReadServer(q) \/ ServerAmbiguous(q)
             \/ RegisterFails(q)
      PROVE  Goal
  <2>1. conf' = conf /\ (proc' = proc \/ proc' = [proc EXCEPT ![req[q].host] = Down])
    BY <1>2 DEF ReadToken, AcceptToken, RefuseToken, ReadServer, FoundServer,
                ServerAmbiguous, RegisterFails, Unanswered
  <2>2. proc'[h] \in {proc[h], Down}
    BY <2>1 DEF TypeOK
  <2>3. QED BY <2>1, <2>2 DEF Down
<1>3. ASSUME NEW g \in Hosts, NEW t \in Tokens, Install(g, t)
      PROVE  Goal
  BY <1>3 DEF Install, TypeOK
<1>4. ASSUME NEW g \in Hosts, NEW q \in Requests, Start(g, q) \/ GiveUp(g, q)
      PROVE  Goal
  <2>1. conf' = conf
    BY <1>4 DEF Start, GiveUp
  <2>2. proc'[h] \in {proc[h], Down, [phase |-> "waiting", mem |-> 0]}
    BY <1>4 DEF Start, GiveUp, TypeOK
  <2>3. QED BY <2>1, <2>2 DEF Down
<1>5. ASSUME NEW g \in Hosts, Resume(g)
      PROVE  Goal
  BY <1>5 DEF Resume, ResumeIf, TypeOK
<1>6. ASSUME NEW g \in Hosts, SaveOpens(g)
      PROVE  Goal
  BY <1>6 DEF SaveOpens, EmptyConf, TypeOK
<1>7. ASSUME NEW g \in Hosts, SaveWrites(g)
      PROVE  Goal
  BY <1>7 DEF SaveWrites, TypeOK
<1>8. ASSUME NEW g \in Hosts, Crash(g)
      PROVE  Goal
  BY <1>8 DEF Crash, Down, TypeOK
<1>9. ASSUME NEW t \in Tokens, CreateToken(t) \/ ExpireToken(t)
      PROVE  Goal
  BY <1>9 DEF CreateToken, ExpireToken
<1>10. ASSUME UNCHANGED vars
       PROVE  Goal
  BY <1>10 DEF vars
<1> HIDE DEF Goal
<1>11. Goal
  BY <1>1, <1>2, <1>3, <1>4, <1>5, <1>6, <1>7, <1>8, <1>9, <1>10 DEF Next
<1>12. QED BY <1>11 DEF Goal

(* A running agent is known to the database, unless a later registration of  *)
(* the same host took its place: through crashes, half-written files and    *)
(* late answers no agent goes on with a token nobody ever accepts.           *)
THEOREM TokenLostOnlyToLaterCorrect == Spec => []TokenLostOnlyToLater
<1> DEFINE IInv == TypeOK /\ FoundServerRows /\ AcceptInv
<1>1. Init => IInv
  <2> SUFFICES ASSUME Init PROVE AcceptInv
    BY InitTypes
  <2>1. \A h \in Hosts : DOMAIN rows[h] = {}
    BY DEF Init
  <2>2. QED BY <2>1 DEF Init, AcceptInv, EmptyConf, Down
<1>2. IInv /\ [Next]_vars => IInv'
  <2> SUFFICES ASSUME IInv, [Next]_vars, NEW h \in Hosts
               PROVE  /\ \A i \in DOMAIN rows'[h] : rows'[h][i] =< minted'
                      /\ conf'[h].agent # 0 => Accepts(h, conf[h].agent)'
                      /\ proc'[h].phase \in {"saving", "truncated", "running"} =>
                           proc'[h].mem # 0 /\ Accepts(h, proc[h].mem)'
    BY TypeStep DEF AcceptInv
  <2>1. /\ \A v \in Nat : Accepts(h, v) =>
                          \E i \in DOMAIN rows'[h] : rows'[h][i] >= v
        /\ \A i \in DOMAIN rows'[h] : rows'[h][i] =< minted'
        /\ \A q \in Requests :
             Register(q) /\ req[q].host = h =>
               \E i \in DOMAIN rows'[h] : rows'[h][i] >= minted'
    BY AcceptsStep DEF Accepts
  <2>2. ASSUME conf'[h].agent # 0
        PROVE  \E i \in DOMAIN rows'[h] : rows'[h][i] >= conf'[h].agent
    BY <2>1, <2>2, AgentStep, RowTypes DEF AcceptInv
  <2>3. ASSUME proc'[h].phase \in {"saving", "truncated", "running"}
        PROVE  /\ proc'[h].mem # 0
               /\ \E i \in DOMAIN rows'[h] : rows'[h][i] >= proc'[h].mem
    <3>1. CASE /\ proc[h].phase \in {"saving", "truncated", "running"}
               /\ proc'[h].mem = proc[h].mem
      BY <2>1, <3>1, RowTypes DEF AcceptInv
    <3>2. CASE conf[h].agent # 0 /\ proc'[h].mem = conf[h].agent
      BY <2>1, <3>2, RowTypes DEF AcceptInv
    <3>3. ASSUME NEW q \in Requests, Register(q), req[q].host = h,
                 proc'[h].mem = minted'
          PROVE  /\ proc'[h].mem # 0
                 /\ \E i \in DOMAIN rows'[h] : rows'[h][i] >= proc'[h].mem
      <4>1. minted' = minted + 1
        BY <3>3 DEF Register, RegisterWith
      <4>2. QED BY <2>1, <3>3, <4>1, RowTypes
    <3>4. QED BY <2>3, <3>1, <3>2, <3>3, AgentStep
  <2>4. QED BY <2>1, <2>2, <2>3 DEF Accepts
<1>3. IInv => TokenLostOnlyToLater
  BY DEF AcceptInv, Accepts, TokenLostOnlyToLater
<1>4. QED BY <1>1, <1>2, <1>3, PTL DEF Spec

-----------------------------------------------------------------------------
(* The requests that are about to register with t.                         *)
Registering(t) ==
  {q \in Requests : /\ InFlight(q) /\ req[q].tok = t
                    /\ req[q].phase \in {"token", "ready"}}

(* What is installed or in flight was issued; a token that was not spent was *)
(* never redeemed; and the registrations with a token, those past its check  *)
(* included, never outnumber the requests.                                  *)
LimitInv ==
  /\ \A q \in Requests : InFlight(q) => token[req[q].tok] # "absent"
  /\ \A h \in Hosts : conf[h].reg # NoToken => token[conf[h].reg] # "absent"
  /\ \A t \in Tokens :
       /\ token[t] \in {"absent", "unused"} => uses[t] = 0
       /\ uses[t] + Cardinality(Registering(t)) =< Cardinality(Requests)

(* A step issues a token, lets one expire, redeems one, or touches none.    *)
LEMMA LimitedStep ==
  ASSUME TypeOK, LimitInv, [Next]_vars
  PROVE  \/ UNCHANGED <<token, uses>>
         \/ \E t \in Tokens : Limited!Issue(t) \/ Limited!Expire(t)
         \/ \E q \in Requests : Register(q) /\ Limited!Redeem(req[q].tok)
<1>1. ASSUME NEW t \in Tokens, CreateToken(t) \/ ExpireToken(t)
      PROVE  Limited!Issue(t) \/ Limited!Expire(t)
  BY <1>1 DEF CreateToken, ExpireToken, Limited!Issue, Limited!Expire
<1>2. ASSUME NEW q \in Requests, Register(q)
      PROVE  Limited!Redeem(req[q].tok)
  <2> DEFINE t == req[q].tok
  <2>1. InFlight(q) /\ req[q].phase = "ready" /\ t \in Tokens
    BY <1>2, RequestTypes DEF Register, RegisterWith, InFlight
  <2>2. uses[t] < Cardinality(Requests)
    <3>1. IsFiniteSet(Registering(t)) /\ q \in Registering(t)
      BY <2>1, RequestsAssumption, FS_Subset DEF Registering
    <3>2. Cardinality(Registering(t)) \in Nat /\ Cardinality(Registering(t)) # 0
      BY <3>1, FS_CardinalityType, FS_EmptySet
    <3>3. Cardinality(Requests) \in Nat /\ uses[t] \in Nat
      BY <2>1, RequestsAssumption, FS_CardinalityType DEF TypeOK
    <3>4. QED BY <2>1, <3>2, <3>3 DEF LimitInv
  <2>3. token[t] # "absent"
    BY <2>1 DEF LimitInv
  <2>4. QED BY <1>2, <2>2, <2>3 DEF Register, RegisterWith, Limited!Redeem
<1>3. ASSUME NEW q \in Requests,
             \/ ReadToken(q) \/ RefuseToken(q) \/ ReadServer(q) \/ ServerAmbiguous(q)
             \/ RegisterFails(q)
      PROVE  UNCHANGED <<token, uses>>
  BY <1>3 DEF ReadToken, AcceptToken, RefuseToken, ReadServer, FoundServer,
              ServerAmbiguous, RegisterFails, Unanswered
<1>4. ASSUME NEW h \in Hosts,
             \/ \E t \in Tokens : Install(h, t)
             \/ \E q \in Requests : Start(h, q) \/ GiveUp(h, q)
             \/ Resume(h) \/ SaveOpens(h) \/ SaveWrites(h) \/ Crash(h)
      PROVE  UNCHANGED <<token, uses>>
  BY <1>4 DEF Install, Start, GiveUp, Resume, ResumeIf, SaveOpens, SaveWrites, Crash
<1>5. CASE UNCHANGED vars
  BY <1>5 DEF vars
<1>6. QED BY <1>1, <1>2, <1>3, <1>4, <1>5 DEF Next

(* What is installed stays or comes from install.sh.                       *)
LEMMA InstalledStep ==
  ASSUME TypeOK, [Next]_vars, NEW h \in Hosts
  PROVE  \/ conf'[h].reg \in {NoToken, conf[h].reg}
         \/ \E t \in Tokens : token[t] # "absent" /\ conf'[h].reg = t
<1>1. ASSUME NEW g \in Hosts, NEW t \in Tokens, Install(g, t)
      PROVE  \/ conf'[h].reg = conf[h].reg
             \/ token[t] # "absent" /\ conf'[h].reg = t
  BY <1>1 DEF Install, TypeOK
<1>2. ASSUME NEW g \in Hosts, SaveOpens(g) \/ SaveWrites(g)
      PROVE  conf'[h].reg \in {NoToken, conf[h].reg}
  <2>1. conf'[h] = conf[h] \/ conf'[h].reg = NoToken
    BY <1>2 DEF SaveOpens, SaveWrites, EmptyConf, TypeOK
  <2>2. QED BY <2>1
<1>3. ASSUME NEW g \in Hosts,
             \/ \E q \in Requests : Start(g, q) \/ GiveUp(g, q)
             \/ Resume(g) \/ Crash(g)
      PROVE  conf' = conf
  BY <1>3 DEF Start, GiveUp, Resume, ResumeIf, Crash
<1>4. ASSUME NEW q \in Requests,
             \/ ReadToken(q) \/ RefuseToken(q) \/ ReadServer(q) \/ ServerAmbiguous(q)
             \/ RegisterFails(q) \/ Register(q)
      PROVE  conf' = conf
  BY <1>4 DEF ReadToken, AcceptToken, RefuseToken, ReadServer, FoundServer,
              ServerAmbiguous, RegisterFails, Unanswered, Register, RegisterWith
<1>5. ASSUME NEW t \in Tokens, CreateToken(t) \/ ExpireToken(t)
      PROVE  conf' = conf
  BY <1>5 DEF CreateToken, ExpireToken
<1>6. CASE conf' = conf
  BY <1>6
<1>7. CASE UNCHANGED vars
  BY <1>6, <1>7 DEF vars
<1>8. QED BY <1>1, <1>2, <1>3, <1>4, <1>5, <1>6, <1>7 DEF Next

LEMMA LimitInvStep ==
  ASSUME TypeOK, LimitInv, [Next]_vars
  PROVE  LimitInv'
<1>1. ASSUME NEW t \in Tokens
      PROVE  /\ token'[t] = "absent" => token[t] = "absent"
             /\ token'[t] = "unused" => token[t] \in {"absent", "unused"}
             /\ uses'[t] = uses[t]
                  \/ (/\ token'[t] = "used" /\ uses'[t] = uses[t] + 1
                      /\ \E q \in Requests : Register(q) /\ req[q].tok = t)
  <2>1. ASSUME NEW r \in Tokens, Limited!Issue(r) \/ Limited!Expire(r)
        PROVE  /\ token'[t] = "absent" => token[t] = "absent"
               /\ token'[t] = "unused" => token[t] \in {"absent", "unused"}
               /\ uses'[t] = uses[t]
    BY <2>1 DEF Limited!Issue, Limited!Expire, TypeOK
  <2>2. ASSUME NEW q \in Requests, Register(q), Limited!Redeem(req[q].tok)
        PROVE  /\ token'[t] = "absent" => token[t] = "absent"
               /\ token'[t] = "unused" => token[t] \in {"absent", "unused"}
               /\ uses'[t] = uses[t]
                    \/ (/\ token'[t] = "used" /\ uses'[t] = uses[t] + 1
                        /\ req[q].tok = t)
    BY <2>2 DEF Limited!Redeem, TypeOK
  <2>3. QED BY <2>1, <2>2, LimitedStep
<1>2. ASSUME NEW h \in Hosts, conf'[h].reg # NoToken
      PROVE  token'[conf'[h].reg] # "absent"
  <2>1. conf[h].reg \in Tokens \cup {NoToken}
    BY DEF TypeOK
  <2>2. conf'[h].reg \in Tokens /\ token[conf'[h].reg] # "absent"
    BY <1>2, <2>1, InstalledStep DEF LimitInv
  <2>3. QED BY <1>1, <2>2
<1>3. ASSUME NEW q \in Requests, InFlight(q)'
      PROVE  token'[req'[q].tok] # "absent"
  <2>1. CASE InFlight(q) /\ req'[q].tok = req[q].tok
    BY <1>1, <2>1, RequestTypes DEF LimitInv
  <2>2. ASSUME NEW h \in Hosts, Start(h, q), req'[q].tok = conf[h].reg
        PROVE  token'[req'[q].tok] # "absent"
    <3>1. conf[h].reg \in Tokens
      BY <2>2 DEF Start, TypeOK
    <3>2. QED BY <1>1, <2>2, <3>1 DEF Start, LimitInv
  <2>3. QED BY <1>3, <2>1, <2>2, RequestStep
<1>4. ASSUME NEW t \in Tokens, token'[t] \in {"absent", "unused"}
      PROVE  uses'[t] = 0
  BY <1>1, <1>4 DEF LimitInv
<1>5. ASSUME NEW t \in Tokens
      PROVE  uses'[t] + Cardinality(Registering(t)') =< Cardinality(Requests)
  <2> DEFINE R == Registering(t)
             S == Registering(t)'
  <2>1. R \subseteq Requests /\ S \subseteq Requests
    BY DEF Registering
  <2>2. /\ IsFiniteSet(R) /\ IsFiniteSet(S)
        /\ Cardinality(R) \in Nat /\ Cardinality(S) \in Nat
        /\ Cardinality(Requests) \in Nat
        /\ Cardinality(S) =< Cardinality(Requests)
    BY <2>1, RequestsAssumption, FS_Subset, FS_CardinalityType
  <2>3. uses[t] \in Nat /\ uses[t] + Cardinality(R) =< Cardinality(Requests)
    BY DEF TypeOK, LimitInv
  <2> HIDE DEF R, S
  <2>4. CASE uses'[t] # uses[t]
    <3>1. PICK q \in Requests :
            Register(q) /\ req[q].tok = t /\ uses'[t] = uses[t] + 1
      BY <1>1, <2>4
    <3>2. q \in R /\ S \subseteq R \ {q}
      <4>1. \A r \in Requests : req'[r] = IF r = q THEN IdleRequest ELSE req[r]
        BY <3>1 DEF Register, RegisterWith, TypeOK
      <4>2. QED BY <3>1, <4>1
                DEF R, S, Registering, InFlight, Register, RegisterWith, IdleRequest
    <3>3. /\ IsFiniteSet(R \ {q})
          /\ Cardinality(R \ {q}) = Cardinality(R) - 1
      BY <2>2, <3>2, FS_RemoveElement
    <3>4. Cardinality(S) =< Cardinality(R) - 1
      BY <3>2, <3>3, FS_Subset
    <3>5. QED BY <2>2, <2>3, <3>1, <3>4 DEF S
  <2>5. CASE uses'[t] = uses[t] /\ S \subseteq R
    <3>1. Cardinality(S) =< Cardinality(R)
      BY <2>2, <2>5, FS_Subset
    <3>2. QED BY <2>2, <2>3, <2>5, <3>1 DEF S
  <2>6. CASE uses'[t] = uses[t] /\ ~(S \subseteq R)
    <3>1. PICK q \in Requests : q \in S /\ q \notin R
      BY <2>1, <2>6
    <3>2. /\ InFlight(q)' /\ req'[q].tok = t
          /\ req'[q].phase \in {"token", "ready"}
      BY <3>1 DEF S, Registering
    <3>3. ~(/\ InFlight(q) /\ req[q].tok = t
            /\ req[q].phase \in {"token", "ready"})
      BY <3>1 DEF R, Registering
    <3>4. ReadToken(q) /\ req[q].tok = t
      BY <3>2, <3>3, RequestStep DEF ReadServer, FoundServer
    <3>5. uses[t] = 0
      BY <3>4 DEF ReadToken, AcceptToken, LimitInv
    <3>6. QED BY <2>2, <2>6, <3>5 DEF S
  <2>7. QED BY <2>4, <2>5, <2>6
<1>6. QED BY <1>2, <1>3, <1>4, <1>5 DEF LimitInv

(* Registration keeps the promise of the abstract token: it is issued once,  *)
(* refused once used or expired, and registers at most once per request that *)
(* can be in flight.                                                        *)
THEOREM ImplementsLimitedTokenCorrect == Spec => ImplementsLimitedToken
<1>1. Init => LimitInv /\ Limited!Init
  <2> SUFFICES ASSUME Init PROVE LimitInv
    BY DEF Init, Limited!Init
  <2>1. \A q \in Requests : ~InFlight(q)
    BY DEF Init, InFlight
  <2>2. \A t \in Tokens : Cardinality(Registering(t)) = 0
    <3>1. \A t \in Tokens : Registering(t) = {}
      BY <2>1 DEF Registering
    <3>2. QED BY <3>1, FS_EmptySet
  <2>3. Cardinality(Requests) \in Nat
    BY RequestsAssumption, FS_CardinalityType
  <2>4. QED BY <2>1, <2>2, <2>3 DEF Init, LimitInv, EmptyConf
<1>2. TypeOK /\ LimitInv /\ [Next]_vars => LimitInv'
  BY LimitInvStep
<1>3. TypeOK /\ LimitInv /\ [Next]_vars => [Limited!Next]_(Limited!vars)
  <2> SUFFICES ASSUME TypeOK, LimitInv, [Next]_vars
               PROVE  [Limited!Next]_(Limited!vars)
    OBVIOUS
  <2>1. \A q \in Requests : Register(q) => req[q].tok \in Tokens
    BY RequestTypes DEF Register, RegisterWith, InFlight
  <2>2. QED BY <2>1, LimitedStep DEF Limited!Next, Limited!vars
<1>4. QED BY <1>1, <1>2, <1>3, TypeCorrect, PTL
          DEF Spec, ImplementsLimitedToken, Limited!Spec

-----------------------------------------------------------------------------
(* AgentLoop: that a host's agent is punctual as long as the timeout leaves  *)
(* the margin.                                                               *)

LEMMA Constants ==
  /\ HeartbeatInterval \in Nat \ {0} /\ MetricInterval \in Nat \ {0}
  /\ PostTimeout \in Nat /\ RestartDelay \in Nat
  /\ ServeTimeout \in Nat /\ Losses \in Nat
  /\ "none" \notin Heartbeats /\ "served" \notin Heartbeats
  /\ Timeout \in Nat \ {0}
BY TimeoutAssumption, IntervalsAssumption, LimitsAssumption, HeartbeatsAssumption

LEMMA Rounds ==
  /\ Round \in Nat /\ Setback \in Nat
  /\ 2 * PostTimeout + 2 =< Round
  /\ HeartbeatInterval + PostTimeout + 1 =< Round
  /\ Round =< Setback
  /\ PostTimeout + RestartDelay =< Setback
BY Constants DEF Pass, Round, Setback

LEMMA Slacks ==
  ASSUME Margin
  PROVE  /\ Slack(0) = ServeTimeout
         /\ \A m \in 0 .. Losses :
              /\ Slack(m) \in Nat /\ ServeTimeout =< Slack(m)
              /\ Slack(m) + Round + PostTimeout =< Timeout
         /\ \A m \in Nat : Slack(m + 1) = Slack(m) + Setback
         /\ \A m \in 1 .. Losses : ServeTimeout + Setback =< Slack(m)
<1> DEFINE S == Setback
<1>1. S \in Nat /\ ServeTimeout \in Nat /\ Losses \in Nat
  BY Constants, Rounds
<1>2. Slack(0) = ServeTimeout
  BY <1>1 DEF Slack
<1> HIDE DEF S
<1>3. \A m \in Nat : m * S \in Nat /\ (m + 1) * S = m * S + S
  BY <1>1
<1>4. ASSUME NEW m \in 0 .. Losses PROVE m * S =< Losses * S
  <2>1. Losses - m \in Nat /\ Losses = m + (Losses - m)
    BY <1>1, <1>4
  <2>2. (Losses - m) * S \in Nat
    BY <1>1, <2>1, <1>3
  <2>3. Losses * S = m * S + (Losses - m) * S
    BY <1>1, <1>4, <2>1
  <2>4. m * S \in Nat
    BY <1>3, <1>4, <1>1
  <2>5. QED BY <2>2, <2>3, <2>4
<1>5. \A m \in Nat : Slack(m) = ServeTimeout + m * S
  BY DEF Slack, S
<1>6. ASSUME NEW m \in 0 .. Losses
      PROVE  /\ Slack(m) \in Nat /\ ServeTimeout =< Slack(m)
             /\ Slack(m) =< Slack(Losses) /\ Slack(Losses) \in Nat
  BY <1>1, <1>3, <1>4, <1>5
<1>7. \A m \in Nat : Slack(m + 1) = Slack(m) + S
  BY <1>1, <1>3, <1>5
<1>8. ASSUME NEW m \in 0 .. Losses PROVE Slack(m) + Round + PostTimeout =< Timeout
  BY <1>6, Constants, Rounds DEF Margin
<1>9. ASSUME NEW m \in 1 .. Losses PROVE ServeTimeout + S =< Slack(m)
  <2>1. m - 1 \in 0 .. Losses /\ m - 1 \in Nat /\ (m - 1) + 1 = m
    BY <1>1, <1>9
  <2>2. Slack(m) = Slack(m - 1) + S
    BY <1>7, <2>1
  <2>3. QED BY <1>1, <1>6, <2>1, <2>2
<1>10. QED BY <1>2, <1>6, <1>7, <1>8, <1>9 DEF S

LEMMA Phases ==
  /\ LoopPhase = {"top", "heartbeat", "collect", "push", "sleep", "down"}
  /\ Limit["top"] = 0 /\ Limit["heartbeat"] = PostTimeout /\ Limit["collect"] = 1
  /\ Limit["push"] = PostTimeout /\ Limit["sleep"] = 1 /\ Limit["down"] = RestartDelay
  /\ \A p \in LoopPhase : Limit[p] \in Nat
BY Constants DEF LoopPhase, Limit

LEMMA Ticks ==
  /\ Longest \in Nat /\ HeartbeatInterval =< Longest
  /\ \A n \in 0 .. Longest :
       /\ AtMost(n + 1) \in 0 .. Longest
       /\ AtMost(n + 1) = n + 1 \/ AtMost(n + 1) >= HeartbeatInterval
BY Constants DEF Longest, AtMost

LEMMA Pauses ==
  ASSUME NEW jobs \in SUBSET Job, JobOrPause(jobs)
  PROVE  /\ phase' \in LoopPhase /\ spent' = 0
         /\ "heartbeat" \in jobs => phase' = "heartbeat"
         /\ jobs = {"metrics"} => phase' = "collect"
         /\ jobs = {} => phase' = "sleep"
         /\ "heartbeat" \notin jobs => jobs = {} \/ jobs = {"metrics"}
<1>1. "heartbeat" \notin jobs => jobs = {} \/ jobs = {"metrics"}
  BY DEF Job
<1>2. {} # {"metrics"} /\ "heartbeat" \notin {"metrics"} /\ "heartbeat" \notin {}
  OBVIOUS
<1>3. QED BY <1>1, <1>2, Phases DEF JobOrPause, Goto

(* A request in flight is a heartbeat of the host, or stands for a batch.   *)
LEMMA BeatTypes ==
  ASSUME Backend!TypeOK, NEW r \in Heartbeats, inApi[r] # Backend!IdleRequest
  PROVE  /\ inApi[r] \in Backend!ActiveRequest
         /\ inApi[r].age \in Backend!Age
         /\ inApi[r].server = Host
BY DEF Backend!TypeOK, Backend!ActiveRequest

LEMMA HostOlder ==
  ASSUME NEW a \in Backend!Age
  PROVE  /\ Backend!Older(a) \in Backend!Age /\ Backend!Older(a) =< a + 1
BY Constants DEF Backend!Age, Backend!Older

LEMMA AgedTypes ==
  ASSUME NEW q \in Backend!ActiveRequest
  PROVE  /\ Backend!Aged(q) \in Backend!ActiveRequest
         /\ Backend!Aged(q) # Backend!IdleRequest
         /\ Backend!Aged(q).age =< q.age + 1
<1>1. q.age \in Backend!Age
  BY DEF Backend!ActiveRequest
<1>2. Backend!Older(q.age) \in Backend!Age /\ Backend!Older(q.age) =< q.age + 1
  BY <1>1, HostOlder
<1>3. Backend!Aged(q) \in Backend!ActiveRequest
      /\ Backend!Aged(q).age = Backend!Older(q.age)
  BY <1>2 DEF Backend!ActiveRequest, Backend!Aged
<1>4. Backend!Aged(q).kind # "idle" /\ Backend!IdleRequest.kind = "idle"
  BY <1>3 DEF Backend!ActiveRequest, Backend!RequestKind, Backend!IdleRequest
<1>5. QED BY <1>2, <1>3, <1>4

LEMMA LoopTypeInit == LoopInit => LoopTypeOK
<1> SUFFICES ASSUME LoopInit PROVE LoopTypeOK
  OBVIOUS
<1>1. Backend!TypeOK
  BY Constants
  DEF LoopInit, Backend!Init, Backend!TypeOK, Backend!Age, Backend!Status
<1>2. QED BY <1>1, Phases, Ticks, Constants DEF LoopInit, LoopTypeOK

LEMMA LoopTypeStep == LoopTypeOK /\ [LoopNext]_loopVars => LoopTypeOK'
<1> SUFFICES ASSUME LoopTypeOK, [LoopNext]_loopVars PROVE LoopTypeOK'
  OBVIOUS
<1> DEFINE LoopTypes ==
      /\ phase \in LoopPhase
      /\ spent \in Nat /\ spent =< Limit[phase]
      /\ loop \in 0 .. Longest
      /\ since \in [Job -> 0 .. Longest]
      /\ due \subseteq Job
      /\ beat \in {"none", "served"} \cup Heartbeats
      /\ missed \in 0 .. Losses
<1>i. LoopTypes /\ Backend!TypeOK
  BY DEF LoopTypeOK
<1>q. SUFFICES LoopTypes' /\ Backend!TypeOK'
  BY DEF LoopTypeOK
<1>k. ASSUME UNCHANGED <<hbAge, inApi>> PROVE Backend!TypeOK'
  BY <1>i, <1>k DEF Backend!TypeOK
<1>1. CASE Tick
  <2>1. \A r \in Heartbeats : inApi[r] # Backend!IdleRequest =>
          Backend!Aged(inApi[r]) \in Backend!ActiveRequest
    BY <1>i, BeatTypes, AgedTypes
  <2>a. hbAge' \in [{Host} -> Backend!Age]
    BY <1>1, <1>i, HostOlder DEF Tick, TickIf, Backend!TypeOK
  <2>b. inApi' \in [Heartbeats -> Backend!ActiveRequest \cup {Backend!IdleRequest}]
    BY <1>1, <1>i, <2>1 DEF Tick, TickIf, Backend!TypeOK
  <2>2. Backend!TypeOK'
    BY <1>i, <2>a, <2>b DEF Backend!TypeOK
  <2>c. spent' \in Nat /\ spent' =< Limit[phase]
    BY <1>1, <1>i, Phases DEF Tick, TickIf
  <2>d. loop' \in 0 .. Longest /\ since' \in [Job -> 0 .. Longest]
    BY <1>1, <1>i, Ticks DEF Tick, TickIf
  <2>3. LoopTypes'
    BY <1>1, <1>i, <2>c, <2>d DEF Tick, TickIf
  <2>4. QED BY <2>2, <2>3
<1>2. CASE Look
  <2>1. due' \subseteq Job
    BY <1>2 DEF Look
  <2>2. LoopTypes'
    BY <1>2, <1>i, <2>1, Pauses, Phases, Ticks DEF Look
  <2>3. QED BY <1>2, <1>k, <2>2 DEF Look
<1>3. ASSUME NEW j \in Job, Done(j), missed' \in 0 .. Losses,
             beat' \in {"none", beat}, UNCHANGED <<hbAge, inApi>>
      PROVE  LoopTypes' /\ Backend!TypeOK'
  <2>1. due' \subseteq Job
    BY <1>3, <1>i DEF Done
  <2>2. LoopTypes'
    BY <1>3, <1>i, <2>1, Pauses, Phases, Ticks DEF Done
  <2>3. QED BY <1>3, <1>k, <2>2
<1>4. CASE HeartbeatEnds
  <2>1. missed' \in 0 .. Losses /\ "heartbeat" \in Job
    BY <1>4, <1>i, Constants DEF HeartbeatEnds, Job
  <2>2. QED BY <1>3, <1>4, <2>1 DEF HeartbeatEnds
<1>5. ASSUME NEW r \in Heartbeats, HeartbeatReads(r)
      PROVE  LoopTypes' /\ Backend!TypeOK'
  <2>1. [kind |-> "heartbeat", server |-> Host, loaded |-> "online", age |-> 0]
          \in Backend!ActiveRequest
    BY Constants
    DEF Backend!ActiveRequest, Backend!RequestKind, Backend!Status, Backend!Age
  <2>2. Backend!TypeOK'
    BY <1>5, <1>i, <2>1
    DEF HeartbeatReads, Backend!RequestReads, Backend!TypeOK
  <2>3. QED BY <1>5, <1>i, <2>2 DEF HeartbeatReads
<1>6. ASSUME NEW r \in Heartbeats, HeartbeatCommits(r)
      PROVE  LoopTypes' /\ Backend!TypeOK'
  <2>1. inApi[r] # Backend!IdleRequest /\ inApi[r].age \in Backend!Age
    BY <1>6, <1>i, BeatTypes DEF HeartbeatCommits, Backend!RequestCommits, Backend!RequestCommitsAs
  <2>2. Backend!TypeOK'
    BY <1>6, <1>i, <2>1
    DEF HeartbeatCommits, Backend!RequestCommits, Backend!RequestCommitsAs, Backend!TypeOK
  <2>3. QED BY <1>6, <1>i, <2>2, Constants DEF HeartbeatCommits
<1>7. ASSUME NEW r \in Heartbeats, HeartbeatFails(r)
      PROVE  LoopTypes' /\ Backend!TypeOK'
  BY <1>7, <1>i
  DEF HeartbeatFails, Backend!RequestFails, agent, Backend!TypeOK
<1>8. CASE Collect
  BY <1>8, <1>i, <1>k, Phases DEF Collect, Goto
<1>9. CASE PushEnds
  BY <1>3, <1>9, <1>i DEF PushEnds, Job
<1>10. CASE Wake
  BY <1>10, <1>i, <1>k, Phases DEF Wake, Goto
<1>11. CASE AgentDies
  BY <1>11, <1>i, <1>k, Phases, Constants DEF AgentDies, Goto
<1>12. CASE Restart
  BY <1>12, <1>i, <1>k, Phases, Ticks DEF Restart, Goto
<1>13. CASE UNCHANGED loopVars
  BY <1>13, <1>i, <1>k DEF loopVars, agent
<1>14. QED
  BY <1>1, <1>2, <1>4, <1>5, <1>6, <1>7, <1>8, <1>9, <1>10, <1>11, <1>12, <1>13
  DEF LoopNext

-----------------------------------------------------------------------------
(* Where the loop is, and what it has to do there.                          *)
JobsInv ==
  /\ phase = "heartbeat" => "heartbeat" \in due
  /\ phase \in {"collect", "push"} => due = {"metrics"}
  /\ phase \in {"sleep", "top"} => due = {}
  /\ beat # "none" => phase = "heartbeat"
  /\ beat = "served" => missed = 0
  /\ phase = "down" => missed > 0

(* The API keeps its time for a heartbeat.                                  *)
Served ==
  \A r \in Heartbeats : inApi[r] # Backend!IdleRequest =>
    inApi[r].kind = "heartbeat" /\ inApi[r].age =< ServeTimeout

(* The heartbeat is the first thing of its pass.                            *)
AtOnce == phase = "heartbeat" /\ loop < HeartbeatInterval => spent =< loop

hostAge == hbAge[Host]
Late == Slack(missed)

(* The timestamp is not much older than the last heartbeat that was tried.  *)
SinceTried ==
  since["heartbeat"] < HeartbeatInterval /\ phase \notin {"heartbeat", "down"}
    => hostAge =< Late + since["heartbeat"]

(* Nor is it older than the pass of the loop allows, wherever that stands.  *)
OnTime ==
  /\ phase = "top" => hostAge =< Late + Round
  /\ phase = "heartbeat" /\ beat = "served" => hostAge =< ServeTimeout + spent
  /\ phase = "heartbeat" /\ beat # "served" => hostAge =< Late + Round + spent
  /\ phase = "collect" => hostAge =< Late + Round - (PostTimeout + 2) + spent
  /\ phase = "push" => hostAge =< Late + Round - (PostTimeout + 1) + spent
  /\ phase = "sleep" => hostAge =< Late + Round - 1 + spent
  /\ phase = "down" => hostAge =< Late + Round - RestartDelay + spent

LoopInv == LoopTypeOK /\ JobsInv /\ Served /\ AtOnce /\ SinceTried /\ OnTime

LEMMA Numbers ==
  ASSUME Margin, LoopTypeOK
  PROVE  /\ Timeout \in Nat /\ hostAge \in Nat
         /\ spent \in Nat /\ spent =< Limit[phase] /\ phase \in LoopPhase
         /\ missed \in 0 .. Losses /\ loop \in 0 .. Longest
         /\ since["heartbeat"] \in 0 .. Longest
         /\ Late \in Nat /\ ServeTimeout =< Late /\ Late + Round + PostTimeout =< Timeout
         /\ missed = 0 => Late = ServeTimeout
         /\ missed > 0 => ServeTimeout + Setback =< Late
         /\ missed < Losses => missed + 1 \in 1 .. Losses
                               /\ Slack(missed + 1) = Late + Setback
<1>1. hbAge[Host] \in Nat
  BY Constants DEF LoopTypeOK, Backend!TypeOK, Backend!Age
<1>2. missed \in 0 .. Losses
  BY DEF LoopTypeOK
<1>3. /\ missed = 0 => Late = ServeTimeout
      /\ missed > 0 => ServeTimeout + Setback =< Late
      /\ missed < Losses => missed + 1 \in 1 .. Losses
                            /\ Slack(missed + 1) = Late + Setback
  BY <1>2, Slacks, Constants DEF Late
<1>4. QED BY <1>1, <1>2, <1>3, Slacks, Constants DEF LoopTypeOK, Job, hostAge, Late

(* Time never has to wait for the loop.                                     *)
LEMMA StaysPunctual ==
  ASSUME Margin, LoopInv, Tick
  PROVE  Backend!Punctual
<1> USE DEF LoopInv
<1>1. hostAge < Timeout
  <2>1. spent < Limit[phase]
    BY DEF Tick, TickIf
  <2>2. QED BY <2>1, Numbers, Phases, Rounds, Constants DEF OnTime
<1>2. \A r \in Heartbeats : inApi[r] # Backend!IdleRequest => inApi[r].age < Timeout
  <2>1. \A r \in Heartbeats : inApi[r] # Backend!IdleRequest =>
          inApi[r].age \in Nat /\ inApi[r].age < ServeTimeout
    BY BeatTypes, Constants DEF Tick, TickIf, LoopTypeOK, Backend!Age
  <2>2. ServeTimeout =< Timeout
    BY Numbers, Rounds, Constants
  <2>3. QED BY <2>1, <2>2, Constants
<1>3. QED BY <1>1, <1>2 DEF Backend!Punctual, Backend!Steady, hostAge

LEMMA LoopInvInit == Margin /\ LoopInit => LoopInv
<1> SUFFICES ASSUME Margin, LoopInit PROVE LoopInv
  OBVIOUS
<1>1. LoopTypeOK
  BY LoopTypeInit
<1>2. JobsInv /\ Served /\ AtOnce
  BY DEF LoopInit, JobsInv, Served, AtOnce, Backend!Init
<1>3. hostAge = 0
  BY DEF LoopInit, Backend!Init, hostAge
<1>4. SinceTried
  BY <1>1, <1>3, Numbers, Ticks, Constants DEF LoopInit, SinceTried, Job
<1>5. OnTime
  BY <1>1, <1>3, Numbers, Rounds DEF LoopInit, OnTime
<1>6. QED BY <1>1, <1>2, <1>4, <1>5 DEF LoopInv

LEMMA LoopStep == Margin /\ LoopInv /\ [LoopNext]_loopVars => LoopInv'
<1> SUFFICES ASSUME Margin, LoopInv, [LoopNext]_loopVars PROVE LoopInv'
  OBVIOUS
<1>0. LoopTypeOK /\ LoopTypeOK' /\ Timeout \in Nat
  BY LoopTypeStep, Constants DEF LoopInv
<1> DEFINE Parts == JobsInv /\ Served /\ AtOnce /\ SinceTried /\ OnTime
<1>i. Parts
  BY DEF LoopInv
<1>q. SUFFICES Parts'
  BY <1>0 DEF LoopInv
<1>n. /\ hostAge \in Nat /\ spent \in Nat /\ spent =< Limit[phase] /\ phase \in LoopPhase
      /\ missed \in 0 .. Losses /\ loop \in 0 .. Longest
      /\ since["heartbeat"] \in 0 .. Longest
      /\ Late \in Nat /\ ServeTimeout =< Late
  BY <1>0, Numbers
<1>t. /\ Late \in Nat /\ ServeTimeout =< Late
      /\ missed = 0 => Late = ServeTimeout
      /\ missed > 0 => ServeTimeout + Setback =< Late
      /\ missed < Losses => Slack(missed + 1) = Late + Setback
  BY <1>0, Numbers
\* The server does nothing that counts.
<1>s. ASSUME UNCHANGED inApi PROVE Served'
  BY <1>i, <1>s DEF Served
<1>l. missed' = missed => Late' = Late
  BY DEF Late
<1>a. hbAge' = hbAge => hostAge' = hostAge
  BY DEF hostAge
<1>1. CASE Tick
  <2>1. /\ hostAge' =< hostAge + 1 /\ hostAge' \in Nat /\ Late' = Late
        /\ spent' = spent + 1 /\ UNCHANGED <<phase, due, beat, missed>>
    <3>1. hostAge' = Backend!Older(hostAge)
      BY <1>1 DEF Tick, TickIf, hostAge
    <3>2. hostAge \in Backend!Age
      BY <1>0 DEF LoopTypeOK, Backend!TypeOK, hostAge
    <3>3. QED BY <1>1, <1>0, <1>l, <3>1, <3>2, HostOlder DEF Tick, TickIf, Backend!Age
  <2>2. JobsInv'
    BY <1>i, <2>1 DEF JobsInv
  <2>3. Served'
    <3> SUFFICES ASSUME NEW r \in Heartbeats, inApi'[r] # Backend!IdleRequest
                 PROVE  inApi'[r].kind = "heartbeat" /\ inApi'[r].age =< ServeTimeout
      BY DEF Served
    <3>1. inApi[r] # Backend!IdleRequest /\ inApi'[r] = Backend!Aged(inApi[r])
      BY <1>1 DEF Tick, TickIf
    <3>2. inApi[r].age < ServeTimeout /\ inApi[r].kind = "heartbeat"
      BY <1>1, <1>i, <3>1 DEF Tick, TickIf, Served
    <3>3. inApi[r] \in Backend!ActiveRequest /\ inApi[r].age \in Nat
      BY <1>0, <3>1, BeatTypes DEF LoopTypeOK, Backend!Age
    <3>4. inApi'[r].age =< inApi[r].age + 1 /\ inApi'[r].age \in Nat
      BY <1>0, <3>1, <3>3, AgedTypes DEF Backend!ActiveRequest, Backend!Age
    <3>5. inApi'[r].kind = inApi[r].kind
      BY <3>1 DEF Backend!Aged
    <3>6. QED BY <3>2, <3>3, <3>4, <3>5, Constants
  <2>4. AtOnce'
    <3>1. loop' = loop + 1 \/ loop' >= HeartbeatInterval
      BY <1>1, <1>n, Ticks DEF Tick, TickIf
    <3>2. loop' \in Nat
      BY <1>0, Ticks DEF LoopTypeOK
    <3>3. loop' < HeartbeatInterval => loop < HeartbeatInterval /\ loop' = loop + 1
      BY <1>n, <3>1, <3>2, Constants
    <3>4. phase = "heartbeat" /\ loop < HeartbeatInterval => spent =< loop
      BY <1>i DEF AtOnce
    <3>5. loop \in Nat
      BY <1>n
    <3>6. QED BY <1>n, <2>1, <3>3, <3>4, <3>5 DEF AtOnce
  <2>5. SinceTried'
    <3> DEFINE n == since["heartbeat"]
    <3>1. n' = n + 1 \/ n' >= HeartbeatInterval
      BY <1>1, <1>n, Ticks DEF Tick, TickIf, Job
    <3>2. n \in Nat /\ n' \in Nat
      BY <1>0, Ticks DEF LoopTypeOK, Job
    <3>3. n' < HeartbeatInterval => n < HeartbeatInterval /\ n' = n + 1
      BY <3>1, <3>2, Constants
    <3>4. n < HeartbeatInterval /\ phase \notin {"heartbeat", "down"} => hostAge =< Late + n
      BY <1>i DEF SinceTried
    <3> HIDE DEF n
    <3>5. n' < HeartbeatInterval /\ phase' \notin {"heartbeat", "down"}
            => hostAge' =< Late' + n'
      BY <1>n, <2>1, <3>2, <3>3, <3>4
    <3>6. QED BY <3>5 DEF SinceTried, n
  <2>6. \A b \in Int : hostAge =< b + spent => hostAge' =< b + spent'
    BY <1>n, <2>1
  <2>7. OnTime'
    <3>1. OnTime
      BY <1>i
    <3>2. phase # "top"
      BY <1>1, <1>n, Phases DEF Tick, TickIf
    <3>3. QED BY <1>n, <2>1, <2>6, <3>1, <3>2, Rounds, Constants DEF OnTime
  <2>8. QED BY <2>2, <2>3, <2>4, <2>5, <2>7
<1>2. CASE Look
  <2>1. /\ phase = "top" /\ beat = "none" /\ hostAge' = hostAge /\ Late' = Late
        /\ UNCHANGED <<since, beat, missed, inApi>>
        /\ spent' = 0 /\ loop' = 0 /\ due' \in SUBSET Job /\ JobOrPause(due')
        /\ "heartbeat" \in due' <=> since["heartbeat"] >= HeartbeatInterval
    BY <1>2, <1>a, <1>l, <1>i, Pauses DEF Look, JobsInv, Job, Interval
  <2>2. \/ "heartbeat" \in due' /\ phase' = "heartbeat"
        \/ "heartbeat" \notin due' /\ due' = {"metrics"} /\ phase' = "collect"
        \/ "heartbeat" \notin due' /\ due' = {} /\ phase' = "sleep"
    BY <2>1, Pauses
  <2>3. JobsInv'
    BY <1>i, <2>1, <2>2 DEF JobsInv
  <2>4. AtOnce'
    BY <2>1 DEF AtOnce
  <2>5. hostAge =< Late + Round
        /\ ("heartbeat" \notin due' => hostAge =< Late + since["heartbeat"]
                                       /\ since["heartbeat"] < HeartbeatInterval)
    BY <1>i, <1>n, <2>1, Constants DEF OnTime, SinceTried
  <2>6. SinceTried'
    BY <2>1, <2>2, <2>5 DEF SinceTried
  <2>7. OnTime'
    BY <1>n, <2>1, <2>2, <2>5, Rounds, Constants DEF OnTime
  <2>8. QED BY <1>s, <2>1, <2>3, <2>4, <2>6, <2>7
<1>3. CASE HeartbeatEnds
  <2>1. /\ phase = "heartbeat" /\ beat' = "none" /\ hostAge' = hostAge
        /\ UNCHANGED <<loop, inApi>>
        /\ spent' = 0 /\ since'["heartbeat"] = loop
        /\ due' = due \ {"heartbeat"} /\ due' \in SUBSET Job /\ JobOrPause(due')
        /\ spent =< PostTimeout
    BY <1>0, <1>3, <1>a, <1>n, Pauses, Phases
    DEF HeartbeatEnds, Done, LoopTypeOK, Job
  <2>2. \/ due' = {"metrics"} /\ phase' = "collect"
        \/ due' = {} /\ phase' = "sleep"
    BY <2>1, Pauses
  <2>3. \/ beat = "served" /\ missed' = missed /\ Late' = Late /\ Late = ServeTimeout
        \/ /\ beat # "served" /\ missed < Losses /\ missed' = missed + 1
           /\ Late' = Late + Setback
    BY <1>3, <1>i, <1>t DEF HeartbeatEnds, JobsInv, Late
  <2>4. JobsInv'
    BY <2>1, <2>2 DEF JobsInv
  <2>5. AtOnce'
    BY <2>2 DEF AtOnce
  <2>6. SinceTried'
    BY <1>i, <1>n, <2>1, <2>2, <2>3, Rounds, Constants
    DEF SinceTried, OnTime, AtOnce
  <2>7. OnTime'
    BY <1>i, <1>n, <2>1, <2>2, <2>3, Rounds, Constants DEF OnTime
  <2>8. QED BY <1>s, <2>1, <2>4, <2>5, <2>6, <2>7
<1>4. ASSUME NEW r \in Heartbeats, HeartbeatReads(r) PROVE Parts'
  <2>1. /\ phase = "heartbeat" /\ beat = "none" /\ beat' = r
        /\ UNCHANGED <<phase, spent, loop, since, due, missed>>
        /\ hostAge' = hostAge /\ Late' = Late
        /\ inApi' = [inApi EXCEPT ![r] = [kind |-> "heartbeat", server |-> Host,
                                      loaded |-> "online", age |-> 0]]
    BY <1>4, <1>a, <1>l DEF HeartbeatReads, Backend!RequestReads
  <2>2. beat' # "none" /\ beat' # "served"
    BY <2>1, Constants
  <2>3. Served'
    BY <1>0, <1>i, <2>1, Constants DEF Served, LoopTypeOK, Backend!TypeOK
  <2>4. JobsInv' /\ AtOnce' /\ SinceTried' /\ OnTime'
    BY <1>i, <2>1, <2>2 DEF JobsInv, AtOnce, SinceTried, OnTime
  <2>5. QED BY <2>3, <2>4
<1>5. ASSUME NEW r \in Heartbeats, HeartbeatCommits(r) PROVE Parts'
  <2>1. /\ inApi[r] # Backend!IdleRequest /\ inApi[r].age =< ServeTimeout
        /\ inApi[r].age \in Nat /\ inApi[r].server = Host /\ inApi[r].kind = "heartbeat"
    BY <1>0, <1>5, <1>i, BeatTypes
    DEF HeartbeatCommits, Backend!RequestCommits, Backend!RequestCommitsAs, Served, LoopTypeOK, Backend!Age
  <2>2. /\ hostAge' = inApi[r].age /\ inApi' = [inApi EXCEPT ![r] = Backend!IdleRequest]
        /\ UNCHANGED <<phase, spent, loop, since, due>>
    BY <1>0, <1>5, <2>1
    DEF HeartbeatCommits, Backend!RequestCommits, Backend!RequestCommitsAs, LoopTypeOK,
        Backend!TypeOK, hostAge
  <2>3. hostAge' \in Nat /\ hostAge' =< ServeTimeout
    BY <2>1, <2>2
  <2>4. Served'
    BY <1>0, <1>i, <2>2 DEF Served, LoopTypeOK, Backend!TypeOK
  <2>5. CASE beat = r
    <3>1. beat' = "served" /\ missed' = 0 /\ phase = "heartbeat"
      BY <1>5, <1>i, <2>5, Constants DEF HeartbeatCommits, JobsInv
    <3>2. JobsInv' /\ AtOnce' /\ SinceTried'
      BY <1>i, <2>2, <3>1 DEF JobsInv, AtOnce, SinceTried
    <3>3. OnTime'
      BY <1>n, <2>2, <2>3, <3>1, Constants DEF OnTime
    <3>4. QED BY <2>4, <3>2, <3>3
  <2>6. CASE beat # r
    <3>1. beat' = beat /\ missed' = missed /\ Late' = Late
      BY <1>5, <1>l, <2>6 DEF HeartbeatCommits
    <3>2. JobsInv' /\ AtOnce'
      BY <1>i, <2>2, <3>1 DEF JobsInv, AtOnce
    <3>3. SinceTried'
      BY <1>n, <2>2, <2>3, <3>1, Constants DEF SinceTried
    <3>4. phase = "down" => ServeTimeout + Setback =< Late
      BY <1>i, <1>t DEF JobsInv
    <3>5. OnTime'
      BY <1>n, <2>2, <2>3, <3>1, <3>4, Rounds, Constants DEF OnTime
    <3>6. QED BY <2>4, <3>2, <3>3, <3>5
  <2>7. QED BY <2>5, <2>6
<1>6. ASSUME NEW r \in Heartbeats, HeartbeatFails(r) PROVE Parts'
  <2>1. /\ UNCHANGED agent /\ hostAge' = hostAge /\ Late' = Late
        /\ inApi' = [inApi EXCEPT ![r] = Backend!IdleRequest]
    BY <1>6, <1>a, <1>l DEF HeartbeatFails, Backend!RequestFails, agent
  <2>2. Served'
    BY <1>0, <1>i, <2>1 DEF Served, LoopTypeOK, Backend!TypeOK
  <2>3. JobsInv' /\ AtOnce' /\ SinceTried' /\ OnTime'
    BY <1>i, <2>1 DEF agent, JobsInv, AtOnce, SinceTried, OnTime
  <2>4. QED BY <2>2, <2>3
<1>7. CASE Collect
  <2>1. /\ phase = "collect" /\ phase' = "push" /\ spent' = 0 /\ spent =< 1
        /\ hostAge' = hostAge /\ Late' = Late
        /\ UNCHANGED <<loop, since, due, beat, missed, inApi>>
    BY <1>7, <1>a, <1>l, <1>n, Phases DEF Collect, Goto
  <2>2. JobsInv' /\ AtOnce' /\ SinceTried'
    BY <1>i, <2>1 DEF JobsInv, AtOnce, SinceTried
  <2>3. OnTime'
    BY <1>i, <1>n, <2>1, Rounds, Constants DEF OnTime
  <2>4. QED BY <1>s, <2>1, <2>2, <2>3
<1>8. CASE PushEnds
  <2>1. /\ phase = "push" /\ hostAge' = hostAge /\ Late' = Late
        /\ UNCHANGED <<loop, beat, missed, inApi>>
        /\ spent' = 0 /\ since'["heartbeat"] = since["heartbeat"]
        /\ due' = {} /\ phase' = "sleep" /\ spent =< PostTimeout
    <3>1. /\ phase = "push" /\ Done("metrics") /\ due' = {}
          /\ UNCHANGED <<hbAge, missed, beat, inApi>>
      BY <1>8, <1>i DEF PushEnds, Done, JobsInv
    <3>2. /\ phase' = "sleep" /\ spent' = 0
      BY <3>1, Pauses DEF Done
    <3>3. QED
      BY <1>0, <1>a, <1>l, <1>n, <3>1, <3>2, Phases DEF Done, LoopTypeOK, Job
  <2>2. JobsInv' /\ AtOnce' /\ SinceTried'
    BY <1>i, <2>1 DEF JobsInv, AtOnce, SinceTried
  <2>3. OnTime'
    BY <1>i, <1>n, <2>1, Rounds, Constants DEF OnTime
  <2>4. QED BY <1>s, <2>1, <2>2, <2>3
<1>9. CASE Wake
  <2>1. /\ phase = "sleep" /\ phase' = "top" /\ spent' = 0 /\ spent =< 1
        /\ hostAge' = hostAge /\ Late' = Late
        /\ UNCHANGED <<loop, since, due, beat, missed, inApi>>
    BY <1>9, <1>a, <1>l, <1>n, Phases DEF Wake, Goto
  <2>2. JobsInv' /\ AtOnce' /\ SinceTried'
    BY <1>i, <2>1 DEF JobsInv, AtOnce, SinceTried
  <2>3. OnTime'
    BY <1>i, <1>n, <2>1, Rounds, Constants DEF OnTime
  <2>4. QED BY <1>s, <2>1, <2>2, <2>3
<1>10. CASE AgentDies
  <2>1. /\ phase # "down" /\ phase' = "down" /\ spent' = 0
        /\ missed < Losses /\ missed' = missed + 1 /\ beat' = "none"
        /\ hostAge' = hostAge /\ Late' = Late + Setback /\ UNCHANGED inApi
    BY <1>10, <1>a, <1>t DEF AgentDies, Goto, Late
  <2>2. JobsInv' /\ AtOnce' /\ SinceTried'
    BY <1>n, <2>1, Constants DEF JobsInv, AtOnce, SinceTried
  <2>3. hostAge =< Late + Round + PostTimeout
    BY <1>i, <1>n, <2>1, Rounds, Constants, Phases DEF OnTime
  <2>4. OnTime'
    BY <1>n, <2>1, <2>3, Rounds, Constants DEF OnTime
  <2>5. QED BY <1>s, <2>1, <2>2, <2>4
<1>11. CASE Restart
  <2>1. /\ phase = "down" /\ phase' = "top" /\ spent' = 0 /\ spent =< RestartDelay
        /\ hostAge' = hostAge /\ Late' = Late /\ beat = "none" /\ due' = {}
        /\ since'["heartbeat"] = Longest /\ UNCHANGED <<beat, missed, inApi>>
    BY <1>11, <1>a, <1>i, <1>l, <1>n, Phases DEF Restart, Goto, Job, JobsInv
  <2>2. JobsInv' /\ AtOnce'
    BY <2>1 DEF JobsInv, AtOnce
  <2>3. SinceTried'
    BY <2>1, Ticks, Constants DEF SinceTried
  <2>4. OnTime'
    BY <1>i, <1>n, <2>1, Rounds, Constants DEF OnTime
  <2>5. QED BY <1>s, <2>1, <2>2, <2>3, <2>4
<1>12. CASE UNCHANGED loopVars
  BY <1>12, <1>i, <1>a, <1>l, <1>s
  DEF loopVars, agent, JobsInv, AtOnce, SinceTried, OnTime
<1>13. QED
  BY <1>1, <1>2, <1>3, <1>4, <1>5, <1>6, <1>7, <1>8, <1>9, <1>10, <1>11, <1>12
  DEF LoopNext

-----------------------------------------------------------------------------
(* The loop of the agent and the requests of its heartbeats stay within      *)
(* their types, whatever the intervals, the limits and the timeout.          *)
THEOREM LoopTypesCorrect == LoopSpec => []LoopTypeOK
<1>1. LoopInit => LoopTypeOK
  BY LoopTypeInit
<1>2. LoopTypeOK /\ [LoopNext]_loopVars => LoopTypeOK'
  BY LoopTypeStep
<1>3. QED BY <1>1, <1>2, PTL DEF LoopSpec

(* InfraPulseAgent.run keeps what ServerLiveness assumes of a steady server: a    *)
(* timeout that leaves the margin is never reached, though posts time out,   *)
(* heartbeats are lost and the process is restarted, Losses times in a row.  *)
THEOREM KeepsHostSteadyCorrect ==
  Margin => (LoopSpec => KeepsHostSteady)
<1> SUFFICES ASSUME Margin PROVE LoopSpec => Backend!Spec
  BY DEF KeepsHostSteady
<1>1. LoopInit => LoopInv
  BY LoopInvInit
<1>2. LoopInv /\ [LoopNext]_loopVars => LoopInv'
  BY LoopStep
<1>3. LoopInit => Backend!Init
  BY DEF LoopInit
<1>4. LoopInv /\ [LoopNext]_loopVars => [Backend!Next]_(Backend!vars)
  <2> SUFFICES ASSUME LoopInv, [LoopNext]_loopVars PROVE [Backend!Next]_(Backend!vars)
    OBVIOUS
  <2>1. CASE Tick
    <3>1. Backend!Punctual
      BY <2>1, StaysPunctual
    <3>2. Backend!Tick
      BY <2>1, <3>1 DEF Tick, TickIf, Backend!Tick, Backend!alerts
    <3>3. QED BY <3>2 DEF Backend!Next
  <2>2. ASSUME NEW r \in Heartbeats, HeartbeatReads(r)
        PROVE  Backend!Next
    BY <2>2
    DEF HeartbeatReads, Backend!Next, Backend!Work, Backend!RequestKind
  <2>3. ASSUME NEW r \in Heartbeats, HeartbeatCommits(r)
        PROVE  Backend!Next
    BY <2>3 DEF HeartbeatCommits, Backend!Next, Backend!Work
  <2>4. ASSUME NEW r \in Heartbeats, HeartbeatFails(r)
        PROVE  Backend!Next
    BY <2>4 DEF HeartbeatFails, Backend!Next, Backend!Work
  <2>5. ASSUME UNCHANGED <<hbAge, inApi>> PROVE UNCHANGED Backend!vars
    BY <2>5 DEF Backend!vars, Backend!alerts
  <2>6. CASE HeartbeatEnds \/ Look \/ Collect \/ PushEnds \/ Wake \/ AgentDies \/ Restart
             \/ UNCHANGED loopVars
    BY <2>5, <2>6
    DEF HeartbeatEnds, Look, Collect, PushEnds, Wake, AgentDies, Restart, loopVars
  <2>7. QED BY <2>1, <2>2, <2>3, <2>4, <2>6 DEF LoopNext
<1>5. QED BY <1>1, <1>2, <1>3, <1>4, PTL DEF LoopSpec, Backend!Spec

-----------------------------------------------------------------------------
(* The agent with the checker.  KeepsHostSteady has the loop keep what        *)
(* ServerLiveness assumes of a steady server, but with a backend that has no  *)
(* checker and a status that is always "online".  Here the loop meets the     *)
(* whole of ServerLiveness, of which nothing is assumed: for a crash-prone    *)
(* server time waits for nobody.  The two share the timestamp and the         *)
(* requests, and take each step on them together.                             *)
CONSTANT Checkers
VARIABLES alive, status, open, handled, reopened, run

API == INSTANCE ServerLiveness
  WITH Servers <- {Host}, CrashProne <- {Host}, Requests <- Heartbeats, req <- inApi

checkerVars == <<alive, status, open, handled, reopened, run>>

(* What the loop has the API do, or nothing.                                  *)
ServesLoop ==
  \/ API!Tick
  \/ \E r \in Heartbeats :
       API!RequestReads(r, "heartbeat", Host) \/ API!RequestCommits(r) \/ API!RequestFails(r)
  \/ UNCHANGED API!vars

(* What the checker runs and the operator do meanwhile.                       *)
Checked ==
  \/ API!OperatorHandlesAlert(Host) \/ API!OperatorReopensAlert(Host)
  \/ \E c \in Checkers :
       \/ API!CheckSelects(c) \/ API!CheckExamines(c, Host)
       \/ API!CheckCommits(c) \/ API!CheckFails(c)

MonitoredInit == LoopInit /\ API!Init
MonitoredNext == (LoopNext /\ ServesLoop) \/ (Checked /\ UNCHANGED loopVars)
MonitoredSpec == MonitoredInit /\ [][MonitoredNext]_<<loopVars, checkerVars>>

(* The host is shown online, and nobody was ever told otherwise.              *)
NeverCalledOffline ==
  status[Host] = "online" /\ open[Host] = 0 /\ ~handled[Host] /\ ~reopened[Host]

(* No run holds anything against the host.                                    *)
NothingFound ==
  \A c \in Checkers : run[c] # API!IdleRun =>
    run[c].todo = {} /\ run[c].raise = {} /\ run[c].mark = {}

Rows ==
  /\ alive = [s \in {Host} |-> TRUE]
  /\ status = [s \in {Host} |-> "online"]
  /\ open = [s \in {Host} |-> 0]
  /\ handled = [s \in {Host} |-> FALSE]
  /\ reopened = [s \in {Host} |-> FALSE]
  /\ run \in [Checkers -> API!ActiveRun \cup {API!IdleRun}]

LEMMA HostNotStale ==
  ASSUME Margin, LoopInv
  PROVE  {s \in {Host} : API!Stale(hbAge[s])} = {}
<1>1. hostAge =< Timeout /\ hostAge \in Nat /\ Timeout \in Nat
  <2> USE DEF LoopInv
  <2>1. OnTime
    OBVIOUS
  <2>2. QED BY <2>1, Numbers, Phases, Rounds, Constants DEF OnTime
<1>2. ~ (hostAge > Timeout)
  BY <1>1
<1>3. QED BY <1>2 DEF API!Stale, hostAge

LEMMA CheckersIdle ==
  ASSUME Margin, LoopInv, Rows, NothingFound, Checked
  PROVE  Rows' /\ NothingFound'
<1>1. CASE API!OperatorHandlesAlert(Host) \/ API!OperatorReopensAlert(Host)
  BY <1>1 DEF API!OperatorHandlesAlert, API!OperatorReopensAlert, Rows
<1>2. ASSUME NEW c \in Checkers, API!CheckSelects(c) PROVE Rows' /\ NothingFound'
  <2> DEFINE fresh == [phase |-> "active", todo |-> {}, raise |-> {}, mark |-> {}]
  <2>1. run' = [run EXCEPT ![c] = fresh]
    BY <1>2, HostNotStale DEF API!CheckSelects
  <2>2. fresh \in API!ActiveRun /\ fresh.todo = {} /\ fresh.raise = {} /\ fresh.mark = {}
    BY DEF API!ActiveRun
  <2> HIDE DEF fresh
  <2>3. Rows'
    BY <1>2, <2>1, <2>2 DEF API!CheckSelects, API!alerts, Rows
  <2>4. NothingFound'
    BY <2>1, <2>2 DEF Rows, NothingFound
  <2>5. QED BY <2>3, <2>4
<1>3. ASSUME NEW c \in Checkers, API!CheckExamines(c, Host) PROVE Rows' /\ NothingFound'
  BY <1>3 DEF API!CheckExamines, API!Examine, NothingFound
<1>4. ASSUME NEW c \in Checkers, API!CheckCommits(c) PROVE Rows' /\ NothingFound'
  <2>1. run[c].raise = {} /\ run[c].mark = {}
    BY <1>4 DEF API!CheckCommits, NothingFound
  <2>2. UNCHANGED <<alive, status, open, handled, reopened>> /\ run' = [run EXCEPT ![c] = API!IdleRun]
    BY <1>4, <2>1 DEF API!CheckCommits, Rows
  <2>3. QED BY <2>2 DEF Rows, NothingFound
<1>5. ASSUME NEW c \in Checkers, API!CheckFails(c) PROVE Rows' /\ NothingFound'
  BY <1>5 DEF API!CheckFails, API!alerts, Rows, NothingFound
<1>6. QED BY <1>1, <1>2, <1>3, <1>4, <1>5 DEF Checked

(* What the loop has the API do leaves the status online: a heartbeat was     *)
(* loaded with it.                                                            *)
LEMMA LoopLeavesRows ==
  ASSUME Rows, NothingFound, ServesLoop
  PROVE  Rows' /\ NothingFound'
<1>1. ASSUME UNCHANGED checkerVars PROVE Rows' /\ NothingFound'
  BY <1>1 DEF checkerVars, Rows, NothingFound
<1>2. CASE API!Tick
  BY <1>1, <1>2 DEF checkerVars, API!Tick, API!alerts
<1>3. ASSUME NEW r \in Heartbeats, API!RequestReads(r, "heartbeat", Host)
      PROVE  Rows' /\ NothingFound'
  BY <1>1, <1>3 DEF checkerVars, API!RequestReads, API!alerts
<1>4. ASSUME NEW r \in Heartbeats, API!RequestCommits(r) PROVE Rows' /\ NothingFound'
  <2>1. status' = status
    BY <1>4 DEF API!RequestCommits, API!RequestCommitsAs, Rows
  <2>2. QED BY <1>1, <1>4, <2>1 DEF checkerVars, API!RequestCommits, API!RequestCommitsAs, API!alerts
<1>5. ASSUME NEW r \in Heartbeats, API!RequestFails(r) PROVE Rows' /\ NothingFound'
  BY <1>1, <1>5 DEF checkerVars, API!RequestFails, API!alerts
<1>6. CASE UNCHANGED API!vars
  BY <1>1, <1>6 DEF checkerVars, API!vars, API!alerts
<1>7. QED BY <1>2, <1>3, <1>4, <1>5, <1>6 DEF ServesLoop

(* Taking the steps together excludes nothing: whatever the loop does, the API   *)
(* does, as long as the host is shown online, and the checker waits for nobody.  *)
LEMMA LoopNeverWaits ==
  ASSUME Rows, LoopNext, UNCHANGED checkerVars
  PROVE  ServesLoop
<1>1. CASE Tick
  <2>1. API!Punctual
    BY DEF API!Punctual, API!Steady
  <2>2. API!Tick
    BY <1>1, <2>1 DEF Tick, TickIf, API!Tick, API!Older, Backend!Older, API!Aged, Backend!Aged,
                      API!IdleRequest, Backend!IdleRequest, API!alerts, checkerVars
  <2>3. QED BY <2>2 DEF ServesLoop
<1>2. ASSUME NEW r \in Heartbeats, HeartbeatReads(r) PROVE ServesLoop
  <2>1. alive[Host] /\ status[Host] = "online"
    BY DEF Rows
  <2>2. API!RequestReads(r, "heartbeat", Host)
    BY <1>2, <2>1 DEF HeartbeatReads, Backend!RequestReads, API!RequestReads,
                      API!IdleRequest, Backend!IdleRequest, API!alerts, checkerVars
  <2>3. QED BY <2>2 DEF ServesLoop
<1>3. ASSUME NEW r \in Heartbeats, HeartbeatCommits(r) PROVE ServesLoop
  <2>1. API!RequestCommits(r)
    BY <1>3 DEF HeartbeatCommits, Backend!RequestCommits, Backend!RequestCommitsAs,
                API!RequestCommits, API!RequestCommitsAs, Rows,
                API!IdleRequest, Backend!IdleRequest, API!alerts, checkerVars
  <2>2. QED BY <2>1 DEF ServesLoop
<1>4. ASSUME NEW r \in Heartbeats, HeartbeatFails(r) PROVE ServesLoop
  <2>1. API!RequestFails(r)
    BY <1>4 DEF HeartbeatFails, Backend!RequestFails, API!RequestFails,
                API!IdleRequest, Backend!IdleRequest, API!alerts, checkerVars
  <2>2. QED BY <2>1 DEF ServesLoop
<1>5. CASE HeartbeatEnds \/ Look \/ Collect \/ PushEnds \/ Wake \/ AgentDies \/ Restart
  BY <1>5 DEF HeartbeatEnds, Look, Collect, PushEnds, Wake, AgentDies, Restart,
              checkerVars, API!vars, API!alerts, ServesLoop
<1>6. QED BY <1>1, <1>2, <1>3, <1>4, <1>5 DEF LoopNext

(* A host whose agent runs is never shown offline and nobody is told so, though *)
(* posts time out, heartbeats are lost or late, the agent is restarted and any   *)
(* number of checker runs overlap: check_agent_heartbeats and the loop of        *)
(* infrapulse_agent.py together, as long as the timeout leaves the margin.       *)
THEOREM NeverCalledOfflineCorrect == Margin => (MonitoredSpec => []NeverCalledOffline)
<1> SUFFICES ASSUME Margin PROVE MonitoredSpec => []NeverCalledOffline
  OBVIOUS
<1> DEFINE IInv == LoopInv /\ Rows /\ NothingFound
<1>1. MonitoredInit => IInv
  <2>1. ASSUME MonitoredInit PROVE IInv
    <3>1. LoopInv
      BY <2>1, LoopInvInit DEF MonitoredInit
    <3>2. Rows /\ NothingFound
      BY <2>1 DEF MonitoredInit, API!Init, Rows, NothingFound
    <3>3. QED BY <3>1, <3>2
  <2>2. QED BY <2>1
<1>2. IInv /\ [MonitoredNext]_<<loopVars, checkerVars>> => IInv'
  <2> SUFFICES ASSUME IInv, [MonitoredNext]_<<loopVars, checkerVars>> PROVE IInv'
    OBVIOUS
  <2>1. LoopInv'
    <3>1. [LoopNext]_loopVars
      BY DEF MonitoredNext
    <3>2. QED BY <3>1, LoopStep
  <2>2. Rows' /\ NothingFound'
    <3>1. CASE LoopNext /\ ServesLoop
      BY <3>1, LoopLeavesRows
    <3>2. CASE Checked
      BY <3>2, CheckersIdle
    <3>3. CASE UNCHANGED <<loopVars, checkerVars>>
      BY <3>3 DEF checkerVars, Rows, NothingFound
    <3>4. QED BY <3>1, <3>2, <3>3 DEF MonitoredNext
  <2>3. QED BY <2>1, <2>2
<1>3. IInv => NeverCalledOffline
  BY DEF Rows, NeverCalledOffline
<1>4. QED BY <1>1, <1>2, <1>3, PTL DEF MonitoredSpec
=============================================================================
