------------------------ MODULE ServerLivenessProofs ------------------------
(***************************************************************************)
(* Proofs about ServerLiveness, for every set of servers, requests and     *)
(* checker runs and every timeout.                                         *)
(***************************************************************************)
EXTENDS ServerLiveness, Integers, FiniteSetTheorems, TLAPS

-----------------------------------------------------------------------------
(* What the two record unions of the type invariant give.                  *)

LEMMA RequestTypes ==
  ASSUME TypeOK, NEW r \in Requests, req[r] # IdleRequest
  PROVE  /\ req[r] \in ActiveRequest
         /\ req[r].kind \in RequestKind
         /\ req[r].server \in Servers
         /\ req[r].loaded \in Status
         /\ req[r].age \in Age
BY DEF TypeOK, ActiveRequest

LEMMA RunTypes ==
  ASSUME TypeOK, NEW c \in Checkers, run[c] # IdleRun
  PROVE  /\ run[c] \in ActiveRun
         /\ run[c].todo \subseteq Servers
         /\ run[c].raise \subseteq Servers
         /\ run[c].mark \subseteq Servers
BY DEF TypeOK, ActiveRun

LEMMA OlderAge == ASSUME NEW a \in Age PROVE Older(a) \in Age
BY TimeoutAssumption DEF Age, Older

LEMMA TypeInit == Init => TypeOK
BY TimeoutAssumption DEF Init, TypeOK, Age, Status

LEMMA TypeStep == TypeOK /\ [Next]_vars => TypeOK'
<1> SUFFICES ASSUME TypeOK, [Next]_vars PROVE TypeOK'
  OBVIOUS
<1>1. CASE Tick
  <2>1. ASSUME NEW r \in Requests, req[r] # IdleRequest
        PROVE  Aged(req[r]) \in ActiveRequest
    BY <2>1, RequestTypes, OlderAge DEF Aged, ActiveRequest
  <2>2. req' \in [Requests -> ActiveRequest \cup {IdleRequest}]
    BY <1>1, <2>1 DEF Tick, TypeOK
  <2>3. hbAge' \in [Servers -> Age]
    BY <1>1, OlderAge DEF Tick, TypeOK
  <2>4. QED BY <1>1, <2>2, <2>3 DEF Tick, TypeOK, alerts
<1>2. ASSUME NEW s \in Servers, AgentStops(s) \/ AgentRestarts(s)
      PROVE  TypeOK'
  BY <1>2 DEF AgentStops, AgentRestarts, TypeOK, alerts
<1>3. ASSUME NEW s \in Servers, OperatorHandlesAlert(s) \/ OperatorReopensAlert(s)
      PROVE  TypeOK'
  <2>1. \/ open' = open
        \/ open[s] > 0 /\ open' = [open EXCEPT ![s] = @ - 1]
    BY <1>3 DEF OperatorHandlesAlert, OperatorReopensAlert
  <2>2. open' \in [Servers -> Nat]
    BY <2>1 DEF TypeOK
  <2>3. /\ \E b \in BOOLEAN : handled' \in {handled, [handled EXCEPT ![s] = b]}
        /\ \E b \in BOOLEAN : reopened' \in {reopened, [reopened EXCEPT ![s] = b]}
    BY <1>3, Zenon DEF OperatorHandlesAlert, OperatorReopensAlert
  <2>4. handled' \in [Servers -> BOOLEAN] /\ reopened' \in [Servers -> BOOLEAN]
    BY <2>3 DEF TypeOK
  <2>5. QED
    BY <1>3, <2>2, <2>4 DEF OperatorHandlesAlert, OperatorReopensAlert, TypeOK
<1>4. ASSUME NEW r \in Requests, NEW k \in RequestKind, NEW s \in Servers,
             RequestReads(r, k, s)
      PROVE  TypeOK'
  <2>1. [kind |-> k, server |-> s, loaded |-> status[s], age |-> 0]
           \in ActiveRequest
    BY TimeoutAssumption DEF ActiveRequest, TypeOK, Age
  <2>2. QED BY <1>4, <2>1 DEF RequestReads, TypeOK, alerts
<1>5. ASSUME NEW r \in Requests, RequestCommits(r) PROVE TypeOK'
  <2>1. /\ req[r].server \in Servers
        /\ req[r].age \in Age
    BY <1>5, RequestTypes DEF RequestCommits, RequestCommitsAs
  <2>2. status' \in [Servers -> Status] /\ hbAge' \in [Servers -> Age]
    BY <1>5, <2>1 DEF RequestCommits, RequestCommitsAs, TypeOK, Status
  <2>3. QED BY <1>5, <2>2 DEF RequestCommits, RequestCommitsAs, TypeOK, alerts
<1>6. ASSUME NEW r \in Requests, RequestFails(r) PROVE TypeOK'
  BY <1>6 DEF RequestFails, TypeOK, alerts
<1>7. ASSUME NEW c \in Checkers, CheckSelects(c) PROVE TypeOK'
  BY <1>7 DEF CheckSelects, TypeOK, ActiveRun, alerts
<1>8. ASSUME NEW c \in Checkers, NEW s \in Servers, CheckExamines(c, s)
      PROVE  TypeOK'
  <2>1. run'[c] \in ActiveRun
    BY <1>8, RunTypes DEF CheckExamines, Examine, TypeOK, ActiveRun
  <2>2. run' \in [Checkers -> ActiveRun \cup {IdleRun}]
    BY <1>8, <2>1 DEF CheckExamines, Examine, TypeOK
  <2>3. QED BY <1>8, <2>2 DEF CheckExamines, Examine, TypeOK, alerts
<1>9. ASSUME NEW c \in Checkers, CheckCommits(c) PROVE TypeOK'
  BY <1>9 DEF CheckCommits, TypeOK, Status
<1>10. ASSUME NEW c \in Checkers, CheckFails(c) PROVE TypeOK'
  BY <1>10 DEF CheckFails, TypeOK, alerts
<1>11. CASE UNCHANGED vars
  BY <1>11 DEF vars, alerts, TypeOK
<1>12. QED
  BY <1>1, <1>2, <1>3, <1>4, <1>5, <1>6, <1>7, <1>8, <1>9, <1>10, <1>11
  DEF Next, Work

(* The variables keep their types: in particular the ages stay saturated   *)
(* and a pending run only ever names registered servers.                   *)
THEOREM TypeCorrect == Spec => []TypeOK
BY TypeInit, TypeStep, PTL DEF Spec

-----------------------------------------------------------------------------
(* A run marks a server offline only together with raising its alert.      *)
MarksRaised ==
  \A c \in Checkers : run[c] # IdleRun => run[c].mark \subseteq run[c].raise

(* A server shown offline has an offline alert on record, whatever         *)
(* requests, runs and failures overlap: the checker commits the mark and   *)
(* the alert together, and no handler deletes an alert.                    *)
THEOREM OfflineAlertCorrect == Spec => []OfflineHasAlert
<1> DEFINE IInv == TypeOK /\ MarksRaised /\ OfflineHasAlert
<1>1. Init => IInv
  BY TypeInit DEF Init, MarksRaised, OfflineHasAlert
<1>2. IInv /\ [Next]_vars => IInv'
  <2> SUFFICES ASSUME IInv, [Next]_vars PROVE IInv'
    OBVIOUS
  <2> USE DEF MarksRaised, OfflineHasAlert, AlertOpen, alerts
  <2>0. TypeOK'
    BY TypeStep
  <2>1. CASE Tick
    BY <2>0, <2>1 DEF Tick
  <2>2. ASSUME NEW s \in Servers, AgentStops(s) \/ AgentRestarts(s)
        PROVE  IInv'
    BY <2>0, <2>2 DEF AgentStops, AgentRestarts
  <2>3. ASSUME NEW s \in Servers, OperatorHandlesAlert(s) \/ OperatorReopensAlert(s)
        PROVE  IInv'
    BY <2>0, <2>3 DEF OperatorHandlesAlert, OperatorReopensAlert, TypeOK
  <2>4. ASSUME NEW r \in Requests, NEW k \in RequestKind, NEW s \in Servers,
               RequestReads(r, k, s)
        PROVE  IInv'
    BY <2>0, <2>4 DEF RequestReads
  <2>5. ASSUME NEW r \in Requests, RequestCommits(r) PROVE IInv'
    BY <2>0, <2>5, RequestTypes DEF RequestCommits, RequestCommitsAs, TypeOK
  <2>6. ASSUME NEW r \in Requests, RequestFails(r) PROVE IInv'
    BY <2>0, <2>6 DEF RequestFails
  <2>7. ASSUME NEW c \in Checkers, CheckSelects(c) PROVE IInv'
    BY <2>0, <2>7 DEF CheckSelects, TypeOK
  <2>8. ASSUME NEW c \in Checkers, NEW s \in Servers, CheckExamines(c, s)
        PROVE  IInv'
    BY <2>0, <2>8 DEF CheckExamines, Examine, TypeOK
  <2>9. ASSUME NEW c \in Checkers, CheckCommits(c) PROVE IInv'
    BY <2>0, <2>9 DEF CheckCommits, TypeOK
  <2>10. ASSUME NEW c \in Checkers, CheckFails(c) PROVE IInv'
    BY <2>0, <2>10 DEF CheckFails, TypeOK
  <2>11. CASE UNCHANGED vars
    BY <2>0, <2>11 DEF vars
  <2>12. QED
    BY <2>1, <2>2, <2>3, <2>4, <2>5, <2>6, <2>7, <2>8, <2>9, <2>10, <2>11
    DEF Next, Work
<1>3. QED BY <1>1, <1>2, PTL DEF Spec

-----------------------------------------------------------------------------
(* The runs that will raise an alert for s when they commit.               *)
Pending(s) == {c \in Checkers : run[c] # IdleRun /\ s \in run[c].raise}

(* An untouched alert and a pending one each need a run of their own: a    *)
(* run raises an alert for s only when none is open.                       *)
PendingBounded ==
  \A s \in Servers : open[s] + Cardinality(Pending(s)) =< Cardinality(Checkers)

LEMMA PendingFinite ==
  ASSUME NEW s \in Servers
  PROVE  /\ IsFiniteSet(Pending(s))
         /\ Cardinality(Pending(s)) \in Nat
         /\ Cardinality(Checkers) \in Nat
         /\ Cardinality(Pending(s)) =< Cardinality(Checkers)
<1>1. Pending(s) \subseteq Checkers
  BY DEF Pending
<1>2. QED BY <1>1, CheckersAssumption, FS_Subset, FS_CardinalityType

(* A step that leaves open[s] where it is, or lowers it, and makes no run  *)
(* pending keeps the bound.                                                *)
LEMMA PendingShrinks ==
  ASSUME TypeOK, TypeOK', PendingBounded, NEW s \in Servers,
         open'[s] =< open[s], Pending(s)' \subseteq Pending(s)
  PROVE  open'[s] + Cardinality(Pending(s)') =< Cardinality(Checkers)
<1>1. /\ Cardinality(Pending(s)') =< Cardinality(Pending(s))
      /\ Cardinality(Pending(s)') \in Nat
  BY PendingFinite, FS_Subset, FS_CardinalityType
<1>2. open[s] \in Nat /\ open'[s] \in Nat
  BY DEF TypeOK
<1>3. QED BY <1>1, <1>2, PendingFinite DEF PendingBounded

(* The open offline alerts of a server that nobody has touched since they  *)
(* were raised never outnumber the checker runs that can overlap, whatever *)
(* operators do with older alerts: a run that finds one of those open only *)
(* refrains from raising another.                                          *)
THEOREM UntouchedAlertsBoundCorrect == Spec => []UntouchedAlertsBounded
<1> DEFINE IInv == TypeOK /\ PendingBounded
<1>1. Init => IInv
  <2> SUFFICES ASSUME Init, NEW s \in Servers
               PROVE  open[s] + Cardinality(Pending(s)) =< Cardinality(Checkers)
    BY TypeInit DEF PendingBounded
  <2>1. Pending(s) = {} /\ open[s] = 0
    BY DEF Init, Pending
  <2>2. QED BY <2>1, FS_EmptySet, PendingFinite
<1>2. IInv /\ [Next]_vars => IInv'
  <2> SUFFICES ASSUME IInv, [Next]_vars, NEW t \in Servers
               PROVE  open'[t] + Cardinality(Pending(t)') =< Cardinality(Checkers)
    BY TypeStep DEF PendingBounded
  <2>0. TypeOK'
    BY TypeStep
  <2>1. CASE UNCHANGED <<open, run>>
    BY <2>0, <2>1, PendingShrinks DEF Pending, TypeOK
  <2>2. ASSUME NEW s \in Servers, OperatorHandlesAlert(s)
        PROVE  open'[t] + Cardinality(Pending(t)') =< Cardinality(Checkers)
    BY <2>0, <2>2, PendingShrinks DEF OperatorHandlesAlert, Pending, TypeOK
  <2>3. ASSUME NEW c \in Checkers, CheckSelects(c) \/ CheckFails(c)
        PROVE  open'[t] + Cardinality(Pending(t)') =< Cardinality(Checkers)
    BY <2>0, <2>3, PendingShrinks DEF CheckSelects, CheckFails, Pending, TypeOK, alerts
  <2>4. ASSUME NEW c \in Checkers, NEW s \in Servers, CheckExamines(c, s)
        PROVE  open'[t] + Cardinality(Pending(t)') =< Cardinality(Checkers)
    <3>1. CASE t = s /\ open[s] = 0
      <4>1. open'[t] = 0
        BY <2>4, <3>1 DEF CheckExamines, Examine, alerts
      <4>2. Cardinality(Pending(t)') =< Cardinality(Checkers)
        <5>1. Pending(t)' \subseteq Checkers
          BY DEF Pending
        <5>2. QED BY <5>1, CheckersAssumption, FS_Subset
      <4>3. Cardinality(Pending(t)') \in Nat
        <5>1. Pending(t)' \subseteq Checkers
          BY DEF Pending
        <5>2. QED BY <5>1, CheckersAssumption, FS_Subset, FS_CardinalityType
      <4>4. QED BY <4>1, <4>2, <4>3
    <3>2. CASE ~(t = s /\ open[s] = 0)
      <4>1. open'[t] = open[t] /\ open[t] \in Nat
        BY <2>4 DEF CheckExamines, Examine, TypeOK, alerts
      <4>2. Pending(t)' \subseteq Pending(t)
        BY <2>4, <3>2 DEF CheckExamines, Examine, AlertOpen, Pending, TypeOK, IdleRun
      <4>3. QED BY <2>0, <4>1, <4>2, PendingShrinks
    <3>3. QED BY <3>1, <3>2
  <2>5. ASSUME NEW c \in Checkers, CheckCommits(c)
        PROVE  open'[t] + Cardinality(Pending(t)') =< Cardinality(Checkers)
    <3>1. Pending(t)' = Pending(t) \ {c}
      BY <2>5 DEF CheckCommits, Pending, TypeOK
    <3>2. CASE t \in run[c].raise
      <4>1. c \in Pending(t) /\ open'[t] = open[t] + 1 /\ open[t] \in Nat
        BY <2>5, <3>2 DEF CheckCommits, Pending, TypeOK
      <4>2. Cardinality(Pending(t)') = Cardinality(Pending(t)) - 1
        BY <3>1, <4>1, PendingFinite, FS_RemoveElement
      <4>3. QED BY <4>1, <4>2, PendingFinite DEF PendingBounded
    <3>3. CASE t \notin run[c].raise
      <4>1. open'[t] = open[t] /\ open[t] \in Nat
        BY <2>5, <3>3 DEF CheckCommits, TypeOK
      <4>2. QED BY <2>0, <3>1, <4>1, PendingShrinks
    <3>4. QED BY <3>2, <3>3
  <2>6. QED
    BY <2>1, <2>2, <2>3, <2>4, <2>5
    DEF Next, Work, vars, Tick, AgentStops, AgentRestarts, RequestReads,
        OperatorReopensAlert, RequestCommits, RequestCommitsAs, RequestFails, alerts
<1>3. IInv => UntouchedAlertsBounded
  BY PendingFinite DEF PendingBounded, UntouchedAlertsBounded, TypeOK
<1>4. QED BY <1>1, <1>2, <1>3, PTL DEF Spec

-----------------------------------------------------------------------------
(* No timestamp of a steady agent, stored or on its way to the database,   *)
(* is past the timeout, and no run holds its server for stale.             *)
SteadyFresh ==
  /\ \A s \in Steady : alive[s] /\ hbAge[s] =< Timeout
  /\ \A r \in Requests :
       req[r] # IdleRequest /\ req[r].server \in Steady => req[r].age =< Timeout
  /\ \A c \in Checkers : run[c] # IdleRun =>
       \A s \in Steady : /\ s \notin run[c].todo
                        /\ s \notin run[c].raise
                        /\ s \notin run[c].mark

(* A server whose agent never stops and keeps its heartbeats punctual is   *)
(* never shown offline and never alerted about: the strict comparison of   *)
(* the checker suffices, whatever requests and runs overlap.               *)
THEOREM NoFalseAlarmCorrect == Spec => []NoFalseAlarm
<1> DEFINE IInv == TypeOK /\ SteadyFresh /\ NoFalseAlarm
<1>1. Init => IInv
  BY TypeInit, TimeoutAssumption DEF Init, SteadyFresh, NoFalseAlarm, AlertOpen, Steady
<1>2. IInv /\ [Next]_vars => IInv'
  <2> SUFFICES ASSUME IInv, [Next]_vars PROVE IInv'
    OBVIOUS
  <2> USE DEF Steady, NoFalseAlarm, AlertOpen, alerts
  <2>0. TypeOK'
    BY TypeStep
  <2>1. CASE Tick
    <3>1. ASSUME NEW s \in Steady PROVE alive'[s] /\ hbAge'[s] =< Timeout
      BY <2>1, <3>1, TimeoutAssumption
      DEF Tick, Punctual, SteadyFresh, TypeOK, Older, Age
    <3>2. ASSUME NEW r \in Requests, req'[r] # IdleRequest,
                 req'[r].server \in Steady
          PROVE  req'[r].age =< Timeout
      <4>1. req[r] # IdleRequest
        BY <2>1, <3>2 DEF Tick
      <4>2. req'[r].server = req[r].server /\ req'[r].age = Older(req[r].age)
        BY <2>1, <4>1 DEF Tick, Aged
      <4>3. req[r].age \in Nat /\ req[r].age < Timeout
        BY <2>1, <3>2, <4>1, <4>2, RequestTypes DEF Tick, Punctual, Age
      <4>4. QED BY <4>2, <4>3, TimeoutAssumption DEF Older
    <3>3. UNCHANGED <<alive, status, alerts, run>>
      BY <2>1 DEF Tick
    <3>4. QED BY <2>0, <3>1, <3>2, <3>3 DEF SteadyFresh
  <2>2. ASSUME NEW s \in Servers, AgentStops(s) \/ AgentRestarts(s)
        PROVE  IInv'
    BY <2>0, <2>2 DEF AgentStops, AgentRestarts, SteadyFresh, TypeOK
  <2>3. ASSUME NEW s \in Servers, OperatorHandlesAlert(s) \/ OperatorReopensAlert(s)
        PROVE  IInv'
    BY <2>0, <2>3 DEF OperatorHandlesAlert, OperatorReopensAlert, SteadyFresh, TypeOK
  <2>4. ASSUME NEW r \in Requests, NEW k \in RequestKind, NEW s \in Servers,
               RequestReads(r, k, s)
        PROVE  IInv'
    BY <2>0, <2>4, TimeoutAssumption DEF RequestReads, SteadyFresh, TypeOK
  <2>5. ASSUME NEW r \in Requests, RequestCommits(r) PROVE IInv'
    BY <2>0, <2>5, RequestTypes DEF RequestCommits, RequestCommitsAs, SteadyFresh, TypeOK
  <2>6. ASSUME NEW r \in Requests, RequestFails(r) PROVE IInv'
    BY <2>0, <2>6 DEF RequestFails, SteadyFresh, TypeOK
  <2>7. ASSUME NEW c \in Checkers, CheckSelects(c) PROVE IInv'
    BY <2>0, <2>7, TimeoutAssumption
    DEF CheckSelects, SteadyFresh, TypeOK, Stale, Age
  <2>8. ASSUME NEW c \in Checkers, NEW s \in Servers, CheckExamines(c, s)
        PROVE  IInv'
    BY <2>0, <2>8 DEF CheckExamines, Examine, SteadyFresh, TypeOK
  <2>9. ASSUME NEW c \in Checkers, CheckCommits(c) PROVE IInv'
    BY <2>0, <2>9 DEF CheckCommits, SteadyFresh, TypeOK
  <2>10. ASSUME NEW c \in Checkers, CheckFails(c) PROVE IInv'
    BY <2>0, <2>10 DEF CheckFails, SteadyFresh, TypeOK
  <2>11. CASE UNCHANGED vars
    BY <2>0, <2>11 DEF vars, SteadyFresh
  <2>12. QED
    BY <2>1, <2>2, <2>3, <2>4, <2>5, <2>6, <2>7, <2>8, <2>9, <2>10, <2>11
    DEF Next, Work
<1>3. QED BY <1>1, <1>2, PTL DEF Spec
=============================================================================
