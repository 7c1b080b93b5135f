--------------------------- MODULE AnalysesProofs ---------------------------
(***************************************************************************)
(* Proofs about Analyses, for any sets of alerts, incidents, servers,       *)
(* providers and overlapping handlers.  Each invariant is inductive          *)
(* together with the types.                                                 *)
(***************************************************************************)
EXTENDS Analyses, FiniteSetTheorems, TLAPS

(* A handler in flight carries the record of its kind.                     *)
LEMMA KindOfRequest ==
  ASSUME TypeOK, NEW q \in Requests
  PROVE  /\ Is(q, "analyse") => req[q] \in AnalyseRequest
         /\ Is(q, "status") => req[q] \in StatusRequest
         /\ Is(q, "incident") => req[q] \in IncidentRequest
         /\ Is(q, "link") => req[q] \in LinkRequest
         /\ Is(q, "config") => req[q] \in ConfigRequest
<1> DEFINE r == req[q]
<1>1. r \in {Idle} \cup AnalyseRequest \cup StatusRequest \cup IncidentRequest
              \cup LinkRequest \cup ConfigRequest
  BY DEF TypeOK
<1>2. /\ Idle.kind = "idle"
      /\ \A x \in AnalyseRequest : x.kind = "analyse"
      /\ \A x \in StatusRequest : x.kind = "status"
      /\ \A x \in IncidentRequest : x.kind = "incident"
      /\ \A x \in LinkRequest : x.kind = "link"
      /\ \A x \in ConfigRequest : x.kind = "config"
  BY DEF Idle, AnalyseRequest, StatusRequest, IncidentRequest, LinkRequest,
         ConfigRequest
<1> QED
  BY <1>1, <1>2 DEF Is

-----------------------------------------------------------------------------
LEMMA InitTypeOK == Init => TypeOK
BY ProvidersAssumption, StatusAssumption
   DEF Init, TypeOK, Config, AlertRow, IncidentStatus, Targets

(* Loading puts a record of the right kind into the handler.               *)
LEMMA LoadTypeOK ==
  ASSUME TypeOK, NEW q \in Requests, NEW r, Load(q, r),
         r \in AnalyseRequest \cup StatusRequest \cup IncidentRequest
                 \cup LinkRequest \cup ConfigRequest
  PROVE  TypeOK'
BY DEF TypeOK, Load, rows

(* A handler that ends leaves the types of the handlers as they are.       *)
LEMMA DoneTypeOK ==
  ASSUME TypeOK, NEW q \in Requests, Done(q)
  PROVE  req' \in [Requests -> {Idle} \cup AnalyseRequest \cup StatusRequest
                     \cup IncidentRequest \cup LinkRequest \cup ConfigRequest]
BY DEF TypeOK, Done

LEMMA NextTypeOK == TypeOK /\ [Next]_vars => TypeOK'
<1> SUFFICES ASSUME TypeOK, [Next]_vars PROVE TypeOK'
  OBVIOUS
<1>1. ASSUME NEW q \in Requests, NEW t \in Targets, LoadAnalyse(q, t)
      PROVE  TypeOK'
  <2>1. t \in Alerts => alert[t] \in AlertRow
    BY DEF TypeOK
  <2>2. [kind |-> "analyse", target |-> t, cfg |-> config,
         row |-> IF t \in Alerts THEN alert[t] ELSE Idle] \in AnalyseRequest
    BY <2>1 DEF AnalyseRequest, TypeOK
  <2> QED
    BY <1>1, <2>2, LoadTypeOK DEF LoadAnalyse
<1>2. ASSUME NEW q \in Requests, CommitAnalysis(q)
      PROVE  TypeOK'
  <2> DEFINE t == req[q].target
  <2>1. Is(q, "analyse") /\ Done(q)
    BY <1>2 DEF CommitAnalysis, StoreAnalysis
  <2>2. t \in Targets
    BY <2>1, KindOfRequest DEF AnalyseRequest
  <2>3. completed' \subseteq Targets
    BY <1>2, <2>2 DEF CommitAnalysis, StoreAnalysis, TypeOK
  <2>4. t \in Alerts => [status |-> alert[t].status, analyzed |-> TRUE] \in AlertRow
    BY DEF TypeOK, AlertRow
  <2>5. alert' \in [Alerts -> AlertRow]
    BY <1>2, <2>4 DEF CommitAnalysis, StoreAnalysis, CurrentStatus, TypeOK
  <2> QED
    BY <1>2, <2>1, <2>3, <2>5, DoneTypeOK DEF CommitAnalysis, StoreAnalysis, TypeOK
<1>3. ASSUME NEW q \in Requests, NEW c \in Config, LoadConfig(q, c)
      PROVE  TypeOK'
  <2>1. [kind |-> "config", loaded |-> config, new |-> c] \in ConfigRequest
    BY DEF ConfigRequest, TypeOK
  <2> QED
    BY <1>3, <2>1, LoadTypeOK DEF LoadConfig
<1>4. ASSUME NEW q \in Requests, CommitConfig(q)
      PROVE  TypeOK'
  <2>1. req[q].new \in Config
    BY <1>4, KindOfRequest DEF CommitConfig, ConfigRequest
  <2> QED
    BY <1>4, <2>1, DoneTypeOK DEF CommitConfig, TypeOK
<1>5. ASSUME NEW q \in Requests, NEW a \in Alerts, NEW s \in Statuses,
             LoadStatus(q, a, s)
      PROVE  TypeOK'
  <2>1. [kind |-> "status", alert |-> a, loaded |-> alert[a].status, new |-> s]
          \in StatusRequest
    BY DEF StatusRequest, TypeOK, AlertRow
  <2> QED
    BY <1>5, <2>1, LoadTypeOK DEF LoadStatus
<1>6. ASSUME NEW q \in Requests, CommitStatus(q)
      PROVE  TypeOK'
  <2>1. req[q].alert \in Alerts /\ req[q].new \in Statuses
    BY <1>6, KindOfRequest DEF CommitStatus, StatusRequest
  <2>2. alert' \in [Alerts -> AlertRow]
    BY <1>6, <2>1 DEF CommitStatus, TypeOK, AlertRow
  <2> QED
    BY <1>6, <2>2, DoneTypeOK DEF CommitStatus, TypeOK
<1>7. ASSUME NEW q \in Requests, NEW i \in Incidents, NEW s \in IncidentStatus,
             LoadIncident(q, i, s)
      PROVE  TypeOK'
  <2>1. [kind |-> "incident", incident |-> i, loaded |-> incident[i],
         stamped |-> stamps[i] > 0, new |-> s] \in IncidentRequest
    <3>1. incident[i] \in IncidentStatus
      BY <1>7 DEF LoadIncident, TypeOK
    <3>2. (stamps[i] > 0) \in BOOLEAN
      BY DEF TypeOK
    <3> QED
      BY <3>1, <3>2 DEF IncidentRequest
  <2> QED
    BY <1>7, <2>1, LoadTypeOK DEF LoadIncident
<1>8. ASSUME NEW q \in Requests, CommitIncident(q)
      PROVE  TypeOK'
  <2>1. req[q].incident \in Incidents /\ req[q].new \in IncidentStatus
    BY <1>8, KindOfRequest DEF CommitIncident, StampIf, IncidentRequest
  <2>2. incident' \in [Incidents -> IncidentStatus \cup {"absent"}]
    BY <1>8, <2>1 DEF CommitIncident, StampIf, TypeOK
  <2>3. stamps' \in [Incidents -> Nat]
    BY <1>8, <2>1 DEF CommitIncident, StampIf, TypeOK
  <2> QED
    BY <1>8, <2>2, <2>3, DoneTypeOK DEF CommitIncident, StampIf, TypeOK
<1>9. ASSUME NEW q \in Requests, NEW i \in Incidents, NEW a \in Alerts,
             LoadLink(q, i, a)
      PROVE  TypeOK'
  <2>1. [kind |-> "link", incident |-> i, alert |-> a, known |-> <<i, a>> \in links]
          \in LinkRequest
    BY DEF LinkRequest
  <2> QED
    BY <1>9, <2>1, LoadTypeOK DEF LoadLink
<1>10. ASSUME NEW q \in Requests, CommitLink(q)
       PROVE  TypeOK'
  <2>1. req[q].incident \in Incidents /\ req[q].alert \in Alerts
    BY <1>10, KindOfRequest DEF CommitLink, LinkRequest
  <2> QED
    BY <1>10, <2>1, DoneTypeOK DEF CommitLink, TypeOK
<1>11. ASSUME NEW q \in Requests, RequestFails(q)
       PROVE  TypeOK'
  BY <1>11, DoneTypeOK DEF RequestFails, rows, TypeOK
<1>12. ASSUME NEW i \in Incidents, NEW as \in SUBSET Alerts, CreateIncident(i, as)
       PROVE  TypeOK'
  BY <1>12 DEF CreateIncident, CreateIncidentAs, TypeOK, IncidentStatus
<1>13. CASE UNCHANGED vars
  BY <1>13 DEF vars, rows, TypeOK
<1> QED
  BY <1>1, <1>2, <1>3, <1>4, <1>5, <1>6, <1>7, <1>8, <1>9, <1>10, <1>11, <1>12,
     <1>13 DEF Next

(* Every row and every handler in flight is of its type.                   *)
THEOREM TypeCorrect == Spec => []TypeOK
<1>1. Init => TypeOK
  BY InitTypeOK
<1>2. TypeOK /\ [Next]_vars => TypeOK'
  BY NextTypeOK
<1> QED
  BY <1>1, <1>2, PTL DEF Spec

-----------------------------------------------------------------------------
(* What a step does to an alert: an analysis marks it and leaves the status, *)
(* and only when its provider was usable; a change of status leaves the mark. *)
LEMMA AlertStep ==
  ASSUME TypeOK, [Next]_vars, NEW a \in Alerts
  PROVE  /\ completed \subseteq completed'
         /\ \/ alert'[a].analyzed = alert[a].analyzed
            \/ alert'[a].status = alert[a].status /\ a \in completed'
<1>1. ASSUME NEW q \in Requests, CommitAnalysis(q)
      PROVE  /\ completed \subseteq completed'
             /\ \/ alert'[a].analyzed = alert[a].analyzed
                \/ alert'[a].status = alert[a].status /\ a \in completed'
  <2> DEFINE t == req[q].target
  <2>1. completed \subseteq completed'
    BY <1>1 DEF CommitAnalysis, StoreAnalysis
  <2>2. CASE alert'[a] = alert[a]
    BY <2>1, <2>2
  <2>3. CASE alert'[a] # alert[a]
    <3>1. /\ t = a /\ Usable(req[q].cfg)
          /\ alert' = [alert EXCEPT ![t] = [status |-> alert[t].status,
                                            analyzed |-> TRUE]]
      BY <1>1, <2>3 DEF CommitAnalysis, StoreAnalysis, CurrentStatus, TypeOK
    <3>2. a \in completed'
      BY <1>1, <3>1 DEF CommitAnalysis, StoreAnalysis
    <3>3. alert'[a].status = alert[a].status
      BY <3>1 DEF TypeOK
    <3> QED
      BY <2>1, <3>2, <3>3
  <2> QED
    BY <2>2, <2>3
<1>2. ASSUME NEW q \in Requests, CommitStatus(q)
      PROVE  completed' = completed /\ alert'[a].analyzed = alert[a].analyzed
  <2>1. req[q].alert \in Alerts
    BY <1>2, KindOfRequest DEF CommitStatus, StatusRequest
  <2> QED
    BY <1>2, <2>1 DEF CommitStatus, TypeOK, AlertRow
<1>3. \/ \E q \in Requests : CommitAnalysis(q) \/ CommitStatus(q)
      \/ alert' = alert /\ completed' = completed
  BY DEF Next, LoadAnalyse, LoadConfig, CommitConfig, LoadStatus, LoadIncident,
         CommitIncident, StampIf, LoadLink, CommitLink, RequestFails, Load,
         CreateIncident, CreateIncidentAs, rows, vars
<1> QED
  BY <1>1, <1>2, <1>3

(* ai_analyzed is set in the commit that stores the completed analysis, and *)
(* no later change of the configuration or the status parts them.           *)
THEOREM MarkedOnlyWhenAnalyzed == Spec => []AnalyzedHasAnalysis
<1>1. Init => AnalyzedHasAnalysis
  BY DEF Init, AnalyzedHasAnalysis
<1>2. TypeOK /\ AnalyzedHasAnalysis /\ [Next]_vars => AnalyzedHasAnalysis'
  <2> SUFFICES ASSUME TypeOK, AnalyzedHasAnalysis, [Next]_vars,
                      NEW a \in Alerts, alert'[a].analyzed
               PROVE  a \in completed'
    BY DEF AnalyzedHasAnalysis
  <2>1. /\ completed \subseteq completed'
        /\ \/ alert'[a].analyzed = alert[a].analyzed
           \/ alert'[a].status = alert[a].status /\ a \in completed'
    BY AlertStep
  <2> QED
    BY <2>1 DEF AnalyzedHasAnalysis
<1> QED
  BY <1>1, <1>2, TypeCorrect, PTL DEF Spec

(* The step that marks an alert leaves the status that operators gave it    *)
(* while the provider was thinking.                                         *)
THEOREM StatusSurvivesAnalysis == Spec => AnalysisKeepsStatus
<1>1. TypeOK /\ [Next]_vars =>
        [\A a \in Alerts : alert'[a].analyzed # alert[a].analyzed
                             => alert'[a].status = alert[a].status]_vars
  BY AlertStep
<1> QED
  BY <1>1, TypeCorrect, PTL DEF Spec, AnalysisKeepsStatus

-----------------------------------------------------------------------------
LEMMA WillStampFinite ==
  ASSUME NEW i
  PROVE  /\ IsFiniteSet(WillStamp(i))
         /\ Cardinality(WillStamp(i)) \in Nat
         /\ Cardinality(WillStamp(i)) =< Cardinality(Requests)
         /\ Cardinality(Requests) \in Nat
<1>1. WillStamp(i) \subseteq Requests
  BY DEF WillStamp
<1> QED
  BY <1>1, RequestsAssumption, FS_Subset, FS_CardinalityType

(* The number of commits that set resolved_at, with those in flight that    *)
(* will, stays within the handlers in flight: whoever loads the incident    *)
(* afterwards finds it stamped.                                             *)
LEMMA StampStep ==
  ASSUME TypeOK, StampsBounded, [Next]_vars, NEW i \in Incidents
  PROVE  stamps'[i] + Cardinality(WillStamp(i)') =< Cardinality(Requests)
<1> DEFINE W == WillStamp(i)
           X == WillStamp(i)'
           n == Cardinality(Requests)
<1>0. /\ IsFiniteSet(W) /\ Cardinality(W) \in Nat /\ n \in Nat
      /\ IsFiniteSet(X) /\ Cardinality(X) \in Nat /\ Cardinality(X) =< n
  <2>1. X \subseteq Requests
    BY DEF WillStamp
  <2> QED
    BY <2>1, WillStampFinite, RequestsAssumption, FS_Subset, FS_CardinalityType
<1>1. stamps[i] \in Nat /\ stamps[i] + Cardinality(W) =< n
  BY DEF StampsBounded, TypeOK
<1>2. ASSUME stamps'[i] = stamps[i], X \subseteq W
      PROVE  stamps'[i] + Cardinality(X) =< n
  <2>1. Cardinality(X) =< Cardinality(W)
    BY <1>0, <1>2, FS_Subset
  <2> QED
    BY <1>0, <1>1, <1>2, <2>1
<1>3. ASSUME NEW q \in Requests, NEW j \in Incidents, NEW s \in IncidentStatus,
             LoadIncident(q, j, s)
      PROVE  stamps'[i] + Cardinality(X) =< n
  <2>1. stamps' = stamps
    BY <1>3 DEF LoadIncident, Load, rows
  <2>2. CASE stamps[i] = 0
    BY <1>0, <2>1, <2>2
  <2>3. CASE stamps[i] # 0
    <3>1. stamps[i] > 0
      BY <1>1, <2>3
    <3>2. req' = [req EXCEPT ![q] = [kind |-> "incident", incident |-> j,
            loaded |-> incident[j], stamped |-> stamps[j] > 0, new |-> s]]
      BY <1>3 DEF LoadIncident, Load
    <3>3. X \subseteq W
      BY <3>1, <3>2 DEF WillStamp, Is, TypeOK
    <3> QED
      BY <1>2, <2>1, <3>3
  <2> QED
    BY <2>2, <2>3
<1>4. ASSUME NEW q \in Requests, CommitIncident(q)
      PROVE  stamps'[i] + Cardinality(X) =< n
  <2>1. req' = [req EXCEPT ![q] = Idle] /\ Is(q, "incident")
    BY <1>4 DEF CommitIncident, StampIf, Done
  <2>2. X \subseteq W \ {q}
    BY <2>1 DEF WillStamp, Is, Idle, TypeOK
  <2>3. CASE stamps'[i] = stamps[i]
    BY <1>2, <2>2, <2>3
  <2>4. CASE stamps'[i] # stamps[i]
    <3>1. q \in W /\ stamps'[i] = stamps[i] + 1
      BY <1>4, <2>4 DEF CommitIncident, StampIf, WillStamp, TypeOK
    <3>2. /\ IsFiniteSet(W \ {q})
          /\ Cardinality(W \ {q}) = Cardinality(W) - 1
      BY <1>0, <3>1, FS_RemoveElement
    <3>3. Cardinality(X) =< Cardinality(W) - 1
      BY <2>2, <3>2, FS_Subset
    <3> QED
      BY <1>0, <1>1, <3>1, <3>3
  <2> QED
    BY <2>3, <2>4
<1>5. ASSUME NEW q \in Requests, NEW r, Load(q, r), r.kind # "incident"
      PROVE  stamps'[i] = stamps[i] /\ X \subseteq W
  BY <1>5 DEF Load, rows, WillStamp, Is, TypeOK
<1>6. ASSUME NEW q \in Requests, Done(q), stamps' = stamps
      PROVE  stamps'[i] = stamps[i] /\ X \subseteq W
  BY <1>6 DEF Done, WillStamp, Is, Idle, TypeOK
<1>7. ASSUME req' = req, stamps' = stamps
      PROVE  stamps'[i] = stamps[i] /\ X \subseteq W
  BY <1>7 DEF WillStamp, Is
<1>8. ASSUME NEW q \in Requests, NEW t \in Targets, LoadAnalyse(q, t)
      PROVE  stamps'[i] + Cardinality(X) =< n
  BY <1>2, <1>5, <1>8 DEF LoadAnalyse
<1>9. ASSUME NEW q \in Requests, NEW c, LoadConfig(q, c)
      PROVE  stamps'[i] + Cardinality(X) =< n
  BY <1>2, <1>5, <1>9 DEF LoadConfig
<1>10. ASSUME NEW q \in Requests, NEW a, NEW s, LoadStatus(q, a, s)
       PROVE  stamps'[i] + Cardinality(X) =< n
  BY <1>2, <1>5, <1>10 DEF LoadStatus
<1>11. ASSUME NEW q \in Requests, NEW j, NEW a, LoadLink(q, j, a)
       PROVE  stamps'[i] + Cardinality(X) =< n
  BY <1>2, <1>5, <1>11 DEF LoadLink
<1>12. ASSUME NEW q \in Requests,
              \/ CommitAnalysis(q) \/ CommitConfig(q) \/ CommitStatus(q)
              \/ CommitLink(q) \/ RequestFails(q)
       PROVE  stamps'[i] + Cardinality(X) =< n
  <2>1. Done(q) /\ stamps' = stamps
    BY <1>12 DEF CommitAnalysis, StoreAnalysis, CommitConfig, CommitStatus,
                 CommitLink, RequestFails, rows
  <2> QED
    BY <1>2, <1>6, <2>1
<1>13. ASSUME \/ \E j \in Incidents, as \in SUBSET Alerts : CreateIncident(j, as)
              \/ UNCHANGED vars
       PROVE  stamps'[i] + Cardinality(X) =< n
  <2>1. req' = req /\ stamps' = stamps
    BY <1>13 DEF CreateIncident, CreateIncidentAs, vars, rows
  <2> QED
    BY <1>2, <1>7, <2>1
<1> QED
  BY <1>3, <1>4, <1>8, <1>9, <1>10, <1>11, <1>12, <1>13 DEF Next

(* However often an incident is resolved and opened again, resolved_at is   *)
(* set no more often than handlers overlap.                                 *)
THEOREM StampsStayBounded == Spec => []StampsBounded
<1>1. Init => StampsBounded
  <2> SUFFICES ASSUME Init, NEW i \in Incidents
               PROVE  stamps[i] + Cardinality(WillStamp(i)) =< Cardinality(Requests)
    BY DEF StampsBounded
  <2>1. stamps[i] = 0
    BY DEF Init
  <2> QED
    BY <2>1, WillStampFinite
<1>2. TypeOK /\ StampsBounded /\ [Next]_vars => StampsBounded'
  BY StampStep DEF StampsBounded
<1> QED
  BY <1>1, <1>2, TypeCorrect, PTL DEF Spec
=============================================================================
