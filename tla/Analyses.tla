------------------------------ MODULE Analyses ------------------------------
(***************************************************************************)
(* AI analyses of alerts, incidents and servers (api/v1/ai_ops.py,          *)
(* services/ai/orchestrator.py), and the operators who change the same      *)
(* rows meanwhile: the status of an alert (api/v1/alerts.py), incidents     *)
(* (api/v1/incidents.py) and the provider configuration.                    *)
(*                                                                         *)
(* Every handler is one session that loads its rows, and writes at its      *)
(* commit the columns whose value then differs from the loaded one.  An     *)
(* analysis waits for its provider in between, for up to minutes.           *)
(***************************************************************************)
EXTENDS Naturals, FiniteSets

CONSTANTS
  Alerts, Incidents, Servers,  \* what may be analysed
  Statuses,         \* values of alerts.status
  Requests,         \* handlers that may be in flight at once
  Hosted, Local,    \* providers that need an API key; that need none
  Defaults,         \* those with a key in the environment
  DefaultProvider,  \* "groq"
  Keys              \* the forms in which a configuration brings its key

ASSUME RequestsAssumption == IsFiniteSet(Requests)
ASSUME ProvidersAssumption ==
  Defaults \subseteq Hosted /\ DefaultProvider \in Hosted
ASSUME KeysAssumption == Keys \subseteq {"none", "api_key", "named"}
ASSUME StatusAssumption == "open" \in Statuses

VARIABLES
  config,     \* organizations.ai_provider_config
  alert,      \* alert[a]: status and ai_analyzed of the row
  incident,   \* incident[i]: status of the row, "absent" before it is created
  stamps,     \* stamps[i]: how many commits have set incidents.resolved_at
  links,      \* the rows of incident_alerts
  completed,  \* what has an ai_analyses row with status "completed"
  req         \* req[q]: what in-flight handler q has read

rows == <<config, alert, incident, stamps, links, completed>>
vars == <<rows, req>>

-----------------------------------------------------------------------------
Targets == Alerts \cup Incidents \cup Servers

\* update_incident assigns any string; "investigating" stands for all those that
\* the code does not name.
IncidentStatus == {"open", "investigating", "resolved"}

\* key: "named" is the field that _get_provider looks up ("groq_api_key"),
\* "api_key" the one that the configuration page sends, for every provider.
Config == [provider : Hosted \cup Local, key : {"none", "api_key", "named"}]

AlertRow == [status : Statuses, analyzed : BOOLEAN]

Idle == [kind |-> "idle"]
AnalyseRequest ==
  [kind : {"analyse"}, target : Targets, cfg : Config,
   row : AlertRow \cup {Idle}]       \* the alert as it was loaded
StatusRequest ==
  [kind : {"status"}, alert : Alerts, loaded : Statuses, new : Statuses]
IncidentRequest ==
  [kind : {"incident"}, incident : Incidents, loaded : IncidentStatus,
   stamped : BOOLEAN, new : IncidentStatus]
LinkRequest ==
  [kind : {"link"}, incident : Incidents, alert : Alerts, known : BOOLEAN]
ConfigRequest == [kind : {"config"}, loaded : Config, new : Config]

TypeOK ==
  /\ config \in Config
  /\ alert \in [Alerts -> AlertRow]
  /\ incident \in [Incidents -> IncidentStatus \cup {"absent"}]
  /\ stamps \in [Incidents -> Nat]
  /\ links \subseteq Incidents \X Alerts
  /\ completed \subseteq Targets
  /\ req \in [Requests -> {Idle} \cup AnalyseRequest \cup StatusRequest
                \cup IncidentRequest \cup LinkRequest \cup ConfigRequest]

Init ==
  /\ config = [provider |-> DefaultProvider, key |-> "none"]
  /\ alert = [a \in Alerts |-> [status |-> "open", analyzed |-> FALSE]]
  /\ incident = [i \in Incidents |-> "absent"]
  /\ stamps = [i \in Incidents |-> 0]
  /\ links = {}
  /\ completed = {}
  /\ req = [q \in Requests |-> Idle]

-----------------------------------------------------------------------------
Is(q, kind) == req[q].kind = kind
Load(q, r) ==
  /\ Is(q, "idle")
  /\ req' = [req EXCEPT ![q] = r]
  /\ UNCHANGED rows
Done(q) == req' = [req EXCEPT ![q] = Idle]

\* The handler dies, the database refuses, or the row is gone: nothing remains.
RequestFails(q) ==
  /\ ~Is(q, "idle")
  /\ Done(q)
  /\ UNCHANGED rows

-----------------------------------------------------------------------------
(* Analyses.                                                               *)

\* _get_provider finds one; otherwise it raises and the row is "failed".
Usable(cfg) ==
  cfg.provider \in Local \/ cfg.provider \in Defaults \/ cfg.key = "named"

Analysable(t) == t \in Incidents => incident[t] # "absent"

\* The organization comes with the authorization, the target right after.
LoadAnalyse(q, t) ==
  /\ Analysable(t)
  /\ Load(q, [kind |-> "analyse", target |-> t, cfg |-> config,
              row |-> IF t \in Alerts THEN alert[t] ELSE Idle])

\* The ai_analyses row and ai_analyzed in one commit: the provider has answered,
\* failed, timed out or answered nonsense, which all count as "completed"; or
\* none was usable.
StoreAnalysis(q, mark, newStatus) ==
  LET t == req[q].target IN
    /\ Is(q, "analyse")
    /\ completed' = IF Usable(req[q].cfg) THEN completed \cup {t} ELSE completed
    /\ alert' = IF t \in Alerts /\ mark
                  THEN [alert EXCEPT ![t] = [status |-> newStatus, analyzed |-> TRUE]]
                  ELSE alert
    /\ Done(q)
    /\ UNCHANGED <<config, incident, stamps, links>>

CurrentStatus(q) == alert[req[q].target].status

\* Deviations: the mark is set before the provider is chosen; the row is
\* written back as it was loaded.
CommitAnalysisMarked(q) == StoreAnalysis(q, TRUE, CurrentStatus(q))
CommitAnalysisWhole(q) == StoreAnalysis(q, Usable(req[q].cfg), req[q].row.status)

CommitAnalysis(q) == StoreAnalysis(q, Usable(req[q].cfg), CurrentStatus(q))

-----------------------------------------------------------------------------
(* The provider configuration.                                             *)

LoadConfig(q, new) == Load(q, [kind |-> "config", loaded |-> config, new |-> new])

\* The whole column is replaced.  Encryption gives another text every time: only
\* a configuration without a key can equal the loaded one, and is not written.
CommitConfig(q) ==
  LET new == req[q].new
      written == new.key # "none" \/ new # req[q].loaded IN
    /\ Is(q, "config")
    /\ config' = IF written THEN new ELSE config
    /\ Done(q)
    /\ UNCHANGED <<alert, incident, stamps, links, completed>>

-----------------------------------------------------------------------------
(* The status of an alert.                                                 *)

LoadStatus(q, a, new) ==
  Load(q, [kind |-> "status", alert |-> a, loaded |-> alert[a].status, new |-> new])

CommitStatus(q) ==
  /\ Is(q, "status")
  /\ alert' = IF req[q].new = req[q].loaded THEN alert
              ELSE [alert EXCEPT ![req[q].alert].status = req[q].new]
  /\ Done(q)
  /\ UNCHANGED <<config, incident, stamps, links, completed>>

-----------------------------------------------------------------------------
(* Incidents.                                                              *)

CreateIncidentAs(i, as, status) ==
  /\ incident[i] = "absent"
  /\ incident' = [incident EXCEPT ![i] = status]
  /\ links' = links \cup ({i} \X as)
  /\ UNCHANGED <<config, alert, stamps, completed, req>>

\* Deviation: the status that the pages ask for.
CreateIncidentFiring(i, as) == CreateIncidentAs(i, as, "firing")

CreateIncident(i, as) == CreateIncidentAs(i, as, "open")

LoadIncident(q, i, new) ==
  /\ incident[i] # "absent"
  /\ Load(q, [kind |-> "incident", incident |-> i, loaded |-> incident[i],
              stamped |-> stamps[i] > 0, new |-> new])

StampIf(q, stamped) ==
  LET i == req[q].incident IN
    /\ Is(q, "incident")
    /\ incident' = IF req[q].new = req[q].loaded THEN incident
                   ELSE [incident EXCEPT ![i] = req[q].new]
    /\ stamps' = IF stamped THEN [stamps EXCEPT ![i] = @ + 1] ELSE stamps
    /\ Done(q)
    /\ UNCHANGED <<config, alert, links, completed>>

\* Deviation: stamped whenever the status turns to resolved.
CommitIncidentAgain(q) ==
  StampIf(q, req[q].new = "resolved" /\ req[q].loaded # "resolved")

\* resolved_at is set with the first "resolved" and kept when the incident is
\* opened again.
CommitIncident(q) == StampIf(q, req[q].new = "resolved" /\ ~req[q].stamped)

LoadLink(q, i, a) ==
  /\ incident[i] # "absent"
  /\ Load(q, [kind |-> "link", incident |-> i, alert |-> a,
              known |-> <<i, a>> \in links])

\* A second insert of the same pair violates the primary key: RequestFails.
CommitLink(q) ==
  /\ Is(q, "link")
  /\ req[q].known \/ <<req[q].incident, req[q].alert>> \notin links
  /\ links' = links \cup {<<req[q].incident, req[q].alert>>}
  /\ Done(q)
  /\ UNCHANGED <<config, alert, incident, stamps, completed>>

-----------------------------------------------------------------------------
Next ==
  \/ \E q \in Requests :
       \/ \E t \in Targets : LoadAnalyse(q, t)
       \/ CommitAnalysis(q)
       \/ \E c \in Config : c.key \in Keys /\ LoadConfig(q, c)
       \/ CommitConfig(q)
       \/ \E a \in Alerts, s \in Statuses : LoadStatus(q, a, s)
       \/ CommitStatus(q)
       \/ \E i \in Incidents, s \in IncidentStatus : LoadIncident(q, i, s)
       \/ CommitIncident(q)
       \/ \E i \in Incidents, a \in Alerts : LoadLink(q, i, a)
       \/ CommitLink(q)
       \/ RequestFails(q)
  \/ \E i \in Incidents, as \in SUBSET Alerts : CreateIncident(i, as)

Spec == Init /\ [][Next]_vars

-----------------------------------------------------------------------------
(* ai_analyzed is not set without a completed analysis behind it, whatever  *)
(* the configuration was when the analysis began or has become since.       *)
AnalyzedHasAnalysis == \A a \in Alerts : alert[a].analyzed => a \in completed

(* Minutes pass between the reads of an analysis and its commit; what      *)
(* operators did to the status of the alert in them is kept.                *)
AnalysisKeepsStatus ==
  [][\A a \in Alerts :
       alert'[a].analyzed # alert[a].analyzed => alert'[a].status = alert[a].status]_vars

(* resolved_at moves only under overlap: the commits that set it, and those  *)
(* in flight that will, never outnumber the handlers in flight, however      *)
(* often the incident is opened and resolved again.                          *)
WillStamp(i) ==
  {q \in Requests : Is(q, "incident") /\ req[q].incident = i
                      /\ req[q].new = "resolved" /\ ~req[q].stamped}
StampsBounded ==
  \A i \in Incidents : stamps[i] + Cardinality(WillStamp(i)) =< Cardinality(Requests)

(* "Configure via AI Operations - AI Config in the UI": once a key was saved *)
(* there, no analysis that finds this configuration lacks its provider.      *)
PageKeyAccepted ==
  \A q \in Requests :
    Is(q, "analyse") /\ req[q].cfg.key = "api_key" => Usable(req[q].cfg)
=============================================================================
