SPECIFICATION Spec
CONSTANTS
  Alerts = {a1}
  Incidents = {i1}
  Servers = {s1}
  Statuses = {"open", "resolved"}
  Requests = {q1, q2}
  Hosted = {groq}
  Local = {ollama}
  Defaults = {}
  DefaultProvider = groq
  Keys = {"none", "api_key", "named"}
SYMMETRY Symmetry
INVARIANTS
  TypeOK
  AnalyzedHasAnalysis
  StampsBounded
PROPERTIES
  AnalysisKeepsStatus
