----------------------------- MODULE AlertRules -----------------------------
(***************************************************************************)
(* The evaluation of alert rules (workers/alert_processor.py), the rules   *)
(* an operator manages and the alerts an operator resolves                 *)
(* (api/v1/alerts.py).                                                     *)
(*                                                                         *)
(* A run of evaluate_all_alert_rules is one session: it loads the active   *)
(* rules, asks for each whether it is cooling down, reads the latest       *)
(* metrics, and commits all its alerts at its end.  created_at is the      *)
(* database's now(), the start of that transaction: an alert is as old as  *)
(* its run when it is committed.                                           *)
(***************************************************************************)
EXTENDS Naturals, FiniteSets

CONSTANTS
  Rules,     \* alert rules that may exist
  Servers,   \* servers that report metrics
  Runs,      \* runs of evaluate_all_alert_rules that may overlap
  Cooldown,  \* cooldown_minutes, in ticks
  NoRule

ASSUME CooldownAssumption == Cooldown \in Nat
ASSUME NoRuleAssumption == NoRule \notin Rules
ASSUME RunsAssumption == IsFiniteSet(Runs)

VARIABLES
  rule,    \* rule[r]: the alert_rules row
  hot,     \* the <<r, s>> for which the latest metric of s triggers r
  recent,  \* recent[w][a]: alerts of w = <<r, s>>, a ticks old, never resolved
  again,   \* the <<w, a>> with a resolved alert that was acknowledged after
  old,     \* the <<r, s>> with an unresolved alert older than the cooldown
  closed,  \* the <<r, s>> with a resolved alert
  run      \* run[c]: what evaluation c has read and not yet committed

alerts == <<recent, again, old, closed>>
vars == <<rule, hot, recent, again, old, closed, run>>

-----------------------------------------------------------------------------
RuleState == {"absent", "active", "inactive", "deleted"}
Watched == Rules \X Servers
Young == 0 .. Cooldown

IdleRun == [phase |-> "idle"]
ActiveRun ==
  [phase : {"active"},
   age : 0 .. Cooldown + 1,
   todo : SUBSET Rules,         \* rules loaded and not evaluated yet
   now : Rules \cup {NoRule},   \* the rule that was found not to cool down
   raise : SUBSET Watched]      \* the pending alerts

TypeOK ==
  /\ rule \in [Rules -> RuleState]
  /\ hot \subseteq Watched
  /\ recent \in [Watched -> [Young -> Nat]]
  /\ again \subseteq Watched \X Young
  /\ old \subseteq Watched
  /\ closed \subseteq Watched
  /\ run \in [Runs -> {IdleRun} \cup ActiveRun]

Init ==
  /\ rule = [r \in Rules |-> "absent"]
  /\ hot = {}
  /\ recent = [w \in Watched |-> [a \in Young |-> 0]]
  /\ again = {}
  /\ old = {}
  /\ closed = {}
  /\ run = [c \in Runs |-> IdleRun]

-----------------------------------------------------------------------------
Older(age) == IF age = Cooldown + 1 THEN age ELSE age + 1

Tick ==
  /\ recent' = [w \in Watched |->
                  [a \in Young |-> IF a = 0 THEN 0 ELSE recent[w][a - 1]]]
  /\ again' = {<<x[1], x[2] + 1>> : x \in {y \in again : y[2] < Cooldown}}
  /\ old' = old \cup {w \in Watched : \/ recent[w][Cooldown] > 0
                                      \/ <<w, Cooldown>> \in again}
  /\ run' = [c \in Runs |->
               IF run[c] = IdleRun THEN IdleRun
               ELSE [run[c] EXCEPT !.age = Older(@)]]
  /\ UNCHANGED <<rule, hot, closed>>

\* A new sample on the other side of the threshold, or the last one leaving
\* the five-minute window.
MetricTurns(w) ==
  /\ hot' = IF w \in hot THEN hot \ {w} ELSE hot \cup {w}
  /\ UNCHANGED <<rule, alerts, run>>

-----------------------------------------------------------------------------
(* The operator.                                                           *)

CreateRule(r, state) ==
  /\ rule[r] = "absent"
  /\ rule' = [rule EXCEPT ![r] = state]
  /\ UNCHANGED <<hot, alerts, run>>

\* The switch is_active; an update that leaves it alone changes nothing here.
UpdateRule(r) ==
  /\ rule[r] \in {"active", "inactive"}
  /\ rule' = [rule EXCEPT ![r] = IF @ = "active" THEN "inactive" ELSE "active"]
  /\ UNCHANGED <<hot, alerts, run>>

\* The alerts of the rule stay, without a rule_id.
DeleteRule(r) ==
  /\ rule[r] \in {"active", "inactive"}
  /\ rule' = [rule EXCEPT ![r] = "deleted"]
  /\ UNCHANGED <<hot, alerts, run>>

\* update_alert_status.  Acknowledging an open alert leaves it unresolved.  Of
\* several alerts alike others may remain.
Resolve(w) ==
  /\ \/ \E a \in Young :
          /\ recent[w][a] > 0
          /\ recent' = [recent EXCEPT ![w][a] = @ - 1]
          /\ UNCHANGED <<again, old>>
     \/ \E a \in Young :
          /\ <<w, a>> \in again
          /\ again' \in {again, again \ {<<w, a>>}}
          /\ UNCHANGED <<recent, old>>
     \/ /\ w \in old
        /\ old' \in {old, old \ {w}}
        /\ UNCHANGED <<recent, again>>
  /\ closed' = closed \cup {w}
  /\ UNCHANGED <<rule, hot, run>>

\* Acknowledging a resolved alert makes it unresolved: another operator may have
\* resolved it since the page was loaded.  The alert may be of any age.
AcknowledgeResolved(w) ==
  /\ w \in closed
  /\ \/ \E a \in Young : again' = again \cup {<<w, a>>} /\ old' = old
     \/ old' = old \cup {w} /\ again' = again
  /\ closed' \in {closed, closed \ {w}}
  /\ UNCHANGED <<rule, hot, recent, run>>

-----------------------------------------------------------------------------
(* evaluate_all_alert_rules.                                               *)

Start(c) ==
  /\ run[c] = IdleRun
  /\ run' = [run EXCEPT ![c] =
               [phase |-> "active", age |-> 0, now |-> NoRule, raise |-> {},
                todo |-> {r \in Rules : rule[r] = "active"}]]
  /\ UNCHANGED <<rule, hot, alerts>>

\* The cooldown belongs to the rule: an alert of any server starts it.  It is
\* over at once when its alert is resolved.
Cooling(r) ==
  \E s \in Servers, a \in Young :
    recent[<<r, s>>][a] > 0 \/ <<<<r, s>>, a>> \in again

CheckIf(c, r, cooling) ==
  /\ run[c] # IdleRun /\ run[c].now = NoRule
  /\ r \in run[c].todo
  /\ run' = [run EXCEPT ![c].todo = @ \ {r},
                        ![c].now = IF cooling THEN NoRule ELSE r]
  /\ UNCHANGED <<rule, hot, alerts>>

\* Deviations: the cooldown is not looked at; an alert starts it for ever.
CheckNothing(c, r) == CheckIf(c, r, FALSE)
CheckEver(c, r) ==
  CheckIf(c, r, Cooling(r) \/ \E s \in Servers : <<r, s>> \in old)

CheckCooldown(c, r) == CheckIf(c, r, Cooling(r))

ReadMetricsAs(c, rule_id) ==
  /\ run[c] # IdleRun /\ run[c].now # NoRule
  /\ run' = [run EXCEPT
               ![c].now = NoRule,
               ![c].raise = @ \cup {<<rule_id, w[2]>> :
                                     w \in {x \in hot : x[1] = run[c].now}}]
  /\ UNCHANGED <<rule, hot, alerts>>

\* Deviation: the alert is raised without its rule_id.
ReadMetricsAnonymous(c) == ReadMetricsAs(c, NoRule)

\* An alert for every server whose latest sample triggers the rule.
ReadMetrics(c) == ReadMetricsAs(c, run[c].now)

CommitOf(c, raise) ==
  /\ run[c] # IdleRun /\ run[c].now = NoRule /\ run[c].todo = {}
  /\ IF run[c].age \in Young
       THEN /\ recent' = [w \in Watched |->
                            IF w \in raise
                            THEN [recent[w] EXCEPT ![run[c].age] = @ + 1]
                            ELSE recent[w]]
            /\ old' = old
       ELSE old' = old \cup raise /\ recent' = recent
  /\ run' = [run EXCEPT ![c] = IdleRun]
  /\ UNCHANGED <<rule, hot, again, closed>>

\* Deviation: no foreign key from alerts to their rule.
CommitUnchecked(c) == CommitOf(c, run[c].raise)

\* A deletion that meets an alert already flushed waits for the commit: it is
\* the later step here.
Commit(c) ==
  /\ run[c] # IdleRun
  /\ \A w \in run[c].raise : rule[w[1]] # "deleted"
  /\ CommitOf(c, run[c].raise)

\* An exception outside the evaluation of a rule, the loss of the worker, or a
\* rule deleted under the run (its alert violates the foreign key) drop every
\* alert of the run.
Abort(c) ==
  /\ run[c] # IdleRun
  /\ run' = [run EXCEPT ![c] = IdleRun]
  /\ UNCHANGED <<rule, hot, alerts>>

Next ==
  \/ Tick
  \/ \E w \in Watched : MetricTurns(w) \/ Resolve(w) \/ AcknowledgeResolved(w)
  \/ \E r \in Rules :
       \/ \E state \in {"active", "inactive"} : CreateRule(r, state)
       \/ UpdateRule(r) \/ DeleteRule(r)
  \/ \E c \in Runs :
       \/ Start(c)
       \/ \E r \in Rules : CheckCooldown(c, r)
       \/ ReadMetrics(c) \/ Commit(c) \/ Abort(c)

Spec == Init /\ [][Next]_vars

(***************************************************************************)
(* Fairness.  Time passes, the beat starts a run every 30 s, and runs come *)
(* to their end again and again though any of them may be lost.  Neither   *)
(* metrics nor operators are under an obligation.                          *)
(***************************************************************************)
Fairness ==
  /\ WF_vars(Tick)
  /\ \A c \in Runs :
       /\ WF_vars(Start(c))
       /\ SF_vars(\E r \in Rules : CheckCooldown(c, r))
       /\ SF_vars(ReadMetrics(c))
       /\ SF_vars(Commit(c))

FairSpec == Spec /\ Fairness

-----------------------------------------------------------------------------
Raised(w) ==
  w \in old \/ \E a \in Young : recent[w][a] > 0 \/ <<w, a>> \in again

\* The alerts of w younger than the cooldown and never resolved: those of an
\* age are numbered from 1.
YoungAlerts(w) == UNION {{a} \X (1 .. recent[w][a]) : a \in Young}

\* The runs that are about to commit an alert of w.
Pending(w) == {c \in Runs : run[c] # IdleRun /\ w \in run[c].raise}

(* The cooldown holds under overlap: the alerts of a server and a rule that *)
(* are younger than the cooldown and were never resolved, with those about  *)
(* to be committed, never outnumber the runs that can overlap.  (Alerts that *)
(* operators took back from "resolved" come on top: nothing bounds those.)  *)
AlertRateBounded ==
  \A w \in Watched :
    Cardinality(YoungAlerts(w)) + Cardinality(Pending(w)) =< Cardinality(Runs)

(* A deleted rule raises no further alert, though a run may have loaded it *)
(* and read the metrics for it before.                                     *)
DeletedRuleSilent ==
  [][\A w \in Watched :
       rule[w[1]] = "deleted" =>
         \A a \in Young : recent'[w][a] > 0 => Raised(w)]_vars

(* A server that keeps triggering an active rule has an unresolved alert    *)
(* again and again, although alerts of other servers cool the rule down,    *)
(* unless operators go on acknowledging resolved alerts: each such alert    *)
(* starts the cooldown of its rule once more.                               *)
HotServerAlerted ==
  \A w \in Watched :
    /\ <>[](w \in hot /\ rule[w[1]] = "active")
    /\ <>[][\A x \in Watched : ~AcknowledgeResolved(x)]_vars
    => []<>Raised(w)
=============================================================================
