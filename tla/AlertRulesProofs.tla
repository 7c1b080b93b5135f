-------------------------- MODULE AlertRulesProofs --------------------------
(***************************************************************************)
(* Proofs about AlertRules, for any rules, servers and cooldown, and any    *)
(* finite number of runs that overlap.                                      *)
(***************************************************************************)
EXTENDS AlertRules, FiniteSetTheorems, TLAPS

LEMMA YoungType == Young \subseteq Nat /\ 0 \in Young /\ Cooldown \in Young
BY CooldownAssumption DEF Young

(* A run that is not idle has the record of an active one.                 *)
LEMMA ActiveTypes ==
  ASSUME TypeOK, NEW c \in Runs, run[c] # IdleRun
  PROVE  run[c] \in ActiveRun
BY DEF TypeOK

LEMMA CommitTypes ==
  ASSUME TypeOK, NEW c \in Runs, CommitOf(c, run[c].raise)
  PROVE  TypeOK'
<1>1. run[c] \in ActiveRun
  BY ActiveTypes DEF CommitOf
<1>2. run[c].raise \subseteq Watched
  BY <1>1 DEF ActiveRun
<1>3. run' \in [Runs -> {IdleRun} \cup ActiveRun]
  BY DEF CommitOf, TypeOK
<1>4. recent' \in [Watched -> [Young -> Nat]]
  BY DEF CommitOf, TypeOK
<1>5. old' \subseteq Watched
  BY <1>2 DEF CommitOf, TypeOK
<1>6. QED BY <1>3, <1>4, <1>5 DEF CommitOf, TypeOK

LEMMA TickTypes ==
  ASSUME TypeOK, Tick
  PROVE  TypeOK'
<1>1. recent' \in [Watched -> [Young -> Nat]]
  <2>1. ASSUME NEW w \in Watched, NEW a \in Young
        PROVE  (IF a = 0 THEN 0 ELSE recent[w][a - 1]) \in Nat
    <3>1. a # 0 => a - 1 \in Young
      BY CooldownAssumption DEF Young
    <3>2. QED BY <3>1 DEF TypeOK
  <2>2. QED BY <2>1 DEF Tick
<1>2. again' \subseteq Watched \X Young
  BY CooldownAssumption DEF Tick, TypeOK, Young
<1>3. old' \subseteq Watched
  BY DEF Tick, TypeOK
<1>4. run' \in [Runs -> {IdleRun} \cup ActiveRun]
  <2>1. ASSUME NEW c \in Runs, run[c] # IdleRun
        PROVE  [run[c] EXCEPT !.age = Older(@)] \in ActiveRun
    <3>1. run[c] \in ActiveRun
      BY <2>1, ActiveTypes
    <3>2. Older(run[c].age) \in 0 .. Cooldown + 1
      BY <3>1, CooldownAssumption DEF ActiveRun, Older
    <3>3. QED BY <3>1, <3>2 DEF ActiveRun
  <2>2. QED BY <2>1 DEF Tick
<1>5. QED BY <1>1, <1>2, <1>3, <1>4 DEF Tick, TypeOK

LEMMA TypeStep == TypeOK /\ [Next]_vars => TypeOK'
<1> SUFFICES ASSUME TypeOK, [Next]_vars PROVE TypeOK'
  OBVIOUS
<1>1. CASE Tick
  BY <1>1, TickTypes
<1>2. ASSUME NEW w \in Watched, MetricTurns(w)
      PROVE  TypeOK'
  BY <1>2 DEF MetricTurns, alerts, TypeOK
<1>3. ASSUME NEW w \in Watched, Resolve(w)
      PROVE  TypeOK'
  <2>1. recent' \in [Watched -> [Young -> Nat]]
    <3>1. ASSUME NEW a \in Young, recent[w][a] > 0,
                 recent' = [recent EXCEPT ![w][a] = @ - 1]
          PROVE  recent' \in [Watched -> [Young -> Nat]]
      <4>1. recent[w][a] - 1 \in Nat
        BY <3>1 DEF TypeOK
      <4>2. QED BY <3>1, <4>1 DEF TypeOK
    <3>2. QED BY <1>3, <3>1 DEF Resolve, TypeOK
  <2>2. again' \subseteq Watched \X Young /\ old' \subseteq Watched
    BY <1>3 DEF Resolve, TypeOK
  <2>3. QED BY <1>3, <2>1, <2>2 DEF Resolve, TypeOK
<1>4. ASSUME NEW w \in Watched, AcknowledgeResolved(w)
      PROVE  TypeOK'
  <2>2. again' \subseteq Watched \X Young
    BY <1>4 DEF AcknowledgeResolved, TypeOK
  <2>3. old' \subseteq Watched /\ closed' \subseteq Watched
    BY <1>4 DEF AcknowledgeResolved, TypeOK
  <2>4. QED BY <1>4, <2>2, <2>3 DEF AcknowledgeResolved, TypeOK
<1>5. ASSUME NEW r \in Rules,
             \/ \E state \in {"active", "inactive"} : CreateRule(r, state)
             \/ UpdateRule(r) \/ DeleteRule(r)
      PROVE  TypeOK'
  <2>1. PICK state \in RuleState : rule' = [rule EXCEPT ![r] = state]
    BY <1>5 DEF CreateRule, UpdateRule, DeleteRule, RuleState, TypeOK
  <2>2. UNCHANGED <<hot, alerts, run>>
    BY <1>5 DEF CreateRule, UpdateRule, DeleteRule
  <2>3. QED BY <2>1, <2>2 DEF alerts, TypeOK
<1>6. ASSUME NEW c \in Runs, Start(c)
      PROVE  TypeOK'
  <2>1. [phase |-> "active", age |-> 0, now |-> NoRule, raise |-> {},
         todo |-> {r \in Rules : rule[r] = "active"}] \in ActiveRun
    BY CooldownAssumption DEF ActiveRun
  <2>2. QED BY <1>6, <2>1 DEF Start, alerts, TypeOK
<1>7. ASSUME NEW c \in Runs, NEW r \in Rules, CheckCooldown(c, r)
      PROVE  TypeOK'
  <2>1. run[c] \in ActiveRun
    BY <1>7, ActiveTypes DEF CheckCooldown, CheckIf
  <2>2. [run[c] EXCEPT !.todo = @ \ {r}, !.now = IF Cooling(r) THEN NoRule ELSE r]
          \in ActiveRun
    BY <2>1 DEF ActiveRun
  <2>3. run' = [run EXCEPT ![c] =
                  [run[c] EXCEPT !.todo = @ \ {r},
                                 !.now = IF Cooling(r) THEN NoRule ELSE r]]
    BY <1>7 DEF CheckCooldown, CheckIf
  <2>4. QED BY <1>7, <2>2, <2>3 DEF CheckCooldown, CheckIf, alerts, TypeOK
<1>8. ASSUME NEW c \in Runs, ReadMetrics(c)
      PROVE  TypeOK'
  <2>1. run[c] \in ActiveRun
    BY <1>8, ActiveTypes DEF ReadMetrics, ReadMetricsAs
  <2> DEFINE more == {<<run[c].now, v[2]>> : v \in {x \in hot : x[1] = run[c].now}}
  <2>a. more \subseteq Watched
    BY DEF TypeOK, Watched
  <2> HIDE DEF more
  <2>2. [run[c] EXCEPT !.now = NoRule, !.raise = @ \cup more] \in ActiveRun
    BY <2>1, <2>a DEF ActiveRun
  <2>3. run' = [run EXCEPT ![c] = [run[c] EXCEPT !.now = NoRule,
                                                 !.raise = @ \cup more]]
    BY <1>8 DEF ReadMetrics, ReadMetricsAs, more
  <2>4. QED BY <1>8, <2>2, <2>3 DEF ReadMetrics, ReadMetricsAs, alerts, TypeOK
<1>9. ASSUME NEW c \in Runs, Commit(c)
      PROVE  TypeOK'
  BY <1>9, CommitTypes DEF Commit
<1>10. ASSUME NEW c \in Runs, Abort(c)
       PROVE  TypeOK'
  BY <1>10 DEF Abort, alerts, TypeOK
<1>11. CASE UNCHANGED vars
  BY <1>11 DEF vars, alerts, TypeOK
<1>12. QED
  BY <1>1, <1>2, <1>3, <1>4, <1>5, <1>6, <1>7, <1>8, <1>9, <1>10, <1>11 DEF Next

(* Rules, alerts and the runs of the evaluation keep their types, the age   *)
(* of a run included: it stops growing past the cooldown.                   *)
THEOREM TypeCorrect == Spec => []TypeOK
<1>1. Init => TypeOK
  BY CooldownAssumption DEF Init, TypeOK, RuleState
<1>2. QED BY <1>1, TypeStep, PTL DEF Spec

-----------------------------------------------------------------------------
(* Where a step leaves more young alerts of w, none resolved, than there were: *)
(* time shifts them, and only a commit adds one.                            *)
LEMMA RecentStep ==
  ASSUME TypeOK, [Next]_vars, NEW w \in Watched, NEW a \in Young
  PROVE  \/ recent'[w][a] =< recent[w][a]
         \/ Tick /\ a # 0 /\ recent'[w][a] = recent[w][a - 1]
         \/ /\ recent'[w][a] = recent[w][a] + 1
            /\ \E c \in Runs :
                 Commit(c) /\ w \in run[c].raise /\ run[c].age = a
<1>1. recent[w][a] \in Nat /\ a \in Nat
  BY YoungType DEF TypeOK
<1>2. CASE recent' = recent
  BY <1>1, <1>2
<1>3. CASE Tick
  <2>1. recent'[w][a] = IF a = 0 THEN 0 ELSE recent[w][a - 1]
    BY <1>3 DEF Tick
  <2>2. QED BY <1>1, <1>3, <2>1
<1>4. ASSUME NEW v \in Watched, Resolve(v)
      PROVE  recent'[w][a] =< recent[w][a]
  <2>1. ASSUME NEW b \in Young, recent' = [recent EXCEPT ![v][b] = @ - 1]
        PROVE  recent'[w][a] =< recent[w][a]
    <3>1. recent'[w][a] = IF w = v /\ a = b THEN recent[w][a] - 1 ELSE recent[w][a]
      BY <2>1 DEF TypeOK
    <3>2. QED BY <1>1, <3>1
  <2>2. recent' = recent \/ \E b \in Young : recent' = [recent EXCEPT ![v][b] = @ - 1]
    BY <1>4 DEF Resolve
  <2>3. QED BY <1>1, <2>1, <2>2
<1>5. ASSUME NEW c \in Runs, Commit(c)
      PROVE  \/ recent'[w][a] =< recent[w][a]
             \/ /\ recent'[w][a] = recent[w][a] + 1
                /\ w \in run[c].raise /\ run[c].age = a
  <2>1. CASE recent' = recent
    BY <1>1, <2>1
  <2>2. CASE recent' = [v \in Watched |->
                          IF v \in run[c].raise
                          THEN [recent[v] EXCEPT ![run[c].age] = @ + 1]
                          ELSE recent[v]]
    BY <1>1, <2>2 DEF TypeOK
  <2>3. QED BY <1>5, <2>1, <2>2 DEF Commit, CommitOf
<1>6. Tick \/ (\E v \in Watched : Resolve(v)) \/ (\E c \in Runs : Commit(c))
        \/ recent' = recent
  BY DEF Next, MetricTurns, AcknowledgeResolved, CreateRule, UpdateRule,
         DeleteRule, Start, CheckCooldown, CheckIf, ReadMetrics, ReadMetricsAs, Abort,
         vars, alerts
<1>7. QED BY <1>1, <1>2, <1>3, <1>4, <1>5, <1>6

(* No commit brings an alert of a deleted rule: the foreign key refuses it,  *)
(* and time only turns an unresolved alert into an older one.                *)
THEOREM DeletedRuleSilentCorrect == Spec => DeletedRuleSilent
<1>1. TypeOK /\ [Next]_vars =>
        [\A w \in Watched :
           rule[w[1]] = "deleted" =>
             \A a \in Young : recent'[w][a] > 0 => Raised(w)]_vars
  <2> SUFFICES ASSUME TypeOK, [Next]_vars, NEW w \in Watched,
                      rule[w[1]] = "deleted",
                      NEW a \in Young, recent'[w][a] > 0
               PROVE  Raised(w)
    OBVIOUS
  <2>1. \A b \in Young : recent[w][b] \in Nat
    BY DEF TypeOK
  <2>2. CASE recent'[w][a] =< recent[w][a]
    <3>1. recent[w][a] > 0
      <4>1. recent'[w][a] \in Nat
        BY TypeStep DEF TypeOK
      <4>2. QED BY <2>1, <2>2, <4>1
    <3>2. QED BY <3>1 DEF Raised
  <2>3. CASE a # 0 /\ recent'[w][a] = recent[w][a - 1]
    <3>1. a - 1 \in Young
      BY <2>3, CooldownAssumption DEF Young
    <3>2. QED BY <2>3, <3>1 DEF Raised
  <2>4. ASSUME NEW c \in Runs, Commit(c), w \in run[c].raise
        PROVE  FALSE
    BY <2>4 DEF Commit
  <2>5. QED BY <2>2, <2>3, <2>4, RecentStep
<1>2. QED BY <1>1, TypeCorrect, PTL DEF Spec, DeletedRuleSilent

-----------------------------------------------------------------------------
(* The runs that may still bring an alert of w: those that hold one, and the *)
(* one that has found the rule not to cool down and reads the metrics next.  *)
Committing(w) ==
  {c \in Runs : run[c] # IdleRun /\ (w \in run[c].raise \/ run[c].now = w[1])}

(* A run enters Committing only while no young alert of its rule exists; an *)
(* alert then only takes the place of the run that commits it.              *)
Rated(w) ==
  /\ IsFiniteSet(YoungAlerts(w))
  /\ Cardinality(YoungAlerts(w)) + Cardinality(Committing(w)) =< Cardinality(Runs)

LEMMA YoungMember ==
  ASSUME NEW w
  PROVE  YoungAlerts(w) = {x \in Young \X Nat : x[2] \in 1 .. recent[w][x[1]]}
BY DEF YoungAlerts

LEMMA CommittingFinite ==
  ASSUME NEW w
  PROVE  /\ Committing(w) \subseteq Runs
         /\ IsFiniteSet(Committing(w))
         /\ Cardinality(Committing(w)) \in Nat
         /\ Cardinality(Committing(w)) =< Cardinality(Runs)
         /\ Cardinality(Runs) \in Nat
<1>1. Committing(w) \subseteq Runs
  BY DEF Committing
<1>2. QED BY <1>1, RunsAssumption, FS_Subset, FS_CardinalityType

(* Neither more alerts nor more runs about to commit one.                  *)
LEMMA Fewer ==
  ASSUME NEW w, Rated(w), YoungAlerts(w)' \subseteq YoungAlerts(w),
         Committing(w)' \subseteq Committing(w)
  PROVE  Rated(w)'
<1>1. /\ IsFiniteSet(YoungAlerts(w)')
      /\ Cardinality(YoungAlerts(w)') =< Cardinality(YoungAlerts(w))
      /\ Cardinality(YoungAlerts(w)') \in Nat /\ Cardinality(YoungAlerts(w)) \in Nat
  BY FS_Subset, FS_CardinalityType DEF Rated
<1>2. /\ Cardinality(Committing(w)') =< Cardinality(Committing(w))
      /\ Cardinality(Committing(w)') \in Nat /\ Cardinality(Committing(w)) \in Nat
      /\ Cardinality(Runs) \in Nat
  <2>1. IsFiniteSet(Committing(w)) /\ IsFiniteSet(Committing(w)')
    BY CommittingFinite, FS_Subset
  <2>2. QED BY <2>1, CommittingFinite, FS_Subset, FS_CardinalityType
<1>3. QED BY <1>1, <1>2 DEF Rated

(* Time shifts the young alerts and drops the oldest.                      *)
LEMMA TickShifts ==
  ASSUME TypeOK, Tick, NEW w \in Watched, IsFiniteSet(YoungAlerts(w))
  PROVE  /\ IsFiniteSet(YoungAlerts(w)')
         /\ Cardinality(YoungAlerts(w)') =< Cardinality(YoungAlerts(w))
<1> DEFINE Y == YoungAlerts(w)
           Z == YoungAlerts(w)'
           f == [x \in Z |-> <<x[1] - 1, x[2]>>]
<1>1. Z = {x \in Young \X Nat : x[2] \in 1 .. recent'[w][x[1]]}
  BY DEF YoungAlerts
<1>2. ASSUME NEW x \in Z
      PROVE  f[x] \in Y /\ x = <<f[x][1] + 1, f[x][2]>>
  <2>1. /\ x[1] \in Young /\ x[2] \in Nat /\ x = <<x[1], x[2]>>
        /\ x[2] \in 1 .. recent'[w][x[1]]
    BY <1>1, <1>2
  <2>2. x[1] # 0 /\ recent'[w][x[1]] = recent[w][x[1] - 1]
    BY <2>1 DEF Tick
  <2>3. x[1] - 1 \in Young /\ x[1] \in Nat
    BY <2>1, <2>2, CooldownAssumption DEF Young
  <2>4. <<x[1] - 1, x[2]>> \in Y
    BY <2>1, <2>2, <2>3, YoungMember
  <2>5. QED BY <2>1, <2>3, <2>4
<1> HIDE DEF Y, Z
<1>3. f \in [Z -> Y]
  BY <1>2
<1>4. \A x, y \in Z : f[x] = f[y] => x = y
  <2> HIDE DEF f
  <2>1. QED BY <1>2
<1>5. f \in Injection(Z, Y)
  BY <1>3, <1>4 DEF Injection, IsInjective
<1>6. QED BY <1>5, FS_Injection DEF Y, Z

(* A step that adds no alert and lets no run pass the cooldown.            *)
LEMMA Calm ==
  ASSUME TypeOK, NEW w \in Watched, Rated(w),
         \A a \in Young : recent'[w][a] \in Nat /\ recent'[w][a] =< recent[w][a],
         \A c \in Runs :
           run'[c] # IdleRun =>
             /\ run[c] # IdleRun \/ (run'[c].raise = {} /\ run'[c].now = NoRule)
             /\ w \in run'[c].raise => w \in run[c].raise \/ run[c].now = w[1]
             /\ run'[c].now = w[1] => run[c].now = w[1]
  PROVE  Rated(w)'
<1>1. YoungAlerts(w)' \subseteq YoungAlerts(w)
  <2>1. YoungAlerts(w)' = {x \in Young \X Nat : x[2] \in 1 .. recent'[w][x[1]]}
    BY DEF YoungAlerts
  <2>2. \A a \in Young : 1 .. recent'[w][a] \subseteq 1 .. recent[w][a]
    BY DEF TypeOK
  <2>3. QED BY <2>1, <2>2, YoungMember
<1>2. Committing(w)' \subseteq Committing(w)
  BY NoRuleAssumption DEF Committing, Watched
<1>3. QED BY <1>1, <1>2, Fewer

(* What a step leaves of the alerts keeps its type.                        *)
LEMMA RecentType ==
  ASSUME TypeOK, [Next]_vars, NEW w \in Watched, NEW a \in Young
  PROVE  recent[w][a] \in Nat /\ recent'[w][a] \in Nat
BY TypeStep DEF TypeOK

LEMMA RateStep ==
  ASSUME TypeOK, [Next]_vars, NEW w \in Watched, Rated(w)
  PROVE  Rated(w)'
<1>1. CASE Tick
  <2>1. Committing(w)' = Committing(w)
    <3>1. ASSUME NEW c \in Runs
          PROVE  /\ run'[c] = IdleRun <=> run[c] = IdleRun
                 /\ run[c] # IdleRun => /\ run'[c].raise = run[c].raise
                                        /\ run'[c].now = run[c].now
      <4>1. CASE run[c] = IdleRun
        BY <1>1, <4>1 DEF Tick
      <4>2. CASE run[c] # IdleRun
        <5>1. run[c] \in ActiveRun /\ run'[c] = [run[c] EXCEPT !.age = Older(@)]
          BY <1>1, <4>2, ActiveTypes DEF Tick
        <5>2. /\ run'[c].phase = "active"
              /\ run'[c].raise = run[c].raise /\ run'[c].now = run[c].now
          BY <5>1 DEF ActiveRun
        <5>3. QED BY <4>2, <5>2 DEF IdleRun
      <4>3. QED BY <4>1, <4>2
    <3>2. QED BY <3>1 DEF Committing
  <2>2. /\ IsFiniteSet(YoungAlerts(w)')
        /\ Cardinality(YoungAlerts(w)') =< Cardinality(YoungAlerts(w))
    BY <1>1, TickShifts DEF Rated
  <2>3. /\ Cardinality(YoungAlerts(w)') \in Nat /\ Cardinality(YoungAlerts(w)) \in Nat
    BY <2>2, FS_CardinalityType DEF Rated
  <2>4. QED BY <2>1, <2>2, <2>3, CommittingFinite DEF Rated
<1>2. ASSUME NEW v \in Watched, MetricTurns(v) \/ Resolve(v) \/ AcknowledgeResolved(v),
             ~Tick
      PROVE  Rated(w)'
  <2>1. run' = run
    BY <1>2 DEF MetricTurns, Resolve, AcknowledgeResolved
  <2>2. ASSUME NEW a \in Young
        PROVE  recent'[w][a] =< recent[w][a]
    <3>1. CASE recent' = recent
      BY <3>1, RecentType
    <3>2. ASSUME NEW b \in Young, recent' = [recent EXCEPT ![v][b] = @ - 1]
          PROVE  recent'[w][a] =< recent[w][a]
      <4>1. recent'[w][a] = IF w = v /\ a = b THEN recent[w][a] - 1
                                             ELSE recent[w][a]
        BY <3>2 DEF TypeOK
      <4>2. QED BY <4>1, RecentType
    <3>3. \/ recent' = recent
          \/ \E b \in Young : recent' = [recent EXCEPT ![v][b] = @ - 1]
      BY <1>2 DEF MetricTurns, Resolve, AcknowledgeResolved, alerts
    <3>4. QED BY <3>1, <3>2, <3>3
  <2>3. QED BY <2>1, <2>2, RecentType, Calm
<1>3. CASE UNCHANGED <<recent, run>>
  BY <1>3, RecentType, Calm
<1>4. ASSUME NEW c \in Runs, recent' = recent,
             NEW r \in {IdleRun} \cup ActiveRun,
             run' = [run EXCEPT ![c] = r],
             r # IdleRun => /\ r.raise = {}
                            /\ r.now = NoRule
      PROVE  Rated(w)'
  <2>1. \A d \in Runs : run'[d] = IF d = c THEN r ELSE run[d]
    BY <1>4 DEF TypeOK
  <2>2. ASSUME NEW d \in Runs, run'[d] # IdleRun
        PROVE  /\ run[d] # IdleRun \/ (run'[d].raise = {} /\ run'[d].now = NoRule)
               /\ w \in run'[d].raise => w \in run[d].raise \/ run[d].now = w[1]
               /\ run'[d].now = w[1] => run[d].now = w[1]
    BY <1>4, <2>1, <2>2, NoRuleAssumption DEF Watched
  <2>3. \A a \in Young : recent'[w][a] \in Nat /\ recent'[w][a] =< recent[w][a]
    BY <1>4, RecentType
  <2>4. QED BY <2>2, <2>3, Calm
<1>5. ASSUME NEW c \in Runs, Start(c)
      PROVE  Rated(w)'
  <2> DEFINE r == [phase |-> "active", age |-> 0, now |-> NoRule, raise |-> {},
                   todo |-> {x \in Rules : rule[x] = "active"}]
  <2>1. r \in ActiveRun /\ r.raise = {} /\ r.now = NoRule
    BY CooldownAssumption DEF ActiveRun
  <2>2. recent' = recent /\ run' = [run EXCEPT ![c] = r]
    BY <1>5 DEF Start, alerts
  <2> HIDE DEF r
  <2>3. QED BY <1>4, <2>1, <2>2
<1>6. ASSUME NEW c \in Runs, Abort(c)
      PROVE  Rated(w)'
  <2>1. recent' = recent /\ run' = [run EXCEPT ![c] = IdleRun]
    BY <1>6 DEF Abort, alerts
  <2>2. QED BY <1>4, <2>1
<1>7. ASSUME NEW c \in Runs, NEW r \in Rules, CheckCooldown(c, r)
      PROVE  Rated(w)'
  <2>1. run[c] \in ActiveRun /\ run[c].now = NoRule /\ recent' = recent
    BY <1>7, ActiveTypes DEF CheckCooldown, CheckIf, alerts
  <2>2. CASE w[1] = r /\ ~Cooling(r)
    <3>1. \A a \in Young : recent'[w][a] = 0
      <4>1. w = <<r, w[2]>> /\ w[2] \in Servers
        BY <2>2 DEF Watched
      <4>2. \A a \in Young : ~(recent[w][a] > 0)
        BY <2>2, <4>1 DEF Cooling
      <4>3. QED BY <2>1, <4>2, RecentType
    <3>2. YoungAlerts(w)' = {}
      <4>1. YoungAlerts(w)' = {x \in Young \X Nat : x[2] \in 1 .. recent'[w][x[1]]}
        BY DEF YoungAlerts
      <4>2. QED BY <3>1, <4>1
    <3>3. /\ Cardinality(Committing(w)') \in Nat
          /\ Cardinality(Committing(w)') =< Cardinality(Runs)
      <4>1. Committing(w)' \subseteq Runs
        BY DEF Committing
      <4>2. QED BY <4>1, RunsAssumption, FS_Subset, FS_CardinalityType
    <3>4. QED BY <3>2, <3>3, FS_EmptySet DEF Rated
  <2>3. CASE w[1] # r \/ Cooling(r)
    <3> DEFINE q == [run[c] EXCEPT !.todo = @ \ {r},
                                   !.now = IF Cooling(r) THEN NoRule ELSE r]
    <3>1. /\ q.raise = run[c].raise /\ q.now # w[1] /\ run[c] # IdleRun
      <4>1. q.raise = run[c].raise /\ q.now = IF Cooling(r) THEN NoRule ELSE r
        BY <2>1 DEF ActiveRun
      <4>2. QED BY <1>7, <2>3, <4>1, NoRuleAssumption
                DEF Watched, CheckCooldown, CheckIf
    <3>2. run' = [run EXCEPT ![c] = q]
      BY <1>7 DEF CheckCooldown, CheckIf
    <3> HIDE DEF q
    <3>3. \A d \in Runs : run'[d] = IF d = c THEN q ELSE run[d]
      BY <3>2 DEF TypeOK
    <3>4. ASSUME NEW d \in Runs, run'[d] # IdleRun
          PROVE  /\ run[d] # IdleRun \/ (run'[d].raise = {} /\ run'[d].now = NoRule)
                 /\ w \in run'[d].raise => w \in run[d].raise \/ run[d].now = w[1]
                 /\ run'[d].now = w[1] => run[d].now = w[1]
      BY <3>1, <3>3, <3>4
    <3>5. \A a \in Young : recent'[w][a] \in Nat /\ recent'[w][a] =< recent[w][a]
      BY <2>1, RecentType
    <3>6. QED BY <3>4, <3>5, Calm
  <2>4. QED BY <2>2, <2>3
<1>8. ASSUME NEW c \in Runs, ReadMetrics(c)
      PROVE  Rated(w)'
  <2> DEFINE more == {<<run[c].now, v[2]>> : v \in {x \in hot : x[1] = run[c].now}}
             q == [run[c] EXCEPT !.now = NoRule, !.raise = @ \cup more]
  <2>1. run[c] \in ActiveRun /\ run[c] # IdleRun
    BY <1>8, ActiveTypes DEF ReadMetrics, ReadMetricsAs
  <2>2. q.raise = run[c].raise \cup more /\ q.now = NoRule
    BY <2>1 DEF ActiveRun
  <2>3. run' = [run EXCEPT ![c] = q] /\ recent' = recent
    BY <1>8 DEF ReadMetrics, ReadMetricsAs, alerts
  <2>4. w \in more => run[c].now = w[1]
    OBVIOUS
  <2> HIDE DEF q, more
  <2>5. \A d \in Runs : run'[d] = IF d = c THEN q ELSE run[d]
    BY <2>3 DEF TypeOK
  <2>6. ASSUME NEW d \in Runs, run'[d] # IdleRun
        PROVE  /\ run[d] # IdleRun \/ (run'[d].raise = {} /\ run'[d].now = NoRule)
               /\ w \in run'[d].raise => w \in run[d].raise \/ run[d].now = w[1]
               /\ run'[d].now = w[1] => run[d].now = w[1]
    BY <2>1, <2>2, <2>4, <2>5, <2>6, NoRuleAssumption DEF Watched
  <2>7. \A a \in Young : recent'[w][a] \in Nat /\ recent'[w][a] =< recent[w][a]
    BY <2>3, RecentType
  <2>8. QED BY <2>6, <2>7, Calm
<1>9. ASSUME NEW c \in Runs, Commit(c)
      PROVE  Rated(w)'
  <2>1. run[c] # IdleRun /\ run' = [run EXCEPT ![c] = IdleRun]
    BY <1>9 DEF Commit, CommitOf
  <2>2. CASE recent'[w] = recent[w]
    <3>1. \A d \in Runs : run'[d] = IF d = c THEN IdleRun ELSE run[d]
      BY <2>1 DEF TypeOK
    <3>2. QED BY <2>2, <3>1, RecentType, Calm
  <2>3. CASE recent'[w] # recent[w]
    <3> DEFINE a == run[c].age
               x == <<a, recent[w][a] + 1>>
    <3>1. /\ w \in run[c].raise /\ a \in Young
          /\ recent'[w] = [recent[w] EXCEPT ![a] = @ + 1]
      BY <1>9, <2>3 DEF Commit, CommitOf
    <3> HIDE DEF a
    <3>2. \A b \in Young :
            /\ recent[w][b] \in Nat
            /\ recent'[w][b] = IF b = a THEN recent[w][b] + 1 ELSE recent[w][b]
      BY <3>1 DEF TypeOK
    <3>3. YoungAlerts(w)' = YoungAlerts(w) \cup {x}
      <4>1. YoungAlerts(w)' = {y \in Young \X Nat : y[2] \in 1 .. recent'[w][y[1]]}
        BY DEF YoungAlerts
      <4>2. ASSUME NEW y \in YoungAlerts(w)'
            PROVE  y \in YoungAlerts(w) \cup {x}
        <5>1. y = <<y[1], y[2]>> /\ y[1] \in Young /\ y[2] \in 1 .. recent'[w][y[1]]
          BY <4>1
        <5>2. y[2] \in 1 .. recent[w][y[1]] \/ (y[1] = a /\ y[2] = recent[w][a] + 1)
          BY <3>2, <5>1
        <5>3. QED BY <4>1, <5>1, <5>2, YoungMember
      <4>3. ASSUME NEW y \in YoungAlerts(w)
            PROVE  y \in YoungAlerts(w)'
        <5>1. y \in Young \X Nat /\ y[2] \in 1 .. recent[w][y[1]]
          BY YoungMember
        <5>2. y[2] \in 1 .. recent'[w][y[1]]
          BY <3>2, <5>1
        <5>3. QED BY <4>1, <5>1, <5>2
      <4>4. x \in YoungAlerts(w)'
        BY <3>1, <3>2, <4>1
      <4>5. QED BY <4>2, <4>3, <4>4
    <3>4. /\ IsFiniteSet(YoungAlerts(w)')
          /\ Cardinality(YoungAlerts(w)') =< Cardinality(YoungAlerts(w)) + 1
          /\ Cardinality(YoungAlerts(w)') \in Nat
          /\ Cardinality(YoungAlerts(w)) \in Nat
      <4> HIDE DEF x
      <4>1. IsFiniteSet(YoungAlerts(w))
        BY DEF Rated
      <4>2. /\ IsFiniteSet(YoungAlerts(w) \cup {x})
            /\ Cardinality(YoungAlerts(w) \cup {x}) =
                 IF x \in YoungAlerts(w) THEN Cardinality(YoungAlerts(w))
                 ELSE Cardinality(YoungAlerts(w)) + 1
        BY <4>1, FS_AddElement
      <4>3. /\ Cardinality(YoungAlerts(w)) \in Nat
            /\ Cardinality(YoungAlerts(w) \cup {x}) \in Nat
        BY <4>1, <4>2, FS_CardinalityType
      <4>4. QED BY <3>3, <4>2, <4>3
    <3>5. Committing(w)' \subseteq Committing(w) \ {c}
      BY <2>1 DEF Committing, TypeOK
    <3>6. c \in Committing(w)
      BY <2>1, <3>1 DEF Committing
    <3>7. /\ Cardinality(Committing(w)') =< Cardinality(Committing(w)) - 1
          /\ Cardinality(Committing(w)') \in Nat
      <4>1. /\ IsFiniteSet(Committing(w) \ {c})
            /\ Cardinality(Committing(w) \ {c}) = Cardinality(Committing(w)) - 1
        BY <3>6, CommittingFinite, FS_RemoveElement
      <4>2. QED BY <3>5, <4>1, FS_Subset, FS_CardinalityType
    <3>8. QED BY <3>4, <3>7, CommittingFinite DEF Rated
  <2>4. QED BY <2>2, <2>3
<1>10. ASSUME NEW r \in Rules,
              \/ \E state \in {"active", "inactive"} : CreateRule(r, state)
              \/ UpdateRule(r) \/ DeleteRule(r)
       PROVE  UNCHANGED <<recent, run>>
  BY <1>10 DEF CreateRule, UpdateRule, DeleteRule, alerts
<1>11. CASE UNCHANGED vars
  BY <1>3, <1>11 DEF vars, alerts
<1>12. QED
  BY <1>1, <1>2, <1>3, <1>5, <1>6, <1>7, <1>8, <1>9, <1>10, <1>11 DEF Next

(* However runs overlap, the alerts of a server and a rule that are young and *)
(* were never resolved do not outnumber them.  Those that operators took back *)
(* from resolved are not counted, whatever they do to the cooldown.  On its   *)
(* own the bound is not inductive: a run that has passed the cooldown and not *)
(* read the metrics yet counts as well.                                       *)
THEOREM AlertRateBoundedCorrect == Spec => []AlertRateBounded
<1> DEFINE RateInv == \A w \in Watched : Rated(w)
<1>1. Init => RateInv
  <2> SUFFICES ASSUME Init, NEW w \in Watched PROVE Rated(w)
    OBVIOUS
  <2>1. YoungAlerts(w) = {}
    BY YoungMember DEF Init
  <2>2. QED BY <2>1, CommittingFinite, FS_EmptySet DEF Rated
<1>2. TypeOK /\ RateInv /\ [Next]_vars => RateInv'
  BY RateStep
<1>3. RateInv => AlertRateBounded
  <2> SUFFICES ASSUME RateInv, NEW w \in Watched
               PROVE  Cardinality(YoungAlerts(w)) + Cardinality(Pending(w))
                        =< Cardinality(Runs)
    BY DEF AlertRateBounded
  <2>1. Pending(w) \subseteq Committing(w)
    BY DEF Pending, Committing
  <2>2. /\ Cardinality(Pending(w)) =< Cardinality(Committing(w))
        /\ Cardinality(Pending(w)) \in Nat
    BY <2>1, CommittingFinite, FS_Subset, FS_CardinalityType
  <2>3. Rated(w) /\ Cardinality(YoungAlerts(w)) \in Nat
    BY FS_CardinalityType DEF Rated
  <2>4. QED BY <2>2, <2>3, CommittingFinite DEF Rated
<1>4. QED BY <1>1, <1>2, <1>3, TypeCorrect, PTL DEF Spec
=============================================================================
