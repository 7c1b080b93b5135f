------------------------- MODULE ProxmoxSyncProofs --------------------------
(***************************************************************************)
(* Proofs about ProxmoxSync, for any connections, items and values, and    *)
(* any number of overlapping polls and syncs.                              *)
(***************************************************************************)
EXTENDS ProxmoxSync, TLAPS

-----------------------------------------------------------------------------
(* The types of what a run holds.                                          *)

LEMMA RunTypes ==
  ASSUME TypeOK, NEW c \in Runs, run[c].phase \notin {"idle", "lost"}
  PROVE  /\ Active(c)
         /\ run[c] \in ActiveRun
         /\ run[c].todo \subseteq Conns
         /\ run[c].loaded \in [Conns -> Shown]
         /\ run[c].inv \in Inventory
         /\ run[c].missing \subseteq Items
         /\ run[c].found \subseteq Items
BY DEF TypeOK, Active, IdleRun, LostRun, ActiveRun

LEMMA ActiveTypes ==
  ASSUME TypeOK, NEW c \in Runs, Active(c)
  PROVE  /\ run[c] \in ActiveRun
         /\ run[c].phase \notin {"idle", "lost"}
BY DEF TypeOK, Active, ActiveRun

(* Between two connections a run has nothing of the last one left.         *)
LEMMA PollingTypes ==
  ASSUME NEW todo \in SUBSET Conns, NEW loaded \in [Conns -> Shown]
  PROVE  /\ Polling(todo, loaded) \in {IdleRun} \cup ActiveRun
         /\ Polling(todo, loaded).phase \in {"idle", "polling"}
         /\ Polling(todo, loaded).phase = "polling"
              => Polling(todo, loaded).missing = {}
<1>1. Fresh \in Shown
  BY DEF Fresh, Shown, Status
<1>2. Nothing \in Inventory
  BY DEF Nothing, Inventory
<1>3. CASE todo = {}
  BY <1>3 DEF Polling, IdleRun
<1>4. CASE todo # {}
  <2>1. [k \in Conns |-> IF k \in todo THEN loaded[k] ELSE Fresh]
          \in [Conns -> Shown]
    BY <1>1
  <2>2. QED BY <1>2, <1>4, <2>1 DEF Polling, ActiveRun
<1>5. QED BY <1>3, <1>4

LEMMA WrittenTypes ==
  ASSUME TypeOK, NEW c \in Runs, NEW k \in Conns, NEW shown \in Shown
  PROVE  Written(c, k, shown) \in Shown
BY DEF TypeOK, Written, Shown

-----------------------------------------------------------------------------
(* The step that ends the sync of connection k: the run lets go of the row *)
(* if it has it locked, and of nothing else, since it never locks another. *)
LEMMA EndsTypes ==
  ASSUME TypeOK, NEW c \in Runs, run[c].phase \in {"failed", "writing"},
         run[c].cur \in Conns,
         NEW shown \in Shown, NEW touched \in SUBSET Items,
         \A i \in touched : run[c].inv[i] \in Values \cup {Absent},
         Ends(c, run[c].cur, shown, touched)
  PROVE  TypeOK'
<1> DEFINE k == run[c].cur
<1>1. /\ run[c].todo \subseteq Conns
      /\ run[c].loaded \in [Conns -> Shown]
  BY RunTypes
<1>2. Polling(run[c].todo, run[c].loaded) \in {IdleRun} \cup ActiveRun
  BY <1>1, PollingTypes
<1>3. run' \in [Runs -> {IdleRun, LostRun} \cup ActiveRun]
  BY <1>2 DEF Ends, TypeOK
<1>4. conn' \in [Conns -> [state : {"absent", "active", "inactive"}, shown : Shown]]
  <2> DEFINE Row == [state : {"absent", "active", "inactive"}, shown : Shown]
  <2>1. [conn[k] EXCEPT !.shown = shown] \in Row /\ conn \in [Conns -> Row]
    BY DEF TypeOK
  <2>2. conn' = [conn EXCEPT ![k] = [conn[k] EXCEPT !.shown = shown]]
    BY DEF Ends
  <2> HIDE DEF Row
  <2>3. conn' \in [Conns -> Row]
    BY <2>1, <2>2
  <2>4. QED BY <2>3 DEF Row
<1>5. [i \in Items |-> IF i \in touched THEN run[c].inv[i] ELSE rows[k][i]]
        \in Inventory
  BY DEF TypeOK, Inventory
<1>6. rows' \in [Conns -> Inventory]
  BY <1>5 DEF Ends, TypeOK
<1>7. lock' \in [Conns -> Runs \cup {NoRun}]
  BY DEF Ends, TypeOK
<1>8. ASSUME NEW j \in Conns, lock'[j] # NoRun
      PROVE  run'[lock'[j]].phase = "writing" /\ run'[lock'[j]].cur = j
  <2>1. lock'[j] = lock[j] /\ lock[j] \in Runs
    BY <1>8 DEF Ends, TypeOK
  <2>2. run[lock[j]].phase = "writing" /\ run[lock[j]].cur = j
    BY <1>8, <2>1 DEF TypeOK
  <2>3. lock[j] # c
    BY <1>8, <2>1, <2>2 DEF Ends, TypeOK
  <2>4. run'[lock[j]] = run[lock[j]]
    BY <2>1, <2>3 DEF Ends, TypeOK
  <2>5. QED BY <2>1, <2>2, <2>4
<1>9. QED BY <1>3, <1>4, <1>6, <1>7, <1>8 DEF Ends, env, TypeOK

(* A run that holds no lock may change its record freely.                  *)
LEMMA RunChanges ==
  ASSUME TypeOK, NEW c \in Runs, NEW r \in {IdleRun, LostRun} \cup ActiveRun,
         run[c].phase # "writing" \/ (r.phase = "writing" /\ r.cur = run[c].cur),
         run' = [run EXCEPT ![c] = r], UNCHANGED <<env, conn, rows, lock>>
  PROVE  TypeOK'
<1>1. run' \in [Runs -> {IdleRun, LostRun} \cup ActiveRun]
  BY DEF TypeOK
<1>2. ASSUME NEW k \in Conns, lock[k] # NoRun
      PROVE  run'[lock[k]].phase = "writing" /\ run'[lock[k]].cur = k
  <2>1. /\ lock[k] \in Runs
        /\ run[lock[k]].phase = "writing" /\ run[lock[k]].cur = k
    BY <1>2 DEF TypeOK
  <2>2. run'[lock[k]] = IF lock[k] = c THEN r ELSE run[lock[k]]
    BY <2>1 DEF TypeOK
  <2>3. QED BY <2>1, <2>2
<1>3. QED BY <1>1, <1>2 DEF env, TypeOK

(* What a run writes of its connection is an item's value or nothing.      *)
LEMMA CommitTypes ==
  ASSUME TypeOK, NEW c \in Runs, run[c].phase = "writing", run[c].cur \in Conns
  PROVE  /\ run[c].missing \cup run[c].found \subseteq Items
         /\ \A i \in run[c].missing \cup run[c].found :
              run[c].inv[i] \in Values \cup {Absent}
BY RunTypes DEF Inventory

(* A run past its answer is at one of the connections.                     *)
AtConnection ==
  \A c \in Runs :
    run[c].phase \in {"answered", "failed", "writing"} => run[c].cur \in Conns

LEMMA TypeInit == Init => TypeOK /\ AtConnection
BY NoRunAssumption
   DEF Init, TypeOK, AtConnection, Inventory, Nothing, Health, Shown, Status,
       Fresh, IdleRun

LEMMA StartTypes ==
  ASSUME TypeOK, NEW c \in Runs, NEW ks \in SUBSET Conns, StartWith(c, ks)
  PROVE  /\ TypeOK'
         /\ run'[c].phase \in {"idle", "polling"}
<1> DEFINE r == Polling(ks, [k \in Conns |-> conn[k].shown])
<1>1. [k \in Conns |-> conn[k].shown] \in [Conns -> Shown]
  BY DEF TypeOK
<1>2. r \in {IdleRun} \cup ActiveRun /\ r.phase \in {"idle", "polling"}
  BY <1>1, PollingTypes
<1>3. run[c].phase # "writing"
  BY DEF StartWith, IdleRun, LostRun
<1>4. run' = [run EXCEPT ![c] = r] /\ UNCHANGED <<env, conn, rows, lock>>
  BY DEF StartWith
<1>5. TypeOK'
  BY <1>2, <1>3, <1>4, RunChanges
<1>6. QED BY <1>2, <1>4, <1>5 DEF TypeOK

LEMMA TypeStep == TypeOK /\ AtConnection /\ [Next]_vars => TypeOK' /\ AtConnection'
<1> SUFFICES ASSUME TypeOK, AtConnection, [Next]_vars
             PROVE  TypeOK' /\ AtConnection'
  OBVIOUS
<1> USE DEF AtConnection
<1>1. ASSUME NEW k \in Conns,
             \/ \E i \in Items, v \in Values : ItemTurns(k, i, v)
             \/ \E h \in Health : HealthTurns(k, h)
             \/ CreateConnection(k) \/ UpdateConnection(k) \/ DeleteConnection(k)
      PROVE  TypeOK' /\ AtConnection'
  <2>1. ASSUME NEW i \in Items, NEW v \in Values, ItemTurns(k, i, v)
        PROVE  TypeOK' /\ AtConnection'
    <3>1. cluster' \in [Conns -> Inventory]
      BY <2>1 DEF ItemTurns, TypeOK, Inventory
    <3>2. QED BY <2>1, <3>1 DEF ItemTurns, TypeOK
  <2>2. ASSUME NEW h \in Health, HealthTurns(k, h)
        PROVE  TypeOK' /\ AtConnection'
    BY <2>2 DEF HealthTurns, TypeOK
  <2>3. ASSUME CreateConnection(k) \/ UpdateConnection(k) \/ DeleteConnection(k)
        PROVE  TypeOK' /\ AtConnection'
    <3>1. PICK st \in {"active", "inactive"} : conn' = [conn EXCEPT ![k].state = st]
      BY <2>3 DEF CreateConnection, UpdateConnection, DeleteConnection
    <3>2. conn' \in [Conns -> [state : {"absent", "active", "inactive"}, shown : Shown]]
      BY <3>1 DEF TypeOK
    <3>3. UNCHANGED <<cluster, health, rows, lock, run>>
      BY <2>3 DEF CreateConnection, UpdateConnection, DeleteConnection, env
    <3>4. QED BY <3>2, <3>3 DEF TypeOK
  <2>4. QED BY <1>1, <2>1, <2>2, <2>3
<1>2. ASSUME NEW c \in Runs, NEW ks \in SUBSET Conns, StartWith(c, ks)
      PROVE  TypeOK' /\ AtConnection'
  <2>1. TypeOK' /\ run'[c].phase \in {"idle", "polling"}
    BY <1>2, StartTypes
  <2>2. \A d \in Runs \ {c} : run'[d] = run[d]
    BY <1>2 DEF StartWith, TypeOK
  <2>3. ASSUME NEW d \in Runs, run'[d].phase \in {"answered", "failed", "writing"}
        PROVE  run'[d].cur \in Conns
    BY <2>1, <2>2, <2>3
  <2>4. QED BY <2>1, <2>3
<1>3. ASSUME NEW c \in Runs, NEW k \in Conns, NEW inv \in Inventory, Collect(c, k, inv)
      PROVE  TypeOK' /\ AtConnection'
  <2> DEFINE r == [run[c] EXCEPT !.phase = "answered", !.cur = k, !.inv = inv,
                                 !.todo = run[c].todo \ {k}, !.odd = health[k] = "odd"]
  <2>1. run[c] \in ActiveRun
    BY <1>3, RunTypes DEF Collect
  <2>2. r \in ActiveRun
    BY <2>1 DEF ActiveRun
  <2>3. run' = [run EXCEPT ![c] = r] /\ UNCHANGED <<env, conn, rows, lock>>
    BY <1>3 DEF Collect
  <2>4. TypeOK'
    BY <1>3, <2>2, <2>3, RunChanges DEF Collect
  <2>5. QED BY <2>1, <2>3, <2>4 DEF TypeOK, ActiveRun
<1>4. ASSUME NEW c \in Runs, NEW k \in Conns, CollectFails(c, k)
      PROVE  TypeOK' /\ AtConnection'
  <2> DEFINE r == [run[c] EXCEPT !.phase = "failed", !.cur = k,
                                 !.todo = run[c].todo \ {k}]
  <2>1. run[c] \in ActiveRun
    BY <1>4, RunTypes DEF CollectFails
  <2>2. r \in ActiveRun
    BY <2>1 DEF ActiveRun
  <2>3. run' = [run EXCEPT ![c] = r] /\ UNCHANGED <<env, conn, rows, lock>>
    BY <1>4 DEF CollectFails
  <2>4. TypeOK'
    BY <1>4, <2>2, <2>3, RunChanges DEF CollectFails
  <2>5. QED BY <2>1, <2>3, <2>4 DEF TypeOK, ActiveRun
<1>5. ASSUME NEW c \in Runs, Flush(c)
      PROVE  TypeOK' /\ AtConnection'
  <2> DEFINE r == [run[c] EXCEPT !.phase = "writing"]
             k == run[c].cur
  <2>1. run[c] \in ActiveRun /\ k \in Conns
    BY <1>5, RunTypes DEF Flush
  <2>2. r \in ActiveRun /\ r.phase = "writing" /\ r.cur = k
    BY <2>1 DEF ActiveRun
  <2>3. run' = [run EXCEPT ![c] = r] /\ lock' = [lock EXCEPT ![k] = c]
    BY <1>5 DEF Flush
  <2>4. run' \in [Runs -> {IdleRun, LostRun} \cup ActiveRun]
    BY <2>2, <2>3 DEF TypeOK
  <2>5. ASSUME NEW j \in Conns, lock'[j] # NoRun
        PROVE  run'[lock'[j]].phase = "writing" /\ run'[lock'[j]].cur = j
    <3>1. CASE j = k
      BY <2>1, <2>2, <2>3, <3>1 DEF TypeOK
    <3>2. CASE j # k
      <4>1. lock'[j] = lock[j] /\ lock[j] \in Runs
        BY <2>3, <2>5, <3>2 DEF TypeOK
      <4>2. run[lock[j]].phase = "writing" /\ run[lock[j]].cur = j
        BY <2>5, <4>1 DEF TypeOK
      <4>3. run'[lock[j]] = run[lock[j]]
        BY <1>5, <2>3, <4>1, <4>2 DEF Flush, TypeOK
      <4>4. QED BY <4>1, <4>2, <4>3
    <3>3. QED BY <3>1, <3>2
  <2>6. lock' \in [Conns -> Runs \cup {NoRun}]
    BY <2>3 DEF TypeOK
  <2>7. TypeOK'
    BY <1>5, <2>4, <2>5, <2>6 DEF Flush, env, TypeOK
  <2>8. QED BY <2>1, <2>2, <2>3, <2>7 DEF TypeOK
<1>6. ASSUME NEW c \in Runs, NEW i \in Items, Upsert(c, i)
      PROVE  TypeOK' /\ AtConnection'
  <2> DEFINE m == [run[c] EXCEPT !.missing = run[c].missing \cup {i}]
             f == [run[c] EXCEPT !.found = run[c].found \cup {i}]
  <2>1. run[c] \in ActiveRun /\ run[c].phase = "writing"
    BY <1>6, RunTypes DEF Upsert
  <2>2. /\ m \in ActiveRun /\ m.phase = "writing" /\ m.cur = run[c].cur
        /\ f \in ActiveRun /\ f.phase = "writing" /\ f.cur = run[c].cur
    BY <2>1 DEF ActiveRun
  <2>3. PICK r \in {m, f} : run' = [run EXCEPT ![c] = r]
    BY <1>6 DEF Upsert
  <2>4. TypeOK'
    BY <1>6, <2>2, <2>3, RunChanges DEF Upsert
  <2>5. QED BY <2>1, <2>2, <2>3, <2>4 DEF TypeOK
<1>7. ASSUME NEW c \in Runs, NEW shown \in Shown, NEW touched \in SUBSET Items,
             run[c].phase \in {"failed", "writing"},
             \A i \in touched : run[c].inv[i] \in Values \cup {Absent},
             Ends(c, run[c].cur, shown, touched)
      PROVE  TypeOK' /\ AtConnection'
  <2>1. TypeOK'
    BY <1>7, EndsTypes
  <2>2. /\ run' = [run EXCEPT ![c] = Polling(run[c].todo, run[c].loaded)]
        /\ run \in [Runs -> {IdleRun, LostRun} \cup ActiveRun]
    BY <1>7 DEF Ends, TypeOK
  <2>3. Polling(run[c].todo, run[c].loaded).phase \in {"idle", "polling"}
    BY <1>7, RunTypes, PollingTypes
  <2>4. AtConnection'
    BY <2>2, <2>3
  <2>5. QED BY <2>1, <2>4
<1>8. Success \in Shown /\ Failure \in Shown
  BY DEF Success, Failure, Shown, Status
<1>9. ASSUME NEW c \in Runs, Commit(c)
      PROVE  TypeOK' /\ AtConnection'
  <2>1. run[c].phase = "writing" /\ run[c].cur \in Conns
    BY <1>9 DEF Commit
  <2>2. Written(c, run[c].cur, Success) \in Shown
    BY <1>8, <2>1, WrittenTypes
  <2>3. QED BY <1>7, <1>9, <2>1, <2>2, CommitTypes DEF Commit, CommitOf
<1>10. ASSUME NEW c \in Runs, FailsMidway(c)
       PROVE  TypeOK' /\ AtConnection'
  <2>1. run[c].phase = "writing" /\ run[c].cur \in Conns
    BY <1>10 DEF FailsMidway
  <2>2. QED BY <1>7, <1>8, <1>10, <2>1, CommitTypes DEF FailsMidway
<1>11. ASSUME NEW c \in Runs, NEW sameText \in BOOLEAN, FailsEarly(c, sameText)
       PROVE  TypeOK' /\ AtConnection'
  <2> DEFINE k == run[c].cur
             written == Written(c, k, Failure)
             shown == IF sameText THEN written ELSE [written EXCEPT !.error = TRUE]
  <2>1. run[c].phase = "failed" /\ k \in Conns
    BY <1>11 DEF FailsEarly
  <2>2. written \in Shown
    BY <1>8, <2>1, WrittenTypes
  <2>3. shown \in Shown
    BY <2>2 DEF Shown
  <2>4. Ends(c, run[c].cur, shown, {})
    BY <1>11 DEF FailsEarly
  <2> HIDE DEF shown, written
  <2>5. {} \in SUBSET Items /\ \A i \in {} : run[c].inv[i] \in Values \cup {Absent}
    OBVIOUS
  <2>6. QED BY <1>7, <2>1, <2>3, <2>4, <2>5
<1>12. ASSUME NEW c \in Runs, Abort(c)
       PROVE  TypeOK' /\ AtConnection'
  <2>1. run' \in [Runs -> {IdleRun, LostRun} \cup ActiveRun]
    BY <1>12 DEF Abort, TypeOK
  <2>2. lock' \in [Conns -> Runs \cup {NoRun}]
    BY <1>12 DEF Abort, TypeOK
  <2>3. ASSUME NEW j \in Conns, lock'[j] # NoRun
        PROVE  run'[lock'[j]].phase = "writing" /\ run'[lock'[j]].cur = j
    <3>1. lock'[j] = lock[j] /\ lock[j] \in Runs /\ lock[j] # c
      BY <1>12, <2>3 DEF Abort, TypeOK
    <3>2. run'[lock[j]] = run[lock[j]]
      BY <1>12, <3>1 DEF Abort, TypeOK
    <3>3. QED BY <2>3, <3>1, <3>2 DEF TypeOK
  <2>4. TypeOK'
    BY <1>12, <2>1, <2>2, <2>3 DEF Abort, env, TypeOK
  <2>5. QED BY <1>12, <2>4 DEF Abort, LostRun, TypeOK
<1>13. CASE UNCHANGED vars
  BY <1>13 DEF vars, TypeOK
<1>14. ASSUME NEW c \in Polls, StartPoll(c)
       PROVE  TypeOK' /\ AtConnection'
  BY <1>2, <1>14 DEF StartPoll, Runs
<1>15. ASSUME NEW c \in Syncs, NEW k \in Conns, StartSync(c, k)
       PROVE  TypeOK' /\ AtConnection'
  BY <1>2, <1>15 DEF StartSync, Runs
<1>16. QED
  BY <1>1, <1>3, <1>4, <1>5, <1>6, <1>9, <1>10, <1>11, <1>12, <1>13, <1>14, <1>15
  DEF Next

(* Rows, copies of rows and runs keep their types, and a lock is held only  *)
(* by the run that is writing that connection.                              *)
THEOREM TypeCorrect == Spec => []TypeOK
<1>1. TypeOK /\ AtConnection /\ [Next]_vars => (TypeOK /\ AtConnection)'
  BY TypeStep
<1>2. QED BY TypeInit, <1>1, PTL DEF Spec

-----------------------------------------------------------------------------
(* Between its flush and its commit a run holds the lock of the connection, *)
(* and at no other time does it know of an item without a row.              *)
WritesLocked ==
  \A c \in Runs :
    /\ run[c].phase = "writing" => lock[run[c].cur] = c
    /\ Active(c) /\ run[c].phase # "writing" => run[c].missing = {}

(* The implicit lock of the flush is enough for the unique constraints: an  *)
(* item that a run found without a row has none until that run commits.     *)
THEOREM NoDuplicateInsertCorrect == Spec => []NoDuplicateInsert
<1> DEFINE IInv == TypeOK /\ AtConnection /\ WritesLocked /\ NoDuplicateInsert
<1>1. Init => IInv
  BY TypeInit DEF Init, WritesLocked, NoDuplicateInsert, Active, IdleRun
<1>2. IInv /\ [Next]_vars => IInv'
  <2> SUFFICES ASSUME IInv, [Next]_vars
               PROVE  WritesLocked' /\ NoDuplicateInsert'
    BY TypeStep
  <2> USE DEF WritesLocked, NoDuplicateInsert, Active, AtConnection
  <2>1. CASE UNCHANGED <<rows, lock, run>>
    BY <2>1
  <2>2. ASSUME NEW c \in Runs, NEW r \in {IdleRun, LostRun} \cup ActiveRun,
               run' = [run EXCEPT ![c] = r], UNCHANGED <<rows, lock>>,
               r.phase # "writing", run[c].phase # "writing",
               r.phase \notin {"idle", "lost"} => r.missing = {}
        PROVE  WritesLocked' /\ NoDuplicateInsert'
    <3>1. \A d \in Runs : run'[d] = IF d = c THEN r ELSE run[d]
      BY <2>2 DEF TypeOK
    <3>2. r \notin {IdleRun, LostRun} => r.phase \notin {"idle", "lost"}
      BY <2>2 DEF ActiveRun
    <3>3. QED BY <2>2, <3>1, <3>2
  <2>3. ASSUME NEW c \in Runs, NEW ks \in SUBSET Conns, StartWith(c, ks)
        PROVE  WritesLocked' /\ NoDuplicateInsert'
    <3> DEFINE r == Polling(ks, [k \in Conns |-> conn[k].shown])
    <3>1. [k \in Conns |-> conn[k].shown] \in [Conns -> Shown]
      BY DEF TypeOK
    <3>2. /\ r \in {IdleRun} \cup ActiveRun /\ r.phase \in {"idle", "polling"}
          /\ r.phase = "polling" => r.missing = {}
      BY <3>1, PollingTypes
    <3>3. run[c].phase # "writing"
      BY <2>3 DEF StartWith, IdleRun, LostRun
    <3>4. run' = [run EXCEPT ![c] = r] /\ UNCHANGED <<rows, lock>>
      BY <2>3 DEF StartWith
    <3> HIDE DEF r
    <3>5. QED BY <2>2, <3>2, <3>3, <3>4
  <2>4. ASSUME NEW c \in Runs, NEW k \in Conns, NEW inv \in Inventory, Collect(c, k, inv)
        PROVE  WritesLocked' /\ NoDuplicateInsert'
    <3> DEFINE r == [run[c] EXCEPT !.phase = "answered", !.cur = k, !.inv = inv,
                                   !.todo = run[c].todo \ {k}, !.odd = health[k] = "odd"]
    <3>1. run[c] \in ActiveRun /\ Active(c) /\ run[c].phase = "polling"
      BY <2>4, RunTypes DEF Collect
    <3>2. r \in ActiveRun /\ r.phase = "answered" /\ r.missing = {}
      BY <3>1 DEF ActiveRun
    <3>3. run' = [run EXCEPT ![c] = r] /\ UNCHANGED <<rows, lock>>
      BY <2>4 DEF Collect
    <3> HIDE DEF r
    <3>4. QED BY <2>2, <3>1, <3>2, <3>3
  <2>5. ASSUME NEW c \in Runs, NEW k \in Conns, CollectFails(c, k)
        PROVE  WritesLocked' /\ NoDuplicateInsert'
    <3> DEFINE r == [run[c] EXCEPT !.phase = "failed", !.cur = k,
                                   !.todo = run[c].todo \ {k}]
    <3>1. run[c] \in ActiveRun /\ Active(c) /\ run[c].phase = "polling"
      BY <2>5, RunTypes DEF CollectFails
    <3>2. r \in ActiveRun /\ r.phase = "failed" /\ r.missing = {}
      BY <3>1 DEF ActiveRun
    <3>3. run' = [run EXCEPT ![c] = r] /\ UNCHANGED <<rows, lock>>
      BY <2>5 DEF CollectFails
    <3> HIDE DEF r
    <3>4. QED BY <2>2, <3>1, <3>2, <3>3
  <2>6. ASSUME NEW c \in Runs, Flush(c)
        PROVE  WritesLocked' /\ NoDuplicateInsert'
    <3> DEFINE r == [run[c] EXCEPT !.phase = "writing"]
               k == run[c].cur
    <3>1. run[c] \in ActiveRun /\ Active(c) /\ run[c].missing = {} /\ k \in Conns
      BY <2>6, RunTypes DEF Flush
    <3>2. r.phase = "writing" /\ r.cur = k /\ r.missing = {}
      BY <3>1 DEF ActiveRun
    <3>3. /\ \A d \in Runs : run'[d] = IF d = c THEN r ELSE run[d]
          /\ \A j \in Conns : lock'[j] = IF j = k THEN c ELSE lock[j]
          /\ lock[k] = NoRun /\ rows' = rows
      BY <2>6 DEF Flush, TypeOK
    <3> HIDE DEF r
    <3>4. WritesLocked'
      <4>1. ASSUME NEW d \in Runs, run'[d].phase = "writing"
            PROVE  lock'[run'[d].cur] = d
        BY <3>1, <3>2, <3>3, <4>1, NoRunAssumption
      <4>2. QED BY <3>2, <3>3, <4>1
    <3>5. NoDuplicateInsert'
      BY <3>2, <3>3
    <3>6. QED BY <3>4, <3>5
  <2>7. ASSUME NEW c \in Runs, NEW i \in Items, Upsert(c, i)
        PROVE  WritesLocked' /\ NoDuplicateInsert'
    <3> DEFINE m == [run[c] EXCEPT !.missing = run[c].missing \cup {i}]
               f == [run[c] EXCEPT !.found = run[c].found \cup {i}]
    <3>1. run[c] \in ActiveRun /\ Active(c) /\ run[c].phase = "writing"
      BY <2>7, RunTypes DEF Upsert
    <3>2. /\ m.phase = "writing" /\ m.cur = run[c].cur
          /\ m.missing = run[c].missing \cup {i}
          /\ f.phase = "writing" /\ f.cur = run[c].cur /\ f.missing = run[c].missing
      BY <3>1 DEF ActiveRun
    <3> HIDE DEF m, f
    <3>3. CASE rows[run[c].cur][i] = Absent
      <4>1. \A d \in Runs : run'[d] = IF d = c THEN m ELSE run[d]
        BY <2>7, <3>3 DEF Upsert, TypeOK, m
      <4>2. QED BY <2>7, <3>1, <3>2, <3>3, <4>1 DEF Upsert
    <3>4. CASE rows[run[c].cur][i] # Absent
      <4>1. \A d \in Runs : run'[d] = IF d = c THEN f ELSE run[d]
        BY <2>7, <3>4 DEF Upsert, TypeOK, f
      <4>2. QED BY <2>7, <3>1, <3>2, <3>4, <4>1 DEF Upsert
    <3>5. QED BY <3>3, <3>4
  <2>8. ASSUME NEW c \in Runs, run[c].phase \in {"failed", "writing"},
               NEW shown \in Shown, NEW touched \in SUBSET Items,
               touched = {} \/ run[c].phase = "writing",
               Ends(c, run[c].cur, shown, touched)
        PROVE  WritesLocked' /\ NoDuplicateInsert'
    <3> DEFINE k == run[c].cur
               r == Polling(run[c].todo, run[c].loaded)
    <3>1. k \in Conns
      BY <2>8
    <3>2. /\ r.phase \in {"idle", "polling"}
          /\ r.phase = "polling" => r.missing = {}
          /\ r \in {IdleRun} \cup ActiveRun
      BY <2>8, RunTypes, PollingTypes
    <3>3. /\ \A d \in Runs : run'[d] = IF d = c THEN r ELSE run[d]
          /\ \A j \in Conns :
               lock'[j] = IF j = k /\ lock[j] = c THEN NoRun ELSE lock[j]
      BY <2>8 DEF Ends, TypeOK
    <3>4. r \notin {IdleRun, LostRun} => r.missing = {}
      BY <3>2 DEF ActiveRun
    <3>5. \A j \in Conns, i \in Items :
            rows'[j][i] = IF j = k /\ i \in touched THEN run[c].inv[i] ELSE rows[j][i]
      <4>1. \A j \in Conns : rows'[j] =
              IF j = k THEN [i \in Items |-> IF i \in touched THEN run[c].inv[i]
                                            ELSE rows[k][i]] ELSE rows[j]
        BY <2>8, <3>1 DEF Ends, TypeOK
      <4> HIDE DEF k
      <4>2. ASSUME NEW j \in Conns, NEW i \in Items
            PROVE  rows'[j][i] = IF j = k /\ i \in touched THEN run[c].inv[i]
                                                       ELSE rows[j][i]
        <5>1. CASE j = k
          BY <3>1, <4>1, <5>1
        <5>2. CASE j # k
          BY <4>1, <5>2
        <5>3. QED BY <5>1, <5>2
      <4>3. QED BY <4>2
    <3> HIDE DEF r
    <3>6. WritesLocked'
      BY <3>2, <3>3, <3>4
    <3>7. ASSUME NEW d \in Runs, Active(d)', NEW i \in run'[d].missing
          PROVE  rows'[run'[d].cur][i] = Absent
      <4>1. d # c /\ run'[d] = run[d] /\ Active(d)
        BY <3>3, <3>4, <3>7
      <4>2. run[d].phase = "writing" /\ lock[run[d].cur] = d /\ run[d].cur \in Conns
        BY <3>7, <4>1
      <4>3. run[d].cur = k => touched = {}
        BY <2>8, <4>1, <4>2
      <4>4. i \in Items
        BY <3>7, <4>1, <4>2, RunTypes
      <4>5. QED BY <3>5, <3>7, <4>1, <4>2, <4>3, <4>4
    <3>8. QED BY <3>6, <3>7
  <2>9. Success \in Shown /\ Failure \in Shown
    BY DEF Success, Failure, Shown, Status
  <2>10. ASSUME NEW c \in Runs, Commit(c)
         PROVE  WritesLocked' /\ NoDuplicateInsert'
    <3>1. run[c].phase = "writing" /\ run[c].cur \in Conns
      BY <2>10 DEF Commit
    <3>2. Written(c, run[c].cur, Success) \in Shown
      BY <2>9, <3>1, WrittenTypes
    <3>3. QED BY <2>8, <2>10, <3>1, <3>2, CommitTypes DEF Commit, CommitOf
  <2>11. ASSUME NEW c \in Runs, FailsMidway(c)
         PROVE  WritesLocked' /\ NoDuplicateInsert'
    <3>1. run[c].phase = "writing" /\ run[c].cur \in Conns
      BY <2>11 DEF FailsMidway
    <3>2. QED BY <2>8, <2>9, <2>11, <3>1, CommitTypes DEF FailsMidway
  <2>12. ASSUME NEW c \in Runs, NEW sameText \in BOOLEAN, FailsEarly(c, sameText)
         PROVE  WritesLocked' /\ NoDuplicateInsert'
    <3> DEFINE written == Written(c, run[c].cur, Failure)
               shown == IF sameText THEN written ELSE [written EXCEPT !.error = TRUE]
    <3>1. run[c].phase = "failed" /\ run[c].cur \in Conns
      BY <2>12 DEF FailsEarly
    <3>2. written \in Shown
      BY <2>9, <3>1, WrittenTypes
    <3>3. shown \in Shown
      BY <3>2 DEF Shown
    <3>4. Ends(c, run[c].cur, shown, {})
      BY <2>12 DEF FailsEarly
    <3> HIDE DEF shown, written
    <3>5. {} \in SUBSET Items
      OBVIOUS
    <3>6. QED BY <2>8, <3>1, <3>3, <3>4, <3>5
  <2>13. ASSUME NEW c \in Runs, Abort(c)
         PROVE  WritesLocked' /\ NoDuplicateInsert'
    <3>1. /\ \A d \in Runs : run'[d] = IF d = c THEN LostRun ELSE run[d]
          /\ \A j \in Conns : lock'[j] = IF lock[j] = c THEN NoRun ELSE lock[j]
          /\ rows' = rows
      BY <2>13 DEF Abort, TypeOK
    <3>2. WritesLocked'
      BY <3>1 DEF LostRun
    <3>3. NoDuplicateInsert'
      BY <3>1 DEF LostRun
    <3>4. QED BY <3>2, <3>3
  <2>14. ASSUME NEW k \in Conns,
                \/ \E i \in Items, v \in Values : ItemTurns(k, i, v)
                \/ \E h \in Health : HealthTurns(k, h)
                \/ CreateConnection(k) \/ UpdateConnection(k) \/ DeleteConnection(k)
         PROVE  UNCHANGED <<rows, lock, run>>
    BY <2>14 DEF ItemTurns, HealthTurns, CreateConnection, UpdateConnection,
                 DeleteConnection
  <2>15. ASSUME NEW c \in Polls, StartPoll(c)
         PROVE  WritesLocked' /\ NoDuplicateInsert'
    BY <2>3, <2>15 DEF StartPoll, Runs
  <2>16. ASSUME NEW c \in Syncs, NEW k \in Conns, StartSync(c, k)
         PROVE  WritesLocked' /\ NoDuplicateInsert'
    BY <2>3, <2>16 DEF StartSync, Runs
  <2>17. CASE UNCHANGED vars
    BY <2>1, <2>17 DEF vars
  <2>18. QED
    BY <2>1, <2>4, <2>5, <2>6, <2>7, <2>10, <2>11, <2>12, <2>13, <2>14, <2>15,
       <2>16, <2>17
    DEF Next
<1>3. QED BY <1>1, <1>2, PTL DEF Spec
=============================================================================
