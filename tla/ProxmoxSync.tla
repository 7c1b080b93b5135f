----------------------------- MODULE ProxmoxSync -----------------------------
(***************************************************************************)
(* Polling Proxmox clusters (workers/proxmox_poller.py), the connections   *)
(* an operator manages and syncs by hand (api/v1/proxmox.py), and the      *)
(* inventory a cluster answers with (services/proxmox_service.py).         *)
(*                                                                         *)
(* A run is one database session that loads its connections once and then  *)
(* syncs them one after the other, each in a transaction of its own.  Runs *)
(* of the beat and syncs by hand overlap.  An UPDATE holds only the        *)
(* columns that differ from the loaded row, and the first query after the  *)
(* connection is changed flushes that UPDATE: from then to the commit the  *)
(* run holds the lock of the connection's row.                             *)
(***************************************************************************)
EXTENDS Naturals, FiniteSets

CONSTANTS
  Conns,   \* Proxmox connections
  Items,   \* nodes and virtual machines of a cluster
  Values,  \* what is recorded of an item: its status and figures
  Polls,   \* polls of the beat that may overlap
  Syncs,   \* syncs by hand that may overlap with them and with each other
  Absent, NoRun, NoConn

Runs == Polls \cup Syncs

ASSUME ValuesAssumption == Absent \notin Values
ASSUME NoRunAssumption == NoRun \notin Runs
ASSUME NoConnAssumption == NoConn \notin Conns

VARIABLES
  cluster,  \* cluster[k][i]: the item as the cluster knows it
  health,   \* health[k]: how the cluster answers
  conn,     \* conn[k]: the proxmox_connections row
  rows,     \* rows[k][i]: the proxmox_nodes or proxmox_vms row
  lock,     \* lock[k]: the run that holds the lock of the connection's row
  run       \* run[c]: the session of run c

env == <<cluster, health>>
vars == <<cluster, health, conn, rows, lock, run>>

-----------------------------------------------------------------------------
Status == {"unknown", "connected", "error"}
Shown == [status : Status, error : BOOLEAN]   \* error: last_error is not null
Inventory == [Items -> Values \cup {Absent}]
Nothing == [i \in Items |-> Absent]
Fresh == [status |-> "unknown", error |-> FALSE]

\* "partial": requests fail, and the service replaces each by an empty answer.
\* "odd": the secret cannot be decrypted or an answer has the wrong shape.
Health == {"ok", "partial", "odd"}

IdleRun == [phase |-> "idle"]
LostRun == [phase |-> "lost"]
ActiveRun ==
  [phase : {"polling", "answered", "failed", "writing"},
   todo : SUBSET Conns,            \* connections loaded and not synced yet
   loaded : [Conns -> Shown],      \* their columns as they were loaded
   cur : Conns \cup {NoConn},      \* the connection being synced
   inv : Inventory, odd : BOOLEAN, \* its answer
   missing : SUBSET Items,         \* items that were found to have no row
   found : SUBSET Items]           \* items that were found to have one

TypeOK ==
  /\ cluster \in [Conns -> Inventory]
  /\ health \in [Conns -> Health]
  /\ conn \in [Conns -> [state : {"absent", "active", "inactive"}, shown : Shown]]
  /\ rows \in [Conns -> Inventory]
  /\ lock \in [Conns -> Runs \cup {NoRun}]
  /\ run \in [Runs -> {IdleRun, LostRun} \cup ActiveRun]
  /\ \A k \in Conns :
       lock[k] # NoRun =>
         run[lock[k]].phase = "writing" /\ run[lock[k]].cur = k

Init ==
  /\ cluster = [k \in Conns |-> Nothing]
  /\ health = [k \in Conns |-> "ok"]
  /\ conn = [k \in Conns |-> [state |-> "absent", shown |-> Fresh]]
  /\ rows = [k \in Conns |-> Nothing]
  /\ lock = [k \in Conns |-> NoRun]
  /\ run = [c \in Runs |-> IdleRun]

-----------------------------------------------------------------------------
(* The cluster.                                                            *)

\* An item that leaves the cluster is one that answers leave out from then on:
\* its row stays, as it does when a request fails.
ItemTurns(k, i, value) ==
  /\ cluster' = [cluster EXCEPT ![k][i] = value]
  /\ UNCHANGED <<health, conn, rows, lock, run>>

\* Also what a changed hostname, token or secret does.
HealthTurns(k, h) ==
  /\ health' = [health EXCEPT ![k] = h]
  /\ UNCHANGED <<cluster, conn, rows, lock, run>>

(* The operator.  An UPDATE of the row waits for its lock.                 *)

CreateConnection(k) ==
  /\ conn[k].state = "absent"
  /\ conn' = [conn EXCEPT ![k].state = "active"]
  /\ UNCHANGED <<env, rows, lock, run>>

UpdateConnection(k) ==
  /\ conn[k].state = "inactive" /\ lock[k] = NoRun
  /\ conn' = [conn EXCEPT ![k].state = "active"]
  /\ UNCHANGED <<env, rows, lock, run>>

DeleteConnection(k) ==
  /\ conn[k].state = "active" /\ lock[k] = NoRun
  /\ conn' = [conn EXCEPT ![k].state = "inactive"]
  /\ UNCHANGED <<env, rows, lock, run>>

-----------------------------------------------------------------------------
(* A run.                                                                  *)

\* Between two connections.
Polling(todo, loaded) ==
  IF todo = {} THEN IdleRun
  ELSE [phase |-> "polling", todo |-> todo, cur |-> NoConn,
        loaded |-> [k \in Conns |-> IF k \in todo THEN loaded[k] ELSE Fresh],
        inv |-> Nothing, odd |-> FALSE, missing |-> {}, found |-> {}]

StartWith(c, ks) ==
  /\ run[c] \in {IdleRun, LostRun}
  /\ run' = [run EXCEPT ![c] = Polling(ks, [k \in Conns |-> conn[k].shown])]
  /\ UNCHANGED <<env, conn, rows, lock>>

\* Deviations: every connection is polled; a failing one is given up.
StartPollAll(c) == StartWith(c, {k \in Conns : conn[k].state # "absent"})
StartPollHealthy(c) ==
  StartWith(c, {k \in Conns : /\ conn[k].state = "active"
                              /\ conn[k].shown.status # "error"})

StartPoll(c) == StartWith(c, {k \in Conns : conn[k].state = "active"})

\* A sync by hand does not look at is_active.
StartSync(c, k) == conn[k].state # "absent" /\ StartWith(c, {k})

\* collect_full_inventory turns every failed request into an empty answer.
CanAnswer(k, inv) ==
  /\ \A i \in Items : inv[i] \in {cluster[k][i], Absent}
  /\ health[k] # "partial" => inv = cluster[k]

Collect(c, k, inv) ==
  /\ run[c].phase = "polling"
  /\ k \in run[c].todo /\ CanAnswer(k, inv)
  /\ run' = [run EXCEPT ![c].phase = "answered", ![c].cur = k, ![c].inv = inv,
                        ![c].todo = @ \ {k}, ![c].odd = health[k] = "odd"]
  /\ UNCHANGED <<env, conn, rows, lock>>

\* decrypt raises, or the inventory cannot be read.
CollectFails(c, k) ==
  /\ run[c].phase = "polling"
  /\ k \in run[c].todo /\ health[k] = "odd"
  /\ run' = [run EXCEPT ![c].phase = "failed", ![c].cur = k,
                        ![c].todo = @ \ {k}]
  /\ UNCHANGED <<env, conn, rows, lock>>

\* The columns that differ from the loaded row, over those of the row now.
Written(c, k, shown) ==
  [status |-> IF shown.status # run[c].loaded[k].status
                THEN shown.status ELSE conn[k].shown.status,
   error |-> IF shown.error # run[c].loaded[k].error
               THEN shown.error ELSE conn[k].shown.error]

Success == [status |-> "connected", error |-> FALSE]
Failure == [status |-> "error", error |-> TRUE]

\* Deviation: nothing is flushed before the commit, as in the API's sessions.
FlushNothing(c) ==
  /\ run[c].phase = "answered"
  /\ run' = [run EXCEPT ![c].phase = "writing"]
  /\ UNCHANGED <<env, conn, rows, lock>>

\* last_connected_at always differs: the row is written and locked in any case.
Flush(c) ==
  /\ run[c].phase = "answered"
  /\ lock[run[c].cur] = NoRun
  /\ lock' = [lock EXCEPT ![run[c].cur] = c]
  /\ run' = [run EXCEPT ![c].phase = "writing"]
  /\ UNCHANGED <<env, conn, rows>>

Upsert(c, i) ==
  /\ run[c].phase = "writing"
  /\ run[c].inv[i] # Absent /\ i \notin run[c].missing \cup run[c].found
  /\ run' = IF rows[run[c].cur][i] = Absent
              THEN [run EXCEPT ![c].missing = @ \cup {i}]
              ELSE [run EXCEPT ![c].found = @ \cup {i}]
  /\ UNCHANGED <<env, conn, rows, lock>>

Ends(c, k, shown, touched) ==
  /\ conn' = [conn EXCEPT ![k].shown = shown]
  /\ rows' = [rows EXCEPT ![k] =
                [i \in Items |-> IF i \in touched THEN run[c].inv[i] ELSE @[i]]]
  /\ lock' = [lock EXCEPT ![k] = IF @ = c THEN NoRun ELSE @]
  /\ run' = [run EXCEPT ![c] = Polling(run[c].todo, run[c].loaded)]
  /\ UNCHANGED env

\* The constraints uq_proxmox_node and uq_proxmox_vm.
Unique(c, k) == \A i \in run[c].missing : rows[k][i] = Absent

CommitOf(c, touched) ==
  /\ \A i \in Items :
       run[c].inv[i] # Absent => i \in run[c].missing \cup run[c].found
  /\ Unique(c, run[c].cur)
  /\ Ends(c, run[c].cur, Written(c, run[c].cur, Success), touched)

\* Deviation: the row of a known item is left as it is.
CommitInserts(c) == run[c].phase = "writing" /\ CommitOf(c, run[c].missing)

Commit(c) ==
  run[c].phase = "writing" /\ CommitOf(c, run[c].missing \cup run[c].found)

\* An exception before the flush.  The error is written where it differs from
\* the loaded one, and only that waits for the lock.  The text may be another.
FailsEarly(c, sameText) ==
  /\ run[c].phase = "failed"
  /\ LET k == run[c].cur
         written == Written(c, k, Failure) IN
       /\ lock[k] = NoRun \/ (run[c].loaded[k] = Failure /\ sameText)
       /\ Ends(c, k, IF sameText THEN written ELSE [written EXCEPT !.error = TRUE],
               {})

\* Deviation: the handler of the exception does not commit.
FailsOpen(c) ==
  /\ run[c].phase = "writing" /\ run[c].odd
  /\ run' = [run EXCEPT ![c] = Polling(run[c].todo, run[c].loaded)]
  /\ UNCHANGED <<env, conn, rows, lock>>

\* An exception between the flush and the commit.  What was flushed is
\* committed, and so is the error: the session's copy said "connected".
FailsMidway(c) ==
  /\ run[c].phase = "writing" /\ run[c].odd
  /\ Unique(c, run[c].cur)
  /\ Ends(c, run[c].cur, Failure, run[c].missing \cup run[c].found)

\* A database error is raised again by the commit of the error: it ends the
\* run, its other connections included, as the loss of the worker does.
Active(c) == run[c] \notin {IdleRun, LostRun}

Abort(c) ==
  /\ Active(c)
  /\ run' = [run EXCEPT ![c] = LostRun]
  /\ lock' = [k \in Conns |-> IF lock[k] = c THEN NoRun ELSE lock[k]]
  /\ UNCHANGED <<env, conn, rows>>

-----------------------------------------------------------------------------
Next ==
  \/ \E k \in Conns :
       \/ \E i \in Items, v \in Values : ItemTurns(k, i, v)
       \/ \E h \in Health : HealthTurns(k, h)
       \/ CreateConnection(k) \/ UpdateConnection(k) \/ DeleteConnection(k)
  \/ \E c \in Polls : StartPoll(c)
  \/ \E c \in Syncs, k \in Conns : StartSync(c, k)
  \/ \E c \in Runs :
       \/ \E k \in Conns :
            \/ CollectFails(c, k)
            \/ \E inv \in Inventory : Collect(c, k, inv)
       \/ \E i \in Items : Upsert(c, i)
       \/ \E sameText \in BOOLEAN : FailsEarly(c, sameText)
       \/ Flush(c) \/ Commit(c) \/ FailsMidway(c) \/ Abort(c)

Spec == Init /\ [][Next]_vars

(***************************************************************************)
(* Fairness.  The beat starts a poll every minute; every request to a      *)
(* cluster ends within its timeout; and the lock of a row is granted in    *)
(* the order of the requests for it.                                       *)
(***************************************************************************)
Waits(c) == Flush(c) \/ \E sameText \in BOOLEAN : FailsEarly(c, sameText)

Advances(c) ==
  \/ \E k \in Conns :
       CollectFails(c, k) \/ \E inv \in Inventory : Collect(c, k, inv)
  \/ \E i \in Items : Upsert(c, i)
  \/ Commit(c) \/ FailsMidway(c)

Fairness ==
  /\ \A c \in Polls : WF_vars(StartPoll(c))
  /\ \A c \in Runs : SF_vars(Waits(c)) /\ WF_vars(Advances(c))

FairSpec == Spec /\ Fairness

-----------------------------------------------------------------------------
(* No sync inserts an item another sync has inserted since: the flush that *)
(* precedes the first look at the items makes syncs of a connection wait   *)
(* for each other.  Otherwise the unique constraint would end whole polls. *)
NoDuplicateInsert ==
  \A c \in Runs :
    Active(c) => \A i \in run[c].missing : rows[run[c].cur][i] = Absent

(* No poll is lost from some time on; syncs by hand may go on to be.        *)
PollsLast == <>[](\A c \in Polls : run[c] # LostRun)

(* A connection whose cluster answers well from some time on is shown as   *)
(* connected and without an error for good, whatever overlapping runs with *)
(* older copies of the row wrote or left out before.                       *)
StatusSettles ==
  PollsLast =>
    \A k \in Conns :
      <>[](conn[k].state = "active" /\ health[k] = "ok")
        => <>[](conn[k].shown = Success)

(* An item that no longer changes is recorded as it is, for good, although *)
(* a sync may write an inventory older than the one it overwrites.         *)
InventorySettles ==
  PollsLast =>
    \A k \in Conns, i \in Items, v \in Values :
      <>[](conn[k].state = "active" /\ health[k] = "ok" /\ cluster[k][i] = v)
        => <>[](rows[k][i] = v)

(* A connection that stays deactivated, and that nobody syncs by hand, is  *)
(* left alone in the end, although polls that loaded it before go on.      *)
DeactivatedLeftAlone ==
  \A k \in Conns :
    /\ <>[](conn[k].state = "inactive")
    /\ <>[][\A c \in Syncs : ~StartSync(c, k)]_vars
    => <>[](\A c \in Runs :
              Active(c) => k \notin run[c].todo /\ run[c].cur # k)
=============================================================================
