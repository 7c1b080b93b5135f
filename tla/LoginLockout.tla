---------------------------- MODULE LoginLockout ----------------------------
(***************************************************************************)
(* The lockout of one account after wrong passwords (login in              *)
(* api/v1/auth.py).                                                        *)
(*                                                                         *)
(* The handler loads users.failed_login_attempts and users.locked_until,   *)
(* checks the password for a while (bcrypt), and writes back a counter     *)
(* computed from what it loaded: increments of overlapping logins are      *)
(* lost.  The ORM writes a column only if its value differs from the one   *)
(* loaded.  The counter saturates at MaxAttempts, the only value it is     *)
(* compared with.                                                          *)
(***************************************************************************)
EXTENDS Integers, FiniteSets, Combinatorics

CONSTANTS
  Logins,       \* logins that may be in flight at once
  MaxAttempts,  \* MAX_LOGIN_ATTEMPTS
  Lockout       \* ACCOUNT_LOCKOUT_MINUTES, in ticks

ASSUME LoginsAssumption == IsFiniteSet(Logins)
ASSUME MaxAttemptsAssumption == MaxAttempts \in Nat \ {0}
ASSUME LockoutAssumption == Lockout \in Nat \ {0}

VARIABLES
  attempts,  \* failed_login_attempts
  lock,      \* locked_until: None, or the time left (0: in the past)
  logins,    \* logins[q]: what login q has loaded
  guesses,   \* wrong passwords answered since the last lock or login
  failures   \* wrong passwords answered in all, up to MaxAttempts

lockVars == <<attempts, lock, logins, guesses, failures>>

-----------------------------------------------------------------------------
None == -1
Lock == {None} \cup (0 .. Lockout)
Count == 0 .. MaxAttempts
Locked == lock > 0

Idle == [phase |-> "idle"]
Login == [phase : {"checking"}, right : BOOLEAN, attempts : Count, lock : {None, 0}]

LockTypeOK ==
  /\ attempts \in Count
  /\ lock \in Lock
  /\ logins \in [Logins -> {Idle} \cup Login]
  /\ guesses \in Nat
  /\ failures \in Count

LockInit ==
  /\ attempts = 0
  /\ lock = None
  /\ logins = [q \in Logins |-> Idle]
  /\ guesses = 0
  /\ failures = 0

-----------------------------------------------------------------------------
OneMore(n) == IF n = MaxAttempts THEN n ELSE n + 1

Tick ==
  /\ Locked
  /\ lock' = lock - 1
  /\ UNCHANGED <<attempts, logins, guesses, failures>>

LoadIf(q, right, admitted) ==
  /\ logins[q] = Idle
  /\ admitted
  /\ logins' = [logins EXCEPT ![q] =
                 [phase |-> "checking", right |-> right, attempts |-> attempts,
                  lock |-> lock]]
  /\ UNCHANGED <<attempts, lock, guesses, failures>>

\* Deviation: the password of a locked account is checked all the same.
LoadLocked(q, right) == LoadIf(q, right, TRUE)

\* A locked account is refused before the password is looked at.
Load(q, right) == LoadIf(q, right, ~Locked)

\* A wrong password, committed with its audit entry.
FailWith(q, tooMany) ==
  /\ logins[q] # Idle /\ ~logins[q].right
  /\ attempts' = OneMore(logins[q].attempts)
  /\ failures' = OneMore(failures)
  /\ lock' = IF tooMany THEN Lockout ELSE lock
  /\ guesses' = IF tooMany THEN 0 ELSE guesses + 1
  /\ logins' = [logins EXCEPT ![q] = Idle]

\* Deviations: > for >= in the comparison; the lock comes one failure early.
FailLate(q) == FailWith(q, logins[q].attempts >= MaxAttempts)
FailEarly(q) == FailWith(q, OneMore(logins[q].attempts) >= MaxAttempts - 1)

Fail(q) == FailWith(q, OneMore(logins[q].attempts) >= MaxAttempts)

\* The right password: zero and None are written unless they were loaded.
Succeed(q) ==
  /\ logins[q] # Idle /\ logins[q].right
  /\ attempts' = IF logins[q].attempts = 0 THEN attempts ELSE 0
  /\ lock' = IF logins[q].lock = None THEN lock ELSE None
  /\ guesses' = 0
  /\ logins' = [logins EXCEPT ![q] = Idle]
  /\ UNCHANGED failures

\* The commit fails, or the process dies: the client learns nothing about the
\* password, which is not counted as a guess.
Abort(q) ==
  /\ logins[q] # Idle
  /\ logins' = [logins EXCEPT ![q] = Idle]
  /\ UNCHANGED <<attempts, lock, guesses, failures>>

LockNext ==
  \/ Tick
  \/ \E q \in Logins :
       \/ \E right \in BOOLEAN : Load(q, right)
       \/ Fail(q) \/ Succeed(q) \/ Abort(q)

LockSpec == LockInit /\ [][LockNext]_lockVars

-----------------------------------------------------------------------------
(* Lost increments slow the lockout down but cannot stop it: with R logins *)
(* in flight at most C(MaxAttempts + R - 1, R) - 1 wrong passwords are     *)
(* answered before the account is locked (MaxAttempts - 1 when R = 1).     *)
GuessesBounded ==
  LET R == Cardinality(Logins) IN
    guesses < choose(MaxAttempts + R - 1, R)

(* Nobody is locked out early: a lock takes MaxAttempts failed logins.     *)
LockNeedsFailures == Locked => failures = MaxAttempts
=============================================================================
