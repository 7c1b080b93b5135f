------------------------------ MODULE Sessions ------------------------------
(***************************************************************************)
(* The refresh tokens and password reset tokens of one user                *)
(* (api/v1/auth.py): login, refresh, logout, forgot-password and            *)
(* reset-password.                                                         *)
(*                                                                         *)
(* A handler reads, computes (a bcrypt check in login, a hash in reset)    *)
(* and commits.  reset-password also runs a bulk UPDATE between the two:   *)
(* it revokes the refresh tokens committed by then, and keeps their rows   *)
(* locked until it commits.                                                *)
(***************************************************************************)
EXTENDS Naturals, FiniteSets

CONSTANTS
  Tokens,       \* refresh tokens
  ResetTokens,  \* password reset tokens
  Requests      \* handlers that may be in flight at once

ASSUME RequestsAssumption == IsFiniteSet(Requests)

VARIABLES
  rt,       \* rt[t]: the refresh_tokens row ("unused": live; "used": revoked)
  born,     \* born[t]: the password version the session of t was opened with
  uses,     \* uses[t]: how many refreshes were committed with t
  ended,    \* the tokens logged out with, and what was traded for them since
  prt,      \* prt[p]: the password_reset_tokens row
  resets,   \* resets[p]: how many resets were committed with p
  password, \* version of users.hashed_password
  excused,  \* the tokens that owe their life to an overlap with a reset or logout
  req       \* req[q]: what in-flight handler q has read

vars == <<rt, born, uses, ended, prt, resets, password, excused, req>>

-----------------------------------------------------------------------------
TokenState == {"absent", "unused", "used", "expired"}

IdleRequest == [kind |-> "idle"]
LoginRequest == [kind : {"login"}, pw : Nat, over : BOOLEAN]
RefreshRequest == [kind : {"refresh"}, tok : Tokens, over : BOOLEAN]
                             \* over: the handler overlaps a reset or logout
LogoutRequest == [kind : {"logout"}, tok : Tokens]
ResetRequest ==
  [kind : {"reset"}, prt : ResetTokens,
   revoked : BOOLEAN,         \* the bulk UPDATE was executed
   locked : SUBSET Tokens]    \* the rows it wrote and keeps locked

TypeOK ==
  /\ rt \in [Tokens -> TokenState]
  /\ born \in [Tokens -> Nat]
  /\ uses \in [Tokens -> Nat]
  /\ ended \subseteq Tokens
  /\ prt \in [ResetTokens -> TokenState]
  /\ resets \in [ResetTokens -> Nat]
  /\ password \in Nat
  /\ excused \subseteq Tokens
  /\ req \in [Requests -> {IdleRequest} \cup LoginRequest \cup RefreshRequest
                            \cup LogoutRequest \cup ResetRequest]

Init ==
  /\ rt = [t \in Tokens |-> "absent"]
  /\ born = [t \in Tokens |-> 0]
  /\ uses = [t \in Tokens |-> 0]
  /\ ended = {}
  /\ prt = [p \in ResetTokens |-> "absent"]
  /\ resets = [p \in ResetTokens |-> 0]
  /\ password = 0
  /\ excused = {}
  /\ req = [q \in Requests |-> IdleRequest]

-----------------------------------------------------------------------------
Is(q, kind) == req[q].kind = kind
Done(q) == req' = [req EXCEPT ![q] = IdleRequest]

\* A commit that updates the row of t waits for whoever has it locked.
Unlocked(t) ==
  \A q \in Requests : req[q].kind = "reset" => t \notin req[q].locked

\* A reset stands between its UPDATE and its commit.
MidReset == \E q \in Requests : req[q].kind = "reset" /\ req[q].revoked

\* Deviation: the handler's transaction is left open, with the locks it holds.
RequestLingers(q) ==
  /\ ~Is(q, "idle")
  /\ req' = [req EXCEPT ![q].kind = "idle"]
  /\ UNCHANGED <<rt, born, uses, ended, prt, resets, password, excused>>

\* The handler dies or the database refuses: nothing it did remains.
RequestFails(q) ==
  /\ ~Is(q, "idle")
  /\ Done(q)
  /\ UNCHANGED <<rt, born, uses, ended, prt, resets, password, excused>>

-----------------------------------------------------------------------------
\* The right password: the hash it is checked against is the one read here.
LoginReads(q) ==
  /\ Is(q, "idle")
  /\ req' = [req EXCEPT ![q] = [kind |-> "login", pw |-> password, over |-> MidReset]]
  /\ UNCHANGED <<rt, born, uses, ended, prt, resets, password, excused>>

LoginCommits(q, t) ==
  /\ Is(q, "login")
  /\ rt[t] = "absent"
  /\ rt' = [rt EXCEPT ![t] = "unused"]
  /\ born' = [born EXCEPT ![t] = req[q].pw]
  /\ excused' = IF req[q].over THEN excused \cup {t} ELSE excused
  /\ Done(q)
  /\ UNCHANGED <<uses, ended, prt, resets, password>>

-----------------------------------------------------------------------------
RefreshReadsIf(q, t, found) ==
  /\ Is(q, "idle")
  /\ found
  /\ req' = [req EXCEPT ![q] = [kind |-> "refresh", tok |-> t, over |-> MidReset]]
  /\ UNCHANGED <<rt, born, uses, ended, prt, resets, password, excused>>

\* Deviation: the look-up does not ask for revoked = false.
RefreshReadsRevoked(q, t) == RefreshReadsIf(q, t, rt[t] \in {"unused", "used"})

RefreshReads(q, t) == RefreshReadsIf(q, t, rt[t] = "unused")

\* "Revoke old token (rotation)" and the new token, in one transaction.
RefreshCommits(q, n) ==
  LET t == req[q].tok IN
    /\ Is(q, "refresh")
    /\ rt[n] = "absent"
    /\ Unlocked(t)
    /\ rt' = [rt EXCEPT ![t] = "used", ![n] = "unused"]
    /\ born' = [born EXCEPT ![n] = born[t]]
    /\ uses' = [uses EXCEPT ![t] = @ + 1]
    /\ excused' = IF req[q].over \/ t \in excused THEN excused \cup {n} ELSE excused
    /\ ended' = IF t \in ended THEN ended \cup {n} ELSE ended
    /\ Done(q)
    /\ UNCHANGED <<prt, resets, password>>

-----------------------------------------------------------------------------
\* Logout looks the row up whatever its state.
LogoutReads(q, t) ==
  /\ Is(q, "idle")
  /\ rt[t] # "absent"
  /\ req' = [req EXCEPT ![q] = [kind |-> "logout", tok |-> t]]
  /\ UNCHANGED <<rt, born, uses, ended, prt, resets, password, excused>>

LogoutCommits(q) ==
  /\ Is(q, "logout")
  /\ Unlocked(req[q].tok)
  /\ rt' = [rt EXCEPT ![req[q].tok] = "used"]
  /\ ended' = ended \cup {req[q].tok}
  /\ req' = [p \in Requests |->
               IF p = q THEN IdleRequest
               ELSE IF req[p].kind = "refresh" /\ req[p].tok = req[q].tok
                 THEN [req[p] EXCEPT !.over = TRUE]
               ELSE req[p]]
  /\ UNCHANGED <<born, uses, prt, resets, password, excused>>

-----------------------------------------------------------------------------
ForgotPassword(p) ==
  /\ prt[p] = "absent"
  /\ prt' = [prt EXCEPT ![p] = "unused"]
  /\ UNCHANGED <<rt, born, uses, ended, resets, password, excused, req>>

ResetReads(q, p) ==
  /\ Is(q, "idle")
  /\ prt[p] = "unused"
  /\ req' = [req EXCEPT ![q] =
               [kind |-> "reset", prt |-> p, revoked |-> FALSE, locked |-> {}]]
  /\ UNCHANGED <<rt, born, uses, ended, prt, resets, password, excused>>

\* The handlers in flight when a reset takes one of its two effective steps.
Overtaken ==
  [q \in Requests |->
     IF req[q].kind \in {"login", "refresh"} THEN [req[q] EXCEPT !.over = TRUE]
     ELSE req[q]]

\* UPDATE refresh_tokens SET revoked = true WHERE user_id = ...: every row
\* committed so far, and it waits for rows another reset holds.
RevokeRows(q, rows) ==
  /\ Is(q, "reset") /\ ~req[q].revoked
  /\ \A t \in rows : Unlocked(t)
  /\ req' = [Overtaken EXCEPT ![q] =
               [kind |-> "reset", prt |-> req[q].prt, revoked |-> TRUE, locked |-> rows]]
  /\ UNCHANGED <<rt, born, uses, ended, prt, resets, password, excused>>

\* Deviation: only the sessions opened before the last reset are revoked.
ResetRevokesOlder(q) == RevokeRows(q, {t \in Tokens : born[t] < password})

ResetRevokes(q) == RevokeRows(q, {t \in Tokens : rt[t] # "absent"})

ResetWith(q, spent) ==
  /\ Is(q, "reset") /\ req[q].revoked
  /\ password' = password + 1
  /\ prt' = [prt EXCEPT ![req[q].prt] = spent]
  /\ resets' = [resets EXCEPT ![req[q].prt] = @ + 1]
  /\ rt' = [t \in Tokens |-> IF t \in req[q].locked THEN "used" ELSE rt[t]]
  /\ req' = [Overtaken EXCEPT ![q] = IdleRequest]
  /\ UNCHANGED <<born, uses, ended, excused>>

\* Deviation: prt.used is not set.
ResetKeepsToken(q) == ResetWith(q, "unused")

ResetCommits(q) == ResetWith(q, "used")

\* Thirty days for a refresh token, two hours for a reset token.
Expire ==
  \/ \E t \in Tokens :
       /\ rt[t] = "unused"
       /\ rt' = [rt EXCEPT ![t] = "expired"]
       /\ UNCHANGED <<born, uses, ended, prt, resets, password, excused, req>>
  \/ \E p \in ResetTokens :
       /\ prt[p] = "unused"
       /\ prt' = [prt EXCEPT ![p] = "expired"]
       /\ UNCHANGED <<rt, born, uses, ended, resets, password, excused, req>>

-----------------------------------------------------------------------------
Next ==
  \/ \E q \in Requests :
       \/ LoginReads(q)
       \/ \E t \in Tokens :
            \/ LoginCommits(q, t)
            \/ RefreshReads(q, t) \/ RefreshCommits(q, t)
            \/ LogoutReads(q, t)
       \/ LogoutCommits(q)
       \/ \E p \in ResetTokens : ResetReads(q, p)
       \/ ResetRevokes(q) \/ ResetCommits(q)
       \/ RequestFails(q)
  \/ \E p \in ResetTokens : ForgotPassword(p)
  \/ Expire

Spec == Init /\ [][Next]_vars

-----------------------------------------------------------------------------
(* Rotation under overlap: the refreshes a token was traded in by, and     *)
(* those in flight that will, never outnumber the handlers that can be in  *)
(* flight: one token cannot fan out without bound.                         *)
Refreshing(t) == {q \in Requests : req[q].kind = "refresh" /\ req[q].tok = t}
RotationBounded ==
  \A t \in Tokens :
    uses[t] + Cardinality(Refreshing(t)) =< Cardinality(Requests)

(* What a reset ("Revoke all refresh tokens") and a logout end when        *)
(* handlers overlap: a live session from before was opened, or is descended *)
(* by rotation from one that was opened, by a handler in flight while the   *)
(* reset or logout took effect.                                             *)
SessionsEndUnlessOverlapped ==
  \A t \in Tokens :
    rt[t] = "unused" /\ (born[t] < password \/ t \in ended) => t \in excused

(* A password reset token is issued once, refused once used or expired,    *)
(* and resets at most once per handler that can be in flight.              *)
Limited == INSTANCE LimitedToken
  WITH Tokens <- ResetTokens, Limit <- Cardinality(Requests),
       token <- prt, uses <- resets
ResetTokensLimited == Limited!Spec
=============================================================================
