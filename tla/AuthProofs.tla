----------------------------- MODULE AuthProofs -----------------------------
(***************************************************************************)
(* Proofs about api/v1/auth.py: Sessions, for any refresh tokens and reset  *)
(* tokens and any finite number of handlers in flight, and LoginLockout,    *)
(* for any finite number of logins in flight, any limit and any lockout     *)
(* time.                                                                    *)
(***************************************************************************)
EXTENDS Sessions, LoginLockout, FiniteSetTheorems, WellFoundedInduction, TLAPS

(* A handler in flight carries the record of its kind.                     *)
LEMMA KindOfRequest ==
  ASSUME TypeOK, NEW q \in Requests
  PROVE  /\ Is(q, "idle") => req[q] = IdleRequest
         /\ Is(q, "login") => req[q] \in LoginRequest
         /\ Is(q, "refresh") => req[q] \in RefreshRequest
         /\ Is(q, "logout") => req[q] \in LogoutRequest
         /\ Is(q, "reset") => req[q] \in ResetRequest
         /\ req[q].kind \in {"idle", "login", "refresh", "logout", "reset"}
<1>1. req[q] \in {IdleRequest} \cup LoginRequest \cup RefreshRequest
                   \cup LogoutRequest \cup ResetRequest
  BY DEF TypeOK
<1>2. /\ IdleRequest.kind = "idle"
      /\ \A x \in LoginRequest : x.kind = "login"
      /\ \A x \in RefreshRequest : x.kind = "refresh"
      /\ \A x \in LogoutRequest : x.kind = "logout"
      /\ \A x \in ResetRequest : x.kind = "reset"
  BY DEF IdleRequest, LoginRequest, RefreshRequest, LogoutRequest, ResetRequest
<1>3. QED BY <1>1, <1>2 DEF Is

RequestType ==
  {IdleRequest} \cup LoginRequest \cup RefreshRequest \cup LogoutRequest
    \cup ResetRequest

(* A login or a refresh that is overtaken stays what it is; a reset and a   *)
(* logout are not touched.                                                  *)
LEMMA OverType ==
  ASSUME TypeOK, NEW q \in Requests, req[q].kind \in {"login", "refresh"}
  PROVE  /\ [req[q] EXCEPT !.over = TRUE] \in RequestType
         /\ [req[q] EXCEPT !.over = TRUE].over
         /\ [req[q] EXCEPT !.over = TRUE].kind = req[q].kind
         /\ Is(q, "login") => [req[q] EXCEPT !.over = TRUE].pw = req[q].pw
         /\ Is(q, "refresh") => [req[q] EXCEPT !.over = TRUE].tok = req[q].tok
<1>1. CASE req[q].kind = "login"
  <2>1. req[q] \in LoginRequest
    BY <1>1, KindOfRequest DEF Is
  <2>2. QED BY <1>1, <2>1 DEF RequestType, LoginRequest, Is
<1>2. CASE req[q].kind = "refresh"
  <2>1. req[q] \in RefreshRequest
    BY <1>2, KindOfRequest DEF Is
  <2>2. QED BY <1>2, <2>1 DEF RequestType, RefreshRequest, Is
<1>3. QED BY <1>1, <1>2

LEMMA OvertakenType ==
  ASSUME TypeOK
  PROVE  Overtaken \in [Requests -> RequestType]
BY OverType DEF Overtaken, TypeOK, RequestType

LEMMA TypeStep == TypeOK /\ [Next]_vars => TypeOK'
<1> SUFFICES ASSUME TypeOK, [Next]_vars PROVE TypeOK'
  OBVIOUS
<1>1. ASSUME NEW q \in Requests, NEW r \in RequestType,
             req' = [req EXCEPT ![q] = r]
      PROVE  req' \in [Requests -> RequestType]
  BY <1>1 DEF TypeOK, RequestType
<1>2. IdleRequest \in RequestType
  BY DEF RequestType
<1>3. ASSUME NEW q \in Requests, LoginReads(q)
      PROVE  TypeOK'
  <2>1. [kind |-> "login", pw |-> password, over |-> MidReset] \in RequestType
    <3>1. MidReset \in BOOLEAN
      BY DEF MidReset
    <3>2. QED BY <3>1 DEF RequestType, LoginRequest, TypeOK
  <2>2. req' \in [Requests -> RequestType]
    BY <1>1, <1>3, <2>1 DEF LoginReads
  <2>3. QED BY <1>3, <2>2 DEF LoginReads, TypeOK, RequestType
<1>4. ASSUME NEW q \in Requests, NEW t \in Tokens, LoginCommits(q, t)
      PROVE  TypeOK'
  <2>1. req[q].pw \in Nat
    BY <1>4, KindOfRequest DEF LoginCommits, LoginRequest
  <2>2. req' \in [Requests -> RequestType]
    BY <1>1, <1>2, <1>4 DEF LoginCommits, Done
  <2>3. /\ rt' \in [Tokens -> TokenState] /\ born' \in [Tokens -> Nat]
        /\ excused' \subseteq Tokens
    BY <1>4, <2>1 DEF LoginCommits, TypeOK, TokenState
  <2>4. QED BY <1>4, <2>2, <2>3 DEF LoginCommits, TypeOK, RequestType
<1>5. ASSUME NEW q \in Requests, NEW t \in Tokens, RefreshReads(q, t)
      PROVE  TypeOK'
  <2>1. [kind |-> "refresh", tok |-> t, over |-> MidReset] \in RequestType
    <3>1. MidReset \in BOOLEAN
      BY DEF MidReset
    <3>2. QED BY <3>1 DEF RequestType, RefreshRequest
  <2>2. req' \in [Requests -> RequestType]
    BY <1>1, <1>5, <2>1 DEF RefreshReads, RefreshReadsIf
  <2>3. QED BY <1>5, <2>2 DEF RefreshReads, RefreshReadsIf, TypeOK, RequestType
<1>6. ASSUME NEW q \in Requests, NEW n \in Tokens, RefreshCommits(q, n)
      PROVE  TypeOK'
  <2>1. req[q].tok \in Tokens
    BY <1>6, KindOfRequest DEF RefreshCommits, RefreshRequest
  <2>2. req' \in [Requests -> RequestType]
    BY <1>1, <1>2, <1>6 DEF RefreshCommits, Done
  <2>3. rt' \in [Tokens -> TokenState] /\ born' \in [Tokens -> Nat]
    BY <1>6, <2>1 DEF RefreshCommits, TypeOK, TokenState
  <2>4. uses' \in [Tokens -> Nat]
    BY <1>6, <2>1 DEF RefreshCommits, TypeOK
  <2>5. excused' \subseteq Tokens /\ ended' \subseteq Tokens
    BY <1>6 DEF RefreshCommits, TypeOK
  <2>6. QED BY <1>6, <2>2, <2>3, <2>4, <2>5 DEF RefreshCommits, TypeOK, RequestType
<1>7. ASSUME NEW q \in Requests, NEW t \in Tokens, LogoutReads(q, t)
      PROVE  TypeOK'
  <2>1. [kind |-> "logout", tok |-> t] \in RequestType
    BY DEF RequestType, LogoutRequest
  <2>2. req' \in [Requests -> RequestType]
    BY <1>1, <1>7, <2>1 DEF LogoutReads
  <2>3. QED BY <1>7, <2>2 DEF LogoutReads, TypeOK, RequestType
<1>8. ASSUME NEW q \in Requests, LogoutCommits(q)
      PROVE  TypeOK'
  <2>1. req[q].tok \in Tokens
    BY <1>8, KindOfRequest DEF LogoutCommits, LogoutRequest
  <2>2. req' \in [Requests -> RequestType]
    <3>1. \A p \in Requests :
            req[p].kind = "refresh" => [req[p] EXCEPT !.over = TRUE] \in RequestType
      BY OverType
    <3>2. QED BY <1>2, <1>8, <3>1 DEF LogoutCommits, TypeOK, RequestType
  <2>3. rt' \in [Tokens -> TokenState] /\ ended' \subseteq Tokens
    BY <1>8, <2>1 DEF LogoutCommits, TypeOK, TokenState
  <2>4. QED BY <1>8, <2>2, <2>3 DEF LogoutCommits, TypeOK, RequestType
<1>9. ASSUME NEW q \in Requests, NEW p \in ResetTokens, ResetReads(q, p)
      PROVE  TypeOK'
  <2>1. [kind |-> "reset", prt |-> p, revoked |-> FALSE, locked |-> {}] \in RequestType
    BY DEF RequestType, ResetRequest
  <2>2. req' \in [Requests -> RequestType]
    BY <1>1, <1>9, <2>1 DEF ResetReads
  <2>3. QED BY <1>9, <2>2 DEF ResetReads, TypeOK, RequestType
<1>10. ASSUME NEW q \in Requests, ResetRevokes(q)
       PROVE  TypeOK'
  <2> DEFINE r == [kind |-> "reset", prt |-> req[q].prt, revoked |-> TRUE,
                   locked |-> {t \in Tokens : rt[t] # "absent"}]
  <2>1. req[q].prt \in ResetTokens
    BY <1>10, KindOfRequest DEF ResetRevokes, RevokeRows, ResetRequest
  <2>2. r \in RequestType
    BY <2>1 DEF RequestType, ResetRequest
  <2>3. req' = [Overtaken EXCEPT ![q] = r]
    BY <1>10 DEF ResetRevokes, RevokeRows
  <2> HIDE DEF r
  <2>4. req' \in [Requests -> RequestType]
    BY <2>2, <2>3, OvertakenType
  <2>5. QED BY <1>10, <2>4 DEF ResetRevokes, RevokeRows, TypeOK, RequestType
<1>11. ASSUME NEW q \in Requests, ResetCommits(q)
       PROVE  TypeOK'
  <2>1. req[q].prt \in ResetTokens
    BY <1>11, KindOfRequest DEF ResetCommits, ResetWith, ResetRequest
  <2>2. req' \in [Requests -> RequestType]
    BY <1>2, <1>11, OvertakenType DEF ResetCommits, ResetWith
  <2>3. prt' \in [ResetTokens -> TokenState] /\ resets' \in [ResetTokens -> Nat]
    BY <1>11, <2>1 DEF ResetCommits, ResetWith, TypeOK, TokenState
  <2>4. rt' \in [Tokens -> TokenState] /\ password' \in Nat
    BY <1>11 DEF ResetCommits, ResetWith, TypeOK, TokenState
  <2>5. QED BY <1>11, <2>2, <2>3, <2>4 DEF ResetCommits, ResetWith, TypeOK, RequestType
<1>12. ASSUME NEW q \in Requests, RequestFails(q)
       PROVE  TypeOK'
  <2>1. req' \in [Requests -> RequestType]
    BY <1>1, <1>2, <1>12 DEF RequestFails, Done
  <2>2. QED BY <1>12, <2>1 DEF RequestFails, TypeOK, RequestType
<1>13. ASSUME NEW p \in ResetTokens, ForgotPassword(p)
       PROVE  TypeOK'
  BY <1>13 DEF ForgotPassword, TypeOK, TokenState
<1>14. CASE Expire
  BY <1>14 DEF Expire, TypeOK, TokenState
<1>15. CASE UNCHANGED vars
  BY <1>15 DEF vars, TypeOK
<1>16. QED
  BY <1>3, <1>4, <1>5, <1>6, <1>7, <1>8, <1>9, <1>10, <1>11, <1>12, <1>13, <1>14,
     <1>15 DEF Next

(* Tokens, sessions and the handlers in flight keep their types.           *)
THEOREM TypeCorrect == Spec => []TypeOK
<1>1. Init => TypeOK
  BY DEF Init, TypeOK, TokenState
<1>2. QED BY <1>1, TypeStep, PTL DEF Spec

-----------------------------------------------------------------------------
(* What a step does.  A handler that is in flight after a step was so       *)
(* before, for the same token, or has just read.                            *)
LEMMA HandlerStep ==
  ASSUME TypeOK, [Next]_vars, NEW p \in Requests
  PROVE  /\ Is(p, "refresh")' =>
              \/ /\ Is(p, "refresh") /\ req'[p].tok = req[p].tok
                 /\ req[p].over => req'[p].over
              \/ \E t \in Tokens :
                   RefreshReads(p, t) /\ req'[p].tok = t /\ req'[p].over = MidReset
         /\ Is(p, "login")' =>
              \/ /\ Is(p, "login") /\ req'[p].pw = req[p].pw
                 /\ req[p].over => req'[p].over
              \/ LoginReads(p) /\ req'[p].pw = password /\ req'[p].over = MidReset
         /\ Is(p, "reset")' =>
              \/ Is(p, "reset") /\ req'[p] = req[p]
              \/ Is(p, "reset") /\ req'[p].prt = req[p].prt /\ ResetRevokes(p)
              \/ \E k \in ResetTokens :
                   /\ ResetReads(p, k)
                   /\ req'[p].prt = k /\ ~req'[p].revoked
<1> DEFINE
      Goes ==
        /\ Is(p, "refresh")' =>
             /\ Is(p, "refresh") /\ req'[p].tok = req[p].tok
             /\ req[p].over => req'[p].over
        /\ Is(p, "login")' =>
             /\ Is(p, "login") /\ req'[p].pw = req[p].pw
             /\ req[p].over => req'[p].over
        /\ Is(p, "reset")' => Is(p, "reset") /\ req'[p] = req[p]
<1> USE DEF Is
<1>1. CASE req'[p] = req[p]
  BY <1>1
<1>2. CASE req'[p] = IdleRequest
  BY <1>2 DEF IdleRequest
<1>3. CASE req'[p] = [req[p] EXCEPT !.over = TRUE] /\ req[p].kind \in {"login", "refresh"}
  BY <1>3, OverType
<1>4. ASSUME NEW q \in Requests, NEW r \in RequestType,
             req' = [req EXCEPT ![q] = r], p # q
      PROVE  req'[p] = req[p]
  BY <1>4 DEF TypeOK
<1>5. ASSUME NEW q \in Requests, Done(q)
      PROVE  req'[p] \in {req[p], IdleRequest}
  BY <1>5 DEF Done, TypeOK
<1>6. Overtaken[p] = req[p]
        \/ (Overtaken[p] = [req[p] EXCEPT !.over = TRUE]
              /\ req[p].kind \in {"login", "refresh"})
  BY DEF Overtaken
<1>7. ASSUME NEW q \in Requests, LoginReads(q)
      PROVE  req'[p] = req[p]
               \/ /\ p = q /\ req'[p].kind = "login"
                  /\ req'[p].pw = password /\ req'[p].over = MidReset
  BY <1>7 DEF LoginReads, TypeOK
<1>8. ASSUME NEW q \in Requests, NEW t \in Tokens, RefreshReads(q, t)
      PROVE  req'[p] = req[p]
               \/ /\ p = q /\ req'[p].kind = "refresh"
                  /\ req'[p].tok = t /\ req'[p].over = MidReset
  BY <1>8 DEF RefreshReads, RefreshReadsIf, TypeOK
<1>9. ASSUME NEW q \in Requests, NEW t \in Tokens, LogoutReads(q, t)
      PROVE  req'[p] = req[p] \/ req'[p].kind = "logout"
  BY <1>9 DEF LogoutReads, TypeOK
<1>10. ASSUME NEW q \in Requests, LogoutCommits(q)
       PROVE  \/ req'[p] \in {req[p], IdleRequest}
              \/ /\ req'[p] = [req[p] EXCEPT !.over = TRUE]
                 /\ req[p].kind \in {"login", "refresh"}
  BY <1>10 DEF LogoutCommits
<1>11. ASSUME NEW q \in Requests, NEW k \in ResetTokens, ResetReads(q, k)
       PROVE  req'[p] = req[p]
                \/ /\ p = q /\ req'[p].kind = "reset"
                   /\ req'[p].prt = k /\ ~req'[p].revoked
  BY <1>11 DEF ResetReads, TypeOK
<1>12. ASSUME NEW q \in Requests, ResetRevokes(q)
       PROVE  \/ req'[p] = Overtaken[p]
              \/ /\ p = q /\ req'[p].kind = "reset" /\ req[p].kind = "reset"
                 /\ req'[p].prt = req[p].prt
  BY <1>12, OvertakenType DEF ResetRevokes, RevokeRows
<1>13. ASSUME NEW q \in Requests, ResetCommits(q)
       PROVE  req'[p] \in {Overtaken[p], IdleRequest}
  BY <1>13, OvertakenType DEF ResetCommits, ResetWith
<1>14. ASSUME NEW q \in Requests, NEW t \in Tokens,
              LoginCommits(q, t) \/ RefreshCommits(q, t) \/ RequestFails(q)
       PROVE  req'[p] \in {req[p], IdleRequest}
  BY <1>5, <1>14 DEF LoginCommits, RefreshCommits, RequestFails
<1>15. ASSUME NEW q \in Requests, RequestFails(q)
       PROVE  req'[p] \in {req[p], IdleRequest}
  BY <1>5, <1>15 DEF RequestFails
<1>16. ASSUME NEW k \in ResetTokens, ForgotPassword(k)
       PROVE  req'[p] = req[p]
  BY <1>16 DEF ForgotPassword
<1>17. CASE Expire
  BY <1>1, <1>17 DEF Expire
<1>18. CASE UNCHANGED vars
  BY <1>1, <1>18 DEF vars
<1>19. ASSUME NEW q \in Requests,
              \/ LoginReads(q)
              \/ \E t \in Tokens : LoginCommits(q, t) \/ RefreshReads(q, t)
                                   \/ RefreshCommits(q, t) \/ LogoutReads(q, t)
              \/ LogoutCommits(q)
              \/ \E k \in ResetTokens : ResetReads(q, k)
              \/ ResetRevokes(q) \/ ResetCommits(q) \/ RequestFails(q)
       PROVE  \/ Goes
              \/ /\ Is(p, "refresh")'
                 /\ \E t \in Tokens :
                      RefreshReads(p, t) /\ req'[p].tok = t /\ req'[p].over = MidReset
              \/ /\ Is(p, "login")'
                 /\ LoginReads(p) /\ req'[p].pw = password /\ req'[p].over = MidReset
              \/ /\ Is(p, "reset")' /\ Is(p, "reset")
                 /\ req'[p].prt = req[p].prt /\ ResetRevokes(p)
              \/ /\ Is(p, "reset")'
                 /\ \E k \in ResetTokens :
                      ResetReads(p, k) /\ req'[p].prt = k /\ ~req'[p].revoked
  <2>1. req'[p] = req[p] => Goes
    OBVIOUS
  <2>2. req'[p] = IdleRequest => Goes
    BY DEF IdleRequest
  <2>3. req'[p] = [req[p] EXCEPT !.over = TRUE] /\ req[p].kind \in {"login", "refresh"}
          => Goes
    BY OverType
  <2> HIDE DEF Goes
  <2>4. CASE LoginReads(q)
    BY <1>7, <2>1, <2>4
  <2>5. ASSUME NEW t \in Tokens, RefreshReads(q, t)
        PROVE  Goes \/ (/\ req'[p].kind = "refresh"
                        /\ RefreshReads(p, t) /\ req'[p].tok = t
                        /\ req'[p].over = MidReset)
    BY <1>8, <2>1, <2>5
  <2>6. ASSUME NEW t \in Tokens,
               LoginCommits(q, t) \/ RefreshCommits(q, t)
        PROVE  Goes
    BY <1>14, <2>1, <2>2, <2>6
  <2>7. ASSUME NEW t \in Tokens, LogoutReads(q, t)
        PROVE  Goes
    <3>1. req'[p].kind = "logout" => Goes
      BY DEF Goes
    <3>2. QED BY <1>9, <2>1, <2>7, <3>1
  <2>8. CASE LogoutCommits(q)
    BY <1>10, <2>1, <2>2, <2>3, <2>8
  <2>9. ASSUME NEW k \in ResetTokens, ResetReads(q, k)
        PROVE  Goes \/ (/\ req'[p].kind = "reset"
                        /\ ResetReads(p, k) /\ req'[p].prt = k /\ ~req'[p].revoked)
    BY <1>11, <2>1, <2>9
  <2>10. CASE ResetRevokes(q)
    BY <1>6, <1>12, <2>1, <2>3, <2>10
  <2>11. CASE ResetCommits(q)
    BY <1>6, <1>13, <2>1, <2>2, <2>3, <2>11
  <2>12. CASE RequestFails(q)
    BY <1>15, <2>1, <2>2, <2>12
  <2>13. QED
    BY <1>19, <2>4, <2>5, <2>6, <2>7, <2>8, <2>9, <2>10, <2>11, <2>12
<1>20. QED BY <1>1, <1>16, <1>17, <1>18, <1>19 DEF Next

(* What happens to a refresh token in a step.                              *)
LEMMA TokenStep ==
  ASSUME TypeOK, [Next]_vars, NEW t \in Tokens
  PROVE  /\ rt'[t] = "absent" => rt[t] = "absent"
         /\ rt'[t] = "unused" =>
              \/ rt[t] = "unused"
              \/ \E q \in Requests : LoginCommits(q, t) \/ RefreshCommits(q, t)
         /\ uses'[t] # uses[t] =>
              \E q \in Requests, n \in Tokens :
                /\ RefreshCommits(q, n) /\ req[q].tok = t
                /\ uses'[t] = uses[t] + 1
         /\ born'[t] # born[t] => rt[t] = "absent"
         /\ t \in ended' =>
              \/ t \in ended
              \/ \E q \in Requests : LogoutCommits(q) /\ req[q].tok = t
              \/ \E q \in Requests : RefreshCommits(q, t) /\ req[q].tok \in ended
         /\ excused \subseteq excused'
<1> DEFINE Same ==
  /\ rt'[t] = "absent" => rt[t] = "absent"
  /\ rt'[t] = "unused" => rt[t] = "unused"
  /\ uses'[t] = uses[t] /\ born'[t] = born[t]
  /\ excused \subseteq excused'
<1>1. ASSUME NEW q \in Requests, NEW n \in Tokens, LoginCommits(q, n)
      PROVE  /\ rt'[t] = "absent" => rt[t] = "absent"
             /\ rt'[t] = "unused" => rt[t] = "unused" \/ LoginCommits(q, t)
             /\ born'[t] # born[t] => rt[t] = "absent"
             /\ excused \subseteq excused'
             /\ uses' = uses /\ ended' = ended
  BY <1>1 DEF LoginCommits, TypeOK
<1>2. ASSUME NEW q \in Requests, NEW n \in Tokens, RefreshCommits(q, n)
      PROVE  /\ rt'[t] = "absent" => rt[t] = "absent"
             /\ rt'[t] = "unused" => rt[t] = "unused" \/ RefreshCommits(q, t)
             /\ born'[t] # born[t] => rt[t] = "absent"
             /\ uses'[t] # uses[t] => req[q].tok = t /\ uses'[t] = uses[t] + 1
             /\ excused \subseteq excused'
             /\ t \in ended' =>
                  t \in ended \/ (RefreshCommits(q, t) /\ req[q].tok \in ended)
  BY <1>2 DEF RefreshCommits, TypeOK
<1>3. ASSUME NEW q \in Requests, LogoutCommits(q)
      PROVE  /\ Same
             /\ t \in ended' => t \in ended \/ req[q].tok = t
  BY <1>3 DEF LogoutCommits, TypeOK
<1>4. ASSUME NEW q \in Requests, ResetCommits(q)
      PROVE  Same /\ ended' = ended
  BY <1>4 DEF ResetCommits, ResetWith, TypeOK
<1>5. CASE Expire
  BY <1>5 DEF Expire, TypeOK
<1>6. CASE UNCHANGED <<rt, born, uses, ended, excused>>
  BY <1>6
<1>7. ASSUME NEW q \in Requests,
             \/ LoginReads(q) \/ ResetRevokes(q) \/ RequestFails(q)
             \/ \E n \in Tokens : RefreshReads(q, n) \/ LogoutReads(q, n)
             \/ \E p \in ResetTokens : ResetReads(q, p)
      PROVE  UNCHANGED <<rt, born, uses, ended, excused>>
  BY <1>7 DEF LoginReads, ResetRevokes, RevokeRows, RequestFails, RefreshReads,
              RefreshReadsIf, LogoutReads, ResetReads
<1>8. ASSUME NEW p \in ResetTokens, ForgotPassword(p)
      PROVE  UNCHANGED <<rt, born, uses, ended, excused>>
  BY <1>8 DEF ForgotPassword
<1>9. CASE UNCHANGED vars
  BY <1>6, <1>9 DEF vars
<1>10. ASSUME NEW q \in Requests, NEW n \in Tokens,
              LoginCommits(q, n) \/ RefreshCommits(q, n)
       PROVE  /\ rt'[t] = "absent" => rt[t] = "absent"
              /\ rt'[t] = "unused" =>
                   rt[t] = "unused" \/ LoginCommits(q, t) \/ RefreshCommits(q, t)
              /\ uses'[t] # uses[t] =>
                   RefreshCommits(q, n) /\ req[q].tok = t /\ uses'[t] = uses[t] + 1
              /\ born'[t] # born[t] => rt[t] = "absent"
              /\ t \in ended' =>
                   t \in ended \/ (RefreshCommits(q, t) /\ req[q].tok \in ended)
              /\ excused \subseteq excused'
  BY <1>1, <1>2, <1>10
<1>11. \/ \E q \in Requests, n \in Tokens : LoginCommits(q, n) \/ RefreshCommits(q, n)
       \/ \E q \in Requests : LogoutCommits(q) \/ ResetCommits(q)
       \/ Expire \/ UNCHANGED <<rt, born, uses, ended, excused>>
  BY <1>7, <1>8, <1>9 DEF Next, vars
<1>12. QED BY <1>3, <1>4, <1>5, <1>6, <1>10, <1>11

LEMMA PasswordStep ==
  ASSUME [Next]_vars, password' # password
  PROVE  \E q \in Requests : ResetCommits(q)
<1>1. ASSUME NEW q \in Requests,
             \/ LoginReads(q) \/ LogoutCommits(q) \/ ResetRevokes(q) \/ RequestFails(q)
             \/ \E t \in Tokens : LoginCommits(q, t) \/ RefreshReads(q, t)
                                  \/ RefreshCommits(q, t) \/ LogoutReads(q, t)
             \/ \E p \in ResetTokens : ResetReads(q, p)
      PROVE  password' = password
  BY <1>1 DEF LoginReads, LoginCommits, RefreshReads, RefreshReadsIf, RefreshCommits,
              LogoutReads, LogoutCommits, ResetReads, ResetRevokes, RevokeRows,
              RequestFails
<1>2. QED BY <1>1 DEF Next, ForgotPassword, Expire, vars

-----------------------------------------------------------------------------
(* A token that a refresh in flight has found stays in its table; one that  *)
(* is absent or live was never traded in.                                   *)
RotationInv ==
  /\ \A t \in Tokens : rt[t] \in {"absent", "unused"} => uses[t] = 0
  /\ \A q \in Requests : Is(q, "refresh") => rt[req[q].tok] # "absent"

LEMMA RotationStep ==
  ASSUME TypeOK, RotationInv, [Next]_vars
  PROVE  RotationInv'
<1>1. ASSUME NEW t \in Tokens, rt'[t] \in {"absent", "unused"}
      PROVE  uses'[t] = 0
  <2>1. rt[t] \in {"absent", "unused"}
    BY <1>1, TokenStep DEF LoginCommits, RefreshCommits
  <2>2. ASSUME NEW q \in Requests, NEW n \in Tokens, RefreshCommits(q, n),
               req[q].tok = t
        PROVE  FALSE
    <3>1. rt[t] # "absent" /\ rt[n] = "absent"
      BY <2>2 DEF RotationInv, RefreshCommits, Is
    <3>2. rt'[t] = "used"
      BY <2>2, <3>1 DEF RefreshCommits, TypeOK
    <3>3. QED BY <1>1, <3>2
  <2>3. uses[t] = 0
    BY <2>1 DEF RotationInv
  <2>4. QED BY <2>2, <2>3, TokenStep
<1>2. ASSUME NEW q \in Requests, Is(q, "refresh")'
      PROVE  rt'[req'[q].tok] # "absent"
  <2>1. req'[q].tok \in Tokens
    BY <1>2, TypeStep, KindOfRequest DEF TypeOK, Is, RefreshRequest, IdleRequest,
       LoginRequest, LogoutRequest, ResetRequest
  <2>2. rt[req'[q].tok] # "absent"
    BY <1>2, HandlerStep DEF RotationInv, RefreshReads, RefreshReadsIf
  <2>3. QED BY <2>1, <2>2, TokenStep
<1>3. QED BY <1>1, <1>2 DEF RotationInv

(* A token cannot fan out: it is traded in at most once per handler that    *)
(* can be in flight, since each of those read it while it was live.         *)
THEOREM RotationBoundedCorrect == Spec => []RotationBounded
<1> DEFINE IInv == RotationInv /\ RotationBounded
<1>1. Init => IInv
  <2> SUFFICES ASSUME Init PROVE IInv
    OBVIOUS
  <2>1. \A q \in Requests : req[q].kind = "idle"
    BY DEF Init, IdleRequest
  <2>2. \A t \in Tokens : Refreshing(t) = {} /\ uses[t] = 0
    BY <2>1 DEF Init, Refreshing
  <2>3. Cardinality(Requests) \in Nat
    BY RequestsAssumption, FS_CardinalityType
  <2>4. QED BY <2>1, <2>2, <2>3, FS_EmptySet DEF RotationInv, RotationBounded, Is
<1>2. TypeOK /\ IInv /\ [Next]_vars => IInv'
  <2> SUFFICES ASSUME TypeOK, IInv, [Next]_vars, NEW t \in Tokens
               PROVE  uses'[t] + Cardinality(Refreshing(t)')
                        =< Cardinality(Requests)
    BY RotationStep DEF RotationBounded
  <2> DEFINE R == Refreshing(t)
             S == Refreshing(t)'
  <2>1. R \subseteq Requests /\ S \subseteq Requests
    BY DEF Refreshing
  <2>2. /\ IsFiniteSet(R) /\ IsFiniteSet(S)
        /\ Cardinality(R) \in Nat /\ Cardinality(S) \in Nat
        /\ Cardinality(Requests) \in Nat
        /\ Cardinality(S) =< Cardinality(Requests)
    BY <2>1, RequestsAssumption, FS_Subset, FS_CardinalityType
  <2>3. uses[t] \in Nat /\ uses[t] + Cardinality(R) =< Cardinality(Requests)
    BY DEF TypeOK, RotationBounded
  <2> HIDE DEF R, S
  <2>4. CASE uses'[t] # uses[t]
    <3>1. PICK q \in Requests, n \in Tokens :
            RefreshCommits(q, n) /\ req[q].tok = t /\ uses'[t] = uses[t] + 1
      BY <2>4, TokenStep
    <3>2. q \in R /\ S \subseteq R \ {q}
      <4>1. \A p \in Requests : req'[p] = IF p = q THEN IdleRequest ELSE req[p]
        BY <3>1 DEF RefreshCommits, Done, TypeOK
      <4>2. QED BY <3>1, <4>1 DEF R, S, Refreshing, RefreshCommits, Is, IdleRequest
    <3>3. /\ IsFiniteSet(R \ {q})
          /\ Cardinality(R \ {q}) = Cardinality(R) - 1
      BY <2>2, <3>2, FS_RemoveElement
    <3>4. Cardinality(S) =< Cardinality(R) - 1
      BY <3>2, <3>3, FS_Subset
    <3>5. QED BY <2>2, <2>3, <3>1, <3>4 DEF S
  <2>5. CASE uses'[t] = uses[t] /\ S \subseteq R
    <3>1. Cardinality(S) =< Cardinality(R)
      BY <2>2, <2>5, FS_Subset
    <3>2. QED BY <2>2, <2>3, <2>5, <3>1 DEF S
  <2>6. CASE uses'[t] = uses[t] /\ ~(S \subseteq R)
    <3>1. PICK p \in Requests : p \in S /\ p \notin R
      BY <2>1, <2>6
    <3>2. RefreshReads(p, t)
      BY <3>1, HandlerStep DEF R, S, Refreshing, Is
    <3>3. uses[t] = 0
      BY <3>2 DEF RefreshReads, RefreshReadsIf, RotationInv
    <3>4. QED BY <2>2, <2>6, <3>3 DEF S
  <2>7. QED BY <2>4, <2>5, <2>6
<1>3. QED BY <1>1, <1>2, TypeCorrect, PTL DEF Spec

-----------------------------------------------------------------------------
(* A reset marks every login and refresh in flight when it revokes and when *)
(* it commits, and a logout marks the refreshes of its token.               *)
LEMMA Overtakes ==
  ASSUME TypeOK, NEW q \in Requests, NEW p \in Requests
  PROVE  /\ /\ ResetRevokes(q) \/ ResetCommits(q)
            /\ Is(p, "login")' \/ Is(p, "refresh")'
            => req'[p].over
         /\ /\ LogoutCommits(q)
            /\ Is(p, "refresh")' /\ req'[p].tok = req[q].tok
            => req'[p].over
<1>1. ASSUME ResetRevokes(q) \/ ResetCommits(q),
             req'[p].kind \in {"login", "refresh"}
      PROVE  req'[p].over
  <2>1. req'[p] = Overtaken[p]
    BY <1>1, OvertakenType
       DEF ResetRevokes, RevokeRows, ResetCommits, ResetWith, IdleRequest
  <2>2. QED BY <1>1, <2>1, OverType DEF Overtaken
<1>2. ASSUME LogoutCommits(q), req'[p].kind = "refresh", req'[p].tok = req[q].tok
      PROVE  req'[p].over
  <2>1. req'[p] = IF p = q THEN IdleRequest
                  ELSE IF req[p].kind = "refresh" /\ req[p].tok = req[q].tok
                    THEN [req[p] EXCEPT !.over = TRUE]
                  ELSE req[p]
    BY <1>2 DEF LogoutCommits
  <2>2. QED BY <1>2, <2>1, OverType DEF IdleRequest
<1>3. QED BY <1>1, <1>2 DEF Is

(* What handlers in flight know.  One that no reset or logout has overtaken *)
(* has read the current password, or a token of a session that is to go on; *)
(* one that began after a reset had revoked is overtaken from the start.    *)
HandlersCurrent ==
  \A q \in Requests :
    /\ Is(q, "login") /\ ~req[q].over => req[q].pw = password
    /\ Is(q, "refresh") /\ ~req[q].over /\ req[q].tok \notin excused
         => born[req[q].tok] = password /\ req[q].tok \notin ended
    /\ (Is(q, "login") \/ Is(q, "refresh")) /\ MidReset => req[q].over

(* A reset that has revoked will leave no live token but excused ones.     *)
ResetComplete ==
  \A q \in Requests :
    Is(q, "reset") /\ req[q].revoked =>
      \A t \in Tokens : rt[t] = "unused" /\ t \notin req[q].locked => t \in excused

(* A live token that is not excused is of the current password and of no    *)
(* session that was logged out.                                             *)
LiveCurrent ==
  \A t \in Tokens :
    /\ rt[t] = "unused" /\ t \notin excused => born[t] = password /\ t \notin ended
    /\ rt[t] = "absent" => t \notin ended

SessionInv == RotationInv /\ HandlersCurrent /\ ResetComplete /\ LiveCurrent

LEMMA RefreshToken ==
  ASSUME TypeOK, NEW q \in Requests, Is(q, "refresh")
  PROVE  req[q].tok \in Tokens
BY KindOfRequest DEF RefreshRequest

LEMMA MidResetStep ==
  ASSUME TypeOK, [Next]_vars, MidReset'
  PROVE  MidReset \/ \E q \in Requests : ResetRevokes(q)
<1>1. PICK q \in Requests : Is(q, "reset")' /\ req'[q].revoked
  BY DEF MidReset, Is
<1>2. QED BY <1>1, HandlerStep DEF MidReset, Is

LEMMA HandlersStep ==
  ASSUME TypeOK, SessionInv, [Next]_vars
  PROVE  HandlersCurrent'
<1> SUFFICES ASSUME NEW q \in Requests
             PROVE  /\ Is(q, "login")' /\ ~req'[q].over => req'[q].pw = password'
                    /\ /\ Is(q, "refresh")' /\ ~req'[q].over
                       /\ req'[q].tok \notin excused'
                       => born'[req'[q].tok] = password' /\ req'[q].tok \notin ended'
                    /\ (Is(q, "login")' \/ Is(q, "refresh")') /\ MidReset'
                         => req'[q].over
  BY DEF HandlersCurrent
<1>1. (Is(q, "login")' \/ Is(q, "refresh")') /\ ~req'[q].over => password' = password
  BY PasswordStep, Overtakes
<1>2. ASSUME Is(q, "login")', ~req'[q].over
      PROVE  req'[q].pw = password'
  BY <1>1, <1>2, HandlerStep DEF SessionInv, HandlersCurrent
<1>3. ASSUME Is(q, "refresh")', ~req'[q].over, req'[q].tok \notin excused'
      PROVE  born'[req'[q].tok] = password' /\ req'[q].tok \notin ended'
  <2> DEFINE t == req'[q].tok
  <2>1. t \in Tokens /\ rt[t] # "absent" /\ born[t] = password /\ t \notin ended
    <3>1. t \in Tokens /\ t \notin excused
      BY <1>3, HandlerStep, RefreshToken, TokenStep
    <3>2. CASE Is(q, "refresh") /\ t = req[q].tok /\ (req[q].over => req'[q].over)
      BY <1>3, <3>1, <3>2 DEF SessionInv, HandlersCurrent, RotationInv
    <3>3. ASSUME NEW u \in Tokens, RefreshReads(q, u), t = u
          PROVE  rt[t] # "absent" /\ born[t] = password /\ t \notin ended
      BY <3>1, <3>3 DEF RefreshReads, RefreshReadsIf, SessionInv, LiveCurrent
    <3>4. QED BY <1>3, <3>1, <3>2, <3>3, HandlerStep
  <2>2. born'[t] = password'
    BY <1>1, <1>3, <2>1, TokenStep
  <2>3. t \notin ended'
    BY <1>3, <2>1, TokenStep, Overtakes DEF RefreshCommits
  <2>4. QED BY <2>2, <2>3
<1>4. ASSUME Is(q, "login")' \/ Is(q, "refresh")', MidReset'
      PROVE  req'[q].over
  <2>1. CASE MidReset
    BY <1>4, <2>1, HandlerStep DEF SessionInv, HandlersCurrent
  <2>2. CASE \E p \in Requests : ResetRevokes(p)
    BY <1>4, <2>2, Overtakes
  <2>3. QED BY <1>4, <2>1, <2>2, MidResetStep
<1>5. QED BY <1>2, <1>3, <1>4

(* A token that a step makes live is excused if its handler was overtaken. *)
LEMMA NewToken ==
  ASSUME TypeOK, SessionInv, NEW q \in Requests, NEW t \in Tokens,
         LoginCommits(q, t) \/ RefreshCommits(q, t)
  PROVE  /\ MidReset => t \in excused'
         /\ t \notin excused' => born'[t] = password' /\ t \notin ended'
<1>1. CASE LoginCommits(q, t)
  BY <1>1 DEF LoginCommits, SessionInv, HandlersCurrent, LiveCurrent, TypeOK
<1>2. CASE RefreshCommits(q, t)
  <2>1. Is(q, "refresh") /\ req[q].tok \in Tokens /\ rt[t] = "absent"
    BY <1>2, RefreshToken DEF RefreshCommits
  <2>2. t \notin ended
    BY <2>1 DEF SessionInv, LiveCurrent
  <2>3. born'[t] = born[req[q].tok] /\ password' = password
    BY <1>2 DEF RefreshCommits, TypeOK
  <2>4. QED BY <1>2, <2>1, <2>2, <2>3 DEF RefreshCommits, SessionInv, HandlersCurrent
<1>3. QED BY <1>1, <1>2

LEMMA ResetStep ==
  ASSUME TypeOK, SessionInv, [Next]_vars
  PROVE  ResetComplete'
<1> SUFFICES ASSUME NEW q \in Requests, Is(q, "reset")', req'[q].revoked,
                    NEW t \in Tokens, rt'[t] = "unused", t \notin req'[q].locked
             PROVE  t \in excused'
  BY DEF ResetComplete
<1>1. CASE Is(q, "reset") /\ req'[q] = req[q]
  <2>1. MidReset
    BY <1>1 DEF MidReset, Is
  <2>2. CASE rt[t] = "unused"
    BY <1>1, <2>2, TokenStep DEF SessionInv, ResetComplete
  <2>3. QED BY <2>1, <2>2, TokenStep, NewToken
<1>2. CASE ResetRevokes(q)
  <2>1. rt' = rt /\ req'[q].locked = {u \in Tokens : rt[u] # "absent"}
    BY <1>2, OvertakenType DEF ResetRevokes, RevokeRows
  <2>2. QED BY <2>1
<1>3. QED BY <1>1, <1>2, HandlerStep

LEMMA LiveStep ==
  ASSUME TypeOK, SessionInv, [Next]_vars
  PROVE  LiveCurrent'
<1>1. ASSUME NEW t \in Tokens, rt'[t] = "unused", t \notin excused'
      PROVE  born'[t] = password' /\ t \notin ended'
  <2>1. CASE rt[t] = "unused"
    <3>1. t \notin excused
      BY <1>1, TokenStep
    <3>2. born[t] = password /\ t \notin ended /\ born'[t] = born[t]
      BY <2>1, <3>1, TokenStep DEF SessionInv, LiveCurrent
    <3>3. ASSUME NEW q \in Requests, ResetCommits(q)
          PROVE  FALSE
      <4>1. Is(q, "reset") /\ req[q].revoked /\ t \notin req[q].locked
        BY <1>1, <3>3 DEF ResetCommits, ResetWith
      <4>2. QED BY <2>1, <3>1, <4>1 DEF SessionInv, ResetComplete
    <3>4. ASSUME NEW q \in Requests, LogoutCommits(q), req[q].tok = t
          PROVE  FALSE
      BY <1>1, <3>4 DEF LogoutCommits, TypeOK
    <3>5. \A q \in Requests : ~RefreshCommits(q, t)
      BY <2>1 DEF RefreshCommits
    <3>6. QED BY <3>2, <3>3, <3>4, <3>5, TokenStep, PasswordStep
  <2>2. QED BY <1>1, <2>1, TokenStep, NewToken
<1>2. ASSUME NEW t \in Tokens, rt'[t] = "absent"
      PROVE  t \notin ended'
  <2>1. rt[t] = "absent" /\ t \notin ended
    BY <1>2, TokenStep DEF SessionInv, LiveCurrent
  <2>2. ASSUME NEW q \in Requests, LogoutCommits(q), req[q].tok = t
        PROVE  FALSE
    BY <1>2, <2>2 DEF LogoutCommits, TypeOK
  <2>3. \A q \in Requests : ~RefreshCommits(q, t)
    BY <1>2 DEF RefreshCommits, TypeOK
  <2>4. QED BY <2>1, <2>2, <2>3, TokenStep
<1>3. QED BY <1>1, <1>2 DEF LiveCurrent

(* A reset ends every session opened with an older password and a logout    *)
(* every session descended from its token, except through handlers that     *)
(* were in flight while it took effect.                                     *)
THEOREM SessionsEndCorrect == Spec => []SessionsEndUnlessOverlapped
<1>1. Init => SessionInv
  <2> SUFFICES ASSUME Init PROVE SessionInv
    OBVIOUS
  <2>1. \A q \in Requests : req[q].kind = "idle"
    BY DEF Init, IdleRequest
  <2>2. QED BY <2>1 DEF Init, SessionInv, RotationInv, HandlersCurrent, ResetComplete,
                        LiveCurrent, Is
<1>2. TypeOK /\ SessionInv /\ [Next]_vars => SessionInv'
  BY RotationStep, HandlersStep, ResetStep, LiveStep DEF SessionInv
<1>3. TypeOK /\ SessionInv => SessionsEndUnlessOverlapped
  BY DEF TypeOK, SessionInv, LiveCurrent, SessionsEndUnlessOverlapped
<1>4. QED BY <1>1, <1>2, <1>3, TypeCorrect, PTL DEF Spec

-----------------------------------------------------------------------------
(* The handlers that are about to reset with p.                            *)
Resetting(p) == {q \in Requests : Is(q, "reset") /\ req[q].prt = p}

(* A reset in flight has read a token that was issued; one that was not     *)
(* spent was never redeemed; and the resets with a token, those in flight   *)
(* included, never outnumber the handlers.                                  *)
ResetInv ==
  /\ \A q \in Requests : Is(q, "reset") => prt[req[q].prt] # "absent"
  /\ \A p \in ResetTokens :
       /\ prt[p] \in {"absent", "unused"} => resets[p] = 0
       /\ resets[p] + Cardinality(Resetting(p)) =< Cardinality(Requests)

(* Only a reset that commits spends a token, and a token is issued once.    *)
LEMMA ResetTokenStep ==
  ASSUME TypeOK, ResetInv, [Next]_vars
  PROVE  \/ UNCHANGED <<prt, resets>>
         \/ \E p \in ResetTokens : Limited!Issue(p) \/ Limited!Expire(p)
         \/ \E q \in Requests :
              /\ ResetCommits(q) /\ Limited!Redeem(req[q].prt)
<1>1. ASSUME NEW p \in ResetTokens, ForgotPassword(p)
      PROVE  Limited!Issue(p)
  BY <1>1 DEF ForgotPassword, Limited!Issue
<1>2. CASE Expire
  BY <1>2 DEF Expire, Limited!Expire
<1>3. ASSUME NEW q \in Requests, ResetCommits(q)
      PROVE  Limited!Redeem(req[q].prt)
  <2> DEFINE p == req[q].prt
  <2>1. Is(q, "reset") /\ p \in ResetTokens /\ prt[p] # "absent"
    BY <1>3, KindOfRequest DEF ResetCommits, ResetWith, ResetRequest, ResetInv
  <2>2. resets[p] < Cardinality(Requests)
    <3>1. IsFiniteSet(Resetting(p)) /\ q \in Resetting(p)
      BY <2>1, RequestsAssumption, FS_Subset DEF Resetting
    <3>2. Cardinality(Resetting(p)) \in Nat /\ Cardinality(Resetting(p)) # 0
      BY <3>1, FS_CardinalityType, FS_EmptySet
    <3>3. Cardinality(Requests) \in Nat /\ resets[p] \in Nat
      BY <2>1, RequestsAssumption, FS_CardinalityType DEF TypeOK
    <3>4. QED BY <2>1, <3>2, <3>3 DEF ResetInv
  <2>3. QED BY <1>3, <2>1, <2>2 DEF ResetCommits, ResetWith, Limited!Redeem
<1>4. ASSUME NEW q \in Requests,
             \/ LoginReads(q) \/ LogoutCommits(q) \/ ResetRevokes(q) \/ RequestFails(q)
             \/ \E t \in Tokens : LoginCommits(q, t) \/ RefreshReads(q, t)
                                  \/ RefreshCommits(q, t) \/ LogoutReads(q, t)
             \/ \E p \in ResetTokens : ResetReads(q, p)
      PROVE  UNCHANGED <<prt, resets>>
  BY <1>4 DEF LoginReads, LoginCommits, RefreshReads, RefreshReadsIf, RefreshCommits,
              LogoutReads, LogoutCommits, ResetReads, ResetRevokes, RevokeRows,
              RequestFails
<1>5. CASE UNCHANGED vars
  BY <1>5 DEF vars
<1>6. QED BY <1>1, <1>2, <1>3, <1>4, <1>5 DEF Next

LEMMA ResetInvStep ==
  ASSUME TypeOK, ResetInv, [Next]_vars
  PROVE  ResetInv'
<1>1. ASSUME NEW p \in ResetTokens
      PROVE  /\ prt'[p] = "absent" => prt[p] = "absent"
             /\ prt'[p] = "unused" => prt[p] \in {"absent", "unused"}
             /\ resets'[p] = resets[p]
                  \/ (/\ prt'[p] = "used" /\ resets'[p] = resets[p] + 1
                      /\ \E q \in Requests : ResetCommits(q) /\ req[q].prt = p)
  <2>1. ASSUME NEW r \in ResetTokens, Limited!Issue(r) \/ Limited!Expire(r)
        PROVE  /\ prt'[p] = "absent" => prt[p] = "absent"
               /\ prt'[p] = "unused" => prt[p] \in {"absent", "unused"}
               /\ resets'[p] = resets[p]
    BY <2>1 DEF Limited!Issue, Limited!Expire, TypeOK
  <2>2. ASSUME NEW q \in Requests, ResetCommits(q), Limited!Redeem(req[q].prt)
        PROVE  /\ prt'[p] = "absent" => prt[p] = "absent"
               /\ prt'[p] = "unused" => prt[p] \in {"absent", "unused"}
               /\ resets'[p] = resets[p]
                    \/ (/\ prt'[p] = "used" /\ resets'[p] = resets[p] + 1
                        /\ req[q].prt = p)
    BY <2>2 DEF Limited!Redeem, TypeOK
  <2>3. QED BY <2>1, <2>2, ResetTokenStep
<1>2. ASSUME NEW q \in Requests, Is(q, "reset")'
      PROVE  prt'[req'[q].prt] # "absent"
  <2>1. req'[q].prt \in ResetTokens /\ prt[req'[q].prt] # "absent"
    BY <1>2, HandlerStep, KindOfRequest DEF ResetInv, ResetReads, ResetRequest
  <2>2. QED BY <1>1, <2>1
<1>3. ASSUME NEW p \in ResetTokens, prt'[p] \in {"absent", "unused"}
      PROVE  resets'[p] = 0
  BY <1>1, <1>3 DEF ResetInv
<1>4. ASSUME NEW p \in ResetTokens
      PROVE  resets'[p] + Cardinality(Resetting(p)') =< Cardinality(Requests)
  <2> DEFINE R == Resetting(p)
             S == Resetting(p)'
  <2>1. R \subseteq Requests /\ S \subseteq Requests
    BY DEF Resetting
  <2>2. /\ IsFiniteSet(R) /\ IsFiniteSet(S)
        /\ Cardinality(R) \in Nat /\ Cardinality(S) \in Nat
        /\ Cardinality(Requests) \in Nat
        /\ Cardinality(S) =< Cardinality(Requests)
    BY <2>1, RequestsAssumption, FS_Subset, FS_CardinalityType
  <2>3. resets[p] \in Nat /\ resets[p] + Cardinality(R) =< Cardinality(Requests)
    BY DEF TypeOK, ResetInv
  <2> HIDE DEF R, S
  <2>4. CASE resets'[p] # resets[p]
    <3>1. PICK q \in Requests :
            ResetCommits(q) /\ req[q].prt = p /\ resets'[p] = resets[p] + 1
      BY <1>1, <2>4
    <3>2. q \in R /\ S \subseteq R \ {q}
      <4>1. \A r \in Requests : req'[r] = IF r = q THEN IdleRequest ELSE Overtaken[r]
        BY <3>1, OvertakenType DEF ResetCommits, ResetWith
      <4>2. \A r \in Requests : Overtaken[r] = req[r] \/ Overtaken[r].kind # "reset"
        BY OverType DEF Overtaken
      <4>3. QED BY <3>1, <4>1, <4>2
                DEF R, S, Resetting, ResetCommits, ResetWith, Is, IdleRequest
    <3>3. /\ IsFiniteSet(R \ {q})
          /\ Cardinality(R \ {q}) = Cardinality(R) - 1
      BY <2>2, <3>2, FS_RemoveElement
    <3>4. Cardinality(S) =< Cardinality(R) - 1
      BY <3>2, <3>3, FS_Subset
    <3>5. QED BY <2>2, <2>3, <3>1, <3>4 DEF S
  <2>5. CASE resets'[p] = resets[p] /\ S \subseteq R
    <3>1. Cardinality(S) =< Cardinality(R)
      BY <2>2, <2>5, FS_Subset
    <3>2. QED BY <2>2, <2>3, <2>5, <3>1 DEF S
  <2>6. CASE resets'[p] = resets[p] /\ ~(S \subseteq R)
    <3>1. PICK q \in Requests : q \in S /\ q \notin R
      BY <2>1, <2>6
    <3>2. prt[p] = "unused"
      BY <3>1, HandlerStep DEF R, S, Resetting, ResetReads
    <3>3. resets[p] = 0
      BY <3>2 DEF ResetInv
    <3>4. QED BY <2>2, <2>6, <3>3 DEF S
  <2>7. QED BY <2>4, <2>5, <2>6
<1>5. QED BY <1>2, <1>3, <1>4 DEF ResetInv

(* Forgotten passwords keep the promise of the abstract token: it is issued *)
(* once, and redeemed at most once per handler that can be in flight.       *)
THEOREM ResetTokensLimitedCorrect == Spec => ResetTokensLimited
<1>1. Init => ResetInv /\ Limited!Init
  <2> SUFFICES ASSUME Init PROVE ResetInv
    BY DEF Init, Limited!Init
  <2>1. \A q \in Requests : req[q].kind = "idle"
    BY DEF Init, IdleRequest
  <2>2. \A p \in ResetTokens : Resetting(p) = {}
    BY <2>1 DEF Resetting, Is
  <2>3. Cardinality(Requests) \in Nat
    BY RequestsAssumption, FS_CardinalityType
  <2>4. QED BY <2>1, <2>2, <2>3, FS_EmptySet DEF Init, ResetInv, Is
<1>2. TypeOK /\ ResetInv /\ [Next]_vars => ResetInv'
  BY ResetInvStep
<1>3. TypeOK /\ ResetInv /\ [Next]_vars => [Limited!Next]_(Limited!vars)
  <2> SUFFICES ASSUME TypeOK, ResetInv, [Next]_vars
               PROVE  [Limited!Next]_(Limited!vars)
    OBVIOUS
  <2>1. \A q \in Requests : ResetCommits(q) => req[q].prt \in ResetTokens
    BY KindOfRequest DEF ResetCommits, ResetWith, ResetRequest
  <2>2. QED BY <2>1, ResetTokenStep DEF Limited!Next, Limited!vars
<1>4. QED BY <1>1, <1>2, <1>3, TypeCorrect, PTL
          DEF Spec, ResetTokensLimited, Limited!Spec

-----------------------------------------------------------------------------
(* LoginLockout.                                                           *)

(* What LoginLockout assumes of its constants.                             *)
LEMMA Limits ==
  MaxAttempts \in Nat \ {0} /\ Lockout \in Nat \ {0} /\ IsFiniteSet(Logins)
BY MaxAttemptsAssumption, LockoutAssumption, LoginsAssumption

LEMMA OneMoreCounts ==
  ASSUME NEW n \in Count
  PROVE  /\ OneMore(n) \in Count
         /\ n =< OneMore(n)
         /\ \A k \in Count : k =< n => OneMore(k) =< OneMore(n)
BY Limits DEF Count, OneMore

LEMMA LoadedTypes ==
  ASSUME LockTypeOK, NEW q \in Logins, logins[q] # Idle
  PROVE  /\ logins[q] \in Login
         /\ logins[q].attempts \in Count
BY DEF LockTypeOK, Login

LEMMA LockTypesInit == LockInit => LockTypeOK
BY Limits DEF LockInit, LockTypeOK, Count, Lock, None

LEMMA LockTypesStep == LockTypeOK /\ [LockNext]_lockVars => LockTypeOK'
<1> SUFFICES ASSUME LockTypeOK, [LockNext]_lockVars PROVE LockTypeOK'
  OBVIOUS
<1>1. CASE Tick
  BY <1>1, Limits DEF Tick, LockTypeOK, Lock, Locked, None
<1>2. ASSUME NEW q \in Logins, NEW right \in BOOLEAN, Load(q, right)
      PROVE  LockTypeOK'
  <2>1. lock \in {None, 0}
    BY <1>2, Limits DEF Load, LoadIf, LockTypeOK, Lock, Locked, None
  <2>2. [phase |-> "checking", right |-> right, attempts |-> attempts, lock |-> lock]
          \in Login
    BY <2>1 DEF Login, LockTypeOK
  <2>3. QED BY <1>2, <2>2 DEF Load, LoadIf, LockTypeOK
<1>3. ASSUME NEW q \in Logins, Fail(q) PROVE LockTypeOK'
  <2>1. OneMore(logins[q].attempts) \in Count /\ OneMore(failures) \in Count
    BY <1>3, LoadedTypes, OneMoreCounts DEF Fail, FailWith, LockTypeOK
  <2>2. lock' \in Lock /\ guesses' \in Nat
    BY <1>3, Limits DEF Fail, FailWith, LockTypeOK, Lock
  <2>3. QED BY <1>3, <2>1, <2>2 DEF Fail, FailWith, LockTypeOK
<1>4. ASSUME NEW q \in Logins, Succeed(q) PROVE LockTypeOK'
  BY <1>4, Limits DEF Succeed, LockTypeOK, Count, Lock
<1>5. ASSUME NEW q \in Logins, Abort(q) PROVE LockTypeOK'
  BY <1>5 DEF Abort, LockTypeOK
<1>6. CASE UNCHANGED lockVars
  BY <1>6 DEF lockVars, LockTypeOK
<1>7. QED BY <1>1, <1>2, <1>3, <1>4, <1>5, <1>6 DEF LockNext

(* The counter never leaves its range, nor does a value in flight.         *)
THEOREM LockTypesCorrect == LockSpec => []LockTypeOK
<1>1. LockInit => LockTypeOK
  BY LockTypesInit
<1>2. LockTypeOK /\ [LockNext]_lockVars => LockTypeOK'
  BY LockTypesStep
<1>3. QED BY <1>1, <1>2, PTL DEF LockSpec

-----------------------------------------------------------------------------
(* The counter undercounts: neither it nor any value a login has loaded is *)
(* ahead of the failures that were committed.                              *)
Undercounts ==
  /\ attempts =< failures
  /\ \A q \in Logins : logins[q] # Idle => logins[q].attempts =< failures

(* Nobody is locked out early: lost updates, stale counters and logins     *)
(* that succeed in between never make a lock come before MaxAttempts       *)
(* logins failed.                                                          *)
THEOREM LockNeedsFailuresCorrect == LockSpec => []LockNeedsFailures
<1> DEFINE IInv == LockTypeOK /\ Undercounts /\ LockNeedsFailures
<1>1. LockInit => IInv
  BY LockTypesInit DEF LockInit, Undercounts, LockNeedsFailures, Locked, None
<1>2. IInv /\ [LockNext]_lockVars => IInv'
  <2> SUFFICES ASSUME IInv, [LockNext]_lockVars PROVE IInv'
    OBVIOUS
  <2>0. LockTypeOK'
    BY LockTypesStep
  <2>1. CASE Tick
    BY <2>0, <2>1, Limits
    DEF Tick, Undercounts, LockNeedsFailures, Locked, LockTypeOK, Lock
  <2>2. ASSUME NEW q \in Logins, NEW right \in BOOLEAN, Load(q, right)
        PROVE  IInv'
    BY <2>0, <2>2 DEF Load, LoadIf, Undercounts, LockNeedsFailures, Locked, LockTypeOK
  <2>3. ASSUME NEW q \in Logins, Fail(q) PROVE IInv'
    <3>1. /\ logins[q].attempts \in Count /\ failures \in Count
          /\ logins[q].attempts =< failures
      BY <2>3, LoadedTypes DEF Fail, FailWith, Undercounts, LockTypeOK
    <3>2. /\ OneMore(logins[q].attempts) =< OneMore(failures)
          /\ failures =< OneMore(failures) /\ OneMore(failures) \in Count
      BY <3>1, OneMoreCounts
    <3>3. Undercounts'
      <4>1. ASSUME NEW p \in Logins, logins'[p] # Idle
            PROVE  logins'[p].attempts =< failures'
        <5>1. logins'[p] = logins[p] /\ logins[p] # Idle
          BY <2>3, <4>1 DEF Fail, FailWith, LockTypeOK
        <5>2. logins[p].attempts =< failures /\ logins[p].attempts \in Count
          BY <5>1, LoadedTypes DEF Undercounts
        <5>3. QED BY <2>3, <3>1, <3>2, <5>1, <5>2 DEF Fail, FailWith, Count
      <4>2. QED BY <2>3, <3>2, <4>1 DEF Fail, FailWith, Undercounts
    <3>4. LockNeedsFailures'
      <4>1. CASE OneMore(logins[q].attempts) >= MaxAttempts
        BY <2>3, <3>1, <3>2, <4>1, Limits
        DEF Fail, FailWith, LockNeedsFailures, Count, OneMore
      <4>2. CASE ~(OneMore(logins[q].attempts) >= MaxAttempts)
        BY <2>3, <4>2, Limits
        DEF Fail, FailWith, LockNeedsFailures, Locked, OneMore
      <4>3. QED BY <4>1, <4>2
    <3>5. QED BY <2>0, <3>3, <3>4
  <2>4. ASSUME NEW q \in Logins, Succeed(q) PROVE IInv'
    BY <2>0, <2>4
    DEF Succeed, Undercounts, LockNeedsFailures, Locked, None, LockTypeOK, Count
  <2>5. ASSUME NEW q \in Logins, Abort(q) PROVE IInv'
    BY <2>0, <2>5 DEF Abort, Undercounts, LockNeedsFailures, Locked, LockTypeOK
  <2>6. CASE UNCHANGED lockVars
    BY <2>0, <2>6 DEF lockVars, Undercounts, LockNeedsFailures, Locked
  <2>7. QED BY <2>1, <2>2, <2>3, <2>4, <2>5, <2>6 DEF LockNext
<1>3. QED BY <1>1, <1>2, PTL DEF LockSpec

-----------------------------------------------------------------------------
(* Induction over a set of numbers, and what the binomial coefficients of    *)
(* Combinatorics compute.                                                   *)

(* A set of numbers that is not empty has a least one.                        *)
LEMMA LeastNumber ==
  ASSUME NEW T, T \subseteq Nat, T # {}
  PROVE  \E n \in T : \A m \in T : n =< m
<1> DEFINE Less == {ss \in Nat \X Nat : ss[1] < ss[2]}
<1>1. IsWellFoundedOn(Less, Nat)
  BY NatLessThanWellFounded DEF OpToRel
<1>2. PICK n \in T : \A m \in T : ~ (<<m, n>> \in Less)
  <2> HIDE DEF Less
  <2>1. QED BY <1>1, WFMin, Zenon
<1>3. ASSUME NEW m \in T PROVE n =< m
  <2>1. m \in Nat /\ n \in Nat
    OBVIOUS
  <2>2. ~ (m < n)
    BY <1>2, <2>1
  <2>3. QED BY <2>1, <2>2
<1>4. QED BY <1>3

(* Induction, for a set instead of a predicate.                               *)
LEMMA SetInduction ==
  ASSUME NEW T, 0 \in T, \A n \in Nat : n \in T => n + 1 \in T
  PROVE  Nat \subseteq T
<1> SUFFICES ASSUME NEW k \in Nat, k \notin T PROVE FALSE
  OBVIOUS
<1>1. PICK n \in Nat \ T : \A m \in Nat \ T : n =< m
  <2>1. Nat \ T \subseteq Nat /\ Nat \ T # {}
    OBVIOUS
  <2>2. QED BY <2>1, LeastNumber
<1>2. n # 0 /\ n - 1 \in Nat
  BY <1>1
<1>3. n - 1 \in T
  BY <1>1, <1>2
<1>4. (n - 1) + 1 = n
  BY <1>1
<1>5. QED BY <1>1, <1>2, <1>3, <1>4

(* factorial computes what its recursive definition says. *)
LEMMA FactorialDef ==
  factorial = [n \in Nat |-> IF n = 0 THEN 1 ELSE n * factorial[n - 1]]
<1> SUFFICES \E ff : ff = [n \in Nat |-> IF n = 0 THEN 1 ELSE n * ff[n - 1]]
  BY DEF factorial
<1> DEFINE Upto(n) == {f \in [0 .. n -> Nat] :
                         f[0] = 1 /\ \A i \in 1 .. n : f[i] = i * f[i - 1]}
<1>1. \A n \in Nat : Upto(n) # {}
  <2> DEFINE T == {n \in Nat : Upto(n) # {}}
  <2>1. 0 \in T
    <3>1. [i \in 0 .. 0 |-> 1] \in Upto(0)
      OBVIOUS
    <3>2. QED BY <3>1
  <2>2. ASSUME NEW n \in Nat, n \in T PROVE n + 1 \in T
    <3>1. PICK f \in [0 .. n -> Nat] : f[0] = 1 /\ \A i \in 1 .. n : f[i] = i * f[i - 1]
      BY <2>2
    <3> DEFINE g == [i \in 0 .. n + 1 |-> IF i = n + 1 THEN (n + 1) * f[n] ELSE f[i]]
    <3>2. (n + 1) * f[n] \in Nat
      BY <3>1
    <3>3. g \in [0 .. n + 1 -> Nat]
      BY <3>1, <3>2
    <3>4. ASSUME NEW i \in 1 .. n + 1 PROVE g[i] = i * g[i - 1]
      <4>1. CASE i = n + 1
        BY <4>1, <3>1
      <4>2. CASE i # n + 1
        <5>1. i \in 1 .. n /\ i - 1 \in 0 .. n
          BY <4>2
        <5>2. g[i] = f[i] /\ g[i - 1] = f[i - 1]
          BY <5>1
        <5>3. QED BY <3>1, <5>1, <5>2
      <4>3. QED BY <4>1, <4>2
    <3>5. g[0] = 1
      BY <3>1
    <3> HIDE DEF g
    <3>6. g \in Upto(n + 1)
      BY <3>3, <3>4, <3>5
    <3> HIDE DEF Upto
    <3>7. Upto(n + 1) # {}
      BY <3>6
    <3>8. QED BY <3>7
  <2> HIDE DEF T
  <2>3. Nat \subseteq T
    BY <2>1, <2>2, SetInduction
  <2>4. QED BY <2>3 DEF T
<1>2. \A n \in Nat : \A f \in Upto(n), g \in Upto(n + 1) : f[n] = g[n]
  <2> SUFFICES ASSUME NEW N \in Nat, NEW f \in Upto(N), NEW g \in Upto(N + 1)
               PROVE  f[N] = g[N]
    OBVIOUS
  <2> DEFINE S == {n \in Nat : n =< N => f[n] = g[n]}
  <2>1. 0 \in S
    OBVIOUS
  <2>2. ASSUME NEW n \in Nat, n \in S PROVE n + 1 \in S
    <3>1. CASE n + 1 =< N
      <4>1. f[n] = g[n] /\ n + 1 \in 1 .. N /\ n + 1 \in 1 .. N + 1 /\ (n + 1) - 1 = n
        BY <2>2, <3>1
      <4>2. f[n + 1] = (n + 1) * f[n]
        BY <4>1
      <4>3. g[n + 1] = (n + 1) * g[n]
        BY <4>1
      <4>4. QED BY <4>1, <4>2, <4>3
    <3>2. QED BY <3>1
  <2> HIDE DEF S
  <2>3. Nat \subseteq S
    BY <2>1, <2>2, SetInduction
  <2>4. QED BY <2>3 DEF S
<1> DEFINE Pick(n) == CHOOSE f \in Upto(n) : TRUE
           ff == [n \in Nat |-> Pick(n)[n]]
<1>3. \A n \in Nat : Pick(n) \in Upto(n)
  BY <1>1
<1>4. ASSUME NEW n \in Nat
      PROVE  ff[n] = IF n = 0 THEN 1 ELSE n * ff[n - 1]
  <2>0. ff[n] = Pick(n)[n]
    OBVIOUS
  <2>1. CASE n = 0
    BY <1>3, <2>0, <2>1
  <2>2. CASE n # 0
    <3>1. n - 1 \in Nat /\ (n - 1) + 1 = n /\ n \in 1 .. n
      BY <2>2
    <3>2. ff[n - 1] = Pick(n - 1)[n - 1]
      BY <3>1
    <3>3. Pick(n)[n] = n * Pick(n)[n - 1]
      BY <1>3, <3>1
    <3>4. Pick(n - 1)[n - 1] = Pick(n)[n - 1]
      <4> HIDE DEF Upto, Pick
      <4>1. QED BY <1>2, <1>3, <3>1
    <3>5. QED BY <2>0, <2>2, <3>2, <3>3, <3>4
  <2>3. QED BY <2>1, <2>2
<1>5. ff = [n \in Nat |-> IF n = 0 THEN 1 ELSE n * ff[n - 1]]
  <2> HIDE DEF Pick
  <2>1. QED BY <1>4
<1>6. QED BY <1>5
(* Its two equations, and that it is never 0.                                 *)
LEMMA FactorialStep ==
  /\ factorial[0] = 1
  /\ \A n \in Nat : factorial[n + 1] = (n + 1) * factorial[n]
<1>1. \A n \in Nat : factorial[n] = IF n = 0 THEN 1 ELSE n * factorial[n - 1]
  <2> DEFINE body == [n \in Nat |-> IF n = 0 THEN 1 ELSE n * factorial[n - 1]]
  <2>1. ASSUME NEW n \in Nat PROVE body[n] = IF n = 0 THEN 1 ELSE n * factorial[n - 1]
    OBVIOUS
  <2> HIDE DEF body
  <2>2. factorial = body
    BY FactorialDef DEF body
  <2>3. QED BY <2>1, <2>2
<1>2. ASSUME NEW n \in Nat PROVE factorial[n + 1] = (n + 1) * factorial[n]
  <2>1. n + 1 \in Nat /\ n + 1 # 0 /\ (n + 1) - 1 = n
    OBVIOUS
  <2>2. QED BY <1>1, <2>1
<1>3. QED BY <1>1, <1>2

LEMMA FactorialPositive == \A n \in Nat : factorial[n] \in Nat \ {0}
<1> DEFINE T == {n \in Nat : factorial[n] \in Nat \ {0}}
<1>1. 0 \in T
  BY FactorialStep
<1>2. ASSUME NEW n \in Nat, n \in T PROVE n + 1 \in T
  <2>1. factorial[n + 1] = (n + 1) * factorial[n]
    BY FactorialStep
  <2>2. \A a, b \in Nat \ {0} : a * b \in Nat \ {0}
    OBVIOUS
  <2>3. QED BY <1>2, <2>1, <2>2
<1> HIDE DEF T
<1>3. Nat \subseteq T
  BY <1>1, <1>2, SetInduction
<1>4. QED BY <1>3 DEF T

(* Division undoes multiplication.                                            *)
LEMMA Quotient ==
  ASSUME NEW c \in Nat, NEW d \in Nat \ {0}
  PROVE  (c * d) \div d = c
<1>1. c * d \in Nat
  OBVIOUS
<1>2. \A q \in Int : q # c => ~ (d * q =< c * d /\ c * d < d * q + d)
  OBVIOUS
<1>3. QED BY <1>1, <1>2

(* Pascal's rule for the quotients that the factorials have.                  *)
LEMMA PascalStep ==
  ASSUME NEW n \in Nat, NEW k \in Nat, k + 1 =< n, NEW c \in Nat, NEW b \in Nat,
         factorial[n] = c * (factorial[k] * factorial[n - k]),
         factorial[n] = b * (factorial[k + 1] * factorial[n - (k + 1)])
  PROVE  factorial[n + 1] = (c + b) * (factorial[k + 1] * factorial[(n + 1) - (k + 1)])
<1>1. PICK j \in Nat : n = k + j + 1
  <2>1. n - (k + 1) \in Nat /\ n = k + (n - (k + 1)) + 1
    OBVIOUS
  <2>2. QED BY <2>1
<1>2. n - k = j + 1 /\ n - (k + 1) = j /\ (n + 1) - (k + 1) = j + 1
  BY <1>1
<1>3. PICK fn \in Nat, fk \in Nat, fj \in Nat :
         fn = factorial[n] /\ fk = factorial[k] /\ fj = factorial[j]
  BY <1>1, FactorialPositive
<1>4. /\ factorial[n + 1] = (n + 1) * fn
      /\ factorial[k + 1] = (k + 1) * fk
      /\ factorial[j + 1] = (j + 1) * fj
  BY <1>1, <1>3, FactorialStep
<1>5. fn = c * (fk * ((j + 1) * fj)) /\ fn = b * (((k + 1) * fk) * fj)
  BY <1>2, <1>3, <1>4
<1>6. (n + 1) * fn = (c + b) * (((k + 1) * fk) * ((j + 1) * fj))
  <2>1. (n + 1) * fn = (k + 1) * fn + (j + 1) * fn
    BY <1>1
  <2>2. (k + 1) * fn = c * (((k + 1) * fk) * ((j + 1) * fj))
    BY <1>5
  <2>3. (j + 1) * fn = b * (((k + 1) * fk) * ((j + 1) * fj))
    BY <1>5
  <2>4. QED BY <2>1, <2>2, <2>3
<1>7. QED BY <1>2, <1>4, <1>6

(* What choose divides by is a divisor.                                       *)
Divides(n, k) == \E c \in Nat : factorial[n] = c * (factorial[k] * factorial[n - k])

LEMMA EdgeDivides ==
  ASSUME NEW n \in Nat
  PROVE  /\ factorial[n] = 1 * (factorial[0] * factorial[n - 0])
         /\ factorial[n] = 1 * (factorial[n] * factorial[n - n])
<1>1. n - 0 = n /\ n - n = 0 /\ factorial[0] = 1 /\ factorial[n] \in Nat
  BY FactorialStep, FactorialPositive
<1>2. QED BY <1>1

LEMMA FactorialDivides == \A n \in Nat : \A k \in 0 .. n : Divides(n, k)
<1> DEFINE T == {n \in Nat : \A k \in 0 .. n : Divides(n, k)}
<1>1. 0 \in T
  BY EdgeDivides DEF Divides
<1>2. ASSUME NEW n \in Nat, n \in T PROVE n + 1 \in T
  <2> SUFFICES ASSUME NEW k \in 0 .. n + 1 PROVE Divides(n + 1, k)
    OBVIOUS
  <2>1. CASE k = 0 \/ k = n + 1
    BY <2>1, EdgeDivides DEF Divides
  <2>2. CASE k # 0 /\ k # n + 1
    <3>1. PICK i \in Nat : k = i + 1 /\ i + 1 =< n /\ i \in 0 .. n /\ i + 1 \in 0 .. n
      <4>1. k - 1 \in Nat /\ k = (k - 1) + 1 /\ (k - 1) + 1 =< n
        BY <2>2
      <4>2. QED BY <4>1
    <3>2. PICK c \in Nat : factorial[n] = c * (factorial[i] * factorial[n - i])
      BY <1>2, <3>1 DEF Divides
    <3>3. PICK b \in Nat : factorial[n] = b * (factorial[i + 1] * factorial[n - (i + 1)])
      BY <1>2, <3>1 DEF Divides
    <3>4. factorial[n + 1] = (c + b) * (factorial[k] * factorial[(n + 1) - k])
      BY <3>1, <3>2, <3>3, PascalStep
    <3>5. QED BY <3>4 DEF Divides
  <2>3. QED BY <2>1, <2>2
<1> HIDE DEF T
<1>3. Nat \subseteq T
  BY <1>1, <1>2, SetInduction
<1>4. QED BY <1>3 DEF T

LEMMA ChooseIs ==
  ASSUME NEW n \in Nat, NEW k \in 0 .. n, NEW c \in Nat,
         factorial[n] = c * (factorial[k] * factorial[n - k])
  PROVE  choose(n, k) = c
<1> DEFINE d == factorial[k] * factorial[n - k]
<1>1. d \in Nat \ {0}
  <2>1. n - k \in Nat /\ k \in Nat
    OBVIOUS
  <2>2. factorial[k] \in Nat \ {0} /\ factorial[n - k] \in Nat \ {0}
    BY <2>1, FactorialPositive
  <2>3. \A x, y \in Nat \ {0} : x * y \in Nat \ {0}
    OBVIOUS
  <2>4. QED BY <2>2, <2>3
<1>2. choose(n, k) = factorial[n] \div d
  BY DEF choose
<1>3. factorial[n] = c * d
  OBVIOUS
<1> HIDE DEF d
<1>4. QED BY <1>1, <1>2, <1>3, Quotient

(* choose is a natural number, 1 at both ends, and satisfies Pascal's rule.   *)
LEMMA ChooseFacts ==
  /\ \A n \in Nat : choose(n, 0) = 1 /\ choose(n, n) = 1
  /\ \A n \in Nat : \A k \in 0 .. n : choose(n, k) \in Nat
  /\ \A n \in Nat, k \in Nat :
       k + 1 =< n => choose(n + 1, k + 1) = choose(n, k) + choose(n, k + 1)
<1>1. ASSUME NEW n \in Nat PROVE choose(n, 0) = 1 /\ choose(n, n) = 1
  BY EdgeDivides, ChooseIs
<1>2. ASSUME NEW n \in Nat, NEW k \in 0 .. n
      PROVE  /\ choose(n, k) \in Nat
             /\ factorial[n] = choose(n, k) * (factorial[k] * factorial[n - k])
  <2>1. PICK c \in Nat : factorial[n] = c * (factorial[k] * factorial[n - k])
    BY FactorialDivides DEF Divides
  <2>2. choose(n, k) = c
    BY <2>1, ChooseIs
  <2>3. QED BY <2>1, <2>2
<1>3. ASSUME NEW n \in Nat, NEW k \in Nat, k + 1 =< n
      PROVE  choose(n + 1, k + 1) = choose(n, k) + choose(n, k + 1)
  <2>1. k \in 0 .. n /\ k + 1 \in 0 .. n /\ k + 1 \in 0 .. n + 1 /\ n + 1 \in Nat
    BY <1>3
  <2>2. PICK c \in Nat : c = choose(n, k) /\ factorial[n] = c * (factorial[k] * factorial[n - k])
    BY <1>2, <2>1
  <2>3. PICK b \in Nat :
          b = choose(n, k + 1) /\ factorial[n] = b * (factorial[k + 1] * factorial[n - (k + 1)])
    BY <1>2, <2>1
  <2>4. factorial[n + 1] = (c + b) * (factorial[k + 1] * factorial[(n + 1) - (k + 1)])
    BY <1>3, <2>2, <2>3, PascalStep
  <2>5. c + b \in Nat
    OBVIOUS
  <2>6. choose(n + 1, k + 1) = c + b
    BY <2>1, <2>4, <2>5, ChooseIs
  <2>7. QED BY <2>2, <2>3, <2>6
<1>4. QED BY <1>1, <1>2, <1>3

-----------------------------------------------------------------------------
(* Lost updates cannot stop the lockout.                                   *)

(* How many wrong passwords at most raise the counter, once it is k below   *)
(* the limit, if m logins hold no older copy of it.                         *)
Spread(m, k) == IF m = 0 THEN 0 ELSE choose((m - 1) + k, m - 1)

(* Spread follows Pascal's rule as well, and grows with the logins ahead.     *)
LEMMA SpreadFacts ==
  /\ \A m, k \in Nat : Spread(m, k) \in Nat
  /\ \A k \in Nat : Spread(0, k) = 0
  /\ \A m \in Nat : Spread(m + 1, 0) = 1
  /\ \A m, k \in Nat : Spread(m + 1, k + 1) = Spread(m, k + 1) + Spread(m + 1, k)
<1>1. \A k \in Nat : Spread(0, k) = 0
  BY DEF Spread
<1>2. ASSUME NEW m \in Nat, NEW k \in Nat
      PROVE  /\ Spread(m + 1, k) = choose(m + k, m)
             /\ Spread(m + 1, k) \in Nat
  <2>1. m + 1 # 0 /\ (m + 1) - 1 = m /\ m + k \in Nat /\ m \in 0 .. m + k
    OBVIOUS
  <2>2. Spread(m + 1, k) = choose(m + k, m)
    BY <2>1 DEF Spread
  <2>3. QED BY <2>1, <2>2, ChooseFacts
<1>3. ASSUME NEW m \in Nat, NEW k \in Nat PROVE Spread(m, k) \in Nat
  <2>1. CASE m = 0
    BY <1>1, <2>1
  <2>2. CASE m # 0
    <3>1. m - 1 \in Nat /\ (m - 1) + 1 = m
      BY <2>2
    <3>2. Spread((m - 1) + 1, k) \in Nat
      BY <1>2, <3>1
    <3>3. QED BY <3>1, <3>2
  <2>3. QED BY <2>1, <2>2
<1>4. ASSUME NEW m \in Nat PROVE Spread(m + 1, 0) = 1
  <2>1. m + 0 = m /\ choose(m, m) = 1
    BY ChooseFacts
  <2>2. Spread(m + 1, 0) = choose(m + 0, m)
    BY <1>2
  <2>3. QED BY <2>1, <2>2
<1>5. ASSUME NEW m \in Nat, NEW k \in Nat
      PROVE  Spread(m + 1, k + 1) = Spread(m, k + 1) + Spread(m + 1, k)
  <2>0. k + 1 \in Nat /\ m + k \in Nat
    OBVIOUS
  <2>1. CASE m = 0
    <3>1. Spread(0 + 1, k + 1) = choose(0 + (k + 1), 0) /\ Spread(0 + 1, k) = choose(0 + k, 0)
      BY <1>2, <2>0
    <3>2. 0 + (k + 1) = k + 1 /\ 0 + k = k /\ choose(k + 1, 0) = 1 /\ choose(k, 0) = 1
      BY <2>0, ChooseFacts
    <3>3. Spread(0, k + 1) = 0
      BY <1>1, <2>0
    <3>4. Spread(0 + 1, k + 1) = Spread(0, k + 1) + Spread(0 + 1, k)
      BY <3>1, <3>2, <3>3
    <3>5. QED BY <2>1, <3>4
  <2>2. CASE m # 0
    <3>1. /\ m - 1 \in Nat /\ (m - 1) + 1 = m /\ (m - 1) + 1 =< m + k
          /\ (m - 1) + (k + 1) = m + k /\ m + (k + 1) = (m + k) + 1
      BY <2>2
    <3>2. Spread((m - 1) + 1, k + 1) = choose((m - 1) + (k + 1), m - 1)
      BY <1>2, <2>0, <3>1
    <3>3. Spread(m + 1, k + 1) = choose(m + (k + 1), m) /\ Spread(m + 1, k) = choose(m + k, m)
      BY <1>2, <2>0
    <3>4. choose((m + k) + 1, (m - 1) + 1)
            = choose(m + k, m - 1) + choose(m + k, (m - 1) + 1)
      BY <2>0, <3>1, ChooseFacts
    <3>5. Spread(m, k + 1) = choose(m + k, m - 1)
      BY <3>1, <3>2
    <3>6. choose((m + k) + 1, m) = choose(m + k, m - 1) + choose(m + k, m)
      BY <3>1, <3>4
    <3>7. Spread(m + 1, k + 1) = choose((m + k) + 1, m)
      BY <3>1, <3>3
    <3>8. QED BY <3>3, <3>5, <3>6, <3>7
  <2>3. QED BY <2>1, <2>2
<1>6. QED BY <1>1, <1>3, <1>4, <1>5

LEMMA SpreadType == \A m, k \in Nat : Spread(m, k) \in Nat
BY SpreadFacts

LEMMA SpreadMonotone ==
  ASSUME NEW k \in Nat, NEW m \in Nat, NEW p \in Nat, m =< p
  PROVE  Spread(m, k) =< Spread(p, k)
<1>1. ASSUME NEW n \in Nat PROVE Spread(n, k) =< Spread(n + 1, k)
  <2>1. CASE k = 0
    <3>1. CASE n = 0
      BY <2>1, <3>1, SpreadFacts
    <3>2. CASE n # 0
      <4>1. n - 1 \in Nat /\ (n - 1) + 1 = n
        BY <3>2
      <4>2. Spread((n - 1) + 1, 0) = 1 /\ Spread(n + 1, 0) = 1
        BY <4>1, SpreadFacts
      <4>3. QED BY <2>1, <4>1, <4>2
    <3>3. QED BY <3>1, <3>2
  <2>2. CASE k # 0
    <3>1. k - 1 \in Nat /\ (k - 1) + 1 = k /\ n + 1 \in Nat
      BY <2>2
    <3>2. Spread(n + 1, (k - 1) + 1) = Spread(n, (k - 1) + 1) + Spread(n + 1, k - 1)
      BY <3>1, SpreadFacts
    <3>3. Spread(n + 1, k - 1) \in Nat /\ Spread(n, k) \in Nat
      BY <3>1, SpreadFacts
    <3>4. Spread(n + 1, k) = Spread(n, k) + Spread(n + 1, k - 1)
      BY <3>1, <3>2
    <3>5. QED BY <3>3, <3>4
  <2>3. QED BY <2>1, <2>2
<1> DEFINE T == {d \in Nat : Spread(m, k) =< Spread(m + d, k)}
<1>2. 0 \in T
  <2>1. m + 0 = m /\ Spread(m, k) \in Nat
    BY SpreadFacts
  <2>2. QED BY <2>1
<1>3. ASSUME NEW d \in Nat, d \in T PROVE d + 1 \in T
  <2>1. m + d \in Nat /\ (m + d) + 1 = m + (d + 1) /\ m + (d + 1) \in Nat
    OBVIOUS
  <2>2. Spread(m + d, k) =< Spread((m + d) + 1, k)
    BY <1>1, <2>1
  <2>3. /\ Spread(m, k) \in Nat /\ Spread(m + d, k) \in Nat
        /\ Spread(m + (d + 1), k) \in Nat
    BY <2>1, SpreadFacts
  <2>4. Spread(m, k) =< Spread(m + d, k) /\ Spread(m + d, k) =< Spread(m + (d + 1), k)
    BY <1>3, <2>1, <2>2
  <2>5. Spread(m, k) =< Spread(m + (d + 1), k)
    BY <2>3, <2>4
  <2>6. QED BY <2>5
<1> HIDE DEF T
<1>4. p - m \in T
  <2>1. Nat \subseteq T
    BY <1>2, <1>3, SetInduction
  <2>2. QED BY <2>1
<1>5. m + (p - m) = p
  OBVIOUS
<1>6. QED BY <1>4, <1>5 DEF T

(* What is reached by rises each of which at most m logins share.           *)
LEMMA Climb ==
  ASSUME NEW K \in Nat, NEW m \in Nat, NEW f,
         \A j \in 0 .. K : f[j] \in Nat,
         f[0] = 0,
         \A j \in 1 .. K : \E c \in 0 .. m : f[j] =< f[j - 1] + Spread(c, j)
  PROVE  \A j \in 0 .. K : f[j] + 1 =< Spread(m + 1, j)
<1> DEFINE T == {j \in Nat : j =< K => f[j] + 1 =< Spread(m + 1, j)}
<1>1. 0 \in T
  <2>1. Spread(m + 1, 0) = 1
    BY SpreadFacts
  <2>2. QED BY <2>1
<1>2. ASSUME NEW j \in Nat, j \in T PROVE j + 1 \in T
  <2> SUFFICES ASSUME j + 1 =< K PROVE f[j + 1] + 1 =< Spread(m + 1, j + 1)
    OBVIOUS
  <2>1. /\ j + 1 \in 1 .. K /\ j + 1 \in 0 .. K /\ j \in 0 .. K /\ (j + 1) - 1 = j
        /\ j + 1 \in Nat /\ m + 1 \in Nat
    OBVIOUS
  <2>2. PICK c \in 0 .. m : f[j + 1] =< f[j] + Spread(c, j + 1)
    BY <2>1
  <2>3. Spread(c, j + 1) =< Spread(m, j + 1)
    BY <2>1, SpreadMonotone
  <2>4. /\ Spread(c, j + 1) \in Nat /\ Spread(m, j + 1) \in Nat
        /\ Spread(m + 1, j) \in Nat
    <3>1. c \in Nat /\ j + 1 \in Nat /\ m + 1 \in Nat
      OBVIOUS
    <3>2. QED BY <3>1, SpreadType, Zenon
  <2>5. Spread(m + 1, j + 1) = Spread(m, j + 1) + Spread(m + 1, j)
    BY SpreadFacts
  <2>6. f[j] + 1 =< Spread(m + 1, j)
    BY <1>2, <2>1
  <2>7. f[j] \in Nat /\ f[j + 1] \in Nat
    BY <2>1
  <2>8. QED BY <2>2, <2>3, <2>4, <2>5, <2>6, <2>7
<1> HIDE DEF T
<1>3. Nat \subseteq T
  BY <1>1, <1>2, SetInduction
<1>4. QED BY <1>3 DEF T

(* The logins that cannot bring the counter below w once it is there: those  *)
(* that hold no copy below w.                                               *)
Ahead(w) ==
  IF attempts >= w THEN {q \in Logins : logins[q] # Idle => logins[q].attempts >= w}
                   ELSE {}

(* What the guesses add up to: f[k] bounds those that raised the counter to   *)
(* at least MaxAttempts - k.                                                 *)
GuessInv ==
  \E f \in [0 .. MaxAttempts - 1 -> Nat] :
    /\ f[0] = 0
    /\ \A k \in 1 .. MaxAttempts - 1 :
         f[k] =< f[k - 1] + Spread(Cardinality(Ahead(MaxAttempts - k)), k)
    /\ guesses =< f[MaxAttempts - 1]

LEMMA SetCounts ==
  ASSUME NEW S, NEW T, S \subseteq T, T \subseteq Logins
  PROVE  /\ Cardinality(S) \in Nat /\ Cardinality(T) \in Nat
         /\ Cardinality(S) =< Cardinality(T)
         /\ \A q \in T \ S : Cardinality(S) + 1 =< Cardinality(T)
<1>1. IsFiniteSet(T) /\ IsFiniteSet(S)
  BY Limits, FS_Subset
<1>2. ASSUME NEW q \in T \ S PROVE Cardinality(S) + 1 =< Cardinality(T)
  <2>1. S \cup {q} \subseteq T
    OBVIOUS
  <2>2. Cardinality(S \cup {q}) = Cardinality(S) + 1
    BY <1>1, FS_AddElement
  <2>3. QED BY <1>1, <2>1, <2>2, FS_Subset
<1>3. QED BY <1>1, <1>2, FS_Subset, FS_CardinalityType

LEMMA AheadLogins == \A w \in Nat : Ahead(w) \subseteq Logins /\ Ahead(w)' \subseteq Logins
BY DEF Ahead

(* A step without a guess that takes no login from the logins ahead.         *)
LEMMA GuessKept ==
  ASSUME GuessInv, guesses' = guesses,
         \A w \in 1 .. MaxAttempts - 1 : Ahead(w) \subseteq Ahead(w)'
  PROVE  GuessInv'
<1>1. PICK f \in [0 .. MaxAttempts - 1 -> Nat] :
        /\ f[0] = 0
        /\ \A k \in 1 .. MaxAttempts - 1 :
             f[k] =< f[k - 1] + Spread(Cardinality(Ahead(MaxAttempts - k)), k)
        /\ guesses =< f[MaxAttempts - 1]
  BY DEF GuessInv
<1>2. ASSUME NEW k \in 1 .. MaxAttempts - 1
      PROVE  f[k] =< f[k - 1] + Spread(Cardinality(Ahead(MaxAttempts - k)'), k)
  <2>1. MaxAttempts - k \in 1 .. MaxAttempts - 1 /\ k \in 0 .. MaxAttempts - 1
        /\ k - 1 \in 0 .. MaxAttempts - 1 /\ k \in Nat /\ MaxAttempts - k \in Nat
    BY Limits
  <2> DEFINE b == Cardinality(Ahead(MaxAttempts - k))
             c == Cardinality(Ahead(MaxAttempts - k)')
  <2>2. b \in Nat /\ c \in Nat /\ b =< c
    BY <2>1, AheadLogins, SetCounts
  <2>3. f[k] =< f[k - 1] + Spread(b, k)
    BY <1>1
  <2> HIDE DEF b, c
  <2>4. Spread(b, k) \in Nat /\ Spread(c, k) \in Nat /\ Spread(b, k) =< Spread(c, k)
    BY <2>1, <2>2, SpreadType, SpreadMonotone
  <2>5. f[k] \in Nat /\ f[k - 1] \in Nat
    BY <1>1, <2>1
  <2>6. f[k] =< f[k - 1] + Spread(c, k)
    BY <2>3, <2>4, <2>5
  <2>7. QED BY <2>6 DEF c
<1>3. QED BY <1>1, <1>2 DEF GuessInv

LEMMA GuessReset ==
  ASSUME guesses' = 0
  PROVE  GuessInv'
<1> DEFINE f == [k \in 0 .. MaxAttempts - 1 |-> 0]
<1>1. f \in [0 .. MaxAttempts - 1 -> Nat] /\ f[0] = 0 /\ guesses' =< f[MaxAttempts - 1]
  BY Limits
<1>2. ASSUME NEW k \in 1 .. MaxAttempts - 1
      PROVE  f[k] =< f[k - 1] + Spread(Cardinality(Ahead(MaxAttempts - k)'), k)
  <2>1. f[k] = 0 /\ f[k - 1] = 0 /\ k \in Nat /\ MaxAttempts - k \in Nat
    BY Limits
  <2>2. Spread(Cardinality(Ahead(MaxAttempts - k)'), k) \in Nat
    BY <2>1, AheadLogins, SetCounts, SpreadType
  <2>3. QED BY <2>1, <2>2
<1> HIDE DEF f
<1>3. QED BY <1>1, <1>2 DEF GuessInv

(* A wrong password that does not lock the account raises the counter from the *)
(* copy of q: no guess so far counts for less than that, one more is counted   *)
(* there and above, where the logins ahead are one more, or at least as many.  *)
LEMMA GuessCounted ==
  ASSUME LockTypeOK, GuessInv, NEW q \in Logins, Fail(q),
         OneMore(logins[q].attempts) < MaxAttempts
  PROVE  GuessInv'
<1>v. PICK v \in Count : v = logins[q].attempts
  BY LoadedTypes DEF Fail, FailWith
<1> DEFINE A == MaxAttempts
           N(w) == Cardinality(Ahead(w))
           M(w) == Cardinality(Ahead(w)')
<1>1. PICK f \in [0 .. A - 1 -> Nat] :
        /\ f[0] = 0
        /\ \A k \in 1 .. A - 1 : f[k] =< f[k - 1] + Spread(N(A - k), k)
        /\ guesses =< f[A - 1]
  BY DEF GuessInv
<1>2. /\ v \in Nat /\ v + 1 < A /\ A \in Nat
      /\ attempts' = v + 1 /\ guesses' = guesses + 1
      /\ logins[q] # Idle /\ logins[q].attempts = v
      /\ logins' = [logins EXCEPT ![q] = Idle]
  <2>1. v \in Count /\ logins[q] # Idle
    BY <1>v DEF Fail, FailWith
  <2>2. OneMore(v) = v + 1 /\ v + 1 < A
    BY <1>v, <2>1, Limits DEF OneMore, Count
  <2>3. ~ (OneMore(v) >= A)
    BY <2>1, <2>2, Limits DEF Count
  <2>4. QED BY <1>v, <2>1, <2>2, <2>3, Limits DEF Fail, FailWith, Count
<1>3. ASSUME NEW w \in Nat, w =< v PROVE N(w) \in Nat /\ M(w) \in Nat /\ N(w) =< M(w)
  <2>1. ASSUME NEW p \in Ahead(w) PROVE p \in Ahead(w)'
    <3>1. p \in Logins /\ (logins[p] # Idle => logins[p].attempts >= w)
      BY <2>1 DEF Ahead
    <3>2. logins'[p] = Idle \/ logins'[p] = logins[p]
      BY <1>2, <3>1 DEF LockTypeOK
    <3>3. attempts' >= w
      BY <1>2, <1>3
    <3>4. QED BY <3>1, <3>2, <3>3 DEF Ahead
  <2>2. QED BY <2>1, AheadLogins, SetCounts
<1>4. N(v + 1) \in Nat /\ M(v + 1) \in Nat /\ N(v + 1) + 1 =< M(v + 1)
  <2>1. q \notin Ahead(v + 1)
    BY <1>2 DEF Ahead
  <2>2. ASSUME NEW p \in Ahead(v + 1) \cup {q} PROVE p \in Ahead(v + 1)'
    <3>1. p \in Logins /\ (p # q /\ logins[p] # Idle => logins[p].attempts >= v + 1)
      BY <2>2 DEF Ahead
    <3>2. logins'[p] = Idle \/ (p # q /\ logins'[p] = logins[p])
      BY <1>2, <3>1 DEF LockTypeOK
    <3>3. attempts' >= v + 1
      BY <1>2
    <3>4. QED BY <3>1, <3>2, <3>3 DEF Ahead
  <2>3. v + 1 \in Nat /\ q \in Ahead(v + 1)' /\ Ahead(v + 1) \subseteq Ahead(v + 1)'
    BY <1>2, <2>2
  <2>4. QED BY <2>1, <2>3, AheadLogins, SetCounts
<1>5. ASSUME NEW w \in Nat, w >= v + 1 PROVE N(w) \in 0 .. N(v + 1)
  <2>1. Ahead(w) \subseteq Ahead(v + 1)
    <3> SUFFICES ASSUME NEW p \in Ahead(w) PROVE p \in Ahead(v + 1)
      OBVIOUS
    <3>1. /\ p \in Logins /\ attempts >= w /\ attempts \in Nat
          /\ logins[p] # Idle => logins[p].attempts >= w
      BY DEF Ahead, LockTypeOK, Count
    <3>2. logins[p] # Idle => logins[p].attempts \in Nat
      BY <3>1, LoadedTypes DEF Count
    <3>3. attempts >= v + 1 /\ (logins[p] # Idle => logins[p].attempts >= v + 1)
      BY <1>2, <1>5, <3>1, <3>2
    <3>4. QED BY <3>1, <3>3 DEF Ahead
  <2>2. Ahead(v + 1) \subseteq Logins
    BY DEF Ahead
  <2>3. N(w) \in Nat /\ N(v + 1) \in Nat /\ N(w) =< N(v + 1)
    BY <2>1, <2>2, SetCounts
  <2>4. QED BY <2>3
<1> DEFINE K == A - (v + 1)
           g == [k \in 0 .. A - 1 |-> IF k < K THEN 0 ELSE f[k] + 1]
<1>k. K \in 1 .. A - 1 /\ K \in Nat /\ A - K = v + 1
  BY <1>2
<1>6. f[K] + 1 =< Spread(N(v + 1) + 1, K)
  <2> DEFINE m == N(v + 1)
  <2>1. \A j \in 0 .. K : f[j] \in Nat
    <3>1. 0 .. K \subseteq 0 .. A - 1
      BY <1>2
    <3>2. QED BY <1>1, <3>1
  <2>2. ASSUME NEW j \in 1 .. K PROVE \E c \in 0 .. m : f[j] =< f[j - 1] + Spread(c, j)
    <3>1. j \in 1 .. A - 1 /\ A - j \in Nat /\ A - j >= v + 1
      BY <1>2
    <3>2. f[j] =< f[j - 1] + Spread(N(A - j), j)
      BY <1>1, <3>1
    <3>3. N(A - j) \in 0 .. m
      BY <1>5, <3>1
    <3>4. QED BY <3>2, <3>3
  <2>3. m \in Nat /\ K \in 0 .. K
    BY <1>4, <1>k
  <2> HIDE DEF m, K
  <2>4. \A j \in 0 .. K : f[j] + 1 =< Spread(m + 1, j)
    BY <1>1, <1>k, <2>1, <2>2, <2>3, Climb
  <2>5. QED BY <2>3, <2>4 DEF m
<1>7. g \in [0 .. A - 1 -> Nat] /\ g[0] = 0 /\ guesses' =< g[A - 1]
  <2>1. g \in [0 .. A - 1 -> Nat]
    BY <1>1
  <2>2. g[0] = 0
    BY <1>2
  <2>3. A - 1 \in 0 .. A - 1 /\ ~ (A - 1 < K)
    BY <1>2
  <2>4. g[A - 1] = f[A - 1] + 1 /\ f[A - 1] \in Nat
    BY <1>1, <2>3
  <2>5. guesses \in Nat
    BY DEF LockTypeOK
  <2> HIDE DEF g
  <2>6. QED BY <1>1, <1>2, <2>1, <2>2, <2>4, <2>5
<1>8. ASSUME NEW k \in 1 .. A - 1 PROVE g[k] =< g[k - 1] + Spread(M(A - k), k)
  <2>0. /\ k \in Nat /\ k - 1 \in 0 .. A - 1 /\ k \in 0 .. A - 1 /\ A - k \in Nat
        /\ f[k] \in Nat /\ f[k - 1] \in Nat
    BY <1>1, <1>2
  <2>1. CASE k < K
    <3>1. g[k] = 0 /\ g[k - 1] = 0
      BY <2>0, <2>1, <1>2
    <3>2. M(A - k) \in Nat
      BY <2>0, AheadLogins, SetCounts
    <3>3. Spread(M(A - k), k) \in Nat
      BY <2>0, <3>2, SpreadType
    <3> HIDE DEF g, M
    <3>4. QED BY <3>1, <3>3
  <2>2. CASE k = K
    <3>1. g[k] = f[K] + 1 /\ g[k - 1] = 0
      BY <2>0, <2>2, <1>k
    <3>2. A - k = v + 1
      BY <2>2, <1>k
    <3> DEFINE a == N(v + 1)
               b == M(v + 1)
    <3>3. a \in Nat /\ b \in Nat /\ a + 1 =< b /\ f[K] + 1 =< Spread(a + 1, K)
      BY <1>4, <1>6
    <3> HIDE DEF a, b, g, K
    <3>a. a + 1 \in Nat /\ K \in Nat
      BY <3>3, <1>k
    <3>b. Spread(a + 1, K) \in Nat /\ Spread(b, K) \in Nat
      BY <3>3, <3>a, SpreadType, Zenon
    <3>4. Spread(a + 1, K) =< Spread(b, K)
      BY <3>3, <3>a, SpreadMonotone
    <3>5. f[K] \in Nat
      BY <2>0, <2>2
    <3>6. g[k] =< g[k - 1] + Spread(b, K)
      BY <3>1, <3>3, <3>b, <3>4, <3>5
    <3>7. QED BY <2>2, <3>2, <3>6 DEF b
  <2>3. CASE k > K
    <3>1. g[k] = f[k] + 1 /\ g[k - 1] = f[k - 1] + 1
      BY <2>0, <2>3, <1>k
    <3>2. A - k =< v
      BY <2>3, <1>2
    <3> DEFINE a == N(A - k)
               b == M(A - k)
    <3>3. a \in Nat /\ b \in Nat /\ a =< b
      BY <1>3, <2>0, <3>2
    <3>4. f[k] =< f[k - 1] + Spread(a, k)
      BY <1>1
    <3> HIDE DEF a, b, g
    <3>5. Spread(a, k) =< Spread(b, k) /\ Spread(a, k) \in Nat /\ Spread(b, k) \in Nat
      BY <2>0, <3>3, SpreadMonotone, SpreadType
    <3>6. g[k] =< g[k - 1] + Spread(b, k)
      BY <2>0, <3>1, <3>4, <3>5
    <3>7. QED BY <3>6 DEF b
  <2>4. QED BY <2>0, <2>1, <2>2, <2>3, <1>k
<1> HIDE DEF g
<1>9. QED BY <1>7, <1>8 DEF GuessInv

LEMMA GuessStep == LockTypeOK /\ GuessInv /\ [LockNext]_lockVars => GuessInv'
<1> SUFFICES ASSUME LockTypeOK, GuessInv, [LockNext]_lockVars PROVE GuessInv'
  OBVIOUS
<1>1. CASE Tick
  <2>1. guesses' = guesses /\ \A w \in 1 .. MaxAttempts - 1 : Ahead(w) \subseteq Ahead(w)'
    BY <1>1 DEF Tick, Ahead
  <2>2. QED BY <2>1, GuessKept
<1>2. ASSUME NEW q \in Logins, NEW right \in BOOLEAN, Load(q, right)
      PROVE  GuessInv'
  <2>1. ASSUME NEW w \in 1 .. MaxAttempts - 1, NEW p \in Ahead(w)
        PROVE  p \in Ahead(w)'
    <3>1. p \in Logins /\ attempts >= w /\ attempts' = attempts
      BY <1>2, <2>1 DEF Ahead, Load, LoadIf
    <3>2. CASE p = q
      BY <1>2, <3>1, <3>2 DEF Ahead, Load, LoadIf, LockTypeOK
    <3>3. CASE p # q
      <4>1. logins'[p] = logins[p]
        BY <1>2, <3>1, <3>3 DEF Load, LoadIf, LockTypeOK
      <4>2. QED BY <2>1, <3>1, <4>1 DEF Ahead
    <3>4. QED BY <3>2, <3>3
  <2>2. guesses' = guesses
    BY <1>2 DEF Load, LoadIf
  <2>3. QED BY <2>1, <2>2, GuessKept
<1>3. ASSUME NEW q \in Logins, Fail(q) PROVE GuessInv'
  <2>1. CASE OneMore(logins[q].attempts) >= MaxAttempts
    BY <1>3, <2>1, GuessReset DEF Fail, FailWith
  <2>2. CASE ~ (OneMore(logins[q].attempts) >= MaxAttempts)
    <3>1. OneMore(logins[q].attempts) \in Nat
      BY <1>3, LoadedTypes, OneMoreCounts DEF Fail, FailWith, Count
    <3>2. OneMore(logins[q].attempts) < MaxAttempts
      BY <2>2, <3>1, Limits
    <3>3. QED BY <1>3, <3>2, GuessCounted
  <2>3. QED BY <2>1, <2>2
<1>4. ASSUME NEW q \in Logins, Succeed(q) PROVE GuessInv'
  BY <1>4, GuessReset DEF Succeed
<1>5. ASSUME NEW q \in Logins, Abort(q) PROVE GuessInv'
  <2>1. ASSUME NEW w \in 1 .. MaxAttempts - 1, NEW p \in Ahead(w)
        PROVE  p \in Ahead(w)'
    <3>1. p \in Logins /\ attempts >= w /\ attempts' = attempts
      BY <1>5, <2>1 DEF Ahead, Abort
    <3>2. logins'[p] = Idle \/ logins'[p] = logins[p]
      BY <1>5, <3>1 DEF Abort, LockTypeOK
    <3>3. QED BY <2>1, <3>1, <3>2 DEF Ahead
  <2>2. guesses' = guesses
    BY <1>5 DEF Abort
  <2>3. QED BY <2>1, <2>2, GuessKept
<1>6. CASE UNCHANGED lockVars
  <2>1. guesses' = guesses /\ \A w \in 1 .. MaxAttempts - 1 : Ahead(w) \subseteq Ahead(w)'
    BY <1>6 DEF lockVars, Ahead
  <2>2. QED BY <2>1, GuessKept
<1>7. QED BY <1>1, <1>2, <1>3, <1>4, <1>5, <1>6 DEF LockNext

LEMMA GuessBound == LockTypeOK /\ GuessInv => GuessesBounded
<1> SUFFICES ASSUME LockTypeOK, GuessInv PROVE GuessesBounded
  OBVIOUS
<1> DEFINE R == Cardinality(Logins)
           K == MaxAttempts - 1
<1>1. PICK f \in [0 .. K -> Nat] :
        /\ f[0] = 0
        /\ \A k \in 1 .. K : f[k] =< f[k - 1] + Spread(Cardinality(Ahead(MaxAttempts - k)), k)
        /\ guesses =< f[K]
  BY DEF GuessInv
<1>2. R \in Nat /\ K \in Nat /\ K \in 0 .. K
  BY Limits, FS_CardinalityType
<1>3. ASSUME NEW j \in 1 .. K PROVE \E c \in 0 .. R : f[j] =< f[j - 1] + Spread(c, j)
  <2>1. MaxAttempts - j \in Nat
    BY Limits
  <2>2. Cardinality(Ahead(MaxAttempts - j)) \in 0 .. R
    BY <1>2, <2>1, AheadLogins, SetCounts
  <2>3. QED BY <1>1, <2>2
<1>4. \A j \in 0 .. K : f[j] \in Nat
  BY <1>1
<1>5. R + 1 # 0 /\ ((R + 1) - 1) + K = MaxAttempts + R - 1 /\ (R + 1) - 1 = R
  BY <1>2, Limits
<1> HIDE DEF R, K
<1>6. f[K] + 1 =< Spread(R + 1, K)
  BY <1>1, <1>2, <1>3, <1>4, Climb
<1>7. Spread(R + 1, K) = choose(MaxAttempts + R - 1, R)
  BY <1>5 DEF Spread
<1>8. guesses \in Nat /\ f[K] \in Nat /\ Spread(R + 1, K) \in Nat
  <2>1. R + 1 \in Nat
    BY <1>2
  <2>2. Spread(R + 1, K) \in Nat
    BY <1>2, <2>1, SpreadType, Zenon
  <2>3. QED BY <1>2, <1>4, <2>2 DEF LockTypeOK
<1>9. guesses < Spread(R + 1, K)
  BY <1>1, <1>6, <1>8
<1>10. QED BY <1>7, <1>9 DEF GuessesBounded, R

(* Overlapping logins that lose each other's increments cannot keep the account *)
(* open: for any limit and any number R of logins in flight fewer wrong          *)
(* passwords than C(MaxAttempts + R - 1, R) are answered between two locks.      *)
THEOREM GuessesBoundedCorrect == LockSpec => []GuessesBounded
<1>1. LockInit => GuessInv
  <2>1. ASSUME LockInit PROVE GuessInv
    <3> DEFINE f == [k \in 0 .. MaxAttempts - 1 |-> 0]
    <3>1. f \in [0 .. MaxAttempts - 1 -> Nat] /\ f[0] = 0 /\ guesses =< f[MaxAttempts - 1]
      BY <2>1, Limits DEF LockInit
    <3>2. ASSUME NEW k \in 1 .. MaxAttempts - 1
          PROVE  f[k] =< f[k - 1] + Spread(Cardinality(Ahead(MaxAttempts - k)), k)
      <4>1. f[k] = 0 /\ f[k - 1] = 0 /\ k \in Nat /\ MaxAttempts - k \in Nat
        BY Limits
      <4>2. Spread(Cardinality(Ahead(MaxAttempts - k)), k) \in Nat
        BY <4>1, AheadLogins, SetCounts, SpreadType
      <4>3. QED BY <4>1, <4>2
    <3> HIDE DEF f
    <3>3. QED BY <3>1, <3>2 DEF GuessInv
  <2>2. QED BY <2>1
<1>2. LockTypeOK /\ GuessInv /\ [LockNext]_lockVars => GuessInv'
  BY GuessStep
<1>3. LockTypeOK /\ GuessInv => GuessesBounded
  BY GuessBound
<1>4. QED BY <1>1, <1>2, <1>3, LockTypesCorrect, PTL DEF LockSpec

(* With one login in flight the bound is the limit itself.                    *)
LEMMA ChooseOne == \A n \in Nat \ {0} : choose(n, 1) = n
<1> DEFINE T == {n \in Nat : choose(n + 1, 1) = n + 1}
<1>1. 0 \in T
  <2>1. choose(1, 1) = 1
    BY ChooseFacts
  <2>2. 0 + 1 = 1
    OBVIOUS
  <2>3. QED BY <2>1, <2>2
<1>2. ASSUME NEW n \in Nat, n \in T PROVE n + 1 \in T
  <2>1. n + 1 \in Nat /\ 0 + 1 =< n + 1 /\ 0 + 1 = 1
    OBVIOUS
  <2>2. choose((n + 1) + 1, 0 + 1) = choose(n + 1, 0) + choose(n + 1, 0 + 1)
    BY <2>1, ChooseFacts
  <2>3. choose(n + 1, 0) = 1
    BY <2>1, ChooseFacts
  <2>4. choose((n + 1) + 1, 1) = (n + 1) + 1
    BY <1>2, <2>1, <2>2, <2>3
  <2>5. QED BY <2>1, <2>4
<1> HIDE DEF T
<1>3. Nat \subseteq T
  BY <1>1, <1>2, SetInduction
<1>4. ASSUME NEW n \in Nat \ {0} PROVE choose(n, 1) = n
  <2>1. n - 1 \in T /\ (n - 1) + 1 = n
    BY <1>3
  <2>2. QED BY <2>1 DEF T
<1>5. QED BY <1>4

(* Logins of an account that do not overlap lose no increment: the account is   *)
(* locked by the MaxAttempts-th wrong password in a row, as login intends.      *)
THEOREM OneLoginAtATime ==
  Cardinality(Logins) = 1 => (LockSpec => [](guesses < MaxAttempts))
<1> SUFFICES ASSUME Cardinality(Logins) = 1 PROVE LockSpec => [](guesses < MaxAttempts)
  OBVIOUS
<1>1. GuessesBounded => guesses < MaxAttempts
  <2>1. MaxAttempts + 1 - 1 = MaxAttempts /\ choose(MaxAttempts, 1) = MaxAttempts
    BY Limits, ChooseOne
  <2>2. QED BY <2>1 DEF GuessesBounded
<1>2. QED BY <1>1, GuessesBoundedCorrect, PTL
=============================================================================
