--------------------------- MODULE ApiClientProofs ---------------------------
(***************************************************************************)
(* Proofs about ApiClient, for any tabs, calls and tokens.                  *)
(***************************************************************************)
EXTENDS ApiClient, FiniteSetTheorems, TLAPS

Live(c) == call[c] # NoCall
Pending(c) == op[c] # NoCall

(* What TypeOK does not say of itself: a logout names the token it ends.    *)
LogoutsNamed ==
  \A c \in Calls : Live(c) /\ call[c].kind = "logout" => call[c].body # None

TypeInv == TypeOK /\ LogoutsNamed

LEMMA CallFields ==
  ASSUME TypeOK, NEW c \in Calls, Live(c)
  PROVE  /\ call[c] \in Call
         /\ call[c].kind \in {"api", "logout", "login"}
         /\ call[c].tab \in Tabs
         /\ call[c].phase \in {"sent", "waiting", "resent"}
         /\ call[c].stale \in BOOLEAN
         /\ call[c].body \in Tokens \cup {None}
         /\ call[c].on \in Calls \cup {None}
         /\ call[c].crossed \in BOOLEAN
<1>1. call[c] \in Call
  BY DEF TypeOK, Live
<1>2. QED BY <1>1 DEF Call

LEMMA OpFields ==
  ASSUME TypeOK, NEW c \in Calls, Pending(c)
  PROVE  /\ op[c] \in Refresh
         /\ op[c].tab \in Tabs
         /\ op[c].tok \in Tokens
         /\ op[c].new \in Tokens \cup {None}
<1>1. op[c] \in Refresh
  BY DEF TypeOK, Pending
<1>2. QED BY <1>1 DEF Refresh

(* Calls that start, and changes of a call that goes on, keep it a call.    *)
LEMMA CallChanges ==
  /\ NoCall \notin Call
  /\ \A x \in Call :
       /\ [x EXCEPT !.crossed = TRUE] \in Call
       /\ \A s \in BOOLEAN :
            [x EXCEPT !.phase = "resent", !.on = None, !.stale = s] \in Call
       /\ \A s \in BOOLEAN : [x EXCEPT !.phase = "resent", !.stale = s] \in Call
       /\ \A p \in Calls : [x EXCEPT !.phase = "waiting", !.on = p] \in Call
       /\ \A t \in Tokens : [x EXCEPT !.body = t] \in Call
<1>1. NoCall \notin Call
  BY DEF NoCall, Call
<1>2. ASSUME NEW x \in Call
      PROVE  /\ [x EXCEPT !.crossed = TRUE] \in Call
             /\ \A p \in Calls : [x EXCEPT !.phase = "waiting", !.on = p] \in Call
             /\ \A t \in Tokens : [x EXCEPT !.body = t] \in Call
  BY DEF Call
<1>3. ASSUME NEW x \in Call, NEW s \in BOOLEAN
      PROVE  /\ [x EXCEPT !.phase = "resent", !.on = None, !.stale = s] \in Call
             /\ [x EXCEPT !.phase = "resent", !.stale = s] \in Call
  BY DEF Call
<1>4. QED BY <1>1, <1>2, <1>3

-----------------------------------------------------------------------------
(* The server is Sessions: what its handlers do here they do there.          *)

(* The kinds of handler that a browser has.                                 *)
LEMMA HandlerKind ==
  ASSUME TypeOK, NEW q \in Calls
  PROVE  /\ req[q].kind \in {"idle", "login", "refresh", "logout"}
         /\ S!Is(q, "idle") => req[q] = S!IdleRequest
         /\ S!Is(q, "login") => req[q] \in S!LoginRequest
         /\ S!Is(q, "refresh") => req[q] \in S!RefreshRequest
         /\ S!Is(q, "logout") => req[q] \in S!LogoutRequest
         /\ S!Is(q, "refresh") \/ S!Is(q, "logout") => req[q].tok \in Tokens
<1>1. req[q] \in {S!IdleRequest} \cup S!LoginRequest \cup S!RefreshRequest
                   \cup S!LogoutRequest \cup S!ResetRequest
  BY DEF TypeOK, S!TypeOK
<1>2. /\ S!IdleRequest.kind = "idle"
      /\ \A x \in S!LoginRequest : x.kind = "login"
      /\ \A x \in S!RefreshRequest : x.kind = "refresh" /\ x.tok \in Tokens
      /\ \A x \in S!LogoutRequest : x.kind = "logout" /\ x.tok \in Tokens
      /\ \A x \in S!ResetRequest : FALSE
  BY DEF S!IdleRequest, S!LoginRequest, S!RefreshRequest, S!LogoutRequest,
         S!ResetRequest
<1>3. QED BY <1>1, <1>2 DEF S!Is

(* What the steps of the client do to the server.                           *)
ServerStep ==
  \/ UNCHANGED server
  \/ \E q \in Calls :
       \/ S!LoginReads(q) \/ S!LogoutCommits(q) \/ S!RequestFails(q)
       \/ \E t \in Tokens : \/ S!LoginCommits(q, t) \/ S!LogoutReads(q, t)
                            \/ S!RefreshReads(q, t) \/ S!RefreshCommits(q, t)

LEMMA ServerSteps == TypeInv /\ [Next]_vars => ServerStep
<1> SUFFICES ASSUME TypeInv, [Next]_vars PROVE ServerStep
  OBVIOUS
<1> USE DEF TypeInv
<1>1. ASSUME NEW c \in Calls, LogoutServed(c) PROVE ServerStep
  <2>1. call[c].body \in Tokens
    BY <1>1, CallFields DEF LogoutServed, LogoutsNamed, Live
  <2>2. QED BY <1>1, <2>1 DEF LogoutServed, ServerStep
<1>2. ASSUME NEW c \in Calls, NEW t \in Tokens, RefreshServed(c, t)
      PROVE  ServerStep
  <2>1. CASE op[c] # NoCall /\ S!RefreshReads(c, op[c].tok)
    <3>1. op[c].tok \in Tokens
      BY <2>1, OpFields DEF Pending
    <3>2. QED BY <2>1, <3>1 DEF ServerStep
  <2>2. CASE S!RefreshCommits(c, t)
    BY <2>2 DEF ServerStep
  <2>3. QED BY <1>2, <2>1, <2>2 DEF RefreshServed
<1>3. ASSUME NEW c \in Calls, NEW t \in Tokens, LoginServed(c, t)
      PROVE  ServerStep
  BY <1>3 DEF LoginServed, ServerStep
<1>4. ASSUME NEW c \in Calls,
             LogoutAnswered(c) \/ ServedToNobody(c) \/ HandlerFails(c)
      PROVE  ServerStep
  BY <1>4 DEF LogoutAnswered, ServedToNobody, HandlerFails, ServerStep
<1>5. ASSUME NEW c \in Calls, NEW b \in Tabs,
             CallApi(c, b) \/ Logout(c, b) \/ Login(c, b)
      PROVE  ServerStep
  BY <1>5 DEF CallApi, Logout, Login, Send, ServerStep
<1>6. ASSUME NEW c \in Calls,
             \/ ApiAnswered(c) \/ LoginAnswered(c) \/ Unauthorized(c)
             \/ UnauthorizedForGood(c) \/ RefreshAnswered(c) \/ RefreshRefused(c)
             \/ CallLost(c) \/ RetryLost(c) \/ RefreshLost(c)
      PROVE  ServerStep
  <2>1. UNCHANGED server
    BY <1>6 DEF ApiAnswered, LoginAnswered, Unauthorized, StartsRefresh,
       UnauthorizedForGood, RefreshAnswered, AnswerWith, RefreshRefused,
       RefreshRejected, CallLost, RetryLost, RefreshLost
  <2>2. QED BY <2>1 DEF ServerStep
<1>7. ASSUME NEW b \in Tabs, Navigate(b) PROVE ServerStep
  BY <1>7 DEF Navigate, ServerStep
<1>8. ASSUME NEW t \in Tokens, AccessExpires(t) PROVE ServerStep
  BY <1>8 DEF AccessExpires, ServerStep
<1>9. CASE UNCHANGED vars
  BY <1>9 DEF vars, ServerStep
<1>10. QED
  BY <1>1, <1>2, <1>3, <1>4, <1>5, <1>6, <1>7, <1>8, <1>9 DEF Next

LEMMA ServerTypes == TypeOK /\ ServerStep => S!TypeOK'
<1> SUFFICES ASSUME TypeOK, ServerStep PROVE S!TypeOK'
  OBVIOUS
<1> USE DEF S!TypeOK
<1>0. S!TypeOK
  BY DEF TypeOK
<1>1. CASE UNCHANGED server
  BY <1>0, <1>1 DEF server
<1>2. ASSUME NEW q \in Calls, S!LoginReads(q) PROVE S!TypeOK'
  <2>1. [kind |-> "login", pw |-> password, over |-> S!MidReset] \in S!LoginRequest
    BY <1>0 DEF S!LoginRequest, S!MidReset
  <2>2. QED BY <1>0, <1>2, <2>1 DEF S!LoginReads
<1>3. ASSUME NEW q \in Calls, S!LogoutCommits(q) PROVE S!TypeOK'
  <2>1. req[q].tok \in Tokens
    BY <1>3, HandlerKind DEF S!LogoutCommits
  <2>2. \A p \in Calls : req[p].kind = "refresh" =>
          [req[p] EXCEPT !.over = TRUE] \in S!RefreshRequest
    BY HandlerKind DEF S!RefreshRequest, S!Is
  <2>3. QED BY <1>0, <1>3, <2>1, <2>2 DEF S!LogoutCommits, S!TokenState
<1>4. ASSUME NEW q \in Calls, S!RequestFails(q) PROVE S!TypeOK'
  BY <1>0, <1>4 DEF S!RequestFails, S!Done
<1>5. ASSUME NEW q \in Calls, NEW t \in Tokens, S!LoginCommits(q, t)
      PROVE  S!TypeOK'
  <2>1. req[q].pw \in Nat
    BY <1>5, HandlerKind DEF S!LoginCommits, S!LoginRequest
  <2>2. QED BY <1>0, <1>5, <2>1 DEF S!LoginCommits, S!Done, S!TokenState
<1>6. ASSUME NEW q \in Calls, NEW t \in Tokens, S!LogoutReads(q, t)
      PROVE  S!TypeOK'
  <2>1. [kind |-> "logout", tok |-> t] \in S!LogoutRequest
    BY DEF S!LogoutRequest
  <2>2. QED BY <1>0, <1>6, <2>1 DEF S!LogoutReads
<1>7. ASSUME NEW q \in Calls, NEW t \in Tokens, S!RefreshReads(q, t)
      PROVE  S!TypeOK'
  <2>1. [kind |-> "refresh", tok |-> t, over |-> S!MidReset] \in S!RefreshRequest
    BY DEF S!RefreshRequest, S!MidReset
  <2>2. QED BY <1>0, <1>7, <2>1 DEF S!RefreshReads, S!RefreshReadsIf
<1>8. ASSUME NEW q \in Calls, NEW t \in Tokens, S!RefreshCommits(q, t)
      PROVE  S!TypeOK'
  <2>1. req[q].tok \in Tokens
    BY <1>8, HandlerKind DEF S!RefreshCommits
  <2>2. QED BY <1>0, <1>8, <2>1 DEF S!RefreshCommits, S!Done, S!TokenState
<1>9. QED
  BY <1>1, <1>2, <1>3, <1>4, <1>5, <1>6, <1>7, <1>8 DEF ServerStep

-----------------------------------------------------------------------------
(* Types of the client.                                                     *)

LEMMA TypeInit == Init => TypeInv
BY DEF Init, TypeInv, TypeOK, LogoutsNamed, S!Init, S!TypeOK, S!TokenState, Live

LEMMA FinishTypes ==
  ASSUME TypeInv, NEW b \in Tabs, NEW ds \in SUBSET Calls, Finish(b, ds)
  PROVE  /\ call' \in [Calls -> Call \cup {NoCall}]
         /\ promise' \in [Tabs -> Calls \cup {None}]
         /\ late' \subseteq Tabs
         /\ LogoutsNamed'
<1>1. call' \in [Calls -> Call \cup {NoCall}] /\ LogoutsNamed'
  BY DEF Finish, TypeInv, TypeOK, LogoutsNamed, Live
<1>2. promise' \in [Tabs -> Calls \cup {None}]
  BY DEF Finish, TypeInv, TypeOK
<1>3. late' \subseteq Tabs
  BY DEF Finish, TypeInv, TypeOK
<1>4. QED BY <1>1, <1>2, <1>3

LEMMA SignOutTypes ==
  ASSUME TypeInv, NEW b \in Tabs, NEW ds \in SUBSET Calls, SignOut(b, ds)
  PROVE  /\ call' \in [Calls -> Call \cup {NoCall}]
         /\ promise' \in [Tabs -> Calls \cup {None}]
         /\ late' \subseteq Tabs
         /\ mem' \in [Tabs -> Tokens \cup {None}]
         /\ store' \in Tokens \cup {None}
         /\ LogoutsNamed'
BY FinishTypes DEF SignOut, TypeInv, TypeOK

LEMMA TypeStep == TypeInv /\ [Next]_vars => TypeInv'
<1> SUFFICES ASSUME TypeInv, [Next]_vars PROVE TypeInv'
  OBVIOUS
<1>0. TypeOK /\ S!TypeOK'
  BY ServerSteps, ServerTypes DEF TypeInv
<1> DEFINE ClientTypes ==
      /\ fresh \subseteq Tokens
      /\ mem \in [Tabs -> Tokens \cup {None}]
      /\ store \in Tokens \cup {None}
      /\ promise \in [Tabs -> Calls \cup {None}]
      /\ call \in [Calls -> Call \cup {NoCall}]
      /\ op \in [Calls -> Refresh \cup {NoCall}]
      /\ late \subseteq Tabs
      /\ unsure \subseteq Tokens
      /\ left \subseteq Tokens
<1>i. ClientTypes /\ LogoutsNamed
  BY DEF TypeInv, TypeOK
<1>q. SUFFICES ClientTypes' /\ LogoutsNamed'
  BY <1>0 DEF TypeInv, TypeOK
<1>1. ASSUME NEW c \in Calls, NEW b \in Tabs, NEW kind \in {"api", "logout", "login"},
             NEW body \in Tokens \cup {None}, kind = "logout" => body # None,
             Send(c, b, kind, body)
      PROVE  ClientTypes' /\ LogoutsNamed'
  <2> DEFINE new == [kind |-> kind, tab |-> b, phase |-> "sent",
                     stale |-> mem[b] \notin fresh, body |-> body, on |-> None,
                     crossed |-> OpsOf(b) # {}]
  <2>1. new \in Call /\ new.kind = kind /\ new.body = body
    BY DEF Call
  <2> HIDE DEF new
  <2>2. call' = [call EXCEPT ![c] = new]
    BY <1>1 DEF Send, new
  <2>3. LogoutsNamed'
    BY <1>1, <1>i, <2>1, <2>2 DEF LogoutsNamed, Live
  <2>4. QED BY <1>1, <1>i, <2>1, <2>2, <2>3 DEF Send
<1>2. ASSUME NEW c \in Calls, NEW b \in Tabs,
             CallApi(c, b) \/ Logout(c, b) \/ Login(c, b)
      PROVE  ClientTypes' /\ LogoutsNamed'
  <2>1. mem[b] \in Tokens \cup {None}
    BY <1>i
  <2>2. QED BY <1>1, <1>2, <2>1 DEF CallApi, Logout, Login
<1>3. ASSUME NEW c \in Calls, ApiAnswered(c)
      PROVE  ClientTypes' /\ LogoutsNamed'
  <2>1. call[c].tab \in Tabs
    BY <1>0, <1>3, CallFields DEF ApiAnswered, Live
  <2>2. QED BY <1>3, <1>i, <2>1, FinishTypes DEF ApiAnswered
<1>4. ASSUME NEW c \in Calls, LoginAnswered(c)
      PROVE  ClientTypes' /\ LogoutsNamed'
  <2>1. call[c].tab \in Tabs /\ call[c].body \in Tokens \cup {None}
    BY <1>0, <1>4, CallFields DEF LoginAnswered, Live
  <2>2. QED BY <1>4, <1>i, <2>1 DEF LoginAnswered, LogoutsNamed, Live
<1>5. ASSUME NEW c \in Calls, Forget(c)
      PROVE  ClientTypes' /\ LogoutsNamed'
  <2>1. call[c].tab \in Tabs
    BY <1>0, <1>5, CallFields DEF Forget, Live
  <2>2. left' \subseteq Tokens
    BY <1>5, <1>i, <2>1 DEF Forget
  <2>3. QED BY <1>5, <1>i, <2>1, <2>2, SignOutTypes DEF Forget
<1>6. ASSUME NEW c \in Calls, NEW t \in Tokens, LoginServed(c, t)
      PROVE  ClientTypes' /\ LogoutsNamed'
  <2>1. call[c] \in Call /\ call[c].kind = "login"
    BY <1>0, <1>6, CallFields DEF LoginServed, Live
  <2>2. [call[c] EXCEPT !.body = t] \in Call
        /\ [call[c] EXCEPT !.body = t].kind = "login"
    <3>1. [call[c] EXCEPT !.body = t] \in Call
      BY <2>1, CallChanges
    <3>2. [call[c] EXCEPT !.body = t].kind = "login"
      BY <2>1 DEF Call
    <3>3. QED BY <3>1, <3>2
  <2>3. CASE UNCHANGED <<fresh, call>>
    BY <1>6, <1>i, <2>3 DEF LoginServed, LogoutsNamed, Live
  <2>4. CASE /\ fresh' = fresh \cup {t}
             /\ call' = [call EXCEPT ![c].body = t]
    <3>1. call' = [call EXCEPT ![c] = [call[c] EXCEPT !.body = t]]
      BY <2>4
    <3>2. QED BY <1>6, <1>i, <2>2, <2>4, <3>1 DEF LoginServed, LogoutsNamed, Live
  <2>5. QED BY <1>6, <2>3, <2>4 DEF LoginServed
<1>7. ASSUME NEW c \in Calls, Unauthorized(c)
      PROVE  ClientTypes' /\ LogoutsNamed'
  <2> DEFINE b == call[c].tab
             starts == promise[b] = None
             p == IF starts THEN c ELSE promise[b]
             crossed == [d \in Calls |->
               IF d \in CallsOf(b) THEN [call[d] EXCEPT !.crossed = TRUE] ELSE call[d]]
  <2>1. b \in Tabs /\ mem[b] \in Tokens /\ call[c] \in Call /\ c \in CallsOf(b)
    BY <1>0, <1>7, <1>i, CallFields DEF Unauthorized, StartsRefresh, Live, CallsOf
  <2>2. p \in Calls
    BY <1>i, <2>1
  <2>3. /\ crossed \in [Calls -> Call \cup {NoCall}]
        /\ crossed[c] \in Call
        /\ \A d \in Calls : crossed[d] # NoCall =>
             /\ Live(d) /\ crossed[d].kind = call[d].kind
             /\ crossed[d].body = call[d].body
    <3>1. ASSUME NEW d \in Calls
          PROVE  /\ crossed[d] \in Call \cup {NoCall}
                 /\ crossed[d] # NoCall =>
                      /\ Live(d) /\ crossed[d].kind = call[d].kind
                      /\ crossed[d].body = call[d].body
      <4>1. CASE d \in CallsOf(b)
        <5>1. call[d] \in Call
          BY <1>0, <4>1, CallFields DEF CallsOf, Live
        <5>2. QED BY <4>1, <5>1, CallChanges DEF Call, CallsOf, Live
      <4>2. CASE d \notin CallsOf(b)
        BY <1>i, <4>2 DEF Live
      <4>3. QED BY <4>1, <4>2
    <3>2. crossed[c] \in Call
      BY <2>1, CallChanges
    <3>3. QED BY <3>1, <3>2
  <2>4. /\ promise' = [promise EXCEPT ![b] = p]
        /\ op' = IF starts THEN [op EXCEPT ![c] = [tab |-> b, tok |-> mem[b], new |-> None]]
                 ELSE op
        /\ unsure' \in {unsure, unsure \cup {mem[b]}}
        /\ UNCHANGED <<fresh, mem, store, late, left>>
        /\ call' \in {[crossed EXCEPT ![c].phase = "waiting", ![c].on = p],
                      [crossed EXCEPT ![c].phase = "resent", ![c].stale = mem[b] \notin fresh]}
    BY <1>7 DEF Unauthorized, StartsRefresh
  <2> HIDE DEF b, starts, p, crossed
  <2>5. PICK x \in Call : /\ call' = [crossed EXCEPT ![c] = x]
                          /\ x.kind = crossed[c].kind /\ x.body = crossed[c].body
    <3> DEFINE y == [crossed[c] EXCEPT !.phase = "waiting", !.on = p]
               z == [crossed[c] EXCEPT !.phase = "resent", !.stale = mem[b] \notin fresh]
    <3>1. y \in Call /\ y.kind = crossed[c].kind /\ y.body = crossed[c].body
      <4>1. y \in Call
        BY <2>2, <2>3, CallChanges
      <4>2. y.kind = crossed[c].kind /\ y.body = crossed[c].body
        BY <2>3 DEF Call
      <4>3. QED BY <4>1, <4>2
    <3>2. (mem[b] \notin fresh) \in BOOLEAN
      OBVIOUS
    <3>3. z \in Call
      BY <2>3, <3>2, CallChanges
    <3>4. z.kind = crossed[c].kind /\ z.body = crossed[c].body
      BY <2>3 DEF Call
    <3>5. call' = [crossed EXCEPT ![c] = y] \/ call' = [crossed EXCEPT ![c] = z]
      BY <2>3, <2>4
    <3>6. QED BY <3>1, <3>3, <3>4, <3>5
  <2>6. call' \in [Calls -> Call \cup {NoCall}] /\ LogoutsNamed'
    <3>0. crossed[c] # NoCall
      BY <2>3, CallChanges
    <3>1. QED BY <1>i, <2>3, <2>5, <3>0 DEF LogoutsNamed, Live
  <2>7. op' \in [Calls -> Refresh \cup {NoCall}]
    BY <1>i, <2>1, <2>4 DEF Refresh
  <2>8. QED BY <1>i, <2>1, <2>2, <2>4, <2>6, <2>7
<1>8. ASSUME NEW c \in Calls, UnauthorizedForGood(c) \/ RetryLost(c)
      PROVE  ClientTypes' /\ LogoutsNamed'
  <2>1. call[c].tab \in Tabs
    BY <1>0, <1>8, CallFields DEF UnauthorizedForGood, RetryLost, Live
  <2>2. QED BY <1>8, <1>i, <2>1, SignOutTypes DEF UnauthorizedForGood, RetryLost
<1>9. ASSUME NEW c \in Calls, NEW t \in Tokens, RefreshServed(c, t)
      PROVE  ClientTypes' /\ LogoutsNamed'
  <2>1. op' \in [Calls -> Refresh \cup {NoCall}]
    BY <1>9, <1>i DEF RefreshServed, Refresh, NoCall
  <2>2. QED BY <1>9, <1>i, <2>1 DEF RefreshServed, LogoutsNamed, Live
<1>10. ASSUME NEW c \in Calls, RefreshAnswered(c)
       PROVE  ClientTypes' /\ LogoutsNamed'
  <2>1. op[c].tab \in Tabs /\ op[c].tok \in Tokens /\ op[c].new \in Tokens
    BY <1>0, <1>10, OpFields DEF RefreshAnswered, AnswerWith, Pending
  <2>2. \A d \in Calls :
          /\ call'[d] \in Call \cup {NoCall}
          /\ call'[d] # NoCall => /\ Live(d)
                                  /\ call'[d].kind = call[d].kind
                                  /\ call'[d].body = call[d].body
    <3> SUFFICES ASSUME NEW d \in Calls
                 PROVE  /\ call'[d] \in Call \cup {NoCall}
                        /\ call'[d] # NoCall => /\ Live(d)
                                                /\ call'[d].kind = call[d].kind
                                                /\ call'[d].body = call[d].body
      OBVIOUS
    <3>1. CASE d \in Waiters(c)
      <4>1. call[d] \in Call /\ Live(d)
        BY <1>0, <3>1, CallFields DEF Waiters, Live
      <4>2. (op[c].new \notin fresh) \in BOOLEAN
        OBVIOUS
      <4>3. call'[d] = [call[d] EXCEPT !.phase = "resent", !.on = None,
                                      !.stale = op[c].new \notin fresh]
        BY <1>10, <3>1 DEF RefreshAnswered, AnswerWith
      <4>4. call'[d] \in Call
        BY <4>1, <4>2, <4>3, CallChanges
      <4>5. QED BY <4>1, <4>3, <4>4 DEF Call
    <3>2. CASE d \notin Waiters(c)
      BY <1>10, <1>i, <3>2 DEF RefreshAnswered, AnswerWith, Live
    <3>3. QED BY <3>1, <3>2
  <2>3. call' \in [Calls -> Call \cup {NoCall}] /\ LogoutsNamed'
    <3>1. call' = [d \in Calls |-> call'[d]]
      BY <1>10 DEF RefreshAnswered, AnswerWith
    <3>2. QED BY <1>i, <2>2, <3>1 DEF LogoutsNamed, Live
  <2>4. late' \subseteq Tabs /\ unsure' \subseteq Tokens
    BY <1>10, <1>i, <2>1 DEF RefreshAnswered, AnswerWith
  <2>5. QED BY <1>10, <1>i, <2>1, <2>3, <2>4 DEF RefreshAnswered, AnswerWith
<1>11. ASSUME NEW c \in Calls, RefreshRefused(c) \/ RefreshLost(c)
       PROVE  ClientTypes' /\ LogoutsNamed'
  <2>1. Pending(c) /\ RefreshRejected(c) /\ unsure' \in {unsure, unsure \cup {op[c].tok}}
    BY <1>11 DEF RefreshRefused, Refusable, RefreshLost, Pending
  <2>2. op[c].tab \in Tabs /\ op[c].tok \in Tokens /\ Waiters(c) \in SUBSET Calls
    BY <1>0, <2>1, OpFields DEF Waiters
  <2>3. QED BY <1>i, <2>1, <2>2, SignOutTypes DEF RefreshRejected
<1>12. ASSUME NEW c \in Calls, CallLost(c)
       PROVE  ClientTypes' /\ LogoutsNamed'
  <2>1. call[c].tab \in Tabs
    BY <1>0, <1>12, CallFields DEF CallLost, Live
  <2>2. CASE SignOut(call[c].tab, {c})
    BY <1>12, <1>i, <2>1, <2>2, SignOutTypes DEF CallLost
  <2>3. CASE Finish(call[c].tab, {c}) /\ UNCHANGED <<mem, store>>
    BY <1>12, <1>i, <2>1, <2>3, FinishTypes DEF CallLost
  <2>4. QED BY <1>12, <2>2, <2>3 DEF CallLost
<1>13. ASSUME NEW b \in Tabs, Navigate(b)
       PROVE  ClientTypes' /\ LogoutsNamed'
  <2>1. \A c \in OpsOf(b) : op[c].tok \in Tokens
    BY <1>0, OpFields DEF OpsOf, Pending
  <2>2. QED BY <1>13, <1>i, <2>1 DEF Navigate, LogoutsNamed, Live
<1>14. ASSUME NEW t \in Tokens, AccessExpires(t)
       PROVE  ClientTypes' /\ LogoutsNamed'
  BY <1>14, <1>i DEF AccessExpires, LogoutsNamed, Live
<1>15. CASE UNCHANGED client
  BY <1>15, <1>i DEF client, LogoutsNamed, Live
<1>16. QED
  BY <1>2, <1>3, <1>4, <1>5, <1>6, <1>7, <1>8, <1>9, <1>10, <1>11, <1>12, <1>13,
     <1>14, <1>15
  DEF Next, LogoutServed, LogoutAnswered, ServedToNobody, HandlerFails, vars

-----------------------------------------------------------------------------
(* What the actions do, apart from how they say it.                         *)

(* A call comes to its end, with or without clearTokens.                    *)
EndsCall(c) ==
  /\ Live(c)
  /\ Finish(call[c].tab, {c})
  /\ \/ UNCHANGED <<mem, store>>
     \/ mem' = [mem EXCEPT ![call[c].tab] = None] /\ store' = None
  /\ UNCHANGED <<fresh, op, unsure>>

Sends(c, b) == CallApi(c, b) \/ Logout(c, b) \/ Login(c, b)
ServedAlone(c) == LogoutServed(c) \/ ServedToNobody(c) \/ HandlerFails(c)

(* The request that the refresh of a call makes is over without a token.    *)
Rejected(c) ==
  /\ Pending(c)
  /\ RefreshRejected(c)
  /\ \/ Refusable(c) /\ unsure' = unsure
     \/ unsure' = unsure \cup {op[c].tok}

Steps ==
  \/ \E c \in Calls, b \in Tabs : Sends(c, b)
  \/ \E c \in Calls :
       \/ /\ EndsCall(c) /\ UNCHANGED <<server, left>>
          /\ call[c].phase # "waiting"
       \/ LogoutAnswered(c) /\ EndsCall(c)
       \/ LoginAnswered(c) \/ ServedAlone(c)
       \/ \E t \in Tokens : LoginServed(c, t) \/ RefreshServed(c, t)
       \/ Unauthorized(c) \/ RefreshAnswered(c) \/ Rejected(c)
  \/ \E b \in Tabs : Navigate(b)
  \/ \E t \in Tokens : AccessExpires(t)
  \/ UNCHANGED vars

LEMMA NextSteps == TypeInv /\ [Next]_vars => Steps
<1> SUFFICES ASSUME TypeInv, [Next]_vars PROVE Steps
  OBVIOUS
<1>1. ASSUME NEW c \in Calls, ApiAnswered(c) PROVE Steps
  <2>1. EndsCall(c) /\ UNCHANGED <<server, left>> /\ call[c].phase # "waiting"
    BY <1>1 DEF ApiAnswered, EndsCall, Live
  <2>2. QED BY <2>1 DEF Steps
<1>2. ASSUME NEW c \in Calls, UnauthorizedForGood(c) PROVE Steps
  <2>1. EndsCall(c) /\ UNCHANGED <<server, left>> /\ call[c].phase # "waiting"
    BY <1>2 DEF UnauthorizedForGood, SignOut, EndsCall, Live
  <2>2. QED BY <2>1 DEF Steps
<1>3. ASSUME NEW c \in Calls, CallLost(c) PROVE Steps
  <2>1. EndsCall(c) /\ UNCHANGED <<server, left>> /\ call[c].phase # "waiting"
    BY <1>3 DEF CallLost, SignOut, EndsCall, Live
  <2>2. QED BY <2>1 DEF Steps
<1>4. ASSUME NEW c \in Calls, RetryLost(c) PROVE Steps
  <2>1. EndsCall(c) /\ UNCHANGED <<server, left>> /\ call[c].phase # "waiting"
    BY <1>4 DEF RetryLost, SignOut, EndsCall, Live
  <2>2. QED BY <2>1 DEF Steps
<1>5. ASSUME NEW c \in Calls, LogoutAnswered(c) PROVE Steps
  <2>1. EndsCall(c)
    BY <1>5 DEF LogoutAnswered, Forget, SignOut, EndsCall, Live
  <2>2. QED BY <1>5, <2>1 DEF Steps
<1>6. ASSUME NEW c \in Calls, RefreshRefused(c) \/ RefreshLost(c) PROVE Steps
  <2>1. Rejected(c)
    BY <1>6 DEF RefreshRefused, Refusable, RefreshLost, Rejected, Pending
  <2>2. QED BY <2>1 DEF Steps
<1>7. QED
  BY <1>1, <1>2, <1>3, <1>4, <1>5, <1>6 DEF Next, Steps, Sends, ServedAlone

LEMMA SendEffect ==
  ASSUME TypeInv, NEW c \in Calls, NEW b \in Tabs, Sends(c, b)
  PROVE  /\ Free(c)
         /\ UNCHANGED <<server, fresh, mem, store, promise, op, late, unsure, left>>
         /\ \A d \in Calls \ {c} : call'[d] = call[d]
         /\ call'[c] # NoCall /\ call'[c].tab = b /\ call'[c].phase = "sent"
         /\ call'[c].crossed = (OpsOf(b) # {})
         /\ \/ call'[c].kind = "api" /\ mem[b] # None
            \/ call'[c].kind = "logout" /\ mem[b] # None /\ call'[c].body = mem[b]
            \/ /\ call'[c].kind = "login" /\ mem[b] = None /\ call'[c].body = None
               /\ CallsOf(b) = {} /\ OpsOf(b) = {}
<1>1. PICK kind \in {"api", "logout", "login"}, body \in Tokens \cup {None} :
        /\ Send(c, b, kind, body)
        /\ \/ kind = "api" /\ mem[b] # None
           \/ kind = "logout" /\ mem[b] # None /\ body = mem[b]
           \/ /\ kind = "login" /\ mem[b] = None /\ body = None
              /\ CallsOf(b) = {} /\ OpsOf(b) = {}
  BY DEF Sends, CallApi, Logout, Login, TypeInv, TypeOK
<1>2. call \in [Calls -> Call \cup {NoCall}]
  BY DEF TypeInv, TypeOK
<1> DEFINE new == [kind |-> kind, tab |-> b, phase |-> "sent",
                   stale |-> mem[b] \notin fresh, body |-> body, on |-> None,
                   crossed |-> OpsOf(b) # {}]
<1>3. call' = [call EXCEPT ![c] = new]
  BY <1>1 DEF Send
<1>4. /\ new \in Call /\ new.kind = kind /\ new.tab = b /\ new.phase = "sent"
      /\ new.body = body /\ new.crossed = (OpsOf(b) # {})
  BY DEF Call
<1> HIDE DEF new
<1>5. QED BY <1>1, <1>2, <1>3, <1>4, CallChanges DEF Send

(* The first call of a tab starts the refresh, the others join it; from now *)
(* on every call of the tab has met it.                                     *)
LEMMA UnauthorizedEffect ==
  ASSUME TypeInv, NEW c \in Calls, Unauthorized(c)
  PROVE  LET b == call[c].tab IN
    /\ Live(c) /\ b \in Tabs /\ call[c].kind # "login"
    /\ call[c].phase = "sent" /\ call[c].stale
    /\ mem[b] # None /\ mem[b] \in Tokens
    /\ \A d \in Calls :
         /\ Live(d)' <=> Live(d)
         /\ Live(d) => /\ call'[d].kind = call[d].kind
                       /\ call'[d].tab = call[d].tab
                       /\ call'[d].body = call[d].body
                       /\ call[d].tab = b => call'[d].crossed
                       /\ call[d].tab # b => call'[d].crossed = call[d].crossed
         /\ Live(d) /\ d # c => /\ call'[d].phase = call[d].phase
                                /\ call'[d].on = call[d].on
                                /\ call'[d].stale = call[d].stale
    /\ \/ /\ promise[b] = None
          /\ promise' = [promise EXCEPT ![b] = c]
          /\ call'[c].phase = "waiting" /\ call'[c].on = c
          /\ op' = [op EXCEPT ![c] = [tab |-> b, tok |-> mem[b], new |-> None]]
          /\ unsure' = IF OpsWith(mem[b]) # {} THEN unsure \cup {mem[b]} ELSE unsure
       \/ /\ promise[b] # None /\ op[promise[b]] # NoCall
          /\ call'[c].phase = "waiting" /\ call'[c].on = promise[b]
          /\ UNCHANGED <<promise, op, unsure>>
       \/ /\ promise[b] # None /\ op[promise[b]] = NoCall
          /\ call'[c].phase = "resent"
          /\ UNCHANGED <<promise, op, unsure>>
    /\ UNCHANGED <<server, fresh, mem, store, late, left>>
<1> DEFINE b == call[c].tab
           starts == promise[b] = None
           p == IF starts THEN c ELSE promise[b]
           crossed == [d \in Calls |->
             IF d \in CallsOf(b) THEN [call[d] EXCEPT !.crossed = TRUE] ELSE call[d]]
<1>0. TypeOK
  BY DEF TypeInv
<1>1. /\ Live(c) /\ b \in Tabs /\ mem[b] \in Tokens /\ mem[b] # None
      /\ call[c].kind # "login" /\ call[c].phase = "sent" /\ call[c].stale
      /\ c \in CallsOf(b) /\ call[c] \in Call
  BY <1>0, CallFields DEF Unauthorized, StartsRefresh, Live, CallsOf, TypeOK
<1>2. /\ promise' = [promise EXCEPT ![b] = p]
      /\ op' = IF starts THEN [op EXCEPT ![c] = [tab |-> b, tok |-> mem[b], new |-> None]]
               ELSE op
      /\ unsure' = IF starts /\ OpsWith(mem[b]) # {} THEN unsure \cup {mem[b]}
                   ELSE unsure
      /\ UNCHANGED <<server, fresh, mem, store, late, left>>
      /\ call' = IF starts \/ op[p] # NoCall
                 THEN [crossed EXCEPT ![c].phase = "waiting", ![c].on = p]
                 ELSE [crossed EXCEPT ![c].phase = "resent",
                                      ![c].stale = mem[b] \notin fresh]
  BY DEF Unauthorized, StartsRefresh
<1>3. ASSUME NEW d \in Calls, d # c
      PROVE  /\ Live(d)' <=> Live(d)
             /\ Live(d) => /\ call'[d].kind = call[d].kind
                           /\ call'[d].tab = call[d].tab
                           /\ call'[d].body = call[d].body
                           /\ call[d].tab = b => call'[d].crossed
                           /\ call[d].tab # b => call'[d].crossed = call[d].crossed
                           /\ call'[d].phase = call[d].phase
                           /\ call'[d].on = call[d].on
                           /\ call'[d].stale = call[d].stale
  <2>1. call'[d] = crossed[d]
    BY <1>2, <1>3
  <2>2. CASE d \in CallsOf(b)
    <3>1. Live(d) /\ call[d].tab = b /\ call[d] \in Call
      BY <1>0, <2>2, CallFields DEF CallsOf, Live
    <3>2. call'[d] = [call[d] EXCEPT !.crossed = TRUE]
      BY <2>1, <2>2
    <3>3. call'[d] # NoCall
      BY <3>1, <3>2, CallChanges
    <3>4. QED BY <3>1, <3>2, <3>3 DEF Call, Live
  <2>3. CASE d \notin CallsOf(b)
    <3>1. call'[d] = call[d] /\ (Live(d) => call[d].tab # b)
      BY <2>1, <2>3 DEF CallsOf, Live
    <3>2. QED BY <3>1 DEF Live
  <2>4. QED BY <2>2, <2>3
<1>4. /\ crossed[c] = [call[c] EXCEPT !.crossed = TRUE] /\ crossed[c] \in Call
      /\ crossed[c].kind = call[c].kind /\ crossed[c].tab = b
      /\ crossed[c].body = call[c].body /\ crossed[c].crossed
  <2>1. crossed[c] = [call[c] EXCEPT !.crossed = TRUE]
    BY <1>1
  <2>2. QED BY <1>1, <2>1, CallChanges DEF Call
<1>5. CASE starts \/ op[p] # NoCall
  <2>1. call'[c] = [crossed[c] EXCEPT !.phase = "waiting", !.on = p]
    BY <1>2, <1>5
  <2>2. /\ call'[c].phase = "waiting" /\ call'[c].on = p
        /\ call'[c].kind = call[c].kind /\ call'[c].tab = b
        /\ call'[c].body = call[c].body /\ call'[c].crossed
    BY <1>4, <2>1 DEF Call
  <2>3. call'[c] # NoCall
    BY <1>0, <1>1, <2>2, CallFields DEF NoCall
  <2>c. \A d \in Calls :
         /\ Live(d)' <=> Live(d)
         /\ Live(d) => /\ call'[d].kind = call[d].kind
                       /\ call'[d].tab = call[d].tab
                       /\ call'[d].body = call[d].body
                       /\ call[d].tab = b => call'[d].crossed
                       /\ call[d].tab # b => call'[d].crossed = call[d].crossed
         /\ Live(d) /\ d # c => /\ call'[d].phase = call[d].phase
                                /\ call'[d].on = call[d].on
                                /\ call'[d].stale = call[d].stale
    BY <1>1, <1>3, <2>2, <2>3 DEF Live
  <2>4. CASE starts
    <3>1. /\ promise[b] = None /\ promise' = [promise EXCEPT ![b] = c]
          /\ call'[c].phase = "waiting" /\ call'[c].on = c
          /\ op' = [op EXCEPT ![c] = [tab |-> b, tok |-> mem[b], new |-> None]]
          /\ unsure' = IF OpsWith(mem[b]) # {} THEN unsure \cup {mem[b]} ELSE unsure
      BY <1>2, <2>2, <2>4
    <3>2. QED BY <1>1, <1>2, <2>c, <3>1
  <2>5. CASE ~starts
    <3>1. UNCHANGED <<promise, op, unsure>>
      BY <1>0, <1>1, <1>2, <2>5 DEF TypeOK
    <3>2. promise[b] # None /\ op[promise[b]] # NoCall /\ p = promise[b]
      BY <1>5, <2>5
    <3>3. QED BY <1>1, <1>2, <2>2, <2>c, <3>1, <3>2
  <2>6. QED BY <2>4, <2>5
<1>6. CASE ~(starts \/ op[p] # NoCall)
  <2>0. (mem[b] \notin fresh) \in BOOLEAN
    OBVIOUS
  <2>1. call'[c] = [crossed[c] EXCEPT !.phase = "resent", !.stale = mem[b] \notin fresh]
    BY <1>2, <1>6
  <2>2. /\ call'[c].phase = "resent"
        /\ call'[c].kind = call[c].kind /\ call'[c].tab = b
        /\ call'[c].body = call[c].body /\ call'[c].crossed
    BY <1>4, <2>1 DEF Call
  <2>3. call'[c] # NoCall
    BY <1>0, <1>1, <2>2, CallFields DEF NoCall
  <2>4. promise' = promise
    BY <1>2, <1>6, <1>1, <1>0 DEF TypeOK
  <2>5. QED BY <1>1, <1>2, <1>3, <1>6, <2>2, <2>3, <2>4 DEF Live
<1>7. QED BY <1>5, <1>6

(* The tab and local storage hold the new tokens, and those who waited go on. *)
LEMMA AnsweredEffect ==
  ASSUME TypeInv, NEW c \in Calls, RefreshAnswered(c)
  PROVE  LET b == op[c].tab IN
    /\ Pending(c) /\ b \in Tabs /\ op[c].tok \in Tokens /\ op[c].new \in Tokens
    /\ mem' = [mem EXCEPT ![b] = op[c].new] /\ store' = op[c].new
    /\ \A d \in Calls :
         /\ Live(d)' <=> Live(d)
         /\ Live(d) => /\ call'[d].kind = call[d].kind
                       /\ call'[d].tab = call[d].tab
                       /\ call'[d].body = call[d].body
                       /\ call'[d].crossed = call[d].crossed
         /\ d \in Waiters(c) => call'[d].phase = "resent"
         /\ d \notin Waiters(c) => call'[d] = call[d]
    /\ op' = [op EXCEPT ![c] = NoCall]
    /\ unsure' = IF \E d \in Tabs \ {b} : mem[d] = op[c].tok
                   THEN unsure \cup {op[c].tok} ELSE unsure
    /\ late' = IF OpsOf(b) = {c} THEN late \ {b} ELSE late
    /\ UNCHANGED <<server, fresh, promise, left>>
<1>0. TypeOK
  BY DEF TypeInv
<1>1. Pending(c) /\ op[c].tab \in Tabs /\ op[c].tok \in Tokens /\ op[c].new \in Tokens
  BY <1>0, OpFields DEF RefreshAnswered, AnswerWith, Pending
<1>2. ASSUME NEW d \in Calls
      PROVE  /\ Live(d)' <=> Live(d)
             /\ Live(d) => /\ call'[d].kind = call[d].kind
                           /\ call'[d].tab = call[d].tab
                           /\ call'[d].body = call[d].body
                           /\ call'[d].crossed = call[d].crossed
             /\ d \in Waiters(c) => call'[d].phase = "resent"
             /\ d \notin Waiters(c) => call'[d] = call[d]
  <2>1. CASE d \in Waiters(c)
    <3>1. Live(d) /\ call[d] \in Call
      BY <1>0, <2>1, CallFields DEF Waiters, Live
    <3>2. (op[c].new \notin fresh) \in BOOLEAN
      OBVIOUS
    <3>3. call'[d] = [call[d] EXCEPT !.phase = "resent", !.on = None,
                                    !.stale = op[c].new \notin fresh]
      BY <2>1 DEF RefreshAnswered, AnswerWith
    <3>4. call'[d] # NoCall
      BY <3>1, <3>2, <3>3, CallChanges
    <3>5. QED BY <2>1, <3>1, <3>3, <3>4 DEF Call, Live
  <2>2. CASE d \notin Waiters(c)
    BY <2>2 DEF RefreshAnswered, AnswerWith, Live
  <2>3. QED BY <2>1, <2>2
<1>3. QED BY <1>1, <1>2 DEF RefreshAnswered, AnswerWith

(* A refresh that is served keeps its tab and its token.                    *)
LEMMA ServedEffect ==
  ASSUME TypeInv, NEW c \in Calls, NEW n \in Tokens, RefreshServed(c, n)
  PROVE  /\ UNCHANGED <<mem, store, promise, call, late, unsure, left>>
         /\ \A d \in Calls : d # c => op'[d] = op[d]
         /\ Pending(c)' <=> Pending(c)
         /\ Pending(c) => op'[c].tab = op[c].tab /\ op'[c].tok = op[c].tok
         /\ \/ S!RefreshReads(c, op[c].tok) /\ Pending(c) /\ op[c].new = None /\ op' = op
            \/ S!RefreshCommits(c, n) /\ (Pending(c) => op'[c].new = n)
<1>0. TypeOK /\ op \in [Calls -> Refresh \cup {NoCall}]
  BY DEF TypeInv, TypeOK
<1>1. CASE Pending(c) /\ op[c].new = None /\ S!RefreshReads(c, op[c].tok) /\ op' = op
  BY <1>1 DEF RefreshServed, Pending
<1>2. CASE /\ Pending(c) /\ S!RefreshCommits(c, n)
           /\ op' = [op EXCEPT ![c].new = n]
  <2>1. op[c] \in Refresh
    BY <1>0, <1>2, OpFields
  <2>2. op'[c] = [op[c] EXCEPT !.new = n]
    BY <1>0, <1>2
  <2>3. /\ op'[c].new = n /\ op'[c].tab = op[c].tab /\ op'[c].tok = op[c].tok
        /\ op'[c] # NoCall
    BY <2>1, <2>2 DEF Refresh, NoCall
  <2>4. QED BY <1>0, <1>2, <2>3 DEF RefreshServed, Pending
<1>3. CASE S!RefreshCommits(c, n) /\ ~Pending(c) /\ op' = op
  BY <1>3 DEF RefreshServed, Pending
<1>4. QED BY <1>1, <1>2, <1>3 DEF RefreshServed, Pending

(* Handlers do not touch what the others have read.                         *)
LEMMA OthersKept ==
  ASSUME TypeOK, NEW q \in Calls, NEW p \in Calls, p # q, NEW t,
         \/ S!LoginReads(q) \/ S!LogoutCommits(q) \/ S!RequestFails(q)
         \/ S!LoginCommits(q, t) \/ S!LogoutReads(q, t)
         \/ S!RefreshReads(q, t) \/ S!RefreshCommits(q, t)
  PROVE  /\ req'[p].kind = req[p].kind
         /\ req[p].kind \in {"refresh", "logout"} => req'[p].tok = req[p].tok
<1>1. CASE S!LogoutCommits(q)
  <2>1. CASE req[p].kind = "refresh" /\ req[p].tok = req[q].tok
    <3>1. req[p] \in S!RefreshRequest
      BY <2>1, HandlerKind DEF S!Is
    <3>2. req'[p] = [req[p] EXCEPT !.over = TRUE]
      BY <1>1, <2>1 DEF S!LogoutCommits
    <3>3. QED BY <3>1, <3>2 DEF S!RefreshRequest
  <2>2. CASE ~(req[p].kind = "refresh" /\ req[p].tok = req[q].tok)
    BY <1>1, <2>2 DEF S!LogoutCommits
  <2>3. QED BY <2>1, <2>2
<1>2. CASE ~S!LogoutCommits(q)
  <2>1. req'[p] = req[p]
    BY <1>2 DEF S!LoginReads, S!RequestFails, S!LoginCommits, S!LogoutReads,
       S!RefreshReads, S!RefreshReadsIf, S!RefreshCommits, S!Done, TypeOK, S!TypeOK
  <2>2. QED BY <2>1
<1>3. QED BY <1>1, <1>2

LEMMA OwnHandler ==
  ASSUME TypeOK, NEW q \in Calls, NEW t
  PROVE  /\ S!LoginReads(q) => S!Is(q, "idle") /\ req'[q].kind = "login"
         /\ \/ S!LoginCommits(q, t) \/ S!LogoutCommits(q) \/ S!RequestFails(q)
            \/ S!RefreshCommits(q, t)
            => req'[q].kind = "idle"
         /\ S!LogoutReads(q, t)
              => S!Is(q, "idle") /\ req'[q].kind = "logout" /\ req'[q].tok = t
         /\ S!RefreshReads(q, t)
              => S!Is(q, "idle") /\ req'[q].kind = "refresh" /\ req'[q].tok = t
BY DEF S!LoginReads, S!RequestFails, S!LoginCommits, S!LogoutReads, S!LogoutCommits,
   S!RefreshReads, S!RefreshReadsIf, S!RefreshCommits, S!Done, S!IdleRequest,
   TypeOK, S!TypeOK

(* The call that is over, and what is left of its tab's promise.            *)
LEMMA FinishEffect ==
  ASSUME TypeInv, NEW b \in Tabs, NEW ds \in SUBSET Calls, Finish(b, ds)
  PROVE  /\ \A d \in ds : ~Live(d)'
         /\ \A d \in Calls \ ds : call'[d] = call[d] /\ (Live(d)' <=> Live(d))
         /\ \A a \in Tabs \ {b} : promise'[a] = promise[a]
         /\ promise'[b] \in {promise[b], None}
         /\ (\E d \in ds : call[d].phase # "sent") => promise'[b] = None
         /\ late \subseteq late'
         /\ promise'[b] # promise[b] /\ Pending(promise[b]) /\ promise[b] \notin ds
              => b \in late'
BY DEF Finish, TypeInv, TypeOK, Live, Pending

-----------------------------------------------------------------------------
(* A handler that serves a logout serves the call that has its number, as   *)
(* long as that is waited for, and for the token that it names.             *)
LogoutsServed ==
  \A c \in Calls : S!Is(c, "logout") /\ Live(c) =>
    /\ call[c].kind = "logout" /\ call[c].phase # "waiting" /\ ~call[c].stale
    /\ req[c].tok = call[c].body

LEMMA LogoutsServedStep == TypeInv /\ LogoutsServed /\ Steps => LogoutsServed'
<1> SUFFICES ASSUME TypeInv, LogoutsServed, Steps,
                    NEW d \in Calls, S!Is(d, "logout")', Live(d)'
             PROVE  /\ call'[d].kind = "logout" /\ call'[d].phase # "waiting"
                    /\ ~call'[d].stale /\ req'[d].tok = call'[d].body
  BY DEF LogoutsServed
<1> DEFINE Goal == /\ call'[d].kind = "logout" /\ call'[d].phase # "waiting"
                   /\ ~call'[d].stale /\ req'[d].tok = call'[d].body
<1>0. TypeOK
  BY DEF TypeInv
\* Nothing changes for d.
<1>1. ASSUME req'[d].kind = req[d].kind,
             req[d].kind = "logout" => req'[d].tok = req[d].tok, call'[d] = call[d]
      PROVE  Goal
  BY <1>1 DEF LogoutsServed, S!Is, Live
<1>2. ASSUME NEW c \in Calls, NEW b \in Tabs, Sends(c, b) PROVE Goal
  <2>1. Free(c) /\ req' = req /\ (d # c => call'[d] = call[d])
    BY <1>2, SendEffect DEF server
  <2>2. d # c
    BY <2>1 DEF Free, S!Is
  <2>3. QED BY <1>1, <2>1, <2>2
<1>3. ASSUME NEW c \in Calls, EndsCall(c), UNCHANGED server \/ S!LogoutCommits(c)
      PROVE  Goal
  <2>1. call[c].tab \in Tabs
    BY <1>0, <1>3, CallFields DEF EndsCall
  <2>2. d # c /\ call'[d] = call[d]
    BY <1>3, <2>1, FinishEffect DEF EndsCall
  <2>3. QED BY <1>0, <1>1, <1>3, <2>2, OthersKept DEF server
<1>4. ASSUME NEW c \in Calls, LoginAnswered(c) PROVE Goal
  BY <1>0, <1>1, <1>4 DEF LoginAnswered, Live, server, TypeOK
<1>5. ASSUME NEW c \in Calls, LogoutServed(c) PROVE Goal
  <2>1. CASE d = c
    BY <1>0, <1>5, <2>1, OwnHandler DEF LogoutServed, client
  <2>2. CASE d # c
    BY <1>0, <1>1, <1>5, <2>2, OthersKept DEF LogoutServed, client
  <2>3. QED BY <2>1, <2>2
<1>6. ASSUME NEW c \in Calls, ServedToNobody(c) \/ HandlerFails(c) PROVE Goal
  <2>1. CASE d = c
    BY <1>0, <1>6, <2>1, OwnHandler DEF ServedToNobody, HandlerFails, S!Is
  <2>2. CASE d # c
    BY <1>0, <1>1, <1>6, <2>2, OthersKept DEF ServedToNobody, HandlerFails, client
  <2>3. QED BY <2>1, <2>2
<1>7. ASSUME NEW c \in Calls, NEW t \in Tokens, LoginServed(c, t) PROVE Goal
  <2>1. CASE d = c
    BY <1>0, <1>7, <2>1, OwnHandler DEF LoginServed, S!Is
  <2>2. CASE d # c
    <3>1. call'[d] = call[d]
      BY <1>0, <1>7, <2>2 DEF LoginServed, TypeOK
    <3>2. QED BY <1>0, <1>1, <1>7, <2>2, <3>1, OthersKept DEF LoginServed
  <2>3. QED BY <2>1, <2>2
<1>8. ASSUME NEW c \in Calls, NEW t \in Tokens, RefreshServed(c, t) PROVE Goal
  <2>0. S!RefreshReads(c, op[c].tok) \/ S!RefreshCommits(c, t)
    BY <1>8, ServedEffect
  <2>1. CASE d = c
    BY <1>0, <2>0, <2>1, OwnHandler DEF S!Is
  <2>2. CASE d # c
    BY <1>0, <1>1, <1>8, <2>0, <2>2, OthersKept, ServedEffect
  <2>3. QED BY <2>1, <2>2
<1>9. ASSUME NEW c \in Calls, Unauthorized(c) PROVE Goal
  <2>1. req' = req /\ Live(d) /\ (d # c => call'[d].stale = call[d].stale)
    BY <1>9, UnauthorizedEffect DEF server
  <2>2. d # c
    BY <1>9, <2>1, UnauthorizedEffect DEF LogoutsServed, S!Is
  <2>3. QED BY <1>9, <2>1, <2>2, UnauthorizedEffect DEF LogoutsServed, S!Is
<1>10. ASSUME NEW c \in Calls, RefreshAnswered(c) PROVE Goal
  <2>1. req' = req /\ Live(d) /\ S!Is(d, "logout")
    BY <1>10, AnsweredEffect DEF server, S!Is
  <2>2. d \notin Waiters(c)
    BY <2>1 DEF LogoutsServed, Waiters
  <2>3. QED BY <1>1, <1>10, <2>1, <2>2, AnsweredEffect
<1>11. ASSUME NEW c \in Calls, Rejected(c) PROVE Goal
  <2>1. op[c].tab \in Tabs /\ Waiters(c) \in SUBSET Calls
    BY <1>0, <1>11, OpFields DEF Rejected, Waiters
  <2>2. call'[d] = call[d] /\ req' = req
    BY <1>11, <2>1, FinishEffect DEF Rejected, RefreshRejected, SignOut, server
  <2>3. QED BY <1>1, <2>2
<1>12. ASSUME NEW b \in Tabs, Navigate(b) PROVE Goal
  BY <1>1, <1>12 DEF Navigate, Live, server
<1>13. ASSUME NEW t \in Tokens, AccessExpires(t) PROVE Goal
  BY <1>1, <1>13 DEF AccessExpires, server
<1>14. CASE UNCHANGED vars
  BY <1>1, <1>14 DEF vars, server, client
<1>15. QED
  BY <1>2, <1>3, <1>4, <1>5, <1>6, <1>7, <1>8, <1>9, <1>10, <1>11, <1>12, <1>13, <1>14
  DEF Steps, ServedAlone, LogoutAnswered

-----------------------------------------------------------------------------
(* The shared refresh.  The call that started a refresh waits for it, and   *)
(* whoever waits does so for a pending refresh of its own tab.              *)
OpsAwaited ==
  \A c \in Calls : Pending(c) =>
    /\ Live(c) /\ call[c].phase = "waiting"
    /\ call[c].on = c /\ call[c].tab = op[c].tab

WaitersServed ==
  \A d \in Calls : Live(d) /\ call[d].phase = "waiting" =>
    /\ call[d].on \in Calls /\ Pending(call[d].on)
    /\ op[call[d].on].tab = call[d].tab

(* A login is never repeated, and waits for no refresh.                     *)
LoginsSent ==
  \A c \in Calls : Live(c) /\ call[c].kind = "login" => call[c].phase = "sent"

(* A promise stands for a call of its tab that has shared the refresh and   *)
(* has not cleared it yet.                                                  *)
PromisesShared ==
  \A b \in Tabs : promise[b] # None =>
    /\ Live(promise[b]) /\ call[promise[b]].tab = b
    /\ call[promise[b]].phase # "sent"

(* No refresh of a tab is pending but the promised one, unless a late call   *)
(* has cleared its promise.                                                 *)
PromisedUnlessLate ==
  \A b \in Tabs, c \in Calls :
    b \notin late /\ Pending(c) /\ op[c].tab = b => promise[b] = c

Shared ==
  OpsAwaited /\ WaitersServed /\ LoginsSent /\ PromisesShared /\ PromisedUnlessLate

(* A call that waits for nothing may come to its end.                       *)
LEMMA EndShares ==
  ASSUME TypeInv, Shared, NEW c \in Calls, call[c].phase # "waiting", EndsCall(c)
  PROVE  Shared'
<1> DEFINE b == call[c].tab
<1>0. /\ TypeOK /\ b \in Tabs /\ op' = op /\ ~Pending(c) /\ Finish(b, {c})
      /\ Live(c)
  BY CallFields DEF TypeInv, EndsCall, Shared, OpsAwaited
<1>1. /\ ~Live(c)'
      /\ \A d \in Calls \ {c} : call'[d] = call[d] /\ (Live(d)' <=> Live(d))
      /\ \A a \in Tabs \ {b} : promise'[a] = promise[a]
      /\ promise'[b] \in {promise[b], None}
      /\ call[c].phase # "sent" => promise'[b] = None
      /\ late \subseteq late'
      /\ promise'[b] # promise[b] /\ Pending(promise[b]) /\ promise[b] # c
           => b \in late'
  BY <1>0, FinishEffect
<1>2. OpsAwaited' /\ WaitersServed' /\ LoginsSent'
  BY <1>0, <1>1 DEF Shared, OpsAwaited, WaitersServed, LoginsSent, Pending
<1>3. PromisesShared'
  <2> SUFFICES ASSUME NEW a \in Tabs, promise'[a] # None
               PROVE  /\ Live(promise[a])' /\ call'[promise'[a]].tab = a
                      /\ call'[promise'[a]].phase # "sent" /\ promise'[a] = promise[a]
    BY DEF PromisesShared, Live
  <2>1. promise'[a] = promise[a] /\ promise[a] \in Calls
    BY <1>0, <1>1 DEF TypeOK
  <2>2. promise[a] # c
    BY <1>0, <1>1, <2>1 DEF Shared, PromisesShared
  <2>3. QED BY <1>1, <2>1, <2>2 DEF Shared, PromisesShared, Live
<1>4. PromisedUnlessLate'
  <2> SUFFICES ASSUME NEW a \in Tabs, NEW d \in Calls, a \notin late', Pending(d),
                      op[d].tab = a
               PROVE  promise'[a] = d
    BY <1>0 DEF PromisedUnlessLate, Pending
  <2>1. promise[a] = d
    BY <1>1 DEF Shared, PromisedUnlessLate
  <2>2. QED BY <1>0, <1>1, <2>1
<1>5. QED BY <1>2, <1>3, <1>4 DEF Shared

LEMMA SharedStep == TypeInv /\ LogoutsServed /\ Shared /\ Steps => Shared'
<1> SUFFICES ASSUME TypeInv, LogoutsServed, Shared, Steps PROVE Shared'
  OBVIOUS
<1>0. TypeOK
  BY DEF TypeInv
<1> DEFINE Parts == /\ OpsAwaited /\ WaitersServed /\ LoginsSent
                    /\ PromisesShared /\ PromisedUnlessLate
<1>i. Parts
  BY DEF Shared
<1>q. SUFFICES Parts'
  BY DEF Shared
<1>1. ASSUME UNCHANGED <<promise, call, op, late>> PROVE Parts'
  BY <1>i, <1>1 DEF OpsAwaited, WaitersServed, LoginsSent, PromisesShared,
     PromisedUnlessLate, Live, Pending
<1>2. ASSUME NEW c \in Calls, NEW b \in Tabs, Sends(c, b) PROVE Parts'
  <2>1. /\ UNCHANGED <<promise, op, late>> /\ ~Live(c) /\ ~Pending(c)
        /\ \A d \in Calls \ {c} : call'[d] = call[d]
        /\ call'[c] # NoCall /\ call'[c].tab = b /\ call'[c].phase = "sent"
    BY <1>2, SendEffect DEF Free, Live, Pending
  <2>2. OpsAwaited' /\ WaitersServed' /\ LoginsSent' /\ PromisedUnlessLate'
    BY <1>i, <2>1 DEF OpsAwaited, WaitersServed, LoginsSent, PromisedUnlessLate,
       Live, Pending
  <2>3. PromisesShared'
    <3>1. \A a \in Tabs : promise[a] # None => promise[a] \in Calls \ {c}
      BY <1>0, <1>i, <2>1 DEF PromisesShared, TypeOK
    <3>2. QED BY <1>i, <2>1, <3>1 DEF PromisesShared, Live
  <2>4. QED BY <2>2, <2>3
<1>3. ASSUME NEW c \in Calls, EndsCall(c), call[c].phase # "waiting" PROVE Parts'
  BY <1>3, EndShares DEF Shared
<1>4. ASSUME NEW c \in Calls, LogoutAnswered(c), EndsCall(c) PROVE Parts'
  <2>1. call[c].phase # "waiting"
    BY <1>4 DEF LogoutsServed, LogoutAnswered, S!LogoutCommits, EndsCall
  <2>2. QED BY <1>3, <1>4, <2>1
<1>5. ASSUME NEW c \in Calls, LoginAnswered(c) PROVE Parts'
  <2>1. /\ UNCHANGED <<promise, op, late>> /\ call' = [call EXCEPT ![c] = NoCall]
        /\ Live(c) /\ call[c].phase = "sent"
    BY <1>5, <1>i DEF LoginAnswered, LoginsSent, Live
  <2>2. /\ ~Live(c)'
        /\ \A d \in Calls \ {c} : call'[d] = call[d]
    BY <1>0, <2>1 DEF TypeOK, Live
  <2>3. OpsAwaited' /\ WaitersServed' /\ LoginsSent' /\ PromisedUnlessLate'
    BY <1>i, <2>1, <2>2 DEF OpsAwaited, WaitersServed, LoginsSent, PromisedUnlessLate,
       Live, Pending
  <2>4. PromisesShared'
    <3>1. \A a \in Tabs : promise[a] # None => promise[a] \in Calls \ {c}
      BY <1>0, <1>i, <2>1 DEF PromisesShared, TypeOK
    <3>2. QED BY <1>i, <2>1, <2>2, <3>1 DEF PromisesShared, Live
  <2>5. QED BY <2>3, <2>4
<1>6. ASSUME NEW c \in Calls, ServedAlone(c) PROVE Parts'
  BY <1>1, <1>6
  DEF ServedAlone, LogoutServed, ServedToNobody, HandlerFails, client
<1>7. ASSUME NEW c \in Calls, NEW t \in Tokens, LoginServed(c, t) PROVE Parts'
  <2>1. /\ UNCHANGED <<promise, op, late>>
        /\ \A d \in Calls : /\ Live(d)' <=> Live(d)
                            /\ Live(d) => /\ call'[d].kind = call[d].kind
                                          /\ call'[d].tab = call[d].tab
                                          /\ call'[d].phase = call[d].phase
                                          /\ call'[d].on = call[d].on
    <3>1. call' = call \/ call' = [call EXCEPT ![c] = [call[c] EXCEPT !.body = t]]
      BY <1>7 DEF LoginServed
    <3>2. call[c] \in Call
      BY <1>0, <1>7, CallFields DEF LoginServed, Live
    <3>3. [call[c] EXCEPT !.body = t] # NoCall
      BY <3>2, CallChanges
    <3>4. QED BY <1>0, <1>7, <3>1, <3>2, <3>3 DEF LoginServed, Call, Live, TypeOK
  <2>2. QED
    BY <1>0, <1>i, <2>1 DEF OpsAwaited, WaitersServed, LoginsSent, PromisesShared,
       PromisedUnlessLate, Pending, Live, TypeOK
<1>8. ASSUME NEW c \in Calls, NEW t \in Tokens, RefreshServed(c, t) PROVE Parts'
  <2>1. /\ UNCHANGED <<promise, call, late>>
        /\ \A d \in Calls : /\ Pending(d)' <=> Pending(d)
                            /\ Pending(d) => op'[d].tab = op[d].tab
    BY <1>8, ServedEffect DEF Pending
  <2>2. QED
    BY <1>i, <2>1 DEF OpsAwaited, WaitersServed, LoginsSent, PromisesShared,
       PromisedUnlessLate, Pending, Live
<1>9. ASSUME NEW c \in Calls, Unauthorized(c) PROVE Parts'
  <2> DEFINE b == call[c].tab
  <2>1. /\ Live(c) /\ b \in Tabs /\ call[c].kind # "login"
        /\ call[c].phase = "sent" /\ late' = late
        /\ \A d \in Calls :
             /\ Live(d)' <=> Live(d)
             /\ Live(d) => /\ call'[d].kind = call[d].kind
                           /\ call'[d].tab = call[d].tab
             /\ Live(d) /\ d # c => /\ call'[d].phase = call[d].phase
                                    /\ call'[d].on = call[d].on
    BY <1>9, UnauthorizedEffect
  <2>2. ~Pending(c)
    BY <1>i, <2>1 DEF OpsAwaited
  <2>3. CASE /\ promise[b] = None
             /\ promise' = [promise EXCEPT ![b] = c]
             /\ call'[c].phase = "waiting" /\ call'[c].on = c
             /\ op' = [op EXCEPT ![c] = [tab |-> b, tok |-> mem[b], new |-> None]]
    <3>1. /\ Pending(c)' /\ op'[c].tab = b /\ promise'[b] = c
          /\ \A d \in Calls \ {c} : op'[d] = op[d] /\ (Pending(d)' <=> Pending(d))
          /\ \A a \in Tabs \ {b} : promise'[a] = promise[a]
      BY <1>0, <2>1, <2>3 DEF Pending, NoCall, TypeOK
    <3>2. OpsAwaited' /\ LoginsSent'
      BY <1>i, <2>1, <2>3, <3>1 DEF OpsAwaited, LoginsSent
    <3>3. WaitersServed'
      BY <1>i, <2>1, <2>2, <2>3, <3>1 DEF WaitersServed, Pending
    <3>4. PromisesShared'
      <4> SUFFICES ASSUME NEW a \in Tabs, promise'[a] # None
                   PROVE  /\ Live(promise[a])' /\ call'[promise'[a]].tab = a
                          /\ call'[promise'[a]].phase # "sent"
        BY DEF PromisesShared, Live
      <4>1. CASE a = b
        BY <2>1, <2>3, <3>1, <4>1 DEF Live
      <4>2. CASE a # b
        <5>1. promise'[a] = promise[a] /\ promise[a] \in Calls
          BY <1>0, <3>1, <4>2 DEF TypeOK
        <5>2. promise[a] # c
          BY <1>i, <2>1, <4>2, <5>1 DEF PromisesShared
        <5>3. QED BY <1>i, <2>1, <5>1, <5>2 DEF PromisesShared, Live
      <4>3. QED BY <4>1, <4>2
    <3>5. PromisedUnlessLate'
      <4> SUFFICES ASSUME NEW a \in Tabs, NEW d \in Calls, a \notin late', Pending(d)',
                          op'[d].tab = a
                   PROVE  promise'[a] = d
        BY DEF PromisedUnlessLate, Pending
      <4>1. CASE d = c
        BY <3>1, <4>1
      <4>2. CASE d # c
        <5>1. promise[a] = d /\ d # None
          BY <1>i, <2>1, <3>1, <4>2, NoneAssumption DEF PromisedUnlessLate
        <5>2. QED BY <2>3, <3>1, <5>1
      <4>3. QED BY <4>1, <4>2
    <3>6. QED BY <3>2, <3>3, <3>4, <3>5
  <2>4. CASE /\ promise[b] # None /\ op[promise[b]] # NoCall
             /\ call'[c].phase = "waiting" /\ call'[c].on = promise[b]
             /\ UNCHANGED <<promise, op>>
    <3>0. /\ promise[b] \in Calls /\ Pending(promise[b])
          /\ op[promise[b]].tab = b
      BY <1>0, <1>i, <2>1, <2>4 DEF TypeOK, Pending, OpsAwaited, PromisesShared
    <3>1. OpsAwaited' /\ LoginsSent' /\ PromisedUnlessLate'
      BY <1>i, <2>1, <2>2, <2>4 DEF OpsAwaited, LoginsSent, PromisedUnlessLate, Pending
    <3>2. WaitersServed'
      BY <1>i, <2>1, <2>4, <3>0 DEF WaitersServed, Pending
    <3>3. PromisesShared'
      BY <1>0, <1>i, <2>1, <2>4 DEF PromisesShared, TypeOK, Live
    <3>4. QED BY <3>1, <3>2, <3>3
  <2>5. CASE /\ promise[b] # None /\ op[promise[b]] = NoCall
             /\ call'[c].phase = "resent"
             /\ UNCHANGED <<promise, op>>
    <3>1. OpsAwaited' /\ LoginsSent' /\ PromisedUnlessLate'
      BY <1>i, <2>1, <2>2, <2>5 DEF OpsAwaited, LoginsSent, PromisedUnlessLate, Pending
    <3>2. WaitersServed'
      BY <1>i, <2>1, <2>5 DEF WaitersServed, Pending
    <3>3. PromisesShared'
      BY <1>0, <1>i, <2>1, <2>5 DEF PromisesShared, TypeOK, Live
    <3>4. QED BY <3>1, <3>2, <3>3
  <2>6. QED BY <1>9, <2>3, <2>4, <2>5, UnauthorizedEffect
<1>10. ASSUME NEW c \in Calls, RefreshAnswered(c) PROVE Parts'
  <2> DEFINE b == op[c].tab
  <2>1. /\ Pending(c) /\ b \in Tabs
        /\ \A d \in Calls :
             /\ Live(d)' <=> Live(d)
             /\ Live(d) => call'[d].kind = call[d].kind /\ call'[d].tab = call[d].tab
             /\ d \in Waiters(c) => call'[d].phase = "resent"
             /\ d \notin Waiters(c) => call'[d] = call[d]
        /\ op' = [op EXCEPT ![c] = NoCall]
        /\ late' = IF OpsOf(b) = {c} THEN late \ {b} ELSE late
        /\ promise' = promise
    BY <1>10, AnsweredEffect
  <2>2. /\ ~Pending(c)'
        /\ \A d \in Calls \ {c} : op'[d] = op[d] /\ (Pending(d)' <=> Pending(d))
    BY <1>0, <2>1 DEF TypeOK, Pending
  <2>3. \A d \in Waiters(c) : d \in Calls /\ Live(d) /\ call[d].phase = "waiting"
                             /\ call[d].on = c
    BY DEF Waiters, Live
  <2>4. OpsAwaited'
    BY <1>i, <2>1, <2>2, <2>3 DEF OpsAwaited
  <2>5. WaitersServed'
    <3> SUFFICES ASSUME NEW d \in Calls, Live(d)', call'[d].phase = "waiting"
                 PROVE  /\ call'[d].on \in Calls /\ op'[call'[d].on] # NoCall
                        /\ op'[call'[d].on].tab = call'[d].tab
      BY DEF WaitersServed, Pending
    <3>1. d \notin Waiters(c) /\ Live(d) /\ call'[d] = call[d]
      BY <2>1
    <3>2. call[d].on \in Calls /\ Pending(call[d].on) /\ call[d].on # c
      BY <1>i, <3>1 DEF WaitersServed, Waiters, Live
    <3>3. QED BY <1>i, <2>2, <3>1, <3>2 DEF WaitersServed, Pending
  <2>6. LoginsSent'
    BY <1>i, <2>1, <2>3 DEF LoginsSent
  <2>7. PromisesShared'
    BY <1>0, <1>i, <2>1, <2>3 DEF PromisesShared, TypeOK, Live
  <2>8. PromisedUnlessLate'
    <3> SUFFICES ASSUME NEW a \in Tabs, NEW d \in Calls, a \notin late', Pending(d)',
                        op'[d].tab = a
                 PROVE  promise'[a] = d
      BY DEF PromisedUnlessLate, Pending
    <3>1. d # c /\ Pending(d) /\ op[d].tab = a
      BY <2>2
    <3>2. a \notin late
      BY <2>1, <3>1 DEF OpsOf, Pending
    <3>3. QED BY <1>i, <2>1, <3>1, <3>2 DEF PromisedUnlessLate
  <2>9. QED BY <2>4, <2>5, <2>6, <2>7, <2>8
<1>11. ASSUME NEW c \in Calls, Rejected(c) PROVE Parts'
  <2> DEFINE b == op[c].tab
             ds == Waiters(c)
  <2>1. /\ Pending(c) /\ b \in Tabs /\ ds \in SUBSET Calls /\ Finish(b, ds)
        /\ op' = [op EXCEPT ![c] = NoCall]
    BY <1>0, <1>11, OpFields DEF Rejected, RefreshRejected, SignOut, Waiters
  <2>2. /\ ~Pending(c)'
        /\ \A d \in Calls \ {c} : op'[d] = op[d] /\ (Pending(d)' <=> Pending(d))
    BY <1>0, <2>1 DEF TypeOK, Pending
  <2>3. \A d \in ds : /\ Live(d) /\ call[d].phase = "waiting" /\ call[d].on = c
                      /\ call[d].tab = b
    BY <1>i DEF Waiters, Live, WaitersServed
  <2>4. c \in ds
    BY <1>i, <2>1 DEF OpsAwaited, Waiters, Live
  <2>5. /\ \A d \in ds : ~Live(d)'
        /\ \A d \in Calls \ ds : call'[d] = call[d] /\ (Live(d)' <=> Live(d))
        /\ \A a \in Tabs \ {b} : promise'[a] = promise[a]
        /\ promise'[b] = None
        /\ late \subseteq late'
        /\ promise'[b] # promise[b] /\ Pending(promise[b]) /\ promise[b] \notin ds
             => b \in late'
    BY <2>1, <2>3, <2>4, FinishEffect
  <2>6. \A d \in ds : Pending(d) => d = c
    BY <1>i, <2>1, <2>3 DEF OpsAwaited
  <2>7. OpsAwaited'
    BY <1>i, <2>2, <2>5, <2>6 DEF OpsAwaited
  <2>8. WaitersServed'
    <3> SUFFICES ASSUME NEW d \in Calls, Live(d)', call'[d].phase = "waiting"
                 PROVE  /\ call'[d].on \in Calls /\ op'[call'[d].on] # NoCall
                        /\ op'[call'[d].on].tab = call'[d].tab
      BY DEF WaitersServed, Pending
    <3>1. d \notin Waiters(c) /\ Live(d) /\ call'[d] = call[d]
      BY <2>5
    <3>2. call[d].on \in Calls /\ Pending(call[d].on) /\ call[d].on # c
      BY <1>i, <3>1 DEF WaitersServed, Waiters, Live
    <3>3. QED BY <1>i, <2>2, <3>1, <3>2 DEF WaitersServed, Pending
  <2>9. LoginsSent'
    BY <1>i, <2>5 DEF LoginsSent
  <2>10. PromisesShared'
    <3> SUFFICES ASSUME NEW a \in Tabs, promise'[a] # None
                 PROVE  /\ Live(promise[a])' /\ call'[promise'[a]].tab = a
                        /\ call'[promise'[a]].phase # "sent"
      BY DEF PromisesShared, Live
    <3>1. a # b /\ promise'[a] = promise[a] /\ promise[a] \in Calls
      BY <1>0, <2>5 DEF TypeOK
    <3>2. promise[a] \notin ds
      BY <1>i, <2>3, <3>1 DEF PromisesShared
    <3>3. QED BY <1>i, <2>5, <3>1, <3>2 DEF PromisesShared, Live
  <2>11. PromisedUnlessLate'
    <3> SUFFICES ASSUME NEW a \in Tabs, NEW d \in Calls, a \notin late', Pending(d)',
                        op'[d].tab = a
                 PROVE  promise'[a] = d
      BY DEF PromisedUnlessLate, Pending
    <3>1. d # c /\ Pending(d) /\ op[d].tab = a /\ d \notin ds
      BY <2>2, <2>6
    <3>2. promise[a] = d /\ d # None
      BY <1>i, <2>5, <3>1, NoneAssumption DEF PromisedUnlessLate
    <3>3. QED BY <2>5, <3>1, <3>2
  <2>12. QED BY <2>7, <2>8, <2>9, <2>10, <2>11
<1>12. ASSUME NEW b \in Tabs, Navigate(b) PROVE Parts'
  <2>1. \A c \in Calls :
          /\ Live(c)' <=> Live(c) /\ call[c].tab # b
          /\ Live(c)' => call'[c] = call[c]
          /\ Pending(c)' <=> Pending(c) /\ op[c].tab # b
          /\ Pending(c)' => op'[c] = op[c]
    BY <1>12 DEF Navigate, CallsOf, OpsOf, Live, Pending
  <2>2. /\ promise'[b] = None /\ late' = late \ {b}
        /\ \A a \in Tabs \ {b} : promise'[a] = promise[a]
    BY <1>0, <1>12 DEF Navigate, TypeOK
  <2>3. OpsAwaited' /\ LoginsSent'
    BY <1>i, <2>1 DEF OpsAwaited, LoginsSent
  <2>4. WaitersServed'
    BY <1>i, <2>1 DEF WaitersServed, Pending
  <2>5. PromisesShared'
    BY <1>0, <1>i, <2>1, <2>2 DEF PromisesShared, TypeOK, Live
  <2>6. PromisedUnlessLate'
    BY <1>i, <2>1, <2>2 DEF PromisedUnlessLate
  <2>7. QED BY <2>3, <2>4, <2>5, <2>6
<1>13. ASSUME NEW t \in Tokens, AccessExpires(t) PROVE Parts'
  BY <1>1, <1>13 DEF AccessExpires
<1>14. CASE UNCHANGED vars
  BY <1>1, <1>14 DEF vars, client
<1>15. QED
  BY <1>2, <1>3, <1>4, <1>5, <1>6, <1>7, <1>8, <1>9, <1>10, <1>11, <1>12, <1>13, <1>14
  DEF Steps

(* The promise of a tab is one refresh, so that two are pending only when a *)
(* late call has cleared it.                                                *)
LEMMA OneRefresh == PromisedUnlessLate => OneRefreshUnlessLate
<1> SUFFICES ASSUME PromisedUnlessLate, NEW b \in Tabs, Cardinality(OpsOf(b)) > 1,
                    b \notin late
             PROVE  FALSE
  BY DEF OneRefreshUnlessLate
<1>1. OpsOf(b) \subseteq {promise[b]}
  BY DEF OpsOf, PromisedUnlessLate, Pending
<1>2. Cardinality(OpsOf(b)) =< Cardinality({promise[b]})
  BY <1>1, FS_Singleton, FS_Subset
<1>3. Cardinality({promise[b]}) = 1
  BY FS_Singleton
<1>4. Cardinality(OpsOf(b)) \in Nat
  BY <1>1, FS_Singleton, FS_Subset, FS_CardinalityType
<1>5. QED BY <1>2, <1>3, <1>4

-----------------------------------------------------------------------------
(* Logout.  A tab that logs in does nothing else, and holds no tokens.      *)
LoginsAlone ==
  \A c \in Calls : Live(c) /\ call[c].kind = "login" =>
    /\ mem[call[c].tab] = None
    /\ \A d \in Calls : /\ Live(d) /\ call[d].tab = call[c].tab => d = c
                        /\ Pending(d) => op[d].tab # call[c].tab

(* While a refresh is pending, every call of its tab has met it.            *)
RefreshesCross ==
  \A c, d \in Calls :
    Pending(c) /\ Live(d) /\ call[d].tab = op[c].tab => call[d].crossed

(* A logout that has met none names the token that its tab still holds.     *)
LogoutsNameMemory ==
  \A c \in Calls :
    Live(c) /\ call[c].kind = "logout" /\ ~call[c].crossed => 
      mem[call[c].tab] \in {None, call[c].body}

Apart == LoginsAlone /\ RefreshesCross /\ LogoutsNameMemory

LEMMA ApartStep == TypeInv /\ Shared /\ Apart /\ Steps => Apart'
<1> SUFFICES ASSUME TypeInv, Shared, Apart, Steps PROVE Apart'
  OBVIOUS
<1>0. TypeOK
  BY DEF TypeInv
<1> DEFINE Parts == LoginsAlone /\ RefreshesCross /\ LogoutsNameMemory
<1>i. Parts
  BY DEF Apart
<1>q. SUFFICES Parts'
  BY DEF Apart
\* No call or refresh is new, no call changes, memories only lose tokens.
<1>1. ASSUME \A c \in Calls :
               /\ Live(c)' => /\ Live(c) /\ call'[c].kind = call[c].kind
                              /\ call'[c].tab = call[c].tab
                              /\ call'[c].crossed = call[c].crossed
                              /\ call'[c].body = call[c].body
                              /\ mem'[call[c].tab] \in {mem[call[c].tab], None}
               /\ Pending(c)' => Pending(c) /\ op'[c].tab = op[c].tab
      PROVE  Parts'
  <2>1. LoginsAlone'
    BY <1>i, <1>1 DEF LoginsAlone
  <2>2. RefreshesCross'
    BY <1>i, <1>1 DEF RefreshesCross
  <2>3. LogoutsNameMemory'
    BY <1>i, <1>1 DEF LogoutsNameMemory
  <2>4. QED BY <2>1, <2>2, <2>3
<1>2. ASSUME NEW c \in Calls, NEW b \in Tabs, Sends(c, b) PROVE Parts'
  <2>1. /\ UNCHANGED <<mem, op>> /\ ~Live(c) /\ ~Pending(c)
        /\ \A d \in Calls \ {c} : call'[d] = call[d]
        /\ call'[c] # NoCall /\ call'[c].tab = b
        /\ call'[c].crossed = (OpsOf(b) # {})
        /\ \/ call'[c].kind = "api" /\ mem[b] # None
           \/ call'[c].kind = "logout" /\ mem[b] # None /\ call'[c].body = mem[b]
           \/ /\ call'[c].kind = "login" /\ mem[b] = None
              /\ CallsOf(b) = {} /\ OpsOf(b) = {}
    BY <1>2, SendEffect DEF Free, Live, Pending
  <2>2. LoginsAlone'
    <3> SUFFICES ASSUME NEW e \in Calls, Live(e)', call'[e].kind = "login"
                 PROVE  /\ mem[call'[e].tab] = None
                        /\ \A d \in Calls :
                             /\ Live(d)' /\ call'[d].tab = call'[e].tab => d = e
                             /\ Pending(d) => op[d].tab # call'[e].tab
      BY <2>1 DEF LoginsAlone, Pending
    <3>1. CASE e = c
      BY <2>1, <3>1 DEF CallsOf, OpsOf, Live, Pending
    <3>2. CASE e # c
      <4>1. Live(e) /\ call'[e] = call[e]
        BY <2>1, <3>2 DEF Live
      <4>2. mem[call[e].tab] = None /\ call[e].kind = "login"
        BY <1>i, <4>1 DEF LoginsAlone
      <4>3. call[e].tab # b
        BY <2>1, <4>1, <4>2 DEF CallsOf, Live
      <4>4. \A d \in Calls : Pending(d) => op[d].tab # call'[e].tab
        BY <1>i, <4>1, <4>2 DEF LoginsAlone
      <4>5. ASSUME NEW d \in Calls, Live(d)', call'[d].tab = call'[e].tab PROVE d = e
        <5>1. d # c
          BY <2>1, <4>1, <4>3, <4>5
        <5>2. Live(d) /\ call'[d] = call[d]
          BY <2>1, <4>5, <5>1 DEF Live
        <5>3. QED BY <1>i, <4>1, <4>2, <4>5, <5>2 DEF LoginsAlone
      <4>6. QED BY <4>1, <4>2, <4>4, <4>5
    <3>3. QED BY <3>1, <3>2
  <2>3. RefreshesCross'
    BY <1>i, <2>1 DEF RefreshesCross, OpsOf, Live, Pending
  <2>4. LogoutsNameMemory'
    BY <1>i, <2>1 DEF LogoutsNameMemory, Live
  <2>5. QED BY <2>2, <2>3, <2>4
<1>3. ASSUME NEW c \in Calls, EndsCall(c) PROVE Parts'
  <2>1. call[c].tab \in Tabs
    BY <1>0, <1>3, CallFields DEF EndsCall
  <2>2. \A d \in Calls : Live(d)' => Live(d) /\ call'[d] = call[d]
    BY <1>3, <2>1, FinishEffect DEF EndsCall
  <2>3. \A a \in Tabs : mem'[a] \in {mem[a], None}
    BY <1>0, <1>3 DEF EndsCall, TypeOK
  <2>4. \A d \in Calls : Live(d) => call[d].tab \in Tabs
    BY <1>0, CallFields
  <2>5. QED BY <1>1, <1>3, <2>2, <2>3, <2>4 DEF EndsCall, Pending
<1>4. ASSUME NEW c \in Calls, LoginAnswered(c) PROVE Parts'
  <2> DEFINE b == call[c].tab
  <2>1. /\ Live(c) /\ call[c].kind = "login" /\ b \in Tabs /\ op' = op
        /\ mem' = [mem EXCEPT ![b] = call[c].body] /\ call' = [call EXCEPT ![c] = NoCall]
    BY <1>0, <1>4, CallFields DEF LoginAnswered, Live
  <2>2. \A d \in Calls : Live(d)' => /\ Live(d) /\ call'[d] = call[d] /\ d # c
                                     /\ call[d].tab \in Tabs /\ call[d].tab # b
    BY <1>0, <1>i, <2>1, CallFields DEF LoginsAlone, Live, TypeOK
  <2>3. QED BY <1>0, <1>1, <2>1, <2>2 DEF Pending, TypeOK
<1>5. ASSUME NEW c \in Calls, ServedAlone(c) PROVE Parts'
  BY <1>1, <1>5
  DEF ServedAlone, LogoutServed, ServedToNobody, HandlerFails, client, Live, Pending
<1>6. ASSUME NEW c \in Calls, NEW t \in Tokens, LoginServed(c, t) PROVE Parts'
  <2>1. call' = call \/ call' = [call EXCEPT ![c] = [call[c] EXCEPT !.body = t]]
    BY <1>6 DEF LoginServed
  <2>2. call[c] \in Call /\ Live(c) /\ call[c].kind = "login"
    BY <1>0, <1>6, CallFields DEF LoginServed, Live
  <2>3. \A d \in Calls :
          Live(d)' => /\ Live(d) /\ call'[d].kind = call[d].kind
                      /\ call'[d].tab = call[d].tab /\ call'[d].crossed = call[d].crossed
                      /\ d # c => call'[d] = call[d]
    BY <1>0, <2>1, <2>2 DEF Call, Live, TypeOK
  <2>4. UNCHANGED <<mem, op>>
    BY <1>6 DEF LoginServed
  <2>5. LoginsAlone' /\ RefreshesCross'
    BY <1>i, <2>3, <2>4 DEF LoginsAlone, RefreshesCross, Pending
  <2>6. LogoutsNameMemory'
    BY <1>i, <2>2, <2>3, <2>4 DEF LogoutsNameMemory
  <2>7. QED BY <2>5, <2>6
<1>7. ASSUME NEW c \in Calls, NEW t \in Tokens, RefreshServed(c, t) PROVE Parts'
  <2>1. /\ UNCHANGED <<mem, call>>
        /\ \A d \in Calls : Pending(d)' => Pending(d) /\ op'[d].tab = op[d].tab
    BY <1>7, ServedEffect DEF Pending
  <2>2. QED BY <1>1, <2>1 DEF Live
<1>8. ASSUME NEW c \in Calls, Unauthorized(c) PROVE Parts'
  <2> DEFINE b == call[c].tab
  <2>1. /\ Live(c) /\ b \in Tabs /\ call[c].kind # "login" /\ mem[b] # None
        /\ mem' = mem
        /\ \A d \in Calls :
             /\ Live(d)' <=> Live(d)
             /\ Live(d) => /\ call'[d].kind = call[d].kind
                           /\ call'[d].tab = call[d].tab
                           /\ call'[d].body = call[d].body
                           /\ call[d].tab = b => call'[d].crossed
                           /\ call[d].tab # b => call'[d].crossed = call[d].crossed
        /\ \/ op' = op
           \/ op' = [op EXCEPT ![c] = [tab |-> b, tok |-> mem[b], new |-> None]]
    BY <1>8, UnauthorizedEffect
  <2>2. \A d \in Calls :
          Pending(d)' => \/ Pending(d) /\ op'[d].tab = op[d].tab
                         \/ op'[d].tab = b
    BY <1>0, <2>1 DEF Pending, TypeOK
  <2>3. LoginsAlone'
    <3> SUFFICES ASSUME NEW e \in Calls, Live(e)', call'[e].kind = "login"
                 PROVE  /\ mem[call'[e].tab] = None
                        /\ \A d \in Calls :
                             /\ Live(d)' /\ call'[d].tab = call'[e].tab => d = e
                             /\ Pending(d)' => op'[d].tab # call'[e].tab
      BY <2>1 DEF LoginsAlone, Pending
    <3>1. Live(e) /\ call[e].kind = "login" /\ call'[e].tab = call[e].tab
      BY <2>1
    <3>2. mem[call[e].tab] = None
      BY <1>i, <3>1 DEF LoginsAlone
    <3>3. call[e].tab # b
      BY <2>1, <3>2
    <3>4. QED BY <1>i, <2>1, <2>2, <3>1, <3>2, <3>3 DEF LoginsAlone
  <2>4. RefreshesCross'
    <3> SUFFICES ASSUME NEW e \in Calls, NEW d \in Calls, Pending(e)', Live(d)',
                        call'[d].tab = op'[e].tab
                 PROVE  call'[d].crossed
      BY DEF RefreshesCross, Pending
    <3>1. Live(d) /\ call'[d].tab = call[d].tab
      BY <2>1
    <3>2. CASE call[d].tab = b
      BY <2>1, <3>1, <3>2
    <3>3. CASE call[d].tab # b
      <4>1. Pending(e) /\ op[e].tab = call[d].tab
        BY <2>2, <3>1, <3>3
      <4>2. QED BY <1>i, <2>1, <3>1, <3>3, <4>1 DEF RefreshesCross
    <3>4. QED BY <3>2, <3>3
  <2>5. LogoutsNameMemory'
    BY <1>i, <2>1 DEF LogoutsNameMemory
  <2>6. QED BY <2>3, <2>4, <2>5
<1>9. ASSUME NEW c \in Calls, RefreshAnswered(c) PROVE Parts'
  <2> DEFINE b == op[c].tab
  <2>1. /\ Pending(c) /\ b \in Tabs
        /\ \A d \in Calls :
             /\ Live(d)' <=> Live(d)
             /\ Live(d) => /\ call'[d].kind = call[d].kind
                           /\ call'[d].tab = call[d].tab
                           /\ call'[d].body = call[d].body
                           /\ call'[d].crossed = call[d].crossed
        /\ op' = [op EXCEPT ![c] = NoCall]
        /\ mem' = [mem EXCEPT ![b] = op[c].new]
    BY <1>9, AnsweredEffect
  <2>2. \A d \in Calls : Pending(d)' => Pending(d) /\ op'[d] = op[d]
    BY <1>0, <2>1 DEF Pending, TypeOK
  <2>3. \A a \in Tabs \ {b} : mem'[a] = mem[a]
    BY <1>0, <2>1 DEF TypeOK
  <2>4. \A d \in Calls : Live(d) => call[d].tab \in Tabs
    BY <1>0, CallFields
  <2>5. LoginsAlone'
    BY <1>i, <2>1, <2>2, <2>3, <2>4 DEF LoginsAlone
  <2>6. RefreshesCross'
    BY <1>i, <2>1, <2>2 DEF RefreshesCross
  <2>7. \A d \in Calls : Live(d) /\ call[d].tab = b => call[d].crossed
    BY <1>i, <2>1 DEF RefreshesCross
  <2>8. LogoutsNameMemory'
    BY <1>i, <2>1, <2>3, <2>4, <2>7 DEF LogoutsNameMemory
  <2>9. QED BY <2>5, <2>6, <2>8
<1>10. ASSUME NEW c \in Calls, Rejected(c) PROVE Parts'
  <2>1. /\ op[c].tab \in Tabs /\ Waiters(c) \in SUBSET Calls
        /\ Finish(op[c].tab, Waiters(c))
        /\ op' = [op EXCEPT ![c] = NoCall] /\ mem' = [mem EXCEPT ![op[c].tab] = None]
    BY <1>0, <1>10, OpFields DEF Rejected, RefreshRejected, SignOut, Waiters
  <2>2. \A d \in Calls : Live(d)' => Live(d) /\ call'[d] = call[d]
    BY <2>1, FinishEffect
  <2>3. \A d \in Calls : Pending(d)' => Pending(d) /\ op'[d] = op[d]
    BY <1>0, <2>1 DEF Pending, TypeOK
  <2>4. \A a \in Tabs : mem'[a] \in {mem[a], None}
    BY <1>0, <2>1 DEF TypeOK
  <2>5. \A d \in Calls : Live(d) => call[d].tab \in Tabs
    BY <1>0, CallFields
  <2>6. QED BY <1>1, <2>2, <2>3, <2>4, <2>5
<1>11. ASSUME NEW b \in Tabs, Navigate(b) PROVE Parts'
  <2>1. \A c \in Calls :
          /\ Live(c)' => /\ Live(c) /\ call[c].tab # b /\ call'[c] = call[c]
                         /\ call[c].tab \in Tabs
          /\ Pending(c)' => Pending(c) /\ op'[c] = op[c]
    BY <1>0, <1>11, CallFields DEF Navigate, CallsOf, OpsOf, Live, Pending
  <2>2. \A a \in Tabs \ {b} : mem'[a] = mem[a]
    BY <1>0, <1>11 DEF Navigate, TypeOK
  <2>3. QED BY <1>1, <2>1, <2>2
<1>12. ASSUME NEW t \in Tokens, AccessExpires(t) PROVE Parts'
  BY <1>1, <1>12 DEF AccessExpires, Live, Pending
<1>13. CASE UNCHANGED vars
  BY <1>1, <1>13 DEF vars, client, Live, Pending
<1>14. QED
  BY <1>2, <1>3, <1>4, <1>5, <1>6, <1>7, <1>8, <1>9, <1>10, <1>11, <1>12, <1>13
  DEF Steps

(* A revoked token stays revoked.                                           *)
LEMMA UsedStays ==
  ASSUME TypeOK, ServerStep, NEW u \in Tokens, rt[u] = "used"
  PROVE  rt'[u] = "used"
<1>1. ASSUME NEW q \in Calls, S!LogoutCommits(q) PROVE rt'[u] = "used"
  BY <1>1 DEF S!LogoutCommits, TypeOK, S!TypeOK
<1>2. ASSUME NEW q \in Calls, NEW t \in Tokens,
             S!LoginCommits(q, t) \/ S!RefreshCommits(q, t)
      PROVE  rt'[u] = "used"
  <2>1. u # t
    BY <1>2 DEF S!LoginCommits, S!RefreshCommits
  <2>2. QED BY <1>2, <2>1 DEF S!LoginCommits, S!RefreshCommits, TypeOK, S!TypeOK
<1>3. CASE rt' = rt
  BY <1>3
<1>4. QED
  BY <1>1, <1>2, <1>3 DEF ServerStep, server, S!LoginReads, S!RequestFails, S!LogoutReads,
     S!RefreshReads, S!RefreshReadsIf

LeftRevoked == \A t \in left : rt[t] = "used"

LEMMA LeftRevokedStep ==
  TypeInv /\ LogoutsServed /\ Apart /\ LeftRevoked /\ [Next]_vars => LeftRevoked'
<1> SUFFICES ASSUME TypeInv, LogoutsServed, Apart, LeftRevoked, [Next]_vars,
                    NEW t \in left'
             PROVE  rt'[t] = "used"
  BY DEF LeftRevoked
<1>0. TypeOK /\ ServerStep
  BY ServerSteps DEF TypeInv
<1>1. CASE t \in left
  BY <1>0, <1>1, UsedStays DEF LeftRevoked, TypeOK
<1>2. ASSUME NEW c \in Calls, LogoutAnswered(c), t \notin left PROVE rt'[t] = "used"
  <2>1. /\ S!LogoutCommits(c) /\ Live(c) /\ call[c].kind = "logout"
        /\ ~call[c].crossed /\ mem[call[c].tab] # None /\ t = mem[call[c].tab]
    BY <1>2 DEF LogoutAnswered, Forget, Live
  <2>2. req[c].tok = call[c].body
    BY <2>1 DEF LogoutsServed, S!LogoutCommits
  <2>3. t = req[c].tok
    BY <2>1, <2>2 DEF Apart, LogoutsNameMemory
  <2>4. QED BY <1>0, <1>2, <2>1, <2>3, HandlerKind DEF S!LogoutCommits, TypeOK, S!TypeOK
<1>3. CASE left' = left
  BY <1>1, <1>3
<1>4. (\E c \in Calls : LogoutAnswered(c)) \/ left' = left
  BY NextSteps, SendEffect, UnauthorizedEffect, AnsweredEffect, ServedEffect
  DEF Steps, LoginAnswered, ServedAlone, LogoutServed, ServedToNobody, HandlerFails,
      LoginServed, Rejected, RefreshRejected, Navigate, AccessExpires, vars, client
<1>5. QED BY <1>1, <1>2, <1>3, <1>4

-----------------------------------------------------------------------------
(* Who knows a token.  The answer that brings it is the first to do so.     *)
Handled(q, t) == req[q].kind \in {"refresh", "logout"} /\ req[q].tok = t

Heard(t) ==
  \/ \E b \in Tabs : mem[b] = t
  \/ store = t
  \/ \E c \in Calls : Pending(c) /\ op[c].tok = t
  \/ \E c \in Calls : Live(c) /\ call[c].kind = "logout" /\ call[c].body = t
  \/ \E q \in Calls : Handled(q, t)

Granted(c, t) ==
  \/ Pending(c) /\ op[c].new = t
  \/ Live(c) /\ call[c].kind = "login" /\ call[c].body = t

AbsentUnknown ==
  \A t \in Tokens :
    rt[t] = "absent" => ~Heard(t) /\ \A c \in Calls : ~Granted(c, t)

GrantsSecret ==
  \A t \in Tokens, c \in Calls : Granted(c, t) =>
    /\ rt[t] = "unused" /\ ~Heard(t)
    /\ \A d \in Calls : Granted(d, t) => d = c

Secret == AbsentUnknown /\ GrantsSecret

LEMMA SecretKept ==
  ASSUME Secret,
         \A t \in Tokens : Heard(t)' => Heard(t),
         \A t \in Tokens, c \in Calls : Granted(c, t)' => Granted(c, t),
         \A t \in Tokens : rt'[t] = "absent" => rt[t] = "absent",
         \A t \in Tokens : rt[t] = "unused" /\ ~Heard(t) => rt'[t] = "unused"
  PROVE  Secret'
<1>1. AbsentUnknown'
  BY DEF Secret, AbsentUnknown
<1>2. GrantsSecret'
  BY DEF Secret, GrantsSecret
<1>3. QED BY <1>1, <1>2 DEF Secret

(* A logout revokes a token that its handler has heard of.                  *)
LEMMA LogoutRevokes ==
  ASSUME TypeOK, NEW q \in Calls, S!LogoutCommits(q)
  PROVE  /\ req[q].tok \in Tokens /\ Heard(req[q].tok)
         /\ rt' = [rt EXCEPT ![req[q].tok] = "used"]
         /\ \A t \in Tokens : rt'[t] = "absent" => rt[t] = "absent"
         /\ \A t \in Tokens : rt[t] = "unused" /\ ~Heard(t) => rt'[t] = "unused"
<1>1. req[q].tok \in Tokens /\ Heard(req[q].tok)
  BY HandlerKind DEF S!LogoutCommits, S!Is, Heard, Handled
<1>2. rt' = [rt EXCEPT ![req[q].tok] = "used"]
  BY DEF S!LogoutCommits
<1>3. QED BY <1>1, <1>2 DEF TypeOK, S!TypeOK

(* A handler that is over, or reads no token, hears of none.                *)
LEMMA HandledShrinks ==
  ASSUME TypeOK, NEW q \in Calls, NEW t,
         \/ S!LoginReads(q) \/ S!LogoutCommits(q) \/ S!RequestFails(q)
         \/ S!LoginCommits(q, t) \/ S!RefreshCommits(q, t)
  PROVE  \A p \in Calls, u \in Tokens : Handled(p, u)' => Handled(p, u)
<1> SUFFICES ASSUME NEW p \in Calls, NEW u \in Tokens, Handled(p, u)'
             PROVE  Handled(p, u)
  OBVIOUS
<1>1. CASE p = q
  BY <1>1, OwnHandler DEF Handled
<1>2. CASE p # q
  BY <1>2, OthersKept DEF Handled
<1>3. QED BY <1>1, <1>2

LEMMA SecretStep == TypeInv /\ LogoutsServed /\ Shared /\ Secret /\ Steps => Secret'
<1> SUFFICES ASSUME TypeInv, LogoutsServed, Shared, Secret, Steps PROVE Secret'
  OBVIOUS
<1>0. TypeOK /\ None \notin Tokens
  BY NoneAssumption DEF TypeInv
<1>n. \A t \in Tokens : t # None
  BY <1>0
\* Only the server moves: nobody hears of a token, and none is granted.
<1>1. ASSUME UNCHANGED <<mem, store, op, call>>,
             \A q \in Calls, t \in Tokens : Handled(q, t)' => Heard(t)
      PROVE  /\ \A t \in Tokens : Heard(t)' => Heard(t)
             /\ \A t \in Tokens, c \in Calls : Granted(c, t)' => Granted(c, t)
  BY <1>1 DEF Heard, Granted, Live, Pending
\* The server rests, and no tab, call or refresh holds what none has held.
<1>2. ASSUME UNCHANGED server,
             \A b \in Tabs : mem'[b] \in {mem[b], store, None},
             store' \in {store, None},
             \A c \in Calls : Pending(c)' => /\ Pending(c)
                                             /\ op'[c].tok = op[c].tok
                                             /\ op'[c].new = op[c].new,
             \A c \in Calls : Live(c)' =>
               /\ Live(c) /\ call'[c].kind = call[c].kind /\ call'[c].body = call[c].body
      PROVE  Secret'
  <2>1. \A t \in Tokens : Heard(t)' => Heard(t)
    BY <1>2, <1>n DEF Heard, Handled, server
  <2>2. \A t \in Tokens, c \in Calls : Granted(c, t)' => Granted(c, t)
    BY <1>2 DEF Granted
  <2>3. QED BY <1>2, <2>1, <2>2, SecretKept DEF server
<1>3. ASSUME NEW c \in Calls, NEW b \in Tabs, Sends(c, b) PROVE Secret'
  <2>1. /\ UNCHANGED <<server, mem, store, op>>
        /\ \A d \in Calls \ {c} : call'[d] = call[d]
        /\ \/ call'[c].kind = "api"
           \/ call'[c].kind = "logout" /\ call'[c].body = mem[b]
           \/ call'[c].kind = "login" /\ call'[c].body = None
    BY <1>3, SendEffect
  <2>2. \A t \in Tokens : Heard(t)' => Heard(t)
    BY <2>1 DEF Heard, Handled, server, Live, Pending
  <2>3. \A t \in Tokens, d \in Calls : Granted(d, t)' => Granted(d, t)
    BY <1>n, <2>1 DEF Granted, Live, Pending
  <2>4. QED BY <2>1, <2>2, <2>3, SecretKept DEF server
<1>4. ASSUME NEW c \in Calls, EndsCall(c)
      PROVE  /\ \A b \in Tabs : mem'[b] \in {mem[b], store, None}
             /\ store' \in {store, None} /\ op' = op
             /\ \A d \in Calls : Live(d)' => Live(d) /\ call'[d] = call[d]
  <2>1. call[c].tab \in Tabs
    BY <1>0, <1>4, CallFields DEF EndsCall
  <2>2. \A d \in Calls : Live(d)' => Live(d) /\ call'[d] = call[d]
    BY <1>4, <2>1, FinishEffect DEF EndsCall
  <2>3. QED BY <1>0, <1>4, <2>2 DEF EndsCall, TypeOK
<1>5. ASSUME NEW c \in Calls, EndsCall(c), UNCHANGED server PROVE Secret'
  BY <1>2, <1>4, <1>5 DEF Pending
<1>6. ASSUME NEW c \in Calls, LogoutAnswered(c), EndsCall(c) PROVE Secret'
  <2>1. S!LogoutCommits(c)
    BY <1>6 DEF LogoutAnswered
  <2>2. \A t \in Tokens : Heard(t)' => Heard(t)
    BY <1>0, <1>4, <1>6, <1>n, <2>1, HandledShrinks DEF Heard, Pending
  <2>3. \A t \in Tokens, d \in Calls : Granted(d, t)' => Granted(d, t)
    BY <1>4, <1>6 DEF Granted, Pending
  <2>4. QED BY <1>0, <2>1, <2>2, <2>3, LogoutRevokes, SecretKept
<1>7. ASSUME NEW c \in Calls, LoginAnswered(c) PROVE Secret'
  <2> DEFINE n == call[c].body
  <2>1. /\ Live(c) /\ call[c].kind = "login" /\ n \in Tokens /\ call[c].tab \in Tabs
        /\ mem' = [mem EXCEPT ![call[c].tab] = n] /\ store' = n
        /\ call' = [call EXCEPT ![c] = NoCall] /\ UNCHANGED <<server, op>>
    BY <1>0, <1>7, CallFields DEF LoginAnswered, Live
  <2>2. /\ Granted(c, n) /\ ~Pending(c)
        /\ ~Live(c)' /\ \A d \in Calls \ {c} : call'[d] = call[d]
        /\ \A b \in Tabs : mem'[b] \in {mem[b], n}
    BY <1>0, <2>1 DEF Granted, Shared, OpsAwaited, LoginsSent, Live, TypeOK
  <2>3. \A t \in Tokens : Heard(t)' => Heard(t) \/ t = n
    BY <2>1, <2>2 DEF Heard, Handled, server, Live, Pending
  <2>4. \A t \in Tokens, d \in Calls : Granted(d, t)' => Granted(d, t) /\ d # c
    BY <2>1, <2>2 DEF Granted, Live, Pending
  <2>5. rt' = rt /\ rt[n] = "unused" /\ \A d \in Calls : Granted(d, n) => d = c
    BY <2>1, <2>2 DEF Secret, GrantsSecret, server
  <2>6. AbsentUnknown'
    BY <2>1, <2>3, <2>4, <2>5 DEF Secret, AbsentUnknown
  <2>7. GrantsSecret'
    BY <2>1, <2>3, <2>4, <2>5 DEF Secret, GrantsSecret
  <2>8. QED BY <2>6, <2>7 DEF Secret
<1>8. ASSUME NEW c \in Calls, LogoutServed(c) PROVE Secret'
  <2>1. /\ S!LogoutReads(c, call[c].body) /\ UNCHANGED client
        /\ Live(c) /\ call[c].kind = "logout"
    BY <1>8 DEF LogoutServed, Live
  <2>2. \A q \in Calls, t \in Tokens : Handled(q, t)' => Heard(t)
    <3> SUFFICES ASSUME NEW q \in Calls, NEW t \in Tokens, Handled(q, t)'
                 PROVE  Heard(t)
      OBVIOUS
    <3>1. CASE q = c
      BY <1>0, <2>1, <3>1, OwnHandler DEF Handled, Heard
    <3>2. CASE q # c
      BY <1>0, <2>1, <3>2, OthersKept DEF Handled, Heard
    <3>3. QED BY <3>1, <3>2
  <2>3. rt' = rt
    BY <2>1 DEF S!LogoutReads
  <2>4. QED BY <1>1, <2>1, <2>2, <2>3, SecretKept DEF client
<1>9. ASSUME NEW c \in Calls, ServedToNobody(c) \/ HandlerFails(c) PROVE Secret'
  <2>1. (S!LogoutCommits(c) \/ S!RequestFails(c)) /\ UNCHANGED client
    BY <1>9 DEF ServedToNobody, HandlerFails
  <2>2. \A q \in Calls, t \in Tokens : Handled(q, t)' => Heard(t)
    BY <1>0, <2>1, HandledShrinks DEF Heard
  <2>3. CASE S!LogoutCommits(c)
    BY <1>0, <1>1, <2>1, <2>2, <2>3, LogoutRevokes, SecretKept DEF client
  <2>4. CASE S!RequestFails(c)
    <3>1. rt' = rt
      BY <2>4 DEF S!RequestFails
    <3>2. QED BY <1>1, <2>1, <2>2, <3>1, SecretKept DEF client
  <2>5. QED BY <2>1, <2>3, <2>4
<1>10. ASSUME NEW c \in Calls, NEW n \in Tokens, LoginServed(c, n) PROVE Secret'
  <2>1. /\ UNCHANGED <<mem, store, op>> /\ Live(c)
        /\ call[c].kind = "login" /\ call[c] \in Call
    BY <1>0, <1>10, CallFields DEF LoginServed, Live
  <2>2. CASE S!LoginReads(c) /\ call' = call
    <3>1. rt' = rt
      BY <2>2 DEF S!LoginReads
    <3>2. \A q \in Calls, t \in Tokens : Handled(q, t)' => Heard(t)
      BY <1>0, <2>2, HandledShrinks DEF Heard
    <3>3. QED BY <1>1, <2>1, <2>2, <3>1, <3>2, SecretKept
  <2>3. CASE S!LoginCommits(c, n) /\ call' = [call EXCEPT ![c].body = n]
    <3>1. /\ rt[n] = "absent" /\ rt' = [rt EXCEPT ![n] = "unused"]
          /\ ~Heard(n) /\ \A d \in Calls : ~Granted(d, n)
      BY <2>3 DEF S!LoginCommits, Secret, AbsentUnknown
    <3>2. call'[c] = [call[c] EXCEPT !.body = n]
          /\ \A d \in Calls \ {c} : call'[d] = call[d]
      BY <1>0, <2>3 DEF TypeOK
    <3>3. call'[c].kind = "login" /\ call'[c].body = n
      BY <2>1, <3>2 DEF Call
    <3>4. \A t \in Tokens : Heard(t)' => Heard(t)
      BY <1>0, <2>1, <2>3, <3>2, <3>3, HandledShrinks DEF Heard, Live, Pending
    <3>5. \A t \in Tokens, d \in Calls :
            Granted(d, t)' => Granted(d, t) \/ (d = c /\ t = n)
      BY <2>1, <3>2, <3>3 DEF Granted, Live, Pending
    <3>6. \A t \in Tokens : rt'[t] = IF t = n THEN "unused" ELSE rt[t]
      BY <1>0, <3>1 DEF TypeOK, S!TypeOK
    <3>7. AbsentUnknown'
      BY <3>1, <3>4, <3>5, <3>6 DEF Secret, AbsentUnknown
    <3>8. GrantsSecret'
      BY <3>1, <3>4, <3>5, <3>6 DEF Secret, GrantsSecret
    <3>9. QED BY <3>7, <3>8 DEF Secret
  <2>4. QED BY <1>10, <2>2, <2>3 DEF LoginServed
<1>11. ASSUME NEW c \in Calls, NEW n \in Tokens, RefreshServed(c, n) PROVE Secret'
  <2>1. /\ UNCHANGED <<mem, store, call>>
        /\ \A d \in Calls : d # c => op'[d] = op[d]
        /\ Pending(c)' <=> Pending(c)
        /\ Pending(c) => op'[c].tok = op[c].tok
    BY <1>11, ServedEffect
  <2>2. CASE S!RefreshReads(c, op[c].tok) /\ Pending(c) /\ op' = op
    <3>1. rt' = rt
      BY <2>2 DEF S!RefreshReads, S!RefreshReadsIf
    <3>2. \A q \in Calls, t \in Tokens : Handled(q, t)' => Heard(t)
      <4> SUFFICES ASSUME NEW q \in Calls, NEW t \in Tokens, Handled(q, t)'
                   PROVE  Heard(t)
        OBVIOUS
      <4>1. CASE q = c
        BY <1>0, <2>2, <4>1, OwnHandler DEF Handled, Heard
      <4>2. CASE q # c
        BY <1>0, <2>2, <4>2, OthersKept DEF Handled, Heard
      <4>3. QED BY <4>1, <4>2
    <3>3. QED BY <1>1, <2>1, <2>2, <3>1, <3>2, SecretKept
  <2>3. CASE S!RefreshCommits(c, n) /\ (Pending(c) => op'[c].new = n)
    <3> DEFINE t == req[c].tok
    <3>1. /\ rt[n] = "absent" /\ rt' = [rt EXCEPT ![t] = "used", ![n] = "unused"]
          /\ ~Heard(n) /\ \A d \in Calls : ~Granted(d, n)
      BY <2>3 DEF S!RefreshCommits, Secret, AbsentUnknown
    <3>2. t \in Tokens /\ Heard(t)
      BY <1>0, <2>3, HandlerKind DEF S!RefreshCommits, S!Is, Heard, Handled
    <3>3. t # n
      BY <3>1, <3>2
    <3>4. \A u \in Tokens : Heard(u)' => Heard(u)
      BY <1>0, <2>1, <2>3, HandledShrinks DEF Heard, Live, Pending
    <3>5. \A u \in Tokens, d \in Calls :
            Granted(d, u)' => Granted(d, u) \/ (d = c /\ u = n)
      BY <2>1, <2>3 DEF Granted, Live, Pending
    <3>6. \A u \in Tokens :
            rt'[u] = IF u = n THEN "unused" ELSE IF u = t THEN "used" ELSE rt[u]
      BY <1>0, <3>1, <3>2 DEF TypeOK, S!TypeOK
    <3> HIDE DEF t
    <3>7. AbsentUnknown'
      BY <3>1, <3>4, <3>5, <3>6 DEF Secret, AbsentUnknown
    <3>8. GrantsSecret'
      <4> SUFFICES ASSUME NEW u \in Tokens, NEW d \in Calls, Granted(d, u)'
                   PROVE  /\ rt'[u] = "unused" /\ ~Heard(u)'
                          /\ \A e \in Calls : Granted(e, u)' => e = d
        BY DEF GrantsSecret
      <4>1. CASE u = n
        BY <3>1, <3>4, <3>5, <3>6, <4>1
      <4>2. CASE u # n
        <5>1. Granted(d, u) /\ rt[u] = "unused" /\ ~Heard(u)
          BY <3>5, <4>2 DEF Secret, GrantsSecret
        <5>2. u # t
          BY <3>2, <5>1
        <5>3. QED BY <3>4, <3>5, <3>6, <4>2, <5>1, <5>2 DEF Secret, GrantsSecret
      <4>3. QED BY <4>1, <4>2
    <3>9. QED BY <3>7, <3>8 DEF Secret
  <2>4. QED BY <1>11, <2>2, <2>3, ServedEffect
<1>12. ASSUME NEW c \in Calls, Unauthorized(c) PROVE Secret'
  <2> DEFINE b == call[c].tab
  <2>1. /\ UNCHANGED <<server, mem, store>> /\ b \in Tabs
        /\ \A d \in Calls :
             /\ Live(d)' <=> Live(d)
             /\ Live(d) => call'[d].kind = call[d].kind /\ call'[d].body = call[d].body
        /\ \/ op' = op
           \/ op' = [op EXCEPT ![c] = [tab |-> b, tok |-> mem[b], new |-> None]]
    BY <1>12, UnauthorizedEffect
  <2>2. \A d \in Calls : \/ op'[d] = op[d]
                         \/ op'[d].tok = mem[b] /\ op'[d].new = None
    BY <1>0, <2>1 DEF TypeOK
  <2>3. \A t \in Tokens : Heard(t)' => Heard(t)
    BY <2>1, <2>2 DEF Heard, Handled, server, Pending
  <2>4. \A t \in Tokens, d \in Calls : Granted(d, t)' => Granted(d, t)
    BY <1>n, <2>1, <2>2 DEF Granted, Pending
  <2>5. QED BY <2>1, <2>3, <2>4, SecretKept DEF server
<1>13. ASSUME NEW c \in Calls, RefreshAnswered(c) PROVE Secret'
  <2> DEFINE n == op[c].new
  <2>1. /\ Pending(c) /\ op[c].tab \in Tabs /\ n \in Tokens
        /\ mem' = [mem EXCEPT ![op[c].tab] = n] /\ store' = n
        /\ op' = [op EXCEPT ![c] = NoCall] /\ UNCHANGED server
        /\ \A d \in Calls :
             /\ Live(d)' <=> Live(d)
             /\ Live(d) => call'[d].kind = call[d].kind /\ call'[d].body = call[d].body
    BY <1>13, AnsweredEffect
  <2>2. /\ Granted(c, n) /\ call[c].kind # "login" /\ Live(c)
        /\ ~Pending(c)' /\ \A d \in Calls \ {c} : op'[d] = op[d]
        /\ \A b \in Tabs : mem'[b] \in {mem[b], n}
    BY <1>0, <2>1 DEF Granted, Shared, OpsAwaited, LoginsSent, Pending, TypeOK
  <2>3. \A t \in Tokens : Heard(t)' => Heard(t) \/ t = n
    BY <2>1, <2>2 DEF Heard, Handled, server, Pending
  <2>4. \A t \in Tokens, d \in Calls : Granted(d, t)' => Granted(d, t) /\ d # c
    BY <2>1, <2>2 DEF Granted, Pending
  <2>5. rt' = rt /\ rt[n] = "unused" /\ \A d \in Calls : Granted(d, n) => d = c
    BY <2>1, <2>2 DEF Secret, GrantsSecret, server
  <2>6. AbsentUnknown'
    BY <2>1, <2>3, <2>4, <2>5 DEF Secret, AbsentUnknown
  <2>7. GrantsSecret'
    BY <2>1, <2>3, <2>4, <2>5 DEF Secret, GrantsSecret
  <2>8. QED BY <2>6, <2>7 DEF Secret
<1>14. ASSUME NEW c \in Calls, Rejected(c) PROVE Secret'
  <2>1. /\ op[c].tab \in Tabs /\ Waiters(c) \in SUBSET Calls /\ UNCHANGED server
        /\ Finish(op[c].tab, Waiters(c)) /\ store' = None
        /\ op' = [op EXCEPT ![c] = NoCall] /\ mem' = [mem EXCEPT ![op[c].tab] = None]
    BY <1>0, <1>14, OpFields DEF Rejected, RefreshRejected, SignOut, Waiters
  <2>2. \A d \in Calls : Live(d)' => Live(d) /\ call'[d] = call[d]
    BY <2>1, FinishEffect
  <2>3. \A d \in Calls : Pending(d)' => Pending(d) /\ op'[d] = op[d]
    BY <1>0, <2>1 DEF Pending, TypeOK
  <2>4. \A a \in Tabs : mem'[a] \in {mem[a], None}
    BY <1>0, <2>1 DEF TypeOK
  <2>5. QED BY <1>2, <2>1, <2>2, <2>3, <2>4
<1>15. ASSUME NEW b \in Tabs, Navigate(b) PROVE Secret'
  <2>1. \A c \in Calls : /\ Live(c)' => Live(c) /\ call'[c] = call[c]
                         /\ Pending(c)' => Pending(c) /\ op'[c] = op[c]
    BY <1>15 DEF Navigate, CallsOf, OpsOf, Live, Pending
  <2>2. \A a \in Tabs : mem'[a] \in {mem[a], store}
    BY <1>0, <1>15 DEF Navigate, TypeOK
  <2>3. UNCHANGED <<server, store>>
    BY <1>15 DEF Navigate
  <2>4. QED BY <1>2, <2>1, <2>2, <2>3
<1>16. ASSUME NEW t \in Tokens, AccessExpires(t) PROVE Secret'
  BY <1>2, <1>16 DEF AccessExpires, Live, Pending
<1>17. CASE UNCHANGED vars
  BY <1>2, <1>17 DEF vars, client, Live, Pending
<1>18. QED
  BY <1>3, <1>5, <1>6, <1>7, <1>8, <1>9, <1>10, <1>11, <1>12, <1>13, <1>14, <1>15,
     <1>16, <1>17
  DEF Steps, ServedAlone

-----------------------------------------------------------------------------
(* Why a token may be refused.  Two refreshes with one token, and a handler *)
(* whose refresh is not pending with the token it has read, make it unsure. *)
DoubleUnsure ==
  \A c, d \in Calls :
    Pending(c) /\ Pending(d) /\ c # d /\ op[c].tok = op[d].tok => op[c].tok \in unsure

HandlersOwned ==
  \A q \in Calls : S!Is(q, "refresh") =>
    \/ Pending(q) /\ op[q].new = None /\ op[q].tok = req[q].tok
    \/ req[q].tok \in unsure

(* A token that is held is live, or there is a reason why not; the last is   *)
(* that the answer which brings its successor is on its way.                *)
Explained ==
  {t \in Tokens : \/ rt[t] = "unused" \/ t \in ended \cup unsure
                  \/ \E c \in Calls : Pending(c) /\ op[c].tok = t /\ op[c].new # None}

HeldExplained ==
  /\ \A b \in Tabs : mem[b] \in Explained \cup {None}
  /\ store \in Explained \cup {None}
  /\ \A c \in Calls : Pending(c) => op[c].tok \in Explained

Accounted == DoubleUnsure /\ HandlersOwned /\ HeldExplained

(* The server rests, or serves what is no refresh.                          *)
NoRefreshServed ==
  /\ ended \subseteq ended'
  /\ \A t \in Tokens : rt[t] = "unused" => rt'[t] = "unused" \/ t \in ended'
  /\ \A q \in Calls : S!Is(q, "refresh")' =>
       S!Is(q, "refresh") /\ req'[q].tok = req[q].tok

LEMMA ServerRests == UNCHANGED server => NoRefreshServed
BY DEF server, NoRefreshServed, S!Is

LEMMA OtherServed ==
  ASSUME TypeOK, NEW p \in Calls, NEW t,
         \/ S!LoginReads(p) \/ S!LogoutCommits(p) \/ S!RequestFails(p)
         \/ S!LoginCommits(p, t) \/ S!LogoutReads(p, t)
  PROVE  NoRefreshServed
<1>1. ended \subseteq ended'
  BY DEF S!LoginReads, S!LogoutCommits, S!RequestFails, S!LoginCommits, S!LogoutReads
<1>2. ASSUME NEW u \in Tokens, rt[u] = "unused"
      PROVE  rt'[u] = "unused" \/ u \in ended'
  BY <1>2 DEF S!LoginReads, S!LogoutCommits, S!RequestFails, S!LoginCommits,
     S!LogoutReads, TypeOK, S!TypeOK
<1>3. ASSUME NEW q \in Calls, S!Is(q, "refresh")'
      PROVE  S!Is(q, "refresh") /\ req'[q].tok = req[q].tok
  <2>1. CASE p = q
    BY <1>3, <2>1, OwnHandler DEF S!Is
  <2>2. CASE p # q
    BY <1>3, <2>2, OthersKept DEF S!Is
  <2>3. QED BY <2>1, <2>2
<1>4. QED BY <1>1, <1>2, <1>3 DEF NoRefreshServed

(* A refresh that is over has its reason: the token was refused, so that    *)
(* nothing has come of it, or it is unsure.                                 *)
RefreshesEnd ==
  \A c \in Calls :
    /\ Pending(c)' => Pending(c) /\ op'[c] = op[c]
    /\ Pending(c) /\ ~Pending(c)' => op[c].tok \in unsure' \/ Refusable(c)

(* Nothing more is refreshed, and what a tab comes to hold was in local     *)
(* storage or is live.                                                      *)
LEMMA AccountedKept ==
  ASSUME TypeOK, Accounted, NoRefreshServed, RefreshesEnd, unsure \subseteq unsure',
         \A b \in Tabs : \/ mem'[b] \in {mem[b], store, None}
                         \/ mem'[b] \in Tokens /\ rt'[mem'[b]] = "unused",
         \/ store' \in {store, None}
         \/ store' \in Tokens /\ rt'[store'] = "unused"
  PROVE  Accounted'
<1> USE DEF NoRefreshServed
<1>1. DoubleUnsure'
  BY DEF Accounted, DoubleUnsure, RefreshesEnd
<1>2. HandlersOwned'
  <2> SUFFICES ASSUME NEW q \in Calls, S!Is(q, "refresh")'
               PROVE  \/ /\ Pending(q)' /\ op'[q].new = None
                         /\ op'[q].tok = req'[q].tok
                      \/ req'[q].tok \in unsure'
    BY DEF HandlersOwned
  <2>1. S!Is(q, "refresh") /\ req'[q].tok = req[q].tok
    OBVIOUS
  <2>2. ~Refusable(q)
    BY <2>1 DEF Refusable, S!Is
  <2>3. QED BY <2>1, <2>2 DEF Accounted, HandlersOwned, RefreshesEnd
<1>3. ASSUME NEW t \in Explained PROVE t \in Explained'
  <2>1. CASE t \in ended \cup unsure \/ rt[t] = "unused"
    BY <2>1 DEF Explained
  <2>2. ASSUME NEW c \in Calls, Pending(c), op[c].tok = t, op[c].new # None
        PROVE  t \in Explained'
    <3>1. ~Refusable(c)
      BY <2>2 DEF Refusable
    <3>2. QED BY <2>2, <3>1 DEF RefreshesEnd, Explained
  <2>3. QED BY <2>1, <2>2 DEF Explained
<1>4. HeldExplained'
  <2>1. \A t \in Tokens : rt'[t] = "unused" => t \in Explained'
    BY DEF Explained
  <2>2. \A b \in Tabs : mem'[b] \in Explained' \cup {None}
    BY <1>3, <2>1 DEF Accounted, HeldExplained
  <2>3. store' \in Explained' \cup {None}
    BY <1>3, <2>1 DEF Accounted, HeldExplained
  <2>4. \A c \in Calls : Pending(c)' => op'[c].tok \in Explained'
    BY <1>3 DEF Accounted, HeldExplained, RefreshesEnd
  <2>5. QED BY <2>2, <2>3, <2>4 DEF HeldExplained
<1>5. QED BY <1>1, <1>2, <1>4 DEF Accounted

LEMMA AccountedStep ==
  TypeInv /\ Shared /\ Secret /\ Accounted /\ Steps => Accounted'
<1> SUFFICES ASSUME TypeInv, Shared, Secret, Accounted, Steps PROVE Accounted'
  OBVIOUS
<1>0. TypeOK /\ None \notin Tokens
  BY NoneAssumption DEF TypeInv
<1> DEFINE Quiet ==
      /\ unsure \subseteq unsure' /\ RefreshesEnd
      /\ \A b \in Tabs : mem'[b] \in {mem[b], store, None}
      /\ store' \in {store, None}
<1>q. ASSUME Quiet, NoRefreshServed PROVE Accounted'
  BY <1>0, <1>q, AccountedKept
<1>1. ASSUME UNCHANGED <<mem, store, op, unsure>> PROVE Quiet
  BY <1>1 DEF RefreshesEnd, Pending
<1>2. ASSUME NEW c \in Calls, NEW b \in Tabs, Sends(c, b) PROVE Accounted'
  <2>1. UNCHANGED server /\ Quiet
    BY <1>1, <1>2, SendEffect
  <2>2. QED BY <1>q, <2>1, ServerRests
<1>3. ASSUME NEW c \in Calls, EndsCall(c) PROVE Quiet
  BY <1>0, <1>3 DEF EndsCall, RefreshesEnd, Pending, TypeOK
<1>4. ASSUME NEW c \in Calls, EndsCall(c), UNCHANGED server PROVE Accounted'
  BY <1>3, <1>4, <1>q, ServerRests
<1>5. ASSUME NEW c \in Calls, EndsCall(c), LogoutAnswered(c) PROVE Accounted'
  BY <1>0, <1>3, <1>5, <1>q, OtherServed DEF LogoutAnswered
<1>6. ASSUME NEW c \in Calls, ServedAlone(c) PROVE Accounted'
  <2>1. Quiet
    BY <1>1, <1>6 DEF ServedAlone, LogoutServed, ServedToNobody, HandlerFails, client
  <2>2. NoRefreshServed
    BY <1>0, <1>6, OtherServed DEF ServedAlone, LogoutServed, ServedToNobody, HandlerFails
  <2>3. QED BY <1>q, <2>1, <2>2
<1>7. ASSUME NEW c \in Calls, LoginAnswered(c) PROVE Accounted'
  <2> DEFINE n == call[c].body
  <2>1. /\ Live(c) /\ call[c].kind = "login" /\ n \in Tokens /\ call[c].tab \in Tabs
        /\ mem' = [mem EXCEPT ![call[c].tab] = n] /\ store' = n
        /\ UNCHANGED <<server, op, unsure>>
    BY <1>0, <1>7, CallFields DEF LoginAnswered, Live
  <2>2. rt'[n] = "unused"
    BY <2>1 DEF Secret, GrantsSecret, Granted, server
  <2>3. RefreshesEnd
    BY <2>1 DEF RefreshesEnd, Pending
  <2>4. \A b \in Tabs : mem'[b] \in {mem[b], n}
    BY <1>0, <2>1 DEF TypeOK
  <2>5. QED BY <1>0, <2>1, <2>2, <2>3, <2>4, ServerRests, AccountedKept
<1>8. ASSUME NEW c \in Calls, NEW n \in Tokens, LoginServed(c, n) PROVE Accounted'
  <2>1. Quiet
    BY <1>1, <1>8 DEF LoginServed
  <2>2. NoRefreshServed
    BY <1>0, <1>8, OtherServed DEF LoginServed
  <2>3. QED BY <1>q, <2>1, <2>2
<1>9. ASSUME NEW c \in Calls, Rejected(c) PROVE Accounted'
  <2>1. /\ op[c].tab \in Tabs /\ UNCHANGED server /\ store' = None
        /\ op' = [op EXCEPT ![c] = NoCall] /\ mem' = [mem EXCEPT ![op[c].tab] = None]
        /\ \/ Refusable(c) /\ unsure' = unsure
           \/ unsure' = unsure \cup {op[c].tok}
    BY <1>0, <1>9, OpFields DEF Rejected, RefreshRejected, SignOut
  <2>2. RefreshesEnd
    BY <1>0, <2>1 DEF RefreshesEnd, Pending, TypeOK
  <2>3. Quiet
    BY <1>0, <2>1, <2>2 DEF TypeOK
  <2>4. QED BY <1>q, <2>1, <2>3, ServerRests
<1>10. ASSUME NEW b \in Tabs, Navigate(b) PROVE Accounted'
  <2>1. RefreshesEnd
    BY <1>0, <1>10 DEF Navigate, RefreshesEnd, Pending, OpsOf, TypeOK
  <2>2. Quiet /\ UNCHANGED server
    BY <1>0, <1>10, <2>1 DEF Navigate, TypeOK
  <2>3. QED BY <1>q, <2>2, ServerRests
<1>11. ASSUME NEW t \in Tokens, AccessExpires(t) PROVE Accounted'
  BY <1>1, <1>11, <1>q, ServerRests DEF AccessExpires
<1>12. CASE UNCHANGED vars
  BY <1>1, <1>12, <1>q, ServerRests DEF vars, client
\* The handler reads the token of the refresh it serves.
<1>13. ASSUME NEW c \in Calls, NEW n \in Tokens, RefreshServed(c, n),
              S!RefreshReads(c, op[c].tok), Pending(c), op[c].new = None, op' = op
       PROVE  Accounted'
  <2>1. UNCHANGED <<mem, store, unsure, rt, ended>>
    BY <1>13, ServedEffect DEF S!RefreshReads, S!RefreshReadsIf
  <2>2. ASSUME NEW q \in Calls, S!Is(q, "refresh")'
        PROVE  \/ Pending(q) /\ op[q].new = None /\ op[q].tok = req'[q].tok
               \/ req'[q].tok \in unsure
    <3>1. CASE q = c
      BY <1>0, <1>13, <3>1, OwnHandler
    <3>2. CASE q # c
      BY <1>0, <1>13, <2>2, <3>2, OthersKept DEF S!Is, Accounted, HandlersOwned
    <3>3. QED BY <3>1, <3>2
  <2>3. DoubleUnsure'
    BY <1>13, <2>1 DEF Accounted, DoubleUnsure, Pending
  <2>4. HandlersOwned'
    BY <1>13, <2>1, <2>2 DEF HandlersOwned, Pending
  <2>5. Explained' = Explained
    BY <1>13, <2>1 DEF Explained, Pending
  <2>6. HeldExplained'
    BY <1>13, <2>1, <2>5 DEF Accounted, HeldExplained, Pending
  <2>7. QED BY <2>3, <2>4, <2>6 DEF Accounted
\* The token is traded in: its refresh has the answer, or it is unsure.
<1>14. ASSUME NEW c \in Calls, NEW n \in Tokens, RefreshServed(c, n),
              S!RefreshCommits(c, n), Pending(c) => op'[c].new = n
       PROVE  Accounted'
  <2> DEFINE t == req[c].tok
  <2>1. /\ UNCHANGED <<mem, store, unsure>>
        /\ \A d \in Calls : d # c => op'[d] = op[d]
        /\ Pending(c)' <=> Pending(c)
        /\ Pending(c) => op'[c].tok = op[c].tok
    BY <1>14, ServedEffect
  <2>2. /\ S!Is(c, "refresh") /\ t \in Tokens /\ ended \subseteq ended'
        /\ \A u \in Tokens : rt[u] = "unused" => rt'[u] = "unused" \/ u = t
    BY <1>0, <1>14, HandlerKind DEF S!RefreshCommits, TypeOK, S!TypeOK
  <2>3. \/ Pending(c) /\ op[c].tok = t
        \/ t \in unsure
    BY <2>2 DEF Accounted, HandlersOwned
  <2> HIDE DEF t
  <2>4. \A d \in Calls : /\ Pending(d)' <=> Pending(d)
                         /\ Pending(d) => op'[d].tok = op[d].tok
                         /\ Pending(d) /\ op[d].new # None => op'[d].new # None
    BY <1>0, <1>14, <2>1 DEF Pending
  <2>5. ASSUME NEW u \in Explained PROVE u \in Explained'
    <3>1. CASE u = t
      <4>1. CASE t \in unsure
        BY <2>1, <2>2, <3>1, <4>1 DEF Explained
      <4>2. CASE Pending(c) /\ op[c].tok = t
        BY <1>0, <1>14, <2>1, <2>2, <3>1, <4>2 DEF Explained
      <4>3. QED BY <2>3, <4>1, <4>2
    <3>2. CASE u # t
      BY <2>1, <2>2, <2>4, <3>2 DEF Explained
    <3>3. QED BY <3>1, <3>2
  <2>6. DoubleUnsure'
    BY <2>1, <2>4 DEF Accounted, DoubleUnsure
  <2>7. HandlersOwned'
    <3> SUFFICES ASSUME NEW q \in Calls, S!Is(q, "refresh")'
                 PROVE  \/ /\ Pending(q)' /\ op'[q].new = None
                           /\ op'[q].tok = req'[q].tok
                        \/ req'[q].tok \in unsure'
      BY DEF HandlersOwned
    <3>1. q # c
      BY <1>0, <1>14, OwnHandler DEF S!Is
    <3>2. S!Is(q, "refresh") /\ req'[q].tok = req[q].tok
      BY <1>0, <1>14, <3>1, OthersKept DEF S!Is
    <3>3. QED BY <2>1, <2>4, <3>1, <3>2 DEF Accounted, HandlersOwned
  <2>8. HeldExplained'
    BY <2>1, <2>4, <2>5 DEF Accounted, HeldExplained
  <2>9. QED BY <2>6, <2>7, <2>8 DEF Accounted
\* A refresh starts, with the token that its tab holds.
<1>15. ASSUME NEW c \in Calls, Unauthorized(c), promise[call[c].tab] = None
       PROVE  Accounted'
  <2> DEFINE t == mem[call[c].tab]
             new == [tab |-> call[c].tab, tok |-> t, new |-> None]
  <2>1. /\ call[c].tab \in Tabs /\ t \in Tokens /\ t # None /\ call[c].phase = "sent"
        /\ op' = [op EXCEPT ![c] = new]
        /\ unsure' = IF OpsWith(t) # {} THEN unsure \cup {t} ELSE unsure
        /\ UNCHANGED <<server, mem, store>>
    BY <1>15, UnauthorizedEffect
  <2>2. ~Pending(c)
    BY <2>1 DEF Shared, OpsAwaited
  <2>3. new # NoCall /\ new.tok = t /\ new.new = None
    BY <2>1 DEF NoCall
  <2> HIDE DEF new
  <2>4. /\ op'[c] = new /\ Pending(c)'
        /\ \A d \in Calls \ {c} : op'[d] = op[d] /\ (Pending(d)' <=> Pending(d))
    BY <1>0, <2>1, <2>3 DEF TypeOK, Pending
  <2>5. \A d \in Calls : Pending(d) /\ op[d].tok = t => t \in unsure'
    BY <2>1 DEF OpsWith, Pending
  <2>6. DoubleUnsure'
    BY <2>1, <2>3, <2>4, <2>5 DEF Accounted, DoubleUnsure
  <2>7. HandlersOwned'
    BY <2>1, <2>2, <2>4 DEF Accounted, HandlersOwned, S!Is, server
  <2>8. \A u \in Explained : u \in Explained'
    BY <2>1, <2>2, <2>4 DEF Explained, server
  <2>9. t \in Explained
    BY <2>1 DEF Accounted, HeldExplained
  <2> HIDE DEF t
  <2>10. HeldExplained'
    BY <2>1, <2>3, <2>4, <2>8, <2>9 DEF Accounted, HeldExplained
  <2>11. QED BY <2>6, <2>7, <2>10 DEF Accounted
<1>16. ASSUME NEW c \in Calls, Unauthorized(c), promise[call[c].tab] # None
       PROVE  Accounted'
  <2>1. UNCHANGED <<server, mem, store, op, unsure>>
    BY <1>16, UnauthorizedEffect
  <2>2. QED BY <1>1, <1>q, <2>1, ServerRests
\* The answer arrives: the tab forgets the old token, other holders are unsure.
<1>17. ASSUME NEW c \in Calls, RefreshAnswered(c) PROVE Accounted'
  <2> DEFINE b == op[c].tab
             t == op[c].tok
             n == op[c].new
  <2>1. /\ Pending(c) /\ b \in Tabs /\ t \in Tokens /\ n \in Tokens
        /\ mem' = [mem EXCEPT ![b] = n] /\ store' = n
        /\ op' = [op EXCEPT ![c] = NoCall] /\ UNCHANGED server
        /\ unsure' = IF \E d \in Tabs \ {b} : mem[d] = t THEN unsure \cup {t} ELSE unsure
    BY <1>17, AnsweredEffect
  <2>2. rt'[n] = "unused" /\ rt[n] = "unused"
    BY <2>1 DEF Secret, GrantsSecret, Granted, server
  <2>3. n # None
    BY <1>0, <2>1
  <2>4. /\ ~Pending(c)' /\ \A d \in Calls \ {c} : op'[d] = op[d]
        /\ mem'[b] = n /\ \A a \in Tabs \ {b} : mem'[a] = mem[a]
    BY <1>0, <2>1 DEF Pending, TypeOK
  <2> HIDE DEF b
  <2>5. \A d \in Calls : Pending(d)' => d # c /\ Pending(d) /\ op'[d] = op[d]
    BY <2>4 DEF Pending
  <2>6. DoubleUnsure'
    BY <2>1, <2>5 DEF Accounted, DoubleUnsure
  <2>7. HandlersOwned'
    BY <2>1, <2>3, <2>4 DEF Accounted, HandlersOwned, S!Is, server, Pending
  <2>8. \A u \in Explained : u \in Explained' \/ u = t
    BY <2>1, <2>4, <2>5 DEF Explained, server, Pending
  <2>9. t \in unsure' => t \in Explained'
    BY <2>1 DEF Explained
  <2>10. n \in Explained'
    BY <2>1, <2>2 DEF Explained
  <2>11. \A a \in Tabs : mem'[a] \in Explained' \cup {None}
    BY <2>1, <2>4, <2>8, <2>9, <2>10 DEF Accounted, HeldExplained
  <2>12. ASSUME NEW d \in Calls, Pending(d)' PROVE op'[d].tok \in Explained'
    <3>1. /\ d # c /\ Pending(d) /\ op'[d] = op[d] /\ op[d].tok \in Explained
      BY <2>5, <2>12 DEF Accounted, HeldExplained
    <3>2. op[d].tok = t => t \in unsure'
      BY <2>1, <3>1 DEF Accounted, DoubleUnsure
    <3>3. QED BY <2>8, <2>9, <3>1, <3>2
  <2>13. HeldExplained'
    BY <2>1, <2>10, <2>11, <2>12 DEF HeldExplained
  <2>14. QED BY <2>6, <2>7, <2>13 DEF Accounted
<1>18. ASSUME NEW c \in Calls, NEW n \in Tokens, RefreshServed(c, n) PROVE Accounted'
  BY <1>13, <1>14, <1>18, ServedEffect
<1>19. QED
  BY <1>2, <1>4, <1>5, <1>6, <1>7, <1>8, <1>9, <1>10, <1>11, <1>12, <1>15, <1>16,
     <1>17, <1>18
  DEF Steps

(* A refused refresh had its reason: its token is revoked, and no answer is *)
(* on its way to it, since it would be its own or that of a second refresh. *)
LEMMA Refusals ==
  TypeInv /\ DoubleUnsure /\ HeldExplained => SignedOutForAReason
<1> SUFFICES ASSUME TypeInv, DoubleUnsure, HeldExplained, NEW c \in Calls, Refusable(c)
             PROVE  op[c].tok \in unsure \cup ended
  BY DEF SignedOutForAReason
<1>1. Pending(c) /\ op[c].new = None /\ rt[op[c].tok] # "unused"
  BY DEF Refusable, Pending
<1>2. op[c].tok \in Explained
  BY <1>1 DEF HeldExplained
<1>3. ASSUME NEW d \in Calls, Pending(d), op[d].tok = op[c].tok, op[d].new # None
      PROVE  op[c].tok \in unsure
  BY <1>1, <1>3 DEF DoubleUnsure
<1>4. QED BY <1>1, <1>2, <1>3 DEF Explained

-----------------------------------------------------------------------------
(* The inductive invariant, all of it.                                      *)
ClientInv ==
  TypeInv /\ LogoutsServed /\ Shared /\ Apart /\ LeftRevoked /\ Secret /\ Accounted

LEMMA ClientInit == Init => ClientInv
<1> SUFFICES ASSUME Init PROVE ClientInv
  OBVIOUS
<1>1. TypeInv
  BY TypeInit
<1>2. \A c \in Calls : /\ ~Live(c) /\ ~Pending(c) /\ call[c] = NoCall /\ op[c] = NoCall
                       /\ req[c].kind = "idle"
  BY DEF Init, S!Init, S!IdleRequest, Live, Pending
<1>3. LogoutsServed /\ Shared /\ Apart
  BY <1>2 DEF Init, LogoutsServed, Shared, OpsAwaited, WaitersServed, LoginsSent,
     PromisesShared, PromisedUnlessLate, Apart, LoginsAlone, RefreshesCross,
     LogoutsNameMemory
<1>4. LeftRevoked
  BY DEF Init, LeftRevoked
<1>5. Secret
  <2>1. \A t \in Tokens : t # None
    BY NoneAssumption
  <2>2. \A t \in Tokens : ~Heard(t) /\ \A c \in Calls : ~Granted(c, t)
    BY <1>2, <2>1 DEF Init, Heard, Handled, Granted
  <2>3. QED BY <2>2 DEF Secret, AbsentUnknown, GrantsSecret
<1>6. Accounted
  BY <1>2 DEF Init, Accounted, DoubleUnsure, HandlersOwned, HeldExplained, S!Is
<1>7. QED BY <1>1, <1>3, <1>4, <1>5, <1>6 DEF ClientInv

LEMMA ClientStep == ClientInv /\ [Next]_vars => ClientInv'
<1> SUFFICES ASSUME ClientInv, [Next]_vars PROVE ClientInv'
  OBVIOUS
<1>1. Steps
  BY NextSteps DEF ClientInv
<1>2. QED
  BY <1>1, TypeStep, LogoutsServedStep, SharedStep, ApartStep, LeftRevokedStep,
     SecretStep, AccountedStep
  DEF ClientInv

LEMMA ClientCorrect == Spec => []ClientInv
BY ClientInit, ClientStep, PTL DEF Spec

-----------------------------------------------------------------------------
(* No answer, lost or late, in whatever order the tabs and the server take   *)
(* their steps, leaves a tab, a call or a refresh with a value it cannot    *)
(* have: a tab never keeps a whole answer for a token.                      *)
THEOREM TypeCorrect == Spec => []TypeOK
<1>1. ClientInv => TypeOK
  BY DEF ClientInv, TypeInv
<1>2. QED BY <1>1, ClientCorrect, PTL

(* Calls that find the access token expired share one refresh: two are      *)
(* under way in a tab only after a call that came late has cleared the      *)
(* promise of the one pending.                                              *)
THEOREM OneRefreshCorrect == Spec => []OneRefreshUnlessLate
<1>1. ClientInv => OneRefreshUnlessLate
  BY OneRefresh DEF ClientInv, Shared
<1>2. QED BY <1>1, ClientCorrect, PTL

(* Nobody is signed out for nothing: a refresh is refused only for a token   *)
(* that was logged out or that another refresh may have traded in, whose    *)
(* answer did not reach this tab.                                           *)
THEOREM SignedOutForAReasonCorrect == Spec => []SignedOutForAReason
<1>1. ClientInv => SignedOutForAReason
  BY Refusals DEF ClientInv, Accounted
<1>2. QED BY <1>1, ClientCorrect, PTL

(* A logout that met no refresh of its tab leaves no live token behind,     *)
(* whatever the other tabs do meanwhile.                                    *)
THEOREM LogoutEndsSessionCorrect == Spec => []LogoutEndsSession
<1>1. ClientInv => LogoutEndsSession
  BY DEF ClientInv, LeftRevoked, LogoutEndsSession
<1>2. QED BY <1>1, ClientCorrect, PTL

(* The browser drives the server as Sessions allows: each step of the client *)
(* is a step of one handler there, or none, so that all that is proved of    *)
(* Sessions holds with this client.                                         *)
THEOREM ImplementsSessions == Spec => S!Spec
<1>1. Init => S!Init
  BY DEF Init
<1>2. ClientInv /\ [Next]_vars => [S!Next]_(S!vars)
  <2> SUFFICES ASSUME ClientInv, [Next]_vars PROVE [S!Next]_(S!vars)
    OBVIOUS
  <2>1. ServerStep
    BY ServerSteps DEF ClientInv
  <2>2. CASE UNCHANGED server
    BY <2>2 DEF server, S!vars
  <2>3. CASE ~UNCHANGED server
    BY <2>1, <2>3 DEF ServerStep, S!Next
  <2>4. QED BY <2>2, <2>3
<1>3. QED BY <1>1, <1>2, ClientCorrect, PTL DEF Spec, S!Spec
=============================================================================
