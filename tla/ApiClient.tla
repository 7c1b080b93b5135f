----------------------------- MODULE ApiClient ------------------------------
(***************************************************************************)
(* The browser's API client (frontend/assets/js/api-client.js): tabs of one *)
(* browser that share their tokens through local storage, calls that find   *)
(* their access token expired, and the refresh they share.  The other end   *)
(* is Sessions: every login, refresh and logout is a handler of its.        *)
(*                                                                         *)
(* JavaScript runs a continuation to its next await without interruption:   *)
(* one action is what follows one answer of the network.                    *)
(***************************************************************************)
EXTENDS Naturals, FiniteSets

CONSTANTS
  Tabs,    \* pages of one browser
  Calls,   \* calls of the client that may be in flight; also their handlers
  Tokens,  \* pairs of an access and a refresh token
  None

ASSUME CallsAssumption == IsFiniteSet(Calls)
ASSUME NoneAssumption == None \notin Tokens /\ None \notin Calls

VARIABLES
  rt, born, uses, ended, prt, resets, password, excused, req,  \* of Sessions
  fresh,    \* the pairs whose access token has not expired
  mem,      \* mem[b]: the pair in the memory of tab b
  store,    \* the pair in local storage
  promise,  \* promise[b]: the call whose refresh _refreshPromise stands for
  call,     \* call[c]: what call c waits for
  op,       \* op[c]: the refresh that call c has started
  late,     \* tabs in which a call has cleared the promise of a pending refresh
  unsure,   \* tokens that may have been traded in without their holder knowing
  left      \* tokens that tabs dropped after a logout that met no refresh

server == <<rt, born, uses, ended, prt, resets, password, excused, req>>
client == <<fresh, mem, store, promise, call, op, late, unsure, left>>
vars == <<server, client>>

S == INSTANCE Sessions WITH ResetTokens <- {}, Requests <- Calls

-----------------------------------------------------------------------------
NoCall == [kind |-> "none"]
Call ==
  [kind : {"api", "logout", "login"}, tab : Tabs,
   phase : {"sent", "waiting", "resent"},
   stale : BOOLEAN,             \* its access token has expired
   body : Tokens \cup {None},   \* logout: the refresh token it names
   on : Calls \cup {None},      \* the refresh it waits for
   crossed : BOOLEAN]           \* logout: it met a refresh of its tab
Refresh == [tab : Tabs, tok : Tokens, new : Tokens \cup {None}]

TypeOK ==
  /\ S!TypeOK
  /\ fresh \subseteq Tokens
  /\ mem \in [Tabs -> Tokens \cup {None}]
  /\ store \in Tokens \cup {None}
  /\ promise \in [Tabs -> Calls \cup {None}]
  /\ call \in [Calls -> Call \cup {NoCall}]
  /\ op \in [Calls -> Refresh \cup {NoCall}]
  /\ late \subseteq Tabs
  /\ unsure \subseteq Tokens
  /\ left \subseteq Tokens

Init ==
  /\ S!Init
  /\ fresh = {}
  /\ mem = [b \in Tabs |-> None]
  /\ store = None
  /\ promise = [b \in Tabs |-> None]
  /\ call = [c \in Calls |-> NoCall]
  /\ op = [c \in Calls |-> NoCall]
  /\ late = {}
  /\ unsure = {}
  /\ left = {}

-----------------------------------------------------------------------------
CallsOf(b) == {c \in Calls : call[c] # NoCall /\ call[c].tab = b}
OpsOf(b) == {c \in Calls : op[c] # NoCall /\ op[c].tab = b}
OpsWith(t) == {c \in Calls : op[c] # NoCall /\ op[c].tok = t}
Waiters(c) == {d \in Calls : call[d] # NoCall /\ call[d].phase = "waiting"
                                              /\ call[d].on = c}

\* The calls ds of tab b are over.  Those that shared a refresh forget the promise
\* in their finally, whichever refresh it stands for by then.
Finish(b, ds) ==
  LET shared == \E d \in ds : call[d].phase # "sent"
      pending == promise[b] # None /\ op[promise[b]] # NoCall IN
    /\ call' = [c \in Calls |-> IF c \in ds THEN NoCall ELSE call[c]]
    /\ promise' = IF shared THEN [promise EXCEPT ![b] = None] ELSE promise
    /\ late' = IF shared /\ pending /\ promise[b] \notin ds THEN late \cup {b}
                                                            ELSE late

\* They end with clearTokens.  The page is on its way to the login page, which
\* stops nothing that is under way before it is there.
SignOut(b, ds) ==
  /\ Finish(b, ds)
  /\ mem' = [mem EXCEPT ![b] = None]
  /\ store' = None

\* Another page in the same tab: its memory is what local storage has; the calls
\* and refreshes of the old one are answered to nobody.
Navigate(b) ==
  /\ mem' = [mem EXCEPT ![b] = store]
  /\ promise' = [promise EXCEPT ![b] = None]
  /\ call' = [c \in Calls |-> IF c \in CallsOf(b) THEN NoCall ELSE call[c]]
  /\ op' = [c \in Calls |-> IF c \in OpsOf(b) THEN NoCall ELSE op[c]]
  /\ late' = late \ {b}
  /\ unsure' = unsure \cup {op[c].tok : c \in OpsOf(b)}
  /\ UNCHANGED <<server, fresh, store, left>>

\* Sooner or later every access token expires; it matters while a tab holds it.
AccessExpires(t) ==
  /\ t \in fresh /\ \E b \in Tabs : mem[b] = t
  /\ fresh' = fresh \ {t}
  /\ UNCHANGED <<server, mem, store, promise, call, op, late, unsure, left>>

-----------------------------------------------------------------------------
(* Calls.                                                                  *)

Free(c) == call[c] = NoCall /\ op[c] = NoCall /\ S!Is(c, "idle")

Send(c, b, kind, body) ==
  /\ Free(c)
  /\ call' = [call EXCEPT ![c] =
       [kind |-> kind, tab |-> b, phase |-> "sent", stale |-> mem[b] \notin fresh,
        body |-> body, on |-> None, crossed |-> OpsOf(b) # {}]]
  /\ UNCHANGED <<server, fresh, mem, store, promise, op, late, unsure, left>>

CallApi(c, b) == mem[b] # None /\ Send(c, b, "api", None)
Logout(c, b) == mem[b] # None /\ Send(c, b, "logout", mem[b])
\* The login page makes no other call, and its button waits for the answer.
Login(c, b) ==
  mem[b] = None /\ CallsOf(b) = {} /\ OpsOf(b) = {} /\ Send(c, b, "login", None)

\* An answer other than 401.
ApiAnswered(c) ==
  /\ call[c] # NoCall /\ call[c].kind = "api"
  /\ call[c].phase \in {"sent", "resent"} /\ ~call[c].stale
  /\ Finish(call[c].tab, {c})
  /\ UNCHANGED <<server, fresh, mem, store, op, unsure, left>>

LoginServed(c, t) ==
  /\ call[c] # NoCall /\ call[c].kind = "login" /\ call[c].body = None
  /\ \/ S!LoginReads(c) /\ UNCHANGED <<fresh, call>>
     \/ /\ S!LoginCommits(c, t)
        /\ fresh' = fresh \cup {t}
        /\ call' = [call EXCEPT ![c].body = t]
  /\ UNCHANGED <<mem, store, promise, op, late, unsure, left>>

\* setTokens: memory and local storage.
LoginAnswered(c) ==
  /\ call[c] # NoCall /\ call[c].kind = "login" /\ call[c].body # None
  /\ mem' = [mem EXCEPT ![call[c].tab] = call[c].body]
  /\ store' = call[c].body
  /\ call' = [call EXCEPT ![c] = NoCall]
  /\ UNCHANGED <<server, fresh, promise, op, late, unsure, left>>

LogoutServed(c) ==
  /\ call[c] # NoCall /\ call[c].kind = "logout"
  /\ call[c].phase \in {"sent", "resent"} /\ ~call[c].stale
  /\ S!LogoutReads(c, call[c].body)
  /\ UNCHANGED client

\* The finally of logout.
Forget(c) ==
  LET b == call[c].tab IN
    /\ call[c] # NoCall /\ call[c].kind = "logout"
    /\ left' = IF call[c].crossed \/ mem[b] = None THEN left
                                                   ELSE left \cup {mem[b]}
    /\ SignOut(b, {c})
    /\ UNCHANGED <<fresh, op, unsure>>

\* Deviation: logout does not await its request.
LogoutUnawaited(c) == Forget(c) /\ UNCHANGED server

LogoutAnswered(c) == Forget(c) /\ S!LogoutCommits(c)

-----------------------------------------------------------------------------
(* The refresh.                                                            *)

StartsRefresh(c, starts) ==
  LET b == call[c].tab IN
    /\ call[c] # NoCall /\ call[c].kind # "login"
    /\ call[c].phase = "sent" /\ call[c].stale
    /\ mem[b] # None
    /\ LET p == IF starts THEN c ELSE promise[b]
           crossed == [d \in Calls |->
             IF d \in CallsOf(b) THEN [call[d] EXCEPT !.crossed = TRUE] ELSE call[d]] IN
         /\ promise' = [promise EXCEPT ![b] = p]
         /\ call' = IF starts \/ op[p] # NoCall
                      THEN [crossed EXCEPT ![c].phase = "waiting", ![c].on = p]
                      ELSE [crossed EXCEPT ![c].phase = "resent",
                                           ![c].stale = mem[b] \notin fresh]
         /\ op' = IF starts
                    THEN [op EXCEPT ![c] = [tab |-> b, tok |-> mem[b], new |-> None]]
                    ELSE op
         /\ unsure' = IF starts /\ OpsWith(mem[b]) # {}
                        THEN unsure \cup {mem[b]} ELSE unsure
    /\ UNCHANGED <<server, fresh, mem, store, late, left>>

\* Deviation: every call refreshes for itself.
UnauthorizedAlone(c) == StartsRefresh(c, TRUE)

\* A 401: the first call of a tab starts the refresh, the others await its
\* promise, which may be fulfilled already: then they are repeated at once.
Unauthorized(c) == StartsRefresh(c, promise[call[c].tab] = None)

\* A 401 to a repeated call, or to a tab whose tokens are gone.
UnauthorizedForGood(c) ==
  /\ call[c] # NoCall /\ call[c].stale
  /\ \/ call[c].phase = "resent"
     \/ call[c].phase = "sent" /\ call[c].kind # "login" /\ mem[call[c].tab] = None
  /\ SignOut(call[c].tab, {c})
  /\ UNCHANGED <<server, fresh, op, unsure, left>>

RefreshServed(c, n) ==
  /\ \/ /\ op[c] # NoCall /\ op[c].new = None
        /\ S!RefreshReads(c, op[c].tok)
        /\ UNCHANGED <<fresh, op>>
     \/ /\ S!RefreshCommits(c, n)       \* whether or not the tab still waits
        /\ fresh' = fresh \cup {n}
        /\ op' = IF op[c] = NoCall THEN op ELSE [op EXCEPT ![c].new = n]
  /\ UNCHANGED <<mem, store, promise, call, late, unsure, left>>

AnswerWith(c, kept) ==
  LET b == op[c].tab IN
    /\ op[c] # NoCall /\ op[c].new # None
    /\ mem' = [mem EXCEPT ![b] = kept]
    /\ store' = kept
    /\ call' = [d \in Calls |->
         IF d \in Waiters(c) THEN [call[d] EXCEPT !.phase = "resent", !.on = None,
                                             !.stale = op[c].new \notin fresh]
         ELSE call[d]]
    /\ op' = [op EXCEPT ![c] = NoCall]
    /\ unsure' = IF \E d \in Tabs \ {b} : mem[d] = op[c].tok
                   THEN unsure \cup {op[c].tok} ELSE unsure
    /\ late' = IF OpsOf(b) = {c} THEN late \ {b} ELSE late
    /\ UNCHANGED <<server, fresh, promise, left>>

\* Deviations: the whole answer is kept for a token; the refresh token of the
\* answer is not kept.
RefreshAnsweredWhole(c) == AnswerWith(c, op[c])
RefreshAnsweredHalf(c) == AnswerWith(c, op[c].tok)

\* setTokens, and every call that waited is repeated with the new access token
\* and its old body.
RefreshAnswered(c) == AnswerWith(c, op[c].new)

\* The token is revoked.
Refusable(c) ==
  op[c] # NoCall /\ op[c].new = None /\ S!Is(c, "idle") /\ rt[op[c].tok] # "unused"

\* Every call that waited clears the tokens.
RefreshRejected(c) ==
  /\ SignOut(op[c].tab, Waiters(c))
  /\ op' = [op EXCEPT ![c] = NoCall]
  /\ UNCHANGED <<server, fresh, left>>

RefreshRefused(c) == Refusable(c) /\ RefreshRejected(c) /\ UNCHANGED unsure

-----------------------------------------------------------------------------
(* Answers that never come: the browser reports a network error, and the    *)
(* server may have served the request, or may yet.                         *)

CallLost(c) ==
  /\ call[c] # NoCall /\ call[c].phase = "sent"
  /\ IF call[c].kind = "logout"
       THEN SignOut(call[c].tab, {c})
       ELSE Finish(call[c].tab, {c}) /\ UNCHANGED <<mem, store>>
  /\ UNCHANGED <<server, fresh, op, unsure, left>>

RetryLost(c) ==
  /\ call[c] # NoCall /\ call[c].phase = "resent"
  /\ SignOut(call[c].tab, {c})
  /\ UNCHANGED <<server, fresh, op, unsure, left>>

RefreshLost(c) ==
  /\ op[c] # NoCall
  /\ RefreshRejected(c)
  /\ unsure' = unsure \cup {op[c].tok}

\* A logout that nobody waits for any more is committed all the same.  (So is a
\* login, but nobody ever holds the token of its row, which is left out.)
ServedToNobody(c) == call[c] = NoCall /\ S!LogoutCommits(c) /\ UNCHANGED client

HandlerFails(c) == S!RequestFails(c) /\ UNCHANGED client

-----------------------------------------------------------------------------
Next ==
  \/ \E c \in Calls, b \in Tabs : CallApi(c, b) \/ Logout(c, b) \/ Login(c, b)
  \/ \E c \in Calls :
       \/ ApiAnswered(c) \/ LoginAnswered(c) \/ LogoutServed(c) \/ LogoutAnswered(c)
       \/ \E t \in Tokens : LoginServed(c, t) \/ RefreshServed(c, t)
       \/ Unauthorized(c) \/ UnauthorizedForGood(c)
       \/ RefreshAnswered(c) \/ RefreshRefused(c)
       \/ CallLost(c) \/ RetryLost(c) \/ RefreshLost(c)
       \/ ServedToNobody(c) \/ HandlerFails(c)
  \/ \E b \in Tabs : Navigate(b)
  \/ \E t \in Tokens : AccessExpires(t)

Spec == Init /\ [][Next]_vars

-----------------------------------------------------------------------------
(* The refresh is shared: a tab has two of them under way only after a call  *)
(* that had shared an earlier one cleared the promise of the one pending.    *)
OneRefreshUnlessLate ==
  \A b \in Tabs : Cardinality(OpsOf(b)) > 1 => b \in late

(* Nobody is signed out for nothing: a refresh is refused only for a token   *)
(* that was logged out, or that another refresh may have traded in whose     *)
(* answer did not reach the tab: lost, cut off by a navigation, still under  *)
(* way, or given to another tab.                                             *)
SignedOutForAReason ==
  \A c \in Calls : Refusable(c) => op[c].tok \in unsure \cup ended

(* A logout that met no refresh leaves no live token behind: what the tab    *)
(* then forgets, the server has revoked.                                     *)
LogoutEndsSession == \A t \in left : rt[t] # "unused"
=============================================================================
