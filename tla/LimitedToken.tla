---------------------------- MODULE LimitedToken ----------------------------
(***************************************************************************)
(* What the backend promises of every token it hands out: it is issued     *)
(* once, it may expire, and it is redeemed at most Limit times.  A         *)
(* redemption that began before the expiry, or before another one, may     *)
(* still finish after it.  With Limit = 1 the token is one-time.           *)
(***************************************************************************)
EXTENDS Naturals

CONSTANTS Tokens, Limit

VARIABLES
  token,  \* token[t]: where t is in its life
  uses    \* uses[t]: how often t was redeemed

vars == <<token, uses>>

Init ==
  /\ token = [t \in Tokens |-> "absent"]
  /\ uses = [t \in Tokens |-> 0]

Issue(t) ==
  /\ token[t] = "absent"
  /\ token' = [token EXCEPT ![t] = "unused"]
  /\ UNCHANGED uses

Expire(t) ==
  /\ token[t] = "unused"
  /\ token' = [token EXCEPT ![t] = "expired"]
  /\ UNCHANGED uses

Redeem(t) ==
  /\ token[t] # "absent"
  /\ uses[t] < Limit
  /\ token' = [token EXCEPT ![t] = "used"]
  /\ uses' = [uses EXCEPT ![t] = @ + 1]

Next == \E t \in Tokens : Issue(t) \/ Expire(t) \/ Redeem(t)

Spec == Init /\ [][Next]_vars
=============================================================================
