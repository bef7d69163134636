----------------------------- MODULE JobContract -----------------------------
(***************************************************************************)
(* What the controller promises about payments, without saying how: a      *)
(* token pays for at most one request, a paid request runs at most once,   *)
(* and it is concluded at most once, with a refund that leaves the worker  *)
(* the least a run costs and never exceeds what the token brought.  Once   *)
(* concluded a request never starts.  A request may stay in any stage for  *)
(* ever: the controller keeps nothing about requests across a crash.       *)
(***************************************************************************)
EXTENDS Integers

CONSTANTS
  Events, Tokens, None, Outsider,
  TokenFor,      \* the token each event pays with, None if it has not one
  Worth,         \* by event: the value its token brings
  Least          \* by event: the least a run of it costs

VARIABLES
  payer,         \* by token: the event it paid for, Outsider, or None
  stage,         \* by event: "open", "paid", "started" or "concluded"
  refund         \* by event: the change given back

vars == <<payer, stage, refund>>

TypeOK ==
  /\ payer \in [Tokens -> Events \cup {None, Outsider}]
  /\ stage \in [Events -> {"open", "paid", "started", "concluded"}]
  /\ refund \in [Events -> Nat]

Init ==
  /\ payer = [t \in Tokens |-> None]
  /\ stage = [e \in Events |-> "open"]
  /\ refund = [e \in Events |-> 0]

Lose(t) ==
  /\ payer[t] = None
  /\ payer' = [payer EXCEPT ![t] = Outsider]
  /\ UNCHANGED <<stage, refund>>

Pay(e) ==
  /\ stage[e] = "open"
  /\ TokenFor[e] # None
  /\ payer[TokenFor[e]] = None
  /\ payer' = [payer EXCEPT ![TokenFor[e]] = e]
  /\ stage' = [stage EXCEPT ![e] = "paid"]
  /\ UNCHANGED refund

Start(e) ==
  /\ stage[e] = "paid"
  /\ stage' = [stage EXCEPT ![e] = "started"]
  /\ UNCHANGED <<payer, refund>>

Conclude(e) ==
  /\ stage[e] \in {"paid", "started"}
  /\ stage' = [stage EXCEPT ![e] = "concluded"]
  /\ \E amount \in 0..(Worth[e] - Least[e]) : refund' = [refund EXCEPT ![e] = amount]
  /\ UNCHANGED payer

Next ==
  \/ \E t \in Tokens : Lose(t)
  \/ \E e \in Events : Pay(e) \/ Start(e) \/ Conclude(e)

Spec == Init /\ [][Next]_vars
=============================================================================
