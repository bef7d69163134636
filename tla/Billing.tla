------------------------------- MODULE Billing -------------------------------
(***************************************************************************)
(* What a worker run costs: the price list, the test that a payment covers *)
(* the minimum runtime, the runtime a payment buys and the split of the    *)
(* payment into cost and change (src/payments.rs, src/config.rs).  The     *)
(* operators take the price list and the durations as arguments, as the    *)
(* Rust functions do; the only constant is the width of the integers.      *)
(***************************************************************************)
EXTENDS Integers, Sequences

CONSTANT MaxU64      \* the largest value of the integer type of every amount

ASSUME MaxU64Assumption == MaxU64 \in Nat

U64 == 0..MaxU64

(***************************************************************************)
(* An account is a (mint, unit) pair.  The price list is the sequence that *)
(* WORKER_PRICES spells out; two entries may name the same account.        *)
(***************************************************************************)
ValidPrices(prices, Accounts) ==
  /\ prices \in Seq([account : Accounts, price_per_second : U64 \ {0}])
  /\ prices # <<>>

ValidDurations(min_duration, max_duration) ==
  /\ min_duration \in U64
  /\ max_duration \in U64
  /\ min_duration <= max_duration

Listed(prices, account) ==
  \E i \in DOMAIN prices : prices[i].account = account

\* Mutant: the last entry that names the account.
FindLastPrice(prices, account) ==
  LET last == CHOOSE i \in DOMAIN prices :
                /\ prices[i].account = account
                /\ \A j \in DOMAIN prices : prices[j].account = account => j <= i
  IN  prices[last].price_per_second

\* The first entry of the list that names the account.
FindPrice(prices, account) ==
  LET first == CHOOSE i \in DOMAIN prices :
                 /\ prices[i].account = account
                 /\ \A j \in DOMAIN prices : prices[j].account = account => i <= j
  IN  prices[first].price_per_second

Smaller(a, b) == IF a <= b THEN a ELSE b
Larger(a, b)  == IF a >= b THEN a ELSE b

(***************************************************************************)
(* authorize_payment: the minimum is a checked product, so a configuration *)
(* whose minimum does not fit the integers refuses every payment.          *)
(***************************************************************************)
\* Mutant: the minimum wraps around instead of being checked.
CoversWrappedMinimum(amount, price, min_duration) ==
  (min_duration * price) % (MaxU64 + 1) <= amount

CoversMinimum(amount, price, min_duration) ==
  /\ min_duration * price <= MaxU64
  /\ min_duration * price <= amount

\* Mutant: a second that is not paid in full counts.
PrepaidSecondsUp(amount, price) == (amount + price - 1) \div price

PrepaidSeconds(amount, price) == amount \div price

Timeout(amount, price, max_duration) ==
  Smaller(PrepaidSeconds(amount, price), max_duration)

(***************************************************************************)
(* settle_billing: the cost is a saturating product capped at the payment, *)
(* the change is what the cost leaves.                                     *)
(***************************************************************************)
\* Mutant: the product wraps around instead of saturating.
WrappingMul(a, b) == (a * b) % (MaxU64 + 1)

SaturatingMul(a, b) == Smaller(a * b, MaxU64)

\* Mutant: the minimum duration is not billed.
BillableElapsed(elapsed, min_duration) == elapsed

Billable(elapsed, min_duration) == Larger(elapsed, min_duration)

Cost(amount, price, elapsed, min_duration) ==
  Smaller(SaturatingMul(Billable(elapsed, min_duration), price), amount)

Change(amount, price, elapsed, min_duration) ==
  Larger(amount - Cost(amount, price, elapsed, min_duration), 0)

(***************************************************************************)
(* received_delta: what two readings of an account say was received in     *)
(* between, refused when the balance fell.                                 *)
(***************************************************************************)
DeltaReadable(before, after) == before <= after
ReceivedDelta(before, after) == after - before
=============================================================================
