---------------------------- MODULE BillingCheck ----------------------------
(***************************************************************************)
(* One payment on its way through the billing functions, for every price   *)
(* list, every pair of durations, every amount and every runtime of a      *)
(* small range of integers, so that products overflow and divisions leave  *)
(* remainders.  The properties compare what the functions compute with     *)
(* definitions over unbounded integers that know no overflow.              *)
(***************************************************************************)
EXTENDS Billing

CONSTANTS
  Accounts,      \* the accounts a payment may be made in
  PriceRange,    \* bound: the prices that occur in a list
  MaxEntries     \* bound: the length of a price list

ASSUME BoundAssumption == MaxEntries \in Nat \ {0} /\ PriceRange \subseteq U64 \ {0}

VARIABLES
  prices, min_duration, max_duration,   \* the configuration
  step,          \* "claimed", "authorized", "refused", "settled"
  account, amount,                      \* the claimed payment
  timeout,       \* the runtime authorize_payment grants
  elapsed, cost, change                 \* the outcome of settle_billing

config == <<prices, min_duration, max_duration>>
vars == <<config, step, account, amount, timeout, elapsed, cost, change>>

Entry == [account : Accounts, price_per_second : PriceRange]

Init ==
  /\ \E n \in 1..MaxEntries : prices \in [1..n -> Entry]
  /\ min_duration \in U64 /\ max_duration \in U64
  /\ ValidDurations(min_duration, max_duration)
  /\ account \in Accounts /\ amount \in U64
  /\ step = "claimed"
  /\ timeout = 0 /\ elapsed = 0 /\ cost = 0 /\ change = 0

Price == FindPrice(prices, account)

AuthorizePayment ==
  /\ step = "claimed"
  /\ IF Listed(prices, account) /\ CoversMinimum(amount, Price, min_duration)
     THEN step' = "authorized" /\ timeout' = Timeout(amount, Price, max_duration)
     ELSE step' = "refused" /\ UNCHANGED timeout
  /\ UNCHANGED <<config, account, amount, elapsed, cost, change>>

SettleBilling ==
  /\ step = "authorized"
  /\ step' = "settled"
  /\ \E seconds \in U64 :
       /\ elapsed' = seconds
       /\ cost' = Cost(amount, Price, seconds, min_duration)
       /\ change' = Change(amount, Price, seconds, min_duration)
  /\ UNCHANGED <<config, account, amount, timeout>>

Next == AuthorizePayment \/ SettleBilling

Spec == Init /\ [][Next]_vars
-----------------------------------------------------------------------------
\* The price of the first entry for an account from the i-th on, found by walking
\* the list; 0 if there is none.
WalkFrom[i \in 1..Len(prices) + 1] ==
  IF i > Len(prices) THEN 0
  ELSE IF prices[i].account = account THEN prices[i].price_per_second
  ELSE WalkFrom[i + 1]

Walk == WalkFrom[1]

\* A meter that adds the price second by second and stops at the payment.
Meter[n \in 0..MaxU64] ==
  IF n = 0 THEN 0
  ELSE IF Meter[n - 1] + Walk > amount THEN amount
  ELSE Meter[n - 1] + Walk

(***************************************************************************)
(* settle_billing charges what a meter would: the price of every second of *)
(* the runtime, or of the minimum duration if the job was shorter, until   *)
(* the payment is used up.  Neither the saturating product nor the price   *)
(* list's duplicate entries make it differ.                                *)
(***************************************************************************)
ChargesAsMetered ==
  step = "settled" =>
    /\ cost = Meter[IF elapsed < min_duration THEN min_duration ELSE elapsed]
    /\ change = amount - cost

(***************************************************************************)
(* authorize_payment refuses exactly the payments that are not priced or   *)
(* that fall short of the true minimum: a minimum that overflows refuses   *)
(* nobody who could have paid it.                                          *)
(***************************************************************************)
RefusesOnlyShortPayments ==
  /\ step = "refused" => Walk = 0 \/ min_duration * Walk > amount
  /\ step \in {"authorized", "settled"} => Walk > 0 /\ min_duration * Walk <= amount

(***************************************************************************)
(* The granted runtime is one the payment covers in full, is the longest   *)
(* such runtime within the maximum, and is no shorter than the minimum     *)
(* that is billed in any case.                                             *)
(***************************************************************************)
TimeoutIsPaidFor ==
  step \in {"authorized", "settled"} =>
    /\ timeout * Walk <= amount
    /\ timeout = max_duration \/ (timeout + 1) * Walk > amount
    /\ min_duration <= timeout /\ timeout <= max_duration
=============================================================================
