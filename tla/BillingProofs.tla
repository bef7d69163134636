---------------------------- MODULE BillingProofs ----------------------------
(***************************************************************************)
(* Facts about the billing operators for every integer width, price list   *)
(* and payment.                                                            *)
(***************************************************************************)
EXTENDS Billing, WellFoundedInduction, TLAPS

\* A product is monotone in its first factor.
LEMMA ProductMonotone ==
  ASSUME NEW a \in Nat, NEW b \in Nat, NEW p \in Nat, a <= b
  PROVE  a * p \in Nat /\ b * p \in Nat /\ a * p <= b * p
<1>1. a * p \in Nat /\ b * p \in Nat
  OBVIOUS
<1>2. PICK d \in Nat : b = a + d
  <2>1. b - a \in Nat /\ b = a + (b - a)
    OBVIOUS
  <2> QED  BY <2>1
<1>3. b * p = a * p + d * p /\ d * p \in Nat
  BY <1>2
<1> QED  BY <1>1, <1>3

(***************************************************************************)
(* The cost never exceeds the payment and, if the payment was authorised,  *)
(* is at least the minimum, whatever runtime is reported                   *)
(* (settle_billing in src/payments.rs).                                    *)
(***************************************************************************)
THEOREM CostBetweenMinimumAndPayment ==
  ASSUME NEW amount \in Nat, NEW price \in Nat, NEW elapsed \in Nat,
         NEW min_duration \in Nat
  PROVE  LET cost == Cost(amount, price, elapsed, min_duration)
         IN  /\ cost \in Nat
             /\ cost <= amount
             /\ CoversMinimum(amount, price, min_duration) => min_duration * price <= cost
<1> DEFINE seconds == Billable(elapsed, min_duration)
<1>1. seconds \in Nat /\ min_duration <= seconds
  BY DEF Billable, Larger
<1>2. seconds * price \in Nat /\ min_duration * price <= seconds * price
  BY <1>1, ProductMonotone
<1>3. SaturatingMul(seconds, price) \in Nat
  BY <1>2, MaxU64Assumption DEF SaturatingMul, Smaller
<1>4. CoversMinimum(amount, price, min_duration)
        => min_duration * price <= SaturatingMul(seconds, price)
  BY <1>2, MaxU64Assumption DEF SaturatingMul, Smaller, CoversMinimum
<1>5. Cost(amount, price, elapsed, min_duration)
        = Smaller(SaturatingMul(seconds, price), amount)
  BY DEF Cost
<1>6. min_duration * price \in Nat
  OBVIOUS
<1> HIDE DEF seconds
<1> QED  BY <1>3, <1>4, <1>5, <1>6 DEF Smaller, CoversMinimum

(***************************************************************************)
(* Cost and change make up the payment, and the change of an authorised    *)
(* payment leaves the worker the minimum.                                  *)
(***************************************************************************)
THEOREM ChangeLeavesMinimum ==
  ASSUME NEW amount \in Nat, NEW price \in Nat, NEW elapsed \in Nat,
         NEW min_duration \in Nat
  PROVE  LET cost   == Cost(amount, price, elapsed, min_duration)
             change == Change(amount, price, elapsed, min_duration)
         IN  /\ change \in Nat
             /\ cost + change = amount
             /\ CoversMinimum(amount, price, min_duration)
                  => change + min_duration * price <= amount
<1> DEFINE cost == Cost(amount, price, elapsed, min_duration)
<1>1. /\ cost \in Nat /\ cost <= amount
      /\ CoversMinimum(amount, price, min_duration) => min_duration * price <= cost
  BY CostBetweenMinimumAndPayment
<1>2. Change(amount, price, elapsed, min_duration) = Larger(amount - cost, 0)
  BY DEF Change
<1>3. min_duration * price \in Nat
  OBVIOUS
<1> HIDE DEF cost
<1>4. Larger(amount - cost, 0) = amount - cost
  BY <1>1 DEF Larger
<1> QED  BY <1>1, <1>2, <1>3, <1>4 DEF cost

(***************************************************************************)
(* The granted runtime is paid for in full, no shorter than the minimum    *)
(* duration and no longer than the maximum, and a second more would not be *)
(* paid for or exceed the maximum (authorize_payment in src/payments.rs).  *)
(***************************************************************************)
THEOREM TimeoutCoversMinimum ==
  ASSUME NEW amount \in Nat, NEW price \in Nat \ {0},
         NEW min_duration \in Nat, NEW max_duration \in Nat,
         min_duration <= max_duration,
         CoversMinimum(amount, price, min_duration)
  PROVE  /\ Timeout(amount, price, max_duration) \in Nat
         /\ Timeout(amount, price, max_duration) * price <= amount
         /\ Timeout(amount, price, max_duration) \in min_duration..max_duration
         /\ \/ Timeout(amount, price, max_duration) = max_duration
            \/ amount < (Timeout(amount, price, max_duration) + 1) * price
<1> DEFINE prepaid == amount \div price
<1>1. prepaid \in Nat /\ prepaid * price <= amount /\ amount < (prepaid + 1) * price
  OBVIOUS
<1>2. min_duration * price <= amount
  BY DEF CoversMinimum
<1> HIDE DEF prepaid
<1>3. min_duration <= prepaid
  <2> SUFFICES ASSUME prepaid + 1 <= min_duration PROVE FALSE
    BY <1>1
  <2>1. (prepaid + 1) * price <= min_duration * price
    BY <1>1, ProductMonotone
  <2>2. (prepaid + 1) * price \in Nat /\ min_duration * price \in Nat
    BY <1>1
  <2> QED  BY <1>1, <1>2, <2>1, <2>2
<1>4. Timeout(amount, price, max_duration) = Smaller(prepaid, max_duration)
  BY DEF Timeout, PrepaidSeconds, prepaid
<1>5. /\ Smaller(prepaid, max_duration) \in Nat
      /\ Smaller(prepaid, max_duration) <= prepaid
      /\ Smaller(prepaid, max_duration) \in min_duration..max_duration
      /\ Smaller(prepaid, max_duration) \in {prepaid, max_duration}
  BY <1>1, <1>3 DEF Smaller
<1>6. Smaller(prepaid, max_duration) * price <= prepaid * price
  BY <1>1, <1>5, ProductMonotone
<1>7. Smaller(prepaid, max_duration) * price \in Nat /\ prepaid * price \in Nat
  BY <1>1, <1>5
<1> QED  BY <1>1, <1>4, <1>5, <1>6, <1>7

\* A non-empty set of natural numbers has a least element.
LEMMA LeastElement ==
  ASSUME NEW S, S \subseteq Nat, S # {}
  PROVE  \E least \in S : \A n \in S : least <= n
<1>1. PICK x \in S : \A y \in S : ~ (<<y, x>> \in OpToRel(<, Nat))
  BY NatLessThanWellFounded, WFMin
<1>2. ASSUME NEW n \in S PROVE x <= n
  <2>1. ~ (n < x)
    BY <1>1, <1>2 DEF OpToRel
  <2> QED  BY <2>1
<1> QED  BY <1>2

(***************************************************************************)
(* find_price in src/payments.rs returns the price of the first entry for  *)
(* an account, a positive integer, whenever the list names the account.    *)
(***************************************************************************)
THEOREM FindPriceIsFirstEntry ==
  ASSUME NEW prices, NEW A, ValidPrices(prices, A), NEW account,
         Listed(prices, account)
  PROVE  /\ account \in A
         /\ FindPrice(prices, account) \in U64 \ {0}
         /\ \E i \in DOMAIN prices :
              /\ prices[i].account = account
              /\ FindPrice(prices, account) = prices[i].price_per_second
              /\ \A j \in DOMAIN prices : prices[j].account = account => i <= j
<1> DEFINE matches == {i \in DOMAIN prices : prices[i].account = account}
           isFirst(i) == /\ prices[i].account = account
                         /\ \A j \in DOMAIN prices : prices[j].account = account => i <= j
           first == CHOOSE i \in DOMAIN prices : isFirst(i)
<1>1. /\ DOMAIN prices \subseteq Nat
      /\ \A i \in DOMAIN prices :
           prices[i] \in [account : A, price_per_second : U64 \ {0}]
  <2> DEFINE Entry == [account : A, price_per_second : U64 \ {0}]
  <2>1. prices \in Seq(Entry)
    BY DEF ValidPrices
  <2> HIDE DEF Entry
  <2>2. /\ Len(prices) \in Nat /\ DOMAIN prices = 1..Len(prices)
        /\ \A i \in DOMAIN prices : prices[i] \in Entry
    BY <2>1
  <2>3. DOMAIN prices \subseteq Nat
    BY <2>2
  <2> QED  BY <2>2, <2>3 DEF Entry
<1>2. matches \subseteq Nat /\ matches # {}
  BY <1>1 DEF Listed
<1>3. PICK least \in matches : \A i \in matches : least <= i
  BY <1>2, LeastElement
<1>4. least \in DOMAIN prices /\ isFirst(least)
  BY <1>3
<1>5. first \in DOMAIN prices /\ isFirst(first)
  BY <1>4
<1>6. FindPrice(prices, account) = prices[first].price_per_second
  BY DEF FindPrice
<1> HIDE DEF first
<1> QED  BY <1>1, <1>5, <1>6
=============================================================================
