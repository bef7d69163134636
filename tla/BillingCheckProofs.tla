------------------------- MODULE BillingCheckProofs -------------------------
(***************************************************************************)
(* What authorize_payment and settle_billing compute agrees with the walk  *)
(* along the price list and with the meter, for integers of every width,   *)
(* every price list, all durations and every amount and runtime.           *)
(***************************************************************************)
EXTENDS BillingCheck, BillingProofs

(***************************************************************************)
(* The inductive invariant: the configuration is one Config accepts, and   *)
(* the outcome is what the functions of Billing say.                       *)
(***************************************************************************)
Inputs ==
  /\ ValidPrices(prices, Accounts)
  /\ ValidDurations(min_duration, max_duration)
  /\ account \in Accounts /\ amount \in U64

Granted == Listed(prices, account) /\ CoversMinimum(amount, Price, min_duration)

Authorization ==
  /\ step = "refused" => ~Granted
  /\ step \in {"authorized", "settled"} =>
       Granted /\ timeout = Timeout(amount, Price, max_duration)

Settlement ==
  step = "settled" =>
    /\ elapsed \in U64
    /\ cost = Cost(amount, Price, elapsed, min_duration)
    /\ change = Change(amount, Price, elapsed, min_duration)

IInv ==
  /\ step \in {"claimed", "authorized", "refused", "settled"}
  /\ Inputs /\ Authorization /\ Settlement
-----------------------------------------------------------------------------
\* The invariant holds of a payment that has just been claimed.
LEMMA InitIInv == Init => IInv
<1> SUFFICES ASSUME Init PROVE IInv
  OBVIOUS
<1>1. ValidPrices(prices, Accounts)
  <2> DEFINE Listing == [account : Accounts, price_per_second : U64 \ {0}]
  <2>1. PICK n \in 1..MaxEntries : prices \in [1..n -> Entry]
    BY DEF Init
  <2>2. Entry \subseteq Listing
    BY BoundAssumption DEF Entry
  <2>3. n \in Nat /\ n > 0
    BY BoundAssumption
  <2> HIDE DEF Listing
  <2>4. prices \in Seq(Listing) /\ Len(prices) = n
    BY <2>1, <2>2, <2>3
  <2>5. prices # <<>>
    BY <2>3, <2>4
  <2> QED  BY <2>4, <2>5 DEF ValidPrices, Listing
<1> QED  BY <1>1 DEF Init, IInv, Inputs, Authorization, Settlement

\* Both steps preserve the invariant.
LEMMA NextKeepsIInv == IInv /\ [Next]_vars => IInv'
<1> SUFFICES ASSUME IInv, [Next]_vars PROVE IInv'
  OBVIOUS
<1>1. CASE AuthorizePayment
  <2>1. UNCHANGED <<config, account, amount>>
    BY <1>1 DEF AuthorizePayment
  <2>2. Inputs' /\ Price' = Price /\ Granted' = Granted
    BY <2>1 DEF IInv, Inputs, Granted, Price, config
  <2>3. \/ step' = "authorized" /\ Granted /\ timeout' = Timeout(amount, Price, max_duration)
        \/ step' = "refused" /\ ~Granted
    BY <1>1 DEF AuthorizePayment, Granted
  <2> QED  BY <2>1, <2>2, <2>3 DEF IInv, Authorization, Settlement, config
<1>2. CASE SettleBilling
  <2>1. step = "authorized" /\ step' = "settled" /\ UNCHANGED <<config, account, amount, timeout>>
    BY <1>2 DEF SettleBilling
  <2>2. Inputs' /\ Price' = Price /\ Granted' = Granted
    BY <2>1 DEF IInv, Inputs, Granted, Price, config
  <2>3. Authorization'
    BY <2>1, <2>2 DEF IInv, Authorization, config
  <2>4. Settlement'
    BY <1>2, <2>1, <2>2 DEF SettleBilling, Settlement, config
  <2> QED  BY <2>1, <2>2, <2>3, <2>4 DEF IInv
<1>3. CASE UNCHANGED vars
  <2>1. Inputs' /\ Price' = Price /\ Granted' = Granted
    BY <1>3 DEF IInv, Inputs, Granted, Price, vars, config
  <2> QED  BY <1>3, <2>1 DEF IInv, Authorization, Settlement, vars, config
<1> QED  BY <1>1, <1>2, <1>3 DEF Next

\* The invariant holds of every payment.
LEMMA Invariance == Spec => []IInv
BY InitIInv, NextKeepsIInv, PTL DEF Spec
-----------------------------------------------------------------------------
(***************************************************************************)
(* The walk along the list.                                                *)
(***************************************************************************)
\* A price list is a sequence of entries.
LEMMA ListShape ==
  ASSUME ValidPrices(prices, Accounts)
  PROVE  /\ Len(prices) \in Nat /\ DOMAIN prices = 1..Len(prices)
         /\ \A i \in 1..Len(prices) : prices[i].price_per_second \in U64 \ {0}
<1> DEFINE Listing == [account : Accounts, price_per_second : U64 \ {0}]
<1>1. prices \in Seq(Listing)
  BY DEF ValidPrices
<1> HIDE DEF Listing
<1>2. /\ Len(prices) \in Nat /\ DOMAIN prices = 1..Len(prices)
      /\ \A i \in 1..Len(prices) : prices[i] \in Listing
  BY <1>1
<1> QED  BY <1>2 DEF Listing

\* The definition of the walk is sound: a function satisfies its equation.
LEMMA WalkEquation ==
  ASSUME ValidPrices(prices, Accounts)
  PROVE  WalkFrom = [i \in 1..Len(prices) + 1 |->
                       IF i > Len(prices) THEN 0
                       ELSE IF prices[i].account = account THEN prices[i].price_per_second
                       ELSE WalkFrom[i + 1]]
<1> DEFINE last == Len(prices)
           Match(i) == {k \in i..last : prices[k].account = account}
           First(i) == CHOOSE k \in Match(i) : \A j \in Match(i) : k <= j
           w == [i \in 1..last + 1 |->
                   IF Match(i) = {} THEN 0 ELSE prices[First(i)].price_per_second]
<1>1. last \in Nat
  BY ListShape
<1>2. ASSUME NEW i \in 1..last + 1
      PROVE  w[i] = IF i > last THEN 0
                    ELSE IF prices[i].account = account THEN prices[i].price_per_second
                    ELSE w[i + 1]
  <2>1. CASE i > last
    BY <1>1, <2>1
  <2>2. CASE i <= last /\ prices[i].account = account
    <3>1. i \in Match(i) /\ \A j \in Match(i) : i <= j
      BY <1>1, <2>2
    <3>2. First(i) \in Match(i) /\ First(i) <= i
      BY <3>1
    <3>3. First(i) = i
      BY <1>1, <3>1, <3>2
    <3> QED  BY <1>1, <2>2, <3>1, <3>3
  <2>3. CASE i <= last /\ prices[i].account # account
    <3>1. Match(i) = Match(i + 1)
      BY <1>1, <2>3
    <3>2. i + 1 \in 1..last + 1
      BY <1>1, <2>3
    <3> HIDE DEF Match
    <3> QED  BY <1>1, <2>3, <3>1, <3>2
  <2> QED  BY <1>1, <2>1, <2>2, <2>3
<1>3. w = [i \in 1..last + 1 |->
             IF i > last THEN 0
             ELSE IF prices[i].account = account THEN prices[i].price_per_second
             ELSE w[i + 1]]
  <2>1. w = [i \in 1..last + 1 |-> w[i]]
    OBVIOUS
  <2> HIDE DEF w, Match
  <2> QED  BY <1>2, <2>1
<1> HIDE DEF w
<1> QED  BY <1>3 DEF WalkFrom

\* Up to the first entry for the account, and to the end if there is none, the
\* walk goes on.
LEMMA WalkGoesOn ==
  ASSUME ValidPrices(prices, Accounts), NEW n \in 1..Len(prices) + 1,
         \A i \in 1..n - 1 : prices[i].account # account
  PROVE  Walk = WalkFrom[n]
<1> DEFINE Reached == {i \in 1..n : Walk = WalkFrom[i]}
           Missed  == (1..n) \ Reached
<1>1. Len(prices) \in Nat
  BY ListShape
<1>2. SUFFICES ASSUME Missed # {} PROVE FALSE
  BY <1>1
<1>3. Missed \subseteq Nat
  OBVIOUS
<1>4. PICK least \in Missed : \A i \in Missed : least <= i
  BY <1>2, <1>3, LeastElement
<1>5. least # 1
  BY <1>1 DEF Walk
<1>6. least - 1 \in 1..n /\ least - 1 \notin Missed
  BY <1>1, <1>4, <1>5
<1>7. Walk = WalkFrom[least - 1]
  BY <1>6
<1>8. WalkFrom[least - 1] = WalkFrom[(least - 1) + 1]
  <2>1. least - 1 \in 1..Len(prices) + 1 /\ ~(least - 1 > Len(prices))
        /\ prices[least - 1].account # account
    BY <1>1, <1>4, <1>6
  <2> QED  BY <2>1, WalkEquation
<1>9. (least - 1) + 1 = least
  BY <1>1, <1>4
<1> QED  BY <1>4, <1>7, <1>8, <1>9

(***************************************************************************)
(* find_price is the walk along the list, duplicates included; the walk    *)
(* finds nothing exactly if the account is not listed.                     *)
(***************************************************************************)
THEOREM WalkIsFindPrice ==
  ASSUME Inputs
  PROVE  /\ Listed(prices, account)  => Walk = Price /\ Price \in U64 \ {0}
         /\ ~Listed(prices, account) => Walk = 0
<1>1. ValidPrices(prices, Accounts)
  BY DEF Inputs
<1>2. Len(prices) \in Nat /\ DOMAIN prices = 1..Len(prices)
  BY <1>1, ListShape
<1>3. ASSUME Listed(prices, account)
      PROVE  Walk = Price /\ Price \in U64 \ {0}
  <2>1. PICK i \in DOMAIN prices :
          /\ prices[i].account = account
          /\ Price = prices[i].price_per_second
          /\ \A j \in DOMAIN prices : prices[j].account = account => i <= j
    BY <1>1, <1>3, FindPriceIsFirstEntry DEF Price
  <2>2. i \in 1..Len(prices) + 1 /\ \A j \in 1..i - 1 : prices[j].account # account
    BY <1>2, <2>1
  <2>3. Walk = WalkFrom[i]
    BY <1>1, <2>2, WalkGoesOn
  <2>4. WalkFrom[i] = prices[i].price_per_second
    BY <1>1, <1>2, <2>1, <2>2, WalkEquation
  <2>5. Price \in U64 \ {0}
    BY <1>1, <1>3, FindPriceIsFirstEntry DEF Price
  <2> QED  BY <2>1, <2>3, <2>4, <2>5
<1>4. ASSUME ~Listed(prices, account)
      PROVE  Walk = 0
  <2> DEFINE end == Len(prices) + 1
  <2>1. end \in 1..Len(prices) + 1 /\ \A j \in 1..end - 1 : prices[j].account # account
    BY <1>2, <1>4 DEF Listed
  <2>2. Walk = WalkFrom[end]
    BY <1>1, <2>1, WalkGoesOn
  <2>3. WalkFrom[end] = 0
    BY <1>1, <1>2, <2>1, WalkEquation
  <2> QED  BY <2>2, <2>3
<1> QED  BY <1>3, <1>4
-----------------------------------------------------------------------------
(***************************************************************************)
(* The meter.                                                              *)
(***************************************************************************)
\* After n + 1 seconds the meter shows one price more than after n, up to the payment.
LEMMA MeterStep ==
  ASSUME NEW n \in Nat, NEW price \in Nat, NEW paid \in Nat
  PROVE  Smaller((n + 1) * price, paid)
           = IF Smaller(n * price, paid) + price > paid THEN paid
             ELSE Smaller(n * price, paid) + price
<1>1. n * price \in Nat /\ (n + 1) * price = n * price + price
  OBVIOUS
<1> QED  BY <1>1 DEF Smaller

(***************************************************************************)
(* The meter shows the exact product of price and seconds, capped at the   *)
(* payment.                                                                *)
(***************************************************************************)
LEMMA MeterIsCappedProduct ==
  ASSUME Walk \in Nat, amount \in Nat, NEW n \in 0..MaxU64
  PROVE  Meter[n] = Smaller(n * Walk, amount)
<1> DEFINE m == [k \in 0..MaxU64 |-> Smaller(k * Walk, amount)]
<1>1. ASSUME NEW k \in 0..MaxU64
      PROVE  m[k] = IF k = 0 THEN 0
                    ELSE IF m[k - 1] + Walk > amount THEN amount
                    ELSE m[k - 1] + Walk
  <2>1. CASE k = 0
    BY <2>1 DEF Smaller
  <2>2. CASE k # 0
    <3>1. k - 1 \in 0..MaxU64 /\ k - 1 \in Nat /\ (k - 1) + 1 = k
      BY <2>2, MaxU64Assumption
    <3>2. m[k - 1] = Smaller((k - 1) * Walk, amount) /\ m[k] = Smaller(k * Walk, amount)
      BY <3>1
    <3>3. Smaller(((k - 1) + 1) * Walk, amount)
            = IF Smaller((k - 1) * Walk, amount) + Walk > amount THEN amount
              ELSE Smaller((k - 1) * Walk, amount) + Walk
      BY <3>1, MeterStep
    <3> HIDE DEF m
    <3> QED  BY <2>2, <3>1, <3>2, <3>3
  <2> QED  BY <2>1, <2>2
<1>2. m = [k \in 0..MaxU64 |->
             IF k = 0 THEN 0
             ELSE IF m[k - 1] + Walk > amount THEN amount ELSE m[k - 1] + Walk]
  BY <1>1
<1>3. Meter = [k \in 0..MaxU64 |->
                 IF k = 0 THEN 0
                 ELSE IF Meter[k - 1] + Walk > amount THEN amount ELSE Meter[k - 1] + Walk]
  <2> HIDE DEF m
  <2> QED  BY <1>2 DEF Meter
<1> DEFINE Wrong == {k \in 0..MaxU64 : Meter[k] # m[k]}
<1>4. Wrong = {}
  <2> HIDE DEF m
  <2> SUFFICES ASSUME Wrong # {} PROVE FALSE
    OBVIOUS
  <2>1. Wrong \subseteq Nat
    OBVIOUS
  <2>2. PICK least \in Wrong : \A k \in Wrong : least <= k
    BY <2>1, LeastElement
  <2>3. CASE least = 0
    BY <1>1, <1>3, <2>2, <2>3
  <2>4. CASE least # 0
    <3>1. least - 1 \in 0..MaxU64 /\ least - 1 \notin Wrong
      BY <2>2, <2>4, MaxU64Assumption
    <3>2. Meter[least - 1] = m[least - 1]
      BY <3>1
    <3> QED  BY <1>1, <1>3, <2>2, <2>4, <3>2
  <2> QED  BY <2>3, <2>4
<1> QED  BY <1>4
-----------------------------------------------------------------------------
(***************************************************************************)
(* settle_billing charges what the meter shows: the saturation of the      *)
(* product is invisible, because the payment it is compared with fits the  *)
(* integers.                                                               *)
(***************************************************************************)
THEOREM MeterAgrees == Spec => []ChargesAsMetered
<1>1. IInv => ChargesAsMetered
  <2> SUFFICES ASSUME IInv, step = "settled"
               PROVE  /\ cost = Meter[IF elapsed < min_duration THEN min_duration ELSE elapsed]
                      /\ change = amount - cost
    BY DEF ChargesAsMetered
  <2> DEFINE seconds == Billable(elapsed, min_duration)
  <2>1. /\ Inputs /\ Granted /\ elapsed \in U64
        /\ cost = Cost(amount, Price, elapsed, min_duration)
        /\ change = Change(amount, Price, elapsed, min_duration)
    BY DEF IInv, Authorization, Settlement
  <2>2. Walk = Price /\ Price \in Nat
    BY <2>1, WalkIsFindPrice DEF Granted, U64
  <2>3. /\ amount \in Nat /\ amount <= MaxU64 /\ min_duration \in U64
        /\ elapsed \in Nat /\ min_duration \in Nat
    BY <2>1, MaxU64Assumption DEF Inputs, ValidDurations, U64
  <2>4. seconds \in 0..MaxU64 /\ seconds \in Nat
        /\ seconds = IF elapsed < min_duration THEN min_duration ELSE elapsed
    BY <2>1, <2>3 DEF Billable, Larger, U64
  <2> HIDE DEF seconds
  <2>5. Meter[seconds] = Smaller(seconds * Walk, amount)
    BY <2>2, <2>3, <2>4, MeterIsCappedProduct
  <2>6. cost = Smaller(Smaller(seconds * Price, MaxU64), amount)
    BY <2>1 DEF Cost, SaturatingMul, seconds
  <2>7. seconds * Price \in Nat
    BY <2>2, <2>4
  <2>8. cost = Smaller(seconds * Price, amount)
    BY <2>3, <2>6, <2>7, MaxU64Assumption DEF Smaller
  <2>9. cost \in Nat /\ change \in Nat /\ cost + change = amount
    BY <2>1, <2>2, <2>3, ChangeLeavesMinimum, CostBetweenMinimumAndPayment
  <2> QED  BY <2>2, <2>3, <2>4, <2>5, <2>8, <2>9
<1> QED  BY <1>1, Invariance, PTL

(***************************************************************************)
(* authorize_payment refuses the unpriced and the short payments and no    *)
(* others: a minimum that does not fit the integers exceeds every payment. *)
(***************************************************************************)
THEOREM RefusalsAreJust == Spec => []RefusesOnlyShortPayments
<1>1. IInv => RefusesOnlyShortPayments
  <2> SUFFICES ASSUME IInv
               PROVE  /\ step = "refused" => Walk = 0 \/ min_duration * Walk > amount
                      /\ step \in {"authorized", "settled"} =>
                           Walk > 0 /\ min_duration * Walk <= amount
    BY DEF RefusesOnlyShortPayments
  <2>1. Inputs
    BY DEF IInv
  <2>2. amount \in Nat /\ amount <= MaxU64 /\ min_duration \in Nat
    BY <2>1, MaxU64Assumption DEF Inputs, ValidDurations, U64
  <2>3. CASE Listed(prices, account)
    <3>1. Walk = Price /\ Price \in Nat \ {0}
      BY <2>1, <2>3, WalkIsFindPrice, MaxU64Assumption DEF U64
    <3>2. min_duration * Price \in Nat
      BY <2>2, <3>1
    <3>3. step = "refused" => min_duration * Price > amount
      BY <2>2, <2>3, <3>2, MaxU64Assumption DEF IInv, Authorization, Granted, CoversMinimum
    <3>4. step \in {"authorized", "settled"} => min_duration * Price <= amount
      BY DEF IInv, Authorization, Granted, CoversMinimum
    <3> QED  BY <3>1, <3>3, <3>4
  <2>4. CASE ~Listed(prices, account)
    <3>1. Walk = 0
      BY <2>1, <2>4, WalkIsFindPrice
    <3> QED  BY <2>4, <3>1 DEF IInv, Authorization, Granted
  <2> QED  BY <2>3, <2>4
<1> QED  BY <1>1, Invariance, PTL

(***************************************************************************)
(* The granted runtime is paid for, is the longest such runtime within the *)
(* maximum, and covers the minimum.                                        *)
(***************************************************************************)
THEOREM GrantsWhatIsPaid == Spec => []TimeoutIsPaidFor
<1>1. IInv => TimeoutIsPaidFor
  <2> SUFFICES ASSUME IInv, step \in {"authorized", "settled"}
               PROVE  /\ timeout * Walk <= amount
                      /\ timeout = max_duration \/ (timeout + 1) * Walk > amount
                      /\ min_duration <= timeout /\ timeout <= max_duration
    BY DEF TimeoutIsPaidFor
  <2>1. Inputs /\ Granted /\ timeout = Timeout(amount, Price, max_duration)
    BY DEF IInv, Authorization
  <2>2. Walk = Price /\ Price \in Nat \ {0}
    BY <2>1, WalkIsFindPrice, MaxU64Assumption DEF Granted, U64
  <2>3. /\ amount \in Nat /\ min_duration \in Nat /\ max_duration \in Nat
        /\ min_duration <= max_duration
    BY <2>1, MaxU64Assumption DEF Inputs, ValidDurations, U64
  <2>4. timeout \in Nat /\ timeout * Price <= amount /\ min_duration <= timeout
    BY <2>1, <2>2, <2>3, TimeoutCoversMinimum DEF Granted
  <2> DEFINE prepaid == amount \div Price
  <2>5. prepaid \in Nat /\ amount < (prepaid + 1) * Price
    BY <2>2, <2>3
  <2>6. timeout = Smaller(prepaid, max_duration)
    BY <2>1 DEF Timeout, PrepaidSeconds
  <2> HIDE DEF prepaid
  <2>7. timeout <= max_duration /\ (timeout = max_duration \/ timeout = prepaid)
    BY <2>3, <2>5, <2>6 DEF Smaller
  <2> QED  BY <2>2, <2>4, <2>5, <2>7
<1> QED  BY <1>1, Invariance, PTL
=============================================================================
