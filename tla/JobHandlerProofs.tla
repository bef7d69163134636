-------------------------- MODULE JobHandlerProofs --------------------------
(***************************************************************************)
(* The safety properties of JobHandler for every set of events, tokens and *)
(* accounts, every price list and all bounds, and that it implements       *)
(* JobContract.  They follow from the inductive invariant IInv, those on   *)
(* jobs that run on from what StopInv and LostInv add to it.               *)
(***************************************************************************)
EXTENDS JobHandler, BillingProofs

-----------------------------------------------------------------------------
(***************************************************************************)
(* Constants.                                                              *)
(***************************************************************************)
\* The configured durations are natural numbers, the minimum within the maximum.
LEMMA Durations ==
  /\ MinDuration \in Nat /\ MaxDuration \in Nat
  /\ MinDuration <= MaxDuration
BY ConfigAssumption, MaxU64Assumption DEF ValidDurations, U64

\* The broadcast channel keeps at least one notification.
LEMMA QueueCapIsPositive == QueueCap \in Nat \ {0}
BY BoundAssumption

\* The one payment tag of a request that has just one is a token of the mint.
LEMMA TokenIsToken ==
  ASSUME NEW e \in Events, HasOneToken(e)
  PROVE  TokenOf(e) \in Tokens /\ Value[TokenOf(e)] \in Nat
<1>1. Request[e].payment \in Seq(Tokens \cup {None})
  BY RequestAssumption
<1>2. TokenOf(e) \in Tokens \cup {None}
  BY <1>1 DEF HasOneToken, TokenOf
<1>3. TokenOf(e) \in Tokens
  BY <1>2 DEF HasOneToken, TokenOf
<1> QED  BY <1>3, TokenAssumption, MaxU64Assumption DEF U64

\* What authorize_payment relies on: a payable request has a token, an account
\* and a positive price.
LEMMA PayableIsPriced ==
  ASSUME NEW e \in Events, Payable(e)
  PROVE  /\ HasOneToken(e)
         /\ TokenOf(e) \in Tokens /\ Value[TokenOf(e)] \in Nat
         /\ AccountFor(e) \in Accounts /\ AccountOf[TokenOf(e)] = AccountFor(e)
         /\ PriceFor(e) \in Nat \ {0}
         /\ Earned(e) \in Nat
<1>1. HasOneToken(e)
  BY DEF Payable, Acceptable
<1>2. TokenOf(e) \in Tokens /\ Value[TokenOf(e)] \in Nat
  BY <1>1, TokenIsToken
<1>3. AccountFor(e) \in Accounts /\ FindPrice(Prices, AccountFor(e)) \in U64 \ {0}
  BY FindPriceIsFirstEntry, ConfigAssumption DEF Payable
<1>4. PriceFor(e) \in Nat \ {0}
  BY <1>3, MaxU64Assumption DEF PriceFor, U64
<1>5. Earned(e) \in Nat
  BY <1>4, Durations DEF Earned
<1> QED  BY <1>1, <1>2, <1>3, <1>4, <1>5 DEF AccountFor

\* The bill for an authorised amount: cost and change of any runtime.
LEMMA BillOfCredit ==
  ASSUME NEW e \in Events, Payable(e), NEW amount \in Nat, NEW time \in Nat
  PROVE  /\ CostFor(e, amount, time) \in Nat
         /\ ChangeFor(e, amount, time) \in Nat
         /\ CostFor(e, amount, time) + ChangeFor(e, amount, time) = amount
         /\ CoversMinimum(amount, PriceFor(e), MinDuration)
              => ChangeFor(e, amount, time) + Earned(e) <= amount
         /\ TimeoutFor(e, amount) \in Nat
<1>1. PriceFor(e) \in Nat \ {0}
  BY PayableIsPriced
<1>2. /\ Cost(amount, PriceFor(e), time, MinDuration) \in Nat
  BY <1>1, Durations, CostBetweenMinimumAndPayment
<1>3. /\ Change(amount, PriceFor(e), time, MinDuration) \in Nat
      /\ Cost(amount, PriceFor(e), time, MinDuration)
           + Change(amount, PriceFor(e), time, MinDuration) = amount
      /\ CoversMinimum(amount, PriceFor(e), MinDuration)
           => Change(amount, PriceFor(e), time, MinDuration)
                + MinDuration * PriceFor(e) <= amount
  BY <1>1, Durations, ChangeLeavesMinimum
<1>4. TimeoutFor(e, amount) \in Nat
  BY <1>1, Durations DEF TimeoutFor, Timeout, PrepaidSeconds, Smaller
<1> QED  BY <1>2, <1>3, <1>4 DEF CostFor, ChangeFor, Earned

-----------------------------------------------------------------------------
(***************************************************************************)
(* Steps that leave the ledger and the mint alone preserve what the        *)
(* invariant says of them.                                                 *)
(***************************************************************************)
LedgerPart ==
  TakenOnlyWhenPayable /\ CreditIsPaid /\ OneBillPerPayment /\ BillAccountsForPayment

\* Such a step preserves the ledger's part of the invariant.
LEMMA LedgerFrame ==
  ASSUME LedgerPart, UNCHANGED <<redeemed, results, credit, posts, issued>>
  PROVE  LedgerPart'
BY DEF LedgerPart, TakenOnlyWhenPayable, CreditIsPaid, Billed, OneBillPerPayment,
       BillAccountsForPayment

-----------------------------------------------------------------------------
\* The invariant holds when the controller has just been started.
LEMMA InitIInv == Init => IInv
<1> SUFFICES ASSUME Init PROVE IInv
  OBVIOUS
<1> USE DEF Init
<1>1. TypeOK
  <2>1. response \in Response
    BY DEF Response, Blank, Statuses
  <2>2. inbox \in Seq(Events) /\ Len(inbox) <= QueueCap
    BY QueueCapIsPositive
  <2>3. balance \in [Accounts -> Nat]
    BY BoundAssumption
  <2> QED  BY <2>1, <2>2, <2>3
       DEF TypeOK, ControlTypes, QueueTypes, WalletTypes, LedgerTypes, Locations
<1>2. HandlerState /\ ReadingsHold /\ NotYet /\ ChangeIsTrue
  BY DEF HandlerState, ReadingsHold, NotYet, ChangeIsTrue, RestSteps, WalletSteps, PaidSteps
<1>3. TakenOnlyWhenPayable /\ CreditIsPaid /\ OneBillPerPayment /\ BillAccountsForPayment
  BY SentinelAssumption
     DEF TakenOnlyWhenPayable, CreditIsPaid, Billed, OneBillPerPayment,
         BillAccountsForPayment
<1> QED  BY <1>1, <1>2, <1>3 DEF IInv
-----------------------------------------------------------------------------
(***************************************************************************)
(* Helpers for the steps of the handler.                                   *)
(***************************************************************************)
\* WorkerJobResponse::invalid is a response.
LEMMA BlankIsResponse == Blank \in Response
BY DEF Blank, Response, Statuses

\* What a dispatch ends with is a response.
LEMMA OutcomeIsResponse ==
  ASSUME NEW status \in Statuses, NEW elapsed \in Nat
  PROVE  Outcome(status, elapsed) \in Response
BY DEF Outcome, Response

\* What the head of the queue and the rest of it are.
LEMMA InboxParts ==
  ASSUME IInv, inbox # <<>>
  PROVE  /\ Head(inbox) \in Events
         /\ Tail(inbox) \in Seq(Events)
         /\ Len(Tail(inbox)) <= QueueCap
<1>1. inbox \in Seq(Events) /\ Len(inbox) <= QueueCap
  BY DEF IInv, TypeOK, QueueTypes
<1> QED  BY <1>1, QueueCapIsPositive

\* Receiving a token adds its value to one account and leaves the others.
LEMMA CreditedIsBalance ==
  ASSUME WalletTypes, NEW t \in Tokens
  PROVE  /\ Credited(t) \in [Accounts -> Nat]
         /\ AccountOf[t] \in Accounts
              => Credited(t)[AccountOf[t]] = balance[AccountOf[t]] + Value[t]
<1>1. balance \in [Accounts -> Nat] /\ Value[t] \in Nat
  BY TokenAssumption, MaxU64Assumption DEF WalletTypes, U64
<1>2. CASE AccountOf[t] \in Accounts
  <2>1. balance[AccountOf[t]] + Value[t] \in Nat
    BY <1>1, <1>2
  <2> QED  BY <1>1, <1>2, <2>1 DEF Credited
<1>3. CASE AccountOf[t] \notin Accounts
  <2>1. Credited(t) = balance
    BY <1>1, <1>3 DEF Credited
  <2> QED  BY <1>1, <1>3, <2>1
<1> QED  BY <1>2, <1>3

\* What is known wherever the handler holds a claim.
LEMMA ClaimFacts ==
  ASSUME IInv, claimed > 0
  PROVE  /\ cur \in Events /\ claimed \in Nat /\ claimed = credit[cur]
         /\ Payable(cur) /\ redeemed[TokenOf(cur)] = cur
         /\ CoversMinimum(claimed, PriceFor(cur), MinDuration)
         /\ claimed <= Value[TokenOf(cur)]
         /\ AccountFor(cur) \in Accounts
         /\ \A time \in Nat : /\ CostFor(cur, claimed, time) \in Nat
                              /\ ChangeFor(cur, claimed, time) \in Nat
                              /\ CostFor(cur, claimed, time)
                                   + ChangeFor(cur, claimed, time) = claimed
                              /\ ChangeFor(cur, claimed, time) + Earned(cur) <= claimed
         /\ TimeoutFor(cur, claimed) \in Nat
<1>1. /\ cur \in Events /\ claimed \in Nat /\ claimed = credit[cur]
  BY DEF IInv, TypeOK, ControlTypes, HandlerState, RestSteps, PaidSteps
<1>2. /\ Payable(cur) /\ redeemed[TokenOf(cur)] = cur
      /\ CoversMinimum(claimed, PriceFor(cur), MinDuration)
      /\ claimed <= Value[TokenOf(cur)]
  BY <1>1 DEF IInv, CreditIsPaid
<1>3. AccountFor(cur) \in Accounts
  BY <1>1, <1>2, PayableIsPriced
<1>4. ASSUME NEW time \in Nat
      PROVE  /\ CostFor(cur, claimed, time) \in Nat
             /\ ChangeFor(cur, claimed, time) \in Nat
             /\ CostFor(cur, claimed, time) + ChangeFor(cur, claimed, time) = claimed
             /\ ChangeFor(cur, claimed, time) + Earned(cur) <= claimed
  BY <1>1, <1>2, BillOfCredit
<1>5. TimeoutFor(cur, claimed) \in Nat
  BY <1>1, <1>2, BillOfCredit
<1> QED  BY <1>1, <1>2, <1>3, <1>4, <1>5

-----------------------------------------------------------------------------
(***************************************************************************)
(* Steps that change neither the mint's record nor the ledger.             *)
(***************************************************************************)
\* A step that leaves the mint's record and the ledger alone preserves the
\* invariant if it preserves the parts about the handler's own state.
LEMMA QuietStep ==
  ASSUME IInv, UNCHANGED <<redeemed, results, credit, posts, issued>>,
         ControlTypes', QueueTypes', WalletTypes', LedgerTypes',
         HandlerState', ReadingsHold', NotYet', ChangeIsTrue'
  PROVE  IInv'
BY LedgerFrame DEF IInv, TypeOK, LedgerPart

\* A notification enters the queue; a full queue drops its oldest.
LEMMA DeliverKeeps ==
  ASSUME IInv, NEW e \in Events, Deliver(e)
  PROVE  IInv'
<1> USE DEF Deliver, control, wallet, ledger, budgets
<1>1. QueueTypes'
  <2>1. inbox \in Seq(Events) /\ Len(inbox) <= QueueCap /\ seen \subseteq Events
    BY DEF IInv, TypeOK, QueueTypes
  <2>2. CASE Len(inbox) = QueueCap
    <3>1. Tail(inbox) \in Seq(Events) /\ Len(Tail(inbox)) = QueueCap - 1
      BY <2>1, <2>2, QueueCapIsPositive
    <3> QED  BY <2>1, <2>2, <3>1, QueueCapIsPositive DEF QueueTypes
  <2>3. CASE Len(inbox) # QueueCap
    BY <2>1, <2>3, QueueCapIsPositive DEF QueueTypes
  <2> QED  BY <2>2, <2>3
<1>2. ControlTypes' /\ WalletTypes' /\ LedgerTypes'
  BY DEF IInv, TypeOK, ControlTypes, WalletTypes, LedgerTypes
<1>3. HandlerState' /\ ReadingsHold' /\ NotYet' /\ ChangeIsTrue'
  BY DEF IInv, HandlerState, ReadingsHold, NotYet, Billed, ChangeIsTrue, ChangeDue
<1>4. UNCHANGED <<redeemed, results, credit, posts, issued>>
  OBVIOUS
<1> QED  BY <1>1, <1>2, <1>3, <1>4, QuietStep

\* Taking a notification: nothing is claimed, the queue gets shorter.
LEMMA TakeFromInboxKeeps ==
  ASSUME IInv, IgnoreRequest \/ RejectRequest \/ TakeRequest
  PROVE  IInv'
<1>1. /\ pc = "idle" /\ inbox # <<>> /\ inbox' = Tail(inbox)
      /\ UNCHANGED <<before, claimed, sent, seen, wallet, running, ledger, budgets>>
  BY DEF IgnoreRequest, RejectRequest, TakeRequest, TakeFromInbox
<1>2. claimed = 0 /\ sent = 0 /\ cur = None
  BY <1>1 DEF IInv, HandlerState, RestSteps, PaidSteps
<1>3. /\ Head(inbox) \in Events /\ Tail(inbox) \in Seq(Events)
      /\ Len(Tail(inbox)) <= QueueCap
  BY <1>1, InboxParts
<1>4. \/ pc' = "idle" /\ UNCHANGED <<cur, response>>
      \/ pc' = "publish" /\ cur' = Head(inbox) /\ response' = Blank
      \/ pc' = "decode_token" /\ cur' = Head(inbox) /\ UNCHANGED response /\ Acceptable(cur')
  BY <1>1 DEF IgnoreRequest, RejectRequest, TakeRequest, Refuse
<1>5. ControlTypes'
  BY <1>1, <1>3, <1>4, BlankIsResponse DEF IInv, TypeOK, ControlTypes, Locations
<1>6. QueueTypes' /\ WalletTypes' /\ LedgerTypes'
  BY <1>1, <1>3 DEF IInv, TypeOK, QueueTypes, WalletTypes, LedgerTypes, wallet, ledger, budgets
<1>7. HandlerState'
  BY <1>1, <1>2, <1>3, <1>4
     DEF HandlerState, RestSteps, WalletSteps, PaidSteps
<1>8. ReadingsHold' /\ NotYet' /\ ChangeIsTrue'
  BY <1>1, <1>2, <1>4 DEF ReadingsHold, NotYet, ChangeIsTrue, PaidSteps
<1>9. UNCHANGED <<redeemed, results, credit, posts, issued>>
  BY <1>1 DEF wallet, ledger
<1> QED  BY <1>5, <1>6, <1>7, <1>8, <1>9, QuietStep

\* A claim that ends without the token being taken.
LEMMA RefuseKeeps ==
  ASSUME IInv, pc \in {"decode_token", "balance_before", "receive", "balance_after"},
         Refuse,
         UNCHANGED <<cur, before, claimed, sent, queue, wallet, running, ledger, budgets>>
  PROVE  IInv'
<1> USE DEF Refuse, queue, wallet, ledger, budgets
<1>1. cur \in Events /\ claimed = 0 /\ sent = 0
  BY DEF IInv, HandlerState, RestSteps, PaidSteps
<1>2. ControlTypes'
  BY BlankIsResponse DEF IInv, TypeOK, ControlTypes, Locations
<1>3. QueueTypes' /\ WalletTypes' /\ LedgerTypes'
  BY DEF IInv, TypeOK, QueueTypes, WalletTypes, LedgerTypes
<1>4. HandlerState'
  BY <1>1 DEF HandlerState, RestSteps, WalletSteps, PaidSteps
<1>5. ReadingsHold' /\ NotYet' /\ ChangeIsTrue'
  BY <1>1 DEF ReadingsHold, NotYet, ChangeIsTrue, PaidSteps
<1>6. UNCHANGED <<redeemed, results, credit, posts, issued>>
  OBVIOUS
<1> QED  BY <1>2, <1>3, <1>4, <1>5, <1>6, QuietStep

\* A cdk-cli call of claim_payment fails.
LEMMA CallFailsKeeps ==
  ASSUME IInv, CallFails
  PROVE  IInv'
BY RefuseKeeps DEF CallFails

\* decode-token names a priced account, or the request is refused.
LEMMA DecodeTokenKeeps ==
  ASSUME IInv, DecodeToken
  PROVE  IInv'
<1>1. CASE Listed(Prices, AccountFor(cur))
  <2> USE <1>1 DEF DecodeToken, queue, wallet, ledger, budgets
  <2>1. ControlTypes' /\ QueueTypes' /\ WalletTypes' /\ LedgerTypes'
    BY DEF IInv, TypeOK, ControlTypes, Locations, QueueTypes, WalletTypes, LedgerTypes
  <2>2. Payable(cur)
    BY DEF IInv, HandlerState, Payable
  <2>3. HandlerState'
    BY <2>2 DEF IInv, HandlerState, RestSteps, WalletSteps, PaidSteps
  <2>4. ReadingsHold' /\ NotYet' /\ ChangeIsTrue'
    BY DEF IInv, HandlerState, ReadingsHold, NotYet, ChangeIsTrue, PaidSteps
  <2>5. UNCHANGED <<redeemed, results, credit, posts, issued>>
    OBVIOUS
  <2> QED  BY <2>1, <2>3, <2>4, <2>5, QuietStep
<1>2. CASE ~Listed(Prices, AccountFor(cur))
  BY <1>2, RefuseKeeps DEF DecodeToken
<1> QED  BY <1>1, <1>2

\* The first reading equals the balance it is taken from.
LEMMA ReadBalanceBeforeKeeps ==
  ASSUME IInv, ReadBalanceBefore
  PROVE  IInv'
<1> USE DEF ReadBalanceBefore, Reading, queue, wallet, ledger, budgets
<1>1. cur \in Events /\ Payable(cur)
  BY DEF IInv, HandlerState, RestSteps, WalletSteps
<1>2. balance[AccountFor(cur)] \in Nat
  BY <1>1, PayableIsPriced DEF IInv, TypeOK, WalletTypes
<1>3. ControlTypes' /\ QueueTypes' /\ WalletTypes' /\ LedgerTypes'
  BY <1>2 DEF IInv, TypeOK, ControlTypes, Locations, QueueTypes, WalletTypes, LedgerTypes
<1>4. HandlerState'
  BY <1>1 DEF IInv, HandlerState, RestSteps, WalletSteps, PaidSteps
<1>5. ReadingsHold'
  BY <1>2 DEF ReadingsHold
<1>6. NotYet' /\ ChangeIsTrue'
  BY DEF IInv, HandlerState, NotYet, ChangeIsTrue, PaidSteps
<1>7. UNCHANGED <<redeemed, results, credit, posts, issued>>
  OBVIOUS
<1> QED  BY <1>3, <1>4, <1>5, <1>6, <1>7, QuietStep

\* Whatever the outcome of the dispatch, settling it leads to the change or
\* straight to the result.
LEMMA SettleKeeps ==
  ASSUME IInv, pc \in {"dispatch", "await", "respawn"},
         NEW answer \in Response, Settle(answer), running' \subseteq Events,
         UNCHANGED <<cur, before, claimed, sent, queue, wallet, ledger, budgets>>
  PROVE  IInv'
<1> USE DEF queue, wallet, ledger, budgets
<1>1. claimed > 0 /\ sent = 0 /\ issued[cur] = 0 /\ ~Billed(cur)
  BY DEF IInv, HandlerState, NotYet, PaidSteps
<1>2. cur \in Events /\ answer.elapsed \in Nat
  BY <1>1, ClaimFacts DEF Response
<1>3. ChangeFor(cur, claimed, answer.elapsed) \in Nat
  BY <1>1, <1>2, ClaimFacts
<1>4. /\ response' = answer
      /\ \/ pc' = "send_change"
         \/ pc' = "publish" /\ ChangeFor(cur, claimed, answer.elapsed) = 0
  BY <1>3 DEF Settle
<1>5. ControlTypes' /\ QueueTypes' /\ WalletTypes' /\ LedgerTypes'
  BY <1>4 DEF IInv, TypeOK, ControlTypes, Locations, QueueTypes, WalletTypes, LedgerTypes
<1>6. HandlerState'
  BY <1>1, <1>2, <1>4 DEF IInv, HandlerState, RestSteps, WalletSteps, PaidSteps
<1>7. ReadingsHold' /\ NotYet'
  BY <1>1, <1>4 DEF ReadingsHold, NotYet, Billed, PaidSteps
<1>8. ChangeIsTrue'
  BY <1>1, <1>4 DEF ChangeIsTrue, ChangeDue
<1>9. UNCHANGED <<redeemed, results, credit, posts, issued>>
  OBVIOUS
<1> QED  BY <1>5, <1>6, <1>7, <1>8, <1>9, QuietStep

\* The dispatch ends with an error other than the timeout.
LEMMA DispatchFailsKeeps ==
  ASSUME IInv, DispatchFails
  PROVE  IInv'
<1>1. Outcome("failure", 0) \in Response
  BY OutcomeIsResponse DEF Statuses
<1>2. running \subseteq Events
  BY DEF IInv, TypeOK, LedgerTypes
<1> QED  BY <1>1, <1>2, SettleKeeps DEF DispatchFails

\* The worker's answer, whatever status, runtime and errors it claims.
LEMMA WorkerAnswersKeeps ==
  ASSUME IInv, NEW reply \in Replies, WorkerAnswers(reply)
  PROVE  IInv'
<1>1. reply \in Response
  BY ReplyAssumption
<1>2. running' \subseteq Events
  BY DEF IInv, TypeOK, LedgerTypes, WorkerAnswers
<1> QED  BY <1>1, <1>2, SettleKeeps DEF WorkerAnswers

\* The paid runtime is over: the handler goes on to the respawn.
LEMMA DispatchTimesOutKeeps ==
  ASSUME IInv, DispatchTimesOut
  PROVE  IInv'
<1> USE DEF DispatchTimesOut, queue, wallet, ledger, budgets
<1>1. claimed > 0 /\ sent = 0 /\ issued[cur] = 0 /\ ~Billed(cur)
  BY DEF IInv, HandlerState, NotYet, PaidSteps
<1>2. response' \in Response
  BY <1>1, ClaimFacts, OutcomeIsResponse DEF Statuses
<1>3. ControlTypes' /\ QueueTypes' /\ WalletTypes' /\ LedgerTypes'
  BY <1>2 DEF IInv, TypeOK, ControlTypes, Locations, QueueTypes, WalletTypes, LedgerTypes
<1>4. HandlerState'
  BY <1>1 DEF IInv, HandlerState, RestSteps, WalletSteps, PaidSteps
<1>5. ReadingsHold' /\ NotYet' /\ ChangeIsTrue'
  BY <1>1 DEF ReadingsHold, NotYet, Billed, ChangeIsTrue, PaidSteps
<1>6. UNCHANGED <<redeemed, results, credit, posts, issued>>
  OBVIOUS
<1> QED  BY <1>3, <1>4, <1>5, <1>6, QuietStep

\* respawn_pool_container, whether or not the container survives it.
LEMMA RespawnKeeps ==
  ASSUME IInv, NEW killed \in BOOLEAN, NEW spawned \in BOOLEAN, Respawn(killed, spawned)
  PROVE  IInv'
<1> DEFINE answer == [response EXCEPT !.errors = IF spawned THEN @ ELSE @ \cup {"stop"}]
<1>1. response \in Response /\ running \subseteq Events
  BY DEF IInv, TypeOK, ControlTypes, LedgerTypes
<1>2. answer \in Response
  BY <1>1 DEF Response, Errors
<1>3. running' \subseteq Events
  BY <1>1 DEF Respawn, LeftRunning
<1> HIDE DEF answer
<1>4. Settle(answer)
  BY DEF Respawn, answer
<1> QED  BY <1>2, <1>3, <1>4, SettleKeeps DEF Respawn

\* A job ends while the handler is not waiting for its answer.
LEMMA JobEndsKeeps ==
  ASSUME IInv, NEW e \in Events, JobEnds(e)
  PROVE  IInv'
<1> USE DEF JobEnds, control, queue, wallet, ledger, budgets
<1>1. ControlTypes' /\ QueueTypes' /\ WalletTypes' /\ LedgerTypes'
  BY DEF IInv, TypeOK, ControlTypes, QueueTypes, WalletTypes, LedgerTypes
<1>2. HandlerState' /\ ReadingsHold' /\ NotYet' /\ ChangeIsTrue'
  BY DEF IInv, HandlerState, ReadingsHold, NotYet, Billed, ChangeIsTrue, ChangeDue
<1>3. UNCHANGED <<redeemed, results, credit, posts, issued>>
  OBVIOUS
<1> QED  BY <1>1, <1>2, <1>3, QuietStep

\* The operator's withdrawal can only bring a reading down.
LEMMA WithdrawKeeps ==
  ASSUME IInv, NEW a \in Accounts, Withdraw(a)
  PROVE  IInv'
<1> USE DEF Withdraw, control, queue, ledger
<1>1. ControlTypes' /\ QueueTypes' /\ WalletTypes' /\ LedgerTypes'
  BY DEF IInv, TypeOK, ControlTypes, QueueTypes, WalletTypes, LedgerTypes
<1>2. HandlerState' /\ NotYet' /\ ChangeIsTrue'
  BY DEF IInv, HandlerState, NotYet, Billed, ChangeIsTrue, ChangeDue
<1>3. ReadingsHold'
  <2>1. SUFFICES ASSUME pc \in {"receive", "balance_after"} PROVE ReadingsHold'
    BY DEF ReadingsHold
  <2>2. cur \in Events /\ Payable(cur)
    BY <2>1 DEF IInv, HandlerState, RestSteps, WalletSteps
  <2>3. AccountFor(cur) \in Accounts /\ Value[TokenOf(cur)] \in Nat /\ before \in Nat
    BY <2>2, PayableIsPriced DEF IInv, TypeOK, ControlTypes
  <2>4. /\ balance[AccountFor(cur)] \in Nat /\ balance'[AccountFor(cur)] \in Nat
        /\ balance'[AccountFor(cur)] <= balance[AccountFor(cur)]
    BY <2>3 DEF IInv, TypeOK, WalletTypes
  <2> QED  BY <2>3, <2>4 DEF IInv, ReadingsHold
<1>4. UNCHANGED <<redeemed, results, credit, posts, issued>>
  OBVIOUS
<1> QED  BY <1>1, <1>2, <1>3, <1>4, QuietStep

\* The process dies: the handler's variables and the queue are gone.
LEMMA CrashKeeps ==
  ASSUME IInv, Crash
  PROVE  IInv'
<1> USE DEF Crash, Rest, wallet, ledger
<1>1. ControlTypes' /\ QueueTypes'
  BY BlankIsResponse, QueueCapIsPositive DEF ControlTypes, Locations, QueueTypes
<1>2. WalletTypes' /\ LedgerTypes'
  BY DEF IInv, TypeOK, WalletTypes, LedgerTypes
<1>3. HandlerState' /\ ReadingsHold' /\ NotYet' /\ ChangeIsTrue'
  BY DEF HandlerState, ReadingsHold, NotYet, ChangeIsTrue, RestSteps, WalletSteps, PaidSteps
<1>4. UNCHANGED <<redeemed, results, credit, posts, issued>>
  OBVIOUS
<1> QED  BY <1>1, <1>2, <1>3, <1>4, QuietStep

\* Starting: from "down" to "starting", pending tokens credited, then "idle".
LEMMA StartKeeps ==
  ASSUME IInv, Restart \/ Listen \/ \E t \in Tokens : CheckPending(t)
  PROVE  IInv'
<1>1. /\ pc \in RestSteps /\ pc' \in RestSteps
      /\ UNCHANGED <<cur, before, claimed, response, sent, queue, redeemed, running,
                     ledger, budgets>>
      /\ pending' \subseteq pending
  BY DEF Restart, Listen, CheckPending, RestSteps, control, wallet
<1>2. balance' \in [Accounts -> Nat]
  <2>1. CASE Restart \/ Listen
    BY <2>1 DEF IInv, TypeOK, WalletTypes, Restart, Listen, wallet
  <2>2. ASSUME NEW t \in Tokens, CheckPending(t) PROVE balance' \in [Accounts -> Nat]
    BY <2>2, CreditedIsBalance DEF IInv, TypeOK, CheckPending
  <2> QED  BY <2>1, <2>2
<1>3. ControlTypes' /\ QueueTypes' /\ WalletTypes' /\ LedgerTypes'
  BY <1>1, <1>2
     DEF IInv, TypeOK, ControlTypes, Locations, QueueTypes, WalletTypes, LedgerTypes,
         RestSteps, queue, ledger, budgets
<1>4. HandlerState' /\ ReadingsHold' /\ NotYet' /\ ChangeIsTrue'
  BY <1>1 DEF IInv, HandlerState, ReadingsHold, NotYet, ChangeIsTrue, RestSteps,
              WalletSteps, PaidSteps
<1>5. UNCHANGED <<redeemed, results, credit, posts, issued>>
  BY <1>1 DEF ledger
<1> QED  BY <1>3, <1>4, <1>5, QuietStep

-----------------------------------------------------------------------------
(***************************************************************************)
(* Steps that spend a token at the mint.                                   *)
(***************************************************************************)
\* A token nobody has credit for may go to a payable request or an outsider.
LEMMA RedeemKeepsLedger ==
  ASSUME IInv, NEW t \in Tokens, NEW who \in Events \cup {Outsider},
         redeemed[t] \in {None, who}, Redeem(t, who),
         who \in Events => Payable(who) /\ TokenOf(who) = t,
         UNCHANGED <<results, credit, posts, issued>>
  PROVE  LedgerPart'
<1>1. redeemed \in [Tokens -> Events \cup {None, Outsider}]
  BY DEF IInv, TypeOK, WalletTypes
<1>2. TakenOnlyWhenPayable'
  <2> SUFFICES ASSUME NEW s \in Tokens, redeemed'[s] \in Events
               PROVE  Payable(redeemed'[s]) /\ TokenOf(redeemed'[s]) = s
    BY DEF TakenOnlyWhenPayable
  <2> QED  BY <1>1 DEF IInv, TakenOnlyWhenPayable, Redeem
<1>3. CreditIsPaid'
  <2> SUFFICES ASSUME NEW e \in Events, credit[e] > 0
               PROVE  redeemed'[TokenOf(e)] = e
    BY DEF IInv, CreditIsPaid, Billed
  <2>1. redeemed[TokenOf(e)] = e /\ TokenOf(e) \in Tokens
    BY PayableIsPriced DEF IInv, CreditIsPaid
  <2>2. TokenOf(e) = t => who = e
    BY <2>1, SentinelAssumption
  <2> QED  BY <1>1, <2>1, <2>2 DEF Redeem
<1>4. OneBillPerPayment' /\ BillAccountsForPayment'
  BY DEF IInv, OneBillPerPayment, BillAccountsForPayment
<1> QED  BY <1>2, <1>3, <1>4 DEF LedgerPart

\* Another holder spends a token nobody here has credit for.
LEMMA SpendElsewhereKeeps ==
  ASSUME IInv, NEW t \in Tokens, SpendElsewhere(t)
  PROVE  IInv'
<1> USE DEF SpendElsewhere, Redeem, control, queue, ledger, budgets
<1>1. LedgerPart'
  BY RedeemKeepsLedger, SentinelAssumption
<1>2. ControlTypes' /\ QueueTypes' /\ WalletTypes' /\ LedgerTypes'
  BY DEF IInv, TypeOK, ControlTypes, QueueTypes, WalletTypes, LedgerTypes
<1>3. HandlerState' /\ NotYet' /\ ChangeIsTrue'
  BY DEF IInv, HandlerState, NotYet, Billed, ChangeIsTrue, ChangeDue
<1>4. ReadingsHold'
  <2>1. ASSUME pc = "balance_after" PROVE redeemed'[TokenOf(cur)] = cur
    <3>1. cur \in Events /\ redeemed[TokenOf(cur)] = cur
      BY <2>1 DEF IInv, HandlerState, ReadingsHold, RestSteps
    <3>2. TokenOf(cur) # t
      BY <3>1, SentinelAssumption
    <3> QED  BY <3>1, <3>2 DEF IInv, TypeOK, WalletTypes
  <2> QED  BY <2>1 DEF IInv, ReadingsHold
<1> QED  BY <1>1, <1>2, <1>3, <1>4 DEF IInv, TypeOK, LedgerPart

\* What holds just before the handler receives the token of its request.
LEMMA ReceiveFacts ==
  ASSUME IInv, pc = "receive", Spendable(TokenOf(cur), SlotOf(cur))
  PROVE  /\ cur \in Events /\ Payable(cur) /\ TokenOf(cur) \in Tokens
         /\ claimed = 0 /\ sent = 0
         /\ redeemed[TokenOf(cur)] = None /\ credit[cur] = 0
<1>1. cur \in Events /\ Payable(cur) /\ claimed = 0 /\ sent = 0
  BY DEF IInv, HandlerState, RestSteps, WalletSteps, PaidSteps
<1>2. redeemed[TokenOf(cur)] = None
  BY DEF Spendable
<1>3. credit[cur] = 0
  BY <1>1, <1>2, SentinelAssumption DEF IInv, CreditIsPaid, TypeOK, LedgerTypes
<1> QED  BY <1>1, <1>2, <1>3, PayableIsPriced

\* A receive that prints no amount: the balance rises by the token's value.
LEMMA ReceiveSilentKeeps ==
  ASSUME IInv, ReceiveSilent
  PROVE  IInv'
<1> USE DEF ReceiveSilent, Redeem, queue, ledger, budgets
<1>1. /\ cur \in Events /\ Payable(cur) /\ TokenOf(cur) \in Tokens
      /\ claimed = 0 /\ sent = 0
      /\ redeemed[TokenOf(cur)] = None /\ credit[cur] = 0
  BY ReceiveFacts
<1>2. LedgerPart'
  BY <1>1, RedeemKeepsLedger
<1>3. WalletTypes'
  BY <1>1, CreditedIsBalance DEF IInv, TypeOK, WalletTypes
<1>4. ControlTypes' /\ QueueTypes' /\ LedgerTypes'
  BY DEF IInv, TypeOK, ControlTypes, Locations, QueueTypes, LedgerTypes
<1>5. HandlerState' /\ NotYet' /\ ChangeIsTrue'
  BY <1>1 DEF IInv, HandlerState, NotYet, ChangeIsTrue, RestSteps, WalletSteps, PaidSteps
<1>6. ReadingsHold'
  <2>1. /\ AccountFor(cur) \in Accounts /\ AccountOf[TokenOf(cur)] = AccountFor(cur)
        /\ Value[TokenOf(cur)] \in Nat
    BY <1>1, PayableIsPriced
  <2>2. /\ balance[AccountFor(cur)] \in Nat /\ before \in Nat
        /\ balance[AccountFor(cur)] <= before
    BY <2>1 DEF IInv, TypeOK, ControlTypes, WalletTypes, ReadingsHold
  <2>3. balance'[AccountFor(cur)] = balance[AccountFor(cur)] + Value[TokenOf(cur)]
    BY <1>1, <2>1, CreditedIsBalance DEF IInv, TypeOK
  <2>4. redeemed'[TokenOf(cur)] = cur
    BY <1>1 DEF IInv, TypeOK, WalletTypes
  <2> QED  BY <1>1, <2>1, <2>2, <2>3, <2>4 DEF ReadingsHold
<1> QED  BY <1>2, <1>3, <1>4, <1>5, <1>6 DEF IInv, TypeOK, LedgerPart

\* A receive that fails after the mint has spent the token.
LEMMA ReceiveBreaksKeeps ==
  ASSUME IInv, ReceiveBreaks
  PROVE  IInv'
<1> USE DEF ReceiveBreaks, Refuse, Redeem, queue, ledger, budgets
<1>1. /\ cur \in Events /\ Payable(cur) /\ TokenOf(cur) \in Tokens
      /\ claimed = 0 /\ sent = 0 /\ redeemed[TokenOf(cur)] = None
  BY ReceiveFacts
<1>2. LedgerPart'
  BY <1>1, RedeemKeepsLedger
<1>3. ControlTypes' /\ QueueTypes' /\ WalletTypes' /\ LedgerTypes'
  BY <1>1, BlankIsResponse
     DEF IInv, TypeOK, ControlTypes, Locations, QueueTypes, WalletTypes, LedgerTypes
<1>4. HandlerState' /\ ReadingsHold' /\ NotYet' /\ ChangeIsTrue'
  BY <1>1 DEF HandlerState, ReadingsHold, NotYet, ChangeIsTrue, RestSteps, WalletSteps,
              PaidSteps
<1> QED  BY <1>2, <1>3, <1>4 DEF IInv, TypeOK, LedgerPart

\* The end of a claim whose token is taken, for a credit the token covers.
LEMMA AuthorizeKeeps ==
  ASSUME IInv, pc \in {"receive", "balance_after"}, NEW amount \in Nat,
         Authorize(amount), amount <= Value[TokenOf(cur)], credit[cur] = 0,
         redeemed[TokenOf(cur)] \in {None, cur}, Redeem(TokenOf(cur), cur),
         balance' \in [Accounts -> Nat],
         UNCHANGED <<cur, before, sent, queue, pending, running,
                     results, posts, issued, budgets>>
  PROVE  IInv'
<1> USE DEF queue, budgets
<1>1. cur \in Events /\ Payable(cur) /\ claimed = 0 /\ sent = 0
  BY DEF IInv, HandlerState, RestSteps, WalletSteps, PaidSteps
<1>2. TokenOf(cur) \in Tokens /\ PriceFor(cur) \in Nat
  BY <1>1, PayableIsPriced
<1>3. WalletTypes' /\ QueueTypes'
  BY <1>1, <1>2 DEF IInv, TypeOK, WalletTypes, QueueTypes, Redeem
<1>4. CASE UNCHANGED credit
  <2>1. pc' = "publish" /\ response' = Blank /\ claimed' = 0
    BY <1>1, <1>4 DEF Authorize, Refuse, IInv, TypeOK, LedgerTypes
  <2>2. ControlTypes' /\ LedgerTypes'
    BY <1>4, <2>1, BlankIsResponse DEF IInv, TypeOK, ControlTypes, Locations, LedgerTypes
  <2>3. HandlerState' /\ ReadingsHold' /\ NotYet' /\ ChangeIsTrue'
    BY <1>1, <2>1 DEF HandlerState, ReadingsHold, NotYet, ChangeIsTrue, RestSteps,
                      WalletSteps, PaidSteps
  <2>4. LedgerPart'
    BY <1>1, <1>2, <1>4, RedeemKeepsLedger
  <2> QED  BY <1>3, <2>2, <2>3, <2>4 DEF IInv, TypeOK, LedgerPart
<1>5. CASE credit' # credit
  <2>1. /\ amount > 0 /\ CoversMinimum(amount, PriceFor(cur), MinDuration)
        /\ claimed' = amount /\ credit' = [credit EXCEPT ![cur] = amount]
        /\ pc' = "dispatch" /\ UNCHANGED response
    BY <1>5 DEF Authorize
  <2>2. ControlTypes' /\ LedgerTypes'
    BY <1>1, <2>1 DEF IInv, TypeOK, ControlTypes, Locations, LedgerTypes
  <2>3. posts[cur] = 0 /\ issued[cur] = 0 /\ ~Billed(cur)
    BY <1>1 DEF IInv, CreditIsPaid, TypeOK, LedgerTypes
  <2>4. credit'[cur] = amount /\ \A e \in Events \ {cur} : credit'[e] = credit[e]
    BY <1>1, <2>1 DEF IInv, TypeOK, LedgerTypes
  <2>5. HandlerState' /\ ReadingsHold' /\ NotYet' /\ ChangeIsTrue'
    BY <1>1, <2>1, <2>3, <2>4
       DEF HandlerState, ReadingsHold, NotYet, Billed, ChangeIsTrue, RestSteps,
           WalletSteps, PaidSteps
  <2>6. TakenOnlyWhenPayable'
    <3> SUFFICES ASSUME NEW s \in Tokens, redeemed'[s] \in Events
                 PROVE  Payable(redeemed'[s]) /\ TokenOf(redeemed'[s]) = s
      BY DEF TakenOnlyWhenPayable
    <3> QED  BY <1>1, <1>2 DEF IInv, TypeOK, WalletTypes, TakenOnlyWhenPayable, Redeem
  <2>7. CreditIsPaid'
    <3>1. ASSUME NEW e \in Events, e # cur, credit[e] > 0
          PROVE  redeemed'[TokenOf(e)] = e
      <4>1. redeemed[TokenOf(e)] = e /\ TokenOf(e) \in Tokens
        BY <3>1, PayableIsPriced DEF IInv, CreditIsPaid
      <4>2. TokenOf(e) # TokenOf(cur)
        BY <3>1, <4>1, SentinelAssumption
      <4> QED  BY <4>1, <4>2 DEF IInv, TypeOK, WalletTypes, Redeem
    <3>2. redeemed'[TokenOf(cur)] = cur
      BY <1>2 DEF IInv, TypeOK, WalletTypes, Redeem
    <3>3. Earned(cur) \in Nat /\ issued[cur] + Earned(cur) <= amount
      BY <1>1, <2>1, <2>3, PayableIsPriced DEF CoversMinimum, Earned
    <3>4. ASSUME NEW e \in Events
          PROVE  /\ credit'[e] > 0 =>
                      /\ Payable(e)
                      /\ redeemed'[TokenOf(e)] = e
                      /\ CoversMinimum(credit'[e], PriceFor(e), MinDuration)
                      /\ credit'[e] <= Value[TokenOf(e)]
                      /\ issued[e] + Earned(e) <= credit'[e]
                 /\ posts[e] > 0 \/ issued[e] > 0 \/ Billed(e) => credit'[e] > 0
                 /\ posts[e] <= 1
      <4>1. CASE e = cur
        BY <1>1, <2>1, <2>3, <2>4, <3>2, <3>3, <4>1
      <4>2. CASE e # cur
        BY <2>4, <3>1, <4>2 DEF IInv, CreditIsPaid
      <4> QED  BY <4>1, <4>2
    <3> QED  BY <3>4 DEF CreditIsPaid, Billed
  <2>8. \A r \in results : r.billed => r.event # cur
    BY <2>3 DEF Billed
  <2>9. OneBillPerPayment' /\ BillAccountsForPayment'
    <3>1. \A r \in results : r.billed => credit'[r.event] = credit[r.event]
      BY <2>4, <2>8 DEF IInv, TypeOK, LedgerTypes
    <3> QED  BY <3>1 DEF IInv, OneBillPerPayment, BillAccountsForPayment
  <2> QED  BY <1>3, <2>2, <2>5, <2>6, <2>7, <2>9 DEF IInv, TypeOK
<1> QED  BY <1>4, <1>5

\* A receive that prints the amount received.
LEMMA ReceivePrintedKeeps ==
  ASSUME IInv, ReceivePrinted
  PROVE  IInv'
<1>1. /\ cur \in Events /\ TokenOf(cur) \in Tokens
      /\ redeemed[TokenOf(cur)] = None /\ credit[cur] = 0
  BY ReceiveFacts DEF ReceivePrinted
<1>2. Value[TokenOf(cur)] \in Nat
  BY <1>1, TokenAssumption, MaxU64Assumption DEF U64
<1>3. balance' \in [Accounts -> Nat]
  BY <1>1, CreditedIsBalance DEF IInv, TypeOK, ReceivePrinted
<1> QED  BY <1>1, <1>2, <1>3, AuthorizeKeeps DEF ReceivePrinted

\* The difference of the two readings is no more than the token's value.
LEMMA ReadBalanceAfterKeeps ==
  ASSUME IInv, ReadBalanceAfter
  PROVE  IInv'
<1>1. /\ cur \in Events /\ Payable(cur) /\ redeemed[TokenOf(cur)] = cur /\ credit[cur] = 0
      /\ claimed = 0
  BY DEF ReadBalanceAfter, IInv, HandlerState, ReadingsHold, RestSteps, WalletSteps, PaidSteps
<1>2. /\ TokenOf(cur) \in Tokens /\ Value[TokenOf(cur)] \in Nat
      /\ Reading \in Nat /\ before \in Nat /\ Reading <= before + Value[TokenOf(cur)]
  BY <1>1, PayableIsPriced
     DEF ReadBalanceAfter, Reading, IInv, TypeOK, ControlTypes, WalletTypes, ReadingsHold
<1>3. Redeem(TokenOf(cur), cur) /\ balance' \in [Accounts -> Nat]
  BY <1>1, <1>2 DEF ReadBalanceAfter, Redeem, wallet, IInv, TypeOK, WalletTypes
<1>4. CASE DeltaReadable(before, Reading)
  <2>1. ReceivedDelta(before, Reading) \in Nat
    BY <1>2, <1>4 DEF DeltaReadable, ReceivedDelta
  <2>2. ReceivedDelta(before, Reading) <= Value[TokenOf(cur)]
    BY <1>2 DEF ReceivedDelta
  <2>3. Authorize(ReceivedDelta(before, Reading))
    BY <1>4 DEF ReadBalanceAfter
  <2> QED  BY <1>1, <1>3, <2>1, <2>2, <2>3, AuthorizeKeeps DEF ReadBalanceAfter, wallet
<1>5. CASE ~DeltaReadable(before, Reading)
  BY <1>5, RefuseKeeps DEF ReadBalanceAfter, ledger
<1> QED  BY <1>4, <1>5

-----------------------------------------------------------------------------
(***************************************************************************)
(* Steps that write the ledger: the job is posted, change leaves, a result *)
(* is published.                                                           *)
(***************************************************************************)
\* The job is posted to the worker, for the first time.
LEMMA PostJobKeeps ==
  ASSUME IInv, PostJob
  PROVE  IInv'
<1> USE DEF PostJob, queue, wallet, budgets
<1>1. /\ claimed > 0 /\ sent = 0 /\ posts[cur] = 0 /\ issued[cur] = 0 /\ ~Billed(cur)
  BY DEF IInv, HandlerState, NotYet, PaidSteps
<1>2. cur \in Events /\ credit[cur] > 0
  BY <1>1, ClaimFacts
<1>3. posts'[cur] = 1 /\ \A e \in Events \ {cur} : posts'[e] = posts[e]
  BY <1>1, <1>2 DEF IInv, TypeOK, LedgerTypes
<1>4. ControlTypes' /\ QueueTypes' /\ WalletTypes' /\ LedgerTypes'
  BY <1>2 DEF IInv, TypeOK, ControlTypes, Locations, QueueTypes, WalletTypes, LedgerTypes
<1>5. HandlerState' /\ ReadingsHold' /\ NotYet' /\ ChangeIsTrue'
  BY <1>1, <1>2
     DEF IInv, HandlerState, ReadingsHold, NotYet, Billed, ChangeIsTrue, RestSteps,
         WalletSteps, PaidSteps
<1>6. CreditIsPaid'
  BY <1>2, <1>3 DEF IInv, CreditIsPaid, Billed
<1>7. TakenOnlyWhenPayable' /\ OneBillPerPayment' /\ BillAccountsForPayment'
  BY DEF IInv, TakenOnlyWhenPayable, OneBillPerPayment, BillAccountsForPayment
<1> QED  BY <1>4, <1>5, <1>6, <1>7 DEF IInv, TypeOK

\* The attempt to send the change, whether or not the funds have left.
LEMMA ChangeStepKeeps ==
  ASSUME IInv, pc = "send_change", pc' = "publish",
         \/ TakeChange
         \/ UNCHANGED <<balance, issued>>,
         \/ TakeChange /\ sent' = ChangeDue /\ UNCHANGED response
         \/ UNCHANGED sent /\ response' = [response EXCEPT !.errors = @ \cup {"refund"}],
         UNCHANGED <<cur, before, claimed, queue, redeemed, pending, running,
                     results, credit, posts, budgets>>
  PROVE  IInv'
<1> USE DEF queue, budgets
<1>1. claimed > 0 /\ sent = 0 /\ issued[cur] = 0 /\ ~Billed(cur)
  BY DEF IInv, HandlerState, NotYet, PaidSteps
<1>2. /\ cur \in Events /\ Payable(cur) /\ credit[cur] = claimed /\ claimed \in Nat
      /\ AccountFor(cur) \in Accounts
  BY <1>1, ClaimFacts
<1>3. response \in Response /\ response.elapsed \in Nat
  BY DEF IInv, TypeOK, ControlTypes, Response
<1>4. ChangeDue \in Nat /\ ChangeDue + Earned(cur) <= claimed /\ Earned(cur) \in Nat
  BY <1>1, <1>2, <1>3, ClaimFacts, PayableIsPriced DEF ChangeDue
<1>5. response' \in Response /\ response'.elapsed = response.elapsed
  BY <1>3 DEF Response, Errors
<1>6. ChangeDue' = ChangeDue
  BY <1>5 DEF ChangeDue
<1>7. /\ issued' \in [Events -> Nat] /\ issued'[cur] \in {0, ChangeDue}
      /\ \A e \in Events \ {cur} : issued'[e] = issued[e]
      /\ balance' \in [Accounts -> Nat]
  <2>1. /\ issued \in [Events -> Nat] /\ balance \in [Accounts -> Nat]
    BY DEF IInv, TypeOK, LedgerTypes, WalletTypes
  <2>2. CASE UNCHANGED <<balance, issued>>
    BY <1>1, <2>1, <2>2
  <2>3. CASE TakeChange
    <3>1. /\ balance[AccountFor(cur)] - ChangeDue \in Nat
          /\ balance' = [balance EXCEPT ![AccountFor(cur)] = @ - ChangeDue]
          /\ issued' = [issued EXCEPT ![cur] = @ + ChangeDue]
      BY <1>2, <1>4, <2>1, <2>3 DEF TakeChange
    <3> QED  BY <1>1, <1>2, <1>4, <2>1, <3>1
  <2> QED  BY <2>2, <2>3
<1>8. /\ sent' \in {0, issued'[cur]}
      /\ sent' = ChangeDue \/ (sent' = 0 /\ "refund" \in response'.errors)
      /\ sent' \in Nat
  <2>1. CASE TakeChange /\ sent' = ChangeDue
    <3>1. issued'[cur] = ChangeDue
      BY <1>1, <1>2, <1>4, <2>1 DEF TakeChange, IInv, TypeOK, LedgerTypes
    <3> QED  BY <1>4, <2>1, <3>1
  <2>2. CASE UNCHANGED sent /\ response' = [response EXCEPT !.errors = @ \cup {"refund"}]
    BY <1>1, <1>3, <2>2 DEF Response
  <2> QED  BY <2>1, <2>2
<1>9. ControlTypes' /\ QueueTypes' /\ WalletTypes' /\ LedgerTypes'
  BY <1>5, <1>7, <1>8
     DEF IInv, TypeOK, ControlTypes, Locations, QueueTypes, WalletTypes, LedgerTypes
<1>10. HandlerState' /\ ReadingsHold' /\ NotYet'
  BY <1>1, <1>2
     DEF HandlerState, ReadingsHold, NotYet, Billed, RestSteps, WalletSteps, PaidSteps
<1>11. ChangeIsTrue'
  BY <1>4, <1>6, <1>7, <1>8 DEF ChangeIsTrue
<1>12. CreditIsPaid'
  <2>1. issued'[cur] + Earned(cur) <= credit[cur]
    BY <1>2, <1>4, <1>7
  <2> QED  BY <1>1, <1>2, <1>7, <2>1 DEF IInv, CreditIsPaid, Billed
<1>13. TakenOnlyWhenPayable' /\ OneBillPerPayment'
  BY DEF IInv, TakenOnlyWhenPayable, OneBillPerPayment
<1>14. BillAccountsForPayment'
  <2>1. \A r \in results : r.billed => issued'[r.event] = issued[r.event]
    BY <1>1, <1>7 DEF Billed, IInv, TypeOK, LedgerTypes
  <2> QED  BY <2>1 DEF IInv, BillAccountsForPayment
<1> QED  BY <1>9, <1>10, <1>11, <1>12, <1>13, <1>14 DEF IInv, TypeOK

\* send_change succeeds.
LEMMA SendChangeKeeps ==
  ASSUME IInv, SendChange
  PROVE  IInv'
BY ChangeStepKeeps DEF SendChange

\* send_change fails, with or without the funds leaving the wallet.
LEMMA SendChangeFailsKeeps ==
  ASSUME IInv, NEW left \in BOOLEAN, SendChangeFails(left)
  PROVE  IInv'
BY ChangeStepKeeps DEF SendChangeFails

\* The result is published, with the bill if a payment is claimed.
LEMMA PublishKeeps ==
  ASSUME IInv, NEW delivered \in BOOLEAN, Publish(delivered)
  PROVE  IInv'
<1> DEFINE new == Result(delivered)
<1> USE DEF Publish, Rest, queue, wallet, budgets
<1>1. cur \in Events /\ response \in Response /\ claimed \in Nat /\ sent \in Nat
  BY DEF IInv, TypeOK, ControlTypes, HandlerState, RestSteps
<1>2. ASSUME claimed > 0
      PROVE  /\ Payable(cur) /\ redeemed[TokenOf(cur)] = cur /\ credit[cur] = claimed
             /\ ~Billed(cur) /\ new.cost \in Nat
             /\ ChangeDue \in Nat /\ new.cost + ChangeDue = claimed
             /\ issued[cur] <= ChangeDue /\ issued[cur] \in Nat
             /\ sent \in {0, issued[cur]}
             /\ sent = ChangeDue \/ (sent = 0 /\ "refund" \in response.errors)
  <2>1. response.elapsed \in Nat
    BY <1>1 DEF Response
  <2>2. /\ Payable(cur) /\ redeemed[TokenOf(cur)] = cur /\ credit[cur] = claimed
        /\ CostFor(cur, claimed, response.elapsed) \in Nat
        /\ ChangeDue \in Nat
        /\ CostFor(cur, claimed, response.elapsed) + ChangeDue = claimed
    BY <1>2, <2>1, ClaimFacts DEF ChangeDue
  <2>3. new.cost = CostFor(cur, claimed, response.elapsed)
    BY <1>2 DEF Result
  <2> HIDE DEF new
  <2>4. issued[cur] \in Nat
    BY <1>1 DEF IInv, TypeOK, LedgerTypes
  <2> QED  BY <1>2, <2>2, <2>3, <2>4 DEF IInv, NotYet, ChangeIsTrue
<1>3. /\ new.event = cur /\ new.status = response.status /\ new.errors = response.errors
      /\ new.billed = (claimed > 0) /\ new.change = sent /\ new.delivered = delivered
  BY DEF Result
<1>4. new \in [event : Events, status : Statuses, errors : SUBSET Errors,
               billed : BOOLEAN, cost : Nat, change : Nat, delivered : BOOLEAN]
  <2>1. new.cost \in Nat
    BY <1>1, <1>2 DEF Result
  <2>2. response.status \in Statuses /\ response.errors \in SUBSET Errors
    BY <1>1 DEF Response
  <2> QED  BY <1>1, <2>1, <2>2 DEF Result
<1>5. results' = results \cup {new}
  OBVIOUS
<1> HIDE DEF new
<1>6. ControlTypes' /\ QueueTypes' /\ WalletTypes' /\ LedgerTypes'
  BY <1>4, <1>5, BlankIsResponse
     DEF IInv, TypeOK, ControlTypes, Locations, QueueTypes, WalletTypes, LedgerTypes
<1>7. HandlerState' /\ ReadingsHold' /\ NotYet' /\ ChangeIsTrue'
  BY DEF HandlerState, ReadingsHold, NotYet, ChangeIsTrue, RestSteps, WalletSteps, PaidSteps
<1>8. CreditIsPaid'
  <2>1. ASSUME NEW e \in Events, Billed(e)' PROVE credit[e] > 0
    BY <1>1, <1>2, <1>3, <1>5, <2>1 DEF IInv, CreditIsPaid, Billed
  <2> QED  BY <2>1 DEF IInv, CreditIsPaid
<1>9. TakenOnlyWhenPayable'
  BY DEF IInv, TakenOnlyWhenPayable
<1>10. OneBillPerPayment'
  <2>1. ASSUME NEW r \in results, r.billed, new.billed, TokenOf(r.event) = TokenOf(new.event)
        PROVE  FALSE
    <3>1. r.event \in Events /\ Billed(r.event)
      BY <2>1 DEF Billed, IInv, TypeOK, LedgerTypes
    <3>2. redeemed[TokenOf(r.event)] = r.event
      BY <3>1 DEF IInv, CreditIsPaid
    <3> QED  BY <1>2, <1>3, <2>1, <3>1, <3>2
  <2> QED  BY <1>5, <2>1 DEF IInv, OneBillPerPayment
<1>11. BillAccountsForPayment'
  <2>1. ASSUME new.billed
        PROVE  /\ \/ new.cost + new.change = credit[new.event]
                  \/ "refund" \in new.errors /\ new.change = 0
               /\ new.cost + issued[new.event] <= credit[new.event]
               /\ new.change > 0 => new.change = issued[new.event]
    <3>1. claimed > 0
      BY <1>3, <2>1
    <3>2. \/ new.cost + new.change = credit[new.event]
          \/ "refund" \in new.errors /\ new.change = 0
      BY <1>2, <1>3, <3>1
    <3>3. new.cost + issued[new.event] <= credit[new.event]
      BY <1>1, <1>2, <1>3, <3>1
    <3>4. new.change > 0 => new.change = issued[new.event]
      BY <1>1, <1>2, <1>3, <3>1
    <3> QED  BY <3>2, <3>3, <3>4
  <2> QED  BY <1>5, <2>1 DEF IInv, BillAccountsForPayment
<1> QED  BY <1>6, <1>7, <1>8, <1>9, <1>10, <1>11 DEF IInv, TypeOK

-----------------------------------------------------------------------------
(***************************************************************************)
(* The invariant of the specification and what follows from it.            *)
(***************************************************************************)
\* Every step of the handler, of the workers and of the environment preserves
\* the invariant.
LEMMA NextKeepsIInv == IInv /\ [Next]_vars => IInv'
<1> SUFFICES ASSUME IInv, [Next]_vars PROVE IInv'
  OBVIOUS
<1>1. CASE HandlerStep
  BY <1>1, TakeFromInboxKeeps, CallFailsKeeps, DecodeTokenKeeps, ReadBalanceBeforeKeeps,
     ReadBalanceAfterKeeps, ReceivePrintedKeeps, ReceiveSilentKeeps, ReceiveBreaksKeeps,
     PostJobKeeps, DispatchTimesOutKeeps, RespawnKeeps, SendChangeKeeps,
     SendChangeFailsKeeps, PublishKeeps
     DEF HandlerStep
<1>2. CASE WorkerStep
  BY <1>2, DispatchFailsKeeps, WorkerAnswersKeeps, JobEndsKeeps DEF WorkerStep
<1>3. CASE Environment
  BY <1>3, DeliverKeeps, SpendElsewhereKeeps, WithdrawKeeps, CrashKeeps, StartKeeps
     DEF Environment
<1>4. CASE UNCHANGED vars
  <2> USE <1>4 DEF vars, control, queue, wallet, ledger, budgets
  <2>1. ControlTypes' /\ QueueTypes' /\ WalletTypes' /\ LedgerTypes'
    BY DEF IInv, TypeOK, ControlTypes, QueueTypes, WalletTypes, LedgerTypes
  <2>2. HandlerState' /\ ReadingsHold' /\ NotYet' /\ ChangeIsTrue'
    BY DEF IInv, HandlerState, ReadingsHold, NotYet, Billed, ChangeIsTrue, ChangeDue
  <2>3. UNCHANGED <<redeemed, results, credit, posts, issued>>
    OBVIOUS
  <2> QED  BY <2>1, <2>2, <2>3, QuietStep
<1> QED  BY <1>1, <1>2, <1>3, <1>4 DEF Next

\* The invariant holds throughout, whatever the events, tokens, prices and bounds.
THEOREM Invariance == Spec => []IInv
BY InitIInv, NextKeepsIInv, PTL DEF Spec

(***************************************************************************)
(* Type correctness: the queue within its capacity, no negative amounts.   *)
(***************************************************************************)
THEOREM TypeCorrect == Spec => []TypeOK
<1>1. IInv => TypeOK
  BY DEF IInv
<1> QED  BY <1>1, Invariance, PTL

(***************************************************************************)
(* A payment buys one run at most, across crashes and redelivery: a posted *)
(* job has credit, credit means that the mint spent the token for this     *)
(* very request, and a token is spent for one request only.                *)
(***************************************************************************)
THEOREM PaymentBuysOneRun == Spec => []OneRunPerPayment
<1>1. IInv => OneRunPerPayment
  BY DEF IInv, OneRunPerPayment, CreditIsPaid
<1> QED  BY <1>1, Invariance, PTL

(***************************************************************************)
(* At most one result with billing is published for one token.             *)
(***************************************************************************)
THEOREM PaymentBuysOneBill == Spec => []OneBillPerPayment
<1>1. IInv => OneBillPerPayment
  BY DEF IInv
<1> QED  BY <1>1, Invariance, PTL

(***************************************************************************)
(* The change of a request leaves the worker the minimum it charges.       *)
(***************************************************************************)
THEOREM WorkerEarnsMinimum == Spec => []MinimumEarned
<1>1. IInv => MinimumEarned
  BY DEF IInv, MinimumEarned, CreditIsPaid
<1> QED  BY <1>1, Invariance, PTL

(***************************************************************************)
(* No request is credited more than its token brought, even when the       *)
(* amount is read off the wallet's balance.                                *)
(***************************************************************************)
THEOREM CreditIsCovered == Spec => []CreditWithinValue
<1>1. IInv => CreditWithinValue
  BY DEF IInv, CreditWithinValue, CreditIsPaid
<1> QED  BY <1>1, Invariance, PTL

(***************************************************************************)
(* Cost, change and the money that left the wallet agree in every bill.    *)
(***************************************************************************)
THEOREM BillsAreTrue == Spec => []BillAccountsForPayment
<1>1. IInv => BillAccountsForPayment
  BY DEF IInv
<1> QED  BY <1>1, Invariance, PTL

(***************************************************************************)
(* Tokens are taken only for requests that nothing else speaks against.    *)
(***************************************************************************)
THEOREM RefusedBeforeTaking == Spec => []TakenOnlyWhenPayable
<1>1. IInv => TakenOnlyWhenPayable
  BY DEF IInv
<1> QED  BY <1>1, Invariance, PTL

(***************************************************************************)
(* Change leaves the wallet at most once for a request.                    *)
(***************************************************************************)
THEOREM ChangeLeavesOnce == Spec => RefundedOnce
<1> DEFINE Once == \A e \in Events : issued'[e] # issued[e] => issued[e] = 0
<1>1. IInv /\ [Next]_vars => [Once]_vars
  <2> SUFFICES ASSUME IInv, Next PROVE Once
    BY DEF Once
  <2>1. CASE TakeChange /\ pc = "send_change"
    BY <2>1 DEF IInv, NotYet, PaidSteps, TypeOK, LedgerTypes, TakeChange
  <2>2. CASE ~(TakeChange /\ pc = "send_change")
    <3>1. UNCHANGED issued
      BY <2>2 DEF Next, HandlerStep, WorkerStep, Environment, IgnoreRequest,
         RejectRequest, TakeRequest, TakeFromInbox, CallFails, DecodeToken,
         ReadBalanceBefore, ReadBalanceAfter, ReceivePrinted, ReceiveSilent,
         ReceiveBreaks, PostJob, DispatchTimesOut, Respawn, SendChange,
         SendChangeFails, Publish, DispatchFails, WorkerAnswers, JobEnds, Deliver,
         SpendElsewhere, Withdraw, Crash, Restart, CheckPending, Listen, ledger
    <3> QED  BY <3>1 DEF Once
  <2> QED  BY <2>1, <2>2
<1> QED  BY <1>1, Invariance, PTL DEF Spec, RefundedOnce, Once

-----------------------------------------------------------------------------
(***************************************************************************)
(* A timeout that confesses nothing is the result of a job that runs no    *)
(* more.  Besides IInv this needs what the response being prepared says,   *)
(* and that only a billed result reports a timeout: a job whose result has *)
(* billing is never posted again, so nothing puts it back in a container.  *)
(***************************************************************************)
ConfirmedTimeout(r) == r.status = "timeout" /\ "stop" \notin r.errors

TimeoutIsTrue ==
  /\ pc \in {"send_change", "publish"} /\ ConfirmedTimeout(response) => cur \notin running
  /\ pc = "publish" /\ response.status = "timeout" => claimed > 0

TimeoutIsBilled == \A r \in results : r.status = "timeout" => r.billed

StopInv == TimeoutIsTrue /\ TimeoutIsBilled /\ TimedOutJobIsStopped

\* Jobs that run after a step ran before, or the step posts one, which has no bill.
LEMMA OnlyPostedJobsStart ==
  ASSUME IInv, Next
  PROVE  \/ running' \subseteq running
         \/ PostJob /\ running' = running \cup {cur} /\ ~Billed(cur)
<1>1. CASE PostJob
  BY <1>1 DEF PostJob, IInv, HandlerState, NotYet, PaidSteps
<1>2. CASE ~PostJob
  BY <1>2 DEF Next, HandlerStep, WorkerStep, Environment, IgnoreRequest, RejectRequest,
     TakeRequest, TakeFromInbox, CallFails, DecodeToken, ReadBalanceBefore,
     ReadBalanceAfter, ReceivePrinted, ReceiveSilent, ReceiveBreaks, DispatchTimesOut,
     Respawn, LeftRunning, SendChange, SendChangeFails, Publish, DispatchFails,
     WorkerAnswers, JobEnds, Deliver, SpendElsewhere, Withdraw, Crash, Restart,
     CheckPending, Listen
<1> QED  BY <1>1, <1>2

\* Results are only added, by Publish.
LEMMA OnlyPublishAddsResults ==
  ASSUME Next
  PROVE  UNCHANGED results \/ \E delivered \in BOOLEAN : Publish(delivered)
BY DEF Next, HandlerStep, WorkerStep, Environment, IgnoreRequest, RejectRequest,
   TakeRequest, TakeFromInbox, CallFails, DecodeToken, ReadBalanceBefore,
   ReadBalanceAfter, ReceivePrinted, ReceiveSilent, ReceiveBreaks, PostJob,
   DispatchTimesOut, Respawn, SendChange, SendChangeFails, DispatchFails,
   WorkerAnswers, JobEnds, Deliver, SpendElsewhere, Withdraw, Crash, Restart,
   CheckPending, Listen, ledger

\* Whoever is about to send change or to publish tells the truth of a timeout:
\* the dispatch ended otherwise, the worker answered, the respawn succeeded, or
\* its failure is in the errors.
LEMMA TimeoutStaysTrue ==
  ASSUME IInv, StopInv, Next
  PROVE  TimeoutIsTrue'
<1> DEFINE Here == pc \in {"send_change", "publish"}
<1>0. TimeoutIsTrue
  BY DEF StopInv
<1>1. CASE DispatchFails
  <2>1. response'.status = "failure"
    BY <1>1 DEF DispatchFails, Settle, Outcome
  <2> QED  BY <2>1 DEF TimeoutIsTrue, ConfirmedTimeout
<1>2. CASE \E reply \in Replies : WorkerAnswers(reply)
  <2>1. cur \notin running' /\ cur' = cur /\ claimed' = claimed /\ claimed > 0
    BY <1>2 DEF WorkerAnswers, IInv, HandlerState, PaidSteps
  <2> QED  BY <2>1 DEF TimeoutIsTrue
<1>3. CASE \E killed, spawned \in BOOLEAN : Respawn(killed, spawned)
  <2>1. PICK killed, spawned \in BOOLEAN : Respawn(killed, spawned)
    BY <1>3
  <2>2. cur' = cur /\ claimed' = claimed /\ claimed > 0
    BY <2>1 DEF Respawn, IInv, HandlerState, PaidSteps
  <2>3. CASE spawned
    BY <2>1, <2>2, <2>3 DEF Respawn, LeftRunning, JobsIn, TimeoutIsTrue
  <2>4. CASE ~spawned
    <3>1. response \in Response
      BY DEF IInv, TypeOK, ControlTypes
    <3>2. "stop" \in response'.errors
      BY <2>1, <2>4, <3>1 DEF Respawn, Settle, Response
    <3> QED  BY <2>2, <3>2 DEF TimeoutIsTrue, ConfirmedTimeout
  <2> QED  BY <2>3, <2>4
<1>4. CASE SendChange \/ \E left \in BOOLEAN : SendChangeFails(left)
  <2>1. /\ pc = "send_change" /\ claimed > 0
        /\ cur' = cur /\ claimed' = claimed /\ running' = running
    BY <1>4 DEF SendChange, SendChangeFails, IInv, HandlerState, PaidSteps
  <2>2. response'.status = response.status /\ response.errors \subseteq response'.errors
    <3>1. response \in Response
      BY DEF IInv, TypeOK, ControlTypes
    <3> QED  BY <1>4, <3>1 DEF SendChange, SendChangeFails, Response
  <2> QED  BY <1>0, <2>1, <2>2 DEF TimeoutIsTrue, ConfirmedTimeout
<1>5. CASE pc' = "publish" /\ response' = Blank
  BY <1>5 DEF TimeoutIsTrue, ConfirmedTimeout, Blank
<1>6. CASE pc' \notin {"send_change", "publish"}
  BY <1>6 DEF TimeoutIsTrue
<1>7. CASE UNCHANGED control /\ Here /\ running' \subseteq running
  BY <1>0, <1>7 DEF TimeoutIsTrue, ConfirmedTimeout, control
<1>8. \/ DispatchFails
      \/ \E reply \in Replies : WorkerAnswers(reply)
      \/ \E killed, spawned \in BOOLEAN : Respawn(killed, spawned)
      \/ SendChange \/ \E left \in BOOLEAN : SendChangeFails(left)
      \/ pc' = "publish" /\ response' = Blank
      \/ pc' \notin {"send_change", "publish"}
      \/ UNCHANGED control /\ running' \subseteq running
  BY DEF Next, HandlerStep, WorkerStep, Environment, IgnoreRequest, RejectRequest,
     TakeRequest, TakeFromInbox, CallFails, DecodeToken, ReadBalanceBefore,
     ReadBalanceAfter, ReceivePrinted, ReceiveSilent, ReceiveBreaks, Authorize, Refuse,
     PostJob, DispatchTimesOut, Publish, JobEnds, Deliver, SpendElsewhere, Withdraw,
     Crash, Restart, CheckPending, Listen
<1>9. CASE UNCHANGED control /\ running' \subseteq running /\ ~Here
  BY <1>9 DEF TimeoutIsTrue, control
<1> QED  BY <1>1, <1>2, <1>3, <1>4, <1>5, <1>6, <1>7, <1>8, <1>9

\* What the results say of timeouts stays true.
LEMMA NextKeepsStopInv == IInv /\ StopInv /\ [Next]_vars => StopInv'
<1> SUFFICES ASSUME IInv, StopInv, [Next]_vars PROVE StopInv'
  OBVIOUS
<1>1. CASE UNCHANGED vars
  BY <1>1 DEF StopInv, TimeoutIsTrue, TimeoutIsBilled, TimedOutJobIsStopped,
     ConfirmedTimeout, vars, control, ledger
<1>2. CASE Next
  <2>1. TimeoutIsTrue'
    BY <1>2, TimeoutStaysTrue
  <2>2. CASE UNCHANGED results
    <3>1. TimeoutIsBilled'
      BY <2>2 DEF StopInv, TimeoutIsBilled
    <3>2. TimedOutJobIsStopped'
      <4> SUFFICES ASSUME NEW r \in results, ConfirmedTimeout(r) PROVE r.event \notin running'
        BY <2>2 DEF TimedOutJobIsStopped, ConfirmedTimeout
      <4>1. r.event \notin running /\ Billed(r.event)
        BY DEF StopInv, TimedOutJobIsStopped, TimeoutIsBilled, ConfirmedTimeout, Billed
      <4> QED  BY <1>2, <4>1, OnlyPostedJobsStart
    <3> QED  BY <2>1, <3>1, <3>2 DEF StopInv
  <2>3. CASE \E delivered \in BOOLEAN : Publish(delivered)
    <3>1. PICK delivered \in BOOLEAN : Publish(delivered)
      BY <2>3
    <3>2. pc = "publish" /\ results' = results \cup {Result(delivered)} /\ running' = running
      BY <3>1 DEF Publish
    <3>3. ConfirmedTimeout(Result(delivered)) => cur \notin running
      BY <3>2 DEF StopInv, TimeoutIsTrue, ConfirmedTimeout, Result
    <3>4. Result(delivered).status = "timeout" => Result(delivered).billed
      BY <3>2 DEF StopInv, TimeoutIsTrue, Result
    <3>5. TimeoutIsBilled'
      BY <3>2, <3>4 DEF StopInv, TimeoutIsBilled
    <3>6. TimedOutJobIsStopped'
      BY <3>2, <3>3 DEF StopInv, TimedOutJobIsStopped, ConfirmedTimeout, Result
    <3> QED  BY <2>1, <3>5, <3>6 DEF StopInv
  <2> QED  BY <1>2, <2>2, <2>3, OnlyPublishAddsResults
<1> QED  BY <1>1, <1>2

(***************************************************************************)
(* A job whose result says timeout, without an error of the stop, runs no  *)
(* more, then and later.                                                   *)
(***************************************************************************)
THEOREM TimeoutsAreStopped == Spec => []TimedOutJobIsStopped
<1>1. Init => StopInv
  BY DEF Init, StopInv, TimeoutIsTrue, TimeoutIsBilled, TimedOutJobIsStopped
<1>2. StopInv => TimedOutJobIsStopped
  BY DEF StopInv
<1> QED  BY <1>1, <1>2, NextKeepsStopInv, Invariance, PTL DEF Spec
-----------------------------------------------------------------------------
(***************************************************************************)
(* Every job that was lost sight of is confessed.  Besides IInv this needs *)
(* what the response being prepared says of a job that still runs: only    *)
(* the failed exchange and the failed respawn leave one behind.            *)
(***************************************************************************)
EndIsConfessed ==
  pc \in {"send_change", "publish"} /\ Attended(cur) /\ cur \in running =>
    \/ "stop" \in response.errors
    \/ response.status = "failure" /\ response.elapsed = 0

LostInv == EndIsConfessed /\ LostJobsAreConfessed

\* A claim is given up only by publishing its bill or by a crash.
LEMMA ClaimStays ==
  ASSUME IInv, Next, claimed > 0
  PROVE  \/ cur' = cur /\ claimed' = claimed
         \/ Crash
         \/ \E delivered \in BOOLEAN : Publish(delivered)
<1>1. pc \in PaidSteps \cup {"publish"}
  BY DEF IInv, HandlerState
<1> QED
  BY <1>1 DEF PaidSteps, Next, HandlerStep, WorkerStep, Environment, IgnoreRequest,
     RejectRequest, TakeRequest, TakeFromInbox, CallFails, DecodeToken, ReadBalanceBefore,
     ReadBalanceAfter, ReceivePrinted, ReceiveSilent, ReceiveBreaks, PostJob,
     DispatchTimesOut, Respawn, SendChange, SendChangeFails, DispatchFails,
     WorkerAnswers, JobEnds, Deliver, SpendElsewhere, Withdraw, Restart,
     CheckPending, Listen, control

\* Crashes are only counted up.
LEMMA CrashesAreCounted ==
  ASSUME IInv, Next
  PROVE  \/ crashes' = crashes
         \/ Crash /\ crashes' > 0
<1>1. crashes \in Nat
  BY DEF IInv, TypeOK, LedgerTypes
<1>2. CASE Crash
  BY <1>1, <1>2 DEF Crash
<1>3. CASE ~Crash
  BY <1>3 DEF Next, HandlerStep, WorkerStep, Environment, IgnoreRequest,
     RejectRequest, TakeRequest, TakeFromInbox, CallFails, DecodeToken, ReadBalanceBefore,
     ReadBalanceAfter, ReceivePrinted, ReceiveSilent, ReceiveBreaks, PostJob,
     DispatchTimesOut, Respawn, SendChange, SendChangeFails, Publish, DispatchFails,
     WorkerAnswers, JobEnds, Deliver, SpendElsewhere, Withdraw, Restart,
     CheckPending, Listen, budgets
<1> QED  BY <1>2, <1>3

\* A failure of zero seconds is charged no more than the minimum.
LEMMA FailureCostsMinimum ==
  ASSUME IInv, claimed > 0
  PROVE  CostFor(cur, claimed, 0) <= Earned(cur)
<1>1. cur \in Events /\ claimed \in Nat /\ Payable(cur)
  BY ClaimFacts
<1>2. PriceFor(cur) \in Nat \ {0} /\ Earned(cur) \in Nat
  BY <1>1, PayableIsPriced
<1>3. Billable(0, MinDuration) = MinDuration
  BY Durations DEF Billable, Larger
<1>4. CostFor(cur, claimed, 0) = Smaller(Smaller(Earned(cur), MaxU64), claimed)
  BY <1>3 DEF CostFor, Cost, SaturatingMul, Earned
<1> QED  BY <1>1, <1>2, <1>4, MaxU64Assumption DEF Smaller

\* Whoever is about to send change or to publish owns up to a job left running.
LEMMA EndStaysConfessed ==
  ASSUME IInv, LostInv, Next
  PROVE  EndIsConfessed'
<1>0. EndIsConfessed
  BY DEF LostInv
<1>1. CASE DispatchFails
  BY <1>1 DEF DispatchFails, Settle, Outcome, EndIsConfessed
<1>2. CASE \E reply \in Replies : WorkerAnswers(reply)
  BY <1>2 DEF WorkerAnswers, EndIsConfessed
<1>3. CASE \E killed, spawned \in BOOLEAN : Respawn(killed, spawned)
  <2>1. PICK killed, spawned \in BOOLEAN : Respawn(killed, spawned)
    BY <1>3
  <2>2. CASE spawned
    BY <2>1, <2>2 DEF Respawn, LeftRunning, JobsIn, EndIsConfessed
  <2>3. CASE ~spawned
    <3>1. response \in Response
      BY DEF IInv, TypeOK, ControlTypes
    <3>2. "stop" \in response'.errors
      BY <2>1, <2>3, <3>1 DEF Respawn, Settle, Response
    <3> QED  BY <3>2 DEF EndIsConfessed
  <2> QED  BY <2>2, <2>3
<1>4. CASE SendChange \/ \E left \in BOOLEAN : SendChangeFails(left)
  <2>1. /\ pc = "send_change" /\ cur' = cur /\ claimed' = claimed /\ running' = running
    BY <1>4 DEF SendChange, SendChangeFails
  <2>2. /\ response'.status = response.status /\ response'.elapsed = response.elapsed
        /\ response.errors \subseteq response'.errors
    <3>1. response \in Response
      BY DEF IInv, TypeOK, ControlTypes
    <3> QED  BY <1>4, <3>1 DEF SendChange, SendChangeFails, Response
  <2> QED  BY <1>0, <2>1, <2>2 DEF EndIsConfessed, Attended
<1>5. CASE pc \notin PaidSteps \cup {"publish"} /\ claimed' = claimed
  BY <1>5 DEF IInv, HandlerState, EndIsConfessed, Attended
<1>6. CASE pc' \notin {"send_change", "publish"}
  BY <1>6 DEF EndIsConfessed
<1>7. CASE UNCHANGED control /\ running' \subseteq running
  BY <1>0, <1>7 DEF EndIsConfessed, Attended, control
<1>8. \/ DispatchFails
      \/ \E reply \in Replies : WorkerAnswers(reply)
      \/ \E killed, spawned \in BOOLEAN : Respawn(killed, spawned)
      \/ SendChange \/ \E left \in BOOLEAN : SendChangeFails(left)
      \/ pc \notin PaidSteps \cup {"publish"} /\ claimed' = claimed
      \/ pc' \notin {"send_change", "publish"}
      \/ UNCHANGED control /\ running' \subseteq running
  BY DEF PaidSteps, Next, HandlerStep, WorkerStep, Environment, IgnoreRequest, RejectRequest,
     TakeRequest, TakeFromInbox, CallFails, DecodeToken, ReadBalanceBefore,
     ReadBalanceAfter, ReceivePrinted, ReceiveSilent, ReceiveBreaks, Authorize, Refuse,
     PostJob, DispatchTimesOut, Publish, JobEnds, Deliver, SpendElsewhere, Withdraw,
     Crash, Restart, CheckPending, Listen
<1> QED  BY <1>1, <1>2, <1>3, <1>4, <1>5, <1>6, <1>7, <1>8

\* The bill of a job that still runs confesses it.
LEMMA BillConfesses ==
  ASSUME IInv, LostInv, NEW delivered \in BOOLEAN, Publish(delivered),
         Attended(cur), cur \in running
  PROVE  /\ Result(delivered).event = cur
         /\ Result(delivered).billed
         /\ Confesses(Result(delivered))
<1>1. claimed > 0 /\ pc = "publish"
  BY DEF Attended, Publish
<1>2. \/ "stop" \in response.errors
      \/ response.status = "failure" /\ response.elapsed = 0
  BY <1>1 DEF LostInv, EndIsConfessed
<1>3. /\ Result(delivered).event = cur
      /\ Result(delivered).billed
      /\ Result(delivered).errors = response.errors
      /\ Result(delivered).status = response.status
      /\ Result(delivered).cost = CostFor(cur, claimed, response.elapsed)
  BY <1>1 DEF Result
<1>4. CostFor(cur, claimed, 0) <= Earned(cur)
  BY <1>1, FailureCostsMinimum
<1> QED  BY <1>2, <1>3, <1>4 DEF Confesses

\* What the results own up to stays said, and every job lost in a step is owned up to.
LEMMA NextKeepsLostInv == IInv /\ LostInv /\ [Next]_vars => LostInv'
<1> SUFFICES ASSUME IInv, LostInv, [Next]_vars PROVE LostInv'
  OBVIOUS
<1>1. CASE UNCHANGED vars
  BY <1>1 DEF LostInv, EndIsConfessed, LostJobsAreConfessed, Attended, Billed, Confesses,
     vars, control, ledger, budgets
<1>2. CASE Next
  <2>1. EndIsConfessed'
    BY <1>2, EndStaysConfessed
  <2> DEFINE Said(e, bills) == \E r \in bills : r.event = e /\ r.billed /\ Confesses(r)
  <2>2. results \subseteq results'
    BY <1>2, OnlyPublishAddsResults DEF Publish
  <2>3. \A e : Said(e, results) => Said(e, results')
    BY <2>2
  <2> SUFFICES ASSUME NEW e \in running'
               PROVE  \/ Attended(e)'
                      \/ crashes' > 0 /\ ~Billed(e)'
                      \/ Said(e, results')
    BY <2>1 DEF LostInv, LostJobsAreConfessed, Confesses
  <2>4. CASE e \notin running
    <3>1. PostJob /\ e = cur
      BY <1>2, <2>4, OnlyPostedJobsStart
    <3>2. claimed > 0
      BY <3>1 DEF PostJob, IInv, HandlerState, PaidSteps
    <3> QED  BY <3>1, <3>2 DEF PostJob, Attended
  <2>5. CASE e \in running /\ Attended(e)
    <3>1. e = cur /\ claimed > 0 /\ ~Billed(e)
      BY <2>5 DEF Attended, IInv, NotYet
    <3>2. CASE cur' = cur /\ claimed' = claimed
      BY <3>1, <3>2 DEF Attended
    <3>3. CASE Crash
      <4>1. crashes' > 0
        <5>1. crashes \in Nat
          BY DEF IInv, TypeOK, LedgerTypes
        <5> QED  BY <3>3, <5>1 DEF Crash
      <4>2. ~Billed(e)'
        BY <3>1, <3>3 DEF Crash, Billed, ledger
      <4> QED  BY <4>1, <4>2
    <3>4. CASE \E delivered \in BOOLEAN : Publish(delivered)
      <4>1. PICK delivered \in BOOLEAN : Publish(delivered)
        BY <3>4
      <4>2. Result(delivered) \in results'
        BY <4>1 DEF Publish
      <4> QED  BY <2>5, <3>1, <4>1, <4>2, BillConfesses
    <3> QED  BY <1>2, <3>1, <3>2, <3>3, <3>4, ClaimStays
  <2>6. CASE e \in running /\ ~Attended(e) /\ crashes > 0 /\ ~Billed(e)
    <3>1. crashes' > 0
      BY <1>2, <2>6, CrashesAreCounted
    <3>2. ~Billed(e)'
      <4>1. CASE UNCHANGED results
        BY <2>6, <4>1 DEF Billed
      <4>2. CASE \E delivered \in BOOLEAN : Publish(delivered)
        <5>1. PICK delivered \in BOOLEAN : results' = results \cup {Result(delivered)}
          BY <4>2 DEF Publish
        <5>2. Result(delivered).event = e => ~Result(delivered).billed
          BY <2>6 DEF Result, Attended
        <5> QED  BY <2>6, <5>1, <5>2 DEF Billed
      <4> QED  BY <1>2, <4>1, <4>2, OnlyPublishAddsResults
    <3> QED  BY <3>1, <3>2
  <2>7. CASE Said(e, results)
    BY <2>3, <2>7
  <2> QED  BY <2>4, <2>5, <2>6, <2>7 DEF LostInv, LostJobsAreConfessed
<1> QED  BY <1>1, <1>2

(***************************************************************************)
(* A job that runs while nobody waits for its answer was left by a crash   *)
(* and is not billed, or its bill says that the worker could not be        *)
(* stopped, or that the exchange failed, at no more than the minimum.      *)
(***************************************************************************)
THEOREM LostJobsAreOwned == Spec => []LostJobsAreConfessed
<1>1. Init => LostInv
  BY DEF Init, LostInv, EndIsConfessed, LostJobsAreConfessed
<1>2. LostInv => LostJobsAreConfessed
  BY DEF LostInv
<1> QED  BY <1>1, <1>2, NextKeepsLostInv, Invariance, PTL DEF Spec
-----------------------------------------------------------------------------
(***************************************************************************)
(* JobHandler implements JobContract: every step of the handler and of its *)
(* environment is a step of the contract or leaves the contract's state    *)
(* alone.                                                                  *)
(***************************************************************************)
\* The stage of a request depends on these variables only.
LEMMA StageFrame ==
  ASSUME UNCHANGED <<redeemed, results, posts, issued>>
  PROVE  UNCHANGED Contract!vars
<1>1. \A e \in Events : Stage(e)' = Stage(e)
  BY DEF Stage, Concluded
<1>2. [e \in Events |-> Stage(e)]' = [e \in Events |-> Stage(e)]
  BY <1>1
<1> QED  BY <1>2 DEF Contract!vars

\* Before anything is received every request is open.
LEMMA InitHonoursContract == Init => Contract!Init
<1> SUFFICES ASSUME Init PROVE Contract!Init
  OBVIOUS
<1>1. \A e \in Events : Stage(e) = "open"
  <2> SUFFICES ASSUME NEW e \in Events PROVE Stage(e) = "open"
    OBVIOUS
  <2>1. ~Concluded(e) /\ ~(posts[e] > 0)
    BY DEF Init, Concluded
  <2>2. ~(HasOneToken(e) /\ redeemed[TokenOf(e)] = e)
    BY TokenIsToken, SentinelAssumption DEF Init
  <2> QED  BY <2>1, <2>2 DEF Stage
<1>2. [e \in Events |-> Stage(e)] = [e \in Events |-> "open"]
  BY <1>1
<1> QED  BY <1>2 DEF Contract!Init, Init

\* A request with credit is paid, and what is not credited has not got on.
LEMMA StageFacts ==
  ASSUME IInv, NEW e \in Events
  PROVE  /\ Concluded(e) \/ posts[e] > 0 => credit[e] > 0
         /\ credit[e] > 0 => HasOneToken(e) /\ redeemed[TokenOf(e)] = e
<1>1. Concluded(e) \/ posts[e] > 0 => credit[e] > 0
  BY DEF IInv, CreditIsPaid, Concluded, Billed
<1>2. credit[e] > 0 => HasOneToken(e) /\ redeemed[TokenOf(e)] = e
  BY PayableIsPriced DEF IInv, CreditIsPaid
<1> QED  BY <1>1, <1>2

\* A receive that spends the token, whatever it prints, is the payment.
LEMMA ReceiveIsPay ==
  ASSUME IInv, NEW r \in Events, r = cur, pc = "receive",
         Spendable(TokenOf(cur), SlotOf(cur)),
         Redeem(TokenOf(cur), cur), UNCHANGED <<results, posts, issued>>
  PROVE  Contract!Pay(r)
<1> DEFINE stages == [e \in Events |-> Stage(e)]
<1>1. /\ cur \in Events /\ Payable(cur) /\ TokenOf(cur) \in Tokens
      /\ redeemed[TokenOf(cur)] = None /\ credit[cur] = 0
  BY ReceiveFacts
<1>2. HasOneToken(cur) /\ TokenOf(cur) # None
  BY <1>1, PayableIsPriced, SentinelAssumption
<1>3. redeemed'[TokenOf(r)] = r
  BY <1>1 DEF IInv, TypeOK, WalletTypes, Redeem
<1>4. ~Concluded(r) /\ ~(posts[r] > 0)
  BY <1>1, StageFacts
<1>5. Stage(r) = "open"
  BY <1>1, <1>4, SentinelAssumption DEF Stage
<1>6. Stage(r)' = "paid"
  BY <1>2, <1>3, <1>4 DEF Stage, Concluded
<1>7. ASSUME NEW e \in Events, e # r PROVE Stage(e)' = Stage(e)
  <2>1. ASSUME HasOneToken(e)
        PROVE  redeemed'[TokenOf(e)] = e <=> redeemed[TokenOf(e)] = e
    <3>1. TokenOf(e) \in Tokens
      BY <2>1, TokenIsToken
    <3> QED  BY <1>1, <1>3, <1>7, <3>1, SentinelAssumption DEF IInv, TypeOK, WalletTypes, Redeem
  <2> QED  BY <2>1 DEF Stage, Concluded
<1>8. stages' = [stages EXCEPT ![r] = "paid"]
  BY <1>1, <1>6, <1>7
<1> QED  BY <1>1, <1>2, <1>5, <1>8 DEF Contract!Pay, Redeem

\* Posting the job is the start of the paid request.
LEMMA PostIsStart ==
  ASSUME IInv, NEW r \in Events, r = cur, PostJob
  PROVE  Contract!Start(r)
<1> DEFINE stages == [e \in Events |-> Stage(e)]
<1>1. claimed > 0 /\ posts[cur] = 0 /\ issued[cur] = 0 /\ ~Billed(cur)
  BY DEF IInv, HandlerState, NotYet, PaidSteps, PostJob
<1>2. cur \in Events /\ credit[cur] > 0
  BY <1>1, ClaimFacts
<1>3. posts'[r] = 1 /\ \A e \in Events \ {r} : posts'[e] = posts[e]
  BY <1>1, <1>2 DEF IInv, TypeOK, LedgerTypes, PostJob
<1>4. UNCHANGED <<redeemed, results, issued>>
  BY DEF PostJob, wallet
<1>5. ~Concluded(r)
  BY <1>1 DEF Concluded, Billed
<1>6. Stage(r) = "paid"
  BY <1>1, <1>2, <1>5, StageFacts DEF Stage
<1>7. Stage(r)' = "started"
  BY <1>3, <1>4, <1>5 DEF Stage, Concluded
<1>8. \A e \in Events \ {r} : Stage(e)' = Stage(e)
  BY <1>3, <1>4 DEF Stage, Concluded
<1>9. stages' = [stages EXCEPT ![r] = "started"]
  BY <1>2, <1>7, <1>8
<1> QED  BY <1>2, <1>4, <1>6, <1>9 DEF Contract!Start

\* A request that holds a claim is concluded by the change or by the bill.
LEMMA ConclusionIsConclude ==
  ASSUME IInv, NEW r \in Events, r = cur, claimed > 0, ~Concluded(r), Concluded(r)',
         NEW amount \in Nat, amount + Earned(cur) <= claimed,
         issued' = [issued EXCEPT ![r] = amount],
         \A e \in Events \ {r} : Concluded(e)' = Concluded(e),
         UNCHANGED <<redeemed, posts>>
  PROVE  Contract!Conclude(r)
<1> DEFINE stages == [e \in Events |-> Stage(e)]
           worth  == [e \in Events |-> Value[TokenOf(e)]]
           least  == [e \in Events |-> Earned(e)]
<1>1. /\ claimed = credit[cur] /\ claimed <= Value[TokenOf(cur)]
      /\ claimed \in Nat /\ Payable(cur)
  BY ClaimFacts
<1>2. Stage(r) \in {"paid", "started"}
  BY <1>1, StageFacts DEF Stage
<1>3. Stage(r)' = "concluded"
  BY DEF Stage
<1>4. \A e \in Events \ {r} : Stage(e)' = Stage(e)
  BY DEF Stage
<1>5. stages' = [stages EXCEPT ![r] = "concluded"]
  BY <1>1, <1>3, <1>4
<1>6. Value[TokenOf(cur)] \in Nat /\ Earned(cur) \in Nat
  BY <1>1, PayableIsPriced
<1>7. amount \in 0..(worth[r] - least[r])
  BY <1>1, <1>6
<1> QED  BY <1>1, <1>2, <1>5, <1>7 DEF Contract!Conclude

\* Change that leaves the wallet concludes the request (no change is a stutter).
LEMMA TakeChangeIsConclude ==
  ASSUME IInv, NEW r \in Events, r = cur, pc = "send_change", TakeChange,
         UNCHANGED <<redeemed, results, posts>>
  PROVE  Contract!Conclude(r) \/ UNCHANGED Contract!vars
<1>1. claimed > 0 /\ issued[cur] = 0 /\ ~Billed(cur)
  BY DEF IInv, HandlerState, NotYet, PaidSteps
<1>2. cur \in Events /\ response.elapsed \in Nat
  BY <1>1, ClaimFacts DEF IInv, TypeOK, ControlTypes, Response
<1>3. ChangeDue \in Nat /\ ChangeDue + Earned(cur) <= claimed
  BY <1>1, <1>2, ClaimFacts DEF ChangeDue
<1>4. /\ issued \in [Events -> Nat]
      /\ issued' = [issued EXCEPT ![cur] = @ + ChangeDue]
  BY DEF IInv, TypeOK, LedgerTypes, TakeChange
<1>5. issued' = [issued EXCEPT ![r] = ChangeDue]
  BY <1>1, <1>2, <1>3, <1>4
<1>6. CASE ChangeDue = 0
  <2>1. issued' = issued
    BY <1>1, <1>2, <1>4, <1>5, <1>6
  <2> QED  BY <2>1, StageFrame
<1>7. CASE ChangeDue > 0
  <2>1. ~Concluded(r) /\ Concluded(r)'
    BY <1>1, <1>2, <1>4, <1>5, <1>7 DEF Concluded, Billed
  <2>2. \A e \in Events \ {r} : Concluded(e)' = Concluded(e)
    BY <1>4, <1>5 DEF Concluded
  <2> QED  BY <1>1, <1>3, <1>5, <2>1, <2>2, ConclusionIsConclude
<1> QED  BY <1>3, <1>6, <1>7

\* A result with a bill concludes the request unless its change has done so.
LEMMA PublishConcludes ==
  ASSUME IInv, NEW r \in Events, r = cur, NEW delivered \in BOOLEAN, Publish(delivered)
  PROVE  Contract!Conclude(r) \/ UNCHANGED Contract!vars
<1> DEFINE new == Result(delivered)
<1>1. /\ results' = results \cup {new} /\ UNCHANGED <<redeemed, posts, issued>>
      /\ new.event = r /\ new.billed = (claimed > 0)
  BY DEF Publish, Result, wallet
<1> HIDE DEF new
<1>2. \A e \in Events : Concluded(e) => Concluded(e)'
  BY <1>1 DEF Concluded
<1>3. \A e \in Events : e # r \/ ~new.billed \/ Concluded(e) => Concluded(e)' = Concluded(e)
  BY <1>1 DEF Concluded
<1>4. CASE ~new.billed \/ Concluded(r)
  <2>1. \A e \in Events : Concluded(e)' = Concluded(e)
    BY <1>3, <1>4
  <2>2. \A e \in Events : Stage(e)' = Stage(e)
    BY <1>1, <2>1 DEF Stage
  <2>3. [e \in Events |-> Stage(e)]' = [e \in Events |-> Stage(e)]
    BY <2>2
  <2> QED  BY <1>1, <2>3 DEF Contract!vars
<1>5. CASE new.billed /\ ~Concluded(r)
  <2>1. claimed > 0
    BY <1>1, <1>5
  <2>2. /\ cur \in Events /\ claimed = credit[cur] /\ claimed \in Nat /\ Payable(cur)
        /\ CoversMinimum(claimed, PriceFor(cur), MinDuration)
    BY <2>1, ClaimFacts
  <2>3. Concluded(r)'
    BY <1>1, <1>5 DEF Concluded
  <2>4. issued \in [Events -> Nat] /\ issued[cur] = 0
    BY <1>5, <2>2 DEF IInv, TypeOK, LedgerTypes, Concluded
  <2>5. issued' = [issued EXCEPT ![r] = 0]
    BY <1>1, <2>2, <2>4
  <2>6. 0 + Earned(cur) <= claimed
    BY <2>2, PayableIsPriced DEF CoversMinimum, Earned
  <2> QED  BY <1>1, <1>3, <1>5, <2>1, <2>3, <2>5, <2>6, ConclusionIsConclude
<1> QED  BY <1>4, <1>5

\* Every step is one of the contract or leaves the contract's state alone.
LEMMA StepHonoursContract ==
  ASSUME IInv, [Next]_vars
  PROVE  [Contract!Next]_(Contract!vars)
<1>1. CASE pc = "receive" /\ (ReceivePrinted \/ ReceiveSilent \/ ReceiveBreaks)
  <2>1. PICK r \in Events : r = cur
    BY <1>1 DEF IInv, HandlerState, RestSteps
  <2>2. Contract!Pay(r)
    BY <1>1, <2>1, ReceiveIsPay DEF ReceivePrinted, ReceiveSilent, ReceiveBreaks, ledger
  <2> QED  BY <2>2 DEF Contract!Next
<1>2. CASE PostJob
  <2>1. PICK r \in Events : r = cur
    BY <1>2 DEF IInv, HandlerState, RestSteps, PostJob
  <2> QED  BY <1>2, <2>1, PostIsStart DEF Contract!Next
<1>3. CASE pc = "send_change" /\ TakeChange /\ UNCHANGED <<redeemed, results, posts>>
  <2>1. PICK r \in Events : r = cur
    BY <1>3 DEF IInv, HandlerState, RestSteps
  <2> QED  BY <1>3, <2>1, TakeChangeIsConclude DEF Contract!Next
<1>4. ASSUME NEW delivered \in BOOLEAN, Publish(delivered)
      PROVE  [Contract!Next]_(Contract!vars)
  <2>1. PICK r \in Events : r = cur
    BY <1>4 DEF IInv, HandlerState, RestSteps, Publish
  <2> QED  BY <1>4, <2>1, PublishConcludes DEF Contract!Next
<1>5. ASSUME NEW t \in Tokens, SpendElsewhere(t)
      PROVE  [Contract!Next]_(Contract!vars)
  <2> DEFINE stages == [e \in Events |-> Stage(e)]
  <2>1. UNCHANGED <<results, posts, issued>>
    BY <1>5 DEF SpendElsewhere, ledger
  <2>2. ASSUME NEW e \in Events PROVE Stage(e)' = Stage(e)
    <3>1. ASSUME HasOneToken(e)
          PROVE  redeemed'[TokenOf(e)] = e <=> redeemed[TokenOf(e)] = e
      <4>1. TokenOf(e) \in Tokens
        BY <3>1, TokenIsToken
      <4> QED  BY <1>5, <4>1, SentinelAssumption
               DEF SpendElsewhere, Redeem, IInv, TypeOK, WalletTypes
    <3> QED  BY <2>1, <3>1 DEF Stage, Concluded
  <2>3. stages' = stages
    BY <2>2
  <2> QED  BY <1>5, <2>1, <2>3 DEF SpendElsewhere, Redeem, Contract!Lose, Contract!Next
<1>6. CASE UNCHANGED <<redeemed, results, posts, issued>>
  BY <1>6, StageFrame
<1> QED
  BY <1>1, <1>2, <1>3, <1>4, <1>5, <1>6
     DEF Next, HandlerStep, WorkerStep, Environment, IgnoreRequest, RejectRequest,
         TakeRequest, TakeFromInbox, CallFails, DecodeToken, ReadBalanceBefore,
         ReadBalanceAfter, ReceivePrinted, ReceiveSilent, ReceiveBreaks,
         DispatchTimesOut, Respawn, SendChange, SendChangeFails, DispatchFails,
         WorkerAnswers, JobEnds, Deliver, Withdraw, Crash, Restart, CheckPending,
         Listen, wallet, ledger, vars

(***************************************************************************)
(* Every behaviour of the handler, with its crashes, failing calls and     *)
(* meddling environment, honours the contract on payments.                 *)
(***************************************************************************)
THEOREM HandlerHonoursContract == Spec => HonoursContract
BY InitHonoursContract, StepHonoursContract, Invariance, PTL
   DEF Spec, HonoursContract, Contract!Spec
=============================================================================
