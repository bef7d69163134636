----------------------------- MODULE JobHandler -----------------------------
(***************************************************************************)
(* The handling of one job request after another by the runner controller: *)
(* the queue of relay notifications, handle_job_event with each call it    *)
(* makes to cdk-cli, to the worker's HTTP API and to the relays as a step  *)
(* of its own, and what those calls change outside the process: the mint's *)
(* record of spent tokens, the worker wallet, the jobs running in the      *)
(* containers and the published results.                                   *)
(*                                                                         *)
(* The controller is one sequential task, so a single program counter says *)
(* which call the handler is waiting on.  Everything outside it moves      *)
(* between any two of its steps: other holders spend tokens, the operator  *)
(* takes funds out of the wallet, jobs end, relays deliver events, and the *)
(* process dies and is restarted by systemd.                               *)
(***************************************************************************)
EXTENDS Billing, FiniteSets

CONSTANTS
  Events,          \* job request events requesters have signed
  Tokens,          \* Cashu tokens, each of which the mint lets be spent once
  Accounts,        \* (mint, unit) pairs
  Slots,           \* the worker slots 0..max_concurrent_jobs-1
  Replies,         \* what workers answer
  None,            \* the absence of an event, a token, a slot, an account
  Outsider,        \* whoever else holds a token
  Request,         \* what each event says (see RequestAssumption)
  AccountOf,       \* the account decode-token reports; None if ambiguous
  Value,           \* what receiving each token adds to the wallet
  Lock,            \* the slot whose key a token is locked to, or None
  Prices,          \* WORKER_PRICES
  MinDuration,     \* WORKER_MIN_DURATION
  MaxDuration,     \* WORKER_MAX_DURATION
  Funds,           \* what each account of the wallet holds at first
  QueueCap,        \* bound: notifications the broadcast channel keeps
  MaxCrashes,      \* bound: crashes of the controller
  MaxWithdrawals   \* bound: withdrawals by the operator

ASSUME SentinelAssumption ==
  /\ None \notin Events /\ None \notin Tokens
  /\ None \notin Accounts /\ None \notin Slots
  /\ Outsider \notin Events \cup {None}

ASSUME SlotsAssumption == Slots \subseteq Nat

\* sealed_for is the slot whose key decrypts the content to a valid payload.
ASSUME RequestAssumption ==
  Request \in [Events -> [job_kind   : BOOLEAN,
                          to         : SUBSET Slots,
                          payment    : Seq(Tokens \cup {None}),
                          sealed_for : Slots \cup {None}]]

ASSUME TokenAssumption ==
  /\ AccountOf \in [Tokens -> Accounts \cup {None}]
  /\ Value \in [Tokens -> U64]
  /\ Lock \in [Tokens -> Slots \cup {None}]

ASSUME ConfigAssumption ==
  /\ ValidPrices(Prices, Accounts)
  /\ ValidDurations(MinDuration, MaxDuration)

ASSUME BoundAssumption ==
  /\ {Funds, QueueCap, MaxCrashes, MaxWithdrawals} \subseteq Nat
  /\ QueueCap > 0

Statuses == {"success", "failure", "timeout", "invalid"}

\* Errors in a result: of the stop, of the refund, or any other; a worker's
\* answer may bring errors of its own, whatever they say.
Errors == {"stop", "refund", "other"}

Response == [status : Statuses, elapsed : Nat, errors : SUBSET Errors]

ASSUME ReplyAssumption == Replies \subseteq Response

VARIABLES
  pc,          \* the call the handler waits on, "idle", "starting" or "down"
  cur,         \* the event being handled, None when idle
  before,      \* the balance read before the receive
  claimed,     \* the amount the handler holds a claim for, 0 when none
  response,    \* the worker response being prepared
  sent,        \* the amount of the change token, 0 when there is none
  inbox,       \* notifications waiting in the broadcast channel
  seen,        \* events the client has passed on since the process started
  redeemed,    \* by token: the event it was received for, Outsider, or None
  pending,     \* tokens spent at the mint whose value the wallet lacks
  balance,     \* the worker wallet, by account
  running,     \* events whose job runs in some container
  results,     \* results handed to the relays
  credit,      \* by event: the amount authorised for it
  posts,       \* by event: how often its job was posted to a worker
  issued,      \* by event: the change that left the wallet for it
  crashes, withdrawals

control   == <<pc, cur, before, claimed, response, sent>>
queue     == <<inbox, seen>>
wallet    == <<redeemed, pending, balance>>
ledger    == <<results, credit, posts, issued>>
budgets   == <<crashes, withdrawals>>
vars      == <<control, queue, wallet, running, ledger, budgets>>
-----------------------------------------------------------------------------
(***************************************************************************)
(* Reading a request.                                                      *)
(***************************************************************************)
Blank == [status |-> "invalid", elapsed |-> 0, errors |-> {}]

\* slot_for_event: the first worker of the pool the event is addressed to.
Addressed(e) == Request[e].job_kind /\ Request[e].to # {}
SlotOf(e)    == CHOOSE s \in Request[e].to : \A other \in Request[e].to : s <= other

\* extract_payment_token: exactly one payment tag, and not a blank one.
HasOneToken(e) == Len(Request[e].payment) = 1 /\ Request[e].payment[1] # None
TokenOf(e)     == Request[e].payment[1]

\* decode_job_event: the content decrypts with the key of the chosen slot.
Decodes(e) == Request[e].sealed_for = SlotOf(e)

Acceptable(e) == Addressed(e) /\ HasOneToken(e) /\ Decodes(e)

\* Requests that reach the wallet with a token of an account that is priced.
AccountFor(e) == AccountOf[TokenOf(e)]
PriceFor(e)   == FindPrice(Prices, AccountFor(e))
Payable(e)    == Acceptable(e) /\ Listed(Prices, AccountFor(e))

TimeoutFor(e, amount)      == Timeout(amount, PriceFor(e), MaxDuration)
ChangeFor(e, amount, time) == Change(amount, PriceFor(e), time, MinDuration)
CostFor(e, amount, time)   == Cost(amount, PriceFor(e), time, MinDuration)
-----------------------------------------------------------------------------
Init ==
  /\ pc = "starting" /\ cur = None /\ before = 0 /\ claimed = 0
  /\ response = Blank /\ sent = 0
  /\ inbox = <<>> /\ seen = {}
  /\ redeemed = [t \in Tokens |-> None]
  /\ pending = {}
  /\ balance = [a \in Accounts |-> Funds]
  /\ running = {}
  /\ results = {}
  /\ credit = [e \in Events |-> 0]
  /\ posts  = [e \in Events |-> 0]
  /\ issued = [e \in Events |-> 0]
  /\ crashes = 0 /\ withdrawals = 0

(***************************************************************************)
(* The relay client.  It passes an event on once per process lifetime; the *)
(* broadcast channel keeps the newest QueueCap notifications and drops the *)
(* oldest when the handler lags behind.                                    *)
(***************************************************************************)
\* Mutant: the channel grows instead of dropping the oldest notification.
DeliverUnbounded(e) ==
  /\ pc \notin {"down", "starting"}
  /\ e \notin seen
  /\ seen' = seen \cup {e}
  /\ inbox' = Append(inbox, e)
  /\ UNCHANGED <<control, wallet, running, ledger, budgets>>

Deliver(e) ==
  /\ pc \notin {"down", "starting"}
  /\ e \notin seen
  /\ seen' = seen \cup {e}
  /\ inbox' = Append(IF Len(inbox) = QueueCap THEN Tail(inbox) ELSE inbox, e)
  /\ UNCHANGED <<control, wallet, running, ledger, budgets>>

(***************************************************************************)
(* Taking a notification: not for this pool, not acceptable, or a job.     *)
(***************************************************************************)
\* Where the handler goes to publish a result without billing.
Refuse == pc' = "publish" /\ response' = Blank

TakeFromInbox ==
  /\ pc = "idle"
  /\ inbox # <<>>
  /\ inbox' = Tail(inbox)
  /\ UNCHANGED <<before, claimed, sent, seen, wallet, running, ledger, budgets>>

IgnoreRequest ==
  /\ TakeFromInbox
  /\ ~Addressed(Head(inbox))
  /\ UNCHANGED <<pc, cur, response>>

RejectRequest ==
  /\ TakeFromInbox
  /\ Addressed(Head(inbox))
  /\ ~Acceptable(Head(inbox))
  /\ cur' = Head(inbox)
  /\ Refuse

\* Mutant: the content is not decrypted before the payment is taken.
TakeUndecoded ==
  /\ TakeFromInbox
  /\ Addressed(Head(inbox)) /\ HasOneToken(Head(inbox))
  /\ cur' = Head(inbox)
  /\ pc' = "decode_token"
  /\ UNCHANGED response

TakeRequest ==
  /\ TakeFromInbox
  /\ Acceptable(Head(inbox))
  /\ cur' = Head(inbox)
  /\ pc' = "decode_token"
  /\ UNCHANGED response

(***************************************************************************)
(* claim_payment, one cdk-cli call per step.  A call that fails before it  *)
(* changes anything ends the claim and the request is answered invalid.    *)
(***************************************************************************)
CallFails ==
  /\ pc \in {"decode_token", "balance_before", "receive", "balance_after"}
  /\ Refuse
  /\ UNCHANGED <<cur, before, claimed, sent, queue, wallet, running, ledger, budgets>>

DecodeToken ==
  /\ pc = "decode_token"
  /\ IF Listed(Prices, AccountFor(cur))
     THEN pc' = "balance_before" /\ UNCHANGED response
     ELSE Refuse
  /\ UNCHANGED <<cur, before, claimed, sent, queue, wallet, running, ledger, budgets>>

\* What a call of balance finds in the account of the token.
Reading == balance[AccountFor(cur)]

\* Mutant: the whole balance counts as received.
ReadNoBalance ==
  /\ pc = "balance_before"
  /\ before' = 0
  /\ pc' = "receive"
  /\ UNCHANGED <<cur, claimed, response, sent, queue, wallet, running, ledger, budgets>>

ReadBalanceBefore ==
  /\ pc = "balance_before"
  /\ before' = Reading
  /\ pc' = "receive"
  /\ UNCHANGED <<cur, claimed, response, sent, queue, wallet, running, ledger, budgets>>

\* The mint spends a token once, and only for a holder of the key it is locked to.
Spendable(t, s) == redeemed[t] = None /\ Lock[t] \in {None, s}

Redeem(t, who) == redeemed' = [redeemed EXCEPT ![t] = who]

Credited(t) == [balance EXCEPT ![AccountOf[t]] = @ + Value[t]]

\* authorize_payment: the amount is claimed if it covers the minimum.  An
\* amount that does not is kept all the same, and the request refused.
Authorize(amount) ==
  \/ /\ amount > 0
     /\ CoversMinimum(amount, PriceFor(cur), MinDuration)
     /\ claimed' = amount
     /\ credit' = [credit EXCEPT ![cur] = amount]
     /\ pc' = "dispatch"
     /\ UNCHANGED response
  \/ /\ \/ amount = 0
        \/ ~CoversMinimum(amount, PriceFor(cur), MinDuration)
     /\ Refuse
     /\ UNCHANGED <<claimed, credit>>

\* Mutant: the exit status of the receive is ignored, a spent token is claimed again.
ReceiveUnchecked ==
  /\ pc = "receive"
  /\ IF Spendable(TokenOf(cur), SlotOf(cur))
     THEN Redeem(TokenOf(cur), cur) /\ balance' = Credited(TokenOf(cur))
     ELSE UNCHANGED <<redeemed, balance>>
  /\ Authorize(Value[TokenOf(cur)])
  /\ UNCHANGED <<cur, before, sent, queue, pending, running,
                 results, posts, issued, budgets>>

\* cdk-cli receive succeeds and its output names a positive amount.
ReceivePrinted ==
  /\ pc = "receive"
  /\ Spendable(TokenOf(cur), SlotOf(cur))
  /\ Value[TokenOf(cur)] > 0
  /\ Redeem(TokenOf(cur), cur)
  /\ balance' = Credited(TokenOf(cur))
  /\ Authorize(Value[TokenOf(cur)])
  /\ UNCHANGED <<cur, before, sent, queue, pending, running,
                 results, posts, issued, budgets>>

\* It succeeds and prints no amount: the balance is read again.
ReceiveSilent ==
  /\ pc = "receive"
  /\ Spendable(TokenOf(cur), SlotOf(cur))
  /\ Redeem(TokenOf(cur), cur)
  /\ balance' = Credited(TokenOf(cur))
  /\ pc' = "balance_after"
  /\ UNCHANGED <<cur, before, claimed, response, sent, queue, pending, running,
                 ledger, budgets>>

\* It fails after the mint has spent the token; the value reaches the wallet
\* with a later check-pending, or never.
ReceiveBreaks ==
  /\ pc = "receive"
  /\ Spendable(TokenOf(cur), SlotOf(cur))
  /\ Redeem(TokenOf(cur), cur)
  /\ pending' = pending \cup {TokenOf(cur)}
  /\ Refuse
  /\ UNCHANGED <<cur, before, claimed, sent, queue, balance, running, ledger, budgets>>

ReadBalanceAfter ==
  /\ pc = "balance_after"
  /\ \/ /\ DeltaReadable(before, Reading)
        /\ Authorize(ReceivedDelta(before, Reading))
     \/ /\ ~DeltaReadable(before, Reading)
        /\ Refuse
        /\ UNCHANGED <<claimed, credit>>
  /\ UNCHANGED <<cur, before, sent, queue, wallet, running,
                 results, posts, issued, budgets>>

(***************************************************************************)
(* dispatch_job: one HTTP exchange under the timeout the payment bought.   *)
(* Whatever its outcome, it is settled: the change is what billing the     *)
(* elapsed time leaves, and a positive change is sent before publishing.   *)
(***************************************************************************)
Settle(answer) ==
  /\ response' = answer
  /\ pc' = IF ChangeFor(cur, claimed, answer.elapsed) > 0 THEN "send_change" ELSE "publish"

Outcome(status, elapsed) == [status |-> status, elapsed |-> elapsed, errors |-> {}]

\* The worker accepts the request and starts the job.
PostJob ==
  /\ pc = "dispatch"
  /\ TimeoutFor(cur, claimed) > 0
  /\ posts' = [posts EXCEPT ![cur] = @ + 1]
  /\ running' = running \cup {cur}
  /\ pc' = "await"
  /\ UNCHANGED <<cur, before, claimed, response, sent, queue, wallet,
                 results, credit, issued, budgets>>

\* Mutant: a broken exchange is tried again.
DispatchRetries ==
  /\ pc \in {"dispatch", "await"}
  /\ pc' = "dispatch"
  /\ UNCHANGED <<cur, before, claimed, response, sent, queue, wallet, running,
                 ledger, budgets>>

\* Mutant: the runtime that was paid for is billed, whatever came of it.
DispatchFailsInFull ==
  /\ pc \in {"dispatch", "await"}
  /\ Settle(Outcome("failure", TimeoutFor(cur, claimed)))
  /\ UNCHANGED <<cur, before, claimed, sent, queue, wallet, running, ledger, budgets>>

\* No container, no connection, a broken exchange or an unreadable answer:
\* a failure of zero seconds, and a job that was started is left alone.
DispatchFails ==
  /\ pc \in {"dispatch", "await"}
  /\ Settle(Outcome("failure", 0))
  /\ UNCHANGED <<cur, before, claimed, sent, queue, wallet, running, ledger, budgets>>

\* The worker's answer ends the exchange; status, runtime and errors are its
\* word, a bill in it is replaced.
WorkerAnswers(reply) ==
  /\ pc = "await"
  /\ running' = running \ {cur}
  /\ Settle(reply)
  /\ UNCHANGED <<cur, before, claimed, sent, queue, wallet, ledger, budgets>>

\* Mutant: the timeout covers the connection, not the wait for the answer.
ConnectTimesOut ==
  /\ pc = "dispatch"
  /\ response' = Outcome("timeout", TimeoutFor(cur, claimed))
  /\ pc' = "respawn"
  /\ UNCHANGED <<cur, before, claimed, sent, queue, wallet, running, ledger, budgets>>

\* The paid runtime is over, whether or not the worker ever accepted the job.
DispatchTimesOut ==
  /\ pc \in {"dispatch", "await"}
  /\ response' = Outcome("timeout", TimeoutFor(cur, claimed))
  /\ pc' = "respawn"
  /\ UNCHANGED <<cur, before, claimed, sent, queue, wallet, running, ledger, budgets>>

(***************************************************************************)
(* respawn_pool_container after a timeout.  stop and destroy swallow every *)
(* error, so the container may survive its cleanup; creating a container   *)
(* of a name that exists fails, so the respawn then fails too.             *)
(***************************************************************************)
JobsIn(s) == {e \in running : SlotOf(e) = s}

\* cleanup_container: the jobs left running when it has, or has not, taken effect.
LeftRunning(killed) == IF killed THEN running \ JobsIn(SlotOf(cur)) ELSE running

\* Mutant: the error of the respawn is logged and not reported.
RespawnUnreported(killed, spawned) ==
  /\ pc = "respawn"
  /\ spawned => killed
  /\ running' = LeftRunning(killed)
  /\ Settle(response)
  /\ UNCHANGED <<cur, before, claimed, sent, queue, wallet, ledger, budgets>>

Respawn(killed, spawned) ==
  /\ pc = "respawn"
  /\ spawned => killed
  /\ running' = LeftRunning(killed)
  /\ Settle([response EXCEPT !.errors = IF spawned THEN @ ELSE @ \cup {"stop"}])
  /\ UNCHANGED <<cur, before, claimed, sent, queue, wallet, ledger, budgets>>

(***************************************************************************)
(* send_change.  Failing, the call may have left the wallet as it was or   *)
(* have taken the funds out: cdk-cli stops after the mint has signed, or   *)
(* prints no token the controller recognises.                              *)
(***************************************************************************)
ChangeDue == ChangeFor(cur, claimed, response.elapsed)

TakeChange ==
  /\ ChangeDue <= balance[AccountFor(cur)]
  /\ balance' = [balance EXCEPT ![AccountFor(cur)] = @ - ChangeDue]
  /\ issued' = [issued EXCEPT ![cur] = @ + ChangeDue]

SendChange ==
  /\ pc = "send_change"
  /\ TakeChange
  /\ sent' = ChangeDue
  /\ pc' = "publish"
  /\ UNCHANGED <<cur, before, claimed, response, queue, redeemed, pending,
                 running, results, credit, posts, budgets>>

\* Mutant: the error of the send is logged and not reported.
SendChangeUnreported(funds_left) ==
  /\ pc = "send_change"
  /\ IF funds_left THEN TakeChange ELSE UNCHANGED <<balance, issued>>
  /\ pc' = "publish"
  /\ UNCHANGED <<cur, before, claimed, response, sent, queue, redeemed, pending,
                 running, results, credit, posts, budgets>>

\* Mutant: a failed send is tried again.
SendChangeRetries(funds_left) ==
  /\ pc = "send_change"
  /\ IF funds_left THEN TakeChange ELSE UNCHANGED <<balance, issued>>
  /\ UNCHANGED <<control, queue, redeemed, pending, running, results, credit,
                 posts, budgets>>

SendChangeFails(funds_left) ==
  /\ pc = "send_change"
  /\ IF funds_left THEN TakeChange ELSE UNCHANGED <<balance, issued>>
  /\ response' = [response EXCEPT !.errors = @ \cup {"refund"}]
  /\ pc' = "publish"
  /\ UNCHANGED <<cur, before, claimed, sent, queue, redeemed, pending,
                 running, results, credit, posts, budgets>>

(***************************************************************************)
(* publish_result: one attempt, whose failure is only logged.  A result    *)
(* that carries billing is one for a payment that was authorised.          *)
(***************************************************************************)
Result(delivered) ==
  [event |-> cur, status |-> response.status, errors |-> response.errors,
   billed |-> claimed > 0,
   cost |-> IF claimed > 0 THEN CostFor(cur, claimed, response.elapsed) ELSE 0,
   change |-> sent, delivered |-> delivered]

Rest == cur' = None /\ before' = 0 /\ claimed' = 0 /\ response' = Blank /\ sent' = 0

Publish(delivered) ==
  /\ pc = "publish"
  /\ results' = results \cup {Result(delivered)}
  /\ pc' = "idle"
  /\ Rest
  /\ UNCHANGED <<queue, wallet, running, credit, posts, issued, budgets>>

(***************************************************************************)
(* The environment: jobs end on their own, another holder spends a token,  *)
(* the operator empties an account of the wallet, the process dies (or is  *)
(* stopped) and starts again, when check-pending may credit some of what   *)
(* earlier receives left pending.                                          *)
(***************************************************************************)
JobEnds(e) ==
  /\ e \in running
  /\ ~(cur = e /\ pc = "await")
  /\ running' = running \ {e}
  /\ UNCHANGED <<control, queue, wallet, ledger, budgets>>

SpendElsewhere(t) ==
  /\ redeemed[t] = None
  /\ Lock[t] = None
  /\ Redeem(t, Outsider)
  /\ UNCHANGED <<control, queue, pending, balance, running, ledger, budgets>>

Withdraw(a) ==
  /\ withdrawals < MaxWithdrawals
  /\ balance[a] > 0
  /\ balance' = [balance EXCEPT ![a] = 0]
  /\ withdrawals' = withdrawals + 1
  /\ UNCHANGED <<control, queue, redeemed, pending, running, ledger, crashes>>

Crash ==
  /\ pc # "down"
  /\ crashes < MaxCrashes
  /\ crashes' = crashes + 1
  /\ pc' = "down"
  /\ Rest
  /\ inbox' = <<>> /\ seen' = {}
  /\ UNCHANGED <<wallet, running, ledger, withdrawals>>

Restart ==
  /\ pc = "down"
  /\ pc' = "starting"
  /\ UNCHANGED <<cur, before, claimed, response, sent, queue, wallet, running,
                 ledger, budgets>>

CheckPending(t) ==
  /\ pc = "starting"
  /\ t \in pending
  /\ balance' = Credited(t)
  /\ pending' = pending \ {t}
  /\ UNCHANGED <<control, queue, redeemed, running, ledger, budgets>>

\* check-pending is over or has failed, and the subscription is in place.
Listen ==
  /\ pc = "starting"
  /\ pc' = "idle"
  /\ UNCHANGED <<cur, before, claimed, response, sent, queue, wallet, running,
                 ledger, budgets>>
-----------------------------------------------------------------------------
\* The steps the handler takes by itself, those of an outcome it waits for.
HandlerStep ==
  \/ IgnoreRequest \/ RejectRequest \/ TakeRequest
  \/ CallFails \/ DecodeToken \/ ReadBalanceBefore \/ ReadBalanceAfter
  \/ ReceivePrinted \/ ReceiveSilent \/ ReceiveBreaks
  \/ PostJob \/ DispatchTimesOut
  \/ \E killed, spawned \in BOOLEAN : Respawn(killed, spawned)
  \/ SendChange \/ \E left \in BOOLEAN : SendChangeFails(left)
  \/ \E delivered \in BOOLEAN : Publish(delivered)

WorkerStep ==
  \/ DispatchFails
  \/ \E reply \in Replies : WorkerAnswers(reply)
  \/ \E e \in Events : JobEnds(e)

Environment ==
  \/ \E e \in Events : Deliver(e)
  \/ \E t \in Tokens : SpendElsewhere(t)
  \/ \E a \in Accounts : Withdraw(a)
  \/ Crash
  \/ Restart
  \/ \E t \in Tokens : CheckPending(t)
  \/ Listen

Next == HandlerStep \/ WorkerStep \/ Environment

(***************************************************************************)
(* Fairness.  Every call to cdk-cli, to nixos-container and to the relays  *)
(* returns, and the dispatch timeout fires; nothing makes a worker answer, *)
(* a relay deliver or systemd restart the controller.                      *)
(***************************************************************************)
Spec == Init /\ [][Next]_vars /\ WF_vars(HandlerStep)
-----------------------------------------------------------------------------
Locations ==
  {"down", "starting", "idle", "decode_token", "balance_before", "receive",
   "balance_after", "dispatch", "await", "respawn", "send_change", "publish"}

(***************************************************************************)
(* Types.  The queue never holds more than the channel keeps, and no       *)
(* balance or claim goes below zero.                                       *)
(***************************************************************************)
ControlTypes ==
  /\ pc \in Locations
  /\ cur \in Events \cup {None}
  /\ before \in Nat /\ claimed \in Nat /\ sent \in Nat
  /\ response \in Response

QueueTypes ==
  /\ inbox \in Seq(Events)
  /\ Len(inbox) <= QueueCap
  /\ seen \subseteq Events

WalletTypes ==
  /\ redeemed \in [Tokens -> Events \cup {None, Outsider}]
  /\ pending \subseteq Tokens
  /\ balance \in [Accounts -> Nat]

LedgerTypes ==
  /\ running \subseteq Events
  /\ results \subseteq [event : Events, status : Statuses,
                        errors : SUBSET Errors, billed : BOOLEAN,
                        cost : Nat, change : Nat, delivered : BOOLEAN]
  /\ credit \in [Events -> Nat]
  /\ posts \in [Events -> Nat]
  /\ issued \in [Events -> Nat]
  /\ crashes \in Nat /\ withdrawals \in Nat

TypeOK == ControlTypes /\ QueueTypes /\ WalletTypes /\ LedgerTypes

(***************************************************************************)
(* A payment buys one run at most: a job is posted at most once, and of    *)
(* the requests that carry one token at most one is posted, whatever is    *)
(* redelivered after a crash.  The code keeps no record of what it has     *)
(* handled; only the receive before the dispatch stands in the way.        *)
(***************************************************************************)
OneRunPerPayment ==
  \A e, f \in Events :
    /\ posts[e] <= 1
    /\ posts[e] > 0 /\ posts[f] > 0 /\ TokenOf(e) = TokenOf(f) => e = f

(***************************************************************************)
(* Likewise at most one result with billing is ever published for the      *)
(* requests that carry one token.                                          *)
(***************************************************************************)
OneBillPerPayment ==
  \A r, q \in results :
    r.billed /\ q.billed /\ TokenOf(r.event) = TokenOf(q.event) => r = q

(***************************************************************************)
(* The worker earns the minimum: whatever runtime the worker reports and   *)
(* however the dispatch ends, the change that leaves the wallet for a      *)
(* request leaves at least WORKER_MIN_DURATION seconds of its payment.     *)
(***************************************************************************)
Earned(e) == MinDuration * PriceFor(e)

MinimumEarned ==
  \A e \in Events :
    posts[e] > 0 \/ issued[e] > 0 => issued[e] + Earned(e) <= credit[e]

(***************************************************************************)
(* No request is credited more than its own token brought, although the    *)
(* credit may be the difference of two readings of a balance that other    *)
(* payments and the operator move.                                         *)
(***************************************************************************)
CreditWithinValue ==
  \A e \in Events : credit[e] > 0 => credit[e] <= Value[TokenOf(e)]

(***************************************************************************)
(* A published bill accounts for the payment: cost and change make up the  *)
(* credit, unless the result says that the refund failed and brings none;  *)
(* and a change token in a result is the money that left the wallet for    *)
(* that request, whatever errors the worker reports besides.               *)
(***************************************************************************)
BillAccountsForPayment ==
  \A r \in results : r.billed =>
    /\ \/ r.cost + r.change = credit[r.event]
       \/ "refund" \in r.errors /\ r.change = 0
    /\ r.cost + issued[r.event] <= credit[r.event]
    /\ r.change > 0 => r.change = issued[r.event]

(***************************************************************************)
(* A result that says the job timed out and does not confess that the      *)
(* worker could not be stopped is the result of a job that runs no more.   *)
(***************************************************************************)
TimedOutJobIsStopped ==
  \A r \in results :
    r.status = "timeout" /\ "stop" \notin r.errors => r.event \notin running

(***************************************************************************)
(* The controller owns up to every job it has lost sight of.  A job that   *)
(* runs while nobody waits for its answer was left by a crash, and is not  *)
(* billed, or its bill says so: the worker could not be stopped, or the    *)
(* exchange with it failed, and then no more than the minimum is charged.  *)
(***************************************************************************)
Billed(e) == \E r \in results : r.event = e /\ r.billed

Attended(e) == cur = e /\ claimed > 0

Confesses(r) ==
  \/ "stop" \in r.errors
  \/ r.status = "failure" /\ r.cost <= Earned(r.event)

LostJobsAreConfessed ==
  \A e \in running :
    \/ Attended(e)
    \/ crashes > 0 /\ ~Billed(e)
    \/ \E r \in results : r.event = e /\ r.billed /\ Confesses(r)

(***************************************************************************)
(* What README.md says of a timeout: the running container is destroyed "so *)
(* unpaid compute cannot continue in the background".                      *)
(***************************************************************************)
UnpaidComputeStops ==
  \A r \in results : r.status = "timeout" => r.event \notin running

(***************************************************************************)
(* What README.md says of a change token that cannot be created: "funds    *)
(* remain in the worker wallet for manual recovery".                       *)
(***************************************************************************)
FailedRefundStaysInWallet ==
  \A r \in results : "refund" \in r.errors => issued[r.event] = 0

(***************************************************************************)
(* A token is taken only for a request that carries it and nothing else,   *)
(* is addressed to this pool, decrypts to a valid job under the key of the *)
(* slot that takes it, and pays in a priced account: every refusal that    *)
(* can be made before the money is taken is made before.                   *)
(***************************************************************************)
TakenOnlyWhenPayable ==
  \A t \in Tokens : redeemed[t] \in Events =>
    Payable(redeemed[t]) /\ TokenOf(redeemed[t]) = t

(***************************************************************************)
(* Change leaves the wallet at most once for a request: the send is not    *)
(* retried, although a failed send may have taken the funds out.           *)
(***************************************************************************)
RefundedOnce ==
  [][\A e \in Events : issued'[e] # issued[e] => issued[e] = 0]_vars

(***************************************************************************)
(* Every request the handler takes up comes to a published result, or to a *)
(* failed attempt to publish one, unless the process dies: a worker that   *)
(* never answers is cut off by the timeout, so one job cannot keep the     *)
(* controller's only task for ever.                                        *)
(***************************************************************************)
Answered(e) == \E r \in results : r.event = e

EveryRequestAnswered ==
  \A e \in Events : cur = e ~> Answered(e) \/ pc = "down"

(***************************************************************************)
(* The handler implements the contract on payments.                        *)
(***************************************************************************)
Concluded(e) == issued[e] > 0 \/ \E r \in results : r.event = e /\ r.billed

Stage(e) ==
  IF Concluded(e) THEN "concluded"
  ELSE IF posts[e] > 0 THEN "started"
  ELSE IF HasOneToken(e) /\ redeemed[TokenOf(e)] = e THEN "paid"
  ELSE "open"

Contract ==
  INSTANCE JobContract WITH
    TokenFor <- [e \in Events |-> IF HasOneToken(e) THEN TokenOf(e) ELSE None],
    Worth    <- [e \in Events |-> Value[TokenOf(e)]],
    Least    <- [e \in Events |-> Earned(e)],
    payer    <- redeemed,
    stage    <- [e \in Events |-> Stage(e)],
    refund   <- issued

HonoursContract == Contract!Spec
-----------------------------------------------------------------------------
(***************************************************************************)
(* The inductive invariant.  It says at every location what the handler    *)
(* holds: which requests can be there, that a claimed amount is the credit *)
(* of the request, and that what is about to happen has not happened yet.  *)
(***************************************************************************)
RestSteps  == {"down", "starting", "idle"}
WalletSteps == {"balance_before", "receive", "balance_after"}
PaidSteps  == {"dispatch", "await", "respawn", "send_change"}

HandlerState ==
  /\ pc \in RestSteps => cur = None
  /\ pc \notin RestSteps => cur \in Events
  /\ pc \notin PaidSteps \cup {"publish"} => claimed = 0
  /\ pc \in PaidSteps => claimed > 0
  /\ claimed = 0 \/ pc # "publish" => sent = 0
  /\ pc = "decode_token" => Acceptable(cur)
  /\ pc \in WalletSteps => Payable(cur)
  /\ claimed > 0 => claimed = credit[cur]

\* The balance exceeds the first reading by no more than the receive has added.
ReadingsHold ==
  /\ pc = "receive" => balance[AccountFor(cur)] <= before
  /\ pc = "balance_after" =>
       /\ balance[AccountFor(cur)] <= before + Value[TokenOf(cur)]
       /\ redeemed[TokenOf(cur)] = cur
       /\ credit[cur] = 0

CreditIsPaid ==
  \A e \in Events :
    /\ credit[e] > 0 =>
         /\ Payable(e)
         /\ redeemed[TokenOf(e)] = e
         /\ CoversMinimum(credit[e], PriceFor(e), MinDuration)
         /\ credit[e] <= Value[TokenOf(e)]
         /\ issued[e] + Earned(e) <= credit[e]
    /\ posts[e] > 0 \/ issued[e] > 0 \/ Billed(e) => credit[e] > 0
    /\ posts[e] <= 1

NotYet ==
  /\ pc = "dispatch" => posts[cur] = 0
  /\ pc \in PaidSteps => issued[cur] = 0
  /\ claimed > 0 => ~Billed(cur)

\* What the result about to be published says of the change.
ChangeIsTrue ==
  pc = "publish" /\ claimed > 0 =>
    /\ issued[cur] <= ChangeDue
    /\ sent \in {0, issued[cur]}
    /\ sent = ChangeDue \/ (sent = 0 /\ "refund" \in response.errors)

IInv ==
  /\ TypeOK
  /\ HandlerState
  /\ ReadingsHold
  /\ TakenOnlyWhenPayable
  /\ CreditIsPaid
  /\ NotYet
  /\ ChangeIsTrue
  /\ OneBillPerPayment
  /\ BillAccountsForPayment
=============================================================================
