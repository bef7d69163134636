# Verification of the Loom worker pool controller

TLA+ modules, TLC configurations and TLAPS proofs about the program in `src/`:
a controller (`nostr-ci`) that keeps a pool of NixOS containers, listens on
Nostr relays for CI job requests that carry a Cashu token, receives the token
into a wallet, dispatches the job to the container of the addressed slot, bills
the time it took and publishes the result with the change.

Run a check with `tlc -config Twin.cfg MCJobHandler`, the pool's with
`tlc -config Restart.cfg MCWorkerPool`, the run loop's with
`tlc -config Loop.cfg MCController`, a proof with `tlapm JobHandlerProofs.tla`.

## Inventory

| Component | Source | State | Operations |
|---|---|---|---|
| Job handling | `listener.rs` `handle_job_event`, `jobs.rs` | nothing durable: the locals of one call of the handler | check, claim, authorise, dispatch, time out, settle, refund, publish |
| Billing | `payments.rs`, prices and durations of `config.rs` | none, pure functions over `u64` | `find_price`, `authorize_payment`, `settle_billing`, `received_delta` |
| Payment client | `payments.rs` `PaymentClient` | the `cdk-cli` wallet database (a process per call) | `check-pending`, `decode-token`, `balance`, `receive`, `send` |
| Worker dispatch | `container.rs` `dispatch_job` | the job running in a container | one HTTP exchange under a timeout |
| Controller run loop | `listener.rs` `run`, `main.rs` | time of the last advertisement, shutdown flag, the notification queue | start-up, `select!` over poll timer, notification and shutdown |
| Relay publisher | `loom.rs` `NostrPublisher` | subscription, events already seen | subscribe, publish result, publish advertisement |
| Worker pool | `listener.rs` `reconcile_on_startup`, `maintain_pool`; `container.rs` | containers known to `nixos-container` | spawn, respawn, clean up, recover, remove stale entries |
| State database | `state.rs` | redb table of container states | put, get, remove, list, each a transaction |
| Subnet allocation | `container.rs` `get_free_subnet` | subnets read from the containers | choose a free one of 100..199 |
| Key store | `loom.rs` `WorkerKeyStore` | one key file per slot | load or create |
| Configuration | `config.rs` | read once | parse, default, reject |
| Status server | `http.rs` | none, reads the state database | `/health`, `/status` |
| `post_job` helper | `bin/post_job.rs` | none | publish one request |
| NixOS module | `nix/module.nix` | none | options to environment, restart policy |

**Interaction.** Everything the controller does happens in one task: the run
loop maintains the pool, advertises, and handles one notification at a time,
and `handle_job_event` awaits `cdk-cli`, the worker's HTTP API, `nixos-container`
and the relays in turn. The HTTP server and the signal handler are tasks of
their own; they share the state database and the shutdown flag with it. The
mint, the wallet, the containers and the relays change outside the task, between
any two of its steps.

**What is hard.** Money and a running job live outside the process while what
the handler knows about them lives in local variables: a crash forgets it, a
call that fails may have had its effect, a request may come again, and the only
thing that stops a second run for one payment is that the mint spends a token
once. The timeout of a dispatch races the worker's answer and the connection.
The clean-up of a timed-out container swallows its errors. The amount credited
may be the difference of two balance readings. The integers have 64 bits.

**What makes each part correct.**

- *Job handling*: a payment buys one run and one bill; change leaves once and
  never eats into the minimum; nothing is taken for a request that can be
  refused first; the published bill says what happened to the money; every
  request that is taken up ends in a result.
- *Billing*: the charge is that of a meter; only short payments are refused; the
  granted runtime is paid for.
- *Payment client*: a claim is the value of the request's own token, whatever else
  `cdk-cli` prints around it.
- *Worker dispatch*: a job reported as timed out and stopped does not run; a job that
  runs on with nobody waiting for it is owned up to, and costs no more than the minimum.
- *Run loop*: a request meets a worker; what has reached the receiver is handled or
  gives way to newer requests; a stop is heeded; rounds and advertisements go on
  under any stream of notifications.
- *Worker pool and state database*: every slot ends up with one live container
  and one state entry, from every crash point; no other slot's container is
  touched; an error in one slot does not starve the next.
- *Subnets*: no two containers share one. *Key store*: a slot keeps its identity
  over restarts and crashes. *Status*: what it shows is a state the database had.
- *Configuration, advertisement, request*: what is accepted is what the other parts
  assume; what the NixOS module writes is what the program reads; a request
  is taken for what was meant; an advertised offer is honoured.

## Modules

| Module | What it models |
|---|---|
| `Billing` | prices, minimum, granted runtime, cost and change over integers of width `MaxU64`; a checked product refuses, a saturating one is capped |
| `BillingCheck` | one payment on its way through `Billing`, compared with a meter and a list walk over unbounded integers |
| `JobHandler` | the handler, its queue, the wallet, the mint's record, running jobs, results; crashes and restarts |
| `JobContract` | what the controller promises about payments: open, paid, started, concluded, and a refund within bounds |
| `MCJobHandler` | the instances of `JobHandler` for TLC |
| `WorkerPool` | the pool of containers, its reconciliation, rounds of maintenance, clean-up and spawn, subnets, the state database and the advertisements; crashes and restarts |
| `MCWorkerPool` | the instances of `WorkerPool` for TLC |
| `PoolContract` | what the pool promises the run loop: which slots are served, and when that may change |
| `Controller` | the run loop over `PoolContract`: start-up, rounds, advertisements, the channel of notifications, poll interval, shutdown, restarts |
| `MCController` | an instance of `Controller` for TLC |
| `KeyStore` | the key files of the slots, one system call per step; crashes, failures, pools of changing size |
| `MCKeyStore` | an instance of `KeyStore` for TLC |
| `WalletOutput` | what `payments.rs` reads off the output of `cdk-cli` |
| `WalletOutputCheck` | a payment whose steps are printed in the forms `cdk-cli` has, read by `WalletOutput` and compared with the wallet |
| `MCWalletOutput` | mints, units and memos that are easily confused, for TLC |
| `Texts` | texts as sequences of atoms: split, trim, join |
| `Settings` | `Config::from_lookup`, and the environment the NixOS module renders |
| `JobRequest` | the advertisement of a slot, the request `post_job` makes, and what the worker reads in it |
| `JobRequestCheck` | from the controller's environment over its advertisement and a request to the worker's authorisation; composes `Settings`, `JobRequest` and `Billing` |
| `MCJobRequest` | the environments and requests for TLC |
| `BillingProofs` | theorems about the billing operators |
| `BillingCheckProofs` | they agree with the meter and the walk along the list |
| `JobHandlerProofs` | the inductive invariant and the safety properties of `JobHandler`; it implements `JobContract` |
| `WalletOutputProofs` | what is read off the output of `cdk-cli` is what the wallet did |
| `JobRequestProofs` | configuration, advertisement and request: what is written is what is read |
| `KeyStoreProofs` | the inductive invariant of `KeyStore`, and that slots keep their identity |
| `ControllerProofs` | the inductive invariant of `Controller`, and its safety properties |
| `WorkerPoolProofs` | types, subnets and spared workers of `WorkerPool`; what a round has achieved so far, with failures in other slots too; it implements the safety part of `PoolContract` |

### How `JobHandler` corresponds to the code

`pc` is the call the handler waits on; `cur`, `before`, `claimed`, `response` and
`sent` are its locals (`claimed > 0` stands for a `PaymentAuthorization`, `sent`
for the change token). `inbox` is the broadcast channel of notifications, `seen`
the relay client's record of events it has passed on. `redeemed`, `pending` and
`balance` are the mint and the wallet; `running` the jobs in the containers;
`results` what was given to the relays. `credit`, `posts` and `issued` are
history: nothing reads them but the properties.

One await of the code is one action:

| Code | Actions |
|---|---|
| the early returns of `handle_job_event` (136-165) | `IgnoreRequest`, `RejectRequest`, `TakeRequest` |
| `claim_payment` (payments.rs 76-118) | `DecodeToken`, `ReadBalanceBefore`, `ReceivePrinted` / `ReceiveSilent` / `ReceiveBreaks`, `ReadBalanceAfter`; `CallFails` is a call that fails without effect |
| `authorize_payment` and its refusal (186-199) | `Authorize`, in the step that ends the claim |
| `dispatch_job` (201-246) | `PostJob`, then `WorkerAnswers`, `DispatchFails` or `DispatchTimesOut`; the last two also before the job was accepted |
| `respawn_pool_container` after a timeout (228-240) | `Respawn(killed, spawned)` |
| `settle_billing` (248-253) | `Settle`, in the step that ends the dispatch or the respawn |
| `send_change` (254-273) | `SendChange`, `SendChangeFails(funds_left)` |
| `publish_result`, `publish_invalid_result` | `Publish(delivered)` |
| start-up (444-455) | `CheckPending`, `Listen` |
| environment | `Deliver`, `JobEnds`, `SpendElsewhere`, `Withdraw`, `Crash`, `Restart` |

Data is reduced to what the properties tell apart. A request is a record: its
kind, the slots its `p` tags address, its payment tags (`None` for a blank one),
and the slot under whose key the content decrypts to a valid payload. A token has
an account (mint and unit; `None` when the output of `decode-token` does not name
exactly one), a value and the slot whose key it is locked to, if any.

### How `WorkerPool` corresponds to the code

`box` and `subnet` are what `nixos-container` knows of each name: `absent`,
`stopped` (created or stopped), `active` (running, the worker service serving) or
`ended` (running, the service finished or failed). `db` is the state database.
Everything else is the controller's call stack: `pc` the command, transaction or
decision that is next, `at` the container in hand, `back` the loop that called,
`then` what follows the clean-up, `octet` the subnet chosen, `todo` and `listed`
the loop's remaining names or slots and the list read before it. `clean` is
history: nothing has gone wrong since the round began. Names are not only those
of slots: `list` accepts every `<5 hex>-r<digits>`, so containers of a former,
larger pool or of another host name are seen (`r9`), and `list_all` the old
per-job ones too (`j7`).

| Code (`listener.rs`, `container.rs`) | Actions |
|---|---|
| `reconcile_on_startup` (55-100) | `FindOld`, `CleanOld`, `FindPool`, `CheckLeftover`, `LeftoversChecked`, `RemoveStale`, `StaleRemoved` |
| `maintain_pool` (358-431) | `ListContainers`; per slot `SpawnMissing`, `RespawnCompleted`, `KeepHealthy` or `EntryFails`; `SlotsVisited`, `RemoveStale`, `StaleRemoved` |
| `is_worker_completed` (409-453) | `Reports(n, completed)` in the three actions that ask; unreachable counts as completed, an unreadable state does not |
| `cleanup_container_full` (103-107), `stop`, `destroy`, `cleanup_artifacts` | `Stop`, `Destroy`, `Forget`; failures of the first two pass unnoticed |
| `get_free_subnet` (190-213) | `PickSubnet`, before the name is cleared |
| `spawn_pool_container` (245-337, 110-127) | `Clear` (a second clean-up, without `Forget`, if the name exists), `Create`, `Configure`, `StartContainer`, `InstallNgit`, `Put`, `PublishSpawned` |
| `publish_all_advertisements`, `run` (434-496) | `AdvertiseSlot`, `AllAdvertised`, `RoundDone`, `Poll`; `JobTimesOut(s)` is the respawn inside `handle_job_event` |
| environment | `Start`, `Crash`, `WorkerEnds` |

An error in reconciliation ends the process (`Exit`) and systemd starts it again; an
error of the database or of `list` in a round ends the round (`AbortRound`); an error
of a spawn or respawn ends only that call (`GiveUp`). The branches for an error of
`is_worker_completed` are not modelled: the function never returns one.

`WorkerPool` is tied to the run loop by `PoolContract`: a slot is `served` when its
container is active and its worker service serving, with an entry under the slot's
identity (`Ready`); `Phase` groups the program counter into down, idle, in a round,
settled after it, in a respawn; `smooth` is `clean`. `HonoursPoolContract` says that
every behaviour of the pool, its fairness included, is one of `PoolContract`.

### How `Controller` corresponds to the code

`pc` is the next call or decision of `main` and `run`. The pool is seen through
`served`, `phase`, `hand` and `smooth` of `PoolContract`, whose actions are conjoined
to those of the loop; a job is seen as its outcome (done, or its worker replaced) and
its duration. `queue` and `lagged` are the broadcast channel, `fate` is history and
says what became of each request; `age` is `last_advertised.elapsed()`, in ticks, and
`late` counts what is taken after the signal.

| Code | Actions |
|---|---|
| `main` up to the controller (main.rs 38-63) | `Prepare`; an error ends the process |
| `run` up to the loop (443-455) | `Reconcile`, `CheckPending`, `Advertise`, `Subscribe`, `Attach` |
| check of the signal (457-461) | `StopAtTop` |
| `maintain_pool` and its logged error (463-465) | `BeginRound`, `ServeSlots`, `EndRound` |
| `advertisements_due` (467-469) | `AdvertiseIfDue` |
| `select!` (471-495) | `Sleep`, `StopInSelect`, `ReportLag`, `Skip`, `TakeRequest` |
| `handle_job_event` (475-479, 214-240) | `JobDone`, or `JobTimesOut`, `ReplaceWorker`, `Respawned` |
| environment | `Start`, `Deliver`, `Chatter`, `Tell`, `Crash`, `WorkersSuffer` |

### The other modules

*`KeyStore`* follows `load_or_create_all` slot by slot: `Load` or `LoadFails` if there
is a file, else `Generate`, `Open` (creates or empties the file), `Write`, `Restrict`.
`Serve` is the point from which requesters know the identities, and `held` remembers
them. A file that exists but cannot be examined counts as absent, as with
`Path::exists` (`blind`).

*`WalletOutput`* sees a line of output as a sequence of items, and an item by what the
parsers ask of it: the words in it, the URL, its digits, whether it is a number, an
index, a token. `WalletOutputCheck` prints token, balances, received amount and change
token in the forms the tests of `payments.rs` have, on either stream, between lines of
recovery and waiting that carry numbers of their own, and with memos that name another
unit or URL.

*`Settings`* and *`JobRequest`* work on texts, sequences of atoms of which some are the
marks the code splits at. Keys stand for themselves: what is sealed for a key is read
with it and no other. `JobRequestCheck` goes one way: `ReadConfig`, `Choose` (the
requester picks an advertised price and a runtime), `Post`, `Receive`.

## Runs

| Run | Instance | What it shows |
|---|---|---|
| `billing` | integers 0..11, up to two price entries over two accounts, prices 1, 2, 5; every pair of durations, amount and runtime | `ChargesAsMetered`, `RefusesOnlyShortPayments`, `TimeoutIsPaidFor` |
| `twin` | two requests with the same locked token, earlier earnings in the wallet, a crash, a withdrawal | `OneRunPerPayment`, `OneBillPerPayment`, `BillAccountsForPayment`, `TimedOutJobIsStopped`, `LostJobsAreConfessed`, `MinimumEarned`, `CreditWithinValue`, `RefundedOnce`, `EveryRequestAnswered`, `HonoursContract`, and the inductive invariant `IInv` |
| `odd` | seven requests, one of each kind that is turned away, one of them with a token that is not locked and may be spent elsewhere; a queue of one | `TypeOK`, `TakenOnlyWhenPayable` |
| `restart` | slots r0 and r1, r0's container and a former r9 on the host in any state, one failure, one worker that ends, one crash, identities replaced once | `TypeOK`, `CleanRoundRepairs`, `WorkersSpared`, `HonoursPoolContract` |
| `broken_slot` | r1's container and an old j7 on the host; commands on r0 that may fail without limit and one more failure, an unreadable address, a worker that ends, a crash | `SubnetsDistinct`, `FailuresStayLocal`, `EverySlotServed` |
| `loop` | two slots, a request for each, a channel of two, two starts | `TypeOK`, `DispatchMeetsWorker`, `HeldUntilTaken`, `TakesLittleMore`, `AdvertisedInTime`, `StopsWhenTold`, `RoundsGoOn`, `EveryRequestHasItsTurn` |
| `key_store` | pools of up to three slots, five keys, one file that cannot be examined | `TypeOK`, `IdentityKept` |
| `wallet` | two mints, one of which is named after a unit, two units in different spellings, amounts 0, 2, 3 | `MetadataIsTheTokens`, `ClaimIsTheCredit`, `ChangeIsTheTokenSent` |
| `request` | environments with every mistake in each part, all small options of the NixOS module; every way to name worker and relays, every job | `AcceptedIsValid`, `ModuleIsUnderstood`, `TakenAsMeant`, `OfferIsHonoured` |
| `unpaid_compute` | `twin` without withdrawals and without errors of the worker's own | finding 1 below |
| `failed_refund` | the same | finding 2 below |
| `torn_key` | `key_store` | finding 3 below |

**Bounds.** `MaxCrashes`, `MaxWithdrawals` and `QueueCap` are constants of
`JobHandler`. One crash is enough to lose the handler's locals at each location and to
have every request delivered again; a second one repeats this with the token spent, a
state the first one already leads to. One withdrawal falls between any two readings,
and the wallet holds `Funds` before the first payment, so that a balance is never
mistaken for a credit unnoticed. With a price of 2 and a minimum of 1 second, a
payment of 5 buys two seconds and leaves one unit over; the runtimes 0..3 among the
workers' `Replies` are below the minimum, at it, at the timeout and beyond it, and one
reply brings an error that speaks of a refund. A queue of one drops notifications, one
of two holds both requests. In `billing` products overflow 11 from the third price
entry on and divisions leave remainders. The proofs below do not depend on any of
these bounds.

In `WorkerPool` the bounds are `MaxFaults` (failures of commands, transactions and
publications), `MaxBlind` (addresses not read), `MaxEnds`, `MaxCrashes` and
`MaxKeys`. One crash meets every location, and its effect on the host and the
database is the same as that of a failure there, so that a crash and a failure
together already leave two slots broken in different ways. Subnets get mixed up
only by two things going wrong in a row (a destroy that fails and a spawn over
what it left), hence commands that may fail without limit and one more failure in
`broken_slot`. Two slots suffice for one slot to
be in another's way; job timeouts are not bounded and may recur after every round.

In `Controller`, time is counted in ticks: a poll interval of one, advertisements every
two, jobs of up to two, rounds of up to one, so that a job or two waits make
advertisements overdue. A channel of two overflows with one chatter among the two
requests. `MaxStarts` of two gives one restart, which is where a subscription meets
requests of the former process. `late` is counted to two, one more than is allowed.
In `KeyStore` a pool of three shrinks and grows past a slot that was served, and five
keys allow for one that is lost half-written and one that is replaced. `WalletOutput`
and `JobRequest` use integers up to 9; amounts and prices are chosen so that sums and
products reach it and one price exceeds it.

`CHECK_DEADLOCK FALSE` is set where the system may come to rest: in the runs of
`JobHandler` when all requests are handled and the environment's budgets are spent, in
`loop` after a shutdown or the last start, and in `billing`, `wallet` and `request`,
which follow one payment or request to its end.

**Fairness.** `WF_vars(HandlerStep)`: what the handler does by itself, or learns
from a call that returns, it eventually does. This assumes that `cdk-cli`,
`nixos-container` and the relay calls return (the code sets no timeout on them,
which is a listed hazard) and that tokio's timer fires, so that `DispatchTimesOut`
is among the fair steps. No fairness is assumed of workers answering, of
deliveries, of restarts or of anything else in the environment.
In `WorkerPool`, `WF_vars(Controller)` says that the controller's one task goes on as
long as its commands return, and `WF_vars(Start)` that systemd starts it again
(`Restart = "on-failure"`). No success is assumed: commands on a stubborn container
may fail for ever, and the other failures are finite only because an unlimited
number of them refutes any progress. Together they imply the fairness of
`PoolContract`, `WF(Boot)` and `WF(GetsOn)`, which `HonoursPoolContract` includes.
In `Controller`, `WF_vars(GetsOn)` says that the one task goes on where what it waits
for comes to an end: calls, jobs (by their timeout), rounds, and `select!`, whose timer
fires when no other branch is ready; `WF_vars(Start)` is systemd again. Nothing is
assumed of deliveries, the signal or the workers.

**Assumptions of the model.** Only this controller and the operator's
withdrawals move the wallet (a deposit by hand between the two readings would be
credited to the request). In `JobHandler` an amount or a balance that is read is the
right one, and one that is not there or not readable is modelled; that the parsers get
this right is checked in `WalletOutput`, provided that the lines `cdk-cli` prints
besides name no mint and no unit on a `decode-token`, that no other line says
"received" with a number, and that mint URLs are spelled alike everywhere (the code
compares them as texts). A unit without a price that is a word of a mint's URL or memo
is outside `MetadataIsTheTokens`. `nixos-container create` refuses the name of an existing container, so
a respawn succeeds only if the old one is gone. A dispatch with a timeout of zero
seconds never gets to post its job. The sum of several balance lines of one account does not
overflow. The relay client passes an event on once per process lifetime; after a
restart any event may come again (the subscription's `since` makes that rare, not
impossible, as its granularity is a second and `created_at` is the requester's).
`nixos-container destroy` leaves the container as it was or gone. The files that
`cleanup_artifacts` removes under a container that survived may or may not stop its
worker. A container that has been started serves until `WorkerEnds`: the boot is
over when `start` returns. Each of two failures inside one action (an unreadable
service state and a failed transaction, say) is modelled, both together are not.
Installations begin with entries that match the containers on the host.
`Controller` assumes positive poll and advertise intervals (`Config` accepts zero, the
NixOS module does not). `KeyStore` takes what a write has put into a file to stay there: that a
power failure may lose what was not synced is not modelled. `JobRequest` leaves to the
libraries that keys and relay URLs are normalised before they are compared.
Of several prices for one account all are advertised and the first is charged:
`OfferIsHonoured` speaks of who pays the dearest of them, while who pays a cheaper one
that is not the first may be refused or granted less. It takes all of the payment to
arrive; a mint's fee would come out of the runtime. `Settings` leaves out the errors of
settings that no other part depends on. Distinct subnets need one
subnet more than containers: a spawn chooses the subnet before it clears what is left
of the container it replaces, and nothing limits the size of the pool
(`config.rs:81`, `module.nix:199`) to the range.

## Findings

1. *Unpaid compute* (`UnpaidComputeStops`). `README.md:45` of the source says that
   on a timeout the running container is destroyed "so unpaid compute cannot
   continue in the background". `stop` and `destroy` discard all errors
   (`container.rs:460-474`), and the handler publishes the result whether or not
   the respawn worked. What does hold is `TimedOutJobIsStopped`: a timeout result
   without the error tag is the result of a job that runs no more.
2. *Failed refunds* (`FailedRefundStaysInWallet`). `README.md:60` says that when
   the change cannot be created "funds remain in the worker wallet". A send that
   exits with an error after the mint has signed, or prints nothing that looks
   like a token (`payments.rs:138-140`), takes the funds out all the same. What
   does hold is `BillAccountsForPayment` and `RefundedOnce`.
3. *A torn key file* (`LoadsOrCreates`). `main.rs:56` says "Load or create stable
   per-slot worker identities". `write_secret_file` (`loom.rs:116-130`) empties the file
   and then writes it; a crash or a failed write in between leaves a file that is there
   and holds no key, so that this start and every later one neither loads nor creates.
   What does hold is `IdentityKept`.

## Proofs

All theorems hold for every value of the constants that satisfies the named
assumptions of the modules: of `Billing`, `BillingCheck`, `JobHandler`, `KeyStore`,
`Controller` and `WorkerPool` (what `Config::from_env` guarantees of prices and
durations, types of the data, distinct sentinels, positive queue capacity, keys that are
neither `None` nor `Torn`, positive intervals, finitely many slots, names and subnets, a
name of its own for every slot); of `Settings` and `JobRequestCheck` (the marks are
atoms, a number is written as an atom that is no mark, `None` is no text, list or
number, what an environment sets is a text, and the NixOS module's environment is the
one it renders); and of `WalletOutputCheck` (finitely many mints, sums of two amounts
that fit the integers, `None` is nothing else, the tool spells a unit as configured but
for the case, and of its words only "received" says so).

`BillingProofs` shows that the cost lies between the minimum and the payment,
that cost and change make up the payment and leave the minimum, that the granted
runtime is paid for, lies between the durations and is as long as that allows, and, from the well-foundedness of the naturals, that
`find_price` is defined and is the first entry of the account.

`BillingCheckProofs` shows that the operators compute what the comparison of the run
`billing` asks, for integers of any width: `WalkIsFindPrice`, that the list walk is
`find_price`, duplicates included, and, from what an authorisation and a settlement are
said to be in its invariant, `MeterAgrees`, `RefusalsAreJust` and `GrantsWhatIsPaid`.
Walk and meter are recursive functions, one over positions and one over seconds: the
set of positions or seconds where the equation fails has no least element. That the
code multiplies with saturation is invisible in a cost because the payment it is capped
with fits the integers.

`JobHandlerProofs` proves `IInv` inductive: one lemma per action (steps with a
common shape share one: `QuietStep`, `RefuseKeeps`, `SettleKeeps`,
`AuthorizeKeeps`, `ChangeStepKeeps`), put together in `NextKeepsIInv` and
`Invariance`. None of the properties is inductive by itself. That a job is posted
once needs to know at `dispatch` that it has not been posted yet (`NotYet`); this
holds because a claim is created only by the receive that spends the token, and
credit implies the token was spent for that very request (`CreditIsPaid`); the
second path to a claim, through the balance, needs to know that the balance has
risen by no more than the token's value since the first reading (`ReadingsHold`),
which withdrawals preserve; and the bill is right because at `publish` the change
token is either what left or the result confesses, in an error of the controller's
own (`ChangeIsTrue`). From it follow
`TypeCorrect`, `PaymentBuysOneRun`, `PaymentBuysOneBill`, `WorkerEarnsMinimum`,
`CreditIsCovered`, `BillsAreTrue`, `RefusedBeforeTaking` and, for steps,
`ChangeLeavesOnce`. `TimeoutsAreStopped` needs more (`StopInv`): what the response
being prepared says of a timeout holds from the end of the dispatch on, and only a
billed result reports one, so that `NotYet` excludes that the job is posted again.
`LostJobsAreOwned` is about every job that runs on (`LostInv`): it stays attended until
its result is published or the process dies, which it can only do before there is a
bill; of the ends of a dispatch only a failed respawn and a broken exchange leave it
running, and either is in the response (`EndIsConfessed`) and so in the bill; a broken
exchange counts as zero seconds, which cost the minimum.

The last part of the module maps a request to its stage by what has happened to it (spent
token, posted job, change or bill) and shows that every step is a step of
`JobContract` or leaves its state alone; a crash leaves a request paid or started
for ever, which the contract allows.

`WalletOutputProofs` goes from the items to the outputs and from there to the invariant
`WalletInv`. A token is read as its own account because its mint and its unit are among
the candidates and `Only` takes no more than one (`MetadataRead`, `TokenIsRead`); an
amount is read because only one line says "received" and holds a number (`LinesRead`,
`OneAmountNamed`), or from the balances, whose lines list every mint once
(`MintsInOrder`, `BalanceLines`, `BalanceIsRead`); and the two ways give the same
(`ClaimIsRead`). `ClaimIsTheCredit` is inductive only together with what the purse and
the locals are before the claim (`BeforeTheClaim`). `TokensAreRead`, `CreditIsClaimed`
and `ChangeIsFound` are the three properties of the run `wallet`.

`JobRequestProofs` begins with texts. Split, join and filter are folds or recursive
functions of the community modules; that each is the function its equation asks for
needs one that satisfies it (`RecursionExists`) and that there is no other
(`RecursionIsUnique`), and what it computes is shown position by position over a set of
numbers (`UpToBound`). From `SplitIsFields` follow `SplitOfJoin` (a list is read back if
no item holds the mark), `JoinOfSplit`, and the same with trimming and empty items
dropped (`CsvOfJoin`). `AcceptedConfiguration` and `OptionsAreRead` come from there:
the first for every environment, the second for all options whose names, versions and
units hold no comma or colon and whose relays, paths and mints hold no comma, all of them
trimmed (`Plain`; the colons of a path or a mint's URL are read back because only the
first two, or the last two, colons of an item count). `IInv` says that each party's
variables are what its functions make of its environment; this is the
lemma the theorems start from. `OfferHonoured` adds that the price charged is one
of those listed for the account, and that the quotient of a payment by a price is no
less than the runtime it pays (`QuotientCovers`, `QuotientOfProduct`), and
`RequestIsUnderstood` that what is sealed for the addressed slot is the job that was
meant.

`KeyStoreProofs` proves the invariant of `KeyStore`: as long as no file was taken for
absent, what a slot was served under is in its file, what this start has loaded is
what the files hold, and a key is being created only for a slot that was never served.
`IdentityKept` alone is not inductive: it says nothing of the file a later start will
read. From it follow `KeysTypeCorrect` and `SlotKeepsIdentity`.

`ControllerProofs` proves the invariant of the run loop: the pool is in the phase that
belongs to the place in the loop, so that a round that went well has served every slot
by the time a request is taken (`RequestsMeetWorkers`); nobody waits while there is no
receiver, and what is queued is in the channel (`RequestsAreHeld`, with one lemma for
the front of the channel and one for its end); after the signal the notification taken
up is the only one, as the top of the loop comes before the next `select!`
(`StopsSoon`); and each place in the loop bounds the age of the advertisements by what
lies between it and the last time they were due (`AdvertisesInTime`). Of the pool it
uses `PoolContract` alone.

`WorkerPoolProofs` starts from the control (`Control`: which container is in hand, where
the call returns to and over what the loops go) and the data (`Counts`, `Stores`), which
make up `PoolTypes`. `SubnetsStayDistinct` needs to know that from the choice of a
subnet until the container is created nothing on the host uses it (`Apart`: in between
containers only go), and that one is free when there are more subnets than names (a
pigeonhole argument, `OneIsFree`). `ActiveWorkersSpared` needs to know what a call was
made for (`Gentle`): what is stopped or destroyed had reported its end, what is spawned
was not there when the round listed the pool and is not there yet.

The last part of the module adds what a round has achieved so far: as long as nothing goes wrong,
each command finds the container in hand as the one before has left it (`Smooth`), and
the slots already visited are served under the identity in use (`Repaired`). At the end
of a round that is `CleanRoundsRepair`. `PoolKeepsContract` then maps every step to one
of `PoolContract`: in a round slots are only won, which needs `Smooth` where a container
is taken down; in a respawn only the slot in hand changes, which needs that its
container is that of one slot (`Placed`) and, where the respawn is given up while the
container goes, that it has no entry (`Blank`). With the theorems of `ControllerProofs`,
which use the contract alone, `RequestsMeetWorkers` thus holds of a run loop over the
containers themselves.

`FailuresStayInTheirSlot` is the safe half of `EverySlotServed`: as long as no worker
ends by itself and nothing fails but commands on stubborn containers, a round serves
every other slot. Again the property is not inductive: it needs what the commands of a
replacement leave behind when the container in hand is not stubborn (`Untroubled`, with
`Gentle` from above), and which slots a round that has lost some has served already
(`ServedElsewhere`); a call of the round that ends has served its slot unless its
container is stubborn.

**Only model-checked**: `EveryRequestAnswered`, `EverySlotServed`, `StopsWhenTold`,
`RoundsGoOn`, `EveryRequestHasItsTurn` and the fairness in `HonoursPoolContract`:
liveness under fairness and `ENABLED` are out of the prover's reach. The three findings
are counterexamples of TLC. Every other property of a passing run is a theorem.
Induction over data is, where it is needed, an argument about sets of numbers, because
the library's induction theorems take an operator as a parameter, which the provers
cannot instantiate.

## Not modelled, and the plan

JSON, HTTP and the wire format of Nostr events are abstracted to what they carry. The
status server reads the state database, which is `db` of `WorkerPool`, and changes
nothing. The worker's command construction is not called by the controller. Settings
that are taken over as they are have nothing to check, and the remaining tags of
results and advertisements are layout.

What is left: `is_worker_completed` with two failures in one call.
