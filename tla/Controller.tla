----------------------------- MODULE Controller -----------------------------
(***************************************************************************)
(* The run loop: the order of start-up, then rounds of maintenance,        *)
(* advertisements when they are due and one notification, shutdown signal  *)
(* or poll interval each.  It composes the pool, of which it knows what    *)
(* PoolContract promises, with the relays' notifications, which come       *)
(* through a bounded channel that drops the oldest, and with the handler   *)
(* of jobs, of which it sees how long it takes and whether it has the slot *)
(* replaced.  Time passes in the poll interval, in rounds and in jobs.     *)
(***************************************************************************)
EXTENDS Naturals, Sequences

CONSTANTS
  Slots,          \* the configured slots
  Events,         \* the job requests
  SlotOf,         \* by event: the slot it addresses, None for none
  Noise,          \* any other notification of the relay pool
  None,           \* no event, no slot
  QueueCap,       \* capacity of the channel of notifications
  PollInterval, AdvertiseInterval, LongestJob, LongestRound,   \* in ticks
  MaxStarts       \* bound: starts of the process

ASSUME ControllerAssumption ==
  /\ Slots # {} /\ None \notin Slots \cup Events /\ Noise \notin Events
  /\ SlotOf \in [Events -> Slots \cup {None}]
  /\ {QueueCap, PollInterval, AdvertiseInterval} \subseteq Nat \ {0}
  /\ {LongestJob, LongestRound, MaxStarts} \subseteq Nat

VARIABLES
  pc,             \* the call or decision that is next
  told,           \* shutdown_rx: the signal has been received
  subscribed,     \* the relays have the subscription
  queue,          \* what the receiver of notifications has still to deliver
  lagged,         \* some of it was dropped
  cur,            \* the request being handled
  age,            \* last_advertised.elapsed()
  fate,           \* by event: what became of it
  late,           \* notifications taken since the signal, 2 for more than one
  starts,
  served, phase, hand, smooth     \* the pool

channel == <<subscribed, queue, lagged>>
pool    == <<served, phase, hand, smooth>>
vars    == <<pc, told, channel, cur, age, fate, late, starts, pool>>

Pool == INSTANCE PoolContract
-----------------------------------------------------------------------------
Init ==
  /\ pc = "down" /\ told = FALSE
  /\ subscribed = FALSE /\ queue = <<>> /\ lagged = FALSE
  /\ cur = None /\ age = 0
  /\ fate = [e \in Events |-> "unsent"]
  /\ late = 0 /\ starts = 0
  /\ Pool!Init

Passes(most) == \E ticks \in 0..most : age' = age + ticks

(***************************************************************************)
(* The process ends: what the channel held is lost, the workers go on.     *)
(***************************************************************************)
Exit ==
  /\ pc' = "down"
  /\ subscribed' = FALSE /\ queue' = <<>> /\ lagged' = FALSE
  /\ cur' = None /\ age' = 0
  /\ fate' = [e \in Events |-> IF fate[e] = "queued" THEN "missed" ELSE fate[e]]
  /\ Pool!Setback /\ phase' = "down"
  /\ UNCHANGED <<told, late, starts>>

\* systemd starts it, and again after a failure, but not after a shutdown.
Start ==
  /\ pc = "down" /\ ~told
  /\ starts < MaxStarts /\ starts' = starts + 1
  /\ pc' = "prepare"
  /\ Pool!Boot
  /\ UNCHANGED <<told, channel, cur, age, fate, late>>

(***************************************************************************)
(* Start-up.  State database, identities, relays and reconciliation may    *)
(* fail; an error of check-pending, advertisements or the subscription is  *)
(* only logged.                                                            *)
(***************************************************************************)
Prepare ==
  /\ pc = "prepare"
  /\ \/ /\ pc' = "reconcile"
        /\ UNCHANGED <<told, channel, cur, age, fate, late, starts, pool>>
     \/ Exit

Reconcile ==
  /\ pc = "reconcile"
  /\ \/ /\ pc' = "check_pending"
        /\ UNCHANGED <<told, channel, cur, age, fate, late, starts, pool>>
     \/ Exit

CheckPending ==
  /\ pc = "check_pending"
  /\ pc' = "advertise"
  /\ UNCHANGED <<told, channel, cur, age, fate, late, starts, pool>>

Advertise ==
  /\ pc = "advertise"
  /\ pc' = "subscribe"
  /\ age' = 0
  /\ UNCHANGED <<told, channel, cur, fate, late, starts, pool>>

Subscribe ==
  /\ pc = "subscribe"
  /\ pc' = "attach"
  /\ subscribed' \in BOOLEAN
  /\ UNCHANGED <<told, queue, lagged, cur, age, fate, late, starts, pool>>

\* Mutant: the loop begins by waiting for a notification.
AttachAndWait ==
  /\ pc = "attach"
  /\ pc' = "select"
  /\ queue' = <<>> /\ lagged' = FALSE
  /\ UNCHANGED <<told, subscribed, cur, age, fate, late, starts, pool>>

\* publisher.notifications: the receiver sees what comes from now on.
Attach ==
  /\ pc = "attach"
  /\ pc' = "top"
  /\ queue' = <<>> /\ lagged' = FALSE
  /\ UNCHANGED <<told, subscribed, cur, age, fate, late, starts, pool>>
-----------------------------------------------------------------------------
\* The check at the top of the loop.
StopAtTop ==
  /\ pc = "top" /\ told
  /\ Exit

\* Mutant: the receiver is created in each round.
BeginReattached ==
  /\ pc = "top" /\ ~told
  /\ pc' = "round" /\ Pool!Begin
  /\ queue' = <<>> /\ lagged' = FALSE
  /\ UNCHANGED <<told, subscribed, cur, age, fate, late, starts>>

\* Mutant: the loop goes on to the round whether told to stop or not.
BeginRegardless ==
  /\ pc = "top"
  /\ \/ pc' = "round" /\ Pool!Begin
     \/ pc' = "due" /\ Pool!Setback /\ phase' = "settled"
  /\ UNCHANGED <<told, channel, cur, age, fate, late, starts>>

\* maintain_pool: the list of containers, without which there is no round.
BeginRound ==
  /\ pc = "top" /\ ~told
  /\ \/ pc' = "round" /\ Pool!Begin
     \/ pc' = "due" /\ Pool!Setback /\ phase' = "settled"
  /\ UNCHANGED <<told, channel, cur, age, fate, late, starts>>

ServeSlots ==
  /\ pc = "round"
  /\ Pool!Serve
  /\ UNCHANGED <<pc, told, channel, cur, age, fate, late, starts>>

\* Mutant: the loop starts over after a round that failed.
EndRoundOrRetry ==
  /\ pc = "round"
  /\ \/ pc' = "due" /\ Pool!Settle
     \/ pc' = "top" /\ smooth' = FALSE /\ phase' = "idle" /\ UNCHANGED <<served, hand>>
  /\ Passes(LongestRound)
  /\ UNCHANGED <<told, channel, cur, fate, late, starts>>

\* An error of the round is logged.
EndRound ==
  /\ pc = "round"
  /\ pc' = "due"
  /\ Pool!Settle \/ (Pool!Setback /\ phase' = "settled")
  /\ Passes(LongestRound)
  /\ UNCHANGED <<told, channel, cur, fate, late, starts>>

\* Mutant: not quite due.
LongerDue == age > AdvertiseInterval

Due == age >= AdvertiseInterval

\* publish_all_advertisements takes note of the time, whatever fails in it.
AdvertiseIfDue ==
  /\ pc = "due"
  /\ pc' = "select"
  /\ age' = IF Due THEN 0 ELSE age
  /\ UNCHANGED <<told, channel, cur, fate, late, starts, pool>>
-----------------------------------------------------------------------------
(***************************************************************************)
(* select!.  A branch that is ready comes before the poll interval, which  *)
(* begins anew in each round; of two that are ready either may be taken.   *)
(***************************************************************************)
Sleep ==
  /\ pc = "select" /\ queue = <<>> /\ ~lagged /\ ~told
  /\ pc' = "top"
  /\ Pool!Poll
  /\ age' = age + PollInterval
  /\ UNCHANGED <<told, channel, cur, fate, late, starts>>

StopInSelect ==
  /\ pc = "select" /\ told
  /\ Exit

\* Counted as far as the properties tell apart.
CountIfTold == late' = IF told /\ late < 2 THEN late + 1 ELSE late

ReportLag ==
  /\ pc = "select" /\ lagged
  /\ lagged' = FALSE
  /\ pc' = "top"
  /\ Pool!Poll
  /\ Passes(PollInterval) /\ CountIfTold
  /\ UNCHANGED <<told, subscribed, queue, cur, fate, starts>>

\* Mutant: whatever is in the channel is read before the loop goes on.
SkipAndDrain ==
  /\ pc = "select" /\ ~lagged
  /\ queue # <<>> /\ Head(queue) = Noise
  /\ queue' = Tail(queue)
  /\ Passes(0) /\ CountIfTold
  /\ UNCHANGED <<pc, told, subscribed, lagged, cur, fate, starts, pool>>

\* Messages of the relays are notifications as well.
Skip ==
  /\ pc = "select" /\ ~lagged
  /\ queue # <<>> /\ Head(queue) = Noise
  /\ queue' = Tail(queue)
  /\ pc' = "top"
  /\ Pool!Poll
  /\ Passes(PollInterval) /\ CountIfTold
  /\ UNCHANGED <<told, subscribed, lagged, cur, fate, starts>>

TakeRequest ==
  /\ pc = "select" /\ ~lagged
  /\ queue # <<>> /\ Head(queue) # Noise
  /\ cur' = Head(queue)
  /\ fate' = [fate EXCEPT ![cur'] = "taken"]
  /\ queue' = Tail(queue)
  /\ pc' = "handle"
  /\ Passes(PollInterval) /\ CountIfTold
  /\ UNCHANGED <<told, subscribed, lagged, starts, pool>>

\* The handler returns: refused, failed, or with a result.
JobDone ==
  /\ pc = "handle"
  /\ pc' = "top" /\ cur' = None
  /\ Pool!Poll
  /\ Passes(LongestJob)
  /\ UNCHANGED <<told, channel, fate, late, starts>>

JobTimesOut ==
  /\ pc = "handle" /\ SlotOf[cur] # None
  /\ pc' = "respawn"
  /\ Pool!Respawn(SlotOf[cur])
  /\ UNCHANGED <<told, channel, cur, age, fate, late, starts>>

ReplaceWorker ==
  /\ pc = "respawn"
  /\ Pool!Replace
  /\ UNCHANGED <<pc, told, channel, cur, age, fate, late, starts>>

\* Mutant: after a job that timed out the next notification is read at once.
RespawnedAndOn ==
  /\ pc = "respawn"
  /\ pc' = "select" /\ cur' = None
  /\ Pool!GoOn \/ (Pool!Setback /\ phase' = "idle")
  /\ Passes(LongestJob)
  /\ UNCHANGED <<told, channel, fate, late, starts>>

Respawned ==
  /\ pc = "respawn"
  /\ pc' = "top" /\ cur' = None
  /\ Pool!GoOn \/ (Pool!Setback /\ phase' = "idle")
  /\ Passes(LongestJob)
  /\ UNCHANGED <<told, channel, fate, late, starts>>
-----------------------------------------------------------------------------
(***************************************************************************)
(* The environment.  A notification that comes while nobody has a receiver *)
(* is lost; one too many takes the place of the oldest.                    *)
(***************************************************************************)
Attached == pc \notin {"down", "prepare", "reconcile", "check_pending", "advertise",
                       "subscribe", "attach"}

\* Mutant: the channel keeps whatever it is given.
SendUnbounded(n, others) ==
  queue' = Append(queue, n) /\ fate' = others /\ UNCHANGED lagged

Send(n, others) ==
  IF Len(queue) < QueueCap
  THEN queue' = Append(queue, n) /\ fate' = others /\ UNCHANGED lagged
  ELSE /\ queue' = Append(Tail(queue), n)
       /\ fate' = [e \in Events |-> IF e = Head(queue) THEN "dropped" ELSE others[e]]
       /\ lagged' = TRUE

Deliver(e) ==
  /\ subscribed /\ fate[e] = "unsent"
  /\ IF Attached
     THEN Send(e, [fate EXCEPT ![e] = "queued"])
     ELSE fate' = [fate EXCEPT ![e] = "missed"] /\ UNCHANGED <<queue, lagged>>
  /\ UNCHANGED <<pc, told, subscribed, cur, age, late, starts, pool>>

Chatter ==
  /\ Attached
  /\ Send(Noise, fate)
  /\ UNCHANGED <<pc, told, subscribed, cur, age, late, starts, pool>>

\* SIGTERM or SIGINT, once its handler is installed; before, it kills.
Tell ==
  /\ ~told
  /\ pc \notin {"down", "prepare"}
  /\ told' = TRUE
  /\ UNCHANGED <<pc, channel, cur, age, fate, late, starts, pool>>

Crash ==
  /\ pc # "down"
  /\ Exit

WorkersSuffer ==
  /\ Pool!Trouble
  /\ UNCHANGED <<pc, told, channel, cur, age, fate, late, starts>>

StartUp == Prepare \/ Reconcile \/ CheckPending \/ Advertise \/ Subscribe \/ Attach

Round == BeginRound \/ ServeSlots \/ EndRound \/ AdvertiseIfDue

Select == Sleep \/ StopInSelect \/ ReportLag \/ Skip \/ TakeRequest

Handle == JobDone \/ JobTimesOut \/ ReplaceWorker \/ Respawned

\* Each of these waits for something that comes to an end.
GetsOn ==
  \/ StartUp \/ StopAtTop \/ BeginRound \/ EndRound \/ AdvertiseIfDue
  \/ Select \/ JobDone \/ Respawned

Next ==
  \/ Start \/ StartUp \/ StopAtTop \/ Round \/ Select \/ Handle
  \/ (\E e \in Events : Deliver(e)) \/ Chatter \/ Tell \/ Crash \/ WorkersSuffer

\* The controller's one task goes on, and systemd starts it after a failure.
Spec == Init /\ [][Next]_vars /\ WF_vars(Start) /\ WF_vars(GetsOn)
-----------------------------------------------------------------------------
Fates == {"unsent", "missed", "queued", "dropped", "taken"}

(***************************************************************************)
(* Advertisements are repeated in time however many jobs and other         *)
(* notifications there are: they age by one job, one wait and one round at *)
(* most beyond the interval.                                               *)
(***************************************************************************)
AdvertisedInTime ==
  age < AdvertiseInterval + PollInterval + LongestJob + LongestRound

\* What every variable holds.
TypeOK ==
  /\ pc \in {"down", "prepare", "reconcile", "check_pending", "advertise", "subscribe",
             "attach", "top", "round", "due", "select", "handle", "respawn"}
  /\ told \in BOOLEAN /\ subscribed \in BOOLEAN /\ lagged \in BOOLEAN
  /\ queue \in Seq(Events \cup {Noise}) /\ Len(queue) <= QueueCap
  /\ cur \in Events \cup {None}
  /\ age \in Nat /\ late \in 0..2 /\ starts \in 0..MaxStarts
  /\ fate \in [Events -> Fates]
  /\ Pool!TypeOK

(***************************************************************************)
(* A request is handled after a round of maintenance and before anything   *)
(* else has happened to the pool, so that slots may be advertised before   *)
(* their workers are spawned: unless something has gone wrong since that   *)
(* round began, the slot it addresses is served.                           *)
(***************************************************************************)
DispatchMeetsWorker ==
  pc = "handle" =>
    /\ phase = "settled"
    /\ smooth /\ SlotOf[cur] # None => SlotOf[cur] \in served

\* A request that has reached the receiver stays there until it is taken, is
\* dropped for newer ones (which the receiver reports) or the process ends.
HeldUntilTaken ==
  \A e \in Events :
    fate[e] = "queued" => \E i \in DOMAIN queue : queue[i] = e

\* Once told to stop, the controller takes up one more notification at most:
\* the one the select prefers to the signal.
TakesLittleMore == late <= 1

\* Once told to stop it stops, whatever the relays send and the workers do.
StopsWhenTold == told ~> pc = "down"

\* The next round comes, under any stream of notifications.
RoundsGoOn == pc = "select" ~> pc \in {"round", "due", "down"}

\* A request that has reached the receiver gets its turn or gives way to newer
\* ones, also while every round of maintenance fails.
EveryRequestHasItsTurn ==
  \A e \in Events : fate[e] = "queued" ~> fate[e] # "queued"
=============================================================================
