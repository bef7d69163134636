-------------------------- MODULE ControllerProofs --------------------------
(***************************************************************************)
(* The run loop for any number of slots, requests and starts, any capacity *)
(* of the channel and any length of interval, job and round: its inductive *)
(* invariant and what follows from it.                                     *)
(***************************************************************************)
EXTENDS Controller, TLAPS

Before == {"prepare", "reconcile", "check_pending", "advertise", "subscribe", "attach"}

\* Where the loop is tells in which phase the pool is.
InPhase ==
  /\ pc = "down" => phase = "down"
  /\ pc \in Before \cup {"top"} => phase = "idle"
  /\ pc = "round" => phase = "round"
  /\ pc \in {"due", "select", "handle"} => phase = "settled"
  /\ pc = "respawn" => phase = "respawn"

\* A slot is in hand while it is replaced.
InHand == phase = "respawn" => hand # None

\* A round in which nothing went wrong has left every slot served.
AllServed == phase = "settled" /\ smooth => served = Slots

\* There is a request while one is handled, and none waits without a receiver.
Requests ==
  /\ pc \in {"handle", "respawn"} => cur \in Events
  /\ ~Attached => \A e \in Events : fate[e] # "queued"

\* Of the notifications taken since the signal, the only one came before the top.
Counted ==
  /\ ~told => late = 0
  /\ pc \in Before \cup {"round", "due", "select"} => late = 0

\* How old the advertisements may be, by what the loop has been through.
Aged ==
  /\ pc \in Before \cup {"down"} => age = 0
  /\ pc = "select" => age < AdvertiseInterval
  /\ pc \in {"handle", "respawn"} => age < AdvertiseInterval + PollInterval
  /\ pc \in {"top", "round"} => age < AdvertiseInterval + PollInterval + LongestJob

IInv ==
  /\ TypeOK
  /\ InPhase /\ InHand /\ AllServed /\ Requests /\ HeldUntilTaken
  /\ Counted /\ TakesLittleMore
  /\ Aged /\ AdvertisedInTime

\* The numbers of the model are natural numbers.
LEMMA Numbers ==
  /\ QueueCap \in Nat /\ QueueCap > 0
  /\ PollInterval \in Nat /\ PollInterval > 0
  /\ AdvertiseInterval \in Nat /\ AdvertiseInterval > 0
  /\ LongestJob \in Nat /\ LongestRound \in Nat /\ MaxStarts \in Nat
BY ControllerAssumption

\* Nothing at all fits into the channel.
LEMMA EmptyFits ==
  /\ <<>> \in Seq(Events \cup {Noise})
  /\ Len(<<>>) <= QueueCap
BY Numbers

\* At first nothing runs.
LEMMA InitHolds == Init => IInv
<1> SUFFICES ASSUME Init PROVE IInv
  OBVIOUS
<1>1. TypeOK
  <2>1. fate \in [Events -> Fates] /\ age \in Nat /\ late \in 0..2 /\ starts \in 0..MaxStarts
    BY Numbers DEF Init, Fates
  <2>2. Pool!TypeOK
    BY DEF Init, Pool!Init, Pool!TypeOK
  <2> QED
    BY <2>1, <2>2, EmptyFits DEF Init, TypeOK
<1>2. InPhase /\ InHand /\ AllServed /\ Requests /\ HeldUntilTaken
  BY DEF Init, Pool!Init, InPhase, InHand, AllServed, Requests, HeldUntilTaken, Attached,
         Before
<1>3. Counted /\ TakesLittleMore /\ Aged /\ AdvertisedInTime
  BY Numbers DEF Init, Counted, TakesLittleMore, Aged, AdvertisedInTime, Before
<1> QED
  BY <1>1, <1>2, <1>3 DEF IInv

\* Whatever ends the process takes what was queued with it.
LEMMA ExitKeeps ==
  ASSUME IInv, Exit
  PROVE  IInv'
<1>1. TypeOK'
  BY Numbers, EmptyFits DEF IInv, TypeOK, Fates, Exit, Pool!Setback, Pool!TypeOK
<1>2. InPhase' /\ InHand' /\ AllServed'
  BY DEF Exit, Pool!Setback, InPhase, InHand, AllServed, Before
<1>3. Requests' /\ HeldUntilTaken'
  BY DEF IInv, TypeOK, Exit, Requests, HeldUntilTaken, Attached
<1>4. Counted' /\ TakesLittleMore' /\ Aged' /\ AdvertisedInTime'
  BY Numbers DEF IInv, TypeOK, Exit, Counted, TakesLittleMore, Aged, AdvertisedInTime,
                 Before
<1> QED
  BY <1>1, <1>2, <1>3, <1>4 DEF IInv

\* Starting the process and the calls of start-up.
LEMMA StartUpKeeps ==
  ASSUME IInv, Start \/ StartUp
  PROVE  IInv'
<1>1. CASE Start
  <2>1. TypeOK'
    BY <1>1, Numbers DEF IInv, TypeOK, Start, channel, Pool!Boot, Pool!TypeOK
  <2>2. InPhase' /\ InHand' /\ AllServed' /\ Requests' /\ HeldUntilTaken'
    BY <1>1 DEF IInv, Start, channel, Pool!Boot, InPhase, InHand, AllServed, Requests,
                HeldUntilTaken, Attached, Before
  <2>3. Counted' /\ TakesLittleMore' /\ Aged' /\ AdvertisedInTime'
    BY <1>1 DEF IInv, Start, Counted, TakesLittleMore, Aged, AdvertisedInTime, Before
  <2> QED
    BY <2>1, <2>2, <2>3 DEF IInv
<1>2. ASSUME pc \in Before \ {"attach"}, pc' \in Before, age' \in {age, 0},
             subscribed' \in BOOLEAN,
             UNCHANGED <<told, queue, lagged, cur, fate, late, starts, pool>>
      PROVE  IInv'
  <2>1. TypeOK'
    BY <1>2 DEF IInv, TypeOK, Before, pool, Pool!TypeOK
  <2>2. InPhase' /\ InHand' /\ AllServed' /\ Requests' /\ HeldUntilTaken'
    BY <1>2 DEF IInv, InPhase, InHand, AllServed, Requests, HeldUntilTaken, Attached,
                Before, pool
  <2>3. Counted' /\ TakesLittleMore' /\ Aged' /\ AdvertisedInTime'
    BY <1>2, Numbers DEF IInv, Counted, TakesLittleMore, Aged, AdvertisedInTime, Before
  <2> QED
    BY <2>1, <2>2, <2>3 DEF IInv
<1>3. subscribed \in BOOLEAN
  BY DEF IInv, TypeOK
<1>4. CASE Prepare
  BY <1>2, <1>3, <1>4, ExitKeeps DEF Prepare, Before, channel
<1>5. CASE Reconcile
  BY <1>2, <1>3, <1>5, ExitKeeps DEF Reconcile, Before, channel
<1>6. CASE CheckPending
  BY <1>2, <1>3, <1>6 DEF CheckPending, Before, channel
<1>7. CASE Advertise
  BY <1>2, <1>3, <1>7 DEF Advertise, Before, channel
<1>8. CASE Subscribe
  BY <1>2, <1>8 DEF Subscribe, Before
<1>9. CASE Attach
  <2>1. TypeOK'
    BY <1>9, EmptyFits DEF IInv, TypeOK, Attach, pool, Pool!TypeOK
  <2>2. InPhase' /\ InHand' /\ AllServed' /\ Requests' /\ HeldUntilTaken'
    BY <1>9 DEF IInv, Attach, InPhase, InHand, AllServed, Requests, HeldUntilTaken,
                Attached,
                Before, pool
  <2>3. Counted' /\ TakesLittleMore' /\ Aged' /\ AdvertisedInTime'
    BY <1>9, Numbers
    DEF IInv, Attach, Counted, TakesLittleMore, Aged, AdvertisedInTime, Before
  <2> QED
    BY <2>1, <2>2, <2>3 DEF IInv
<1> QED
  BY <1>1, <1>4, <1>5, <1>6, <1>7, <1>8, <1>9 DEF StartUp

\* A step of the round of maintenance, or the advertisements after it.
LEMMA RoundKeeps ==
  ASSUME IInv, StopAtTop \/ Round
  PROVE  IInv'
<1>1. CASE StopAtTop
  BY <1>1, ExitKeeps DEF StopAtTop
<1>2. CASE BeginRound
  <2>1. TypeOK'
    BY <1>2 DEF IInv, TypeOK, BeginRound, channel, Pool!Begin, Pool!Setback, Pool!TypeOK
  <2>2. InPhase' /\ InHand' /\ AllServed'
    BY <1>2 DEF BeginRound, Pool!Begin, Pool!Setback, InPhase, InHand, AllServed, Before
  <2>3. Requests' /\ HeldUntilTaken'
    BY <1>2 DEF IInv, BeginRound, channel, Requests, HeldUntilTaken, Attached
  <2>4. Counted' /\ TakesLittleMore' /\ Aged' /\ AdvertisedInTime'
    BY <1>2, Numbers
    DEF IInv, TypeOK, BeginRound, Counted, TakesLittleMore, Aged, AdvertisedInTime, Before
  <2> QED
    BY <2>1, <2>2, <2>3, <2>4 DEF IInv
<1>3. CASE ServeSlots
  <2>1. TypeOK'
    BY <1>3 DEF IInv, TypeOK, ServeSlots, channel, Pool!Serve, Pool!TypeOK
  <2>2. InPhase' /\ InHand' /\ AllServed'
    BY <1>3 DEF IInv, ServeSlots, Pool!Serve, InPhase, InHand, AllServed, Before
  <2>3. Requests' /\ HeldUntilTaken'
    BY <1>3 DEF IInv, ServeSlots, channel, Requests, HeldUntilTaken, Attached
  <2>4. Counted' /\ TakesLittleMore' /\ Aged' /\ AdvertisedInTime'
    BY <1>3 DEF IInv, ServeSlots, Counted, TakesLittleMore, Aged, AdvertisedInTime, Before
  <2> QED
    BY <2>1, <2>2, <2>3, <2>4 DEF IInv
<1>4. CASE EndRound
  <2>1. PICK ticks \in 0..LongestRound : age' = age + ticks
    BY <1>4 DEF EndRound, Passes
  <2>2. TypeOK'
    <3>1. age' \in Nat
      BY <2>1, Numbers DEF IInv, TypeOK
    <3>2. Pool!TypeOK'
      BY <1>4 DEF IInv, TypeOK, EndRound, Pool!Settle, Pool!Setback, Pool!TypeOK
    <3> QED
      BY <1>4, <3>1, <3>2 DEF IInv, TypeOK, EndRound, channel
  <2>3. InPhase' /\ InHand' /\ AllServed'
    BY <1>4 DEF EndRound, Pool!Settle, Pool!Setback, InPhase, InHand, AllServed, Before
  <2>4. Requests' /\ HeldUntilTaken'
    BY <1>4 DEF IInv, EndRound, channel, Requests, HeldUntilTaken, Attached
  <2>5. Counted' /\ TakesLittleMore' /\ Aged' /\ AdvertisedInTime'
    BY <1>4, <2>1, Numbers
    DEF IInv, TypeOK, EndRound, Counted, TakesLittleMore, Aged, AdvertisedInTime, Before
  <2> QED
    BY <2>2, <2>3, <2>4, <2>5 DEF IInv
<1>5. CASE AdvertiseIfDue
  <2>1. TypeOK'
    BY <1>5 DEF IInv, TypeOK, AdvertiseIfDue, channel, pool, Pool!TypeOK
  <2>2. InPhase' /\ InHand' /\ AllServed' /\ Requests' /\ HeldUntilTaken'
    BY <1>5 DEF IInv, AdvertiseIfDue, channel, pool, InPhase, InHand, AllServed, Requests,
                HeldUntilTaken, Attached, Before
  <2>3. Counted' /\ TakesLittleMore' /\ Aged' /\ AdvertisedInTime'
    BY <1>5, Numbers DEF IInv, TypeOK, AdvertiseIfDue, Due, Counted, TakesLittleMore,
                         Aged, AdvertisedInTime, Before
  <2> QED
    BY <2>1, <2>2, <2>3 DEF IInv
<1> QED
  BY <1>1, <1>2, <1>3, <1>4, <1>5 DEF Round

\* What has left the channel from its front takes no other request with it.
LEMMA OthersStay ==
  ASSUME TypeOK, HeldUntilTaken, queue # <<>>, queue' = Tail(queue),
         NEW e \in Events, fate[e] = "queued", e # Head(queue)
  PROVE  \E i \in DOMAIN queue' : queue'[i] = e
<1>1. queue \in Seq(Events \cup {Noise})
  BY DEF TypeOK
<1>2. PICK i \in DOMAIN queue : queue[i] = e
  BY DEF HeldUntilTaken
<1>3. i \in 2..Len(queue)
  BY <1>1, <1>2
<1>4. i - 1 \in DOMAIN Tail(queue) /\ Tail(queue)[i - 1] = queue[i]
  BY <1>1, <1>3
<1> QED
  BY <1>2, <1>4

\* What select! does when one of its branches is ready.
LEMMA SelectKeeps ==
  ASSUME IInv, Select
  PROVE  IInv'
<1>1. ASSUME pc = "select", ~told \/ late = 0, NEW ticks \in 0..PollInterval,
             age' = age + ticks, CountIfTold
      PROVE  /\ age' \in Nat /\ age' < AdvertiseInterval + PollInterval
             /\ AdvertisedInTime' /\ late' \in 0..1 /\ (~told => late' = 0)
  BY <1>1, Numbers
  DEF IInv, TypeOK, Aged, AdvertisedInTime, Counted, TakesLittleMore, CountIfTold, Before
<1>2. pc = "select" => late = 0
  BY DEF IInv, Counted
<1>3. queue # <<>> =>
        Tail(queue) \in Seq(Events \cup {Noise}) /\ Len(Tail(queue)) <= QueueCap
  BY Numbers DEF IInv, TypeOK
<1>4. CASE Sleep
  <2>1. CountIfTold
    BY <1>4 DEF Sleep, CountIfTold
  <2>2. /\ age' \in Nat /\ age' < AdvertiseInterval + PollInterval /\ AdvertisedInTime'
        /\ late' \in 0..1 /\ (~told => late' = 0)
    BY <1>1, <1>2, <1>4, <2>1, Numbers DEF Sleep
  <2>3. TypeOK'
    BY <1>4, <2>2 DEF IInv, TypeOK, Sleep, channel, Pool!Poll, Pool!TypeOK
  <2>4. InPhase' /\ InHand' /\ AllServed' /\ Requests' /\ HeldUntilTaken'
    BY <1>4 DEF IInv, Sleep, channel, Pool!Poll, InPhase, InHand, AllServed, Requests,
                HeldUntilTaken, Attached, Before
  <2>5. Counted' /\ TakesLittleMore' /\ Aged'
    BY <1>4, <2>2, Numbers DEF Sleep, Counted, TakesLittleMore, Aged, Before
  <2> QED
    BY <2>2, <2>3, <2>4, <2>5 DEF IInv
<1>5. CASE StopInSelect
  BY <1>5, ExitKeeps DEF StopInSelect
<1>6. CASE ReportLag
  <2>1. PICK ticks \in 0..PollInterval : age' = age + ticks
    BY <1>6 DEF ReportLag, Passes
  <2>2. /\ age' \in Nat /\ age' < AdvertiseInterval + PollInterval /\ AdvertisedInTime'
        /\ late' \in 0..1 /\ (~told => late' = 0)
    BY <1>1, <1>2, <1>6, <2>1 DEF ReportLag
  <2>3. TypeOK'
    <3>1. Pool!TypeOK'
      BY <1>6 DEF IInv, TypeOK, ReportLag, Pool!Poll, Pool!TypeOK
    <3>2. queue' \in Seq(Events \cup {Noise}) /\ Len(queue') <= QueueCap
      BY <1>6 DEF IInv, TypeOK, ReportLag
    <3>3. pc' = "top" /\ lagged' \in BOOLEAN
      BY <1>6 DEF ReportLag
    <3>4. UNCHANGED <<told, subscribed, cur, fate, starts>>
      BY <1>6 DEF ReportLag
    <3>5. late' \in 0..2
      BY <2>2
    <3> QED
      BY <2>2, <3>1, <3>2, <3>3, <3>4, <3>5 DEF IInv, TypeOK
  <2>4. InPhase' /\ InHand' /\ AllServed' /\ Requests' /\ HeldUntilTaken'
    BY <1>6 DEF IInv, ReportLag, Pool!Poll, InPhase, InHand, AllServed, Requests,
                HeldUntilTaken,
                Attached, Before
  <2>5. Counted' /\ TakesLittleMore' /\ Aged'
    BY <1>6, <2>2, Numbers DEF ReportLag, Counted, TakesLittleMore, Aged, Before
  <2> QED
    BY <2>2, <2>3, <2>4, <2>5 DEF IInv
<1>7. CASE Skip
  <2>1. PICK ticks \in 0..PollInterval : age' = age + ticks
    BY <1>7 DEF Skip, Passes
  <2>2. /\ age' \in Nat /\ age' < AdvertiseInterval + PollInterval /\ AdvertisedInTime'
        /\ late' \in 0..1 /\ (~told => late' = 0)
    BY <1>1, <1>2, <1>7, <2>1 DEF Skip
  <2>3. TypeOK'
    BY <1>3, <1>7, <2>2 DEF IInv, TypeOK, Skip, Pool!Poll, Pool!TypeOK
  <2>4. HeldUntilTaken'
    <3>1. TypeOK /\ HeldUntilTaken
      BY DEF IInv
    <3>2. \A e \in Events : e # Head(queue)
      BY <1>7, ControllerAssumption DEF Skip
    <3>3. queue # <<>> /\ queue' = Tail(queue) /\ fate' = fate
      BY <1>7 DEF Skip
    <3> QED
      BY <3>1, <3>2, <3>3, OthersStay DEF HeldUntilTaken
  <2>5. InPhase' /\ InHand' /\ AllServed' /\ Requests'
    BY <1>7 DEF IInv, Skip, Pool!Poll, InPhase, InHand, AllServed, Requests, Attached,
                Before
  <2>6. Counted' /\ TakesLittleMore' /\ Aged'
    BY <1>7, <2>2, Numbers DEF Skip, Counted, TakesLittleMore, Aged, Before
  <2> QED
    BY <2>2, <2>3, <2>4, <2>5, <2>6 DEF IInv
<1>8. CASE TakeRequest
  <2>1. PICK ticks \in 0..PollInterval : age' = age + ticks
    BY <1>8 DEF TakeRequest, Passes
  <2>2. /\ age' \in Nat /\ age' < AdvertiseInterval + PollInterval /\ AdvertisedInTime'
        /\ late' \in 0..1 /\ (~told => late' = 0)
    BY <1>1, <1>2, <1>8, <2>1 DEF TakeRequest
  <2>3. Head(queue) \in Events /\ cur' = Head(queue)
    BY <1>8 DEF IInv, TypeOK, TakeRequest
  <2>4. fate \in [Events -> Fates] /\ fate' = [fate EXCEPT ![Head(queue)] = "taken"]
    BY <1>8, <2>3 DEF IInv, TypeOK, TakeRequest
  <2>5. TypeOK'
    <3>1. fate' \in [Events -> Fates]
      BY <2>4 DEF Fates
    <3> QED
      BY <1>3, <1>8, <2>2, <2>3, <3>1 DEF IInv, TypeOK, TakeRequest, pool, Pool!TypeOK
  <2>6. HeldUntilTaken'
    <3>1. TypeOK /\ HeldUntilTaken /\ queue # <<>> /\ queue' = Tail(queue)
      BY <1>8 DEF IInv, TakeRequest
    <3>2. ASSUME NEW e \in Events, fate'[e] = "queued"
          PROVE  e # Head(queue) /\ fate[e] = "queued"
      BY <2>3, <2>4, <3>2
    <3> QED
      BY <3>1, <3>2, OthersStay DEF HeldUntilTaken
  <2>7. InPhase' /\ InHand' /\ AllServed' /\ Requests'
    BY <1>8, <2>3 DEF IInv, TakeRequest, pool, InPhase, InHand, AllServed, Requests,
                    Attached, Before
  <2>8. Counted' /\ TakesLittleMore' /\ Aged'
    BY <1>8, <2>2, Numbers DEF TakeRequest, Counted, TakesLittleMore, Aged, Before
  <2> QED
    BY <2>2, <2>5, <2>6, <2>7, <2>8 DEF IInv
<1> QED
  BY <1>4, <1>5, <1>6, <1>7, <1>8 DEF Select

\* A job, and the worker it may have replaced.
LEMMA HandleKeeps ==
  ASSUME IInv, Handle
  PROVE  IInv'
<1>1. ASSUME pc \in {"handle", "respawn"}, NEW ticks \in 0..LongestJob, age' = age + ticks
      PROVE  /\ age' \in Nat /\ AdvertisedInTime'
             /\ age' < AdvertiseInterval + PollInterval + LongestJob
  BY <1>1, Numbers DEF IInv, TypeOK, Aged, AdvertisedInTime
<1>2. CASE JobDone
  <2>1. /\ age' \in Nat /\ AdvertisedInTime'
        /\ age' < AdvertiseInterval + PollInterval + LongestJob
    BY <1>1, <1>2 DEF JobDone, Passes
  <2>2. TypeOK'
    BY <1>2, <2>1 DEF IInv, TypeOK, JobDone, channel, Pool!Poll, Pool!TypeOK
  <2>3. InPhase' /\ InHand' /\ AllServed' /\ Requests' /\ HeldUntilTaken'
    BY <1>2 DEF IInv, JobDone, channel, Pool!Poll, InPhase, InHand, AllServed, Requests,
                HeldUntilTaken, Attached, Before
  <2>4. Counted' /\ TakesLittleMore' /\ Aged'
    BY <1>2, <2>1 DEF IInv, JobDone, Counted, TakesLittleMore, Aged, Before
  <2> QED
    BY <2>1, <2>2, <2>3, <2>4 DEF IInv
<1>3. CASE JobTimesOut
  <2>1. SlotOf[cur] \in Slots
    BY <1>3, ControllerAssumption DEF IInv, Requests, JobTimesOut
  <2>2. TypeOK'
    BY <1>3, <2>1 DEF IInv, TypeOK, JobTimesOut, channel, Pool!Respawn, Pool!TypeOK
  <2>3. InPhase' /\ InHand' /\ AllServed' /\ Requests' /\ HeldUntilTaken'
    BY <1>3 DEF IInv, JobTimesOut, channel, Pool!Respawn, InPhase, InHand, AllServed,
                Requests,
                HeldUntilTaken, Attached, Before
  <2>4. Counted' /\ TakesLittleMore' /\ Aged' /\ AdvertisedInTime'
    BY <1>3 DEF IInv, JobTimesOut, Counted, TakesLittleMore, Aged, AdvertisedInTime, Before
  <2> QED
    BY <2>2, <2>3, <2>4 DEF IInv
<1>4. CASE ReplaceWorker
  <2>1. TypeOK'
    <3>1. Pool!TypeOK'
      <4>1. hand \in Slots \cup {None} /\ served \subseteq Slots
        BY DEF IInv, TypeOK, Pool!TypeOK
      <4>2. hand # None
        BY <1>4 DEF IInv, InHand, ReplaceWorker, Pool!Replace
      <4> QED
        BY <1>4, <4>1, <4>2 DEF IInv, TypeOK, ReplaceWorker, Pool!Replace, Pool!TypeOK
    <3> QED
      BY <1>4, <3>1 DEF IInv, TypeOK, ReplaceWorker, channel
  <2>2. InPhase' /\ InHand' /\ AllServed' /\ Requests' /\ HeldUntilTaken'
    BY <1>4 DEF IInv, ReplaceWorker, channel, Pool!Replace, InPhase, InHand, AllServed,
                Requests,
                HeldUntilTaken, Attached, Before
  <2>3. Counted' /\ TakesLittleMore' /\ Aged' /\ AdvertisedInTime'
    BY <1>4 DEF IInv, ReplaceWorker, Counted, TakesLittleMore, Aged, AdvertisedInTime,
                Before
  <2> QED
    BY <2>1, <2>2, <2>3 DEF IInv
<1>5. CASE Respawned
  <2>1. /\ age' \in Nat /\ AdvertisedInTime'
        /\ age' < AdvertiseInterval + PollInterval + LongestJob
    BY <1>1, <1>5 DEF Respawned, Passes
  <2>2. TypeOK'
    <3>1. Pool!TypeOK'
      BY <1>5 DEF IInv, TypeOK, Respawned, Pool!GoOn, Pool!Setback, Pool!TypeOK
    <3> QED
      BY <1>5, <2>1, <3>1 DEF IInv, TypeOK, Respawned, channel
  <2>3. InPhase' /\ InHand' /\ AllServed' /\ Requests' /\ HeldUntilTaken'
    BY <1>5 DEF IInv, Respawned, channel, Pool!GoOn, Pool!Setback, InPhase, InHand,
                AllServed,
                Requests, HeldUntilTaken, Attached, Before
  <2>4. Counted' /\ TakesLittleMore' /\ Aged'
    BY <1>5, <2>1 DEF IInv, Respawned, Counted, TakesLittleMore, Aged, Before
  <2> QED
    BY <2>1, <2>2, <2>3, <2>4 DEF IInv
<1> QED
  BY <1>2, <1>3, <1>4, <1>5 DEF Handle

\* A notification given to the channel.
LEMMA SendKeeps ==
  ASSUME TypeOK, HeldUntilTaken, NEW n \in Events \cup {Noise},
         NEW others \in [Events -> Fates],
         \A e \in Events : others[e] = "queued" => fate[e] = "queued" \/ e = n,
         Send(n, others)
  PROVE  /\ queue' \in Seq(Events \cup {Noise}) /\ Len(queue') <= QueueCap
         /\ lagged' \in BOOLEAN /\ fate' \in [Events -> Fates]
         /\ HeldUntilTaken'
<1>1. queue \in Seq(Events \cup {Noise}) /\ Len(queue) <= QueueCap /\ lagged \in BOOLEAN
  BY DEF TypeOK
<1>2. CASE Len(queue) < QueueCap
  <2>1. queue' = Append(queue, n) /\ fate' = others /\ lagged' = lagged
    BY <1>2 DEF Send
  <2>2. queue' \in Seq(Events \cup {Noise}) /\ Len(queue') = Len(queue) + 1
    BY <1>1, <2>1
  <2>3. ASSUME NEW e \in Events, fate'[e] = "queued"
        PROVE  \E i \in DOMAIN queue' : queue'[i] = e
    <3>1. CASE e = n
      <4>1. Len(queue') \in DOMAIN queue' /\ queue'[Len(queue')] = n
        BY <1>1, <2>1
      <4> QED
        BY <3>1, <4>1
    <3>2. CASE e # n
      <4>1. PICK i \in DOMAIN queue : queue[i] = e
        BY <2>1, <2>3, <3>2 DEF HeldUntilTaken
      <4>2. i \in DOMAIN queue' /\ queue'[i] = e
        BY <1>1, <2>1, <4>1
      <4> QED
        BY <4>2
    <3> QED
      BY <3>1, <3>2
  <2> QED
    BY <1>1, <1>2, <2>1, <2>2, <2>3, Numbers DEF HeldUntilTaken
<1>3. CASE ~(Len(queue) < QueueCap)
  <2>1. /\ queue' = Append(Tail(queue), n) /\ lagged' = TRUE
        /\ fate' = [e \in Events |-> IF e = Head(queue) THEN "dropped" ELSE others[e]]
    BY <1>3 DEF Send
  <2>2. queue # <<>> /\ Tail(queue) \in Seq(Events \cup {Noise})
    BY <1>1, <1>3, Numbers
  <2>3. Len(Tail(queue)) = Len(queue) - 1
    BY <1>1, <2>2
  <2>4. queue' \in Seq(Events \cup {Noise}) /\ Len(queue') = Len(queue)
    BY <1>1, <2>1, <2>2, <2>3
  <2>5. fate' \in [Events -> Fates]
    BY <2>1 DEF Fates
  <2>6. ASSUME NEW e \in Events, fate'[e] = "queued"
        PROVE  \E i \in DOMAIN queue' : queue'[i] = e
    <3>1. e # Head(queue) /\ others[e] = "queued"
      BY <2>1, <2>6
    <3>2. CASE e = n
      <4>1. Len(queue') \in DOMAIN queue' /\ queue'[Len(queue')] = n
        BY <1>1, <2>1, <2>2, <2>3
      <4> QED
        BY <3>2, <4>1
    <3>3. CASE e # n
      <4>1. PICK i \in DOMAIN queue : queue[i] = e
        BY <3>1, <3>3 DEF HeldUntilTaken
      <4>2. i \in 2..Len(queue)
        BY <1>1, <3>1, <4>1
      <4>3. i - 1 \in DOMAIN Tail(queue) /\ Tail(queue)[i - 1] = e
        BY <1>1, <4>1, <4>2
      <4>4. i - 1 \in DOMAIN queue' /\ queue'[i - 1] = e
        BY <2>1, <2>2, <4>3
      <4> QED
        BY <4>4
    <3> QED
      BY <3>2, <3>3
  <2> QED
    BY <1>1, <1>3, <2>1, <2>4, <2>5, <2>6 DEF HeldUntilTaken
<1> QED
  BY <1>2, <1>3

\* What relays, signals and the workers themselves do meanwhile.
LEMMA EnvironmentKeeps ==
  ASSUME IInv, (\E e \in Events : Deliver(e)) \/ Chatter \/ Tell \/ Crash \/ WorkersSuffer
  PROVE  IInv'
<1>1. ASSUME UNCHANGED <<pc, told, subscribed, cur, age, late, starts, pool>>,
             queue' \in Seq(Events \cup {Noise}), Len(queue') <= QueueCap,
             lagged' \in BOOLEAN, fate' \in [Events -> Fates], HeldUntilTaken',
             ~Attached => \A e \in Events : fate'[e] # "queued"
      PROVE  IInv'
  <2>1. TypeOK'
    BY <1>1 DEF IInv, TypeOK, pool, Pool!TypeOK
  <2>2. InPhase' /\ InHand' /\ AllServed' /\ Requests'
    BY <1>1 DEF IInv, InPhase, InHand, AllServed, Requests, Attached, Before, pool
  <2>3. Counted' /\ TakesLittleMore' /\ Aged' /\ AdvertisedInTime'
    BY <1>1 DEF IInv, Counted, TakesLittleMore, Aged, AdvertisedInTime, Before
  <2> QED
    BY <1>1, <2>1, <2>2, <2>3 DEF IInv
<1>2. ASSUME NEW e \in Events, Deliver(e)
      PROVE  IInv'
  <2>1. CASE Attached
    <3>1. Send(e, [fate EXCEPT ![e] = "queued"])
      BY <1>2, <2>1 DEF Deliver
    <3>2. [fate EXCEPT ![e] = "queued"] \in [Events -> Fates]
      BY DEF IInv, TypeOK, Fates
    <3>3. \A f \in Events : [fate EXCEPT ![e] = "queued"][f] = "queued"
                              => fate[f] = "queued" \/ f = e
      BY DEF IInv, TypeOK
    <3>4. /\ queue' \in Seq(Events \cup {Noise}) /\ Len(queue') <= QueueCap
          /\ lagged' \in BOOLEAN /\ fate' \in [Events -> Fates]
          /\ HeldUntilTaken'
      BY <3>1, <3>2, <3>3, SendKeeps DEF IInv
    <3> QED
      BY <1>1, <1>2, <2>1, <3>4 DEF Deliver
  <2>2. CASE ~Attached
    <3>1. /\ fate' = [fate EXCEPT ![e] = "missed"] /\ fate \in [Events -> Fates]
          /\ UNCHANGED <<queue, lagged>>
      BY <1>2, <2>2 DEF Deliver, IInv, TypeOK
    <3>2. fate' \in [Events -> Fates] /\ \A f \in Events : fate'[f] # "queued"
      BY <2>2, <3>1 DEF Fates, IInv, Requests
    <3> QED
      BY <1>1, <1>2, <3>1, <3>2 DEF Deliver, IInv, TypeOK, HeldUntilTaken
  <2> QED
    BY <2>1, <2>2
<1>3. CASE Chatter
  <2>1. fate \in [Events -> Fates] /\ Attached /\ Send(Noise, fate)
    BY <1>3 DEF Chatter, IInv, TypeOK
  <2>2. /\ queue' \in Seq(Events \cup {Noise}) /\ Len(queue') <= QueueCap
        /\ lagged' \in BOOLEAN /\ fate' \in [Events -> Fates]
        /\ HeldUntilTaken'
    BY <2>1, SendKeeps DEF IInv
  <2> QED
    BY <1>1, <1>3, <2>1, <2>2 DEF Chatter
<1>4. CASE Tell
  <2>1. TypeOK'
    BY <1>4 DEF IInv, TypeOK, Tell, channel, pool, Pool!TypeOK
  <2>2. InPhase' /\ InHand' /\ AllServed' /\ Requests' /\ HeldUntilTaken'
    BY <1>4 DEF IInv, Tell, channel, pool, InPhase, InHand, AllServed, Requests,
                HeldUntilTaken,
                Attached, Before
  <2>3. Counted' /\ TakesLittleMore' /\ Aged' /\ AdvertisedInTime'
    BY <1>4 DEF IInv, Tell, Counted, TakesLittleMore, Aged, AdvertisedInTime, Before
  <2> QED
    BY <2>1, <2>2, <2>3 DEF IInv
<1>5. CASE Crash
  BY <1>5, ExitKeeps DEF Crash
<1>6. CASE WorkersSuffer
  <2>1. TypeOK'
    <3>1. Pool!Gain \subseteq Slots
      BY <1>6 DEF IInv, TypeOK, InPhase, InHand, Pool!TypeOK, Pool!Gain
    <3>2. Pool!TypeOK'
      BY <1>6, <3>1 DEF IInv, TypeOK, WorkersSuffer, Pool!Trouble, Pool!TypeOK
    <3> QED
      BY <1>6, <3>2 DEF IInv, TypeOK, WorkersSuffer, channel
  <2>2. InPhase' /\ InHand' /\ AllServed' /\ Requests' /\ HeldUntilTaken'
    BY <1>6 DEF IInv, WorkersSuffer, channel, Pool!Trouble, InPhase, InHand, AllServed,
                Requests,
                HeldUntilTaken, Attached, Before
  <2>3. Counted' /\ TakesLittleMore' /\ Aged' /\ AdvertisedInTime'
    BY <1>6 DEF IInv, WorkersSuffer, Counted, TakesLittleMore, Aged, AdvertisedInTime,
                Before
  <2> QED
    BY <2>1, <2>2, <2>3 DEF IInv
<1> QED
  BY <1>2, <1>3, <1>4, <1>5, <1>6

\* The invariant is inductive.
LEMMA StepKeeps == IInv /\ [Next]_vars => IInv'
<1> SUFFICES ASSUME IInv, [Next]_vars PROVE IInv'
  OBVIOUS
<1>1. CASE Start \/ StartUp
  BY <1>1, StartUpKeeps
<1>2. CASE StopAtTop \/ Round
  BY <1>2, RoundKeeps
<1>3. CASE Select
  BY <1>3, SelectKeeps
<1>4. CASE Handle
  BY <1>4, HandleKeeps
<1>5. CASE (\E e \in Events : Deliver(e)) \/ Chatter \/ Tell \/ Crash \/ WorkersSuffer
  BY <1>5, EnvironmentKeeps
<1>6. CASE UNCHANGED vars
  <2>1. TypeOK'
    BY <1>6 DEF IInv, TypeOK, vars, channel, pool, Pool!TypeOK
  <2>2. InPhase' /\ InHand' /\ AllServed' /\ Requests' /\ HeldUntilTaken'
    BY <1>6 DEF IInv, vars, channel, pool, InPhase, InHand, AllServed, Requests,
                HeldUntilTaken, Attached, Before
  <2>3. Counted' /\ TakesLittleMore' /\ Aged' /\ AdvertisedInTime'
    BY <1>6 DEF IInv, vars, Counted, TakesLittleMore, Aged, AdvertisedInTime, Before
  <2> QED
    BY <2>1, <2>2, <2>3 DEF IInv
<1> QED
  BY <1>1, <1>2, <1>3, <1>4, <1>5, <1>6 DEF Next

\* The inductive invariant holds at all times.
LEMMA Invariance == Spec => []IInv
BY InitHolds, StepKeeps, PTL DEF Spec
-----------------------------------------------------------------------------
\* Every variable of the run loop keeps its type.
THEOREM LoopTypes == Spec => []TypeOK
<1>1. IInv => TypeOK
  BY DEF IInv
<1> QED
  BY <1>1, Invariance, PTL

\* A request that has reached the receiver is taken, reported as dropped or
\* lost with the process, and never by select! taking another branch.
THEOREM RequestsAreHeld == Spec => []HeldUntilTaken
<1>1. IInv => HeldUntilTaken
  BY DEF IInv
<1> QED
  BY <1>1, Invariance, PTL

\* After the signal one more notification is taken up at most.
THEOREM StopsSoon == Spec => []TakesLittleMore
<1>1. IInv => TakesLittleMore
  BY DEF IInv
<1> QED
  BY <1>1, Invariance, PTL

\* However busy the loop is, the advertisements age by one wait, one job and
\* one round at most beyond the interval.
THEOREM AdvertisesInTime == Spec => []AdvertisedInTime
<1>1. IInv => AdvertisedInTime
  BY DEF IInv
<1> QED
  BY <1>1, Invariance, PTL

\* A request is handled when the last round is over, and finds its slot served
\* unless something has gone wrong since that round began.
THEOREM RequestsMeetWorkers == Spec => []DispatchMeetsWorker
<1>1. ASSUME IInv, pc = "handle"
      PROVE  phase = "settled" /\ (smooth => served = Slots) /\ cur \in Events
  BY <1>1 DEF IInv, InPhase, AllServed, Requests
<1>2. \A e \in Events : SlotOf[e] # None => SlotOf[e] \in Slots
  BY ControllerAssumption
<1>3. IInv => DispatchMeetsWorker
  BY <1>1, <1>2 DEF DispatchMeetsWorker
<1> QED
  BY <1>3, Invariance, PTL
=============================================================================
