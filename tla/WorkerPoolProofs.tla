-------------------------- MODULE WorkerPoolProofs --------------------------
(***************************************************************************)
(* The pool of workers for every set of slots, names and subnets and all   *)
(* bounds: where the control may be, what the variables hold, that subnets *)
(* are distinct, that running workers are spared, that a round in which    *)
(* nothing goes wrong repairs the pool, that it implements PoolContract,   *)
(* and that what fails for one slot's container stays there.               *)
(***************************************************************************)
EXTENDS WorkerPool, FiniteSetTheorems, WellFoundedInduction, TLAPS

\* The bounds are natural numbers.
LEMMA Bounds ==
  /\ MaxKeys \in Nat /\ MaxFaults \in Nat /\ MaxBlind \in Nat
  /\ MaxEnds \in Nat /\ MaxCrashes \in Nat
BY PoolBoundAssumption

\* The least element of a set of naturals is one of them.
LEMMA MinIsMember ==
  ASSUME NEW S, S \subseteq Nat, S # {}
  PROVE  Min(S) \in S
<1>1. PICK x \in S : \A y \in S : ~ (<<y, x>> \in OpToRel(<, Nat))
  BY NatLessThanWellFounded, WFMin
<1>2. ASSUME NEW y \in S PROVE x <= y
  <2>1. ~(y < x)
    BY <1>1, <1>2 DEF OpToRel
  <2> QED
    BY <2>1
<1>3. \E z \in S : \A y \in S : z <= y
  BY <1>2
<1> QED
  BY <1>3, Zenon DEF Min

\* The subnet chosen is one of those to choose from, and free if one is.
LEMMA FirstFreeIsFree ==
  ASSUME NEW used
  PROVE  /\ FirstFree(used) \in Subnets
         /\ ~(Subnets \subseteq used) => FirstFree(used) \notin used
<1>1. CASE Subnets \subseteq used
  BY <1>1, MinIsMember, SubnetAssumption DEF FirstFree
<1>2. CASE ~(Subnets \subseteq used)
  <2>1. Min(Subnets \ used) \in Subnets \ used
    BY <1>2, MinIsMember, SubnetAssumption
  <2> QED
    BY <1>2, <2>1 DEF FirstFree
<1> QED
  BY <1>1, <1>2

\* The next slot of a loop over slots has a container of the pool.
LEMMA NextSlot ==
  ASSUME todo \subseteq Slots, todo # {}
  PROVE  /\ Min(todo) \in todo /\ Min(todo) \in Slots
         /\ NameOf[Min(todo)] \in PoolNames /\ NameOf[Min(todo)] \in Names
BY MinIsMember, SlotAssumption, NameAssumption DEF PoolNames
-----------------------------------------------------------------------------
Callees == {"stop", "destroy", "forget", "subnet", "clear", "create", "configure", "start",
            "install", "put", "publish"}

(***************************************************************************)
(* The control: which container is being replaced, where the controller    *)
(* returns to and over what its loops go, by place.                        *)
(***************************************************************************)
Control ==
  /\ pc \in Callees \cup {"down", "list_all", "old", "check", "stale", "advertise", "list",
                          "slot", "sweep", "due", "poll"}
  /\ octet \in Subnets \cup {None}
  /\ then \in {"forget", "create", "give_up"}
  /\ listed \subseteq PoolNames
  /\ pc \in Callees => at \in Names /\ back \in {"old", "check", "list", "slot"}
  /\ pc \notin Callees => at = None /\ then = "forget"
  /\ pc \notin Callees \cup {"advertise"} => back = "down"
  /\ pc = "advertise" => back \in {"list", "poll"}
  /\ Reconciling => pc \in {"stop", "destroy", "forget"} /\ then = "forget"
  /\ pc \in {"forget", "subnet"} => then = "forget"
  /\ pc \in {"old", "check"} \/ Reconciling => todo \subseteq Names
  /\ pc = "old" \/ back = "old" => todo \subseteq OldNames
  /\ pc \in {"slot", "advertise"} \/ back = "slot" => todo \subseteq Slots
  /\ pc \notin {"old", "check", "slot", "advertise"} /\ back \notin {"old", "check", "slot"}
     => todo = {}

\* The control is right at first.
LEMMA InitControl == Init => Control
BY DEF Init, Control, Callees, Reconciling, PoolNames

\* Ending the process or a call leaves the control in order.
LEMMA ReturnsKeepControl ==
  ASSUME Control
  PROVE  /\ Exit => Control'
         /\ pc \in Callees /\ GiveUp => Control'
         /\ pc \in Callees /\ Return => Control'
         /\ pc \in {"stale", "list", "slot", "sweep"} /\ AbortRound => Control'
<1>1. Exit => Control'
  BY DEF Exit, NoCall, Control, Callees, Reconciling, PoolNames
<1>2. pc \in Callees /\ Return => Control'
  BY DEF Return, NoCall, loop, Control, Callees, Reconciling
<1>3. pc \in {"stale", "list", "slot", "sweep"} /\ AbortRound => Control'
  BY DEF AbortRound, call, Control, Callees, Reconciling, PoolNames
<1> QED
  BY <1>1, <1>2, <1>3 DEF GiveUp

\* Reconciliation at start-up keeps the control right.
LEMMA ReconcileKeepsControl ==
  ASSUME Control, Reconcile
  PROVE  Control'
<1> USE DEF Control, Callees, Reconciling
<1>1. CASE FindOld
  BY <1>1, ReturnsKeepControl DEF FindOld, ListAll, call
<1>2. CASE CleanOld
  BY <1>2 DEF CleanOld, CleanUp
<1>3. CASE FindPool
  BY <1>3, ReturnsKeepControl DEF FindPool, ListPool, PoolNames, call
<1>4. CASE CheckLeftover
  BY <1>4 DEF CheckLeftover, CleanUp, call
<1>5. CASE LeftoversChecked
  BY <1>5 DEF LeftoversChecked, call, loop
<1> QED
  BY <1>1, <1>2, <1>3, <1>4, <1>5 DEF Reconcile

\* So does a round of maintenance.
LEMMA MaintainKeepsControl ==
  ASSUME Control, Maintain
  PROVE  Control'
<1> USE DEF Control, Callees, Reconciling
<1>1. CASE ListContainers
  BY <1>1, ReturnsKeepControl DEF ListContainers, ListPool, call
<1>2. pc = "slot" /\ todo # {} => NameOf[Min(todo)] \in Names
  BY NextSlot
<1>3. CASE SpawnMissing
  BY <1>2, <1>3 DEF SpawnMissing
<1>4. CASE RespawnCompleted
  BY <1>2, <1>4 DEF RespawnCompleted, CleanUp
<1>5. CASE KeepHealthy
  BY <1>5 DEF KeepHealthy, call
<1>6. CASE EntryFails
  BY <1>6, ReturnsKeepControl DEF EntryFails, call
<1>7. CASE SlotsVisited
  BY <1>7, ReturnsKeepControl DEF SlotsVisited, ListPool, call
<1>8. CASE RemoveStale
  BY <1>8, ReturnsKeepControl DEF RemoveStale, call, loop
<1>9. CASE StaleRemoved
  BY <1>9 DEF StaleRemoved
<1> QED
  BY <1>1, <1>3, <1>4, <1>5, <1>6, <1>7, <1>8, <1>9 DEF Maintain

\* So do the steps of taking a container down and of spawning one.
LEMMA ReplaceKeepsControl ==
  ASSUME Control, Replace
  PROVE  Control'
<1> USE DEF Control, Callees, Reconciling
<1>1. CASE Stop
  BY <1>1 DEF Stop, call, loop
<1>2. CASE Destroy
  BY <1>2, ReturnsKeepControl DEF Destroy, call, loop
<1>3. CASE Forget
  BY <1>3, ReturnsKeepControl DEF Forget, call, loop
<1>4. CASE PickSubnet
  <2>1. \A used : FirstFree(used) \in Subnets
    BY FirstFreeIsFree
  <2> QED
    BY <1>4, <2>1, ReturnsKeepControl DEF PickSubnet, loop
<1>5. CASE Clear
  BY <1>5, ReturnsKeepControl DEF Clear, CleanUp, call, loop
<1>6. CASE Create
  BY <1>6, ReturnsKeepControl DEF Create, call, loop
<1>7. CASE Configure
  BY <1>7, ReturnsKeepControl DEF Configure, call, loop
<1>8. CASE StartContainer
  BY <1>8 DEF StartContainer, CleanUp, call, loop
<1>9. CASE InstallNgit
  BY <1>9 DEF InstallNgit, CleanUp, call, loop
<1>10. CASE Put
  BY <1>10, ReturnsKeepControl DEF Put, call, loop
<1>11. CASE PublishSpawned
  BY <1>11, ReturnsKeepControl DEF PublishSpawned
<1> QED
  BY <1>1, <1>2, <1>3, <1>4, <1>5, <1>6, <1>7, <1>8, <1>9, <1>10, <1>11 DEF Replace

\* Every step keeps the control right.
LEMMA ControlKept ==
  ASSUME Control, [Next]_vars
  PROVE  Control'
<1> USE DEF Control, Callees, Reconciling
<1>1. CASE Start
  BY <1>1 DEF Start, call, loop
<1>2. CASE Reconcile
  BY <1>2, ReconcileKeepsControl
<1>3. CASE Maintain
  BY <1>3, MaintainKeepsControl
<1>4. CASE Replace
  BY <1>4, ReplaceKeepsControl
<1>5. CASE AdvertiseSlot
  BY <1>5 DEF AdvertiseSlot, call
<1>6. CASE AllAdvertised
  BY <1>6 DEF AllAdvertised, Return, NoCall, loop
<1>7. CASE RoundDone
  BY <1>7 DEF RoundDone
<1>8. CASE Poll
  BY <1>8 DEF Poll, call, loop
<1>9. CASE \E s \in Slots : JobTimesOut(s)
  BY <1>9, NameAssumption DEF JobTimesOut, CleanUp, loop
<1>10. CASE Crash
  BY <1>10, ReturnsKeepControl DEF Crash
<1>11. CASE \E n \in Names : WorkerEnds(n)
  BY <1>11 DEF WorkerEnds, call, loop
<1>12. CASE UNCHANGED vars
  BY <1>12 DEF vars, call, loop
<1> QED
  BY <1>1, <1>2, <1>3, <1>4, <1>5, <1>6, <1>7, <1>8, <1>9, <1>10, <1>11, <1>12
  DEF Next, Controller, RunLoop
-----------------------------------------------------------------------------
(***************************************************************************)
(* The data: containers, subnets, entries and the budgets.                 *)
(***************************************************************************)
States == {"absent", "stopped", "active", "ended"}

Counts ==
  /\ clean \in BOOLEAN
  /\ faults \in 0..MaxFaults /\ blind \in 0..MaxBlind
  /\ ends \in 0..MaxEnds /\ crashes \in 0..MaxCrashes

Stores ==
  /\ box \in [Names -> States]
  /\ subnet \in [Names -> Subnets \cup {None}]
  /\ db \in [Names -> EntryType]
  /\ key \in 0..MaxKeys

\* The data have their types at first.
LEMMA InitData == Init => Counts /\ Stores
<1> SUFFICES ASSUME Init PROVE Counts /\ Stores
  OBVIOUS
<1>1. Counts /\ key \in 0..MaxKeys
  <2>1. faults = 0 /\ blind = 0 /\ ends = 0 /\ crashes = 0 /\ key = 0 /\ clean \in BOOLEAN
    BY DEF Init
  <2> QED
    BY <2>1, Bounds DEF Counts
<1>2. box \in [Names -> States]
  BY DEF Init, States
<1>3. \A n \in Names : Exists(n) => Leftovers[n] \in Subnets
  BY SubnetAssumption DEF Init, ListAll
<1>4. subnet \in [Names -> Subnets \cup {None}]
  BY <1>3 DEF Init
<1>5. Entry(TRUE) \in EntryType /\ None \in EntryType
  BY <1>1 DEF Entry, EntryType
<1>6. db \in [Names -> EntryType]
  BY <1>5 DEF Init
<1> QED
  BY <1>1, <1>2, <1>4, <1>6 DEF Stores

\* What goes well and what fails keep the budgets.
LEMMA OutcomesKeepCounts ==
  ASSUME Counts
  PROVE  /\ Goes => Counts'
         /\ Fails => Counts'
         /\ \A n : FailsOn(n) => Counts'
         /\ \A n, completed : Reports(n, completed) => Counts'
<1>1. Goes => Counts'
  BY DEF Goes, budgets, Counts
<1>2. Fails => Counts'
  <2>1. Fails => clean' \in BOOLEAN
    BY DEF Fails
  <2>2. Fails => /\ faults' \in 0..MaxFaults /\ blind' \in 0..MaxBlind
                 /\ ends' \in 0..MaxEnds /\ crashes' \in 0..MaxCrashes
    BY Bounds DEF Fails, Counts
  <2> QED
    BY <2>1, <2>2 DEF Counts
<1>3. ASSUME NEW n, FailsOn(n) PROVE Counts'
  <2>1. CASE n \in Stubborn
    BY <1>3, <2>1 DEF FailsOn, budgets, Counts
  <2>2. CASE n \notin Stubborn
    BY <1>2, <1>3, <2>2 DEF FailsOn
  <2> QED
    BY <2>1, <2>2
<1> QED
  BY <1>1, <1>2, <1>3 DEF Reports

\* Every step keeps the counters within their bounds.
LEMMA CountsKept ==
  ASSUME Counts, [Next]_vars
  PROVE  Counts'
<1> USE OutcomesKeepCounts
<1>1. CASE Reconcile
  BY <1>1 DEF Reconcile, FindOld, CleanOld, FindPool, CheckLeftover, LeftoversChecked,
              budgets, Counts
<1>2. CASE Maintain
  <2>1. CASE ListContainers
    BY <2>1 DEF ListContainers, budgets, Counts
  <2> QED
    BY <1>2, <2>1 DEF Maintain, SpawnMissing, RespawnCompleted, KeepHealthy, EntryFails,
                      SlotsVisited, RemoveStale, StaleRemoved, budgets, Counts
<1>3. CASE Stop \/ Destroy \/ Forget
  BY <1>3 DEF Stop, Destroy, Forget
<1>4. CASE PickSubnet
  <2>1. CASE Goes \/ Fails
    BY <2>1
  <2>2. CASE /\ blind < MaxBlind /\ blind' = blind + 1
             /\ UNCHANGED <<clean, faults, ends, crashes>>
    BY <2>2, Bounds DEF Counts
  <2> QED
    BY <1>4, <2>1, <2>2 DEF PickSubnet
<1>5. CASE Clear \/ Create \/ Configure \/ StartContainer \/ InstallNgit \/ Put
  BY <1>5 DEF Clear, Create, Configure, StartContainer, InstallNgit, Put
<1>6. CASE PublishSpawned
  BY <1>6 DEF PublishSpawned, Publish
<1>7. CASE RunLoop
  BY <1>7 DEF RunLoop, AdvertiseSlot, Publish, AllAdvertised, RoundDone, Poll, JobTimesOut,
              budgets, Counts
<1>8. CASE Start
  BY <1>8 DEF Start, budgets, Counts
<1>9. CASE Crash
  <2>1. clean' \in BOOLEAN
    BY <1>9 DEF Crash
  <2>2. /\ faults' \in 0..MaxFaults /\ blind' \in 0..MaxBlind
        /\ ends' \in 0..MaxEnds /\ crashes' \in 0..MaxCrashes
    BY <1>9, Bounds DEF Crash, Counts
  <2> QED
    BY <2>1, <2>2 DEF Counts
<1>10. CASE \E n \in Names : WorkerEnds(n)
  <2>1. clean' \in BOOLEAN
    BY <1>10 DEF WorkerEnds
  <2>2. /\ faults' \in 0..MaxFaults /\ blind' \in 0..MaxBlind
        /\ ends' \in 0..MaxEnds /\ crashes' \in 0..MaxCrashes
    BY <1>10, Bounds DEF WorkerEnds, Counts
  <2> QED
    BY <2>1, <2>2 DEF Counts
<1>11. CASE UNCHANGED vars
  BY <1>11 DEF vars, budgets, Counts
<1> QED
  BY <1>1, <1>2, <1>3, <1>4, <1>5, <1>6, <1>7, <1>8, <1>9, <1>10, <1>11
  DEF Next, Controller, Replace

\* Entries are made of the identities in use.
LEMMA EntriesTyped ==
  ASSUME Stores
  PROVE  /\ \A a \in BOOLEAN : Entry(a) \in EntryType /\ Entry(a) # None
         /\ None \in EntryType
         /\ \A n \in Names : db[n] # None =>
              [db EXCEPT ![n].pubkey = key] \in [Names -> EntryType]
<1>1. \A a \in BOOLEAN : Entry(a) \in EntryType /\ Entry(a) # None
  BY NameAssumption DEF Stores, Entry, EntryType
<1>2. ASSUME NEW n \in Names, db[n] # None
      PROVE  [db EXCEPT ![n].pubkey = key] \in [Names -> EntryType]
  <2>1. db[n] \in [pubkey : 0..MaxKeys, advertised : BOOLEAN]
    BY <1>2 DEF Stores, EntryType
  <2>2. [db[n] EXCEPT !.pubkey = key] \in EntryType
    BY <2>1 DEF Stores, EntryType
  <2> QED
    BY <2>2 DEF Stores
<1> QED
  BY <1>1, <1>2 DEF EntryType

\* Marking an entry as advertised keeps it an entry.
LEMMA PublishKeepsStores ==
  ASSUME Stores, NEW n \in Names, Publish(n)
  PROVE  db' \in [Names -> EntryType]
BY EntriesTyped DEF Publish, Stores

\* Every step keeps host, database and locals within their types.
LEMMA StoresKept ==
  ASSUME Control, Stores, [Next]_vars
  PROVE  Stores'
<1>1. ASSUME UNCHANGED <<host, db>>, key' \in 0..MaxKeys PROVE Stores'
  BY <1>1 DEF host, Stores
<1>2. key' = key => key' \in 0..MaxKeys
  BY DEF Stores
<1>3. ASSUME UNCHANGED <<subnet, db, key>>, box' \in [Names -> States] PROVE Stores'
  BY <1>3 DEF Stores
<1>4. ASSUME UNCHANGED <<host, key>>, db' \in [Names -> EntryType] PROVE Stores'
  BY <1>4 DEF host, Stores
<1>5. CASE Start
  BY <1>1, <1>5, Bounds DEF Start, Stores
<1>6. CASE Reconcile
  BY <1>1, <1>2, <1>6
  DEF Reconcile, FindOld, CleanOld, FindPool, CheckLeftover, LeftoversChecked
<1>7. CASE Maintain
  <2>1. pc = "slot" /\ todo # {} => NameOf[Min(todo)] \in Names
    BY NextSlot DEF Control
  <2>2. CASE KeepHealthy
    <3> DEFINE n == NameOf[Min(todo)]
    <3>1. n \in Names
      BY <2>1, <2>2 DEF KeepHealthy
    <3>2. CASE db[n] = None
      <4>1. db' = [db EXCEPT ![n] = Entry(FALSE)] /\ UNCHANGED <<host, key>>
        BY <2>2, <3>2 DEF KeepHealthy
      <4>2. db' \in [Names -> EntryType]
        BY <3>1, <4>1, EntriesTyped DEF Stores
      <4> QED
        BY <1>4, <4>1, <4>2
    <3>3. CASE db[n] # None
      BY <1>4, <2>2, <3>1, <3>3, EntriesTyped DEF KeepHealthy
    <3> QED
      BY <3>2, <3>3
  <2>3. CASE RemoveStale
    BY <1>4, <2>3, EntriesTyped DEF RemoveStale, Stores
  <2> QED
    BY <1>1, <1>2, <1>7, <2>2, <2>3
    DEF Maintain, ListContainers, SpawnMissing, RespawnCompleted, EntryFails, SlotsVisited,
        StaleRemoved
<1>8. CASE Stop
  BY <1>3, <1>8 DEF Stop, Stores, States
<1>9. CASE Destroy
  BY <1>9 DEF Destroy, Stores, States
<1>10. CASE Forget
  BY <1>4, <1>10, EntriesTyped DEF Forget, Stores
<1>11. CASE PickSubnet \/ Clear \/ Configure \/ InstallNgit
  BY <1>1, <1>2, <1>11 DEF PickSubnet, Clear, Configure, InstallNgit
<1>12. CASE Create
  BY <1>12 DEF Create, Stores, States, host, Control
<1>13. CASE StartContainer
  BY <1>3, <1>13 DEF StartContainer, Stores, States
<1>14. CASE Put
  BY <1>4, <1>14, EntriesTyped DEF Put, Stores
<1>15. CASE PublishSpawned
  BY <1>4, <1>15, PublishKeepsStores DEF PublishSpawned, Control, Callees
<1>16. CASE AdvertiseSlot
  BY <1>4, <1>16, PublishKeepsStores, NextSlot DEF AdvertiseSlot, Control
<1>17. CASE AllAdvertised \/ RoundDone \/ Poll \/ \E s \in Slots : JobTimesOut(s)
  BY <1>1, <1>2, <1>17 DEF AllAdvertised, RoundDone, Poll, JobTimesOut
<1>18. CASE Crash
  BY <1>1, <1>2, <1>18 DEF Crash
<1>19. CASE \E n \in Names : WorkerEnds(n)
  BY <1>3, <1>19 DEF WorkerEnds, Stores, States
<1>20. CASE UNCHANGED vars
  BY <1>1, <1>2, <1>20 DEF vars
<1> QED
  BY <1>5, <1>6, <1>7, <1>8, <1>9, <1>10, <1>11, <1>12, <1>13, <1>14, <1>15, <1>16, <1>17,
     <1>18, <1>19, <1>20
  DEF Next, Controller, Replace, RunLoop

Types == Control /\ Counts /\ Stores

\* Control and data are right at all times.
LEMMA TypesInvariant == Spec => []Types
<1>1. Init => Types
  BY InitControl, InitData DEF Types
<1>2. Types /\ [Next]_vars => Types'
  BY ControlKept, CountsKept, StoresKept DEF Types
<1> QED
  BY <1>1, <1>2, PTL DEF Spec

\* Every variable of the pool keeps its type: subnets come from those to choose
\* from, entries from the identities in use.
THEOREM PoolTypes == Spec => []TypeOK
<1>1. Types => TypeOK
  BY DEF Types, Control, Callees, Counts, Stores, States, TypeOK, Reconciling
<1> QED
  BY <1>1, TypesInvariant, PTL
-----------------------------------------------------------------------------
(***************************************************************************)
(* Subnets.  From the choice of a subnet to the creation of the container  *)
(* nothing on the host uses it; between the two, containers only go.       *)
(***************************************************************************)
Chosen == pc \in {"clear", "create"} \/ (pc \in {"stop", "destroy"} /\ then = "create")

Apart ==
  /\ pc \in {"configure", "start"} => Exists(at)
  /\ blind = 0 /\ Cardinality(Names) < Cardinality(Subnets) =>
       /\ \A n, m \in ListAll : subnet[n] = subnet[m] => n = m
       /\ Chosen => \A n \in ListAll : subnet[n] # octet

\* With one subnet more than names, one is free.
LEMMA OneIsFree ==
  ASSUME Cardinality(Names) < Cardinality(Subnets)
  PROVE  ~(Subnets \subseteq Used(ListAll))
<1> SUFFICES ASSUME Subnets \subseteq Used(ListAll) PROVE FALSE
  OBVIOUS
<1> DEFINE f == [x \in Subnets |-> CHOOSE n \in ListAll : subnet[n] = x]
<1>1. ASSUME NEW x \in Subnets PROVE f[x] \in ListAll /\ subnet[f[x]] = x
  <2>1. \E n \in ListAll : subnet[n] = x
    BY DEF Used
  <2> QED
    BY <2>1
<1>2. f \in [Subnets -> Names]
  BY <1>1 DEF ListAll
<1> HIDE DEF f
<1>3. IsFiniteSet(Names) /\ IsFiniteSet(Subnets)
  BY NameAssumption, SubnetAssumption
<1>4. \E x, y \in Subnets : x # y /\ f[x] = f[y]
  BY <1>2, <1>3, FS_PigeonHole, Zenon
<1> QED
  BY <1>1, <1>4

\* Addresses that could not be read are counted, never forgotten.
LEMMA BlindnessStays ==
  ASSUME Counts, [Next]_vars, blind' = 0
  PROVE  blind = 0
<1> USE DEF Counts, Goes, Fails, FailsOn, Reports, budgets
<1>1. CASE PickSubnet
  BY <1>1, Bounds DEF PickSubnet
<1>2. CASE Reconcile
  BY <1>2 DEF Reconcile, FindOld, CleanOld, FindPool, CheckLeftover, LeftoversChecked
<1>3. CASE Maintain
  BY <1>3 DEF Maintain, ListContainers, SpawnMissing, RespawnCompleted, KeepHealthy,
              EntryFails, SlotsVisited, RemoveStale, StaleRemoved
<1>4. CASE Replace /\ ~PickSubnet
  BY <1>4 DEF Replace, Stop, Destroy, Forget, Clear, Create, Configure, StartContainer,
              InstallNgit, Put, PublishSpawned, Publish
<1>5. CASE RunLoop
  BY <1>5 DEF RunLoop, AdvertiseSlot, Publish, AllAdvertised, RoundDone, Poll, JobTimesOut
<1>6. CASE Start \/ Crash \/ (\E n \in Names : WorkerEnds(n)) \/ UNCHANGED vars
  BY <1>6 DEF Start, Crash, WorkerEnds, vars
<1> QED
  BY <1>1, <1>2, <1>3, <1>4, <1>5, <1>6 DEF Next, Controller

\* Every step keeps containers on subnets of their own.
LEMMA ApartKept ==
  ASSUME Types, Apart, [Next]_vars
  PROVE  Apart'
<1>1. blind' = 0 => blind = 0
  BY BlindnessStays DEF Types
<1>2. /\ box \in [Names -> States] /\ subnet \in [Names -> Subnets \cup {None}]
      /\ pc \in Callees => at \in Names
  BY DEF Types, Control, Stores
<1>3. ASSUME UNCHANGED host, ~Chosen', pc' \notin {"configure", "start"}
      PROVE  Apart'
  BY <1>1, <1>3 DEF Apart, host, ListAll, Exists
<1>4. ASSUME UNCHANGED subnet, ListAll' = ListAll, Chosen' => Chosen /\ octet' = octet,
             pc' \in {"configure", "start"} => pc \in {"configure", "start"} /\ at' = at,
             pc' \in {"configure", "start"} => box'[at] # "absent"
      PROVE  Apart'
  BY <1>1, <1>4 DEF Apart, Exists
<1>5. CASE Start
  BY <1>3, <1>5 DEF Start, Chosen
<1>6. CASE Reconcile
  BY <1>3, <1>6
  DEF Reconcile, FindOld, CleanOld, FindPool, CheckLeftover, LeftoversChecked, CleanUp, Exit,
      Chosen
<1>7. CASE Maintain
  BY <1>3, <1>7
  DEF Maintain, ListContainers, SpawnMissing, RespawnCompleted, KeepHealthy, EntryFails,
      SlotsVisited, RemoveStale, StaleRemoved, CleanUp, Exit, AbortRound, Chosen
<1>8. CASE Stop
  <2>1. ListAll' = ListAll
    BY <1>2, <1>8 DEF Stop, Callees, ListAll, Exists, States
  <2> QED
    BY <1>4, <1>8, <2>1 DEF Stop, Chosen, call
<1>9. CASE Destroy
  <2>1. pc' \notin {"configure", "start"}
    BY <1>9 DEF Destroy, GiveUp, Exit, Return, Types, Control, Callees
  <2>2. Chosen' => Chosen /\ octet' = octet
    BY <1>9 DEF Destroy, GiveUp, Exit, Return, Types, Control, Callees, Chosen, call
  <2>3. CASE ListAll' = ListAll /\ subnet' = subnet
    BY <1>4, <2>1, <2>2, <2>3
  <2>4. CASE ListAll' = ListAll \ {at} /\ \A n \in ListAll' : subnet'[n] = subnet[n]
    BY <1>1, <2>1, <2>2, <2>4 DEF Apart
  <2> QED
    BY <1>2, <1>9, <2>3, <2>4 DEF Destroy, Callees, ListAll, Exists, States
<1>10. CASE Forget
  BY <1>3, <1>10
  DEF Forget, GiveUp, Exit, Return, Types, Control, Callees, Chosen, call
<1>11. CASE PickSubnet
  <2>1. CASE pc' = "clear" /\ octet' = FirstFree(Used(ListAll)) /\ UNCHANGED host
    <3>1. Cardinality(Names) < Cardinality(Subnets) => octet' \notin Used(ListAll)
      BY <2>1, OneIsFree, FirstFreeIsFree
    <3> QED
      BY <1>1, <2>1, <3>1 DEF Apart, Used, host, ListAll, Exists
  <2>2. CASE blind < MaxBlind /\ blind' = blind + 1 /\ pc' = "clear"
    <3>1. blind' # 0
      BY <2>2, Bounds DEF Types, Counts
    <3> QED
      BY <2>2, <3>1 DEF Apart
  <2>3. CASE GiveUp /\ UNCHANGED host
    BY <1>3, <1>11, <2>3
    DEF PickSubnet, GiveUp, Exit, Return, Types, Control, Callees, Chosen
  <2> QED
    BY <1>11, <2>1, <2>2, <2>3 DEF PickSubnet
<1>12. CASE Clear
  <2>1. CASE GiveUp /\ UNCHANGED host
    BY <1>3, <1>12, <2>1 DEF Clear, GiveUp, Exit, Return, Types, Control, Callees, Chosen
  <2>2. CASE pc' \in {"stop", "create"} /\ octet' = octet /\ UNCHANGED host
    <3>1. Chosen
      BY <1>12 DEF Clear, Chosen
    <3>2. ListAll' = ListAll /\ UNCHANGED subnet
      BY <2>2 DEF host, ListAll, Exists
    <3> QED
      BY <1>4, <2>2, <3>1, <3>2
  <2> QED
    BY <1>12, <2>1, <2>2 DEF Clear, CleanUp, call
<1>13. CASE Create
  <2>1. CASE GiveUp /\ UNCHANGED host
    BY <1>3, <1>13, <2>1 DEF Create, GiveUp, Exit, Return, Types, Control, Callees, Chosen
  <2>2. CASE /\ ~Exists(at) /\ box' = [box EXCEPT ![at] = "stopped"]
             /\ subnet' = [subnet EXCEPT ![at] = octet]
             /\ pc' = "configure" /\ UNCHANGED call
    <3>1. at \in Names /\ at' = at
      BY <1>2, <1>13, <2>2 DEF Create, Callees, call
    <3>2. ListAll' = ListAll \cup {at} /\ at \notin ListAll
      BY <1>2, <2>2, <3>1 DEF ListAll, Exists, States
    <3>3. subnet'[at] = octet /\ \A n \in ListAll : subnet'[n] = subnet[n]
      BY <1>2, <2>2, <3>1, <3>2
    <3>4. Exists(at)'
      BY <1>2, <2>2, <3>1 DEF Exists
    <3>5. Chosen
      BY <1>13 DEF Create, Chosen
    <3>6. ASSUME blind' = 0, Cardinality(Names) < Cardinality(Subnets),
                 NEW n \in ListAll', NEW m \in ListAll', subnet'[n] = subnet'[m]
          PROVE  n = m
      <4>1. \A k \in ListAll : subnet[k] # octet
        BY <1>1, <3>5, <3>6 DEF Apart
      <4>2. \A k, l \in ListAll : subnet[k] = subnet[l] => k = l
        BY <1>1, <3>6 DEF Apart
      <4> QED
        BY <3>2, <3>3, <3>6, <4>1, <4>2
    <3>7. ~Chosen'
      BY <2>2 DEF Chosen
    <3> QED
      BY <3>1, <3>4, <3>6, <3>7 DEF Apart, Exists
  <2> QED
    BY <1>13, <2>1, <2>2 DEF Create
<1>14. CASE Configure
  <2>1. CASE GiveUp
    BY <1>3, <1>14, <2>1 DEF Configure, GiveUp, Exit, Return, Types, Control, Callees, Chosen
  <2>2. CASE pc' = "start" /\ UNCHANGED call
    BY <1>4, <1>14, <2>2 DEF Configure, Apart, Chosen, call, host, ListAll, Exists
  <2> QED
    BY <1>14, <2>1, <2>2 DEF Configure
<1>15. CASE StartContainer
  <2>1. at \in ListAll
    BY <1>2, <1>15 DEF StartContainer, Callees, Apart, ListAll
  <2>2. ListAll' = ListAll
    BY <1>2, <1>15, <2>1 DEF StartContainer, ListAll, Exists, States
  <2> QED
    BY <1>4, <1>15, <2>2 DEF StartContainer, CleanUp, Chosen
<1>16. CASE InstallNgit \/ Put \/ PublishSpawned
  BY <1>3, <1>16
  DEF InstallNgit, Put, PublishSpawned, CleanUp, GiveUp, Exit, Return, Types, Control,
      Callees, Chosen
<1>17. CASE RunLoop
  BY <1>3, <1>17
  DEF RunLoop, AdvertiseSlot, AllAdvertised, RoundDone, Poll, JobTimesOut, CleanUp, Return,
      Types, Control, Callees, Chosen
<1>18. CASE Crash
  BY <1>3, <1>18 DEF Crash, Exit, Chosen
<1>19. CASE \E n \in Names : WorkerEnds(n)
  <2>1. ListAll' = ListAll
    BY <1>2, <1>19 DEF WorkerEnds, ListAll, Exists, States
  <2>2. pc' \in {"configure", "start"} => Exists(at)
    BY <1>19 DEF WorkerEnds, Apart
  <2> QED
    BY <1>2, <1>4, <1>19, <2>1, <2>2
    DEF WorkerEnds, Chosen, call, Callees, ListAll, Exists, States
<1>20. CASE UNCHANGED vars
  BY <1>20 DEF Apart, vars, call, host, budgets, Chosen, ListAll, Exists
<1> QED
  BY <1>5, <1>6, <1>7, <1>8, <1>9, <1>10, <1>11, <1>12, <1>13, <1>14, <1>15, <1>16, <1>17,
     <1>18, <1>19, <1>20
  DEF Next, Controller, Replace

\* No two containers share a subnet while every address can be read and there
\* is one subnet more than names, whatever fails and however often.
THEOREM SubnetsStayDistinct == Spec => []SubnetsDistinct
<1>1. Init => Apart
  BY SubnetAssumption DEF Init, Apart, Chosen, ListAll, Exists
<1>2. Types /\ Apart /\ [Next]_vars => Apart'
  BY ApartKept
<1>3. Apart => SubnetsDistinct
  BY DEF Apart, SubnetsDistinct
<1> QED
  BY <1>1, <1>2, <1>3, TypesInvariant, PTL DEF Spec
-----------------------------------------------------------------------------
(***************************************************************************)
(* Running workers.  A container is taken down by a call that was made when*)
(* its worker had reported its end; one that is to be created is not there;*)
(* and a slot whose container was not listed still has none when its turn  *)
(* comes in the round.                                                     *)
(***************************************************************************)
Working == pc = "slot" \/ back = "slot"

Gentle ==
  /\ Working =>
       \A s \in todo : at # NameOf[s] /\ (NameOf[s] \notin listed => ~Exists(NameOf[s]))
  /\ faults = 0 /\ at \in PoolNames \ Stubborn /\ back # "list" =>
       /\ pc \in {"stop", "destroy"} => box[at] # "active"
       /\ pc \in {"forget", "subnet", "clear", "create"} => ~Exists(at)

\* Failures are counted, never forgotten.
LEMMA FaultsStay ==
  ASSUME Counts, [Next]_vars, faults' = 0
  PROVE  faults = 0
<1> USE DEF Counts, Goes, FailsOn, Reports, budgets
<1>1. faults \in Nat
  BY Bounds
<1>2. ~Fails
  BY <1>1 DEF Fails
<1>3. CASE Reconcile
  BY <1>2, <1>3 DEF Reconcile, FindOld, CleanOld, FindPool, CheckLeftover, LeftoversChecked
<1>4. CASE Maintain
  BY <1>2, <1>4 DEF Maintain, ListContainers, SpawnMissing, RespawnCompleted, KeepHealthy,
                    EntryFails, SlotsVisited, RemoveStale, StaleRemoved
<1>5. CASE Replace
  BY <1>2, <1>5 DEF Replace, Stop, Destroy, Forget, PickSubnet, Clear, Create, Configure,
                    StartContainer, InstallNgit, Put, PublishSpawned, Publish
<1>6. CASE RunLoop
  BY <1>2, <1>6 DEF RunLoop, AdvertiseSlot, Publish, AllAdvertised, RoundDone, Poll,
                    JobTimesOut
<1>7. CASE Start \/ Crash \/ (\E n \in Names : WorkerEnds(n)) \/ UNCHANGED vars
  BY <1>7 DEF Start, Crash, WorkerEnds, vars
<1> QED
  BY <1>3, <1>4, <1>5, <1>6, <1>7 DEF Next, Controller

\* What fails is counted, except on a stubborn container.
LEMMA FailureCounts ==
  ASSUME Counts
  PROVE  /\ Fails => faults' # 0
         /\ \A n : n \notin Stubborn /\ FailsOn(n) => faults' # 0
         /\ \A n : n \notin Stubborn /\ Reports(n, TRUE) /\ faults' = 0 => box[n] # "active"
<1>1. Fails => faults' # 0
  BY Bounds DEF Counts, Fails
<1>2. \A n : n \notin Stubborn /\ FailsOn(n) => faults' # 0
  BY <1>1 DEF FailsOn
<1>3. \A n : Reports(n, TRUE) => box[n] # "active" \/ FailsOn(n)
  BY DEF Reports
<1> QED
  BY <1>1, <1>2, <1>3

\* Every step keeps to what the call it belongs to was made for.
LEMMA GentleKept ==
  ASSUME Types, Gentle, [Next]_vars
  PROVE  Gentle'
<1>1. /\ faults' = 0 => faults = 0
      /\ Control /\ Counts /\ box \in [Names -> States]
      /\ pc \in Callees => at \in Names
      /\ None \notin Names /\ (\A s \in Slots : NameOf[s] \in PoolNames)
      /\ PoolNames \subseteq Names
  BY FaultsStay, NameAssumption DEF Types, Control, Stores, PoolNames
\* The call ends, or none was made.
<1>2. ASSUME UNCHANGED box, at' = None,
             Working' => Working /\ todo' \subseteq todo /\ todo \subseteq Slots
                         /\ listed' = listed
      PROVE  Gentle'
  BY <1>1, <1>2 DEF Gentle, Exists, PoolNames
<1>3. Exit /\ UNCHANGED box => Gentle'
  BY <1>2 DEF Exit, NoCall, Working
<1>4. pc \in Callees /\ Return /\ UNCHANGED box => Gentle'
  BY <1>1, <1>2 DEF Return, NoCall, loop, Working, Control, Callees
<1>5. pc \in Callees /\ GiveUp /\ UNCHANGED box => Gentle'
  BY <1>3, <1>4 DEF GiveUp
<1>6. pc \in {"stale", "list", "slot", "sweep"} /\ AbortRound /\ UNCHANGED box => Gentle'
  BY <1>1, <1>2 DEF AbortRound, call, Working, Control, Callees
\* The call goes on with the same container.
<1>7. ASSUME pc \in Callees, UNCHANGED <<at, back, loop>>,
             pc' # "slot", \A n \in Names : n # at /\ ~Exists(n) => ~Exists(n)',
             faults' = 0 /\ at \in PoolNames \ Stubborn /\ back # "list" =>
               /\ pc' \in {"stop", "destroy"} => box'[at] # "active"
               /\ pc' \in {"forget", "subnet", "clear", "create"} => ~Exists(at)'
      PROVE  Gentle'
  BY <1>1, <1>7 DEF Gentle, Working, loop, Control, Callees
<1>8. CASE Start
  BY <1>1, <1>2, <1>8 DEF Start, call, loop, host, Working, Control, Callees
<1>9. CASE Reconcile
  <2>1. CASE FindOld
    BY <1>1, <1>2, <1>3, <2>1 DEF FindOld, call, host, Working, Control, Callees
  <2>2. CASE CleanOld
    BY <2>2 DEF CleanOld, CleanUp, Gentle, Working, PoolNames, Control, Types
  <2>3. CASE FindPool
    BY <1>1, <1>2, <1>3, <2>3 DEF FindPool, call, host, Working, Control, Callees
  <2>4. CASE CheckLeftover
    <3>1. PICK n \in todo :
            \/ Reports(n, TRUE) /\ CleanUp(n, "forget", "check")
            \/ Reports(n, FALSE) /\ UNCHANGED <<pc, call>>
      BY <2>4 DEF CheckLeftover
    <3>2. CASE Reports(n, TRUE) /\ CleanUp(n, "forget", "check")
      <4>1. pc' = "stop" /\ at' = n /\ back' = "check" /\ box' = box
        BY <2>4, <3>2 DEF CheckLeftover, CleanUp, host
      <4> QED
        BY <1>1, <3>2, <4>1, FailureCounts DEF Gentle, Working
    <3>3. CASE Reports(n, FALSE) /\ UNCHANGED <<pc, call>>
      BY <1>1, <1>2, <2>4, <3>3 DEF CheckLeftover, call, host, Working, Control, Callees
    <3> QED
      BY <3>1, <3>2, <3>3
  <2>5. CASE LeftoversChecked
    BY <1>1, <1>2, <2>5 DEF LeftoversChecked, call, host, Working, Control, Callees
  <2> QED
    BY <1>9, <2>1, <2>2, <2>3, <2>4, <2>5 DEF Reconcile
<1>10. CASE Maintain
  <2>1. CASE ListContainers
    <3>1. CASE AbortRound
      BY <1>6, <2>1, <3>1 DEF ListContainers, host
    <3>2. CASE pc' = "slot" /\ listed' = ListPool /\ todo' = Slots /\ UNCHANGED call
      <4>1. at' = None /\ box' = box
        BY <1>1, <2>1, <3>2 DEF ListContainers, Control, Callees, call, host
      <4> QED
        BY <1>1, <3>2, <4>1 DEF Gentle, ListPool, Exists, PoolNames
    <3> QED
      BY <2>1, <3>1, <3>2 DEF ListContainers
  <2>2. ASSUME pc = "slot", todo # {}, todo' = todo \ {Min(todo)}, listed' = listed,
               at' = NameOf[Min(todo)], box' = box, back' = "slot", pc' \in {"stop", "subnet"},
               pc' = "stop" /\ faults' = 0 /\ at' \notin Stubborn => box[at'] # "active",
               pc' = "subnet" => at' \notin listed
        PROVE  Gentle'
    <3>1. todo \subseteq Slots /\ Min(todo) \in todo
      BY <1>1, <2>2, NextSlot DEF Control
    <3>2. \A s \in todo' : at' # NameOf[s]
      BY <2>2, <3>1, NameAssumption
    <3>3. Working
      BY <2>2 DEF Working
    <3> QED
      BY <2>2, <3>1, <3>2, <3>3 DEF Gentle, Exists
  <2>3. CASE SpawnMissing
    BY <2>2, <2>3 DEF SpawnMissing, host
  <2>4. CASE RespawnCompleted
    <3>1. Reports(NameOf[Min(todo)], TRUE)
      BY <2>4 DEF RespawnCompleted
    <3>2. faults' = 0 /\ NameOf[Min(todo)] \notin Stubborn => box[NameOf[Min(todo)]] # "active"
      BY <1>1, <3>1, FailureCounts
    <3> QED
      BY <2>2, <2>4, <3>2 DEF RespawnCompleted, CleanUp, host
  <2>5. ASSUME pc = "slot", todo' \subseteq todo, UNCHANGED <<pc, call, listed, host>>
        PROVE  Gentle'
    BY <1>1, <1>2, <2>5 DEF call, host, Working, Control, Callees
  <2>6. CASE KeepHealthy
    BY <2>5, <2>6 DEF KeepHealthy
  <2>7. CASE EntryFails
    BY <1>6, <2>5, <2>7 DEF EntryFails, host
  <2>8. ASSUME pc' \notin Callees \cup {"slot"}, back' # "slot", at' = None, UNCHANGED host
        PROVE  Gentle'
    BY <1>1, <2>8 DEF Gentle, Working, Callees, PoolNames
  <2>9. CASE SlotsVisited
    BY <1>1, <1>6, <2>8, <2>9 DEF SlotsVisited, call, host, Control, Callees
  <2>10. CASE RemoveStale
    BY <1>1, <1>3, <1>6, <2>8, <2>10 DEF RemoveStale, call, host, Control, Callees
  <2>11. CASE StaleRemoved
    BY <1>1, <2>8, <2>11 DEF StaleRemoved, Control, Callees
  <2> QED
    BY <1>10, <2>1, <2>3, <2>4, <2>6, <2>7, <2>9, <2>10, <2>11 DEF Maintain
<1>11. CASE Stop
  <2>1. box[at] # "active" => box'[at] # "active"
    BY <1>1, <1>11 DEF Stop, Callees
  <2>2. \A n \in Names : n # at => box'[n] = box[n]
    BY <1>1, <1>11 DEF Stop
  <2> QED
    BY <1>1, <1>7, <1>11, <2>1, <2>2 DEF Stop, Callees, Gentle, Exists, call
<1>12. CASE Destroy
  <2>1. pc = "destroy" /\ at \in Names
    BY <1>1, <1>12 DEF Destroy, Callees
  <2>2. \A n \in Names : box'[n] # box[n] => n = at /\ box'[n] \in {"absent", "ended"}
    BY <1>1, <1>12, <2>1 DEF Destroy
  <2>3. \A n \in Names : ~Exists(n) => ~Exists(n)'
    BY <1>1, <1>12, <2>1 DEF Destroy, Exists
  <2>4. faults' = 0 /\ at \notin Stubborn => box'[at] = "absent"
    BY <1>1, <1>12, <2>1, FailureCounts DEF Destroy
  <2>5. CASE pc' = then /\ UNCHANGED <<call, loop>>
    BY <1>1, <1>7, <2>1, <2>2, <2>3, <2>4, <2>5 DEF Callees, call, Control, Exists
  <2>6. CASE then = "give_up" /\ GiveUp
    <3>1. at' = None /\ (Working' => Working /\ UNCHANGED loop)
      BY <1>1, <2>1, <2>6 DEF GiveUp, Exit, Return, NoCall, Working, Control, Callees
    <3> QED
      BY <1>1, <2>3, <3>1 DEF Gentle, loop, Working, Control, PoolNames
  <2> QED
    BY <1>12, <2>5, <2>6 DEF Destroy
<1>13. CASE Forget
  BY <1>1, <1>4, <1>5, <1>7, <1>13 DEF Forget, Callees, call, host, Gentle, Exists
<1>14. CASE PickSubnet
  BY <1>1, <1>5, <1>7, <1>14 DEF PickSubnet, Callees, host, Gentle, Exists
<1>15. CASE Clear
  BY <1>1, <1>5, <1>7, <1>15 DEF Clear, CleanUp, Callees, call, host, Gentle, Exists
<1>16. CASE Create
  <2>1. CASE GiveUp /\ UNCHANGED host
    BY <1>5, <1>16, <2>1 DEF Create, Callees, host
  <2>2. CASE /\ pc' = "configure" /\ box' = [box EXCEPT ![at] = "stopped"]
             /\ UNCHANGED <<call, loop>>
    BY <1>1, <1>7, <1>16, <2>2 DEF Create, Callees, call, Exists
  <2> QED
    BY <1>16, <2>1, <2>2 DEF Create
<1>17. CASE Configure
  BY <1>5, <1>7, <1>17 DEF Configure, Callees, call, host, Exists
<1>18. CASE StartContainer
  <2>1. CASE pc' = "install" /\ box' = [box EXCEPT ![at] = "active"] /\ UNCHANGED call
    BY <1>1, <1>7, <1>18, <2>1 DEF StartContainer, Callees, call, Exists
  <2>2. CASE FailsOn(at) /\ CleanUp(at, "give_up", back) /\ UNCHANGED box
    BY <1>1, <1>7, <1>18, <2>2, FailureCounts DEF StartContainer, Callees, CleanUp, Exists
  <2> QED
    BY <1>18, <2>1, <2>2 DEF StartContainer
<1>19. CASE InstallNgit
  BY <1>1, <1>7, <1>19, FailureCounts DEF InstallNgit, Callees, CleanUp, call, host, Exists
<1>20. CASE Put
  BY <1>5, <1>7, <1>20 DEF Put, Callees, call, host, Exists
<1>21. CASE PublishSpawned
  BY <1>4, <1>21 DEF PublishSpawned, Callees, host
<1>22. CASE AdvertiseSlot \/ AllAdvertised \/ RoundDone \/ Poll
  <2>1. pc' \notin Callees \cup {"slot"} /\ back' # "slot" /\ at' = None /\ box' = box
    BY <1>1, <1>22 DEF AdvertiseSlot, AllAdvertised, RoundDone, Poll, Return, NoCall, call,
                       host, Control, Callees
  <2> QED
    BY <1>1, <2>1 DEF Gentle, Working, PoolNames
<1>23. CASE \E s \in Slots : JobTimesOut(s)
  BY <1>23 DEF JobTimesOut, CleanUp, Gentle, Working
<1>24. CASE Crash
  BY <1>3, <1>24 DEF Crash, host
<1>25. CASE \E n \in Names : WorkerEnds(n)
  <2>1. \A n \in Names : (box[n] # "active" => box'[n] # "active")
                         /\ (~Exists(n) => ~Exists(n)')
    BY <1>1, <1>25 DEF WorkerEnds, Exists
  <2>2. UNCHANGED <<pc, call, loop, faults>>
    BY <1>25 DEF WorkerEnds
  <2>3. \A s \in todo : Working => NameOf[s] \in Names
    BY <1>1 DEF Working, Control, PoolNames
  <2> QED
    BY <1>1, <2>1, <2>2, <2>3 DEF Gentle, Working, call, loop
<1>26. CASE UNCHANGED vars
  BY <1>26 DEF Gentle, Working, vars, call, loop, host, budgets, Exists
<1> QED
  BY <1>8, <1>9, <1>10, <1>11, <1>12, <1>13, <1>14, <1>15, <1>16, <1>17, <1>18, <1>19,
     <1>20, <1>21, <1>22, <1>23, <1>24, <1>25, <1>26
  DEF Next, Controller, Replace, RunLoop

\* Reconciliation and maintenance take down no worker that is active, whatever
\* else happens, as long as no command has failed: only a job that ran out of
\* time costs one.
THEOREM ActiveWorkersSpared == Spec => WorkersSpared
<1>1. Init => Gentle
  BY DEF Init, Gentle, Working
<1>2. Types /\ Gentle /\ [Next]_vars => Gentle'
  BY GentleKept
<1>3. ASSUME Types, Gentle, [Next]_vars, NEW n \in PoolNames \ Stubborn,
             faults' = 0, ends' = ends, box[n] = "active", back # "list"
      PROVE  box'[n] = "active"
  <2>1. /\ faults = 0 /\ box \in [Names -> States] /\ n \in Names
        /\ ~Exists(at) => at # n
        /\ box[at] # "active" => at # n
    BY <1>3, FaultsStay DEF Types, Stores, PoolNames, Exists
  <2>2. CASE Stop \/ Destroy
    <3>1. at # n
      BY <1>3, <2>1, <2>2 DEF Stop, Destroy, Gentle
    <3> QED
      BY <1>3, <2>1, <2>2, <3>1 DEF Stop, Destroy
  <2>3. CASE Create \/ StartContainer
    BY <1>3, <2>1, <2>3 DEF Create, StartContainer, Exists, host
  <2>4. CASE \E m \in Names : WorkerEnds(m)
    BY <1>3, <2>4, Bounds DEF WorkerEnds, Types, Counts
  <2>5. CASE UNCHANGED box
    BY <1>3, <2>5
  <2>6. Reconcile \/ Maintain \/ RunLoop \/ Start \/ Crash => UNCHANGED box
    BY DEF Reconcile, FindOld, CleanOld, FindPool, CheckLeftover, LeftoversChecked, Maintain,
           ListContainers, SpawnMissing, RespawnCompleted, KeepHealthy, EntryFails,
           SlotsVisited, RemoveStale, StaleRemoved, RunLoop, AdvertiseSlot, AllAdvertised,
           RoundDone, Poll, JobTimesOut, Start, Crash, host
  <2>7. Replace => Stop \/ Destroy \/ Create \/ StartContainer \/ UNCHANGED box
    BY DEF Replace, Forget, PickSubnet, Clear, Configure, InstallNgit, Put, PublishSpawned,
           host
  <2>8. UNCHANGED vars => UNCHANGED box
    BY DEF vars, host
  <2> QED
    BY <1>3, <2>2, <2>3, <2>4, <2>5, <2>6, <2>7, <2>8 DEF Next, Controller
<1>4. Types /\ Gentle /\ [Next]_vars =>
        [\A n \in PoolNames \ Stubborn :
           /\ faults' = 0 /\ ends' = ends
           /\ box[n] = "active" /\ back # "list"
           => box'[n] = "active"]_vars
  BY <1>3
<1> QED
  BY <1>1, <1>2, <1>4, TypesInvariant, PTL DEF Spec, WorkersSpared
-----------------------------------------------------------------------------
(***************************************************************************)
(* What a round of maintenance has achieved so far: a round in which       *)
(* nothing goes wrong repairs the pool.  And containers, commands and      *)
(* entries implement PoolContract.                                         *)
(***************************************************************************)
Served(s) == Ready(NameOf[s]) /\ db[NameOf[s]].pubkey = key

\* In a round the container in hand is that of a slot already visited, in a
\* respawn that of a slot.
Placed ==
  /\ back = "slot" => \E s \in Slots \ todo : at = NameOf[s]
  /\ back = "list" /\ at # None => \E s \in Slots : at = NameOf[s]

\* While a worker that ran out of time is replaced, it has no entry.
Blank ==
  /\ back = "list" /\ at # None
  /\ \/ pc \in {"subnet", "clear", "create", "configure", "start", "install", "put"}
     \/ pc \in {"stop", "destroy"} /\ then # "forget"
  => db[at] = None

\* As long as nothing goes wrong, each command finds the container in hand as
\* the commands before it have left it.
Smooth ==
  clean =>
    /\ pc \notin {"down", "list_all", "old", "check", "stale"} /\ ~Reconciling
    /\ then = "forget"
    /\ pc \in {"stop", "destroy"} /\ back = "slot" => box[at] # "active"
    /\ pc \in {"forget", "subnet", "clear", "create"} => ~Exists(at)
    /\ pc \in {"install", "put", "publish"} => box[at] = "active"
    /\ pc = "publish" => db[at] # None /\ db[at].pubkey = key

\* As long as nothing goes wrong, the slots already visited are served.
Repaired ==
  clean =>
    /\ Working => \A s \in Slots \ todo : at # NameOf[s] => Served(s)
    /\ pc \in {"sweep", "due"} => \A s \in Slots : Served(s)
    /\ pc = "sweep" => listed = ListPool
    /\ pc = "due" => \A n \in Names : db[n] # None => n \in ListPool
-----------------------------------------------------------------------------
\* What fails is remembered, and what is reported without failure is so.
LEMMA Outcomes ==
  /\ Goes => clean' = clean
  /\ Fails => ~clean'
  /\ \A n : FailsOn(n) => ~clean'
  /\ \A n : Reports(n, TRUE) /\ clean' => clean /\ box[n] # "active"
  /\ \A n : Reports(n, FALSE) /\ clean' => clean /\ box[n] = "active"
BY DEF Goes, Fails, FailsOn, Reports

\* A step of a replacement goes on with the same container or ends the call.
LEMMA ReplaceFrame ==
  ASSUME Control, Replace
  PROVE  /\ pc \in Callees
         /\ \/ pc' \in Callees /\ UNCHANGED <<at, back, loop>>
            \/ pc' \notin Callees /\ at' = None /\ back' = "down" /\ then' = "forget"
<1>1. Replace => pc \in Callees
  BY DEF Replace, Stop, Destroy, Forget, PickSubnet, Clear, Create, Configure,
         StartContainer, InstallNgit, Put, PublishSpawned, Callees
<1>2. GiveUp \/ Return => pc' \notin Callees /\ at' = None /\ back' = "down" /\ then' = "forget"
  BY <1>1 DEF GiveUp, Exit, Return, NoCall, Control, Callees
<1>3. \A goal : CleanUp(at, goal, back) => pc' \in Callees /\ at' = at /\ back' = back
  BY DEF CleanUp, Callees
<1>4. CASE Destroy
  BY <1>1, <1>2, <1>4 DEF Destroy, Control, Callees, call
<1>5. CASE ~Destroy
  BY <1>1, <1>2, <1>3, <1>5
  DEF Replace, Stop, Forget, PickSubnet, Clear, Create, Configure, StartContainer,
      InstallNgit, Put, PublishSpawned, call, Callees
<1> QED
  BY <1>4, <1>5

\* The container in hand stays that of a slot.
LEMMA PlacedKept ==
  ASSUME Types, Placed, [Next]_vars
  PROVE  Placed'
<1>1. Control /\ None \notin Names /\ \A s \in Slots : NameOf[s] \in Names
  BY NameAssumption DEF Types
<1>2. CASE Start \/ UNCHANGED vars \/ \E n \in Names : WorkerEnds(n)
  BY <1>2 DEF Start, vars, WorkerEnds, call, loop, Placed
<1>3. CASE Reconcile
  BY <1>1, <1>3
  DEF Reconcile, FindOld, CleanOld, FindPool, CheckLeftover, LeftoversChecked, CleanUp, Exit,
      NoCall, call, Control, Callees, Placed
<1>4. CASE Maintain
  <2>1. CASE SpawnMissing \/ RespawnCompleted
    <3>1. Min(todo) \in Slots
      BY <1>1, <2>1, NextSlot DEF SpawnMissing, RespawnCompleted, Control
    <3>2. at' = NameOf[Min(todo)] /\ back' = "slot" /\ Min(todo) \notin todo'
      BY <2>1 DEF SpawnMissing, RespawnCompleted, CleanUp
    <3> QED
      BY <3>1, <3>2 DEF Placed
  <2> QED
    BY <1>1, <1>4, <2>1
    DEF Maintain, ListContainers, KeepHealthy, EntryFails, SlotsVisited, RemoveStale,
        StaleRemoved, AbortRound, Exit, NoCall, call, Control, Callees, Placed
<1>5. CASE Replace
  BY <1>1, <1>5, ReplaceFrame DEF Placed, loop
<1>6. CASE RunLoop
  BY <1>1, <1>6
  DEF RunLoop, AdvertiseSlot, AllAdvertised, RoundDone, Poll, JobTimesOut, CleanUp, Return,
      NoCall, call, Control, Callees, Placed
<1>7. CASE Crash
  BY <1>7 DEF Crash, Exit, NoCall, Placed
<1> QED
  BY <1>2, <1>3, <1>4, <1>5, <1>6, <1>7 DEF Next, Controller

\* A worker being replaced stays without an entry until the new one is there.
LEMMA BlankKept ==
  ASSUME Types, Blank, [Next]_vars
  PROVE  Blank'
<1>1. Control /\ db \in [Names -> EntryType] /\ (pc \in Callees => at \in Names)
  BY DEF Types, Control, Stores
<1>2. ASSUME at' = None \/ back' # "list" PROVE Blank'
  BY <1>2 DEF Blank
<1>3. CASE Start \/ UNCHANGED vars \/ \E n \in Names : WorkerEnds(n)
  BY <1>3 DEF Start, vars, WorkerEnds, call, Blank
<1>4. CASE Reconcile
  BY <1>1, <1>2, <1>4
  DEF Reconcile, FindOld, CleanOld, FindPool, CheckLeftover, LeftoversChecked, CleanUp, Exit,
      NoCall, call, Types, Control, Callees
<1>5. CASE Maintain
  BY <1>1, <1>2, <1>5
  DEF Maintain, ListContainers, SpawnMissing, RespawnCompleted, KeepHealthy, EntryFails,
      SlotsVisited, RemoveStale, StaleRemoved, CleanUp, AbortRound, Exit, NoCall, call, Types,
      Control, Callees
<1>6. CASE Forget
  <2>1. CASE pc' = "subnet" /\ db' = [db EXCEPT ![at] = None] /\ UNCHANGED call
    BY <1>1, <1>6, <2>1 DEF Forget, Blank, call, Types, Stores, Control, Callees
  <2>2. CASE GiveUp \/ Return
    BY <1>2, <2>2 DEF GiveUp, Exit, Return, NoCall
  <2> QED
    BY <1>6, <2>1, <2>2 DEF Forget
<1>7. CASE Replace /\ ~Forget
  <2>1. GiveUp \/ Return => Blank'
    BY <1>2 DEF GiveUp, Exit, Return, NoCall
  <2>2. CASE Stop \/ Destroy
    BY <2>1, <2>2 DEF Stop, Destroy, Blank, call
  <2>3. CASE PickSubnet \/ Clear \/ Create \/ Configure \/ StartContainer \/ InstallNgit
    BY <2>1, <2>3
    DEF PickSubnet, Clear, Create, Configure, StartContainer, InstallNgit, CleanUp, Blank, call
  <2>4. CASE Put
    BY <2>1, <2>4 DEF Put, Blank, call, Types, Control
  <2>5. CASE PublishSpawned
    BY <2>1, <2>5 DEF PublishSpawned
  <2> QED
    BY <1>7, <2>2, <2>3, <2>4, <2>5 DEF Replace
<1>8. CASE RunLoop
  BY <1>1, <1>2, <1>8
  DEF RunLoop, AdvertiseSlot, AllAdvertised, RoundDone, Poll, JobTimesOut, CleanUp, Return,
      NoCall, call, Types, Control, Callees, Blank
<1>9. CASE Crash
  BY <1>2, <1>9 DEF Crash, Exit, NoCall
<1> QED
  BY <1>3, <1>4, <1>5, <1>6, <1>7, <1>8, <1>9 DEF Next, Controller

\* An entry that is written is one, with the identity in use.
LEMMA WrittenEntries ==
  ASSUME Stores
  PROVE  /\ \A a \in BOOLEAN : Entry(a) # None /\ Entry(a).pubkey = key
         /\ \A n \in Names : db[n] # None =>
              [db[n] EXCEPT !.pubkey = key] # None /\ [db[n] EXCEPT !.pubkey = key].pubkey = key
<1>1. ASSUME NEW n \in Names, db[n] # None
      PROVE  [db[n] EXCEPT !.pubkey = key] # None /\ [db[n] EXCEPT !.pubkey = key].pubkey = key
  <2>1. db[n] \in [pubkey : 0..MaxKeys, advertised : BOOLEAN]
    BY <1>1 DEF Stores, EntryType
  <2>2. [db[n] EXCEPT !.pubkey = key] \in [pubkey : 0..MaxKeys, advertised : BOOLEAN]
    BY <2>1 DEF Stores
  <2> QED
    BY <2>1, <2>2, NameAssumption
<1>2. \A a \in BOOLEAN : Entry(a) # None /\ Entry(a).pubkey = key
  BY EntriesTyped DEF Entry
<1> QED
  BY <1>1, <1>2

\* A step without failure leaves the container as the next command expects it.
LEMMA SmoothKept ==
  ASSUME Types, Gentle, Smooth, [Next]_vars
  PROVE  Smooth'
<1>1. /\ Control /\ box \in [Names -> States] /\ db \in [Names -> EntryType]
      /\ pc \in Callees => at \in Names
  BY DEF Types, Control, Stores
<1>2. ~clean' => Smooth'
  BY DEF Smooth
\* No call is in progress afterwards, and the controller is up.
<1>3. ASSUME clean, pc' \notin Callees, at' = None, then' = "forget",
             pc' \notin {"down", "list_all", "old", "check", "stale"},
             back' \notin {"old", "check"}
      PROVE  Smooth'
  BY <1>3 DEF Smooth, Callees, Reconciling
<1>4. GiveUp /\ clean /\ pc \in Callees => Smooth'
  <2>1. GiveUp /\ clean /\ pc \in Callees => back \in {"list", "slot"} /\ Return
    BY <1>1 DEF GiveUp, Smooth, Control, Reconciling
  <2> QED
    BY <1>3, <2>1 DEF Return, NoCall, Callees
<1>5. CASE Start
  BY <1>2, <1>5 DEF Start, Smooth, budgets
<1>6. CASE Reconcile
  <2>1. ~clean
    BY <1>6 DEF Reconcile, FindOld, CleanOld, FindPool, CheckLeftover, LeftoversChecked, Smooth
  <2>2. ~clean'
    BY <1>6, <2>1, Outcomes
    DEF Reconcile, FindOld, CleanOld, FindPool, CheckLeftover, LeftoversChecked
  <2> QED
    BY <1>2, <2>2
<1>7. CASE Maintain
  <2>1. CASE ListContainers
    BY <1>1, <1>2, <2>1, Outcomes
    DEF ListContainers, call, Smooth, Reconciling, Control, Callees
  <2>2. CASE SpawnMissing
    <3>1. ~Exists(NameOf[Min(todo)])
      BY <1>1, <2>2, NextSlot DEF SpawnMissing, Gentle, Working, Control
    <3> QED
      BY <1>1, <2>2, <3>1
      DEF SpawnMissing, Smooth, Reconciling, Control, Callees, host, budgets, Exists
  <2>3. CASE RespawnCompleted
    BY <2>3, Outcomes DEF RespawnCompleted, CleanUp, Smooth, Reconciling, host
  <2>4. CASE KeepHealthy \/ EntryFails \/ SlotsVisited
    <3>1. EntryFails => ~clean'
      BY Outcomes DEF EntryFails
    <3>2. KeepHealthy => (clean' => clean) /\ UNCHANGED <<pc, call>>
      BY Outcomes DEF KeepHealthy
    <3>3. SlotsVisited => ~clean' \/ (clean' = clean /\ pc' = "sweep" /\ UNCHANGED call)
      BY Outcomes DEF SlotsVisited
    <3>4. at = None /\ then = "forget" /\ back = "down" /\ pc = "slot"
      BY <1>1, <2>4 DEF KeepHealthy, EntryFails, SlotsVisited, Control, Callees
    <3> QED
      BY <1>2, <1>3, <2>4, <3>1, <3>2, <3>3, <3>4 DEF call, Callees
  <2>5. CASE RemoveStale
    BY <1>1, <1>2, <1>3, <2>5, Outcomes DEF RemoveStale, call, Control, Callees, Smooth
  <2>6. CASE StaleRemoved
    BY <1>1, <1>2, <1>3, <2>6 DEF StaleRemoved, call, Control, Callees, Smooth
  <2> QED
    BY <1>7, <2>1, <2>2, <2>3, <2>4, <2>5, <2>6 DEF Maintain
<1>8. CASE Stop
  BY <1>1, <1>8, Outcomes DEF Stop, call, Callees, Smooth, Reconciling
<1>9. CASE Destroy
  <2>1. CASE ~clean'
    BY <1>2, <2>1
  <2>2. CASE clean'
    <3>1. clean /\ box' = [box EXCEPT ![at] = "absent"] /\ pc = "destroy"
      BY <1>9, <2>2, Outcomes DEF Destroy
    <3>2. pc' = "forget" /\ UNCHANGED call
      BY <1>9, <3>1 DEF Destroy, Smooth
    <3> QED
      BY <1>1, <3>1, <3>2 DEF call, Callees, Smooth, Reconciling, Exists
  <2> QED
    BY <2>1, <2>2
<1>10. CASE Forget
  <2>1. CASE pc' = "subnet" /\ UNCHANGED call /\ Goes
    BY <1>10, <2>1, Outcomes DEF Forget, call, host, Smooth, Reconciling, Exists
  <2>2. CASE Reconciling
    BY <1>2, <1>10, <2>2, Outcomes DEF Forget, Smooth
  <2> QED
    BY <1>2, <1>10, <2>1, <2>2, Outcomes DEF Forget
<1>11. CASE PickSubnet
  BY <1>2, <1>11, Outcomes DEF PickSubnet, host, Smooth, Reconciling, Exists
<1>12. CASE Clear
  BY <1>2, <1>12, Outcomes DEF Clear, call, host, Smooth, Reconciling, Exists
<1>13. CASE Create
  <2>1. CASE Exists(at)
    BY <1>2, <1>13, <2>1, Outcomes DEF Create, Smooth
  <2>2. CASE ~Exists(at)
    BY <1>2, <1>13, <2>2, Outcomes DEF Create, call, Smooth, Reconciling
  <2> QED
    BY <2>1, <2>2
<1>14. CASE Configure
  BY <1>2, <1>14, Outcomes DEF Configure, call, Smooth, Reconciling
<1>15. CASE StartContainer
  BY <1>1, <1>2, <1>15, Outcomes DEF StartContainer, call, Callees, Smooth, Reconciling
<1>16. CASE InstallNgit
  BY <1>2, <1>16, Outcomes DEF InstallNgit, call, host, Smooth, Reconciling
<1>17. CASE Put
  <2>1. CASE ~clean'
    BY <1>2, <2>1
  <2>2. CASE clean'
    <3>1. /\ clean /\ pc = "put" /\ pc' = "publish" /\ UNCHANGED <<call, host, key>>
          /\ db' = [db EXCEPT ![at] = Entry(FALSE)]
      BY <1>17, <2>2, Outcomes DEF Put
    <3>2. db'[at'] # None /\ db'[at'].pubkey = key'
      BY <1>1, <3>1, WrittenEntries DEF Types, Callees, call
    <3> QED
      BY <3>1, <3>2 DEF call, host, Smooth, Reconciling
  <2> QED
    BY <2>1, <2>2
<1>18. CASE PublishSpawned
  <2>1. clean' => clean
    BY <1>18, Outcomes DEF PublishSpawned, Publish
  <2>2. clean => back \in {"list", "slot"}
    BY <1>1, <1>18 DEF PublishSpawned, Smooth, Control, Callees, Reconciling
  <2> QED
    BY <1>2, <1>3, <1>18, <2>1, <2>2 DEF PublishSpawned, Return, NoCall, Callees
<1>19. CASE AdvertiseSlot \/ AllAdvertised \/ RoundDone \/ Poll
  <2>1. clean' => clean
    BY <1>19, Outcomes DEF AdvertiseSlot, Publish, AllAdvertised, RoundDone, Poll
  <2>2. /\ pc' \notin Callees /\ at' = None /\ then' = "forget"
        /\ pc' \notin {"down", "list_all", "old", "check", "stale"}
        /\ back' \notin {"old", "check"}
    BY <1>1, <1>19
    DEF AdvertiseSlot, AllAdvertised, RoundDone, Poll, Return, NoCall, call, Control, Callees
  <2> QED
    BY <1>2, <1>3, <2>1, <2>2
<1>20. CASE \E s \in Slots : JobTimesOut(s)
  BY <1>20 DEF JobTimesOut, CleanUp, Smooth, Reconciling
<1>21. CASE Crash \/ \E n \in Names : WorkerEnds(n)
  BY <1>2, <1>21 DEF Crash, WorkerEnds
<1>22. CASE UNCHANGED vars
  BY <1>22 DEF vars, call, host, Smooth, Reconciling, Exists
<1> QED
  BY <1>5, <1>6, <1>7, <1>8, <1>9, <1>10, <1>11, <1>12, <1>13, <1>14, <1>15, <1>16, <1>17,
     <1>18, <1>19, <1>20, <1>21, <1>22
  DEF Next, Controller, Replace, RunLoop

\* A step without failure leaves the visited slots served.
LEMMA RepairedKept ==
  ASSUME Types, Gentle, Placed, Smooth, Repaired, [Next]_vars
  PROVE  Repaired'
<1>1. /\ Control /\ Stores
      /\ pc \in Callees => at \in Names
      /\ None \notin Names
      /\ \A s \in Slots : NameOf[s] \in Names /\ NameOf[s] \in PoolNames
      /\ \A s, r \in Slots : NameOf[s] = NameOf[r] => s = r
  BY NameAssumption DEF Types, Control, PoolNames
<1>2. ~clean' => Repaired'
  BY DEF Repaired
\* Outside a round there is nothing to keep.
<1>3. ASSUME pc' \notin {"slot", "sweep", "due"}, back' # "slot" PROVE Repaired'
  BY <1>3 DEF Repaired, Working
\* A call of the round goes on.
<1>4. ASSUME clean, pc \in Callees, pc' \in Callees, UNCHANGED <<at, back, loop, key>>,
             \A n \in Names : n # at => box'[n] = box[n] /\ db'[n] = db[n]
      PROVE  Repaired'
  <2>1. ASSUME back = "slot", NEW s \in Slots \ todo, at # NameOf[s] PROVE Served(s)'
    <3>1. Served(s)
      BY <1>4, <2>1 DEF Repaired, Working
    <3>2. NameOf[s] \in Names
      BY <1>1
    <3> QED
      BY <1>4, <2>1, <3>1, <3>2 DEF Served, Ready
  <2> QED
    BY <1>4, <2>1 DEF Repaired, Working, Callees, loop
<1>5. CASE Start
  BY <1>1, <1>3, <1>5 DEF Start, call, Control, Callees
<1>6. CASE Reconcile
  <2>1. ~clean
    BY <1>6 DEF Reconcile, FindOld, CleanOld, FindPool, CheckLeftover, LeftoversChecked, Smooth
  <2>2. ~clean'
    BY <1>6, <2>1, Outcomes
    DEF Reconcile, FindOld, CleanOld, FindPool, CheckLeftover, LeftoversChecked
  <2> QED
    BY <1>2, <2>2
<1>7. CASE ListContainers
  BY <1>1, <1>2, <1>7, Outcomes
  DEF ListContainers, call, Repaired, Working, Control, Callees
<1>8. ASSUME pc = "slot", todo # {}, todo' = todo \ {Min(todo)}, at' = NameOf[Min(todo)],
             clean' => clean, UNCHANGED <<host, db, key>>, pc' \in Callees
      PROVE  Repaired'
  <2>1. at = None /\ back = "down"
    BY <1>1, <1>8 DEF Control, Callees
  <2>2. ASSUME clean, NEW s \in Slots \ todo', at' # NameOf[s] PROVE Served(s)'
    <3>1. Served(s)
      BY <1>1, <1>8, <2>1, <2>2 DEF Repaired, Working
    <3> QED
      BY <1>8, <3>1 DEF host, Served, Ready
  <2> QED
    BY <1>8, <2>2 DEF Repaired, Callees
<1>9. CASE SpawnMissing
  BY <1>8, <1>9 DEF SpawnMissing, budgets, Callees
<1>10. CASE RespawnCompleted
  BY <1>8, <1>10, Outcomes DEF RespawnCompleted, CleanUp, Callees
<1>11. CASE KeepHealthy
  <2>1. CASE ~clean'
    BY <1>2, <2>1
  <2>2. CASE clean'
    <3> DEFINE n == NameOf[Min(todo)]
    <3>1. clean /\ box[n] = "active" /\ at = None /\ UNCHANGED <<pc, call, host, key>>
      BY <1>1, <1>11, <2>2, Outcomes DEF KeepHealthy, Control, Callees
    <3>2. n \in Names /\ Min(todo) \in Slots
      BY <1>1, <1>11, NextSlot DEF KeepHealthy, Control
    <3>3. /\ db'[n] # None /\ db'[n].pubkey = key
          /\ \A m \in Names : m # n => db'[m] = db[m]
      BY <1>1, <1>11, <3>2, WrittenEntries DEF KeepHealthy, Stores
    <3>4. ASSUME NEW s \in Slots \ todo' PROVE Served(s)'
      <4>1. CASE s = Min(todo)
        BY <3>1, <3>3, <4>1 DEF host, Served, Ready
      <4>2. CASE s # Min(todo)
        <5>1. Served(s)
          BY <1>1, <1>11, <3>1, <3>4, <4>2 DEF KeepHealthy, Repaired, Working
        <5>2. NameOf[s] # n /\ NameOf[s] \in Names
          BY <1>1, <3>2, <4>2
        <5> QED
          BY <3>1, <3>3, <5>1, <5>2 DEF host, Served, Ready
      <4> QED
        BY <4>1, <4>2
    <3> QED
      BY <1>11, <3>1, <3>4 DEF KeepHealthy, Repaired
  <2> QED
    BY <2>1, <2>2
<1>12. CASE EntryFails
  BY <1>2, <1>12, Outcomes DEF EntryFails
<1>13. CASE SlotsVisited
  <2>1. CASE ~clean'
    BY <1>2, <2>1
  <2>2. CASE clean'
    <3>1. /\ clean /\ pc = "slot" /\ todo = {} /\ at = None
          /\ pc' = "sweep" /\ listed' = ListPool /\ UNCHANGED <<call, todo, host, db, key>>
      BY <1>1, <1>13, <2>2, Outcomes DEF SlotsVisited, Control, Callees
    <3>2. \A s \in Slots : Served(s)
      BY <1>1, <3>1 DEF Repaired, Working
    <3>3. (\A s \in Slots : Served(s)') /\ ListPool' = ListPool
      BY <3>1, <3>2 DEF host, Served, Ready, ListPool, Exists
    <3> QED
      BY <1>1, <3>1, <3>3 DEF Repaired, Working, call, Control, Callees
  <2> QED
    BY <2>1, <2>2
<1>14. CASE RemoveStale
  <2>1. CASE ~clean'
    BY <1>2, <2>1
  <2>2. CASE clean'
    <3>1. /\ clean /\ pc = "sweep" /\ UNCHANGED <<pc, call, loop, host, key>>
          /\ \E n \in Names : Stale(n) /\ db' = [db EXCEPT ![n] = None]
      BY <1>14, <2>2, Outcomes DEF RemoveStale, Smooth
    <3>2. PICK n \in Names : n \notin ListPool /\ db' = [db EXCEPT ![n] = None]
      BY <3>1 DEF Stale, Repaired
    <3>3. ASSUME NEW s \in Slots PROVE Served(s)'
      <4>1. Served(s) /\ NameOf[s] # n
        BY <1>1, <3>1, <3>2 DEF Repaired, Served, Ready, ListPool, Exists
      <4> QED
        BY <1>1, <3>1, <3>2, <4>1 DEF host, Served, Ready, Stores
    <3>4. listed' = ListPool'
      BY <3>1 DEF Repaired, loop, host, ListPool, Exists
    <3> QED
      BY <1>1, <3>1, <3>3, <3>4 DEF Repaired, Working, call, Control, Callees
  <2> QED
    BY <2>1, <2>2
<1>15. CASE StaleRemoved
  <2>1. CASE pc = "stale"
    BY <1>3, <1>15, <2>1 DEF StaleRemoved
  <2>2. CASE pc = "sweep"
    <3>1. /\ pc' = "due" /\ back' = "down" /\ UNCHANGED <<host, db, key, clean>>
          /\ \A n \in Names : db[n] # None => n \in listed
      BY <1>1, <1>15, <2>2 DEF StaleRemoved, Stale, Control, Callees, budgets
    <3>2. clean => (\A s \in Slots : Served(s)') /\ listed = ListPool'
      BY <2>2, <3>1 DEF Repaired, host, Served, Ready, ListPool, Exists
    <3> QED
      BY <3>1, <3>2 DEF Repaired, Working
  <2> QED
    BY <1>15, <2>1, <2>2 DEF StaleRemoved
<1>16. CASE Replace /\ ~PublishSpawned
  <2>1. CASE ~clean'
    BY <1>2, <2>1
  <2>2. CASE clean'
    <3>1. clean /\ pc' \in Callees
      <4>1. CASE Stop \/ PickSubnet \/ Clear \/ Configure \/ StartContainer \/ InstallNgit \/ Put
        BY <2>2, <4>1, Outcomes
        DEF Stop, PickSubnet, Clear, Configure, StartContainer, InstallNgit, Put, CleanUp,
            Callees
      <4>2. CASE Destroy
        BY <2>2, <4>2, Outcomes DEF Destroy, Smooth, Callees
      <4>3. CASE Forget
        BY <2>2, <4>3, Outcomes DEF Forget, Smooth, Callees
      <4>4. CASE Create
        BY <2>2, <4>4, Outcomes DEF Create, Smooth, Callees
      <4> QED
        BY <1>16, <4>1, <4>2, <4>3, <4>4 DEF Replace
    <3>2. pc \in Callees /\ UNCHANGED <<at, back, loop>>
      BY <1>1, <1>16, <3>1, ReplaceFrame
    <3>3. key' = key /\ \A n \in Names : n # at => box'[n] = box[n] /\ db'[n] = db[n]
      BY <1>1, <1>16
      DEF Replace, Stop, Destroy, Forget, PickSubnet, Clear, Create, Configure,
          StartContainer, InstallNgit, Put, host, Stores
    <3> QED
      BY <1>4, <3>1, <3>2, <3>3
  <2> QED
    BY <2>1, <2>2
<1>17. CASE PublishSpawned
  <2>1. CASE ~clean'
    BY <1>2, <2>1
  <2>2. CASE clean'
    <3>1. /\ clean /\ pc = "publish" /\ at' = None /\ back' = "down" /\ pc' = back
          /\ UNCHANGED <<loop, host, key>> /\ at \in Names
      BY <1>1, <1>17, <2>2, Outcomes DEF PublishSpawned, Publish, Return, NoCall, Callees
    <3>2. box[at] = "active" /\ db[at] # None
      BY <3>1 DEF Smooth
    <3>3. /\ db'[at] # None /\ db'[at].pubkey = key
          /\ \A n \in Names : n # at => db'[n] = db[n]
      BY <1>1, <1>17, <2>2, <3>1, <3>2, WrittenEntries, Outcomes
      DEF PublishSpawned, Publish, Stores
    <3>4. ASSUME back = "slot", NEW s \in Slots \ todo PROVE Served(s)'
      <4>1. CASE NameOf[s] = at
        BY <3>1, <3>2, <3>3, <4>1 DEF host, Served, Ready
      <4>2. CASE NameOf[s] # at
        <5>1. Served(s)
          BY <3>1, <3>4, <4>2 DEF Repaired, Working
        <5> QED
          BY <1>1, <3>1, <3>3, <4>2, <5>1 DEF host, Served, Ready
      <4> QED
        BY <4>1, <4>2
    <3>5. back \in {"list", "slot"}
      BY <1>1, <3>1 DEF Smooth, Control, Callees, Reconciling
    <3> QED
      BY <3>1, <3>4, <3>5 DEF Repaired, Working, loop
  <2> QED
    BY <2>1, <2>2
<1>18. CASE AdvertiseSlot
  BY <1>1, <1>3, <1>18 DEF AdvertiseSlot, call, Control, Callees
<1>19. CASE AllAdvertised
  BY <1>1, <1>3, <1>19 DEF AllAdvertised, Return, NoCall, Control, Callees
<1>20. CASE RoundDone
  BY <1>1, <1>3, <1>20 DEF RoundDone, Control, Callees
<1>21. CASE Poll
  BY <1>1, <1>3, <1>21 DEF Poll, call, Control, Callees
<1>22. CASE \E s \in Slots : JobTimesOut(s)
  BY <1>3, <1>22 DEF JobTimesOut, CleanUp
<1>23. CASE Crash \/ \E n \in Names : WorkerEnds(n)
  BY <1>2, <1>23 DEF Crash, WorkerEnds
<1>24. CASE UNCHANGED vars
  BY <1>24 DEF vars, call, loop, host, budgets, Repaired, Working, Served, Ready, ListPool,
               Exists
<1> QED
  BY <1>5, <1>6, <1>7, <1>9, <1>10, <1>11, <1>12, <1>13, <1>14, <1>15, <1>16, <1>17, <1>18,
     <1>19, <1>20, <1>21, <1>22, <1>23, <1>24
  DEF Next, Controller, Maintain, RunLoop, Replace

Rounds == Types /\ Gentle /\ Placed /\ Blank /\ Smooth /\ Repaired

\* What a round has achieved so far holds at all times.
LEMMA RoundsInvariant == Spec => []Rounds
<1>1. Init => Types
  BY InitControl, InitData DEF Types
<1>2. Init => Gentle /\ Placed /\ Blank /\ Smooth /\ Repaired
  BY DEF Init, Gentle, Working, Placed, Blank, Smooth, Repaired
<1>3. Types /\ [Next]_vars => Types'
  BY ControlKept, CountsKept, StoresKept DEF Types
<1>4. Rounds /\ [Next]_vars => Rounds'
  BY <1>3, GentleKept, PlacedKept, BlankKept, SmoothKept, RepairedKept DEF Rounds
<1> QED
  BY <1>1, <1>2, <1>4, PTL DEF Spec, Rounds

\* A round in which nothing goes wrong leaves every slot with a running worker
\* and an entry under the identity in use, and no entry without a container.
THEOREM CleanRoundsRepair == Spec => []CleanRoundRepairs
<1>1. Rounds => CleanRoundRepairs
  BY DEF Rounds, Repaired, Served, CleanRoundRepairs
<1> QED
  BY <1>1, RoundsInvariant, PTL
-----------------------------------------------------------------------------
(***************************************************************************)
(* PoolContract: the state it sees, and what a step has to do to it.       *)
(***************************************************************************)
ServedSlots == {s \in Slots : Ready(NameOf[s])}

Hand == IF Respawning THEN CHOOSE s \in Slots : NameOf[s] = at ELSE None

Keeps == [Contract!Next]_(Contract!vars)

\* Changes of the contract's state that the contract allows.
LEMMA Moves ==
  ASSUME clean' \in BOOLEAN
  PROVE  /\ UNCHANGED <<ServedSlots, Phase, Hand, clean>> => Keeps
         /\ ~clean' /\ UNCHANGED <<Phase, Hand>> /\ ServedSlots' \subseteq ServedSlots => Keeps
         /\ ~clean' /\ UNCHANGED <<Phase, Hand>> /\ Phase = "round" => Keeps
         /\ /\ ~clean' /\ UNCHANGED <<Phase, Hand>> /\ Phase = "respawn"
            /\ ServedSlots' \subseteq ServedSlots \cup {Hand}
            => Keeps
         /\ /\ ~clean' /\ UNCHANGED ServedSlots /\ Hand' = None /\ Phase # "down"
            /\ \/ Phase' = "down"
               \/ Phase \in {"idle", "round"} /\ Phase' = "settled"
               \/ Phase = "respawn" /\ Phase' = "idle"
            => Keeps
         /\ /\ UNCHANGED <<Phase, Hand, clean>> /\ Phase = "round"
            /\ ServedSlots \subseteq ServedSlots'
            => Keeps
         /\ /\ UNCHANGED <<Phase, Hand, clean>> /\ Phase = "respawn"
            /\ ServedSlots' \in {ServedSlots \ {Hand}, ServedSlots \cup {Hand}}
            => Keeps
         /\ /\ UNCHANGED <<ServedSlots, clean>> /\ Hand' = None
            /\ Phase = "respawn" /\ Phase' = "idle"
            => Keeps
<1> USE DEF ServedSlots, Hand, Keeps
<1>1. UNCHANGED <<ServedSlots, Phase, Hand, clean>> => Keeps
  BY DEF Contract!vars
<1>2. ServedSlots' \subseteq Slots
  OBVIOUS
<1>3. /\ ~clean' /\ UNCHANGED <<Phase, Hand>>
      /\ ServedSlots' \subseteq ServedSlots \cup Contract!Gain
      => Contract!Trouble
  BY DEF Contract!Trouble
<1>4. /\ ~clean' /\ UNCHANGED ServedSlots /\ Hand' = None /\ Phase # "down"
      /\ \/ Phase' = "down"
         \/ Phase \in {"idle", "round"} /\ Phase' = "settled"
         \/ Phase = "respawn" /\ Phase' = "idle"
      => Contract!Setback
  BY DEF Contract!Setback
<1>5. /\ UNCHANGED <<Phase, Hand, clean>> /\ Phase = "round"
      /\ ServedSlots \subseteq ServedSlots'
      => Contract!Serve
  BY <1>2 DEF Contract!Serve
<1>6. /\ UNCHANGED <<Phase, Hand, clean>> /\ Phase = "respawn"
      /\ ServedSlots' \in {ServedSlots \ {Hand}, ServedSlots \cup {Hand}}
      => Contract!Replace
  BY DEF Contract!Replace
<1>7. /\ UNCHANGED <<ServedSlots, clean>> /\ Hand' = None
      /\ Phase = "respawn" /\ Phase' = "idle"
      => Contract!GoOn
  BY DEF Contract!GoOn
<1>8. Phase = "round" => Contract!Gain = Slots
  BY DEF Contract!Gain
<1>9. Phase = "respawn" => Contract!Gain = {Hand}
  BY DEF Contract!Gain
<1> HIDE DEF ServedSlots, Hand
<1> QED
  BY <1>1, <1>2, <1>3, <1>4, <1>5, <1>6, <1>7, <1>8, <1>9
  DEF Contract!Next, Contract!GetsOn

\* What the phases are made of.
LEMMA Phases ==
  ASSUME Rounds
  PROVE  /\ pc \in Callees /\ Reconciling => Phase = "idle" /\ ~Respawning
         /\ pc \in Callees /\ back = "slot" => Phase = "round" /\ ~Respawning
         /\ pc \in Callees /\ back = "list" => Phase = "respawn" /\ Respawning
         /\ pc \notin Callees => ~Respawning
         /\ pc = "down" => Phase = "down"
         /\ pc \in {"slot", "sweep"} => Phase = "round"
         /\ pc \in {"due", "poll"} => Phase = "settled"
         /\ pc \in {"list_all", "old", "check", "stale", "list"} => Phase = "idle"
         /\ pc = "advertise" /\ back = "list" => Phase = "idle"
         /\ pc = "advertise" /\ back = "poll" => Phase = "settled"
<1>1. Control /\ None \notin Names
  BY NameAssumption DEF Rounds, Types
<1> QED
  BY <1>1 DEF Control, Callees, Phase, Respawning, Reconciling

\* The slot that is being replaced is the one whose container is in hand.
LEMMA HandIsSlot ==
  ASSUME Rounds
  PROVE  /\ ~Respawning => Hand = None
         /\ Respawning => Hand \in Slots /\ NameOf[Hand] = at
BY DEF Rounds, Placed, Hand, Respawning

\* A step that leaves the containers and the presence of entries alone changes
\* nothing for the contract.
LEMMA ServedStays ==
  ASSUME Stores, UNCHANGED box, \A n \in Names : (db'[n] = None) <=> (db[n] = None)
  PROVE  UNCHANGED ServedSlots
<1>1. \A s \in Slots : NameOf[s] \in Names
  BY NameAssumption
<1> QED
  BY <1>1 DEF ServedSlots, Ready

\* A call goes on: it may change the container in hand.
LEMMA CallGoesOn ==
  ASSUME Rounds, Rounds', pc \in Callees, pc' \in Callees, UNCHANGED <<at, back>>,
         clean' = clean \/ ~clean',
         \A n \in Names : n # at => (Ready(n)' <=> Ready(n)),
         Reconciling => (Ready(at)' => Ready(at)),
         back = "slot" /\ clean' => (Ready(at) => Ready(at)')
  PROVE  Keeps
<1>1. /\ clean \in BOOLEAN /\ clean' \in BOOLEAN
      /\ back \in {"old", "check", "list", "slot"}
      /\ \A s \in Slots : NameOf[s] \in Names
      /\ \A s, r \in Slots : NameOf[s] = NameOf[r] => s = r
  BY NameAssumption DEF Rounds, Types, Counts, Control, PoolNames
<1>2. CASE Reconciling
  <2>1. ~clean /\ ~clean'
    BY <1>1, <1>2 DEF Rounds, Smooth
  <2>2. ServedSlots' \subseteq ServedSlots
    BY <1>1, <1>2 DEF ServedSlots
  <2>3. Phase = "idle" /\ Phase' = "idle" /\ ~Respawning /\ ~Respawning'
    BY <1>2, Phases DEF Reconciling, Respawning, Phase, Callees
  <2>4. Hand = None /\ Hand' = None
    BY <2>3 DEF Hand
  <2> QED
    BY <1>1, <2>1, <2>2, <2>3, <2>4, Moves
<1>3. CASE back = "slot"
  <2>1. Phase = "round" /\ Phase' = "round" /\ ~Respawning /\ ~Respawning'
    BY <1>3, Phases DEF Respawning, Phase, Callees
  <2>2. Hand = None /\ Hand' = None
    BY <2>1 DEF Hand
  <2>3. clean' => ServedSlots \subseteq ServedSlots'
    BY <1>1, <1>3 DEF ServedSlots
  <2> QED
    BY <1>1, <2>1, <2>2, <2>3, Moves
<1>4. CASE back = "list"
  <2>1. Phase = "respawn" /\ Respawning
    BY <1>4, Phases
  <2>2. Hand \in Slots /\ NameOf[Hand] = at
    BY <2>1, HandIsSlot
  <2>3. UNCHANGED <<Phase, Hand>>
    BY <1>4, <2>1 DEF Phase, Respawning, Hand, Callees
  <2>4. \A s \in Slots : s # Hand => (Ready(NameOf[s])' <=> Ready(NameOf[s]))
    BY <1>1, <2>2
  <2>5. ServedSlots' \in {ServedSlots \ {Hand}, ServedSlots \cup {Hand}}
    <3>1. CASE Ready(at)'
      <4>1. ServedSlots' = ServedSlots \cup {Hand}
        BY <2>2, <2>4, <3>1 DEF ServedSlots
      <4> QED
        BY <4>1
    <3>2. CASE ~Ready(at)'
      <4>1. ServedSlots' = ServedSlots \ {Hand}
        BY <2>2, <2>4, <3>2 DEF ServedSlots
      <4> QED
        BY <4>1
    <3> QED
      BY <3>1, <3>2
  <2>6. ServedSlots' \subseteq ServedSlots \cup {Hand}
    BY <2>5
  <2> QED
    BY <1>1, <2>1, <2>3, <2>5, <2>6, Moves
<1> QED
  BY <1>1, <1>2, <1>3, <1>4 DEF Reconciling

\* A call ends, with its work done or given up.
LEMMA CallEnds ==
  ASSUME Rounds, clean' \in BOOLEAN, pc \in Callees,
         clean' = clean \/ ~clean',
         \/ Return
         \/ GiveUp /\ (Reconciling => ~clean' /\ UNCHANGED ServedSlots),
         Reconciling => ServedSlots' \subseteq ServedSlots,
         back = "slot" /\ clean' => UNCHANGED ServedSlots,
         back = "list" => UNCHANGED ServedSlots
  PROVE  Keeps
<1>1. back \in {"old", "check", "list", "slot"} /\ clean \in BOOLEAN
  BY DEF Rounds, Types, Control, Counts
<1>2. Hand' = None
  BY DEF GiveUp, Return, Exit, NoCall, Hand, Respawning
<1>3. CASE Reconciling
  <2>1. Phase = "idle" /\ Hand = None /\ ~clean
    BY <1>3, Phases DEF Hand, Rounds, Smooth
  <2>2. CASE Return
    <3>1. Phase' = "idle"
      BY <1>3, <2>2 DEF Return, NoCall, Phase, Respawning, Reconciling
    <3>2. ~clean'
      BY <2>1
    <3> QED
      BY <1>2, <1>3, <2>1, <3>1, <3>2, Moves
  <2>3. CASE GiveUp /\ ~clean' /\ UNCHANGED ServedSlots
    <3>1. Phase' = "down"
      BY <1>3, <2>3 DEF GiveUp, Exit, NoCall, Phase, Respawning
    <3> QED
      BY <1>2, <2>1, <2>3, <3>1, Moves
  <2> QED
    BY <1>3, <2>2, <2>3
<1>4. CASE ~Reconciling /\ back = "slot"
  <2>1. Phase = "round" /\ Phase' = "round" /\ Hand = None
    BY <1>4, Phases DEF GiveUp, Return, NoCall, Phase, Respawning, Hand
  <2> QED
    BY <1>2, <1>4, <2>1, Moves
<1>5. CASE ~Reconciling /\ back = "list"
  <2>1. Phase = "respawn" /\ Phase' = "idle" /\ UNCHANGED ServedSlots
    BY <1>5, Phases DEF GiveUp, Return, NoCall, Phase, Respawning
  <2> QED
    BY <1>2, <2>1, Moves
<1> QED
  BY <1>1, <1>3, <1>4, <1>5 DEF Reconciling

\* Steps between calls that change neither the phase nor what is served, unless
\* something goes wrong.
LEMMA QuietStep ==
  ASSUME Rounds, clean' \in BOOLEAN, clean' = clean \/ ~clean',
         UNCHANGED <<ServedSlots, Phase>>, ~Respawning, ~Respawning'
  PROVE  Keeps
<1>1. Hand = None /\ Hand' = None
  BY DEF Hand
<1> QED
  BY <1>1, Moves

\* Failures that end the process or the round.
LEMMA SetbackStep ==
  ASSUME Rounds, clean' \in BOOLEAN, ~clean', UNCHANGED <<box, db>>, pc \notin Callees,
         \/ Exit /\ pc # "down"
         \/ AbortRound /\ pc \in {"list", "slot", "sweep"}
  PROVE  Keeps
<1>1. UNCHANGED ServedSlots
  BY DEF ServedSlots, Ready
<1>2. CASE Exit /\ pc # "down"
  <2>1. Phase' = "down" /\ Hand' = None
    BY <1>2 DEF Exit, NoCall, Phase, Respawning, Hand
  <2>2. Phase # "down"
    BY <1>2 DEF Phase
  <2> QED
    BY <1>1, <2>1, <2>2, Moves
<1>3. CASE AbortRound /\ pc \in {"list", "slot", "sweep"}
  <2>1. at' = None /\ back' = "down" /\ pc' = "due"
    BY <1>3 DEF AbortRound, call, Rounds, Types, Control, Callees
  <2>2. Phase' = "settled" /\ Hand' = None
    BY <2>1 DEF Phase, Respawning, Hand
  <2>3. Phase \in {"idle", "round"}
    BY <1>3, Phases
  <2> QED
    BY <1>1, <2>2, <2>3, Moves
<1> QED
  BY <1>2, <1>3

\* Reconciliation is a step of the contract or a stutter.
LEMMA ReconcileKeepsContract ==
  ASSUME Rounds, Rounds', Reconcile \/ (RemoveStale /\ pc = "stale")
  PROVE  Keeps
<1>1. /\ clean' \in BOOLEAN /\ clean \in BOOLEAN /\ Control /\ Stores /\ Control'
      /\ at = None /\ pc \notin Callees /\ pc # "down"
  BY DEF Rounds, Types, Counts, Control, Callees, Reconcile, FindOld, CleanOld, FindPool,
         CheckLeftover, LeftoversChecked
<1>2. ~clean /\ Phase = "idle" /\ Hand = None /\ ~Respawning
  BY <1>1, Phases
  DEF Reconcile, FindOld, CleanOld, FindPool, CheckLeftover, LeftoversChecked, Rounds, Smooth,
      Hand
<1>3. Reconcile \/ RemoveStale => (clean' => clean)
  BY Outcomes
  DEF Reconcile, FindOld, CleanOld, FindPool, CheckLeftover, LeftoversChecked, RemoveStale
<1>4. ~clean'
  BY <1>2, <1>3
<1>5. CASE Exit /\ UNCHANGED <<host, db>>
  BY <1>1, <1>4, <1>5, SetbackStep DEF host
<1>6. CASE RemoveStale /\ pc = "stale" /\ ~Exit
  <2>1. UNCHANGED <<pc, call, host>> /\ \E n \in Names : db' = [db EXCEPT ![n] = None]
    BY <1>6 DEF RemoveStale
  <2>2. ServedSlots' \subseteq ServedSlots
    BY <1>1, <2>1, NameAssumption DEF host, ServedSlots, Ready, Stores, PoolNames
  <2>3. Phase' = Phase /\ Hand' = Hand
    BY <2>1 DEF call, Phase, Respawning, Hand
  <2> QED
    BY <1>1, <1>4, <2>2, <2>3, Moves
<1>7. CASE Reconcile /\ ~Exit
  <2>1. UNCHANGED ServedSlots
    BY <1>7
    DEF Reconcile, FindOld, CleanOld, FindPool, CheckLeftover, LeftoversChecked, host,
        ServedSlots, Ready
  <2>2. \/ pc' \in {"old", "check", "stale"} /\ at' = None
        \/ pc' = "stop" /\ back' \in {"old", "check"}
    BY <1>1, <1>7
    DEF Reconcile, FindOld, CleanOld, FindPool, CheckLeftover, LeftoversChecked, CleanUp, call
  <2>3. Phase' = "idle" /\ ~Respawning'
    BY <1>1, <2>2 DEF Phase, Respawning, Control, Callees
  <2> QED
    BY <1>1, <1>2, <1>4, <2>1, <2>3, QuietStep
<1>8. Reconcile => UNCHANGED <<host, db>>
  BY DEF Reconcile, FindOld, CleanOld, FindPool, CheckLeftover, LeftoversChecked
<1>9. RemoveStale /\ pc = "stale" /\ Exit => UNCHANGED <<host, db>>
  BY DEF RemoveStale, Exit
<1> QED
  BY <1>5, <1>6, <1>7, <1>8, <1>9

\* So is every decision of a round.
LEMMA MaintainKeepsContract ==
  ASSUME Rounds, Rounds', Maintain, pc # "stale"
  PROVE  Keeps
<1>1. /\ clean' \in BOOLEAN /\ clean \in BOOLEAN /\ Control /\ Stores /\ Control'
      /\ pc \in {"list", "slot", "sweep"}
      /\ at = None /\ back = "down" /\ pc \notin Callees
  BY DEF Rounds, Types, Counts, Control, Callees, Maintain, ListContainers, SpawnMissing,
         RespawnCompleted, KeepHealthy, EntryFails, SlotsVisited, RemoveStale, StaleRemoved
<1>2. Hand = None /\ ~Respawning
  BY <1>1, Phases DEF Hand
<1>3. AbortRound /\ ~clean' /\ UNCHANGED <<host, db>> => Keeps
  BY <1>1, SetbackStep DEF host
<1>4. pc' \in {"slot", "sweep"} \/ back' = "slot" => Phase' = "round"
  BY <1>1 DEF Control, Callees, Phase, Respawning
<1>5. CASE ListContainers
  <2>1. CASE pc' = "slot" /\ clean' = TRUE /\ UNCHANGED <<call, host, db>>
    <3>1. Phase = "idle" /\ Phase' = "round" /\ Hand' = None /\ UNCHANGED ServedSlots
      BY <1>1, <1>4, <1>5, <2>1, Phases
      DEF ListContainers, call, host, Hand, Respawning, ServedSlots, Ready
    <3>2. Contract!Begin
      BY <1>2, <2>1, <3>1 DEF Contract!Begin, ServedSlots, Hand
    <3> QED
      BY <3>2 DEF Keeps, Contract!Next, Contract!GetsOn
  <2> QED
    BY <1>3, <1>5, <2>1, Outcomes DEF ListContainers
\* Nothing changes for the contract unless something goes wrong.
<1>6. ASSUME pc = "slot", UNCHANGED <<host, db>>, clean' = clean \/ ~clean',
             (pc' \in {"slot", "sweep"} /\ at' = None) \/ back' = "slot"
      PROVE  Keeps
  <2>1. Phase = "round" /\ Phase' = "round" /\ ~Respawning' /\ UNCHANGED ServedSlots
    BY <1>1, <1>4, <1>6, Phases DEF Respawning, host, ServedSlots, Ready
  <2> QED
    BY <1>1, <1>2, <1>6, <2>1, QuietStep
<1>7. CASE SpawnMissing
  BY <1>6, <1>7 DEF SpawnMissing, budgets
<1>8. CASE RespawnCompleted
  <2>1. clean' = clean \/ ~clean'
    BY <1>1, <1>8, Outcomes DEF RespawnCompleted
  <2> QED
    BY <1>6, <1>8, <2>1 DEF RespawnCompleted, CleanUp
<1>9. CASE KeepHealthy
  <2> DEFINE n == NameOf[Min(todo)]
  <2>1. n \in Names
    BY <1>1, <1>9, NextSlot DEF KeepHealthy, Control
  <2>2. \A m \in Names : db[m] # None => db'[m] # None
    BY <1>1, <1>9, <2>1, WrittenEntries DEF KeepHealthy, Stores
  <2>3. pc = "slot" /\ UNCHANGED <<pc, call, host>>
    BY <1>9 DEF KeepHealthy
  <2>4. ServedSlots \subseteq ServedSlots'
    BY <2>2, <2>3, NameAssumption DEF host, ServedSlots, Ready
  <2>5. Phase = "round" /\ UNCHANGED <<Phase, Hand>>
    BY <2>3, Phases DEF call, Phase, Respawning, Hand
  <2>6. clean' = clean \/ ~clean'
    BY <1>1, <1>9, Outcomes DEF KeepHealthy
  <2> QED
    BY <1>1, <2>4, <2>5, <2>6, Moves
<1>10. CASE EntryFails
  <2>1. ~clean' /\ pc = "slot" /\ UNCHANGED <<host, db>> /\ (AbortRound \/ UNCHANGED <<pc, call>>)
    BY <1>10, Outcomes DEF EntryFails
  <2> QED
    BY <1>1, <1>3, <1>6, <2>1 DEF call
<1>11. CASE SlotsVisited
  <2>1. /\ pc = "slot" /\ UNCHANGED <<host, db>>
        /\ \/ ~clean' /\ AbortRound
           \/ clean' = clean /\ pc' = "sweep" /\ UNCHANGED call
    BY <1>11, Outcomes DEF SlotsVisited
  <2> QED
    BY <1>1, <1>3, <1>6, <2>1 DEF call
<1>12. CASE RemoveStale
  <2>1. CASE /\ UNCHANGED <<pc, call, host>> /\ Goes
             /\ \E n \in Names : Stale(n) /\ db' = [db EXCEPT ![n] = None]
    <3>1. PICK n \in Names : n \notin listed /\ db' = [db EXCEPT ![n] = None]
      BY <2>1 DEF Stale
    <3>2. clean' = clean /\ pc = "sweep" /\ Phase = "round" /\ UNCHANGED <<Phase, Hand>>
      BY <1>12, <2>1, Outcomes, Phases DEF RemoveStale, call, Phase, Respawning, Hand
    <3>3. ASSUME clean, NEW s \in Slots, Ready(NameOf[s]) PROVE Ready(NameOf[s])'
      <4>1. NameOf[s] \in ListPool /\ ListPool = listed
        BY <3>2, <3>3, NameAssumption
        DEF Rounds, Repaired, Ready, ListPool, PoolNames, Exists
      <4> QED
        BY <1>1, <2>1, <3>1, <3>3, <4>1 DEF host, Ready, Stores, ListPool, PoolNames
    <3>4. clean => ServedSlots \subseteq ServedSlots'
      BY <3>3 DEF ServedSlots
    <3> QED
      BY <1>1, <3>2, <3>4, Moves
  <2>2. CASE Fails /\ AbortRound /\ UNCHANGED <<host, db>>
    BY <1>3, <2>2, Outcomes
  <2> QED
    BY <1>12, <2>1, <2>2 DEF RemoveStale
<1>13. CASE StaleRemoved
  <2>1. pc = "sweep" /\ pc' = "due" /\ UNCHANGED <<at, back, host, db, clean>>
    BY <1>13 DEF StaleRemoved, budgets
  <2>2. Phase = "round" /\ Phase' = "settled" /\ Hand' = None /\ UNCHANGED ServedSlots
    BY <1>1, <2>1, Phases DEF Phase, Respawning, Hand, host, ServedSlots, Ready
  <2>3. clean => ServedSlots = Slots
    BY <2>1 DEF Rounds, Repaired, Served, ServedSlots
  <2>4. Contract!Settle
    BY <1>2, <2>1, <2>2, <2>3 DEF Contract!Settle, ServedSlots, Hand
  <2> QED
    BY <2>4 DEF Keeps, Contract!Next, Contract!GetsOn
<1> QED
  BY <1>5, <1>7, <1>8, <1>9, <1>10, <1>11, <1>12, <1>13 DEF Maintain

\* So is every step of taking a container down and of spawning one.
LEMMA ReplaceKeepsContract ==
  ASSUME Rounds, Rounds', Replace
  PROVE  Keeps
<1>1. /\ clean' \in BOOLEAN /\ clean \in BOOLEAN /\ Control /\ Stores
      /\ pc \in Callees /\ at \in Names
  BY ReplaceFrame DEF Rounds, Types, Counts, Control
<1>2. clean' => clean
  BY Outcomes
  DEF Replace, Stop, Destroy, Forget, PickSubnet, Clear, Create, Configure, StartContainer,
      InstallNgit, Put, PublishSpawned, Publish
<1>3. clean' = clean \/ ~clean'
  BY <1>1, <1>2
<1>4. \A n \in Names : n # at => (Ready(n)' <=> Ready(n))
  BY <1>1
  DEF Replace, Stop, Destroy, Forget, PickSubnet, Clear, Create, Configure, StartContainer,
      InstallNgit, Put, PublishSpawned, Publish, host, Ready, Stores
\* A call that goes on, with what it does to the container in hand.
<1>5. ASSUME pc' \in Callees, Reconciling => (Ready(at)' => Ready(at)),
             back = "slot" /\ clean' => (Ready(at) => Ready(at)')
      PROVE  Keeps
  <2>1. UNCHANGED <<at, back>>
    BY <1>1, <1>5, ReplaceFrame
  <2> QED
    BY <1>1, <1>3, <1>4, <1>5, <2>1, CallGoesOn
\* A call that is given up, with the containers and entries as they were.
<1>6. UNCHANGED <<box, db>> => UNCHANGED ServedSlots
  BY DEF ServedSlots, Ready
<1>7. ASSUME GiveUp, UNCHANGED <<box, db>>, Reconciling => ~clean' PROVE Keeps
  BY <1>1, <1>3, <1>6, <1>7, CallEnds
<1>8. Reconciling => ~clean'
  BY <1>2 DEF Rounds, Smooth
<1>9. UNCHANGED <<box, db>> /\ pc' \in Callees => Keeps
  BY <1>1, <1>5, ReplaceFrame DEF Ready
<1>10. pc \notin {"stop", "destroy", "forget"} => ~Reconciling
  BY <1>1 DEF Control
<1>11. CASE Stop
  <2>1. pc' \in Callees /\ at' = at
    BY <1>11 DEF Stop, Callees, call
  <2>2. Ready(at)' => Ready(at)
    BY <1>1, <1>11, <2>1 DEF Stop, Ready, Stores
  <2>3. back = "slot" /\ clean' => ~Ready(at)
    BY <1>2, <1>11 DEF Stop, Rounds, Smooth, Ready
  <2> QED
    BY <1>5, <2>1, <2>2, <2>3
<1>12. CASE Destroy
  <2>1. \A n \in Names : Ready(n)' => Ready(n)
    BY <1>1, <1>12 DEF Destroy, Ready, Stores
  <2>2. CASE then # "give_up"
    <3>1. pc' \in Callees /\ at' = at
      BY <1>1, <1>12, <2>2 DEF Destroy, Control, Callees, call
    <3>2. back = "slot" /\ clean' => ~Ready(at)
      BY <1>2, <1>12 DEF Destroy, Rounds, Smooth, Ready
    <3> QED
      BY <1>1, <1>5, <2>1, <3>1, <3>2
  <2>3. CASE then = "give_up"
    <3>1. GiveUp /\ ~Reconciling /\ ~clean'
      BY <1>1, <1>2, <1>12, <2>3 DEF Destroy, Rounds, Smooth, Control
    <3>2. back = "list" => ~Ready(at)
      BY <1>1, <1>12, <2>3, NameAssumption DEF Destroy, Rounds, Blank, Ready
    <3>3. back = "list" => \A n \in Names : Ready(n)' <=> Ready(n)
      BY <1>1, <1>4, <2>1, <3>2
    <3>4. back = "list" => UNCHANGED ServedSlots
      BY <3>3, NameAssumption DEF ServedSlots
    <3> QED
      BY <1>1, <3>1, <3>4, CallEnds
  <2> QED
    BY <2>2, <2>3
<1>13. CASE Forget
  <2>1. CASE GiveUp /\ UNCHANGED <<box, db>>
    BY <1>7, <1>8, <2>1
  <2>2. CASE /\ UNCHANGED box /\ db' = [db EXCEPT ![at] = None]
             /\ (Reconciling /\ Return) \/ (pc' = "subnet" /\ UNCHANGED call)
    <3>1. \A n \in Names : Ready(n)' => Ready(n)
      BY <1>1, <2>2 DEF Ready, Stores
    <3>2. CASE Reconciling /\ Return
      <4>1. ServedSlots' \subseteq ServedSlots
        BY <3>1, NameAssumption DEF ServedSlots
      <4> QED
        BY <1>1, <1>3, <3>2, <4>1, CallEnds DEF Reconciling
    <3>3. CASE pc' = "subnet" /\ UNCHANGED call
      <4>1. back = "slot" /\ clean' => ~Ready(at)
        BY <1>2, <1>13 DEF Forget, Rounds, Smooth, Ready, Exists
      <4> QED
        BY <1>1, <1>5, <3>1, <3>3, <4>1 DEF call, Callees
    <3> QED
      BY <2>2, <3>2, <3>3
  <2> QED
    BY <1>13, <2>1, <2>2 DEF Forget, host
<1>14. CASE PickSubnet \/ Clear \/ Configure \/ InstallNgit
  <2>1. UNCHANGED <<box, db>> /\ (GiveUp \/ pc' \in Callees)
    BY <1>14 DEF PickSubnet, Clear, Configure, InstallNgit, CleanUp, Callees, host
  <2> QED
    BY <1>7, <1>8, <1>9, <2>1
<1>15. CASE Create
  <2>1. CASE GiveUp /\ UNCHANGED host
    BY <1>7, <1>8, <1>15, <2>1 DEF Create, host
  <2>2. CASE /\ ~Exists(at) /\ box' = [box EXCEPT ![at] = "stopped"]
             /\ pc' = "configure" /\ UNCHANGED call
    <3>1. ~Ready(at) /\ ~Ready(at)'
      BY <1>1, <2>2 DEF Ready, Exists, call, Stores
    <3> QED
      BY <1>5, <2>2, <3>1 DEF Callees
  <2> QED
    BY <1>15, <2>1, <2>2 DEF Create
<1>16. CASE StartContainer
  <2>1. CASE pc' = "install" /\ box' = [box EXCEPT ![at] = "active"] /\ UNCHANGED <<call, db>>
    <3>1. Ready(at) => Ready(at)'
      BY <1>1, <2>1 DEF Ready, call, Stores
    <3> QED
      BY <1>5, <1>10, <1>16, <2>1, <3>1 DEF StartContainer, Callees
  <2>2. CASE pc' = "stop" /\ UNCHANGED <<box, db>>
    BY <1>9, <2>2 DEF Callees
  <2> QED
    BY <1>16, <2>1, <2>2 DEF StartContainer, CleanUp
<1>17. CASE Put
  <2>1. CASE GiveUp /\ UNCHANGED <<box, db>>
    BY <1>7, <1>8, <2>1
  <2>2. CASE pc' = "publish" /\ db' = [db EXCEPT ![at] = Entry(FALSE)] /\ UNCHANGED <<call, box>>
    <3>1. Ready(at) => Ready(at)'
      BY <1>1, <2>2, WrittenEntries DEF Ready, call, Stores
    <3> QED
      BY <1>5, <1>10, <1>17, <2>2, <3>1 DEF Put, Callees
  <2> QED
    BY <1>17, <2>1, <2>2 DEF Put, host
<1>18. CASE PublishSpawned
  <2>1. \A n \in Names : (db'[n] = None) <=> (db[n] = None)
    BY <1>1, <1>18, WrittenEntries DEF PublishSpawned, Publish, Stores
  <2>2. UNCHANGED ServedSlots
    BY <1>1, <1>18, <2>1, ServedStays DEF PublishSpawned, host
  <2> QED
    BY <1>1, <1>3, <1>18, <2>2, CallEnds DEF PublishSpawned
<1> QED
  BY <1>11, <1>12, <1>13, <1>14, <1>15, <1>16, <1>17, <1>18 DEF Replace

\* So is every step of the run loop around the rounds.
LEMMA RunLoopKeepsContract ==
  ASSUME Rounds, Rounds', RunLoop
  PROVE  Keeps
<1>1. /\ clean' \in BOOLEAN /\ clean \in BOOLEAN /\ Control /\ Stores
      /\ at = None /\ pc \notin Callees
  BY DEF Rounds, Types, Counts, Control, Callees, RunLoop, AdvertiseSlot, AllAdvertised,
         RoundDone, Poll, JobTimesOut
<1>2. Hand = None /\ ~Respawning
  BY <1>1, Phases DEF Hand
<1>3. CASE AdvertiseSlot
  <2>1. \A n \in Names : (db'[n] = None) <=> (db[n] = None)
    BY <1>1, <1>3, WrittenEntries, NextSlot DEF AdvertiseSlot, Publish, Stores, Control
  <2>2. UNCHANGED ServedSlots
    BY <1>1, <1>3, <2>1, ServedStays DEF AdvertiseSlot, host
  <2>3. UNCHANGED <<Phase, Respawning>>
    BY <1>3 DEF AdvertiseSlot, call, Phase, Respawning
  <2>4. clean' = clean \/ ~clean'
    BY <1>3, Outcomes DEF AdvertiseSlot, Publish
  <2> QED
    BY <1>1, <1>2, <2>2, <2>3, <2>4, QuietStep
<1>4. CASE AllAdvertised \/ RoundDone
  <2>1. UNCHANGED <<ServedSlots, clean>>
    BY <1>4 DEF AllAdvertised, RoundDone, host, budgets, ServedSlots, Ready
  <2>2. UNCHANGED Phase /\ ~Respawning'
    BY <1>1, <1>4, Phases
    DEF AllAdvertised, RoundDone, Return, NoCall, Phase, Respawning, Control, Callees
  <2> QED
    BY <1>1, <1>2, <2>1, <2>2, QuietStep
<1>5. CASE Poll
  <2>1. UNCHANGED <<ServedSlots, clean>> /\ pc = "poll" /\ pc' = "list" /\ UNCHANGED call
    BY <1>5 DEF Poll, host, ServedSlots, Ready
  <2>2. Phase = "settled" /\ Phase' = "idle" /\ Hand' = None
    BY <1>1, <2>1, Phases DEF call, Phase, Respawning, Hand, Control, Callees
  <2>3. Contract!Poll
    BY <1>2, <2>1, <2>2 DEF Contract!Poll, ServedSlots, Hand
  <2> QED
    BY <2>3 DEF Keeps, Contract!Next, Contract!GetsOn
<1>6. CASE \E s \in Slots : JobTimesOut(s)
  <2>1. PICK s \in Slots : JobTimesOut(s)
    BY <1>6
  <2>2. /\ UNCHANGED <<ServedSlots, clean>> /\ pc = "poll" /\ pc' = "stop"
        /\ at' = NameOf[s] /\ back' = "list"
    BY <2>1 DEF JobTimesOut, CleanUp, host, ServedSlots, Ready
  <2>3. Respawning' /\ Phase' = "respawn" /\ Phase = "settled"
    BY <1>1, <2>2, Phases, NameAssumption DEF Phase, Respawning, PoolNames
  <2>4. Hand' = s
    <3>1. Hand' \in Slots /\ NameOf[Hand'] = NameOf[s]
      BY <2>2, <2>3 DEF Hand
    <3> QED
      BY <3>1, NameAssumption
  <2>5. Contract!Respawn(s)
    BY <1>2, <2>2, <2>3, <2>4 DEF Contract!Respawn, ServedSlots, Hand
  <2> QED
    BY <2>5 DEF Keeps, Contract!Next
<1> QED
  BY <1>3, <1>4, <1>5, <1>6 DEF RunLoop

\* So is every step of the pool and of its environment.
LEMMA StepKeepsContract ==
  ASSUME Rounds, Rounds', [Next]_vars
  PROVE  Keeps
<1>1. clean' \in BOOLEAN /\ Control /\ Stores
  BY DEF Rounds, Types, Counts
<1>2. CASE Start
  <2>1. UNCHANGED <<ServedSlots, clean>> /\ pc = "down" /\ pc' = "list_all" /\ UNCHANGED call
    BY <1>2 DEF Start, host, budgets, ServedSlots, Ready
  <2>2. Phase = "down" /\ Phase' = "idle" /\ Hand = None /\ Hand' = None
    BY <1>1, <2>1, Phases DEF call, Phase, Respawning, Hand, Control, Callees
  <2>3. Contract!Boot
    BY <2>1, <2>2 DEF Contract!Boot, ServedSlots, Hand
  <2> QED
    BY <2>3 DEF Keeps, Contract!Next
<1>3. CASE Reconcile \/ Maintain
  <2>1. CASE StaleRemoved /\ pc = "stale"
    <3>1. /\ UNCHANGED <<ServedSlots, clean, at>> /\ pc' = "advertise" /\ back' = "list"
          /\ at = None
      BY <1>1, <2>1 DEF StaleRemoved, host, budgets, ServedSlots, Ready, Control, Callees
    <3>2. Phase = "idle" /\ Phase' = "idle" /\ ~Respawning /\ ~Respawning'
      BY <2>1, <3>1, Phases DEF Phase, Respawning
    <3> QED
      BY <1>1, <3>1, <3>2, QuietStep
  <2>2. Maintain /\ pc = "stale" => RemoveStale \/ StaleRemoved
    BY DEF Maintain, ListContainers, SpawnMissing, RespawnCompleted, KeepHealthy, EntryFails,
           SlotsVisited
  <2> QED
    BY <1>3, <2>1, <2>2, ReconcileKeepsContract, MaintainKeepsContract
<1>4. CASE Replace \/ RunLoop
  BY <1>4, ReplaceKeepsContract, RunLoopKeepsContract
<1>5. CASE Crash
  <2>1. UNCHANGED ServedSlots /\ ~clean' /\ pc # "down" /\ Exit
    BY <1>5 DEF Crash, host, ServedSlots, Ready
  <2>2. Phase # "down" /\ Phase' = "down" /\ Hand' = None
    BY <2>1 DEF Exit, NoCall, Phase, Respawning, Hand
  <2> QED
    BY <1>1, <2>1, <2>2, Moves
<1>6. CASE \E n \in Names : WorkerEnds(n)
  <2>1. \A n \in Names : Ready(n)' => Ready(n)
    BY <1>1, <1>6 DEF WorkerEnds, Ready, Stores
  <2>2. ServedSlots' \subseteq ServedSlots
    BY <2>1, NameAssumption DEF ServedSlots
  <2>3. UNCHANGED <<Phase, Hand>> /\ ~clean'
    BY <1>6 DEF WorkerEnds, call, Phase, Respawning, Hand
  <2> QED
    BY <1>1, <2>2, <2>3, Moves
<1>7. CASE UNCHANGED vars
  <2>1. UNCHANGED <<ServedSlots, Phase, Hand, clean>>
    BY <1>7 DEF vars, call, host, budgets, ServedSlots, Ready, Phase, Respawning, Hand
  <2> QED
    BY <1>1, <2>1, Moves
<1> QED
  BY <1>2, <1>3, <1>4, <1>5, <1>6, <1>7 DEF Next, Controller

\* Every step of the pool is one of PoolContract or leaves alone what the run
\* loop sees of it.
THEOREM PoolKeepsContract == Spec => Contract!Init /\ [][Contract!Next]_(Contract!vars)
<1>1. Init => Contract!Init
  BY DEF Init, Contract!Init, Phase, Respawning
<1>2. Rounds /\ Rounds' /\ [Next]_vars => [Contract!Next]_(Contract!vars)
  BY StepKeepsContract DEF Keeps
<1> QED
  BY <1>1, <1>2, RoundsInvariant, PTL DEF Spec
-----------------------------------------------------------------------------
(***************************************************************************)
(* What fails for one container stays there.  As long as nothing else goes *)
(* wrong, a slot whose container is not stubborn is replaced as in a clean *)
(* round, and the slots visited are served but for the stubborn ones.      *)
(***************************************************************************)
Undisturbed == faults = 0 /\ ends = 0

Elsewhere == {s \in Slots : NameOf[s] \notin Stubborn}

Untroubled ==
  Undisturbed /\ back = "slot" /\ at \notin Stubborn =>
    /\ then = "forget"
    /\ pc \in {"install", "put", "publish"} => box[at] = "active"
    /\ pc = "publish" => db[at] # None /\ db[at].pubkey = key

ServedElsewhere ==
  Undisturbed =>
    /\ Working => \A s \in Elsewhere \ todo : at # NameOf[s] => Served(s)
    /\ pc \in {"sweep", "due"} => \A s \in Elsewhere : Served(s)
    /\ pc = "sweep" => listed = ListPool

\* Ends of workers are counted, never forgotten.
LEMMA EndsStay ==
  ASSUME Counts, [Next]_vars, ends' = 0
  PROVE  ends = 0 /\ \A n \in Names : ~WorkerEnds(n)
<1> USE DEF Counts, Goes, Fails, FailsOn, Reports, budgets
<1>1. ends \in Nat
  BY Bounds
<1>2. \A n \in Names : ~WorkerEnds(n)
  BY <1>1 DEF WorkerEnds
<1>3. Reconcile => UNCHANGED ends
  BY DEF Reconcile, FindOld, CleanOld, FindPool, CheckLeftover, LeftoversChecked
<1>4. Maintain => UNCHANGED ends
  BY DEF Maintain, ListContainers, SpawnMissing, RespawnCompleted, KeepHealthy,
              EntryFails, SlotsVisited, RemoveStale, StaleRemoved
<1>5. Replace => UNCHANGED ends
  BY DEF Replace, Stop, Destroy, Forget, PickSubnet, Clear, Create, Configure,
              StartContainer, InstallNgit, Put, PublishSpawned, Publish
<1>6. RunLoop => UNCHANGED ends
  BY DEF RunLoop, AdvertiseSlot, Publish, AllAdvertised, RoundDone, Poll, JobTimesOut
<1>7. Start \/ Crash \/ UNCHANGED vars => UNCHANGED ends
  BY DEF Start, Crash, vars
<1> QED
  BY <1>2, <1>3, <1>4, <1>5, <1>6, <1>7 DEF Next, Controller

\* Where nothing was disturbed nothing has failed but on a stubborn container.
LEMMA NothingFailed ==
  ASSUME Counts, [Next]_vars, Undisturbed'
  PROVE  /\ Undisturbed /\ ~Fails
         /\ \A n : n \notin Stubborn => ~FailsOn(n)
         /\ \A n \in Names : ~WorkerEnds(n)
         /\ \A n : n \notin Stubborn /\ Reports(n, FALSE) => box[n] = "active"
<1>1. faults' = 0 /\ ends' = 0
  BY DEF Undisturbed
<1>2. Undisturbed /\ ~Fails /\ \A n : n \notin Stubborn => ~FailsOn(n)
  BY <1>1, FaultsStay, EndsStay, FailureCounts DEF Undisturbed
<1>3. \A n : Reports(n, FALSE) => box[n] = "active" \/ FailsOn(n)
  BY DEF Reports
<1> QED
  BY <1>1, <1>2, <1>3, EndsStay

\* A call of the round is begun by a visit to a slot, or goes on.
LEMMA CallOfRound ==
  ASSUME Control, [Next]_vars, back' = "slot"
  PROVE  \/ SpawnMissing \/ RespawnCompleted
         \/ Replace /\ ~PublishSpawned /\ pc \in Callees /\ pc' \in Callees
            /\ UNCHANGED <<at, back, loop>>
         \/ \E n \in Names : WorkerEnds(n)
         \/ UNCHANGED vars
<1>1. pc \notin Callees => back # "slot"
  BY DEF Control, Callees
<1>2. CASE Replace
  <2>1. PublishSpawned => back' = "down"
    BY DEF PublishSpawned, Return, NoCall
  <2> QED
    BY <1>2, <2>1, ReplaceFrame
<1>3. ~Start /\ ~Crash
  BY <1>1 DEF Start, call, Crash, Exit, NoCall, Callees
<1>4. ~Reconcile
  BY <1>1 DEF Reconcile, FindOld, CleanOld, FindPool, CheckLeftover, LeftoversChecked, call,
              Exit, NoCall, CleanUp, Callees
<1>5. Maintain => SpawnMissing \/ RespawnCompleted
  BY <1>1 DEF Maintain, ListContainers, KeepHealthy, EntryFails, SlotsVisited, RemoveStale,
              StaleRemoved, AbortRound, Exit, NoCall, call, Callees
<1>6. ~RunLoop
  BY <1>1 DEF RunLoop, AdvertiseSlot, AllAdvertised, RoundDone, Poll, JobTimesOut, Return,
              NoCall, CleanUp, call, Callees, Control
<1> QED
  BY <1>2, <1>3, <1>4, <1>5, <1>6 DEF Next, Controller

\* A step leaves a container that is not stubborn as the next command expects it.
LEMMA UntroubledKept ==
  ASSUME Types, Gentle, Placed, Untroubled, [Next]_vars
  PROVE  Untroubled'
<1> SUFFICES ASSUME Undisturbed', back' = "slot", at' \notin Stubborn
             PROVE  /\ then' = "forget"
                    /\ pc' \in {"install", "put", "publish"} => box'[at'] = "active"
                    /\ pc' = "publish" => db'[at'] # None /\ db'[at'].pubkey = key'
  BY DEF Untroubled
<1>1. /\ Control /\ Counts /\ Stores /\ box \in [Names -> States] /\ db \in [Names -> EntryType]
      /\ pc \in Callees => at \in Names
  BY DEF Types, Control, Stores
<1>2. /\ Undisturbed /\ ~Fails /\ \A n : n \notin Stubborn => ~FailsOn(n)
      /\ \A n \in Names : ~WorkerEnds(n)
  BY <1>1, NothingFailed
<1>3. CASE SpawnMissing \/ RespawnCompleted
  BY <1>1, <1>3 DEF SpawnMissing, RespawnCompleted, CleanUp, Control, Callees
<1>4. CASE UNCHANGED vars
  BY <1>4 DEF vars, call, host, budgets, Untroubled, Undisturbed
<1>5. CASE Replace /\ ~PublishSpawned /\ pc' \in Callees /\ UNCHANGED <<at, back, loop>>
  <2>1. /\ back = "slot" /\ at \notin Stubborn /\ then = "forget" /\ ~Reconciling
        /\ pc \in {"install", "put", "publish"} => box[at] = "active"
        /\ ~FailsOn(at) /\ ~Fails
    BY <1>2, <1>5 DEF Untroubled, Reconciling
  <2>2. ~GiveUp
    BY <1>1, <2>1 DEF GiveUp, Return, NoCall
  <2>3. pc \in {"forget", "subnet", "clear", "create"} => ~Exists(at)
    <3>1. at \in PoolNames
      BY <2>1, NameAssumption DEF Placed, PoolNames
    <3> QED
      BY <1>2, <2>1, <3>1 DEF Gentle, Undisturbed
  <2>4. CASE Stop \/ Forget \/ PickSubnet \/ Configure
    BY <2>1, <2>2, <2>4 DEF Stop, Forget, PickSubnet, Configure, call, Return, NoCall
  <2>5. CASE Destroy
    BY <2>1, <2>5 DEF Destroy, call
  <2>6. CASE Clear
    BY <2>1, <2>2, <2>3, <2>6 DEF Clear, call
  <2>7. CASE Create
    BY <2>1, <2>2, <2>7 DEF Create, call
  <2>8. CASE StartContainer
    BY <1>1, <2>1, <2>8 DEF StartContainer, call, Callees
  <2>9. CASE InstallNgit
    BY <2>1, <2>9 DEF InstallNgit, call, host
  <2>10. CASE Put
    <3>1. /\ pc = "put" /\ pc' = "publish" /\ UNCHANGED <<call, host, key>>
          /\ db' = [db EXCEPT ![at] = Entry(FALSE)]
      BY <2>1, <2>2, <2>10 DEF Put
    <3>2. db'[at'] # None /\ db'[at'].pubkey = key'
      BY <1>1, <3>1, WrittenEntries DEF Callees, call
    <3> QED
      BY <2>1, <3>1, <3>2 DEF call, host
  <2> QED
    BY <1>5, <2>4, <2>5, <2>6, <2>7, <2>8, <2>9, <2>10 DEF Replace
<1> QED
  BY <1>1, <1>2, <1>3, <1>4, <1>5, CallOfRound

\* A step leaves the visited slots served whose containers are not stubborn.
LEMMA ServedElsewhereKept ==
  ASSUME Types, Gentle, Placed, Untroubled, ServedElsewhere, [Next]_vars
  PROVE  ServedElsewhere'
<1> SUFFICES ASSUME Undisturbed'
             PROVE  /\ Working' => \A s \in Elsewhere \ todo' : at' # NameOf[s] => Served(s)'
                    /\ pc' \in {"sweep", "due"} => \A s \in Elsewhere : Served(s)'
                    /\ pc' = "sweep" => listed' = ListPool'
  BY DEF ServedElsewhere, Elsewhere
<1>1. /\ Control /\ Counts /\ Stores
      /\ pc \in Callees => at \in Names
      /\ None \notin Names
      /\ \A s \in Slots : NameOf[s] \in Names /\ NameOf[s] \in PoolNames
      /\ \A s, r \in Slots : NameOf[s] = NameOf[r] => s = r
  BY NameAssumption DEF Types, Control, PoolNames
<1>2. /\ Undisturbed /\ ~Fails /\ \A n : n \notin Stubborn => ~FailsOn(n)
      /\ \A n \in Names : ~WorkerEnds(n)
      /\ \A n : n \notin Stubborn /\ Reports(n, FALSE) => box[n] = "active"
  BY <1>1, NothingFailed
<1>3. /\ Working => \A s \in Elsewhere \ todo : at # NameOf[s] => Served(s)
      /\ pc \in {"sweep", "due"} => \A s \in Elsewhere : Served(s)
      /\ pc = "sweep" => listed = ListPool
      /\ Elsewhere \subseteq Slots /\ \A s \in Elsewhere : NameOf[s] \notin Stubborn
  BY <1>2 DEF ServedElsewhere, Elsewhere
<1> DEFINE Goal == /\ Working' => \A s \in Elsewhere \ todo' : at' # NameOf[s] => Served(s)'
                   /\ pc' \in {"sweep", "due"} => \A s \in Elsewhere : Served(s)'
                   /\ pc' = "sweep" => listed' = ListPool'
<1> HIDE DEF Elsewhere
\* Outside a round there is nothing to keep.
<1>4. ASSUME pc' \notin {"slot", "sweep", "due"}, back' # "slot" PROVE Goal
  BY <1>4 DEF Working
\* The replacement of a container leaves the others alone.
<1>5. Replace => key' = key /\ \A n \in Names : n # at => box'[n] = box[n] /\ db'[n] = db[n]
  BY <1>1 DEF Replace, Stop, Destroy, Forget, PickSubnet, Clear, Create, Configure,
              StartContainer, InstallNgit, Put, PublishSpawned, Publish, host, Stores
<1>6. CASE Replace /\ pc' \in Callees
  <2>5. pc \in Callees /\ UNCHANGED <<at, back, loop>>
    BY <1>1, <1>6, ReplaceFrame
  <2>1. key' = key /\ \A n \in Names : n # at => box'[n] = box[n] /\ db'[n] = db[n]
    BY <1>1, <1>6, <1>5
  <2>2. ASSUME back = "slot", NEW s \in Elsewhere \ todo, at # NameOf[s] PROVE Served(s)'
    <3>1. Served(s) /\ NameOf[s] \in Names
      BY <1>1, <1>3, <2>2 DEF Working
    <3> QED
      BY <2>1, <2>2, <3>1 DEF Served, Ready
  <2> QED
    BY <1>6, <2>5, <2>2 DEF Working, Callees, loop
\* A visit leaves the slots visited before as they are.
<1>7. ASSUME pc = "slot", todo # {}, todo' = todo \ {Min(todo)}, at' = NameOf[Min(todo)],
             UNCHANGED <<host, db, key>>, pc' \in Callees
      PROVE  Goal
  <2>1. at = None /\ back = "down"
    BY <1>1, <1>7 DEF Control, Callees
  <2>2. ASSUME NEW s \in Elsewhere \ todo', at' # NameOf[s] PROVE Served(s)'
    <3>1. Served(s)
      BY <1>1, <1>3, <1>7, <2>1, <2>2 DEF Working
    <3> QED
      BY <1>7, <3>1 DEF host, Served, Ready
  <2> QED
    BY <1>7, <2>2 DEF Callees
<1>8. CASE Start \/ Reconcile
  <2>1. pc' \notin {"slot", "sweep", "due"} /\ back' # "slot"
    BY <1>1, <1>8 DEF Start, Reconcile, FindOld, CleanOld, FindPool, CheckLeftover,
                      LeftoversChecked, call, Exit, NoCall, CleanUp, Control, Callees
  <2> QED
    BY <1>4, <2>1
<1>9. CASE ListContainers
  <2>1. pc' = "slot" /\ todo' = Slots
    BY <1>2, <1>9 DEF ListContainers
  <2> QED
    BY <1>3, <2>1
<1>10. CASE SpawnMissing \/ RespawnCompleted
  BY <1>7, <1>10 DEF SpawnMissing, RespawnCompleted, CleanUp, Callees
<1>11. CASE KeepHealthy
  <2> DEFINE n == NameOf[Min(todo)]
  <2>1. /\ pc = "slot" /\ at = None /\ UNCHANGED <<pc, call, host, key>>
        /\ todo' = todo \ {Min(todo)} /\ Reports(n, FALSE)
    BY <1>1, <1>11 DEF KeepHealthy, Control, Callees
  <2>2. n \in Names /\ Min(todo) \in Slots
    BY <1>1, <1>11, NextSlot DEF KeepHealthy, Control
  <2>3. /\ db'[n] # None /\ db'[n].pubkey = key
        /\ \A m \in Names : m # n => db'[m] = db[m]
    BY <1>1, <1>11, <2>2, WrittenEntries DEF KeepHealthy, Stores
  <2>4. ASSUME NEW s \in Elsewhere \ todo' PROVE Served(s)'
    <3>1. CASE s = Min(todo)
      <4>1. box[n] = "active"
        BY <1>2, <1>3, <2>1, <2>4, <3>1
      <4> QED
        BY <2>1, <2>3, <3>1, <4>1 DEF host, Served, Ready
    <3>2. CASE s # Min(todo)
      <4>1. Served(s)
        BY <1>1, <1>3, <2>1, <2>4, <3>2 DEF Working
      <4>2. NameOf[s] # n /\ NameOf[s] \in Names
        BY <1>1, <1>3, <2>2, <2>4, <3>2
      <4> QED
        BY <2>1, <2>3, <4>1, <4>2 DEF host, Served, Ready
    <3> QED
      BY <3>1, <3>2
  <2> QED
    BY <2>1, <2>4
<1>12. CASE SlotsVisited
  <2>1. /\ pc = "slot" /\ todo = {} /\ at = None
        /\ pc' = "sweep" /\ listed' = ListPool /\ UNCHANGED <<call, todo, host, db, key>>
    BY <1>1, <1>2, <1>12 DEF SlotsVisited, Control, Callees
  <2>2. \A s \in Elsewhere : Served(s)
    BY <1>1, <1>3, <2>1 DEF Working
  <2>3. (\A s \in Elsewhere : Served(s)') /\ ListPool' = ListPool
    BY <2>1, <2>2 DEF host, Served, Ready, ListPool, Exists
  <2> QED
    BY <2>1, <2>3
<1>13. CASE RemoveStale
  <2>1. CASE pc = "stale"
    BY <1>1, <1>2, <1>4, <1>13, <2>1 DEF RemoveStale, call, Control, Callees
  <2>2. CASE pc = "sweep"
    <3>1. /\ UNCHANGED <<pc, call, loop, host, key>>
          /\ \E n \in Names : Stale(n) /\ db' = [db EXCEPT ![n] = None]
      BY <1>2, <1>13, <2>2 DEF RemoveStale
    <3>2. PICK n \in Names : n \notin ListPool /\ db' = [db EXCEPT ![n] = None]
      BY <1>3, <2>2, <3>1 DEF Stale
    <3>3. ASSUME NEW s \in Elsewhere PROVE Served(s)'
      <4>1. Served(s) /\ NameOf[s] # n
        BY <1>1, <1>3, <2>2, <3>2, <3>3 DEF Served, Ready, ListPool, Exists
      <4> QED
        BY <1>1, <1>3, <3>1, <3>2, <3>3, <4>1 DEF host, Served, Ready, Stores
    <3>4. listed' = ListPool'
      BY <1>3, <2>2, <3>1 DEF loop, host, ListPool, Exists
    <3> QED
      BY <3>3, <3>4
  <2> QED
    BY <1>13, <2>1, <2>2 DEF RemoveStale
<1>14. CASE StaleRemoved
  <2>1. CASE pc = "stale"
    BY <1>4, <1>14, <2>1 DEF StaleRemoved
  <2>2. CASE pc = "sweep"
    <3>1. pc' = "due" /\ UNCHANGED <<host, db, key>>
      BY <1>14, <2>2 DEF StaleRemoved
    <3>2. \A s \in Elsewhere : Served(s)'
      BY <1>3, <2>2, <3>1 DEF host, Served, Ready
    <3> QED
      BY <3>1, <3>2
  <2> QED
    BY <1>14, <2>1, <2>2 DEF StaleRemoved
\* A call that ends has served its slot, or its container is stubborn.
<1>15. CASE Replace /\ pc' \notin Callees
  <2>1. pc \in Callees /\ at \in Names /\ at' = None /\ back' = "down"
    BY <1>1, <1>15, ReplaceFrame
  <2>2. GiveUp \/ Return
    BY <1>1, <1>15
    DEF Replace, Stop, Destroy, Forget, PickSubnet, Clear, Create, Configure,
        StartContainer, InstallNgit, Put, PublishSpawned, CleanUp, Callees, Control
  <2>3. CASE back # "slot"
    <3>1. pc' \notin {"slot", "sweep", "due"}
      BY <1>1, <2>1, <2>2, <2>3 DEF GiveUp, Exit, Return, Control
    <3> QED
      BY <1>4, <2>1, <3>1
  <2>4. CASE back = "slot"
    <3>1. pc' = "slot" /\ UNCHANGED loop
      BY <2>2, <2>4 DEF GiveUp, Reconciling, Return
    <3>2. ASSUME at \notin Stubborn
          PROVE  box'[at] = "active" /\ db'[at] # None /\ db'[at].pubkey = key
      <4>1. /\ then = "forget" /\ ~FailsOn(at) /\ ~Fails /\ ~Reconciling
            /\ pc = "publish" => box[at] = "active" /\ db[at] # None /\ db[at].pubkey = key
        BY <1>2, <2>4, <3>2 DEF Untroubled, Reconciling
      <4>2. pc \in {"clear", "create"} => ~Exists(at)
        <5>1. at \in PoolNames
          BY <2>4, <1>1 DEF Placed
        <5> QED
          BY <1>2, <2>4, <3>2, <5>1 DEF Gentle, Undisturbed
      <4>3. PublishSpawned
        BY <1>15, <3>1, <4>1, <4>2
        DEF Replace, Stop, Destroy, Forget, PickSubnet, Clear, Create, Configure,
            StartContainer, InstallNgit, Put, CleanUp, Callees
      <4>4. pc = "publish" /\ Publish(at) /\ box' = box
        BY <4>3 DEF PublishSpawned, host
      <4>5. db' = [db EXCEPT ![at] = Entry(TRUE)]
        BY <4>1, <4>4 DEF Publish
      <4> QED
        BY <1>1, <2>1, <4>1, <4>4, <4>5, WrittenEntries DEF Stores
    <3>3. ASSUME NEW s \in Elsewhere \ todo PROVE Served(s)'
      <4>1. CASE NameOf[s] = at
        <5>1. box'[at] = "active" /\ db'[at] # None /\ db'[at].pubkey = key
          BY <1>3, <3>2, <3>3, <4>1
        <5> QED
          BY <1>15, <1>5, <4>1, <5>1 DEF Served, Ready
      <4>2. CASE NameOf[s] # at
        <5>1. Served(s) /\ NameOf[s] \in Names
          BY <1>1, <1>3, <2>4, <3>3, <4>2 DEF Working
        <5> QED
          BY <1>15, <1>5, <4>2, <5>1 DEF Served, Ready
      <4> QED
        BY <4>1, <4>2
    <3> QED
      BY <3>1, <3>3 DEF loop
  <2> QED
    BY <2>3, <2>4
<1>16. CASE RunLoop
  <2>1. CASE RoundDone \/ Poll \/ AllAdvertised \/ \E s \in Slots : JobTimesOut(s)
    BY <1>1, <1>4, <2>1 DEF RoundDone, Poll, AllAdvertised, Return, NoCall, JobTimesOut,
                            CleanUp, call, Control, Callees
  <2>2. CASE AdvertiseSlot
    BY <1>1, <1>4, <2>2 DEF AdvertiseSlot, call, Control, Callees
  <2> QED
    BY <1>16, <2>1, <2>2 DEF RunLoop
<1>17. CASE Crash
  BY <1>4, <1>17 DEF Crash, Exit, NoCall
<1>18. CASE UNCHANGED vars
  BY <1>3, <1>18 DEF vars, call, loop, host, Working, Served, Ready, ListPool, Exists
<1>19. ~EntryFails
  BY <1>2 DEF EntryFails
<1> QED
  BY <1>2, <1>6, <1>8, <1>9, <1>10, <1>11, <1>12, <1>13, <1>14, <1>15, <1>16, <1>17, <1>18,
     <1>19
  DEF Next, Controller, Maintain

\* A round in which nothing has gone wrong but on stubborn containers leaves every
\* other slot with a running worker and an entry under the identity in use, whatever
\* crashes, restarts and new identities came before.
THEOREM FailuresStayInTheirSlot == Spec => []FailuresStayLocal
<1>1. Init => Untroubled /\ ServedElsewhere
  BY DEF Init, Untroubled, ServedElsewhere, Working
<1>2. Rounds /\ Untroubled /\ ServedElsewhere /\ [Next]_vars => (Untroubled /\ ServedElsewhere)'
  BY UntroubledKept, ServedElsewhereKept DEF Rounds
<1>3. ServedElsewhere => FailuresStayLocal
  BY DEF ServedElsewhere, FailuresStayLocal, Undisturbed, Elsewhere, Served
<1> QED
  BY <1>1, <1>2, <1>3, RoundsInvariant, PTL DEF Spec
=============================================================================
