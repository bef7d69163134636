----------------------------- MODULE WorkerPool -----------------------------
(***************************************************************************)
(* The warm pool of worker containers: reconcile_on_startup, maintain_pool *)
(* and the advertisements of the run loop, with spawn, respawn and clean-up*)
(* one command of nixos-container, one transaction of the state database   *)
(* or one publication per step.  The controller may die between any two    *)
(* steps; commands and transactions may fail, workers may end and          *)
(* containers may die at any time.                                         *)
(***************************************************************************)
EXTENDS Integers, FiniteSetsExt

CONSTANTS
  Slots,        \* the configured slots, 0..max_concurrent_jobs-1
  Names,        \* the container names that occur
  OldNames,     \* those of the former per-job containers
  NameOf,       \* slot_to_container_name
  Leftovers,    \* the subnets of the containers an earlier installation left
  Subnets,      \* the subnet octets to choose from
  Stubborn,     \* names on which commands may fail any number of times
  None,         \* no container, no entry, no subnet
  MaxKeys,      \* bound: generations of worker identities
  MaxFaults,    \* bound: failures of commands, transactions, publications
  MaxBlind,     \* bound: addresses that show-ip does not tell
  MaxEnds,      \* bound: workers that end, containers that die
  MaxCrashes    \* bound: deaths of the controller

ASSUME SlotAssumption == Slots \subseteq Nat /\ Slots # {} /\ IsFiniteSet(Slots)

ASSUME NameAssumption ==
  /\ OldNames \subseteq Names /\ Stubborn \subseteq Names
  /\ NameOf \in [Slots -> Names \ OldNames]
  /\ \A s, r \in Slots : NameOf[s] = NameOf[r] => s = r
  /\ IsFiniteSet(Names) /\ None \notin Names
  /\ None \notin [pubkey : 0..MaxKeys, advertised : BOOLEAN]

ASSUME SubnetAssumption ==
  /\ Subnets \subseteq Nat /\ Subnets # {} /\ IsFiniteSet(Subnets) /\ None \notin Subnets
  /\ DOMAIN Leftovers \subseteq Names
  /\ \A n, m \in DOMAIN Leftovers :
       Leftovers[n] \in Subnets /\ (Leftovers[n] = Leftovers[m] => n = m)

ASSUME PoolBoundAssumption == {MaxKeys, MaxFaults, MaxBlind, MaxEnds, MaxCrashes} \subseteq Nat

VARIABLES
  pc,          \* the command, transaction or decision that is next
  at,          \* the container being cleaned up or spawned
  back,        \* where the controller goes on afterwards
  then,        \* what follows the clean-up in progress
  octet,       \* the subnet chosen for the container being spawned
  todo,        \* the names or slots the current loop has still to visit
  listed,      \* the containers of the pool when they were last listed
  box,         \* by name: "absent", "stopped", or running: "active", "ended"
  subnet,      \* by name: the subnet the container was created with
  db,          \* by name: the state entry
  key,         \* the generation of the worker identities in use
  clean,       \* nothing has gone wrong since the last round began
  faults, blind, ends, crashes

call    == <<at, back, then, octet>>
loop    == <<todo, listed>>
host    == <<box, subnet>>
budgets == <<faults, blind, ends, crashes>>
vars    == <<pc, call, loop, host, db, key, clean, budgets>>
-----------------------------------------------------------------------------
Exists(n) == box[n] # "absent"
PoolNames == Names \ OldNames
ListPool  == {n \in PoolNames : Exists(n)}
ListAll   == {n \in Names : Exists(n)}

Entry(advertised) == [pubkey |-> key, advertised |-> advertised]

(***************************************************************************)
(* What goes well leaves the budgets alone; what fails uses them up, except*)
(* for commands on a stubborn container.                                   *)
(***************************************************************************)
Goes  == UNCHANGED <<clean, budgets>>

Fails ==
  /\ faults < MaxFaults
  /\ faults' = faults + 1
  /\ clean' = FALSE
  /\ UNCHANGED <<blind, ends, crashes>>

FailsOn(n) ==
  IF n \in Stubborn THEN clean' = FALSE /\ UNCHANGED budgets ELSE Fails

(***************************************************************************)
(* Control.  An error in reconcile_on_startup ends the process; in the run *)
(* loop it is logged, and the loop goes on after the call that failed.     *)
(***************************************************************************)
NoCall == at' = None /\ back' = "down" /\ then' = "forget" /\ octet' = None

Exit == pc' = "down" /\ NoCall /\ todo' = {} /\ listed' = {}

Return == pc' = back /\ NoCall /\ UNCHANGED loop

Reconciling == back \in {"old", "check"}

\* Mutant: an error in one slot ends the round.
GiveUpRound ==
  IF Reconciling THEN Exit ELSE pc' = "due" /\ NoCall /\ todo' = {} /\ listed' = {}

GiveUp == IF Reconciling THEN Exit ELSE Return

CleanUp(n, goal, whence) ==
  /\ pc' = "stop"
  /\ at' = n /\ then' = goal /\ back' = whence
  /\ UNCHANGED octet

AbortRound == pc' = "due" /\ todo' = {} /\ listed' = {} /\ UNCHANGED call
-----------------------------------------------------------------------------
Init ==
  /\ pc = "down" /\ at = None /\ back = "down" /\ then = "forget" /\ octet = None
  /\ todo = {} /\ listed = {}
  /\ box \in [Names -> {"absent", "stopped", "active", "ended"}]
  /\ ListAll = DOMAIN Leftovers
  /\ subnet = [n \in Names |-> IF Exists(n) THEN Leftovers[n] ELSE None]
  /\ key = 0
  /\ db = [n \in Names |-> IF Exists(n) THEN Entry(TRUE) ELSE None]
  /\ clean = FALSE
  /\ faults = 0 /\ blind = 0 /\ ends = 0 /\ crashes = 0

\* systemd starts the process; the key files may be new.
Start ==
  /\ pc = "down"
  /\ pc' = "list_all"
  /\ \E k \in key..MaxKeys : key' = k
  /\ UNCHANGED <<call, loop, host, db, clean, budgets>>

(***************************************************************************)
(* is_worker_completed.  A container that cannot be reached counts as      *)
(* completed, a service whose state cannot be read does not.               *)
(***************************************************************************)
Reports(n, completed) ==
  \/ completed = (box[n] # "active") /\ Goes
  \/ completed /\ box[n] = "active" /\ FailsOn(n)
  \/ ~completed /\ box[n] = "ended" /\ FailsOn(n)

(***************************************************************************)
(* reconcile_on_startup.                                                   *)
(***************************************************************************)
FindOld ==
  /\ pc = "list_all"
  /\ \/ /\ pc' = "old"
        /\ todo' = ListAll \cap OldNames
        /\ Goes
        /\ UNCHANGED <<listed, call>>
     \/ Fails /\ Exit
  /\ UNCHANGED <<host, db, key>>

CleanOld ==
  /\ pc = "old"
  /\ \E n \in todo : CleanUp(n, "forget", "old") /\ todo' = todo \ {n}
  /\ UNCHANGED <<listed, host, db, key, clean, budgets>>

FindPool ==
  /\ pc = "old" /\ todo = {}
  /\ \/ /\ pc' = "check"
        /\ listed' = ListPool
        /\ todo' = ListPool
        /\ Goes
        /\ UNCHANGED call
     \/ Fails /\ Exit
  /\ UNCHANGED <<host, db, key>>

\* Mutant: a container that earlier runs have left is not trusted.
CheckDistrusts ==
  /\ pc = "check"
  /\ \E n \in todo :
       /\ todo' = todo \ {n}
       /\ CleanUp(n, "forget", "check")
       /\ Goes
  /\ UNCHANGED <<listed, host, db, key>>

CheckLeftover ==
  /\ pc = "check"
  /\ \E n \in todo :
       /\ todo' = todo \ {n}
       /\ \/ Reports(n, TRUE) /\ CleanUp(n, "forget", "check")
          \/ Reports(n, FALSE) /\ UNCHANGED <<pc, call>>
  /\ UNCHANGED <<listed, host, db, key>>

LeftoversChecked ==
  /\ pc = "check" /\ todo = {}
  /\ pc' = "stale"
  /\ UNCHANGED <<call, loop, host, db, key, clean, budgets>>

(***************************************************************************)
(* Entries of containers that were not listed are removed, one transaction *)
(* each: at start-up ("stale") and at the end of a round ("sweep").        *)
(***************************************************************************)
Stale(n) == db[n] # None /\ n \notin listed

RemoveStale ==
  /\ pc \in {"stale", "sweep"}
  /\ \/ /\ \E n \in Names : Stale(n) /\ db' = [db EXCEPT ![n] = None]
        /\ Goes
        /\ UNCHANGED <<pc, call, loop>>
     \/ /\ Fails
        /\ IF pc = "stale" THEN Exit ELSE AbortRound
        /\ UNCHANGED db
  /\ UNCHANGED <<host, key>>

StaleRemoved ==
  /\ pc \in {"stale", "sweep"}
  /\ \A n \in Names : ~Stale(n)
  /\ IF pc = "stale"
     THEN pc' = "advertise" /\ back' = "list" /\ todo' = Slots
     ELSE pc' = "due" /\ todo' = {} /\ UNCHANGED back
  /\ listed' = {}
  /\ UNCHANGED <<at, then, octet, host, db, key, clean, budgets>>

(***************************************************************************)
(* publish_slot: the entry, if there is one, is marked once the relays have*)
(* the advertisement.  Errors are logged.                                  *)
(***************************************************************************)
Publish(n) ==
  \/ db' = (IF db[n] = None THEN db ELSE [db EXCEPT ![n] = Entry(TRUE)]) /\ Goes
  \/ Fails /\ UNCHANGED db

AdvertiseSlot ==
  /\ pc = "advertise" /\ todo # {}
  /\ Publish(NameOf[Min(todo)])
  /\ todo' = todo \ {Min(todo)}
  /\ UNCHANGED <<pc, call, listed, host, key>>

AllAdvertised ==
  /\ pc = "advertise" /\ todo = {}
  /\ Return
  /\ UNCHANGED <<host, db, key, clean, budgets>>

(***************************************************************************)
(* maintain_pool: the slots in turn, against the containers listed first.  *)
(***************************************************************************)
ListContainers ==
  /\ pc = "list"
  /\ \/ /\ pc' = "slot"
        /\ listed' = ListPool
        /\ todo' = Slots
        /\ clean' = TRUE
        /\ UNCHANGED <<call, budgets>>
     \/ Fails /\ AbortRound
  /\ UNCHANGED <<host, db, key>>

SpawnMissing ==
  /\ pc = "slot" /\ todo # {}
  /\ LET n == NameOf[Min(todo)]
     IN  /\ n \notin listed
         /\ at' = n /\ back' = "slot" /\ pc' = "subnet"
  /\ todo' = todo \ {Min(todo)}
  /\ UNCHANGED <<then, octet, listed, host, db, key, clean, budgets>>

RespawnCompleted ==
  /\ pc = "slot" /\ todo # {}
  /\ LET n == NameOf[Min(todo)]
     IN  n \in listed /\ Reports(n, TRUE) /\ CleanUp(n, "forget", "slot")
  /\ todo' = todo \ {Min(todo)}
  /\ UNCHANGED <<listed, host, db, key>>

\* Mutant: a healthy container without an entry is left at that.
KeepOrphan ==
  /\ pc = "slot" /\ todo # {}
  /\ LET n == NameOf[Min(todo)]
     IN  /\ n \in listed
         /\ Reports(n, FALSE)
         /\ db' = IF db[n] = None THEN db ELSE [db EXCEPT ![n].pubkey = key]
  /\ todo' = todo \ {Min(todo)}
  /\ UNCHANGED <<pc, call, listed, host, key>>

\* A healthy container gets the entry it lacks, or the key in use.
KeepHealthy ==
  /\ pc = "slot" /\ todo # {}
  /\ LET n == NameOf[Min(todo)]
     IN  /\ n \in listed
         /\ Reports(n, FALSE)
         /\ db' = IF db[n] = None THEN [db EXCEPT ![n] = Entry(FALSE)]
                  ELSE [db EXCEPT ![n].pubkey = key]
  /\ todo' = todo \ {Min(todo)}
  /\ UNCHANGED <<pc, call, listed, host, key>>

\* The entry of a healthy container cannot be read or updated: the error ends
\* the round.  One that cannot be added is only logged.
EntryFails ==
  /\ pc = "slot" /\ todo # {}
  /\ LET n == NameOf[Min(todo)]
     IN  /\ n \in listed
         /\ box[n] = "active"
         /\ Fails
         /\ \/ AbortRound
            \/ /\ db[n] = None
               /\ todo' = todo \ {Min(todo)}
               /\ UNCHANGED <<pc, call, listed>>
  /\ UNCHANGED <<host, db, key>>

\* Mutant: the entries are compared with the containers listed before the spawns.
SlotsVisitedUnlisted ==
  /\ pc = "slot" /\ todo = {}
  /\ pc' = "sweep"
  /\ Goes
  /\ UNCHANGED <<call, todo, listed, host, db, key>>

SlotsVisited ==
  /\ pc = "slot" /\ todo = {}
  /\ \/ pc' = "sweep" /\ listed' = ListPool /\ Goes /\ UNCHANGED <<call, todo>>
     \/ Fails /\ AbortRound
  /\ UNCHANGED <<host, db, key>>

(***************************************************************************)
(* The rest of the run loop: advertisements when they are due, then a poll *)
(* interval or a job, one that ran out of time among them.                 *)
(***************************************************************************)
RoundDone ==
  /\ pc = "due"
  /\ \/ pc' = "advertise" /\ todo' = Slots /\ back' = "poll"
     \/ pc' = "poll" /\ UNCHANGED <<todo, back>>
  /\ UNCHANGED <<at, then, octet, listed, host, db, key, clean, budgets>>

Poll ==
  /\ pc = "poll"
  /\ pc' = "list"
  /\ UNCHANGED <<call, loop, host, db, key, clean, budgets>>

JobTimesOut(s) ==
  /\ pc = "poll"
  /\ CleanUp(NameOf[s], "forget", "list")
  /\ UNCHANGED <<loop, host, db, key, clean, budgets>>

(***************************************************************************)
(* cleanup_container_full: stop, destroy, forget.  Commands that fail are  *)
(* not noticed, and the files of the container go in any case, which a     *)
(* worker that still runs may not survive.                                 *)
(***************************************************************************)
Stop ==
  /\ pc = "stop"
  /\ \/ /\ box' = [box EXCEPT ![at] = IF Exists(at) THEN "stopped" ELSE "absent"]
        /\ Goes
     \/ box[at] \in {"active", "ended"} /\ FailsOn(at) /\ UNCHANGED box
  /\ pc' = "destroy"
  /\ UNCHANGED <<call, loop, subnet, db, key>>

Destroy ==
  /\ pc = "destroy"
  /\ \/ /\ box' = [box EXCEPT ![at] = "absent"]
        /\ subnet' = [subnet EXCEPT ![at] = None]
        /\ Goes
     \/ /\ Exists(at)
        /\ FailsOn(at)
        /\ box' \in {box, [box EXCEPT ![at] = IF @ = "active" THEN "ended" ELSE @]}
        /\ UNCHANGED subnet
  /\ IF then = "give_up" THEN GiveUp ELSE pc' = then /\ UNCHANGED <<call, loop>>
  /\ UNCHANGED <<db, key>>

Forget ==
  /\ pc = "forget"
  /\ \/ /\ db' = [db EXCEPT ![at] = None]
        /\ Goes
        /\ IF Reconciling THEN Return ELSE pc' = "subnet" /\ UNCHANGED <<call, loop>>
     \/ Fails /\ GiveUp /\ UNCHANGED db
  /\ UNCHANGED <<host, key>>
-----------------------------------------------------------------------------
\* Mutant: the subnet after the last one in use.
NextFree(used) == IF used = {} THEN Min(Subnets) ELSE Max(used) + 1

(***************************************************************************)
(* spawn_pool_container.  The subnet is the first that no container is     *)
(* known to use, the one being replaced among them; an address that        *)
(* cannot be read is passed over.                                          *)
(***************************************************************************)
FirstFree(used) == IF Subnets \subseteq used THEN Min(Subnets) ELSE Min(Subnets \ used)

Used(names) == {subnet[n] : n \in names}

\* Mutant: the subnets of the old containers are not looked at.
PickPoolSubnet ==
  /\ pc = "subnet"
  /\ octet' = FirstFree(Used(ListPool))
  /\ pc' = "clear"
  /\ UNCHANGED <<at, back, then, loop, host, db, key, clean, budgets>>

PickSubnet ==
  /\ pc = "subnet"
  /\ \/ /\ octet' = FirstFree(Used(ListAll))
        /\ Goes
        /\ pc' = "clear"
        /\ UNCHANGED <<at, back, then, loop>>
     \/ /\ blind < MaxBlind /\ blind' = blind + 1
        /\ \E n \in ListAll : octet' = FirstFree(Used(ListAll \ {n}))
        /\ pc' = "clear"
        /\ UNCHANGED <<at, back, then, loop, clean, faults, ends, crashes>>
     \/ Fails /\ GiveUp
  /\ UNCHANGED <<host, db, key>>

Clear ==
  /\ pc = "clear"
  /\ \/ Exists(at) /\ CleanUp(at, "create", back) /\ UNCHANGED loop /\ Goes
     \/ ~Exists(at) /\ pc' = "create" /\ UNCHANGED <<call, loop>> /\ Goes
     \/ Fails /\ GiveUp
  /\ UNCHANGED <<host, db, key>>

\* nixos-container refuses a name in use.
Create ==
  /\ pc = "create"
  /\ \/ /\ ~Exists(at)
        /\ box' = [box EXCEPT ![at] = "stopped"]
        /\ subnet' = [subnet EXCEPT ![at] = octet]
        /\ pc' = "configure"
        /\ Goes
        /\ UNCHANGED <<call, loop>>
     \/ Exists(at) /\ GiveUp /\ Goes /\ UNCHANGED host
     \/ ~Exists(at) /\ FailsOn(at) /\ GiveUp /\ UNCHANGED host
  /\ UNCHANGED <<db, key>>

\* A container that could not be configured is left as it was created.
Configure ==
  /\ pc = "configure"
  /\ \/ pc' = "start" /\ Goes /\ UNCHANGED <<call, loop>>
     \/ Fails /\ GiveUp
  /\ UNCHANGED <<host, db, key>>

StartContainer ==
  /\ pc = "start"
  /\ \/ /\ box' = [box EXCEPT ![at] = "active"]
        /\ pc' = "install"
        /\ Goes
        /\ UNCHANGED call
     \/ FailsOn(at) /\ CleanUp(at, "give_up", back) /\ UNCHANGED box
  /\ UNCHANGED <<loop, subnet, db, key>>

InstallNgit ==
  /\ pc = "install"
  /\ \/ pc' = "put" /\ Goes /\ UNCHANGED call
     \/ FailsOn(at) /\ CleanUp(at, "give_up", back)
  /\ UNCHANGED <<loop, host, db, key>>

Put ==
  /\ pc = "put"
  /\ \/ /\ db' = [db EXCEPT ![at] = Entry(FALSE)]
        /\ pc' = "publish"
        /\ Goes
        /\ UNCHANGED <<call, loop>>
     \/ Fails /\ GiveUp /\ UNCHANGED db
  /\ UNCHANGED <<host, key>>

PublishSpawned ==
  /\ pc = "publish"
  /\ Publish(at)
  /\ Return
  /\ UNCHANGED <<host, key>>
-----------------------------------------------------------------------------
(***************************************************************************)
(* What happens around the controller: a worker service ends, a container  *)
(* dies, the controller is killed.                                         *)
(***************************************************************************)
WorkerEnds(n) ==
  /\ ends < MaxEnds /\ ends' = ends + 1
  /\ box[n] \in {"active", "ended"}
  /\ \E b \in {"ended", "stopped"} : b # box[n] /\ box' = [box EXCEPT ![n] = b]
  /\ clean' = FALSE
  /\ UNCHANGED <<pc, call, loop, subnet, db, key, faults, blind, crashes>>

Crash ==
  /\ pc # "down"
  /\ crashes < MaxCrashes /\ crashes' = crashes + 1
  /\ Exit
  /\ clean' = FALSE
  /\ UNCHANGED <<host, db, key, faults, blind, ends>>

Reconcile ==
  \/ FindOld \/ CleanOld \/ FindPool \/ CheckLeftover \/ LeftoversChecked

Maintain ==
  \/ ListContainers \/ SpawnMissing \/ RespawnCompleted \/ KeepHealthy \/ EntryFails
  \/ SlotsVisited \/ RemoveStale \/ StaleRemoved

Replace ==
  \/ Stop \/ Destroy \/ Forget
  \/ PickSubnet \/ Clear \/ Create \/ Configure \/ StartContainer \/ InstallNgit \/ Put
  \/ PublishSpawned

RunLoop ==
  \/ AdvertiseSlot \/ AllAdvertised \/ RoundDone \/ Poll
  \/ \E s \in Slots : JobTimesOut(s)

Controller == Reconcile \/ Maintain \/ Replace \/ RunLoop

Next == Start \/ Controller \/ Crash \/ \E n \in Names : WorkerEnds(n)

\* The controller keeps going, and systemd starts it again after a failure.
Spec == Init /\ [][Next]_vars /\ WF_vars(Start) /\ WF_vars(Controller)
-----------------------------------------------------------------------------
EntryType == [pubkey : 0..MaxKeys, advertised : BOOLEAN] \cup {None}

\* What every variable holds: in particular, the subnet a container is given
\* is always one of those to choose from.
TypeOK ==
  /\ pc \in {"down", "list_all", "old", "check", "stale", "advertise", "list", "slot",
             "sweep", "due", "poll", "stop", "destroy", "forget", "subnet", "clear",
             "create", "configure", "start", "install", "put", "publish"}
  /\ at \in Names \cup {None}
  /\ back \in {"down", "old", "check", "list", "slot", "poll"}
  /\ then \in {"forget", "create", "give_up"}
  /\ octet \in Subnets \cup {None}
  /\ todo \subseteq Names \cup Slots /\ listed \subseteq PoolNames
  /\ box \in [Names -> {"absent", "stopped", "active", "ended"}]
  /\ subnet \in [Names -> Subnets \cup {None}]
  /\ db \in [Names -> EntryType]
  /\ key \in 0..MaxKeys /\ clean \in BOOLEAN
  /\ faults \in 0..MaxFaults /\ blind \in 0..MaxBlind
  /\ ends \in 0..MaxEnds /\ crashes \in 0..MaxCrashes

Ready(n) == box[n] = "active" /\ db[n] # None

(***************************************************************************)
(* A round of maintain_pool in which nothing goes wrong repairs whatever   *)
(* crashes and failures before it have left: every slot has a running      *)
(* worker and an entry with the identity in use, and no entry is left of a *)
(* container that is gone.                                                 *)
(***************************************************************************)
CleanRoundRepairs ==
  pc = "due" /\ clean =>
    /\ \A s \in Slots : Ready(NameOf[s]) /\ db[NameOf[s]].pubkey = key
    /\ \A n \in Names : db[n] # None => n \in ListPool

(***************************************************************************)
(* A controller that starts again, or looks at its pool, takes no running  *)
(* worker down unless a command has failed before: only a job that ran out *)
(* of time costs a worker that is still active.                            *)
(***************************************************************************)
WorkersSpared ==
  [][\A n \in PoolNames \ Stubborn :
       /\ faults' = 0 /\ ends' = ends
       /\ box[n] = "active" /\ back # "list"
       => box'[n] = "active"]_vars

(***************************************************************************)
(* No two containers share a subnet, the old per-job ones that could not   *)
(* be destroyed included, so long as every address could be read and there *)
(* is one subnet more than names: while a container is replaced, its own   *)
(* subnet still counts as used.                                            *)
(***************************************************************************)
SubnetsDistinct ==
  blind = 0 /\ Cardinality(Names) < Cardinality(Subnets) =>
    \A n, m \in ListAll : subnet[n] = subnet[m] => n = m

(***************************************************************************)
(* What fails for one slot's container stays there: so long as nothing     *)
(* else has gone wrong since the host was installed, every round leaves    *)
(* every other slot with a running worker and an entry with the identity   *)
(* in use, whatever crashes of the controller came before.                 *)
(***************************************************************************)
FailuresStayLocal ==
  pc = "due" /\ faults = 0 /\ ends = 0 =>
    \A s \in Slots : NameOf[s] \notin Stubborn =>
      Ready(NameOf[s]) /\ db[NameOf[s]].pubkey = key

(***************************************************************************)
(* A slot whose container cannot be stopped, destroyed or created does not *)
(* keep the others from being served: again and again, each of them has a  *)
(* running worker with an entry.                                           *)
(***************************************************************************)
EverySlotServed ==
  \A s \in Slots : NameOf[s] \notin Stubborn => []<>Ready(NameOf[s])

(***************************************************************************)
(* The pool as the run loop sees it: a round stands between the list that  *)
(* begins it and the decision about advertisements, a respawn is one that  *)
(* the handler of a job has asked for.                                     *)
(***************************************************************************)
Respawning == at # None /\ back = "list"

Phase ==
  CASE pc = "down"                              -> "down"
    [] pc \in {"slot", "sweep"} \/ back = "slot" -> "round"
    [] pc \in {"due", "poll"} \/ back = "poll"   -> "settled"
    [] Respawning                               -> "respawn"
    [] OTHER                                    -> "idle"

Contract == INSTANCE PoolContract WITH
  served <- {s \in Slots : Ready(NameOf[s])},
  phase  <- Phase,
  hand   <- IF Respawning THEN CHOOSE s \in Slots : NameOf[s] = at ELSE None,
  smooth <- clean

\* The containers, commands and entries keep what PoolContract promises the run
\* loop: rounds that go well serve every slot, a job that ran out of time costs
\* its own slot only, and whatever is begun comes to an end.
HonoursPoolContract == Contract!Spec
=============================================================================
