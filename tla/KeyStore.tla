------------------------------ MODULE KeyStore ------------------------------
(***************************************************************************)
(* The worker identities: one key file per slot, loaded when the           *)
(* controller starts or created if it is not there.  A key is generated in *)
(* memory, the file is opened (which creates or empties it), written and   *)
(* restricted, one system call per step; each may fail, which ends the     *)
(* start, and the process may die between any two.  Between two starts the *)
(* pool may be configured to another size.                                 *)
(***************************************************************************)
EXTENDS Integers

CONSTANTS
  MaxSlots,     \* bound: the largest pool that is configured
  Keys,         \* the keys that may be generated
  None,         \* no file, no key
  Torn,         \* what a file holds that is empty or cut short
  MaxBlind      \* bound: files that are there and cannot be examined

ASSUME SlotAssumption == MaxSlots \in Nat /\ MaxBlind \in Nat

ASSUME KeyAssumption == None \notin Keys /\ Torn \notin Keys /\ None # Torn

Slots == 0..(MaxSlots - 1)

VARIABLES
  pc,           \* the system call or decision that is next
  size,         \* the number of slots of this start
  slot,         \* the slot in hand
  fresh,        \* the key generated for it
  ids,          \* by slot: the identity loaded by this start
  file,         \* by slot: what the key file holds, None if there is none
  used,         \* the keys generated so far
  held,         \* by slot: the identity it was first served with
  blind         \* files that were taken for absent

process == <<size, slot, fresh, ids>>
vars    == <<pc, process, file, used, held, blind>>

NoIds == [s \in Slots |-> None]
-----------------------------------------------------------------------------
Init ==
  /\ pc = "down" /\ size = 0 /\ slot = 0 /\ fresh = None /\ ids = NoIds
  /\ file = [s \in Slots |-> None]
  /\ used = {} /\ held = NoIds /\ blind = 0

\* The process ends: an error is returned from main, or a signal kills it.
Exit == pc' = "down" /\ size' = 0 /\ slot' = 0 /\ fresh' = None /\ ids' = NoIds

Start(n) ==
  /\ pc = "down"
  /\ pc' = "load" /\ size' = n
  /\ UNCHANGED <<slot, fresh, ids, file, used, held, blind>>

\* Mutant: one slot too many.
OneMore == slot <= size

More == slot < size

Take(k) ==
  /\ ids' = [ids EXCEPT ![slot] = k]
  /\ slot' = slot + 1
  /\ pc' = "load" /\ fresh' = None
  /\ UNCHANGED size

Load ==
  /\ pc = "load" /\ More
  /\ file[slot] \in Keys
  /\ Take(file[slot])
  /\ UNCHANGED <<file, used, held, blind>>

\* The file cannot be read, or what it holds is no key.
LoadFails ==
  /\ pc = "load" /\ More
  /\ file[slot] # None
  /\ Exit
  /\ UNCHANGED <<file, used, held, blind>>

\* Path::exists is false of a file that is not there, and of one that cannot
\* be examined.
Generate ==
  /\ pc = "load" /\ More
  /\ \/ file[slot] = None /\ UNCHANGED blind
     \/ file[slot] # None /\ blind < MaxBlind /\ blind' = blind + 1
  /\ \E k \in Keys \ used : fresh' = k /\ used' = used \cup {k}
  /\ pc' = "open"
  /\ UNCHANGED <<size, slot, ids, file, held>>

\* Mutant: a key that could not be stored is used all the same.
OpenUnchecked ==
  /\ pc = "open"
  /\ \/ /\ file' = [file EXCEPT ![slot] = Torn]
        /\ pc' = "write"
        /\ UNCHANGED process
     \/ Take(fresh) /\ UNCHANGED file
  /\ UNCHANGED <<used, held, blind>>

\* Creates the file, or empties the one that is there.
Open ==
  /\ pc = "open"
  /\ \/ /\ file' = [file EXCEPT ![slot] = Torn]
        /\ pc' = "write"
        /\ UNCHANGED process
     \/ Exit /\ UNCHANGED file
  /\ UNCHANGED <<used, held, blind>>

Write ==
  /\ pc = "write"
  /\ \/ /\ file' = [file EXCEPT ![slot] = fresh]
        /\ pc' = "restrict"
        /\ UNCHANGED process
     \/ Exit /\ UNCHANGED file
  /\ UNCHANGED <<used, held, blind>>

Restrict ==
  /\ pc = "restrict"
  /\ Take(fresh) \/ Exit
  /\ UNCHANGED <<file, used, held, blind>>

\* All identities are loaded: the slots are advertised under them.
Serve ==
  /\ pc = "load" /\ ~More
  /\ pc' = "up"
  /\ held' = [s \in Slots |-> IF held[s] = None THEN ids[s] ELSE held[s]]
  /\ UNCHANGED <<process, file, used, blind>>

Die ==
  /\ pc # "down"
  /\ Exit
  /\ UNCHANGED <<file, used, held, blind>>

LoadOrCreate == Load \/ LoadFails \/ Generate \/ Open \/ Write \/ Restrict \/ Serve

Next == (\E n \in 0..MaxSlots : Start(n)) \/ LoadOrCreate \/ Die

Spec == Init /\ [][Next]_vars
-----------------------------------------------------------------------------
\* What every variable holds: only slots of the pool are given identities.
TypeOK ==
  /\ pc \in {"down", "load", "open", "write", "restrict", "up"}
  /\ size \in 0..MaxSlots /\ slot \in 0..size
  /\ fresh \in Keys \cup {None}
  /\ ids \in [Slots -> Keys \cup {None}]
  /\ file \in [Slots -> Keys \cup {None, Torn}]
  /\ used \subseteq Keys
  /\ held \in [Slots -> Keys \cup {None}]
  /\ blind \in 0..MaxBlind

(***************************************************************************)
(* Requesters lock tokens to a slot's identity and address it by it: a slot*)
(* that has once been served under an identity is never served under       *)
(* another, through any crash, failure and change of the pool's size, so   *)
(* long as no file that is there is taken for absent.                      *)
(***************************************************************************)
IdentityKept ==
  blind = 0 =>
    \A s \in Slots : held[s] # None /\ ids[s] # None => ids[s] = held[s]

(***************************************************************************)
(* main.rs:56: "Load or create stable per-slot worker identities."  When   *)
(* the store turns to a slot it finds a key to load or none, so that it    *)
(* creates one; nothing else writes the files.                             *)
(***************************************************************************)
LoadsOrCreates == pc = "load" /\ More => file[slot] # Torn

\* The inductive invariant of IdentityKept: what a slot was served under is in
\* its file, and a key is created only for a slot that was never served.
IInv ==
  /\ TypeOK
  /\ pc = "down" => slot = 0
  /\ pc \in {"open", "write", "restrict"} => slot < size /\ fresh \in Keys
  /\ blind = 0 =>
       /\ \A s \in Slots : held[s] # None => file[s] = held[s]
       /\ \A s \in Slots : ids[s] # None => file[s] = ids[s]
       /\ pc \in {"open", "write", "restrict"} => held[slot] = None /\ ids[slot] = None
       /\ pc = "restrict" => file[slot] = fresh
       /\ \A s \in Slots : s >= slot => ids[s] = None
=============================================================================
