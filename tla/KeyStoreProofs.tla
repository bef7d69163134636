--------------------------- MODULE KeyStoreProofs ---------------------------
(***************************************************************************)
(* A slot keeps its identity: the inductive invariant of KeyStore and what *)
(* follows from it, for every number of slots and every set of keys.       *)
(***************************************************************************)
EXTENDS KeyStore, TLAPS

\* Nothing is stored and nothing served at first.
LEMMA InitHolds == Init => IInv
BY SlotAssumption, KeyAssumption DEF Init, IInv, TypeOK, Slots, NoIds

\* Whatever ends the process leaves the files and what was served.
LEMMA ExitKeeps ==
  ASSUME IInv, Exit, UNCHANGED <<file, used, held, blind>>
  PROVE  IInv'
BY SlotAssumption, KeyAssumption DEF IInv, TypeOK, Exit, Slots, NoIds

\* An identity that is taken up is the one in the file.
LEMMA TakeKeeps ==
  ASSUME IInv, NEW k \in Keys, More, Take(k), blind = 0 => file[slot] = k,
         UNCHANGED <<file, used, held, blind>>
  PROVE  IInv'
<1>1. /\ slot \in Nat /\ size \in Nat /\ slot < size /\ slot \in Slots
      /\ slot' = slot + 1 /\ size' = size /\ ids' = [ids EXCEPT ![slot] = k]
      /\ pc' = "load" /\ fresh' = None
  BY SlotAssumption DEF IInv, TypeOK, More, Take, Slots
<1>2. TypeOK'
  BY <1>1, SlotAssumption DEF IInv, TypeOK
<1>3. ASSUME blind' = 0, NEW s \in Slots, ids'[s] # None
      PROVE  file'[s] = ids'[s]
  BY <1>1, <1>3 DEF IInv, TypeOK
<1>4. ASSUME blind' = 0, NEW s \in Slots, s >= slot'
      PROVE  ids'[s] = None
  <2>1. s \in Nat /\ s # slot /\ s >= slot
    BY <1>1, <1>4, SlotAssumption DEF Slots
  <2> QED
    BY <1>1, <1>4, <2>1 DEF IInv, TypeOK
<1> QED
  BY <1>1, <1>2, <1>3, <1>4 DEF IInv

\* A step of loading or creating the keys.
LEMMA StoreKeeps ==
  ASSUME IInv, LoadOrCreate
  PROVE  IInv'
<1>1. CASE Load
  BY <1>1, TakeKeeps DEF Load
<1>2. CASE LoadFails
  BY <1>2, ExitKeeps DEF LoadFails
<1>3. CASE Generate
  <2>1. slot \in Slots /\ slot \in Nat /\ size \in Nat /\ slot < size
    BY <1>3, SlotAssumption DEF Generate, IInv, TypeOK, More, Slots
  <2>2. PICK k \in Keys \ used : fresh' = k /\ used' = used \cup {k}
    BY <1>3 DEF Generate
  <2>3. blind' = 0 => blind = 0 /\ file[slot] = None
    BY <1>3 DEF Generate, IInv, TypeOK
  <2>4. TypeOK'
    BY <1>3, <2>1, <2>2, SlotAssumption DEF Generate, IInv, TypeOK
  <2>5. blind' = 0 => held[slot] = None /\ ids[slot] = None
    BY <2>1, <2>3 DEF IInv, TypeOK
  <2> QED
    BY <1>3, <2>1, <2>2, <2>3, <2>4, <2>5 DEF Generate, IInv
<1>4. CASE Open
  <2>1. CASE Exit /\ UNCHANGED file
    BY <1>4, <2>1, ExitKeeps DEF Open
  <2>2. CASE file' = [file EXCEPT ![slot] = Torn] /\ pc' = "write" /\ UNCHANGED process
    BY <1>4, <2>2, KeyAssumption DEF Open, process, IInv, TypeOK
  <2> QED
    BY <1>4, <2>1, <2>2 DEF Open
<1>5. CASE Write
  <2>1. CASE Exit /\ UNCHANGED file
    BY <1>5, <2>1, ExitKeeps DEF Write
  <2>2. CASE file' = [file EXCEPT ![slot] = fresh] /\ pc' = "restrict" /\ UNCHANGED process
    <3>1. slot \in Slots
      BY <1>5, SlotAssumption DEF Write, IInv, TypeOK, Slots
    <3> QED
      BY <1>5, <2>2, <3>1, KeyAssumption DEF Write, process, IInv, TypeOK
  <2> QED
    BY <1>5, <2>1, <2>2 DEF Write
<1>6. CASE Restrict
  <2>1. CASE Exit
    BY <1>6, <2>1, ExitKeeps DEF Restrict
  <2>2. CASE Take(fresh)
    BY <1>6, <2>2, TakeKeeps DEF Restrict, IInv, More
  <2> QED
    BY <1>6, <2>1, <2>2 DEF Restrict
<1>7. CASE Serve
  <2>1. TypeOK'
    BY <1>7 DEF Serve, process, IInv, TypeOK
  <2>2. ASSUME blind' = 0, NEW s \in Slots, held'[s] # None
        PROVE  file'[s] = held'[s]
    BY <1>7, <2>2 DEF Serve, process, IInv, TypeOK
  <2> QED
    BY <1>7, <2>1, <2>2 DEF Serve, process, IInv
<1> QED
  BY <1>1, <1>2, <1>3, <1>4, <1>5, <1>6, <1>7 DEF LoadOrCreate

\* Every step preserves the invariant.
LEMMA NextKeeps == IInv /\ [Next]_vars => IInv'
<1> SUFFICES ASSUME IInv, [Next]_vars PROVE IInv'
  OBVIOUS
<1>1. ASSUME NEW n \in 0..MaxSlots, Start(n) PROVE IInv'
  <2>1. /\ slot = slot' /\ n \in Nat /\ pc' = "load" /\ size' = n
        /\ UNCHANGED <<fresh, ids, file, used, held, blind>>
    BY <1>1, SlotAssumption DEF Start
  <2>2. slot \in Nat /\ slot = 0
    BY <1>1, SlotAssumption DEF Start, IInv, TypeOK
  <2> QED
    BY <2>1, <2>2 DEF IInv, TypeOK
<1>2. CASE LoadOrCreate
  BY <1>2, StoreKeeps
<1>3. CASE Die
  BY <1>3, ExitKeeps DEF Die
<1>4. CASE UNCHANGED vars
  BY <1>4 DEF vars, process, IInv, TypeOK, Slots
<1> QED
  BY <1>1, <1>2, <1>3, <1>4 DEF Next

\* The invariant holds in every behaviour of load_or_create_all.
THEOREM KeysInvariance == Spec => []IInv
<1> QED
  BY InitHolds, NextKeeps, PTL DEF Spec

\* Type correctness of the key store: no slot beyond the pool is served.
THEOREM KeysTypeCorrect == Spec => []TypeOK
<1>1. IInv => TypeOK
  BY DEF IInv
<1> QED
  BY <1>1, KeysInvariance, PTL

\* A slot that was once served under an identity is never served under
\* another, across crashes, failures and changes of the pool's size.
THEOREM SlotKeepsIdentity == Spec => []IdentityKept
<1>1. IInv => IdentityKept
  BY DEF IInv, IdentityKept
<1> QED
  BY <1>1, KeysInvariance, PTL
=============================================================================
