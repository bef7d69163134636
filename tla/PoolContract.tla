---------------------------- MODULE PoolContract ----------------------------
(***************************************************************************)
(* What the pool of workers promises the run loop, without containers,     *)
(* commands or entries: a slot is served or not; a round in which nothing  *)
(* goes wrong leaves every slot served, and they stay so until something   *)
(* goes wrong or a job that ran out of time has its own slot replaced.     *)
(* Outside rounds and replacements no slot comes to be served.             *)
(***************************************************************************)
EXTENDS Naturals

CONSTANTS
  Slots,         \* the configured slots
  None           \* no slot

VARIABLES
  served,        \* the slots with a running worker and an entry
  phase,         \* "down", "idle", in a "round", "settled" after it, in a "respawn"
  hand,          \* the slot being replaced
  smooth         \* nothing has gone wrong since the last round began

vars == <<served, phase, hand, smooth>>

TypeOK ==
  /\ served \subseteq Slots
  /\ phase \in {"down", "idle", "round", "settled", "respawn"}
  /\ hand \in Slots \cup {None}
  /\ smooth \in BOOLEAN

Init ==
  /\ served \in SUBSET Slots
  /\ phase = "down" /\ hand = None /\ smooth = FALSE

Boot ==
  /\ phase = "down" /\ phase' = "idle"
  /\ UNCHANGED <<served, hand, smooth>>

Begin ==
  /\ phase = "idle" /\ phase' = "round"
  /\ smooth' = TRUE
  /\ UNCHANGED <<served, hand>>

Serve ==
  /\ phase = "round"
  /\ served' \in {more \in SUBSET Slots : served \subseteq more}
  /\ UNCHANGED <<phase, hand, smooth>>

Settle ==
  /\ phase = "round" /\ phase' = "settled"
  /\ smooth => served = Slots
  /\ UNCHANGED <<served, hand, smooth>>

Poll ==
  /\ phase = "settled" /\ phase' = "idle"
  /\ UNCHANGED <<served, hand, smooth>>

Respawn(s) ==
  /\ phase = "settled" /\ phase' = "respawn"
  /\ hand' = s
  /\ UNCHANGED <<served, smooth>>

Replace ==
  /\ phase = "respawn"
  /\ served' \in {served \ {hand}, served \cup {hand}}
  /\ UNCHANGED <<phase, hand, smooth>>

GoOn ==
  /\ phase = "respawn" /\ phase' = "idle"
  /\ hand' = None
  /\ UNCHANGED <<served, smooth>>

(***************************************************************************)
(* Something goes wrong, or has gone wrong before: slots are lost in any   *)
(* phase, and won only where they may be.                                  *)
(***************************************************************************)
Gain ==
  CASE phase = "round"   -> Slots
    [] phase = "respawn" -> {hand}
    [] OTHER             -> {}

Trouble ==
  /\ smooth' = FALSE
  /\ served' \in SUBSET (served \cup Gain)
  /\ UNCHANGED <<phase, hand>>

\* A failure that ends the process, the round or the replacement.
Setback ==
  /\ smooth' = FALSE
  /\ phase # "down"
  /\ \/ phase' = "down"
     \/ phase \in {"idle", "round"} /\ phase' = "settled"
     \/ phase = "respawn" /\ phase' = "idle"
  /\ hand' = None
  /\ UNCHANGED served

GetsOn == Begin \/ Settle \/ Poll \/ GoOn \/ Setback

Next ==
  \/ Boot \/ Serve \/ Replace \/ Trouble \/ GetsOn
  \/ \E s \in Slots : Respawn(s)

\* The process is started again, and whatever it does comes to an end.
Spec == Init /\ [][Next]_vars /\ WF_vars(Boot) /\ WF_vars(GetsOn)
=============================================================================
