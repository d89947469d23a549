----------------------------- MODULE Allowlist ------------------------------
(***************************************************************************)
(* What the registry promises its readers, without accounts, slots, events *)
(* or metadata: one governor at a time decides which items are admitted.   *)
(* An item is proposed once, may be admitted and withdrawn any number of   *)
(* times, and once retired is out for good.                                *)
(***************************************************************************)
CONSTANTS
  Keys,   \* those who may govern
  NoKey,  \* the key of nobody
  Items   \* what may be admitted

VARIABLES
  governor,  \* who governs, NoKey before the list is founded
  actor,     \* who took the last step
  proposed,  \* items ever put on the list
  admitted,  \* items in force now
  retired    \* items struck off for good

vars == <<governor, actor, proposed, admitted, retired>>

Init ==
  /\ governor = NoKey /\ actor = NoKey
  /\ proposed = {} /\ admitted = {} /\ retired = {}

Found(key) ==
  /\ governor = NoKey /\ key # NoKey
  /\ governor' = key /\ actor' = key
  /\ UNCHANGED <<proposed, admitted, retired>>

(* Every later step is taken by whoever governs when it happens. *)
ByGovernor == governor # NoKey /\ actor' = governor

HandOver(key) ==
  /\ ByGovernor /\ key # NoKey
  /\ governor' = key
  /\ UNCHANGED <<proposed, admitted, retired>>

Propose(item) ==
  /\ ByGovernor /\ item \notin proposed
  /\ proposed' = proposed \cup {item}
  /\ UNCHANGED <<governor, admitted, retired>>

Admit(item) ==
  /\ ByGovernor /\ item \in proposed \ retired
  /\ admitted' = admitted \cup {item}
  /\ UNCHANGED <<governor, proposed, retired>>

Suspend(item) ==
  /\ ByGovernor /\ item \in admitted
  /\ admitted' = admitted \ {item}
  /\ UNCHANGED <<governor, proposed, retired>>

Retire(item) ==
  /\ ByGovernor /\ item \in proposed \ retired
  /\ admitted' = admitted \ {item}
  /\ retired' = retired \cup {item}
  /\ UNCHANGED <<governor, proposed>>

(* A step that changes nothing a reader of the list can see. *)
Annotate == ByGovernor /\ UNCHANGED <<governor, proposed, admitted, retired>>

Next ==
  \/ \E key \in Keys : Found(key) \/ HandOver(key)
  \/ \E item \in Items : Propose(item) \/ Admit(item) \/ Suspend(item) \/ Retire(item)
  \/ Annotate

Spec == Init /\ [][Next]_vars

(* What follows from the list alone: only proposed items are in force, and *)
(* nothing is both in force and retired.                                   *)
Consistent ==
  /\ admitted \cup retired \subseteq proposed
  /\ admitted \cap retired = {}
=============================================================================
