---------------------------- MODULE YieldAdapter ----------------------------
(***************************************************************************)
(* What every adapter of the system promises about the amounts it books,   *)
(* whatever protocol it puts them in: positions are opened once and never  *)
(* closed, only the owner of a position moves its amount, each movement is *)
(* announced with its amount, a withdrawal takes its amount off and stops  *)
(* at zero (unless it is only a request, to be settled by the protocol     *)
(* later), and nothing the protocol does by itself moves what is booked.   *)
(***************************************************************************)
EXTENDS Integers

CONSTANTS
  Positions,  \* addresses of positions, records with a field owner
  Settles,    \* whether a withdrawal is taken off at once
  MaxAmount   \* the largest amount that can be booked

VARIABLES
  booked,  \* the amount booked for each open position
  notice   \* what the last step announced: kind, position, signer, amount

Less(amount, taken) == IF taken <= amount THEN amount - taken ELSE 0

Init == booked = [p \in {} |-> 0] /\ notice.kind = "none"

Open(p) ==
  /\ p \notin DOMAIN booked
  /\ booked' = [q \in DOMAIN booked \cup {p} |-> IF q = p THEN 0 ELSE booked[q]]
  /\ notice'.kind = "none"

ByOwner(p) == notice'.position = p /\ notice'.signer = p.owner

Deposit(p) ==
  /\ p \in DOMAIN booked
  /\ notice'.kind = "deposit" /\ ByOwner(p) /\ notice'.amount > 0
  /\ booked[p] + notice'.amount <= MaxAmount
  /\ booked' = [booked EXCEPT ![p] = @ + notice'.amount]

Withdraw(p) ==
  /\ p \in DOMAIN booked
  /\ notice'.kind = "withdraw" /\ ByOwner(p) /\ notice'.amount > 0
  /\ booked' = [booked EXCEPT ![p] = IF Settles THEN Less(@, notice'.amount) ELSE @]

Query(p) ==
  /\ p \in DOMAIN booked
  /\ notice'.kind = "value" /\ ByOwner(p)
  /\ UNCHANGED booked

Elsewhere == notice'.kind = "none" /\ UNCHANGED booked

Next ==
  \/ Elsewhere
  \/ \E p \in Positions : Open(p) \/ Deposit(p) \/ Withdraw(p) \/ Query(p)

Spec == Init /\ [][Next]_<<booked, notice>>
=============================================================================
