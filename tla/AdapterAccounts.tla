-------------------------- MODULE AdapterAccounts ---------------------------
(***************************************************************************)
(* The accounts that the protocol adapters keep, each in the same way: a   *)
(* configuration per (mint, version), a position per (configuration,       *)
(* owner) with the protocol accounts it is bound to, its `place`, and an   *)
(* event for each movement and query.  An adapter adds its protocol, its   *)
(* checks, and what a position is worth there.                             *)
(***************************************************************************)
EXTENDS Integers

CONSTANTS
  Users, Mints, Versions, Programs, DefaultPubkey,
  Settles,  \* whether a withdrawal is taken off deposited_amount at once
  MaxU64    \* largest amount a u64 field holds

ASSUME AccountsConstants == Settles \in BOOLEAN /\ MaxU64 \in Nat

VARIABLES
  config,    \* configuration accounts, by address
  position,  \* position accounts, by address
  event      \* what the last step emitted

ConfigAddress(mint, version) == [mint |-> mint, version |-> version]
PositionAddress(configuration, owner) == [config |-> configuration, owner |-> owner]
ConfigAddresses == [mint: Mints, version: Versions]
Positions == [config: ConfigAddresses, owner: Users]

U64 == 0 .. MaxU64
NoEvent == [kind |-> "none"]
Silent == event' = NoEvent

NoAccounts ==
  /\ config = [a \in {} |-> {}]
  /\ position = [a \in {} |-> {}]
  /\ event = NoEvent

(* The account constraint `init` fails if the account exists. *)
CreateConfig(supported_mint, protocol_program_id, version) ==
  LET address == ConfigAddress(supported_mint, version) IN
  /\ address \notin DOMAIN config
  /\ config' = [a \in DOMAIN config \cup {address} |->
       IF a = address
       THEN [supported_mint |-> supported_mint, version |-> version,
             protocol_program_id |-> protocol_program_id]
       ELSE config[a]]
  /\ Silent /\ UNCHANGED position

CreatePosition(owner, configuration, place) ==
  LET address == PositionAddress(configuration, owner) IN
  /\ configuration \in DOMAIN config
  /\ address \notin DOMAIN position
  /\ position' = [a \in DOMAIN position \cup {address} |->
       IF a = address
       THEN [owner |-> owner, place |-> place,
             deposited_amount |-> 0, shares |-> 0, last_value |-> 0]
       ELSE position[a]]
  /\ Silent /\ UNCHANGED config

(* Mutant: any signer may use a position. *)
MutOwnerUnchecked(p, owner, mint) == mint = config[p.config].supported_mint

validate_owner_and_mint(p, owner, mint) ==
  mint = config[p.config].supported_mint /\ owner = position[p].owner

Saturated(amount, taken) == IF taken <= amount THEN amount - taken ELSE 0

(* Mutant: the conversion to u64 is taken to succeed. *)
MutAlwaysFits(value) == TRUE

Fits(value) == value \in U64

(* What a movement writes after the protocol's call, and what it emits.    *)
Record(p, signer, kind, amount, deposited, shares, value) ==
  /\ Fits(shares) /\ Fits(value) /\ Fits(deposited)
  /\ position' = [position EXCEPT ![p].deposited_amount = deposited,
                                  ![p].shares = shares, ![p].last_value = value]
  /\ event' = [kind |-> kind, position |-> p, signer |-> signer,
               amount |-> amount, shares |-> shares, value |-> value]
  /\ UNCHANGED config

RecordDeposit(p, signer, amount, shares, value) ==
  Record(p, signer, "deposit", amount, position[p].deposited_amount + amount, shares, value)

(* Mutant: a withdrawal leaves the booked amount alone. *)
MutRecordNothingTaken(p, signer, amount, shares, value) ==
  Record(p, signer, "withdraw", amount, position[p].deposited_amount, shares, value)

RecordWithdraw(p, signer, amount, shares, value) ==
  Record(p, signer, "withdraw", amount,
         IF Settles THEN Saturated(position[p].deposited_amount, amount)
         ELSE position[p].deposited_amount,
         shares, value)

Report(p, signer, shares, value) ==
  /\ Fits(shares) /\ Fits(value)
  /\ event' = [kind |-> "value", position |-> p, signer |-> signer,
               amount |-> 0, shares |-> shares, value |-> value]
  /\ UNCHANGED <<config, position>>

(* A step of the protocol, or of someone who uses it directly. *)
Elsewhere == Silent /\ UNCHANGED <<config, position>>

-----------------------------------------------------------------------------
Event ==
  {NoEvent} \cup
  [kind: {"deposit", "withdraw", "value"}, position: DOMAIN position, signer: Users,
   amount: Nat, shares: U64, value: U64]

(* Every account and every event has values of its Rust types. *)
AccountsTypeOK(places) ==
  /\ config \in [DOMAIN config ->
       [supported_mint: Mints, version: Versions, protocol_program_id: Programs]]
  /\ position \in [DOMAIN position ->
       [owner: Users, place: places, deposited_amount: U64, shares: U64, last_value: U64]]
  /\ DOMAIN config \subseteq ConfigAddresses
  /\ DOMAIN position \subseteq [config: DOMAIN config, owner: Users]
  /\ event \in Event

(* Funded: something was booked or found for the position at some time. *)
Funded(p) ==
  position[p].deposited_amount + position[p].shares + position[p].last_value > 0

Booked == [a \in DOMAIN position |-> position[a].deposited_amount]

Abstract == INSTANCE YieldAdapter
  WITH MaxAmount <- MaxU64, booked <- Booked, notice <- event

(* An adapter keeps the promise of every adapter: booked amounts move only *)
(* by their owner's announced instructions, by the amount announced, and   *)
(* never by what the protocol or another user does (validate_owner_and_mint *)
(* and the writes after the call in each lib.rs).                          *)
ImplementsYieldAdapter == Abstract!Spec
=============================================================================
