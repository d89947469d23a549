-------------------------- MODULE AdapterTemplate ---------------------------
(***************************************************************************)
(* The adapter template (programs/adapters/adapter-template): the          *)
(* bookkeeping every adapter starts from, without a protocol behind it.    *)
(* A configuration per (mint, version), a position per (configuration,     *)
(* owner).  The handlers are written as a condition and a result on one    *)
(* position record, so that the same definition serves a direct call and a *)
(* call made by the dispatcher inside a transaction.                       *)
(***************************************************************************)
EXTENDS Integers

CONSTANTS
  Users,          \* owners of positions
  Mints,          \* mints an adapter may be configured for
  Versions,       \* configuration versions
  DefaultPubkey,  \* Pubkey::default()
  MaxU64          \* largest amount a u64 field holds

VARIABLES
  adapter_config,  \* the AdapterConfig accounts that exist, by address
  user_position    \* the UserPosition accounts that exist, by address

ConfigAddress(mint, version) == [mint |-> mint, version |-> version]
PositionAddress(configuration, owner) == [config |-> configuration, owner |-> owner]

Amounts == 0 .. MaxU64

AdapterConfig == [supported_mint: Mints, version: Versions]
UserPosition ==
  [owner: Users, deposited_amount: Amounts, shares: Amounts, last_value: Amounts]

EmptyPosition(owner) ==
  [owner |-> owner, deposited_amount |-> 0, shares |-> 0, last_value |-> 0]

TemplateInit ==
  /\ adapter_config = [a \in {} |-> {}]
  /\ user_position = [a \in {} |-> {}]

(* The account constraint `init` fails if the account exists. *)
initialize_adapter(supported_mint, version) ==
  LET address == ConfigAddress(supported_mint, version) IN
  /\ supported_mint # DefaultPubkey
  /\ address \notin DOMAIN adapter_config
  /\ adapter_config' =
       [a \in DOMAIN adapter_config \cup {address} |->
          IF a = address THEN [supported_mint |-> supported_mint, version |-> version]
          ELSE adapter_config[a]]
  /\ UNCHANGED user_position

initialize_position(owner, configuration) ==
  LET address == PositionAddress(configuration, owner) IN
  /\ configuration \in DOMAIN adapter_config
  /\ address \notin DOMAIN user_position
  /\ user_position' =
       [a \in DOMAIN user_position \cup {address} |->
          IF a = address THEN EmptyPosition(owner) ELSE user_position[a]]
  /\ UNCHANGED adapter_config

validate_mint(configuration, mint) == mint = configuration.supported_mint

(* Mutant: any signer may move any position. *)
MutOwnerUnchecked(position, owner) == TRUE
validate_owner(position, owner) == owner = position.owner

(* Mutant: the additions are not checked. *)
MutDepositUnchecked(position, configuration, owner, mint, amount) ==
  amount > 0 /\ validate_mint(configuration, mint) /\ validate_owner(position, owner)

DepositAllowed(position, configuration, owner, mint, amount) ==
  /\ amount > 0
  /\ validate_mint(configuration, mint)
  /\ validate_owner(position, owner)
  /\ position.deposited_amount + amount <= MaxU64
  /\ position.shares + amount <= MaxU64

AfterDeposit(position, amount) ==
  [position EXCEPT !.deposited_amount = @ + amount, !.shares = @ + amount,
                   !.last_value = position.deposited_amount + amount]

WithdrawAllowed(position, configuration, owner, mint, amount) ==
  /\ amount > 0
  /\ validate_mint(configuration, mint)
  /\ validate_owner(position, owner)
  /\ amount <= position.deposited_amount
  /\ amount <= position.shares

(* Mutant: last_value keeps what it was before the withdrawal. *)
MutAfterWithdrawStaleValue(position, amount) ==
  [position EXCEPT !.deposited_amount = @ - amount, !.shares = @ - amount]

AfterWithdraw(position, amount) ==
  [position EXCEPT !.deposited_amount = @ - amount, !.shares = @ - amount,
                   !.last_value = position.deposited_amount - amount]

CurrentValueAllowed(position, configuration, owner, mint) ==
  validate_mint(configuration, mint) /\ validate_owner(position, owner)

(* What current_value hands back through set_return_data. *)
current_value(position) == position.last_value
=============================================================================
