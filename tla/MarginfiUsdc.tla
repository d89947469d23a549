---------------------------- MODULE MarginfiUsdc ----------------------------
(***************************************************************************)
(* The MarginFi adapter (programs/adapters/marginfi-usdc) over the lending *)
(* protocol it calls.  The adapter keeps a configuration per (mint,        *)
(* version) and a position per (configuration, owner); MarginFi keeps      *)
(* banks, whose share value accrues interest and absorbs losses, and       *)
(* accounts with a few balance slots.  MarginFi is external: its owners    *)
(* use it without the adapter, and its governance reconfigures banks.      *)
(* Every instruction takes the accounts it is given as one record, `call`. *)
(***************************************************************************)
EXTENDS FixedPoint, FiniteSets, Sequences

CONSTANTS
  Users, Mints, Versions, Programs, Groups, DefaultPubkey,
  Oracles,          \* price oracles of banks
  Accounts,         \* MarginFi accounts
  AccountFacts,     \* what never changes of an account: program, group
  Banks,            \* MarginFi banks
  BankFacts,        \* ... of a bank: program, mint, decimals, group, vault
  BankSettings,     \* settings MarginFi's governance may give a bank
  ShareValues,      \* raw values of a share of a bank
  Slots,            \* the balance slots 1 .. n of an account
  Calls,            \* account lists an instruction may be given
  Amounts,          \* amounts asked for
  DirectShares,     \* raw shares owners may leave in a balance on their own
  MaxShares,        \* bound on the raw shares of a balance
  MaxOut            \* bound on how far withdrawals may exceed deposits

ASSUME MarginfiConstants ==
  /\ BankSettings \subseteq [state: 0 .. 2, oracle_setup: 0 .. 1,
                            oracle: {DefaultPubkey} \cup Oracles]
  /\ ShareValues \subseteq Nat /\ One \in ShareValues
  /\ Slots \subseteq Nat
  /\ Amounts \subseteq Nat
  /\ MaxShares \in Nat /\ MaxOut \in Nat
  /\ DirectShares \subseteq 0 .. MaxShares
  /\ \A call \in Calls :
       call.signer \in Users /\ call.account \in Accounts /\ call.bank \in Banks

VARIABLES
  config,    \* MarginfiUsdcConfig accounts, by address
  position,  \* MarginfiUsdcPosition accounts, by address
  bank,      \* MarginFi: settings and share value of each bank
  account,   \* MarginFi: authority and balances of each account
  event,     \* what the last step emitted
  net,       \* history: deposits less withdrawals of each position
  low        \* history: the lowest net has been

adapterVars == <<config, position>>
marginfiVars == <<bank, account>>
history == <<net, low>>
vars == <<config, position, bank, account, event, net, low>>

ConfigAddress(mint, version) == [mint |-> mint, version |-> version]
PositionAddress(configuration, owner) == [config |-> configuration, owner |-> owner]
ConfigAddresses == [mint: Mints, version: Versions]
Positions == [config: ConfigAddresses, owner: Users]

NoEvent == [kind |-> "none"]
Silent == event' = NoEvent

-----------------------------------------------------------------------------
(* MarginFi.                                                               *)

Balance == [active: BOOLEAN, bank: Banks \cup {DefaultPubkey}, shares: 0 .. MaxShares]
EmptyBalance == [active |-> FALSE, bank |-> DefaultPubkey, shares |-> 0]

ActiveIn(balances, b) == {s \in Slots : balances[s].active /\ balances[s].bank = b}
Free(balances) == {s \in Slots : ~balances[s].active}

(* The slot MarginFi uses for a bank: its active one, else some free one.  *)
SlotFor(balances, b) ==
  CHOOSE s \in IF ActiveIn(balances, b) # {} THEN ActiveIn(balances, b) ELSE Free(balances) :
    TRUE

HasSlot(balances, b) == ActiveIn(balances, b) # {} \/ Free(balances) # {}

(* A balance that falls to nothing is closed; what it held stays readable. *)
WithShares(balances, b, shares) ==
  LET slot == SlotFor(balances, b) IN
  [balances EXCEPT ![slot] =
     IF shares = 0 THEN [@ EXCEPT !.active = FALSE]
     ELSE [active |-> TRUE, bank |-> b, shares |-> shares]]

(* All that an account holds of a bank. *)
HeldIn(balances, b) ==
  LET active == ActiveIn(balances, b) IN
  IF active = {} THEN 0 ELSE balances[CHOOSE s \in active : TRUE].shares
Held(a, b) == HeldIn(account[a].balances, b)

(* Shares bought by an amount and sold for one: MarginFi rounds for itself. *)
Bought(amount, share_value) == (amount * One * One) \div share_value
Sold(amount, share_value) == (amount * One * One + share_value - 1) \div share_value

(* Both calls first accrue the interest due, to the share value `accrued`. *)
lending_account_deposit(a, b, signer, amount, accrued) ==
  LET shares == Held(a, b) + Bought(amount, accrued) IN
  /\ accrued > 0 /\ accrued >= bank[b].share_value
  /\ account[a].authority = signer
  /\ bank[b].state = 1
  /\ HasSlot(account[a].balances, b)
  /\ shares <= MaxShares
  /\ account' = [account EXCEPT ![a].balances = WithShares(@, b, shares)]
  /\ bank' = [bank EXCEPT ![b].share_value = accrued]

lending_account_withdraw(a, b, signer, amount, accrued) ==
  LET shares == Held(a, b) - Sold(amount, accrued) IN
  /\ accrued > 0 /\ accrued >= bank[b].share_value
  /\ account[a].authority = signer
  /\ bank[b].state \in {1, 2}
  /\ ActiveIn(account[a].balances, b) # {}
  /\ shares >= 0
  /\ account' = [account EXCEPT ![a].balances = WithShares(@, b, shares)]
  /\ bank' = [bank EXCEPT ![b].share_value = accrued]

(* Owners and liquidators change balances without the adapter. *)
UseMarginfi(a, b, shares) ==
  /\ HasSlot(account[a].balances, b)
  /\ shares # Held(a, b)
  /\ account' = [account EXCEPT ![a].balances = WithShares(@, b, shares)]
  /\ Silent /\ UNCHANGED <<adapterVars, bank, history>>

TransferAuthority(a, user) ==
  /\ user # account[a].authority
  /\ account' = [account EXCEPT ![a].authority = user]
  /\ Silent /\ UNCHANGED <<adapterVars, bank, history>>

(* Interest raises the value of a share, a bad debt lowers it. *)
Revalue(b, share_value) ==
  /\ share_value # bank[b].share_value
  /\ bank' = [bank EXCEPT ![b].share_value = share_value]
  /\ Silent /\ UNCHANGED <<adapterVars, account, history>>

Reconfigure(b, setting) ==
  /\ bank' = [bank EXCEPT ![b].state = setting.state,
                          ![b].oracle_setup = setting.oracle_setup,
                          ![b].oracle = setting.oracle]
  /\ bank' # bank
  /\ Silent /\ UNCHANGED <<adapterVars, account, history>>

-----------------------------------------------------------------------------
(* The adapter's accounts.                                                 *)

initialize_config(supported_mint, protocol_program_id, version) ==
  LET address == ConfigAddress(supported_mint, version) IN
  /\ supported_mint # DefaultPubkey
  /\ protocol_program_id # DefaultPubkey
  /\ address \notin DOMAIN config
  /\ config' = [a \in DOMAIN config \cup {address} |->
       IF a = address
       THEN [supported_mint |-> supported_mint, version |-> version,
             protocol_program_id |-> protocol_program_id]
       ELSE config[a]]
  /\ Silent /\ UNCHANGED <<position, marginfiVars, history>>

initialize_position(owner, configuration, marginfi_account, marginfi_bank) ==
  LET address == PositionAddress(configuration, owner) IN
  /\ configuration \in DOMAIN config
  /\ marginfi_account # DefaultPubkey
  /\ marginfi_bank # DefaultPubkey
  /\ address \notin DOMAIN position
  /\ position' = [a \in DOMAIN position \cup {address} |->
       IF a = address
       THEN [owner |-> owner, marginfi_account |-> marginfi_account,
             marginfi_bank |-> marginfi_bank,
             deposited_amount |-> 0, shares |-> 0, last_value |-> 0]
       ELSE position[a]]
  /\ net' = [a \in DOMAIN position' |-> IF a = address THEN 0 ELSE net[a]]
  /\ low' = [a \in DOMAIN position' |-> IF a = address THEN 0 ELSE low[a]]
  /\ Silent /\ UNCHANGED <<config, marginfiVars>>

-----------------------------------------------------------------------------
(* Validation.                                                             *)

(* Mutant: any signer may use a position. *)
MutOwnerUnchecked(c, p, owner, mint) == mint = c.supported_mint

validate_owner_and_mint(c, p, owner, mint) ==
  mint = c.supported_mint /\ owner = p.owner

(* Mutant: the program passed is not compared with the configured one.     *)
MutAnyProgram(c, program) == TRUE

validate_protocol_program(c, program) == program = c.protocol_program_id

(* Mutant: any bank that passes the other checks will do.                  *)
MutBankNotPinned(c, p, call) ==
  LET facts == BankFacts[call.bank]
      b == bank[call.bank] IN
  /\ call.account = p.marginfi_account
  /\ AccountFacts[call.account].program = call.program
  /\ facts.program = call.program /\ facts.mint = c.supported_mint /\ facts.decimals = 6
  /\ facts.group = call.group /\ AccountFacts[call.account].group = call.group
  /\ b.state = 1 /\ b.oracle_setup # 0 /\ b.oracle # DefaultPubkey
  /\ account[call.account].authority = p.owner

validate_protocol_state(c, p, call) ==
  LET facts == BankFacts[call.bank]
      b == bank[call.bank] IN
  /\ call.account = p.marginfi_account
  /\ call.bank = p.marginfi_bank
  /\ AccountFacts[call.account].program = call.program
  /\ facts.program = call.program
  /\ facts.mint = c.supported_mint
  /\ facts.decimals = 6
  /\ facts.group = call.group
  /\ b.state = 1
  /\ b.oracle_setup # 0
  /\ b.oracle # DefaultPubkey
  /\ AccountFacts[call.account].group = call.group
  /\ account[call.account].authority = p.owner

ValidVault(call) == call.vault = BankFacts[call.bank].vault

VaultAuthority(b, program) == [bank |-> b, program |-> program]
ValidVaultAuthority(call) == call.vault_authority = VaultAuthority(call.bank, call.program)

validate_token_account(token, token_program, mint, owner) ==
  token.program = token_program /\ token.mint = mint /\ token.owner = owner

validate_withdraw_health_accounts(call) ==
  /\ Len(call.remaining) >= 2
  /\ call.remaining[1] = call.bank
  /\ call.remaining[2] = bank[call.bank].oracle

Validated(p, call) ==
  LET c == config[p.config] IN
  /\ validate_owner_and_mint(c, position[p], call.signer, call.mint)
  /\ validate_protocol_program(c, call.program)
  /\ validate_protocol_state(c, position[p], call)

ValidTokens(p, call) ==
  validate_token_account(call.token, call.token_program,
                         config[p.config].supported_mint, call.signer)

-----------------------------------------------------------------------------
(* The instructions.                                                       *)

First(slots) == CHOOSE s \in slots : \A r \in slots : s <= r

read_asset_shares_for_bank(balances, b) ==
  LET found == {s \in Slots : balances[s].active /\ balances[s].bank = b} IN
  IF found = {} THEN 0 ELSE balances[First(found)].shares

(* read_marginfi_position, over a MarginFi account's balances and a bank.  *)
SharesIn(balances, b) == fixed_floor_to_u64(read_asset_shares_for_bank(balances, b))
ValueIn(balances, b, share_value) ==
  fixed_mul_floor_to_u64(read_asset_shares_for_bank(balances, b), share_value)
Readable(balances, b, share_value) ==
  Fits(SharesIn(balances, b)) /\ Fits(ValueIn(balances, b, share_value))

(* Mutant: the subtraction wraps around. *)
MutWrapped(amount, taken) == (amount - taken) % (MaxU64 + 1)

Saturated(amount, taken) == IF taken <= amount THEN amount - taken ELSE 0

(* Mutant: the value is taken at the share value from before the call. *)
MutShareValueBeforeCall(b) == bank[b].share_value

(* The share value as both movements read it, from the bank after the call. *)
ShareValueAfterCall(b) == bank'[b].share_value

(* What both movements write after the call, and what they emit. *)
Record(p, call, kind, amount, deposited) ==
  LET balances == account'[call.account].balances
      share_value == ShareValueAfterCall(call.bank)
      shares == SharesIn(balances, call.bank)
      value == ValueIn(balances, call.bank, share_value) IN
  /\ Readable(balances, call.bank, share_value)
  /\ position' = [position EXCEPT ![p].deposited_amount = deposited,
                                  ![p].shares = shares, ![p].last_value = value]
  /\ event' = [kind |-> kind, position |-> p, signer |-> call.signer,
               amount |-> amount, shares |-> shares, value |-> value]
  /\ UNCHANGED config

deposit(p, call, amount, accrued) ==
  /\ amount > 0
  /\ Validated(p, call) /\ ValidVault(call) /\ ValidTokens(p, call)
  /\ lending_account_deposit(call.account, call.bank, call.signer, amount, accrued)
  /\ position[p].deposited_amount + amount <= MaxU64
  /\ Record(p, call, "deposit", amount, position[p].deposited_amount + amount)
  /\ net' = [net EXCEPT ![p] = @ + amount]
  /\ UNCHANGED low

withdraw(p, call, amount, accrued) ==
  /\ amount > 0
  /\ Validated(p, call) /\ ValidVault(call) /\ ValidVaultAuthority(call)
  /\ ValidTokens(p, call)
  /\ validate_withdraw_health_accounts(call)
  /\ net[p] - amount >= -MaxOut
  /\ lending_account_withdraw(call.account, call.bank, call.signer, amount, accrued)
  /\ Record(p, call, "withdraw", amount, Saturated(position[p].deposited_amount, amount))
  /\ net' = [net EXCEPT ![p] = @ - amount]
  /\ low' = [low EXCEPT ![p] = IF net'[p] < @ THEN net'[p] ELSE @]

current_value(p, call) ==
  LET balances == account[call.account].balances
      share_value == bank[call.bank].share_value IN
  /\ Validated(p, call)
  /\ Readable(balances, call.bank, share_value)
  /\ event' = [kind |-> "value", position |-> p, signer |-> call.signer, amount |-> 0,
               shares |-> SharesIn(balances, call.bank),
               value |-> ValueIn(balances, call.bank, share_value)]
  /\ UNCHANGED <<adapterVars, marginfiVars, history>>

-----------------------------------------------------------------------------
Init ==
  /\ config = [a \in {} |-> {}]
  /\ position = [a \in {} |-> {}]
  /\ bank \in [Banks -> [state: {1}, oracle_setup: {1}, oracle: Oracles, share_value: {One}]]
  /\ account \in [Accounts -> [authority: Users, balances: [Slots -> {EmptyBalance}]]]
  /\ event = NoEvent
  /\ net = [a \in {} |-> 0]
  /\ low = [a \in {} |-> 0]

Marginfi ==
  \/ \E a \in Accounts, b \in Banks, shares \in DirectShares : UseMarginfi(a, b, shares)
  \/ \E a \in Accounts, user \in Users : TransferAuthority(a, user)
  \/ \E b \in Banks, share_value \in ShareValues : Revalue(b, share_value)
  \/ \E b \in Banks, setting \in BankSettings : Reconfigure(b, setting)

Adapter ==
  \/ \E mint \in Mints, program \in Programs, version \in Versions :
       initialize_config(mint, program, version)
  \/ \E owner \in Users, configuration \in DOMAIN config, a \in Accounts, b \in Banks :
       initialize_position(owner, configuration, a, b)
  \/ \E p \in DOMAIN position, call \in Calls :
       \/ \E amount \in Amounts, accrued \in ShareValues :
            deposit(p, call, amount, accrued) \/ withdraw(p, call, amount, accrued)
       \/ current_value(p, call)

Next == Marginfi \/ Adapter

Spec == Init /\ [][Next]_vars

-----------------------------------------------------------------------------
(* Properties.                                                             *)

Event ==
  {NoEvent} \cup
  [kind: {"deposit", "withdraw", "value"}, position: DOMAIN position, signer: Users,
   amount: Nat, shares: 0 .. MaxU64, value: 0 .. MaxU64]

(* Every account holds values of its Rust types, and an emitted event names *)
(* a position that exists with values a u64 holds.                         *)
TypeOK ==
  /\ config \in [DOMAIN config ->
       [supported_mint: Mints, version: Versions, protocol_program_id: Programs]]
  /\ position \in [DOMAIN position ->
       [owner: Users, marginfi_account: Accounts, marginfi_bank: Banks,
        deposited_amount: 0 .. MaxU64, shares: 0 .. MaxU64, last_value: 0 .. MaxU64]]
  /\ DOMAIN config \subseteq ConfigAddresses
  /\ DOMAIN position \subseteq [config: DOMAIN config, owner: Users]
  /\ bank \in [Banks -> [state: 0 .. 2, oracle_setup: 0 .. 1,
                         oracle: {DefaultPubkey} \cup Oracles, share_value: ShareValues]]
  /\ account \in [Accounts -> [authority: Users, balances: [Slots -> Balance]]]
  /\ event \in Event
  /\ net \in [DOMAIN position -> Int] /\ low \in [DOMAIN position -> Int]

(* Whatever the adapter reports, in a movement or a query, is what MarginFi *)
(* holds for the position at that moment: the shares exactly, floored, and *)
(* their value exactly or one unit short, never above.  A movement leaves  *)
(* the same two numbers in the position (lib.rs:148, 212, 238, 766-849).   *)
ReportsWhatIsHeld ==
  event.kind # "none" =>
    LET p == position[event.position]
        shares == Held(p.marginfi_account, p.marginfi_bank)
        worth == Product(shares, bank[p.marginfi_bank].share_value) IN
    /\ event.shares = shares \div One
    /\ event.value \in {worth - 1, worth}
    /\ event.kind # "value" => p.shares = event.shares /\ p.last_value = event.value

(* initialize_position takes any account and any bank and keeps them for   *)
(* good.  A position that has ever booked anything nevertheless names an   *)
(* account and a bank of the configured protocol, in one group, and the    *)
(* bank is of the configured mint: the others stay empty for ever          *)
(* (lib.rs:81, 568, 577-678).                                                   *)
FundedPositionsAreSound ==
  \A a \in DOMAIN position :
    LET p == position[a]
        c == config[a.config]
        used == AccountFacts[p.marginfi_account]
        facts == BankFacts[p.marginfi_bank] IN
    p.deposited_amount + p.shares + p.last_value > 0 =>
      /\ used.program = c.protocol_program_id /\ facts.program = c.protocol_program_id
      /\ facts.mint = c.supported_mint /\ facts.decimals = 6
      /\ used.group = facts.group

(* What deposited_amount is: deposits less withdrawals, counted from the   *)
(* lowest point they ever reached.  Subtraction saturates, so each time    *)
(* interest is withdrawn beyond the deposits the count starts again at     *)
(* zero; it is never below the net amount (lib.rs:151-154, 215).           *)
BookedFromTheLow ==
  \A a \in DOMAIN position :
    /\ position[a].deposited_amount = net[a] - low[a]
    /\ low[a] <= 0

(* The README of the adapter says that a position binds the "net deposited *)
(* amount" (marginfi-usdc/README.md:19).                                   *)
DepositedIsNet ==
  \A a \in DOMAIN position : net[a] >= 0 => position[a].deposited_amount = net[a]

(* The README of the adapter says that a value is the shares multiplied by *)
(* the share value, floored to native units (marginfi-usdc/README.md:46).  *)
ValueIsFloored ==
  event.kind # "none" =>
    LET p == position[event.position] IN
    event.value = Product(Held(p.marginfi_account, p.marginfi_bank),
                          bank[p.marginfi_bank].share_value)

(* An instruction of the adapter moves one balance only: that of the       *)
(* position's bank in the position's account, whose authority, the signer  *)
(* and the position's owner are the same (lib.rs:493, 577-606, 660-677).   *)
MovesOnlyTheOwnersBalance ==
  [][event'.kind # "none" =>
       LET p == position'[event'.position] IN
       \A a \in Accounts, b \in Banks :
         (\E s \in Slots : /\ account'[a].balances[s] # account[a].balances[s]
                           /\ account'[a].balances[s].bank = b)
         => /\ a = p.marginfi_account /\ b = p.marginfi_bank
            /\ account[a].authority = p.owner /\ event'.signer = p.owner]_vars

Booked == [a \in DOMAIN position |-> position[a].deposited_amount]

Abstract == INSTANCE YieldAdapter
  WITH Settles <- TRUE, MaxAmount <- MaxU64, booked <- Booked, notice <- event

(* The adapter keeps the promise of every adapter: amounts move only by    *)
(* their owner's announced instructions, never by what the bank does.      *)
ImplementsYieldAdapter == Abstract!Spec
=============================================================================
