----------------------------- MODULE KaminoUsdc -----------------------------
(***************************************************************************)
(* The Kamino adapter (programs/adapters/kamino-usdc).  A position is      *)
(* bound to a reserve and to the owner's own collateral token account; its *)
(* shares are collateral tokens, redeemable at the reserve's exchange      *)
(* rate.  External: Kamino, whose reserves earn interest, keep fees of it  *)
(* in 60-bit fractions, lend out and lose, and whose users also come       *)
(* without the adapter; and the token program.                             *)
(***************************************************************************)
EXTENDS SplTokens

CONSTANTS
  One,           \* 2 ^ FRACTIONAL_BITS, the unit of a scaled fraction
  Reserves,      \* Kamino reserves
  Used,          \* reserves that are also used without the adapter
  ReserveFacts,  \* ... program, market, mints, supply vault, token program
  Accruals,      \* interest a reserve may earn at once, and the fees of it
  Losses,        \* scaled debts that may be written off at once
  MaxSf,         \* bound on scaled fractions
  SYSVAR,        \* the instructions sysvar
  Calls          \* account lists an instruction may be given

ASSUME KaminoConstants ==
  /\ Settles /\ Holders = Users /\ Used \subseteq Reserves
  /\ One \in Nat \ {0} /\ MaxSf \in Nat
  /\ Accruals \subseteq [interest: Nat, protocol: Nat, referrer: Nat, pending: Nat]
  /\ \A a \in Accruals : a.protocol + a.referrer + a.pending <= a.interest
  /\ Losses \subseteq Nat
  /\ \A call \in Calls : call.signer \in Users /\ call.reserve \in Reserves
                         /\ call.collateral \in TokenAccounts

VARIABLE reserve  \* Kamino: liquidity, debts, fees and collateral supply of each

vars == <<config, position, event, tokens, reserve>>

-----------------------------------------------------------------------------
(* Kamino.                                                                 *)

Reserve == [available: U64, borrowed: 0 .. MaxSf, protocol_fees: 0 .. MaxSf,
            referrer_fees: 0 .. MaxSf, pending_fees: 0 .. MaxSf, mint_supply: U64]

(* What a reserve is worth to its depositors, exactly, scaled by One. *)
Exact(v) == v.available * One + v.borrowed
              - v.protocol_fees - v.referrer_fees - v.pending_fees

Sound(v) == v \in Reserve /\ Exact(v) >= 0

Accrued(v, accrual) ==
  [v EXCEPT !.borrowed = @ + accrual.interest,
            !.protocol_fees = @ + accrual.protocol,
            !.referrer_fees = @ + accrual.referrer,
            !.pending_fees = @ + accrual.pending]

(* Interest is earned on debts only. *)
MayAccrue(v, accrual) ==
  (accrual.interest > 0 => v.borrowed > 0) /\ Sound(Accrued(v, accrual))

(* The exchange rate is exact, both results are rounded down. *)
Minted(v, amount) ==
  IF v.mint_supply = 0 \/ Exact(v) = 0 THEN amount
  ELSE (amount * v.mint_supply * One) \div Exact(v)

Paid(v, collateral) ==
  IF v.mint_supply = 0 \/ Exact(v) = 0 THEN collateral
  ELSE (collateral * Exact(v)) \div (v.mint_supply * One)

(* Both calls first accrue the interest due. *)
deposit_reserve_liquidity(r, t, amount, accrual) ==
  LET v == Accrued(reserve[r], accrual) IN
  /\ MayAccrue(reserve[r], accrual)
  /\ TokenFacts[t].mint = ReserveFacts[r].collateral_mint
  /\ v.mint_supply + Minted(v, amount) <= MaxU64
  /\ v.available + amount <= MaxU64
  /\ Mint(t, Minted(v, amount))
  /\ reserve' = [reserve EXCEPT ![r] =
       [v EXCEPT !.available = @ + amount, !.mint_supply = @ + Minted(v, amount)]]

redeem_reserve_collateral(r, t, signer, collateral, accrual) ==
  LET v == Accrued(reserve[r], accrual) IN
  /\ MayAccrue(reserve[r], accrual)
  /\ TokenFacts[t].mint = ReserveFacts[r].collateral_mint
  /\ Paid(v, collateral) <= v.available
  /\ collateral <= v.mint_supply
  /\ Burn(t, signer, collateral)
  /\ reserve' = [reserve EXCEPT ![r] =
       [v EXCEPT !.available = @ - Paid(v, collateral), !.mint_supply = @ - collateral]]

UseKamino(r, t, amount) ==
  /\ amount > 0
  /\ \E accrual \in Accruals :
       \/ deposit_reserve_liquidity(r, t, amount, accrual)
       \/ redeem_reserve_collateral(r, t, tokens[t].owner, amount, accrual)

Becomes(r, v) == Sound(v) /\ reserve' = [reserve EXCEPT ![r] = v] /\ UNCHANGED tokens

Refresh(r, accrual) ==
  MayAccrue(reserve[r], accrual) /\ Becomes(r, Accrued(reserve[r], accrual))

Borrow(r, amount) ==
  /\ amount <= reserve[r].available
  /\ Becomes(r, [reserve[r] EXCEPT !.available = @ - amount, !.borrowed = @ + amount * One])

Repay(r, amount) ==
  /\ amount * One <= reserve[r].borrowed
  /\ Becomes(r, [reserve[r] EXCEPT !.available = @ + amount, !.borrowed = @ - amount * One])

WriteOff(r, loss) ==
  /\ loss <= reserve[r].borrowed
  /\ Becomes(r, [reserve[r] EXCEPT !.borrowed = @ - loss])

-----------------------------------------------------------------------------
(* Conversions.                                                            *)

scaled_fraction_floor(value) == value \div One

total_supply(fields) ==
  fields.available + scaled_fraction_floor(fields.borrowed)
    - scaled_fraction_floor(fields.protocol_fees)
    - scaled_fraction_floor(fields.referrer_fees)
    - scaled_fraction_floor(fields.pending_fees)

(* Its subtractions are checked: fees may exceed what a reserve has left.  *)
Computes(fields) == total_supply(fields) >= 0

OneToOne(fields) == fields.mint_supply = 0 \/ total_supply(fields) = 0

collateral_to_liquidity(collateral, fields) ==
  IF OneToOne(fields) THEN collateral
  ELSE (collateral * total_supply(fields)) \div fields.mint_supply

(* Mutant: the collateral for an amount is rounded down. *)
MutCollateralFloor(amount, fields) ==
  IF OneToOne(fields) THEN amount
  ELSE (amount * fields.mint_supply) \div total_supply(fields)

liquidity_to_collateral_ceil(amount, fields) ==
  IF OneToOne(fields) THEN amount
  ELSE (amount * fields.mint_supply + total_supply(fields) - 1) \div total_supply(fields)

-----------------------------------------------------------------------------
(* Validation.                                                             *)

validate_protocol_program(p, program) == program = config[p.config].protocol_program_id

(* Mutant: the reserve may be of any mint. *)
MutAnyMint(p, call) ==
  call.reserve = position[p].place.reserve /\ ReserveFacts[call.reserve].program = call.program

validate_reserve_common(p, call) ==
  /\ call.reserve = position[p].place.reserve
  /\ ReserveFacts[call.reserve].program = call.program
  /\ ReserveFacts[call.reserve].mint = config[p.config].supported_mint

MarketAuthority(market, program) == [market |-> market, program |-> program]

validate_market_accounts(call) ==
  /\ call.market = ReserveFacts[call.reserve].market
  /\ call.market_authority = MarketAuthority(call.market, call.program)

validate_reserve_vault_accounts(call) ==
  LET facts == ReserveFacts[call.reserve] IN
  /\ call.liquidity_mint = facts.mint
  /\ call.liquidity_supply = facts.liquidity_supply
  /\ call.collateral_mint = facts.collateral_mint
  /\ call.liquidity_program = facts.token_program

(* Mutant: the collateral account need not be the position's. *)
MutAnyCollateral(p, call) ==
  /\ TokenFacts[call.collateral].mint = ReserveFacts[call.reserve].collateral_mint
  /\ tokens[call.collateral].owner = call.signer

(* validate_token_account_with_owner_only, and the position's account. *)
ValidCollateral(p, call) ==
  /\ TokenFacts[call.collateral].mint = ReserveFacts[call.reserve].collateral_mint
  /\ tokens[call.collateral].owner = call.signer
  /\ call.collateral = position[p].place.collateral

validate_value_accounts(p, call) ==
  /\ validate_owner_and_mint(p, call.signer, call.mint)
  /\ validate_protocol_program(p, call.program)
  /\ validate_reserve_common(p, call)
  /\ ValidCollateral(p, call)

(* The user's USDC account only needs to be the signer's, whatever it holds. *)
ValidLiquidity(p, call) ==
  call.liquidity = [program |-> call.liquidity_program,
                    mint |-> config[p.config].supported_mint, owner |-> call.signer]

validate_movement_accounts(p, call) ==
  /\ validate_value_accounts(p, call)
  /\ validate_market_accounts(call)
  /\ validate_reserve_vault_accounts(call)
  /\ TokenFacts[call.collateral].program = call.collateral_program
  /\ ValidLiquidity(p, call)
  /\ call.sysvar = SYSVAR

-----------------------------------------------------------------------------
(* The instructions.                                                       *)

Places == [reserve: Reserves, collateral: TokenAccounts]

initialize_config(supported_mint, protocol_program_id, version) ==
  /\ supported_mint # DefaultPubkey /\ protocol_program_id # DefaultPubkey
  /\ CreateConfig(supported_mint, protocol_program_id, version)
  /\ UNCHANGED <<tokens, reserve>>

initialize_position(owner, configuration, place) ==
  /\ place.reserve # DefaultPubkey /\ place.collateral # DefaultPubkey
  /\ CreatePosition(owner, configuration, place)
  /\ UNCHANGED <<tokens, reserve>>

(* Mutant: the value is taken from the fields read before the call. *)
MutFieldsBeforeCall(r) == reserve[r]

updated_reserve_fields(r) == reserve'[r]

deposit(p, call, amount, accrual) ==
  /\ amount > 0
  /\ validate_movement_accounts(p, call)
  /\ deposit_reserve_liquidity(call.reserve, call.collateral, amount, accrual)
  /\ Computes(updated_reserve_fields(call.reserve))
  /\ LET shares == tokens'[call.collateral].amount IN
     RecordDeposit(p, call.signer, amount, shares,
                   collateral_to_liquidity(shares, updated_reserve_fields(call.reserve)))

withdraw(p, call, amount, accrual) ==
  /\ amount > 0
  /\ validate_movement_accounts(p, call)
  /\ LET collateral == liquidity_to_collateral_ceil(amount, reserve[call.reserve]) IN
     /\ Computes(reserve[call.reserve]) /\ Fits(collateral)
     /\ redeem_reserve_collateral(call.reserve, call.collateral, call.signer, collateral, accrual)
  /\ Computes(updated_reserve_fields(call.reserve))
  /\ LET shares == tokens'[call.collateral].amount IN
     RecordWithdraw(p, call.signer, amount, shares,
                    collateral_to_liquidity(shares, updated_reserve_fields(call.reserve)))

current_value(p, call) ==
  /\ validate_value_accounts(p, call)
  /\ Computes(reserve[call.reserve])
  /\ LET shares == tokens[call.collateral].amount IN
     Report(p, call.signer, shares, collateral_to_liquidity(shares, reserve[call.reserve]))
  /\ UNCHANGED <<tokens, reserve>>

-----------------------------------------------------------------------------
EmptyReserve == [available |-> 0, borrowed |-> 0, protocol_fees |-> 0,
                 referrer_fees |-> 0, pending_fees |-> 0, mint_supply |-> 0]

Init ==
  /\ NoAccounts
  /\ tokens \in InitialTokens /\ \A t \in TokenAccounts : tokens[t].amount = 0
  /\ reserve = [r \in Reserves |-> EmptyReserve]

Kamino ==
  \/ \E r \in Used :
       \/ \E t \in TokenAccounts, amount \in Amounts : UseKamino(r, t, amount)
       \/ \E accrual \in Accruals : Refresh(r, accrual)
       \/ \E amount \in Amounts : Borrow(r, amount) \/ Repay(r, amount)
       \/ \E loss \in Losses : WriteOff(r, loss)
  \/ UseTokens /\ UNCHANGED reserve

Adapter ==
  \/ \E mint \in Mints, program \in Programs, version \in Versions :
       initialize_config(mint, program, version)
  \/ \E owner \in Users, configuration \in DOMAIN config, place \in Places :
       initialize_position(owner, configuration, place)
  \/ \E p \in DOMAIN position, call \in Calls :
       \/ \E amount \in Amounts, accrual \in Accruals :
            deposit(p, call, amount, accrual) \/ withdraw(p, call, amount, accrual)
       \/ current_value(p, call)

Next == (Kamino /\ Elsewhere) \/ Adapter

Spec == Init /\ [][Next]_vars

-----------------------------------------------------------------------------
(* Properties.                                                             *)

(* Every account has values of its type. *)
TypeOK ==
  /\ AccountsTypeOK(Places) /\ TokensTypeOK
  /\ reserve \in [Reserves -> Reserve]

(* Whatever the adapter reports is what the position's collateral is worth *)
(* at the reserve's rate right then, also after a call that accrued        *)
(* interest: each of the four floored fractions and the last division may  *)
(* be off by less than a unit, no more.  Only a reserve without collateral *)
(* or worth less than a unit is taken one to one (lib.rs:150-157, 223-228, *)
(* 823-856).                                                               *)
ReportsWithinRounding ==
  event.kind # "none" =>
    LET place == position[event.position].place
        fields == reserve[place.reserve]
        scaled == One * fields.mint_supply IN
    /\ event.shares = tokens[place.collateral].amount
    /\ IF OneToOne(fields)
       THEN event.value = event.shares
       ELSE /\ event.value * scaled <= event.shares * (Exact(fields) + 3 * (One - 1))
            /\ event.shares * (Exact(fields) - (One - 1)) < (event.value + 1) * scaled

(* What a withdrawal takes from the position's collateral and what Kamino  *)
(* pays out for it.                                                        *)
Burnt(p) == LET t == position[p].place.collateral IN tokens[t].amount - tokens'[t].amount
PaidOut(p) ==
  LET r == position[p].place.reserve IN reserve[r].available - reserve'[r].available

WholeFees(fields) ==
  /\ fields.protocol_fees % One = 0
  /\ fields.referrer_fees % One = 0
  /\ fields.pending_fees % One = 0

(* The collateral a withdrawal redeems is sized on the reserve as it was   *)
(* before the call.  It is the least that covers the amount at that rate,  *)
(* and whatever interest the call accrues first, the owner is paid at      *)
(* least the amount, provided no fee has a fraction (lib.rs:181-182,       *)
(* 858-874).                                                               *)
WithdrawalsPay ==
  [][event'.kind = "withdraw" =>
       LET p == event'.position
           fields == reserve[position[p].place.reserve] IN
       ~ OneToOne(fields) =>
         /\ (Burnt(p) - 1) * total_supply(fields) < event'.amount * fields.mint_supply
         /\ WholeFees(fields) => PaidOut(p) >= event'.amount]_vars

(* The specification of adapters says that a withdrawal must atomically    *)
(* return its amount of the supported mint to the owner (SPEC.md:367).     *)
WithdrawalReturnsAmount ==
  [][event'.kind = "withdraw" => PaidOut(event'.position) >= event'.amount]_vars

(* Collateral tokens move by an instruction of the adapter only in the     *)
(* account the position is bound to, which its owner owns, and down only   *)
(* in a withdrawal (lib.rs:537-546, 592-634).                              *)
MovesOnlyTheOwnersCollateral ==
  [][event'.kind # "none" =>
       \A t \in TokenAccounts : tokens'[t] # tokens[t] =>
         /\ t = position[event'.position].place.collateral
         /\ tokens[t].owner = event'.position.owner /\ tokens'[t].owner = tokens[t].owner
         /\ tokens'[t].amount < tokens[t].amount => event'.kind = "withdraw"]_vars

(* initialize_position takes any two accounts and keeps them for good.  A  *)
(* position that ever booked or reported to itself anything nevertheless   *)
(* has a reserve of the configured program and mint and an account of that *)
(* reserve's collateral (lib.rs:77-98, 666-691, 760-777).                  *)
FundedPositionsAreSound ==
  \A p \in DOMAIN position :
    LET facts == ReserveFacts[position[p].place.reserve]
        c == config[p.config] IN
    Funded(p) =>
      /\ facts.program = c.protocol_program_id /\ facts.mint = c.supported_mint
      /\ TokenFacts[position[p].place.collateral].mint = facts.collateral_mint
=============================================================================
