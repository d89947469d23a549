----------------------------- MODULE JupiterLp ------------------------------
(***************************************************************************)
(* The Jupiter adapter (programs/adapters/jupiter-lp).  A position is      *)
(* bound to the JLP pool, to its USDC custody and to the owner's own JLP   *)
(* account; its shares are JLP, valued at the assets under management that *)
(* the pool account states.  External: the perpetuals program, which fees, *)
(* trades and prices let mint and pay at other rates than the quoted one,  *)
(* and whose users also come without the adapter; and the token program.   *)
(***************************************************************************)
EXTENDS SplTokens

CONSTANTS
  JUPITER_PERPS_PROGRAM_ID, TOKEN_PROGRAM_ID, JLP_POOL, JLP_USDC_CUSTODY, JLP_MINT,
  JLP_USDC_DOVES_AG_PRICE_ACCOUNT,
  PoolFacts,     \* program, custodies and JLP mint of each pool
  CustodyFacts,  \* program, pool, mint, vault and price accounts of each custody
  Listed,        \* pools in the list of the perpetuals account
  Aums,          \* what the pool may state to manage
  Calls          \* account lists an instruction may be given

ASSUME JupiterConstants ==
  /\ Settles /\ Holders = Users
  /\ Aums \subseteq Nat /\ 0 \in Aums
  /\ \A call \in Calls : call.signer \in Users /\ call.lp \in TokenAccounts
                         /\ call.pool \in DOMAIN PoolFacts
                         /\ call.custody \in DOMAIN CustodyFacts

VARIABLE pool  \* the JLP pool: assets under management, supply of JLP

vars == <<config, position, event, tokens, pool>>

BPS_DENOMINATOR == 10000
DEPOSIT_MIN_OUT_BPS == 9500
WITHDRAW_BURN_BUFFER_BPS == 10100

-----------------------------------------------------------------------------
(* The perpetuals program.  It keeps to the bound it is given, no more.    *)

Pool == [aum: Aums, supply: U64]

add_liquidity2(t, min_lp_amount_out, minted, aum) ==
  /\ minted >= min_lp_amount_out
  /\ TokenFacts[t].mint = JLP_MINT
  /\ pool.supply + minted <= MaxU64
  /\ Mint(t, minted)
  /\ pool' = [aum |-> aum, supply |-> pool.supply + minted]

(* Pays at least what the caller insists on, or fails. *)
remove_liquidity2(t, signer, lp_amount_in, aum) ==
  /\ TokenFacts[t].mint = JLP_MINT
  /\ lp_amount_in <= pool.supply
  /\ Burn(t, signer, lp_amount_in)
  /\ pool' = [aum |-> aum, supply |-> pool.supply - lp_amount_in]

(* Prices, trades and fees change what the pool manages. *)
Revalue(aum) == pool' = [pool EXCEPT !.aum = aum] /\ UNCHANGED tokens

UseJupiter ==
  \E aum \in Aums :
    \/ Revalue(aum)
    \/ \E t \in TokenAccounts, amount \in Amounts :
         /\ amount > 0
         /\ \/ add_liquidity2(t, 0, amount, aum)
            \/ remove_liquidity2(t, tokens[t].owner, amount, aum)

-----------------------------------------------------------------------------
(* Conversions.                                                            *)

Ceiling(n, d) == (n + d - 1) \div d

lp_to_usdc_floor(lp, aum, supply) ==
  IF supply = 0 THEN 0 ELSE (lp * aum) \div supply

usdc_to_lp_floor(amount, aum, supply) ==
  IF supply = 0 \/ aum = 0 THEN amount ELSE (amount * supply) \div aum

usdc_to_lp_ceil(amount, aum, supply) ==
  IF supply = 0 \/ aum = 0 THEN amount ELSE Ceiling(amount * supply, aum)

apply_bps_floor(value, bps) == (value * bps) \div BPS_DENOMINATOR

apply_bps_ceil(value, bps) == Ceiling(value * bps, BPS_DENOMINATOR)

-----------------------------------------------------------------------------
(* Validation.                                                             *)

validate_protocol_program(p, call) ==
  /\ config[p.config].protocol_program_id = call.program
  /\ call.program = JUPITER_PERPS_PROGRAM_ID

Derived(seed, program) == [seed |-> seed, program |-> program]

validate_jupiter_pdas(call) ==
  /\ call.perpetuals = Derived("perpetuals", call.program)
  /\ call.transfer_authority = Derived("transfer_authority", call.program)
  /\ call.event_authority = Derived("event_authority", call.program)

(* Mutant: the LP account need not be the position's. *)
MutAnyLpAccount(p, call) ==
  call.pool = position[p].place.pool /\ call.pool = JLP_POOL
  /\ call.custody = position[p].place.custody /\ call.custody = JLP_USDC_CUSTODY

validate_static_position_accounts(p, call) ==
  /\ call.pool = position[p].place.pool /\ call.pool = JLP_POOL
  /\ call.custody = position[p].place.custody /\ call.custody = JLP_USDC_CUSTODY
  /\ call.lp = position[p].place.lp

(* validate_token_account_with_owner_only, for the JLP account. *)
ValidLpAccount(call) ==
  TokenFacts[call.lp].mint = JLP_MINT /\ tokens[call.lp].owner = call.signer

validate_custody_basic(p, call) ==
  LET facts == CustodyFacts[call.custody] IN
  /\ facts.program = JUPITER_PERPS_PROGRAM_ID
  /\ facts.pool = call.pool
  /\ facts.mint = config[p.config].supported_mint

validate_custody_accounts(p, call) ==
  LET facts == CustodyFacts[call.custody] IN
  /\ validate_custody_basic(p, call)
  /\ call.custody_token_account = facts.token_account
  /\ call.doves = facts.doves /\ call.doves = JLP_USDC_DOVES_AG_PRICE_ACCOUNT
  /\ call.pythnet = facts.pythnet

(* read_pool_aum_with_custody fails unless the pool has the custody. *)
ReadablePool(call) ==
  /\ PoolFacts[call.pool].program = JUPITER_PERPS_PROGRAM_ID
  /\ call.custody \in PoolFacts[call.pool].custodies

validate_value_accounts(p, call) ==
  /\ validate_static_position_accounts(p, call)
  /\ ValidLpAccount(call)
  /\ call.lp_mint = JLP_MINT
  /\ validate_custody_basic(p, call)
  /\ ReadablePool(call)

(* The user's USDC account, which pays or is paid. *)
ValidWallet(p, call) ==
  call.wallet = [program |-> call.token_program,
                 mint |-> config[p.config].supported_mint, owner |-> call.signer]

(* validate_deposit_accounts and validate_withdraw_accounts check the same. *)
validate_movement_accounts(p, call) ==
  /\ validate_protocol_program(p, call)
  /\ validate_jupiter_pdas(call)
  /\ call.token_program = TOKEN_PROGRAM_ID
  /\ validate_value_accounts(p, call)
  /\ ValidWallet(p, call)
  /\ TokenFacts[call.lp].program = call.token_program
  /\ call.lp_mint = PoolFacts[call.pool].lp_mint
  /\ validate_custody_accounts(p, call)
  /\ call.pool \in Listed

-----------------------------------------------------------------------------
(* The instructions.                                                       *)

Places ==
  [pool: DOMAIN PoolFacts, custody: DOMAIN CustodyFacts, lp: TokenAccounts]

initialize_config(supported_mint, protocol_program_id, version) ==
  /\ supported_mint # DefaultPubkey /\ protocol_program_id # DefaultPubkey
  /\ CreateConfig(supported_mint, protocol_program_id, version)
  /\ UNCHANGED <<tokens, pool>>

initialize_position(owner, configuration, place) ==
  /\ \A part \in DOMAIN place : place[part] # DefaultPubkey
  /\ CreatePosition(owner, configuration, place)
  /\ UNCHANGED <<tokens, pool>>

(* Mutant: any amount of JLP will do for a deposit. *)
MutNoMinimum(amount) == 0

min_lp_amount_out(amount) ==
  apply_bps_floor(usdc_to_lp_floor(amount, pool.aum, pool.supply), DEPOSIT_MIN_OUT_BPS)

(* Mutant: no buffer is added to what a withdrawal is quoted. *)
MutNoBuffer(amount) == usdc_to_lp_ceil(amount, pool.aum, pool.supply)

lp_amount_in(amount) ==
  apply_bps_ceil(usdc_to_lp_ceil(amount, pool.aum, pool.supply), WITHDRAW_BURN_BUFFER_BPS)

(* Mutant: the value is taken from the pool as it was before the call. *)
MutValueBeforeCall(shares) == lp_to_usdc_floor(shares, pool.aum, pool.supply)

ValueAfter(shares) == lp_to_usdc_floor(shares, pool'.aum, pool'.supply)

deposit(p, call, amount, minted, aum) ==
  /\ amount > 0
  /\ validate_owner_and_mint(p, call.signer, call.mint)
  /\ validate_movement_accounts(p, call)
  /\ Fits(usdc_to_lp_floor(amount, pool.aum, pool.supply))
  /\ add_liquidity2(call.lp, min_lp_amount_out(amount), minted, aum)
  /\ LET shares == tokens'[call.lp].amount IN
     RecordDeposit(p, call.signer, amount, shares, ValueAfter(shares))

withdraw(p, call, amount, aum) ==
  /\ amount > 0
  /\ validate_owner_and_mint(p, call.signer, call.mint)
  /\ validate_movement_accounts(p, call)
  /\ Fits(lp_amount_in(amount))
  /\ tokens[call.lp].amount >= lp_amount_in(amount)
  /\ remove_liquidity2(call.lp, call.signer, lp_amount_in(amount), aum)
  /\ LET shares == tokens'[call.lp].amount IN
     RecordWithdraw(p, call.signer, amount, shares, ValueAfter(shares))

current_value(p, call) ==
  /\ validate_owner_and_mint(p, call.signer, call.mint)
  /\ validate_value_accounts(p, call)
  /\ LET shares == tokens[call.lp].amount IN
     Report(p, call.signer, shares, lp_to_usdc_floor(shares, pool.aum, pool.supply))
  /\ UNCHANGED <<tokens, pool>>

-----------------------------------------------------------------------------
Init ==
  /\ NoAccounts
  /\ tokens \in InitialTokens /\ \A t \in TokenAccounts : tokens[t].amount = 0
  /\ pool = [aum |-> 0, supply |-> 0]

Jupiter == UseJupiter \/ (UseTokens /\ UNCHANGED pool)

Adapter ==
  \/ \E mint \in Mints, program \in Programs, version \in Versions :
       initialize_config(mint, program, version)
  \/ \E owner \in Users, configuration \in DOMAIN config, place \in Places :
       initialize_position(owner, configuration, place)
  \/ \E p \in DOMAIN position, call \in Calls :
       \/ \E amount \in Amounts, aum \in Aums :
            \/ \E minted \in U64 : deposit(p, call, amount, minted, aum)
            \/ withdraw(p, call, amount, aum)
       \/ current_value(p, call)

Next == (Jupiter /\ Elsewhere) \/ Adapter

Spec == Init /\ [][Next]_vars

-----------------------------------------------------------------------------
(* Properties.                                                             *)

(* Every account has values of its type. *)
TypeOK == AccountsTypeOK(Places) /\ TokensTypeOK /\ pool \in Pool

(* Whatever the adapter reports is what the owner's JLP is worth in the    *)
(* pool right then, rounded down, also after a call in which the pool was  *)
(* revalued and whatever else moved the JLP before (lib.rs:171-173,        *)
(* 261-263, 923-987).                                                      *)
ReportsThePoolsRate ==
  event.kind # "none" =>
    LET held == tokens[position[event.position].place.lp].amount IN
    /\ event.shares = held
    /\ event.value * pool.supply <= held * pool.aum
    /\ IF pool.supply = 0
       THEN event.value = 0
       ELSE held * pool.aum < (event.value + 1) * pool.supply

(* JLP moved from or to the account of a position. *)
Gained(p) == LET t == position[p].place.lp IN tokens'[t].amount - tokens[t].amount

(* The pool may be revalued inside the calls, yet measured by what it      *)
(* stated before them a deposit gets at least 95 % of its quote and a      *)
(* withdrawal costs between 101 % of its quote and that plus the two       *)
(* roundings, at most what the owner held (lib.rs:119-122, 208-213,        *)
(* 989-1035).                                                              *)
TradesNearTheQuote ==
  [][LET exact == event'.amount * pool.supply
         got == Gained(event'.position) IN
     pool.aum > 0 /\ pool.supply > 0 =>
       /\ event'.kind = "deposit" =>
            10000 * pool.aum * (got + 1) > 9500 * (exact - pool.aum)
       /\ event'.kind = "withdraw" =>
            /\ 10100 * exact <= 10000 * pool.aum * (-got)
            /\ 10000 * pool.aum * (-got) < 10100 * (exact + pool.aum) + 10000 * pool.aum
            /\ -got <= tokens[position[event'.position].place.lp].amount]_vars

(* JLP moves by an instruction of the adapter only in the account that the *)
(* position is bound to and its owner owns, up in a deposit and down in a  *)
(* withdrawal (lib.rs:573-582, 714-730, 904-921).                          *)
MovesOnlyTheOwnersLp ==
  [][event'.kind # "none" =>
       \A t \in TokenAccounts : tokens'[t] # tokens[t] =>
         /\ t = position[event'.position].place.lp
         /\ tokens[t].owner = event'.position.owner /\ tokens'[t].owner = tokens[t].owner
         /\ tokens'[t].amount < tokens[t].amount <=> event'.kind = "withdraw"]_vars
=============================================================================
