---------------------------- MODULE JupiterProofs ----------------------------
(***************************************************************************)
(* Proofs about the Jupiter adapter, for any pool, any rates the           *)
(* perpetuals program trades at and any users.  The properties need no     *)
(* more than the types: an announcement is made from what the token        *)
(* account and the pool hold after the call, whatever the call did.        *)
(***************************************************************************)
EXTENDS JupiterLp, AccountsProofs

IInv == AccountsInv(Places) /\ TokensTypeOK /\ pool \in Pool

-----------------------------------------------------------------------------
(* Tokens and the pool.                                                    *)

LEMMA TokenAmounts ==
  ASSUME TokensTypeOK
  PROVE  /\ tokens \in [TokenAccounts -> [owner: Users, amount: U64]]
         /\ \A t \in TokenAccounts : tokens[t].amount \in Nat
BY JupiterConstants, AccountsConstants DEF TokensTypeOK, U64

LEMMA PoolNumbers ==
  ASSUME pool \in Pool
  PROVE  pool.aum \in Nat /\ pool.supply \in Nat /\ pool.supply <= MaxU64
<1>1. pool.aum \in Aums /\ pool.supply \in 0 .. MaxU64
  BY DEF Pool, U64
<1>2. Aums \subseteq Nat /\ MaxU64 \in Nat
  BY JupiterConstants, AccountsConstants
<1>3. pool.aum \in Nat
  BY <1>1, <1>2
<1>4. pool.supply \in Nat /\ pool.supply <= MaxU64
  BY <1>1, <1>2
<1> QED BY <1>3, <1>4

(* One account's amount changes, and nothing else.                         *)
LEMMA AmountSet ==
  ASSUME TokensTypeOK, NEW t \in TokenAccounts, NEW amount \in U64,
         tokens' = [tokens EXCEPT ![t].amount = amount]
  PROVE  /\ TokensTypeOK'
         /\ tokens'[t].amount = amount
         /\ \A u \in TokenAccounts : /\ tokens'[u].owner = tokens[u].owner
                                     /\ u # t => tokens'[u] = tokens[u]
<1> DEFINE account == [tokens[t] EXCEPT !.amount = amount]
<1>1. tokens \in [TokenAccounts -> [owner: Holders, amount: U64]]
  BY DEF TokensTypeOK
<1>2. tokens' = [tokens EXCEPT ![t] = account]
  BY <1>1
<1>3. /\ account \in [owner: Holders, amount: U64]
      /\ account.owner = tokens[t].owner /\ account.amount = amount
  BY <1>1
<1> HIDE DEF account
<1> QED BY <1>1, <1>2, <1>3 DEF TokensTypeOK

LEMMA AddMoves ==
  ASSUME IInv, NEW t \in TokenAccounts, NEW minimum, NEW minted \in Nat, NEW aum \in Aums,
         add_liquidity2(t, minimum, minted, aum)
  PROVE  /\ TokensTypeOK' /\ pool' \in Pool
         /\ tokens'[t].amount = tokens[t].amount + minted
         /\ \A u \in TokenAccounts : /\ tokens'[u].owner = tokens[u].owner
                                     /\ u # t => tokens'[u] = tokens[u]
<1>1. tokens[t].amount \in Nat /\ pool.supply \in Nat
  BY TokenAmounts, PoolNumbers DEF IInv
<1>2. /\ tokens[t].amount + minted <= MaxU64
      /\ tokens' = [tokens EXCEPT ![t].amount = tokens[t].amount + minted]
      /\ pool.supply + minted <= MaxU64
      /\ pool' = [aum |-> aum, supply |-> pool.supply + minted]
  BY DEF add_liquidity2, Mint
<1>3. tokens[t].amount + minted \in U64 /\ pool.supply + minted \in U64
  BY <1>1, <1>2, AccountsConstants DEF U64
<1> QED BY <1>2, <1>3, AmountSet DEF IInv, Pool

LEMMA RemoveMoves ==
  ASSUME IInv, NEW t \in TokenAccounts, NEW signer, NEW burnt \in Nat, NEW aum \in Aums,
         remove_liquidity2(t, signer, burnt, aum)
  PROVE  /\ TokensTypeOK' /\ pool' \in Pool
         /\ tokens[t].owner = signer /\ burnt <= tokens[t].amount
         /\ tokens'[t].amount = tokens[t].amount - burnt
         /\ \A u \in TokenAccounts : /\ tokens'[u].owner = tokens[u].owner
                                     /\ u # t => tokens'[u] = tokens[u]
<1>1. tokens[t].amount \in U64 /\ pool.supply \in U64
  BY TokenAmounts DEF IInv, Pool
<1>2. /\ tokens[t].owner = signer /\ burnt <= tokens[t].amount
      /\ tokens' = [tokens EXCEPT ![t].amount = tokens[t].amount - burnt]
      /\ burnt <= pool.supply
      /\ pool' = [aum |-> aum, supply |-> pool.supply - burnt]
  BY DEF remove_liquidity2, Burn
<1>3. tokens[t].amount - burnt \in U64 /\ pool.supply - burnt \in U64
  BY <1>1, <1>2, AccountsConstants DEF U64
<1> QED BY <1>2, <1>3, AmountSet DEF IInv, Pool

LEMMA UsersKeepTypes ==
  ASSUME TokensTypeOK, UseTokens
  PROVE  TokensTypeOK'
<1>1. ASSUME NEW s \in TokenAccounts, NEW d \in TokenAccounts, NEW user \in Users,
             NEW amount \in Amounts, Transfer(s, d, user, amount)
      PROVE  TokensTypeOK'
  <2> DEFINE source == [tokens[s] EXCEPT !.amount = @ - amount]
             destination == [tokens[d] EXCEPT !.amount = @ + amount]
  <2>1. /\ tokens \in [TokenAccounts -> [owner: Holders, amount: U64]]
        /\ amount \in Nat
    BY SplTokensConstants DEF TokensTypeOK
  <2>2. /\ s # d
        /\ amount <= tokens[s].amount /\ tokens[d].amount + amount <= MaxU64
        /\ tokens' = [tokens EXCEPT ![s].amount = @ - amount, ![d].amount = @ + amount]
    BY <1>1 DEF Transfer
  <2>3. tokens' = [[tokens EXCEPT ![s] = source] EXCEPT ![d] = destination]
    BY <2>1, <2>2
  <2>4. /\ source \in [owner: Holders, amount: U64]
        /\ destination \in [owner: Holders, amount: U64]
    BY <2>1, <2>2, AccountsConstants DEF U64
  <2> HIDE DEF source, destination
  <2> QED BY <2>1, <2>3, <2>4 DEF TokensTypeOK
<1>2. ASSUME NEW t \in TokenAccounts, NEW holder \in Holders, SetAuthority(t, holder)
      PROVE  TokensTypeOK'
  BY <1>2 DEF SetAuthority, TokensTypeOK
<1> QED BY <1>1, <1>2 DEF UseTokens

LEMMA JupiterKeepsTypes ==
  ASSUME IInv, Jupiter
  PROVE  TokensTypeOK' /\ pool' \in Pool
<1>1. CASE UseTokens /\ UNCHANGED pool
  BY <1>1, UsersKeepTypes DEF IInv
<1>2. ASSUME NEW aum \in Aums, Revalue(aum)
      PROVE  TokensTypeOK' /\ pool' \in Pool
  BY <1>2 DEF IInv, Revalue, Pool, TokensTypeOK
<1>3. ASSUME NEW aum \in Aums, NEW t \in TokenAccounts, NEW amount \in Amounts,
             \/ add_liquidity2(t, 0, amount, aum)
             \/ remove_liquidity2(t, tokens[t].owner, amount, aum)
      PROVE  TokensTypeOK' /\ pool' \in Pool
  BY <1>3, SplTokensConstants, AddMoves, RemoveMoves
<1> QED BY <1>1, <1>2, <1>3 DEF Jupiter, UseJupiter

-----------------------------------------------------------------------------
(* The instructions.                                                       *)

(* What a list of accounts that passes the checks of a query is.           *)
LEMMA CallIsTheOwners ==
  ASSUME IInv, NEW p \in DOMAIN position, NEW call \in Calls,
         validate_owner_and_mint(p, call.signer, call.mint), validate_value_accounts(p, call)
  PROVE  /\ call.signer \in Users /\ call.signer = position[p].owner
         /\ p.owner = call.signer
         /\ call.lp \in TokenAccounts /\ call.lp = position[p].place.lp
         /\ tokens[call.lp].owner = call.signer
BY JupiterConstants
DEF IInv, AccountsInv, OwnersMatch, validate_owner_and_mint, validate_value_accounts,
    validate_static_position_accounts, ValidLpAccount

LEMMA DepositMoves ==
  ASSUME IInv, NEW p \in DOMAIN position, NEW call \in Calls, NEW amount \in Amounts,
         NEW minted \in U64, NEW aum \in Aums, deposit(p, call, amount, minted, aum)
  PROVE  /\ amount \in Nat \ {0} /\ minted \in Nat
         /\ validate_owner_and_mint(p, call.signer, call.mint)
         /\ validate_value_accounts(p, call)
         /\ add_liquidity2(call.lp, min_lp_amount_out(amount), minted, aum)
         /\ RecordDeposit(p, call.signer, amount, tokens'[call.lp].amount,
                          ValueAfter(tokens'[call.lp].amount))
BY SplTokensConstants, AccountsConstants DEF deposit, validate_movement_accounts, U64

LEMMA Quoted ==
  ASSUME IInv, NEW amount \in Nat
  PROVE  lp_amount_in(amount) \in Nat
<1>1. /\ pool.aum \in Nat /\ pool.supply \in Nat
  BY PoolNumbers DEF IInv
<1>2. usdc_to_lp_ceil(amount, pool.aum, pool.supply) \in Nat
  <2>1. CASE pool.supply = 0 \/ pool.aum = 0
    BY <2>1 DEF usdc_to_lp_ceil
  <2>2. CASE pool.supply # 0 /\ pool.aum # 0
    <3>1. amount * pool.supply \in Nat /\ pool.aum \in Nat \ {0}
      BY <1>1, <2>2
    <3>2. (amount * pool.supply + pool.aum - 1) \div pool.aum \in Nat
      BY <3>1, RoundedUp
    <3> QED BY <2>2, <3>2 DEF usdc_to_lp_ceil, Ceiling
  <2> QED BY <2>1, <2>2
<1>3. \A quote \in Nat : apply_bps_ceil(quote, WITHDRAW_BURN_BUFFER_BPS) \in Nat
  BY DEF apply_bps_ceil, Ceiling, WITHDRAW_BURN_BUFFER_BPS, BPS_DENOMINATOR
<1> QED BY <1>2, <1>3 DEF lp_amount_in

LEMMA WithdrawMoves ==
  ASSUME IInv, NEW p \in DOMAIN position, NEW call \in Calls, NEW amount \in Amounts,
         NEW aum \in Aums, withdraw(p, call, amount, aum)
  PROVE  /\ amount \in Nat \ {0} /\ lp_amount_in(amount) \in Nat
         /\ validate_owner_and_mint(p, call.signer, call.mint)
         /\ validate_value_accounts(p, call)
         /\ remove_liquidity2(call.lp, call.signer, lp_amount_in(amount), aum)
         /\ RecordWithdraw(p, call.signer, amount, tokens'[call.lp].amount,
                           ValueAfter(tokens'[call.lp].amount))
BY SplTokensConstants, Quoted DEF withdraw, validate_movement_accounts

LEMMA CurrentValueTells ==
  ASSUME IInv, NEW p \in DOMAIN position, NEW call \in Calls, current_value(p, call)
  PROVE  /\ validate_owner_and_mint(p, call.signer, call.mint)
         /\ validate_value_accounts(p, call)
         /\ Report(p, call.signer, tokens[call.lp].amount,
                   lp_to_usdc_floor(tokens[call.lp].amount, pool.aum, pool.supply))
         /\ UNCHANGED <<tokens, pool>>
BY DEF current_value

LEMMA StepsAreAccountSteps ==
  ASSUME IInv, Next
  PROVE  AccountStep(Places)
<1>1. CASE Jupiter /\ Elsewhere
  BY <1>1 DEF AccountStep
<1>2. ASSUME NEW mint \in Mints, NEW program \in Programs, NEW version \in Versions,
             initialize_config(mint, program, version)
      PROVE  AccountStep(Places)
  BY <1>2 DEF initialize_config, AccountStep
<1>3. ASSUME NEW owner \in Users, NEW configuration \in DOMAIN config,
             NEW place \in Places, initialize_position(owner, configuration, place)
      PROVE  AccountStep(Places)
  BY <1>3 DEF initialize_position, AccountStep
<1>4. ASSUME NEW p \in DOMAIN position, NEW call \in Calls, NEW amount \in Amounts,
             NEW minted \in U64, NEW aum \in Aums, deposit(p, call, amount, minted, aum)
      PROVE  AccountStep(Places)
  <2>1. Moved(p)
    BY <1>4, DepositMoves, CallIsTheOwners, RecordedIsMoved
  <2> QED BY <2>1 DEF AccountStep
<1>5. ASSUME NEW p \in DOMAIN position, NEW call \in Calls, NEW amount \in Amounts,
             NEW aum \in Aums, withdraw(p, call, amount, aum)
      PROVE  AccountStep(Places)
  <2>1. Moved(p)
    BY <1>5, WithdrawMoves, CallIsTheOwners, RecordedIsMoved
  <2> QED BY <2>1 DEF AccountStep
<1>6. ASSUME NEW p \in DOMAIN position, NEW call \in Calls, current_value(p, call)
      PROVE  AccountStep(Places)
  <2>1. Told(p)
    BY <1>6, CurrentValueTells, CallIsTheOwners, ReportedIsTold
  <2> QED BY <2>1 DEF AccountStep
<1> QED BY <1>1, <1>2, <1>3, <1>4, <1>5, <1>6 DEF Next, Adapter

-----------------------------------------------------------------------------
(* The invariant.                                                          *)

LEMMA InitIInv == Init => IInv
<1> SUFFICES ASSUME Init PROVE IInv
  OBVIOUS
<1>1. AccountsInv(Places)
  BY AccountsInit DEF Init
<1>2. TokensTypeOK
  BY SplTokensConstants DEF Init, TokensTypeOK
<1>3. pool \in Pool
  BY JupiterConstants, AccountsConstants DEF Init, Pool, U64
<1> QED BY <1>1, <1>2, <1>3 DEF IInv

LEMMA NextKeepsIInv ==
  ASSUME IInv, Next
  PROVE  IInv'
<1>1. AccountsInv(Places)'
  BY StepsAreAccountSteps, AccountStepKeeps DEF IInv
<1> SUFFICES TokensTypeOK' /\ pool' \in Pool
  BY <1>1 DEF IInv
<1>2. CASE Jupiter
  BY <1>2, JupiterKeepsTypes
<1>3. ASSUME NEW p \in DOMAIN position, NEW call \in Calls, NEW amount \in Amounts,
             NEW minted \in U64, NEW aum \in Aums, deposit(p, call, amount, minted, aum)
      PROVE  TokensTypeOK' /\ pool' \in Pool
  BY <1>3, DepositMoves, CallIsTheOwners, AddMoves
<1>4. ASSUME NEW p \in DOMAIN position, NEW call \in Calls, NEW amount \in Amounts,
             NEW aum \in Aums, withdraw(p, call, amount, aum)
      PROVE  TokensTypeOK' /\ pool' \in Pool
  BY <1>4, WithdrawMoves, CallIsTheOwners, RemoveMoves
<1>5. ASSUME UNCHANGED <<tokens, pool>>
      PROVE  TokensTypeOK' /\ pool' \in Pool
  BY <1>5 DEF IInv, TokensTypeOK
<1> QED BY <1>2, <1>3, <1>4, <1>5
        DEF Next, Adapter, initialize_config, initialize_position, current_value

-----------------------------------------------------------------------------
(* The properties.                                                         *)

(* The value of JLP is its exact worth in the pool, floored. *)
LEMMA ValueIsFloored ==
  ASSUME NEW lp \in Nat, NEW aum \in Nat, NEW supply \in Nat
  PROVE  LET value == lp_to_usdc_floor(lp, aum, supply) IN
         /\ value * supply <= lp * aum
         /\ IF supply = 0 THEN value = 0 ELSE lp * aum < (value + 1) * supply
<1> DEFINE worth == lp * aum
<1>1. worth \in Nat
  OBVIOUS
<1>2. lp_to_usdc_floor(lp, aum, supply) = IF supply = 0 THEN 0 ELSE worth \div supply
  BY DEF lp_to_usdc_floor
<1> HIDE DEF worth
<1>3. CASE supply = 0
  BY <1>1, <1>2, <1>3 DEF worth
<1>4. CASE supply # 0
  <2>1. supply \in Nat \ {0}
    BY <1>4
  <2>2. (worth \div supply) * supply <= worth /\ worth < (worth \div supply + 1) * supply
    BY <1>1, <2>1, Floored
  <2> QED BY <1>2, <1>4, <2>2 DEF worth
<1> QED BY <1>3, <1>4

(* Any announcement that is made from the accounts as they are then. *)
LEMMA AnnouncementIsRight ==
  ASSUME TokensTypeOK', pool' \in Pool, NEW t \in TokenAccounts,
         position'[event'.position].place.lp = t,
         event'.shares = tokens'[t].amount,
         event'.value = lp_to_usdc_floor(tokens'[t].amount, pool'.aum, pool'.supply)
  PROVE  ReportsThePoolsRate'
<1> DEFINE held == tokens'[t].amount
<1>1. held \in Nat
  BY AccountsConstants DEF TokensTypeOK, U64
<1>2. pool'.aum \in Nat /\ pool'.supply \in Nat
  <2>1. pool'.aum \in Aums /\ pool'.supply \in U64
    BY DEF Pool
  <2>2. Aums \subseteq Nat /\ U64 \subseteq Nat
    BY JupiterConstants, AccountsConstants DEF U64
  <2> QED BY <2>1, <2>2
<1>3. /\ event'.value * pool'.supply <= held * pool'.aum
      /\ IF pool'.supply = 0 THEN event'.value = 0
         ELSE held * pool'.aum < (event'.value + 1) * pool'.supply
  BY <1>1, <1>2, ValueIsFloored
<1> QED BY <1>3 DEF ReportsThePoolsRate

LEMMA NextReports ==
  ASSUME IInv, Next
  PROVE  ReportsThePoolsRate'
<1>1. TokensTypeOK' /\ pool' \in Pool
  BY NextKeepsIInv DEF IInv
<1>2. ASSUME event' = NoEvent
      PROVE  ReportsThePoolsRate'
  BY <1>2 DEF NoEvent, ReportsThePoolsRate
<1>3. ASSUME NEW p \in DOMAIN position, NEW call \in Calls, NEW amount \in Amounts,
             NEW minted \in U64, NEW aum \in Aums, deposit(p, call, amount, minted, aum)
      PROVE  ReportsThePoolsRate'
  <2>1. call.lp \in TokenAccounts /\ call.lp = position[p].place.lp
    BY <1>3, DepositMoves, CallIsTheOwners
  <2>2. /\ position'[p].place = position[p].place /\ event'.position = p
        /\ event'.shares = tokens'[call.lp].amount
        /\ event'.value = ValueAfter(tokens'[call.lp].amount)
    BY <1>3, DepositMoves, RecordWrites DEF RecordDeposit, IInv
  <2> QED BY <1>1, <2>1, <2>2, AnnouncementIsRight DEF ValueAfter
<1>4. ASSUME NEW p \in DOMAIN position, NEW call \in Calls, NEW amount \in Amounts,
             NEW aum \in Aums, withdraw(p, call, amount, aum)
      PROVE  ReportsThePoolsRate'
  <2>1. call.lp \in TokenAccounts /\ call.lp = position[p].place.lp
    BY <1>4, WithdrawMoves, CallIsTheOwners
  <2>2. /\ position'[p].place = position[p].place /\ event'.position = p
        /\ event'.shares = tokens'[call.lp].amount
        /\ event'.value = ValueAfter(tokens'[call.lp].amount)
    BY <1>4, WithdrawMoves, RecordWrites DEF RecordWithdraw, IInv
  <2> QED BY <1>1, <2>1, <2>2, AnnouncementIsRight DEF ValueAfter
<1>5. ASSUME NEW p \in DOMAIN position, NEW call \in Calls, current_value(p, call)
      PROVE  ReportsThePoolsRate'
  <2>1. call.lp \in TokenAccounts /\ call.lp = position[p].place.lp
    BY <1>5, CurrentValueTells, CallIsTheOwners
  <2>2. /\ position' = position /\ event'.position = p
        /\ event'.shares = tokens[call.lp].amount
        /\ event'.value = lp_to_usdc_floor(tokens[call.lp].amount, pool.aum, pool.supply)
        /\ tokens' = tokens /\ pool' = pool
    BY <1>5, CurrentValueTells DEF Report
  <2> QED BY <1>1, <2>1, <2>2, AnnouncementIsRight
<1> QED BY <1>2, <1>3, <1>4, <1>5
        DEF Next, Adapter, Elsewhere, Silent, initialize_config, CreateConfig,
            initialize_position, CreatePosition

(* A deposit's bound is at least 95 % of the quote less two roundings.     *)
AtLeastNearQuote(got, exact, aum) == 10000 * aum * (got + 1) > 9500 * (exact - aum)

LEMMA MinimumNearQuote ==
  ASSUME NEW exact \in Nat, NEW aum \in Nat \ {0}, NEW got \in Nat, NEW minimum \in Nat,
         minimum = apply_bps_floor(exact \div aum, DEPOSIT_MIN_OUT_BPS), got >= minimum
  PROVE  AtLeastNearQuote(got, exact, aum)
<1> DEFINE quote == exact \div aum
<1>1. quote \in Nat /\ exact < (quote + 1) * aum
  BY Floored
<1>2. got >= (quote * 9500) \div 10000
  BY DEF apply_bps_floor, DEPOSIT_MIN_OUT_BPS, BPS_DENOMINATOR
<1> HIDE DEF quote
<1>3. 10000 * (got + 1) > 9500 * quote
  BY <1>1, <1>2
<1>4. 9500 * quote * aum <= 10000 * (got + 1) * aum
  BY <1>1, <1>3, ProductsOrdered
<1>5. (quote + 1) * aum = quote * aum + aum
  BY <1>1
<1>6. quote * aum \in Int /\ (got + 1) * aum \in Int
  BY <1>1
<1>7. 9500 * quote * aum = 9500 * (quote * aum)
      /\ 10000 * (got + 1) * aum = 10000 * ((got + 1) * aum)
      /\ 10000 * aum * (got + 1) = 10000 * ((got + 1) * aum)
  BY <1>1
<1>8. exact - aum < quote * aum
  BY <1>1, <1>5, <1>6
<1> DEFINE a == quote * aum
           b == (got + 1) * aum
<1>9. 9500 * a <= 10000 * b /\ exact - aum < a /\ a \in Int /\ b \in Int
  BY <1>4, <1>6, <1>7, <1>8
<1>10. 10000 * aum * (got + 1) = 10000 * b
  BY <1>7
<1> HIDE DEF a, b
<1>11. 10000 * b > 9500 * (exact - aum)
  BY <1>9
<1> QED BY <1>10, <1>11 DEF AtLeastNearQuote

(* What a withdrawal burns is 101 % of the quote, plus two roundings.      *)
LEMMA BurnNearQuote ==
  ASSUME NEW exact \in Nat, NEW aum \in Nat \ {0}, NEW burnt \in Nat,
         burnt = apply_bps_ceil(Ceiling(exact, aum), WITHDRAW_BURN_BUFFER_BPS)
  PROVE  /\ 10100 * exact <= 10000 * aum * burnt
         /\ 10000 * aum * burnt < 10100 * (exact + aum) + 10000 * aum
<1> DEFINE quote == Ceiling(exact, aum)
<1>1. quote \in Nat /\ exact <= quote * aum /\ quote * aum < exact + aum
  BY RoundedUp DEF Ceiling
<1>2. burnt = (quote * 10100 + 10000 - 1) \div 10000
  BY DEF apply_bps_ceil, Ceiling, WITHDRAW_BURN_BUFFER_BPS, BPS_DENOMINATOR
<1> HIDE DEF quote
<1>3. 10100 * quote <= 10000 * burnt /\ 10000 * burnt <= 10100 * quote + 10000
  BY <1>1, <1>2
<1>4. /\ 10100 * quote * aum <= 10000 * burnt * aum
      /\ 10000 * burnt * aum <= (10100 * quote + 10000) * aum
  BY <1>1, <1>3, ProductsOrdered
<1>5. /\ 10100 * quote * aum = 10100 * (quote * aum)
      /\ 10000 * burnt * aum = 10000 * aum * burnt
      /\ (10100 * quote + 10000) * aum = 10100 * (quote * aum) + 10000 * aum
  BY <1>1
<1> DEFINE a == quote * aum
           b == 10000 * aum * burnt
<1>6. /\ a \in Int /\ b \in Int
      /\ 10100 * a <= b /\ b <= 10100 * a + 10000 * aum
      /\ exact <= a /\ a < exact + aum
  BY <1>1, <1>4, <1>5
<1> HIDE DEF a
<1>7. 10100 * exact <= b /\ b < 10100 * (exact + aum) + 10000 * aum
  <2> HIDE DEF b
  <2> QED BY <1>6
<1> QED BY <1>7

(* How far a step's trade may be from its quote. *)
TradeNearTheQuote ==
  LET exact == event'.amount * pool.supply
      got == Gained(event'.position) IN
  pool.aum > 0 /\ pool.supply > 0 =>
    /\ event'.kind = "deposit" =>
         10000 * pool.aum * (got + 1) > 9500 * (exact - pool.aum)
    /\ event'.kind = "withdraw" =>
         /\ 10100 * exact <= 10000 * pool.aum * (-got)
         /\ 10000 * pool.aum * (-got) < 10100 * (exact + pool.aum) + 10000 * pool.aum
         /\ -got <= tokens[position[event'.position].place.lp].amount

LEMMA DepositNearQuote ==
  ASSUME IInv, NEW p \in DOMAIN position, NEW call \in Calls, NEW amount \in Amounts,
         NEW minted \in U64, NEW aum \in Aums, deposit(p, call, amount, minted, aum)
  PROVE  TradeNearTheQuote
<1> SUFFICES ASSUME pool.aum > 0, pool.supply > 0
             PROVE  TradeNearTheQuote
  BY DEF TradeNearTheQuote
<1>1. /\ call.lp \in TokenAccounts /\ call.lp = position[p].place.lp
      /\ amount \in Nat /\ minted \in Nat
      /\ add_liquidity2(call.lp, min_lp_amount_out(amount), minted, aum)
  BY DepositMoves, CallIsTheOwners
<1>2. event'.kind = "deposit" /\ event'.position = p /\ event'.amount = amount
  BY DepositMoves, RecordWrites DEF RecordDeposit, IInv
<1>3. tokens'[call.lp].amount = tokens[call.lp].amount + minted
  BY <1>1, AddMoves
<1>4. Gained(p) = minted
  <2>1. tokens[call.lp].amount \in Nat
    BY <1>1, TokenAmounts DEF IInv
  <2> QED BY <1>1, <1>3, <2>1 DEF Gained
<1>5. pool.aum \in Nat \ {0} /\ pool.supply \in Nat
  BY PoolNumbers DEF IInv
<1>6. min_lp_amount_out(amount) = apply_bps_floor((amount * pool.supply) \div pool.aum,
                                                  DEPOSIT_MIN_OUT_BPS)
  BY <1>5 DEF min_lp_amount_out, usdc_to_lp_floor
<1>7. 10000 * pool.aum * (minted + 1) > 9500 * (amount * pool.supply - pool.aum)
  <2> DEFINE due == amount * pool.supply
             least == min_lp_amount_out(amount)
             d == pool.aum
  <2>1. due \in Nat /\ d \in Nat \ {0}
    BY <1>1, <1>5
  <2>2. minted >= least /\ least = apply_bps_floor(due \div d, DEPOSIT_MIN_OUT_BPS)
    BY <1>1, <1>6 DEF add_liquidity2
  <2> HIDE DEF due, least, d
  <2>3. least \in Nat
    <3>1. due \div d \in Nat
      BY <2>1, Floored
    <3> QED BY <3>1, <2>2 DEF apply_bps_floor, DEPOSIT_MIN_OUT_BPS, BPS_DENOMINATOR
  <2>4. AtLeastNearQuote(minted, due, d)
    BY <1>1, <2>1, <2>2, <2>3, MinimumNearQuote
  <2> QED BY <2>4 DEF due, d, AtLeastNearQuote
<1> QED BY <1>2, <1>4, <1>7 DEF TradeNearTheQuote

LEMMA WithdrawNearQuote ==
  ASSUME IInv, NEW p \in DOMAIN position, NEW call \in Calls, NEW amount \in Amounts,
         NEW aum \in Aums, withdraw(p, call, amount, aum)
  PROVE  TradeNearTheQuote
<1> SUFFICES ASSUME pool.aum > 0, pool.supply > 0
             PROVE  TradeNearTheQuote
  BY DEF TradeNearTheQuote
<1> DEFINE burnt == lp_amount_in(amount)
<1>1. /\ call.lp \in TokenAccounts /\ call.lp = position[p].place.lp
      /\ amount \in Nat /\ burnt \in Nat
      /\ remove_liquidity2(call.lp, call.signer, burnt, aum)
  BY WithdrawMoves, CallIsTheOwners
<1>2. event'.kind = "withdraw" /\ event'.position = p /\ event'.amount = amount
  BY WithdrawMoves, RecordWrites DEF RecordWithdraw, IInv
<1>3. /\ tokens'[call.lp].amount = tokens[call.lp].amount - burnt
      /\ burnt <= tokens[call.lp].amount
  BY <1>1, RemoveMoves
<1>4. -Gained(p) = burnt
  <2>1. tokens[call.lp].amount \in Nat
    BY <1>1, TokenAmounts DEF IInv
  <2> QED BY <1>1, <1>3, <2>1 DEF Gained
<1>5. pool.aum \in Nat \ {0} /\ pool.supply \in Nat \ {0}
  BY PoolNumbers DEF IInv
<1>6. /\ amount * pool.supply \in Nat
      /\ burnt = apply_bps_ceil(Ceiling(amount * pool.supply, pool.aum), WITHDRAW_BURN_BUFFER_BPS)
  BY <1>1, <1>5 DEF lp_amount_in, usdc_to_lp_ceil
<1> HIDE DEF burnt
<1>7. /\ 10100 * (amount * pool.supply) <= 10000 * pool.aum * burnt
      /\ 10000 * pool.aum * burnt < 10100 * (amount * pool.supply + pool.aum) + 10000 * pool.aum
  BY <1>1, <1>5, <1>6, BurnNearQuote
<1> QED BY <1>1, <1>2, <1>3, <1>4, <1>7 DEF TradeNearTheQuote

LEMMA NextTradesNearQuote ==
  ASSUME IInv, Next
  PROVE  TradeNearTheQuote
<1>1. ASSUME event'.kind \notin {"deposit", "withdraw"}
      PROVE  TradeNearTheQuote
  BY <1>1 DEF TradeNearTheQuote
<1>2. ASSUME NEW p \in DOMAIN position, NEW call \in Calls, current_value(p, call)
      PROVE  TradeNearTheQuote
  BY <1>1, <1>2 DEF current_value, Report
<1>3. ASSUME event' = NoEvent
      PROVE  TradeNearTheQuote
  BY <1>1, <1>3 DEF NoEvent
<1> QED BY <1>2, <1>3, DepositNearQuote, WithdrawNearQuote
        DEF Next, Adapter, Elsewhere, Silent, initialize_config, CreateConfig,
            initialize_position, CreatePosition

(* What a step may do to a token account. *)
MovesOnlyOwners(t) ==
  event'.kind # "none" /\ tokens'[t] # tokens[t] =>
    /\ t = position[event'.position].place.lp
    /\ tokens[t].owner = event'.position.owner /\ tokens'[t].owner = tokens[t].owner
    /\ tokens'[t].amount < tokens[t].amount <=> event'.kind = "withdraw"

LEMMA NextMovesOnlyOwners ==
  ASSUME IInv, Next, NEW t \in TokenAccounts
  PROVE  MovesOnlyOwners(t)
<1> SUFFICES ASSUME tokens'[t] # tokens[t]
             PROVE  MovesOnlyOwners(t)
  BY DEF MovesOnlyOwners
<1>1. ASSUME event' = NoEvent
      PROVE  MovesOnlyOwners(t)
  BY <1>1 DEF MovesOnlyOwners, NoEvent
<1>2. tokens[t] \in [owner: Users, amount: U64] /\ tokens[t].amount \in Nat
      /\ tokens'[t] \in [owner: Users, amount: U64]
  BY TokenAmounts, NextKeepsIInv, JupiterConstants DEF IInv, TokensTypeOK
<1>3. tokens'[t].owner = tokens[t].owner => tokens'[t].amount # tokens[t].amount
  BY <1>2
<1>4. ASSUME NEW p \in DOMAIN position, NEW call \in Calls, NEW amount \in Amounts,
             NEW minted \in U64, NEW aum \in Aums, deposit(p, call, amount, minted, aum)
      PROVE  MovesOnlyOwners(t)
  <2>1. /\ call.lp \in TokenAccounts /\ call.lp = position[p].place.lp
        /\ tokens[call.lp].owner = p.owner /\ minted \in Nat
    BY <1>4, DepositMoves, CallIsTheOwners
  <2>2. /\ tokens'[call.lp].amount = tokens[call.lp].amount + minted
        /\ tokens'[t].owner = tokens[t].owner
        /\ t # call.lp => tokens'[t] = tokens[t]
    BY <1>4, <2>1, DepositMoves, AddMoves
  <2>3. event'.kind = "deposit" /\ event'.position = p
    BY <1>4, DepositMoves, RecordWrites DEF RecordDeposit, IInv
  <2> QED BY <1>2, <1>3, <2>1, <2>2, <2>3 DEF MovesOnlyOwners
<1>5. ASSUME NEW p \in DOMAIN position, NEW call \in Calls, NEW amount \in Amounts,
             NEW aum \in Aums, withdraw(p, call, amount, aum)
      PROVE  MovesOnlyOwners(t)
  <2> DEFINE burnt == lp_amount_in(amount)
  <2>1. /\ call.lp \in TokenAccounts /\ call.lp = position[p].place.lp
        /\ tokens[call.lp].owner = p.owner /\ burnt \in Nat
    BY <1>5, WithdrawMoves, CallIsTheOwners
  <2>2. /\ tokens'[call.lp].amount = tokens[call.lp].amount - burnt
        /\ tokens'[t].owner = tokens[t].owner
        /\ t # call.lp => tokens'[t] = tokens[t]
    BY <1>5, <2>1, WithdrawMoves, RemoveMoves
  <2>3. event'.kind = "withdraw" /\ event'.position = p
    BY <1>5, WithdrawMoves, RecordWrites DEF RecordWithdraw, IInv
  <2> HIDE DEF burnt
  <2> QED BY <1>2, <1>3, <2>1, <2>2, <2>3 DEF MovesOnlyOwners
<1> QED BY <1>1, <1>4, <1>5
        DEF Next, Adapter, Elsewhere, Silent, initialize_config, initialize_position,
            current_value

-----------------------------------------------------------------------------
(* The theorems.                                                           *)

LEMMA Inductive == Spec => [](IInv /\ ReportsThePoolsRate)
<1>1. Init => IInv /\ ReportsThePoolsRate
  BY InitIInv DEF Init, NoAccounts, NoEvent, ReportsThePoolsRate
<1>2. IInv /\ ReportsThePoolsRate /\ [Next]_vars => (IInv /\ ReportsThePoolsRate)'
  <2> SUFFICES ASSUME IInv, ReportsThePoolsRate, [Next]_vars
               PROVE  IInv' /\ ReportsThePoolsRate'
    OBVIOUS
  <2>1. CASE Next
    BY <2>1, NextKeepsIInv, NextReports
  <2>2. CASE UNCHANGED vars
    BY <2>2 DEF vars, IInv, AccountsInv, AccountsTypeOK, OwnersMatch, Event, TokensTypeOK,
                ReportsThePoolsRate
  <2> QED BY <2>1, <2>2
<1> QED BY <1>1, <1>2, PTL DEF Spec

(* The accounts, the tokens and the pool keep their types. *)
THEOREM TypeCorrect == Spec => []TypeOK
<1>1. IInv => TypeOK
  BY DEF IInv, AccountsInv, TypeOK
<1> QED BY <1>1, Inductive, PTL

(* Whatever the pool was revalued to inside a call and whoever moved JLP   *)
(* before, an announcement is the owner's floored part of the pool then.   *)
THEOREM ReportsCorrect == Spec => []ReportsThePoolsRate
BY Inductive, PTL

(* A deposit gets at least 95 % of its quote, a withdrawal costs 101 % of  *)
(* its quote, up to the roundings and never more than is held.             *)
THEOREM TradesCorrect == Spec => TradesNearTheQuote
<1>1. IInv /\ [Next]_vars => [TradeNearTheQuote]_vars
  BY NextTradesNearQuote
<1>2. Spec => [][TradeNearTheQuote]_vars
  BY <1>1, Inductive, PTL DEF Spec
<1> QED BY <1>2 DEF TradeNearTheQuote, TradesNearTheQuote

(* An instruction moves JLP in the account of the signing owner's position *)
(* only, in the direction of the instruction.                              *)
THEOREM OnlyTheOwnersLp == Spec => MovesOnlyTheOwnersLp
<1>1. IInv /\ [Next]_vars => [\A t \in TokenAccounts : MovesOnlyOwners(t)]_vars
  BY NextMovesOnlyOwners
<1>2. (\A t \in TokenAccounts : MovesOnlyOwners(t)) =>
        (event'.kind # "none" =>
           \A t \in TokenAccounts : tokens'[t] # tokens[t] =>
             /\ t = position[event'.position].place.lp
             /\ tokens[t].owner = event'.position.owner /\ tokens'[t].owner = tokens[t].owner
             /\ tokens'[t].amount < tokens[t].amount <=> event'.kind = "withdraw")
  BY DEF MovesOnlyOwners
<1>3. Spec => [][event'.kind # "none" =>
           \A t \in TokenAccounts : tokens'[t] # tokens[t] =>
             /\ t = position[event'.position].place.lp
             /\ tokens[t].owner = event'.position.owner /\ tokens'[t].owner = tokens[t].owner
             /\ tokens'[t].amount < tokens[t].amount <=> event'.kind = "withdraw"]_vars
  BY <1>1, <1>2, Inductive, PTL DEF Spec
<1> QED BY <1>3 DEF MovesOnlyTheOwnersLp

(* The adapter implements the promise of every adapter. *)
THEOREM JupiterImplementsYieldAdapter == Spec => ImplementsYieldAdapter
<1>1. Init => Abstract!Init
  BY AccountsInitMaps DEF Init
<1>2. IInv /\ [Next]_vars => [Abstract!Next]_<<Booked, event>>
  <2>1. ASSUME IInv, Next PROVE Abstract!Next
    BY <2>1, StepsAreAccountSteps, AccountStepMaps DEF IInv
  <2>2. UNCHANGED vars => UNCHANGED <<Booked, event>>
    BY DEF vars, Booked
  <2> QED BY <2>1, <2>2
<1>3. Spec => Abstract!Init /\ [][Abstract!Next]_<<Booked, event>>
  BY <1>1, <1>2, Inductive, PTL DEF Spec
<1> QED BY <1>3 DEF ImplementsYieldAdapter, Abstract!Spec
=============================================================================
